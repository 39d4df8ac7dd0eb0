----------------------------- MODULE MCCompanions -----------------------------
(* The companions of Supervision with their fairness, while the frontend they  *)
(* run beside does nothing: one companion that needs time to start.            *)
CONSTANTS Count, Required, Slow, Processes, CompanionMaxCrashes, MaxFaults, none
VARIABLES companionSup, pos, step, ready, entry, health, live, sick, record,
          companionCrashes, faults, lost

Keeper == INSTANCE Supervision WITH
    Versions <- none, First <- none, Launches <- none, MaxRequests <- none,
    MaxTrouble <- none, FrontendMaxCrashes <- none, None <- none,
    selected <- none, desired <- none, journal <- none, mode <- none, named <- none,
    request <- none, front <- none, durable <- none, frontendSup <- none,
    settled <- none, trouble <- none, frontendCrashes <- none, requests <- none

companionVars == <<companionSup, pos, step, ready, entry, health, live, sick, record,
                   companionCrashes, faults, lost>>

Init == Keeper!CompanionInit

Next == Keeper!CompanionNext

CompanionSpec ==
    /\ Init
    /\ [][Next]_companionVars
    /\ WF_companionVars(Keeper!Boot) /\ WF_companionVars(Keeper!TickStep)

\* A companion that fails a bounded number of times is repaired: it is found healthy again,
\* unless the supervisor was asked to stop (supervise_companions; "A failed sidecar is
\* repaired independently").
Repaired == Keeper!Repaired
===============================================================================
