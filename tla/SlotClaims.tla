----------------------------- MODULE SlotClaims ------------------------------
(***************************************************************************)
(* One claim file of the execution scheduler: a slot, the head lock of a   *)
(* queue, or a claim gate (create_new_json, remove_stale, claim_once and   *)
(* release_owned in cpp-mcp/src/scheduler.cpp).  Processes share nothing   *)
(* but the file.  Creation is exclusive; the owner is written after it;    *)
(* a file whose owner is dead is inspected first and removed later.        *)
(***************************************************************************)
EXTENDS Integers

CONSTANTS
    Procs,   \* claimants: threads of one or several processes
    Faults,  \* a subset of {"crash", "write"}
    None

VARIABLES
    file,     \* None, or its creator, whether the owner is written, whether it is old
    pc,       \* idle, write, inspect, age, remove, retry, own, release or dead
    attempt   \* attempts of the current claim

vars == <<file, pc, attempt>>

Alive(p) == pc[p] # "dead"
New(p) == [by |-> p, written |-> FALSE, old |-> FALSE]
Go(p, place) == pc' = [pc EXCEPT ![p] = place]

\* claim_once gives up, or a slot is passed over; the caller polls again later.
GiveUp(p) == Go(p, "idle") /\ attempt' = [attempt EXCEPT ![p] = 0]

\* create_new_json up to the open: exclusive creation, or the file exists.
Create(p) ==
    /\ pc[p] \in {"idle", "retry"} /\ attempt[p] < 2
    /\ attempt' = [attempt EXCEPT ![p] = @ + 1]
    /\ IF file = None THEN file' = New(p) /\ Go(p, "write")
                      ELSE Go(p, "inspect") /\ UNCHANGED file

\* The owner is written to the opened file, which may have been unlinked meanwhile.
Write(p) ==
    /\ pc[p] = "write"
    /\ file' = IF file # None /\ file.by = p THEN [file EXCEPT !.written = TRUE] ELSE file
    /\ Go(p, "own")
    /\ attempt' = [attempt EXCEPT ![p] = 0]

\* The write fails: whatever is at the path is removed.
WriteFails(p) ==
    /\ "write" \in Faults /\ pc[p] = "write"
    /\ file' = None
    /\ GiveUp(p)

\* remove_stale: a living owner keeps its claim, a dead one loses it.
Inspect(p) ==
    /\ pc[p] = "inspect"
    /\ IF file = None \/ ~file.written THEN Go(p, "age") /\ UNCHANGED attempt
       ELSE IF Alive(file.by) THEN GiveUp(p)
       ELSE Go(p, "remove") /\ UNCHANGED attempt
    /\ UNCHANGED file

\* No owner could be read: a file that is new is left alone, one that is old or gone
\* is not.
LookAtAge(p) ==
    /\ pc[p] = "age"
    /\ IF file = None \/ file.old THEN Go(p, "remove") /\ UNCHANGED attempt ELSE GiveUp(p)
    /\ UNCHANGED file

\* The file at the path is removed, whichever it is by now.  A claim is tried twice.
Remove(p) ==
    /\ pc[p] = "remove"
    /\ file' = None
    /\ IF attempt[p] < 2 THEN Go(p, "retry") /\ UNCHANGED attempt ELSE GiveUp(p)

\* A slot is not inspected again when its second creation finds a file.
PassOver(p) ==
    /\ pc[p] = "inspect" /\ attempt[p] = 2
    /\ GiveUp(p)
    /\ UNCHANGED file

\* release_owned: the token is compared first and the file removed later.
Release(p) ==
    /\ pc[p] = "own"
    /\ Go(p, IF file # None /\ file.written /\ file.by = p THEN "release" ELSE "idle")
    /\ UNCHANGED <<file, attempt>>

RemoveOwned(p) ==
    /\ pc[p] = "release"
    /\ file' = None
    /\ Go(p, "idle")
    /\ UNCHANGED attempt

Crash(p) ==
    /\ "crash" \in Faults /\ Alive(p)
    /\ Go(p, "dead")
    /\ attempt' = [attempt EXCEPT ![p] = 0]
    /\ UNCHANGED file

\* Five minutes pass.  A process that is alive has written its owner by then.
Age ==
    /\ file # None /\ ~file.written /\ ~file.old /\ ~Alive(file.by)
    /\ file' = [file EXCEPT !.old = TRUE]
    /\ UNCHANGED <<pc, attempt>>

Init ==
    /\ file = None
    /\ pc = [p \in Procs |-> "idle"]
    /\ attempt = [p \in Procs |-> 0]

\* One step of a process that wants the claim and gives it back.
Step(p) ==
    \/ Create(p) \/ Write(p) \/ Inspect(p) \/ LookAtAge(p) \/ Remove(p) \/ PassOver(p)
    \/ Release(p) \/ RemoveOwned(p)

Next == Age \/ \E p \in Procs : Step(p) \/ WriteFails(p) \/ Crash(p)

Spec == Init /\ [][Next]_vars

\* Time passes, and processes that wait keep polling.
FairSpec == Spec /\ WF_vars(Age) /\ \A p \in Procs : WF_vars(Step(p))
------------------------------------------------------------------------------
Claimed == {p \in Procs : pc[p] \in {"write", "own", "release"}}

\* The claim is atomic: two living claimants never hold it at once.
Exclusive == \A p, q \in Claimed : p = q

\* A claim whose owner died is given up, also when it died before its owner was written,
\* as long as some process still wants it.
StaleReclaimed ==
    (file # None /\ ~Alive(file.by)) ~>
        ((file # None => Alive(file.by)) \/ \A p \in Procs : ~Alive(p))
=============================================================================
