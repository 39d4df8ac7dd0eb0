------------------------------ MODULE MCAdmission -----------------------------
(*****************************************************************************)
(* What decides whether work may begin, small: the queues of Scheduler, the  *)
(* leases that are counted by files, the hints that wake a waiter, the       *)
(* health monitor, the charge of a value, the headroom of the memory groups, *)
(* the dispatch of a request, the calls on a browser session and the         *)
(* browser's connections. They share no state: one moves while the others    *)
(* have not begun, and every state of each is reached.                       *)
(*****************************************************************************)
EXTENDS Scheduler, BrowserSession, BrowserNetwork, TLC
CONSTANTS b1, b2, i2, none
VARIABLES part,    \* the component that moves
          watchSlot, watchQueue, watchAhead, watchHead, watchLock, watchGate, watchPlan,
          watchOffset, watchAged, watchPc,
          leaseSlot, leaseGate, scan, index, read, tries, audit, at,
          state, current, done, event, holding, signal, failed, waiter,
          value, limit, charge,
          mounts, walked, membership, directory, groups, reading, available

\* Heavy background work of weight two beside light work.
Kinds == (b1 :> "background") @@ (b2 :> "background") @@ (i2 :> "interactive")
Classes == (b1 :> "heavy") @@ (b2 :> "light") @@ (i2 :> "heavy")
Twos == ("heavy" :> 2) @@ ("io-heavy" :> 2)

\* Two requests of weight two beside one of weight one.
Costs == ("a" :> 2) @@ ("b" :> 1) @@ ("c" :> 2)

\* The values charged have two members at the first level and chains below.
Text(len) == [kind |-> "string", length |-> len, members |-> << >>]
Struct(k, ms) == [kind |-> k, length |-> 0, members |-> ms]
Leaves == {Text(len) : len \in 0 .. 1} \cup {Struct("scalar", << >>)}
Lists(keys) == LET Members == [key : keys, value : Leaves]
               IN {<< >>} \cup {<<m>> : m \in Members} \cup {<<m, o>> : m, o \in Members}
Flat == {Struct("object", ms) : ms \in Lists({0, 2})} \cup {Struct("array", ms) : ms \in Lists({0})}
Deep(vs) == {Struct("object", <<[key |-> 1, value |-> v], [key |-> 0, value |-> Text(1)]>>) : v \in vs}
                \cup {Struct("array", <<[key |-> 0, value |-> v]>>) : v \in vs}
Charged == Leaves \cup Flat \cup Deep(Flat) \cup Deep(Deep(Flat))

\* Watching work has slots of its own.
Watchers == INSTANCE Scheduler WITH
    Waiters <- {"w1", "w2"}, Kind <- [x \in {"w1", "w2"} |-> "background"],
    Class <- [x \in {"w1", "w2"} |-> "watch"], Total <- 2, Reserved <- 1, Watch <- 1,
    Capacity <- Twos, Weight <- Twos, Pressures <- {FALSE},
    Faults <- {"crash", "cancel"}, None <- none, slot <- watchSlot, queue <- watchQueue,
    ahead <- watchAhead, head <- watchHead, lock <- watchLock, gate <- watchGate, plan <- watchPlan,
    offset <- watchOffset, aged <- watchAged, pc <- watchPc
LeaseFiles == INSTANCE Leases WITH
    Requests <- {"a", "b", "c"}, Cost <- Costs, Count <- 2, Available <- 3,
    None <- none, Processes <- {"p1", "p2"}, MaxChanges <- 2, MaxTokens <- 3,
    slot <- leaseSlot, gate <- leaseGate
Memory == INSTANCE MemoryLimits WITH
    Node <- 5, PerByte <- 3, MaxDepth <- 2, Values <- Charged,
    Limits <- {0, 4, 5, 8, 10, 13, 18, 20, 23, 29, 40}, Component <- "x",
    Levels <- {0, 1, 3}, Unlimited <- 1000

watchVars == <<watchSlot, watchQueue, watchAhead, watchHead, watchLock, watchGate, watchPlan,
               watchOffset, watchAged, watchPc>>
leaseVars == <<leaseSlot, leaseGate, scan, index, read, tries, audit, at>>
hintVars == <<state, current, done, event, holding, signal, failed, waiter>>
chargeVars == <<value, limit, charge>>
roomVars == <<mounts, walked, membership, directory, groups, reading, available>>

Parts == {"queues", "watch", "lease", "hint", "charge", "room", "browse", "wire", "proxy"}

AdmissionInit ==
    /\ part \in Parts
    /\ Init
    /\ Watchers!Init
    /\ LeaseFiles!LeaseInit
    /\ LeaseFiles!HintInit
    /\ Memory!ChargeInit
    /\ Memory!HeadroomInit
    /\ BrowseInit
    /\ NetworkInit

\* Every component but the one that moves stands still.
Still(moving) ==
    /\ UNCHANGED part
    /\ moving # "queues" => UNCHANGED vars
    /\ moving # "watch" => UNCHANGED watchVars
    /\ moving # "lease" => UNCHANGED leaseVars
    /\ moving # "hint" => UNCHANGED hintVars
    /\ moving # "charge" => UNCHANGED chargeVars
    /\ moving # "room" => UNCHANGED roomVars
    /\ moving # "browse" => UNCHANGED sessionVars
    /\ moving # "wire" => UNCHANGED protocolVars
    /\ moving # "proxy" => UNCHANGED proxyVars

AdmissionNext ==
    \/ part = "queues" /\ Next /\ Still("queues")
    \/ part = "watch" /\ Watchers!Next /\ Still("watch")
    \/ part = "lease" /\ LeaseFiles!LeaseNext /\ Still("lease")
    \/ part = "hint" /\ LeaseFiles!HintNext /\ Still("hint")
    \/ part = "charge" /\ Memory!ChargeNext /\ Still("charge")
    \/ part = "room" /\ Memory!HeadroomNext /\ Still("room")
    \/ part = "browse" /\ BrowseNext /\ Still("browse")
    \/ part = "wire" /\ WireNext /\ Still("wire")
    \/ part = "proxy" /\ ProxyNext /\ Still("proxy")

allVars == <<part, vars, watchVars, leaseVars, hintVars, chargeVars, roomVars, sessionVars,
             protocolVars, proxyVars>>

AdmissionSpec == AdmissionInit /\ [][AdmissionNext]_allVars

\* Limits on resources: watching work takes turns for slots of its own; live leases are
\* counted and stay within what is available, a waiter is never left asleep with its hint
\* lost; a value is charged its exact size or more than the limit, and the headroom a
\* browser is given is the smallest its groups leave.
LimitsKept ==
    /\ [](/\ part = "lease" => LeaseFiles!WithinAvailable /\ LeaseFiles!LiveLeaseIndexed
          /\ part = "hint" => LeaseFiles!NoLostHint
          /\ part = "charge" => Memory!ChargeExact
          /\ part = "room" => Memory!GroupsAreAncestors)
    /\ Memory!HeadroomIsSafe
    /\ Watchers!NoOvertaking
===============================================================================
