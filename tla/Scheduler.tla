------------------------------ MODULE Scheduler ------------------------------
(***************************************************************************)
(* Admission to the execution slots (ExecutionWaiter and Plan in           *)
(* cpp-mcp/src/scheduler.cpp).  Waiters of several processes share files:  *)
(* slots, tickets, a sequence and a cached head per queue, a head lock per *)
(* queue and a gate for weighted claims.  Creating a claim file is atomic  *)
(* here, and a dead owner's file is replaced at once; SlotClaims models    *)
(* one claim file in detail.                                               *)
(***************************************************************************)
EXTENDS Integers, FiniteSets

CONSTANTS
    Waiters,   \* requests for a lease, each made again and again
    Kind,      \* of each waiter: "interactive" or "background"
    Class,     \* of each waiter: "light", "heavy", "io-heavy" or "watch"
    Total,     \* max_concurrent
    Reserved,  \* reserved_interactive
    Watch,     \* watch_max_concurrent
    Capacity,  \* heavy_capacity and io_heavy_capacity, by class
    Weight,    \* heavy_weight and io_heavy_weight, by class
    Pressures, \* what .disk-pressure.json may say: a subset of BOOLEAN
    Faults,    \* a subset of {"crash", "cancel"}
    None

Heavy == {"heavy", "io-heavy"}
Pools == {"execution", "watch"}
Queues == {"watch", "execution-background", "execution-interactive",
           "execution-interactive-weighted", "execution-interactive-light"}
Lesser(a, b) == IF a <= b THEN a ELSE b
Larger(a, b) == IF a <= b THEN b ELSE a

ASSUME SchedulerConstants ==
    /\ None \notin Waiters
    /\ \A w \in Waiters : /\ Kind[w] \in {"interactive", "background"}
                         /\ Class[w] \in {"light", "heavy", "io-heavy", "watch"}
    /\ Pressures \subseteq BOOLEAN
    /\ Total \in Nat \ {0} /\ Reserved \in 0 .. Total - 1 /\ Watch \in Nat \ {0}
    /\ \A c \in Heavy : Weight[c] \in 1 .. Total /\ Capacity[c] \in Weight[c] .. Total

VARIABLES
    slot,    \* of each pool: the owner of each slot file
    queue,   \* of each queue: the waiters with a ticket file
    ahead,   \* of each waiter with a ticket: those with a lower number in its queue
    head,    \* of each queue: the waiter its head file names
    lock,    \* of each queue: the owner of the head lock
    gate,    \* of each pool: the owner of the weighted claim gate
    plan,    \* the plan of each waiter
    offset,  \* slots each waiter's claim has looked at
    aged,    \* background waiters that have waited for background_priority_age
    pc

vars == <<slot, queue, ahead, head, lock, gate, plan, offset, aged, pc>>
-----------------------------------------------------------------------------
(* Plan *)

\* Mutant: background work may use the slots reserved for interactive work.
UsableShared(kind, pool) == IF pool = "watch" THEN Watch ELSE Total

\* The slots a kind of work may use, before the capacity of its class.
Usable(kind, pool) ==
    IF pool = "watch" THEN Watch
    ELSE IF kind = "background" THEN Larger(Total - Reserved, 1) ELSE Total

PlanOf(kind, class, pressure) ==
    LET pool == IF kind = "background" /\ class = "watch" THEN "watch" ELSE "execution"
        asked == IF class \in Heavy THEN Weight[class] ELSE 1
        limit == IF pressure THEN Lesser(Capacity[class], asked) ELSE Capacity[class]
        usable == IF pool = "execution" /\ class \in Heavy
                  THEN Larger(1, Lesser(Usable(kind, pool), limit)) ELSE Usable(kind, pool)
    IN  [pool |-> pool,
         pressure |-> pressure,
         usable |-> usable,
         weight |-> IF pool = "watch" THEN 1 ELSE Lesser(asked, usable),
         low |-> IF pool = "execution" /\ pressure /\ class = "light"
                 THEN Lesser(Larger(Weight["heavy"], Weight["io-heavy"]), usable - 1) ELSE 0,
         queue |-> CASE pool = "watch" -> "watch"
                     [] pool # "watch" /\ kind = "background" -> "execution-background"
                     [] pool # "watch" /\ kind # "background" /\ pressure ->
                            IF class \in Heavy THEN "execution-interactive-weighted"
                                               ELSE "execution-interactive-light"
                     [] OTHER -> "execution-interactive"]

\* The slots a plan may claim, and the order in which a claim looks at them.
Eligible(p) == p.low .. p.usable - 1
SlotAt(p, n) == IF p.pool = "execution" THEN p.usable - 1 - n ELSE p.low + n
-----------------------------------------------------------------------------
Alive(w) == pc[w] # "dead"
Free(owner) == owner # None => ~Alive(owner)
Held(w) == {s \in DOMAIN slot[plan[w].pool] : slot[plan[w].pool][s] = w}
Queue(w) == plan[w].queue
Ticketed(w) == w \in queue[Queue(w)]
Go(w, place) == pc' = [pc EXCEPT ![w] = place]
Unlock(w) == lock' = [lock EXCEPT ![Queue(w)] = None]
Keep(w) == UNCHANGED <<plan, offset, aged>>

\* refresh_head_locked: the lowest ticket is the head.
HeadOf(tickets) ==
    LET lowest == {w \in tickets : ahead[w] \cap tickets = {}}
    IN  IF lowest = {} THEN None ELSE CHOOSE w \in lowest : TRUE

\* The ticket of h, if it has one, is removed, and the head file refreshed when its lock
\* can be had.  Otherwise it may name a ticket that is gone, which is as good as none.
Remove(q, h) ==
    /\ queue' = [queue EXCEPT ![q] = @ \ {h}]
    /\ ahead' = [v \in Waiters |-> IF v = h THEN {} ELSE ahead[v] \ {h}]
    /\ head' = [head EXCEPT ![q] = IF Free(lock[q]) THEN HeadOf(queue[q] \ {h})
                                    ELSE IF @ = h THEN None ELSE @]

\* Mutant: aged background work is not looked for.
CompetesNever(w) == FALSE

\* aged_background_competes: some aged background waiter may use a slot w may use.
Competes(w) ==
    /\ Kind[w] = "interactive"
    /\ \E b \in aged :
        /\ Ticketed(b) /\ Alive(b) /\ Queue(b) = "execution-background"
        /\ LET bg == PlanOf("background", Class[b], plan[w].pressure)
           IN  bg.pool = plan[w].pool /\ plan[w].low < bg.usable /\ bg.low < plan[w].usable
-----------------------------------------------------------------------------
(* The waiter *)

Begin(w) ==
    /\ pc[w] = "out"
    /\ \E pressure \in Pressures :
        plan' = [plan EXCEPT ![w] = PlanOf(Kind[w], Class[w], pressure)]
    /\ Go(w, "poll")
    /\ UNCHANGED <<slot, queue, ahead, head, lock, gate, offset, aged>>

\* poll: a waiter without a ticket tries the slots directly, under the head lock.
Poll(w) ==
    /\ pc[w] = "poll"
    /\ IF Ticketed(w) THEN Go(w, "head") /\ UNCHANGED lock
       ELSE IF Free(lock[Queue(w)])
       THEN Go(w, "direct") /\ lock' = [lock EXCEPT ![Queue(w)] = w]
       ELSE Go(w, "ticket") /\ UNCHANGED lock
    /\ UNCHANGED <<slot, queue, ahead, head, gate>> /\ Keep(w)

\* Mutant: whoever finds the head lock free claims, although others wait.
DirectAlways(w) ==
    /\ pc[w] = "direct"
    /\ Go(w, "claim")
    /\ UNCHANGED <<slot, queue, ahead, head, lock, gate>> /\ Keep(w)

\* claim_available: only when nobody waits in this queue and no aged work competes.
Direct(w) ==
    /\ pc[w] = "direct"
    /\ IF queue[Queue(w)] = {} /\ ~Competes(w)
       THEN Go(w, "claim") /\ UNCHANGED lock
       ELSE Go(w, "ticket") /\ Unlock(w)
    /\ UNCHANGED <<slot, queue, ahead, head, gate>> /\ Keep(w)

\* create_ticket, with the head lock from the sequence file to the refreshed head.
CreateTicket(w) ==
    /\ pc[w] = "ticket"
    /\ IF Free(lock[Queue(w)])
       THEN /\ lock' = [lock EXCEPT ![Queue(w)] = w]
            /\ queue' = [queue EXCEPT ![Queue(w)] = @ \cup {w}]
            /\ ahead' = [ahead EXCEPT ![w] = queue[Queue(w)]]
            /\ Go(w, "publish")
       ELSE Go(w, "poll") /\ UNCHANGED <<lock, queue, ahead>>
    /\ UNCHANGED <<slot, head, gate>> /\ Keep(w)

Publish(w) ==
    /\ pc[w] = "publish"
    /\ head' = [head EXCEPT ![Queue(w)] = HeadOf(queue[Queue(w)])]
    /\ Unlock(w)
    /\ Go(w, "head")
    /\ UNCHANGED <<slot, queue, ahead, gate>> /\ Keep(w)

\* is_head: the head is this waiter, or a missing or dead one is cleared away.
IsHead(w) ==
    /\ pc[w] = "head"
    /\ LET h == head[Queue(w)]
       IN  \/ /\ h = w
              /\ Go(w, IF Competes(w) THEN "poll" ELSE "claim")
              /\ UNCHANGED <<queue, ahead, head>>
           \/ /\ h # w /\ Free(h)
              /\ Remove(Queue(w), h)
              /\ Go(w, "poll")
           \/ /\ h # w /\ ~Free(h)
              /\ Go(w, "poll")
              /\ UNCHANGED <<queue, ahead, head>>
    /\ UNCHANGED <<slot, lock, gate>> /\ Keep(w)

\* A claim that failed: a direct one lets go of the head lock and takes a ticket.
ClaimFails(w) ==
    /\ Go(w, IF lock[Queue(w)] = w THEN "ticket" ELSE "poll")
    /\ lock' = IF lock[Queue(w)] = w THEN [lock EXCEPT ![Queue(w)] = None] ELSE lock

\* claim_slots, up to the first slot: weighted claims pass the gate one at a time.
EnterGate(w) ==
    /\ pc[w] = "claim"
    /\ IF plan[w].weight = 1 THEN Go(w, "slots") /\ UNCHANGED <<gate, lock>>
       ELSE IF Free(gate[plan[w].pool])
       THEN Go(w, "slots") /\ gate' = [gate EXCEPT ![plan[w].pool] = w] /\ UNCHANGED lock
       ELSE ClaimFails(w) /\ UNCHANGED gate
    /\ offset' = [offset EXCEPT ![w] = 0]
    /\ UNCHANGED <<slot, queue, ahead, head, plan, aged>>

Searching(w) ==
    /\ offset[w] < plan[w].usable - plan[w].low
    /\ Cardinality(Held(w)) < plan[w].weight

\* One slot: its file is created if there is none or its owner is dead.
TrySlot(w) ==
    /\ pc[w] = "slots" /\ Searching(w)
    /\ LET s == SlotAt(plan[w], offset[w])
       IN  slot' = IF Free(slot[plan[w].pool][s]) THEN [slot EXCEPT ![plan[w].pool][s] = w] ELSE slot
    /\ offset' = [offset EXCEPT ![w] = @ + 1]
    /\ UNCHANGED <<queue, ahead, head, lock, gate, plan, aged, pc>>

Without(w) == [slot EXCEPT ![plan[w].pool] = [s \in DOMAIN @ |-> IF @[s] = w THEN None ELSE @[s]]]
OpenGate(w) == gate' = [p \in Pools |-> IF gate[p] = w THEN None ELSE gate[p]]

\* Mutant: a claim that found too few slots keeps those it has.
ClaimPart(w) ==
    /\ pc[w] = "slots" /\ ~Searching(w)
    /\ OpenGate(w)
    /\ IF Cardinality(Held(w)) = plan[w].weight
       THEN /\ Go(w, "index")
            /\ lock' = IF lock[Queue(w)] = w THEN [lock EXCEPT ![Queue(w)] = None] ELSE lock
       ELSE ClaimFails(w)
    /\ offset' = [offset EXCEPT ![w] = 0]
    /\ UNCHANGED <<slot, queue, ahead, head, plan, aged>>

\* The end of claim_slots: all the slots, or none.
ClaimEnds(w) ==
    /\ pc[w] = "slots" /\ ~Searching(w)
    /\ OpenGate(w)
    /\ IF Cardinality(Held(w)) = plan[w].weight
       THEN /\ Go(w, "index")
            /\ lock' = IF lock[Queue(w)] = w THEN [lock EXCEPT ![Queue(w)] = None] ELSE lock
            /\ UNCHANGED slot
       ELSE ClaimFails(w) /\ slot' = Without(w)
    /\ offset' = [offset EXCEPT ![w] = 0]
    /\ UNCHANGED <<queue, ahead, head, plan, aged>>

\* release_ticket removes the ticket and refreshes the head if the lock can be had.
ReleaseTicket(w) ==
    /\ IF Ticketed(w) THEN Remove(Queue(w), w) ELSE UNCHANGED <<queue, ahead, head>>
    /\ aged' = aged \ {w}

\* The lease is indexed, the ticket released and the lease handed out.
Lease(w) ==
    /\ pc[w] = "index"
    /\ ReleaseTicket(w)
    /\ Go(w, "leased")
    /\ UNCHANGED <<slot, lock, gate, plan, offset>>

\* The waiter is cancelled, times out or cannot index its lease: its slots and its
\* ticket are released.
Abandon(w) ==
    /\ "cancel" \in Faults /\ pc[w] \in {"poll", "index"}
    /\ slot' = Without(w)
    /\ ReleaseTicket(w)
    /\ Go(w, "out")
    /\ UNCHANGED <<lock, gate, plan, offset>>

Release(w) ==
    /\ pc[w] = "leased"
    /\ slot' = Without(w)
    /\ Go(w, "out")
    /\ UNCHANGED <<queue, ahead, head, lock, gate>> /\ Keep(w)

\* A background waiter has waited long enough to hold back interactive work.
Age(w) ==
    /\ Kind[w] = "background" /\ Ticketed(w) /\ Alive(w) /\ w \notin aged
    /\ aged' = aged \cup {w}
    /\ UNCHANGED <<slot, queue, ahead, head, lock, gate, plan, offset, pc>>

\* The process of a waiter dies and leaves its files.
Crash(w) ==
    /\ "crash" \in Faults /\ pc[w] \notin {"out", "dead"}
    /\ Go(w, "dead")
    /\ UNCHANGED <<slot, queue, ahead, head, lock, gate, plan, offset, aged>>

\* snapshot: the slots and tickets of dead owners are removed; no head is refreshed.
Snapshot ==
    /\ \E w \in Waiters : ~Alive(w)
    /\ slot' = [p \in Pools |-> [s \in DOMAIN slot[p] |-> IF Free(slot[p][s]) THEN None ELSE slot[p][s]]]
    /\ queue' = [q \in Queues |-> {w \in queue[q] : Alive(w)}]
    /\ ahead' = [w \in Waiters |-> IF Alive(w) THEN {v \in ahead[w] : Alive(v)} ELSE {}]
    /\ head' = [q \in Queues |-> IF Free(head[q]) THEN None ELSE head[q]]
    /\ UNCHANGED <<lock, gate, plan, offset, aged, pc>>

Init ==
    /\ slot = [p \in Pools |-> [s \in 0 .. (IF p = "watch" THEN Watch ELSE Total) - 1 |-> None]]
    /\ queue = [q \in Queues |-> {}]
    /\ ahead = [w \in Waiters |-> {}]
    /\ head = [q \in Queues |-> None]
    /\ lock = [q \in Queues |-> None]
    /\ gate = [p \in Pools |-> None]
    /\ plan = [w \in Waiters |-> PlanOf(Kind[w], Class[w], FALSE)]
    /\ offset = [w \in Waiters |-> 0]
    /\ aged = {}
    /\ pc = [w \in Waiters |-> "out"]

Step(w) ==
    \/ Poll(w) \/ Direct(w) \/ CreateTicket(w) \/ Publish(w) \/ IsHead(w) \/ EnterGate(w)
    \/ TrySlot(w) \/ ClaimEnds(w) \/ Lease(w) \/ Release(w)

Next == Snapshot \/ \E w \in Waiters : Begin(w) \/ Step(w) \/ Abandon(w) \/ Age(w) \/ Crash(w)

Spec == Init /\ [][Next]_vars

\* Waiters poll, leases end and time passes; nobody need come back for another lease.
FairSpec == Spec /\ \A w \in Waiters : WF_vars(Step(w)) /\ WF_vars(Age(w))
------------------------------------------------------------------------------
\* A lease has exactly the slots of its weight, within its range, and a waiter that is
\* neither claiming nor leased holds none: a claim that loses slots to others on the way
\* gives back what it has.
SlotsExact ==
    \A w \in Waiters :
        /\ pc[w] \in {"index", "leased"} =>
            Cardinality(Held(w)) = plan[w].weight /\ Held(w) \subseteq Eligible(plan[w])
        /\ pc[w] \notin {"slots", "index", "leased", "dead"} =>
            \A p \in Pools : \A s \in DOMAIN slot[p] : slot[p][s] # w

\* Interactive work keeps its reserve: background work never holds one of the highest
\* Reserved execution slots, also while it claims several and under disk pressure.
ReserveKept ==
    \A s \in DOMAIN slot["execution"] :
        slot["execution"][s] # None /\ Kind[slot["execution"][s]] = "background" =>
            s < Larger(Total - Reserved, 1)

\* First come, first served within a queue: nobody completes a claim while another waiter
\* of the same queue holds an earlier ticket, or any ticket if it has none itself.
NoOvertaking ==
    [][\A w \in Waiters :
        pc[w] = "slots" /\ pc'[w] = "index" =>
            \A v \in queue[Queue(w)] \ {w} : Ticketed(w) /\ w \in ahead[v]]_vars

\* Background work that waits is admitted, however much interactive work keeps coming:
\* once it has aged, interactive work that could use its slots holds back.
BackgroundAdmitted ==
    \A w \in Waiters : Kind[w] = "background" => (pc[w] = "poll" ~> pc[w] = "leased")
=============================================================================
