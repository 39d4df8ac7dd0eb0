--------------------------- MODULE AdmissionProofs ---------------------------
(***************************************************************************)
(* Proofs about what is admitted.  Scheduler: every plan can be satisfied  *)
(* by an idle pool; whatever the waiters do, slots are held only within    *)
(* the plan of a waiter that claims or has a lease; and nobody claims past *)
(* a waiter of the same pool and kind that registered earlier.             *)
(* BrowserSession: its calls navigate once and act on what they observed.  *)
(***************************************************************************)
EXTENDS Scheduler, BrowserSession, TLAPS

Size(p) == IF p = "watch" THEN Watch ELSE Total
Classes4 == {"light", "heavy", "io-heavy", "watch"}
Kinds2 == {"interactive", "background"}

\* For every configuration, kind, class and pressure, the slots a plan may claim lie in
\* its pool and are at least as many as its weight, so an idle pool always admits it; and
\* a background plan stays out of the reserve.
THEOREM PlanSatisfiable ==
    ASSUME NEW kind \in Kinds2, NEW class \in Classes4, NEW pressure \in BOOLEAN
    PROVE  LET p == PlanOf(kind, class, pressure)
           IN  /\ p.pool \in Pools
               /\ p.usable \in 1 .. Size(p.pool)
               /\ p.low \in 0 .. p.usable - 1
               /\ p.weight \in 1 .. p.usable - p.low
               /\ p.queue \in Queues
               /\ kind = "background" /\ p.pool = "execution" => p.usable <= Larger(Total - Reserved, 1)
<1>1. Total \in Nat \ {0} /\ Reserved \in 0 .. Total - 1 /\ Watch \in Nat \ {0}
  BY SchedulerConstants, Zenon
<1>2. \A c \in Heavy : Weight[c] \in 1 .. Total /\ Capacity[c] \in Weight[c] .. Total
  BY SchedulerConstants, Zenon
<1>3. CASE kind = "background" /\ class = "watch"
  BY <1>1, <1>3, SMTT(30) DEF PlanOf, Usable, Lesser, Larger, Heavy, Size, Pools, Queues
<1>4. CASE ~(kind = "background" /\ class = "watch") /\ class \notin Heavy
  BY <1>1, <1>2, <1>4 DEF PlanOf, Usable, Lesser, Larger, Heavy, Size, Pools, Queues, Kinds2
<1>5. CASE class \in Heavy
  <2> DEFINE limit == IF pressure THEN Lesser(Capacity[class], Weight[class]) ELSE Capacity[class]
             most == Usable(kind, "execution")
             p == PlanOf(kind, class, pressure)
  <2>1. Weight[class] \in 1 .. Total /\ Capacity[class] \in Weight[class] .. Total
    BY <1>2, <1>5, Zenon
  <2>2. class # "watch" /\ class # "light"
    BY <1>5 DEF Heavy
  <2>3. /\ p.pool = "execution" /\ p.low = 0
        /\ p.usable = Larger(1, Lesser(most, limit)) /\ p.weight = Lesser(Weight[class], p.usable)
        /\ p.queue \in Queues
    BY <1>5, <2>2 DEF PlanOf, Queues, Kinds2
  <2>4. limit \in 1 .. Total
    BY <1>1, <2>1 DEF Lesser
  <2>5. most \in 1 .. Total /\ (kind = "background" => most = Larger(Total - Reserved, 1))
    BY <1>1 DEF Usable, Larger
  <2> HIDE DEF limit, most, p
  <2>6. p.usable \in 1 .. most /\ p.usable \in 1 .. Total
    BY <1>1, <2>3, <2>4, <2>5 DEF Larger, Lesser
  <2>7. p.weight \in 1 .. p.usable
    BY <2>1, <2>3, <2>6 DEF Lesser
  <2>8. p.usable <= most /\ 0 \in 0 .. p.usable - 1 /\ p.usable - 0 = p.usable
    BY <1>1, <2>5, <2>6
  <2> QED BY <2>3, <2>5, <2>6, <2>7, <2>8 DEF Size, Pools, p
<1>6. QED
  BY <1>3, <1>4, <1>5, Zenon
-----------------------------------------------------------------------------
Places == {"out", "poll", "direct", "ticket", "publish", "head", "claim", "slots", "index",
           "leased", "dead"}
Claiming == {"slots", "index", "leased", "dead"}

\* What the proofs need to know of the shapes of the state.
Shapes ==
    /\ pc \in [Waiters -> Places]
    /\ offset \in [Waiters -> Nat]
    /\ DOMAIN plan = Waiters
    /\ plan = [w \in Waiters |-> plan[w]]
    /\ \A w \in Waiters : \E pressure \in BOOLEAN : plan[w] = PlanOf(Kind[w], Class[w], pressure)
    /\ slot = [p \in Pools |-> slot[p]]
    /\ \A p \in Pools : slot[p] \in [0 .. Size(p) - 1 -> Waiters \cup {None}]

\* A held slot belongs to the plan its owner has now, and its owner claims, is leased or
\* died.
HeldByPlan ==
    \A p \in Pools : \A s \in 0 .. Size(p) - 1 : \A w \in Waiters :
        slot[p][s] = w => plan[w].pool = p /\ s \in Eligible(plan[w]) /\ pc[w] \in Claiming

\* A lease has as many slots as its plan has weight.
Weighed ==
    \A w \in Waiters : pc[w] \in {"index", "leased"} => Cardinality(Held(w)) = plan[w].weight

SlotInv == Shapes /\ HeldByPlan /\ Weighed

\* The plan of a waiter is one PlanOf gives.
LEMMA Planned ==
    ASSUME Shapes, NEW w \in Waiters
    PROVE  /\ plan[w].pool \in Pools
           /\ plan[w].usable \in 1 .. Size(plan[w].pool)
           /\ plan[w].low \in 0 .. plan[w].usable - 1
           /\ plan[w].weight \in 1 .. plan[w].usable - plan[w].low
           /\ plan[w].queue \in Queues
           /\ Kind[w] = "background" /\ plan[w].pool = "execution" =>
                plan[w].usable <= Larger(Total - Reserved, 1)
<1>1. PICK pressure \in BOOLEAN : plan[w] = PlanOf(Kind[w], Class[w], pressure)
  BY Zenon DEF Shapes
<1>2. Kind[w] \in Kinds2 /\ Class[w] \in Classes4
  BY SchedulerConstants, Zenon DEF Kinds2, Classes4
<1>3. QED
  BY <1>1, <1>2, PlanSatisfiable, Zenon

\* A step that leaves slots and plans alone and does not take a waiter with slots out of
\* its claim keeps the invariant.
LEMMA QuietStep ==
    ASSUME SlotInv, NEW w \in Waiters, NEW place \in Places,
           slot' = slot, plan' = plan, offset' \in [Waiters -> Nat],
           pc' = [pc EXCEPT ![w] = place],
           pc[w] \in Claiming => place \in Claiming,
           place \in {"index", "leased"} => Cardinality(Held(w)) = plan[w].weight
    PROVE  SlotInv'
<1>1. Shapes'
  BY Zenon DEF SlotInv, Shapes
<1>2. HeldByPlan'
  <2>1. \A v \in Waiters : pc[v] \in Claiming => pc'[v] \in Claiming
    BY Zenon DEF SlotInv, Shapes
  <2>2. QED
    BY <2>1 DEF SlotInv, HeldByPlan
<1>3. \A v \in Waiters : Held(v)' = Held(v)
  BY Zenon DEF Held
<1>4. Weighed'
  BY <1>3 DEF SlotInv, Shapes, Weighed
<1>5. QED
  BY <1>1, <1>2, <1>4, Zenon DEF SlotInv

\* A waiter that gives back all its slots takes no slot of another with it.
LEMMA DropStep ==
    ASSUME SlotInv, NEW w \in Waiters, NEW place \in Places \ {"index", "leased"},
           slot' = Without(w), plan' = plan, offset' \in [Waiters -> Nat],
           pc' = [pc EXCEPT ![w] = place]
    PROVE  SlotInv'
<1>1. PICK pw \in Pools : pw = plan[w].pool
  BY Planned, Zenon DEF SlotInv
<1>2. slot = [p \in Pools |-> slot[p]] /\ \A p \in Pools : slot[p] \in [0 .. Size(p) - 1 -> Waiters \cup {None}]
  BY Zenon DEF SlotInv, Shapes
<1>3. None \notin Waiters
  BY SchedulerConstants, Zenon
<1>4. slot' = [slot EXCEPT ![pw] = [s \in 0 .. Size(pw) - 1 |-> IF slot[pw][s] = w THEN None ELSE slot[pw][s]]]
  BY <1>1, <1>2, Zenon DEF Without
<1>5. /\ slot' = [p \in Pools |-> slot'[p]]
      /\ \A p \in Pools \ {pw} : slot'[p] = slot[p]
      /\ slot'[pw] \in [0 .. Size(pw) - 1 -> Waiters \cup {None}]
      /\ \A s \in 0 .. Size(pw) - 1 : slot'[pw][s] = IF slot[pw][s] = w THEN None ELSE slot[pw][s]
  <2>1. DOMAIN slot = Pools /\ slot' = [slot EXCEPT ![pw] = slot'[pw]]
    BY <1>2, <1>4, Zenon
  <2>2. slot' = [p \in Pools |-> slot'[p]] /\ \A p \in Pools \ {pw} : slot'[p] = slot[p]
    BY <2>1, Zenon
  <2>3. slot'[pw] = [s \in 0 .. Size(pw) - 1 |-> IF slot[pw][s] = w THEN None ELSE slot[pw][s]]
    BY <2>1, <1>4, Zenon
  <2>4. \A s \in 0 .. Size(pw) - 1 : slot[pw][s] \in Waiters \cup {None}
    BY <1>2, Zenon
  <2>5. QED
    BY <2>2, <2>3, <2>4, Zenon
<1>6. \A p \in Pools : slot'[p] \in [0 .. Size(p) - 1 -> Waiters \cup {None}]
  BY <1>2, <1>5, Zenon
<1>7. Shapes'
  BY <1>5, <1>6, Zenon DEF SlotInv, Shapes
<1>8. \A p \in Pools : \A s \in 0 .. Size(p) - 1 : \A v \in Waiters :
         slot'[p][s] = v <=> slot[p][s] = v /\ v # w
  <2>1. SUFFICES ASSUME NEW p \in Pools, NEW s \in 0 .. Size(p) - 1, NEW v \in Waiters
                 PROVE  slot'[p][s] = v <=> slot[p][s] = v /\ v # w
    BY Zenon
  <2>2. CASE p = pw
    BY <2>2, <1>3, <1>5, Zenon
  <2>3. CASE p # pw
    BY <2>3, <1>1, <1>5 DEF SlotInv, HeldByPlan
  <2>4. QED
    BY <2>2, <2>3, Zenon
<1>9. \A v \in Waiters \ {w} : pc'[v] = pc[v]
  BY Zenon DEF SlotInv, Shapes
<1>10. HeldByPlan'
  BY <1>8, <1>9 DEF SlotInv, HeldByPlan
<1>11. \A v \in Waiters \ {w} : Held(v)' = Held(v)
  <2>1. SUFFICES ASSUME NEW v \in Waiters \ {w} PROVE Held(v)' = Held(v)
    BY Zenon
  <2>2. PICK pv \in Pools : pv = plan[v].pool
    BY Planned, Zenon DEF SlotInv
  <2>3. DOMAIN slot'[pv] = 0 .. Size(pv) - 1 /\ DOMAIN slot[pv] = 0 .. Size(pv) - 1
    BY <1>2, <1>6, Zenon
  <2>4. QED
    BY <2>2, <2>3, <1>8 DEF Held
<1>12. Weighed'
  BY <1>9, <1>11 DEF SlotInv, Shapes, Weighed
<1>13. QED
  BY <1>7, <1>10, <1>12, Zenon DEF SlotInv
-----------------------------------------------------------------------------
\* A slot is claimed from nobody or from a dead owner, and within the plan.
LEMMA TakeStep ==
    ASSUME SlotInv, NEW w \in Waiters, TrySlot(w)
    PROVE  SlotInv'
<1>1. PICK pw \in Pools : pw = plan[w].pool
  BY Planned, Zenon DEF SlotInv
<1>2. PICK s0 \in 0 .. Size(pw) - 1 : s0 = SlotAt(plan[w], offset[w]) /\ s0 \in Eligible(plan[w])
  <2>1. plan[w].usable \in 1 .. Size(pw) /\ plan[w].low \in 0 .. plan[w].usable - 1
    BY <1>1, Planned, Zenon DEF SlotInv
  <2>2. Size(pw) \in Nat
    BY SchedulerConstants, Zenon DEF Size
  <2>3. offset[w] \in Nat /\ offset[w] < plan[w].usable - plan[w].low
    BY Zenon DEF SlotInv, Shapes, TrySlot, Searching
  <2>4. QED
    BY <2>1, <2>2, <2>3 DEF SlotAt, Eligible
<1>3. pc' = pc /\ plan' = plan /\ pc[w] = "slots" /\ offset' \in [Waiters -> Nat]
  BY DEF TrySlot, SlotInv, Shapes
<1>4. CASE ~Free(slot[pw][s0])
  <2>1. slot' = slot
    BY <1>1, <1>2, <1>4, Zenon DEF TrySlot
  <2>2. pc' = [pc EXCEPT ![w] = "slots"]
    BY <1>3, Zenon DEF SlotInv, Shapes
  <2>3. QED
    BY <1>3, <2>1, <2>2, QuietStep, Zenon DEF Places, Claiming
<1>5. CASE Free(slot[pw][s0])
  <2>1. slot' = [slot EXCEPT ![pw][s0] = w]
    BY <1>1, <1>2, <1>5, Zenon DEF TrySlot
  <2>2. slot = [p \in Pools |-> slot[p]] /\ \A p \in Pools : slot[p] \in [0 .. Size(p) - 1 -> Waiters \cup {None}]
    BY Zenon DEF SlotInv, Shapes
  <2>3. /\ slot' = [p \in Pools |-> slot'[p]]
        /\ \A p \in Pools \ {pw} : slot'[p] = slot[p]
        /\ slot'[pw] = [slot[pw] EXCEPT ![s0] = w]
    BY <2>1, <2>2, Zenon
  <2>4. \A p \in Pools : slot'[p] \in [0 .. Size(p) - 1 -> Waiters \cup {None}]
    <3>1. slot[pw] \in [0 .. Size(pw) - 1 -> Waiters \cup {None}]
      BY <2>2, Zenon
    <3>2. slot'[pw] \in [0 .. Size(pw) - 1 -> Waiters \cup {None}]
      BY <2>3, <3>1, Zenon
    <3>3. QED
      BY <2>2, <2>3, <3>2, Zenon
  <2>5. Shapes'
    BY <1>3, <2>3, <2>4 DEF SlotInv, Shapes
  <2>6. \A p \in Pools : \A s \in 0 .. Size(p) - 1 :
            slot'[p][s] = IF p = pw /\ s = s0 THEN w ELSE slot[p][s]
    BY <2>2, <2>3, Zenon
  <2>7. HeldByPlan'
    BY <1>1, <1>2, <1>3, <2>6 DEF SlotInv, HeldByPlan, Claiming
  <2>8. slot[pw][s0] # None => pc[slot[pw][s0]] = "dead"
    BY <1>5, Zenon DEF Free, Alive
  <2>9. \A v \in Waiters : pc[v] \in {"index", "leased"} => Held(v)' = Held(v)
    <3>1. SUFFICES ASSUME NEW v \in Waiters, pc[v] \in {"index", "leased"} PROVE Held(v)' = Held(v)
      BY Zenon
    <3>2. PICK pv \in Pools : pv = plan[v].pool
      BY Planned, Zenon DEF SlotInv
    <3>3. DOMAIN slot'[pv] = 0 .. Size(pv) - 1 /\ DOMAIN slot[pv] = 0 .. Size(pv) - 1
      BY <2>2, <2>4, Zenon
    <3>4. v # w /\ v # slot[pw][s0]
      BY <3>1, <1>3, <2>8, SchedulerConstants, Zenon
    <3>5. \A s \in 0 .. Size(pv) - 1 : slot'[pv][s] = v <=> slot[pv][s] = v
      BY <2>6, <3>4, Zenon
    <3>6. QED
      BY <1>3, <3>2, <3>3, <3>5, Zenon DEF Held
  <2>10. Weighed'
    BY <1>3, <2>9, Zenon DEF SlotInv, Weighed
  <2>11. QED
    BY <2>5, <2>7, <2>10, Zenon DEF SlotInv
<1>6. QED
  BY <1>4, <1>5, Zenon

\* Cleaning up after the dead takes no slot from the living.
LEMMA SweepStep ==
    ASSUME SlotInv, Snapshot
    PROVE  SlotInv'
<1>1. pc' = pc /\ plan' = plan /\ offset' = offset
  BY Zenon DEF Snapshot
<1>2. \A p \in Pools : slot[p] \in [0 .. Size(p) - 1 -> Waiters \cup {None}]
  BY Zenon DEF SlotInv, Shapes
<1>3. slot' = [p \in Pools |-> [s \in DOMAIN slot[p] |-> IF Free(slot[p][s]) THEN None ELSE slot[p][s]]]
  BY Zenon DEF Snapshot
<1>4. \A p \in Pools : slot'[p] \in [0 .. Size(p) - 1 -> Waiters \cup {None}]
  BY <1>2, <1>3, Zenon
<1>5. Shapes'
  BY <1>1, <1>3, <1>4, Zenon DEF SlotInv, Shapes
<1>6. \A p \in Pools : \A s \in 0 .. Size(p) - 1 : slot'[p][s] = IF Free(slot[p][s]) THEN None ELSE slot[p][s]
  BY <1>2, <1>3, Zenon
<1>7. HeldByPlan'
  BY <1>1, <1>6, SchedulerConstants DEF SlotInv, HeldByPlan
<1>8. \A v \in Waiters : pc[v] \in {"index", "leased"} => Held(v)' = Held(v)
  <2>1. SUFFICES ASSUME NEW v \in Waiters, pc[v] \in {"index", "leased"} PROVE Held(v)' = Held(v)
    BY Zenon
  <2>2. PICK pv \in Pools : pv = plan[v].pool
    BY Planned, Zenon DEF SlotInv
  <2>3. DOMAIN slot'[pv] = 0 .. Size(pv) - 1 /\ DOMAIN slot[pv] = 0 .. Size(pv) - 1
    BY <1>2, <1>4, Zenon
  <2>4. v # None /\ ~Free(v)
    BY <2>1, SchedulerConstants, Zenon DEF Free, Alive
  <2>5. \A s \in 0 .. Size(pv) - 1 : slot'[pv][s] = v <=> slot[pv][s] = v
    BY <1>6, <2>4, Zenon
  <2>6. QED
    BY <1>1, <2>2, <2>3, <2>5, Zenon DEF Held
<1>9. Weighed'
  BY <1>1, <1>8, Zenon DEF SlotInv, Weighed
<1>10. QED
  BY <1>5, <1>7, <1>9, Zenon DEF SlotInv
-----------------------------------------------------------------------------
\* A new plan is made only when the waiter holds no slot.
LEMMA BeginStep ==
    ASSUME SlotInv, NEW w \in Waiters, Begin(w)
    PROVE  SlotInv'
<1>1. PICK pressure \in BOOLEAN : plan' = [plan EXCEPT ![w] = PlanOf(Kind[w], Class[w], pressure)]
  BY SchedulerConstants, Zenon DEF Begin
<1>2. slot' = slot /\ offset' = offset /\ pc[w] = "out" /\ pc' = [pc EXCEPT ![w] = "poll"]
  BY Zenon DEF Begin, Go
<1>3. /\ DOMAIN plan' = Waiters
      /\ plan' = [v \in Waiters |-> plan'[v]]
      /\ plan'[w] = PlanOf(Kind[w], Class[w], pressure)
      /\ \A v \in Waiters \ {w} : plan'[v] = plan[v]
  BY <1>1, Zenon DEF SlotInv, Shapes
<1>4. pc' \in [Waiters -> Places] /\ pc'[w] = "poll" /\ \A v \in Waiters \ {w} : pc'[v] = pc[v]
  BY <1>2, Zenon DEF SlotInv, Shapes, Places
<1>5. \A v \in Waiters : \E pr \in BOOLEAN : plan'[v] = PlanOf(Kind[v], Class[v], pr)
  BY <1>3, Zenon DEF SlotInv, Shapes
<1>6. Shapes'
  BY <1>2, <1>3, <1>4, <1>5, Zenon DEF SlotInv, Shapes
<1>7. \A p \in Pools : \A s \in 0 .. Size(p) - 1 : slot[p][s] # w
  BY <1>2 DEF SlotInv, HeldByPlan, Claiming
<1>8. HeldByPlan'
  BY <1>2, <1>3, <1>4, <1>7 DEF SlotInv, HeldByPlan
<1>9. \A v \in Waiters \ {w} : Held(v)' = Held(v)
  BY <1>2, <1>3, Zenon DEF Held
<1>10. Weighed'
  BY <1>3, <1>4, <1>9 DEF SlotInv, Weighed
<1>11. QED
  BY <1>6, <1>8, <1>10, Zenon DEF SlotInv

\* The invariant holds at the start: nobody holds a slot.
LEMMA SlotInit == Init => SlotInv
<1>1. SUFFICES ASSUME Init PROVE SlotInv
  BY Zenon
<1>2. Shapes
  <2>1. pc \in [Waiters -> Places] /\ offset \in [Waiters -> Nat]
    BY <1>1, Zenon DEF Init, Places
  <2>2. DOMAIN plan = Waiters /\ plan = [w \in Waiters |-> plan[w]]
    BY <1>1, Zenon DEF Init
  <2>3. \A w \in Waiters : plan[w] = PlanOf(Kind[w], Class[w], FALSE)
    BY <1>1, Zenon DEF Init
  <2>4. slot = [p \in Pools |-> [s \in 0 .. Size(p) - 1 |-> None]]
    BY <1>1, Zenon DEF Init, Size
  <2>5. slot = [p \in Pools |-> slot[p]] /\ \A p \in Pools : slot[p] \in [0 .. Size(p) - 1 -> Waiters \cup {None}]
    BY <2>4, Zenon
  <2>6. QED
    BY <2>1, <2>2, <2>3, <2>5, Zenon DEF Shapes
<1>3. HeldByPlan
  <2>1. \A p \in Pools : \A s \in 0 .. Size(p) - 1 : slot[p][s] = None
    BY <1>1, Zenon DEF Init, Size
  <2>2. QED
    BY <2>1, SchedulerConstants, Zenon DEF HeldByPlan
<1>4. Weighed
  BY <1>1, Zenon DEF Init, Weighed
<1>5. QED
  BY <1>2, <1>3, <1>4, Zenon DEF SlotInv

\* Every step of a waiter, a sweep and a crash keep the invariant.
LEMMA SlotStep == SlotInv /\ [Next]_vars => SlotInv'
<1>1. SUFFICES ASSUME SlotInv, [Next]_vars PROVE SlotInv'
  BY Zenon
<1> USE <1>1
<1>2. pc \in [Waiters -> Places] /\ offset \in [Waiters -> Nat]
  BY Zenon DEF SlotInv, Shapes
<1>3. CASE UNCHANGED vars
  <2>1. slot' = slot /\ plan' = plan /\ offset' = offset /\ pc' = pc
    BY <1>3, Zenon DEF vars
  <2>2. Shapes' /\ HeldByPlan'
    BY <2>1 DEF SlotInv, Shapes, HeldByPlan
  <2>3. Weighed'
    BY <2>1, Zenon DEF SlotInv, Weighed, Held
  <2>4. QED
    BY <2>2, <2>3, Zenon DEF SlotInv
<1>4. CASE Snapshot
  BY <1>4, SweepStep, Zenon
<1>5. ASSUME NEW w \in Waiters, Begin(w) \/ Step(w) \/ Abandon(w) \/ Age(w) \/ Crash(w)
      PROVE  SlotInv'
  <2>1. CASE Begin(w)
    BY <2>1, BeginStep, Zenon
  <2>2. CASE Poll(w)
    <3>1. PICK place \in {"head", "direct", "ticket"} : pc' = [pc EXCEPT ![w] = place]
      BY <2>2, Zenon DEF Poll, Go
    <3>2. QED
      BY <3>1, <2>2, <1>2, QuietStep, Zenon DEF Poll, Keep, Places, Claiming
  <2>3. CASE Direct(w)
    <3>1. PICK place \in {"claim", "ticket"} : pc' = [pc EXCEPT ![w] = place]
      BY <2>3, Zenon DEF Direct, Go
    <3>2. QED
      BY <3>1, <2>3, <1>2, QuietStep, Zenon DEF Direct, Keep, Places, Claiming
  <2>4. CASE CreateTicket(w)
    <3>1. PICK place \in {"publish", "poll"} : pc' = [pc EXCEPT ![w] = place]
      BY <2>4, Zenon DEF CreateTicket, Go
    <3>2. QED
      BY <3>1, <2>4, <1>2, QuietStep, Zenon DEF CreateTicket, Keep, Places, Claiming
  <2>5. CASE Publish(w)
    BY <2>5, <1>2, QuietStep, ZenonT(30) DEF Publish, Go, Keep, Places, Claiming
  <2>6. CASE IsHead(w)
    <3>1. PICK place \in {"claim", "poll"} : pc' = [pc EXCEPT ![w] = place]
      BY <2>6, Zenon DEF IsHead, Go
    <3>2. QED
      BY <3>1, <2>6, <1>2, QuietStep, Zenon DEF IsHead, Keep, Places, Claiming
  <2>7. CASE EnterGate(w)
    <3>1. PICK place \in {"slots", "ticket", "poll"} : pc' = [pc EXCEPT ![w] = place]
      BY <2>7, Zenon DEF EnterGate, ClaimFails, Go
    <3>2. offset' \in [Waiters -> Nat]
      BY <2>7, <1>2, Zenon DEF EnterGate
    <3>3. QED
      BY <3>1, <3>2, <2>7, QuietStep, Zenon DEF EnterGate, Places, Claiming
  <2>8. CASE TrySlot(w)
    BY <2>8, TakeStep, Zenon
  <2>9. CASE ClaimEnds(w)
    <3>1. offset' \in [Waiters -> Nat] /\ plan' = plan
      BY <2>9, <1>2, Zenon DEF ClaimEnds
    <3>2. CASE Cardinality(Held(w)) = plan[w].weight
      <4>1. slot' = slot /\ pc' = [pc EXCEPT ![w] = "index"]
        BY <2>9, <3>2, Zenon DEF ClaimEnds, Go
      <4>2. QED
        BY <3>1, <3>2, <4>1, QuietStep, Zenon DEF Places, Claiming
    <3>3. CASE Cardinality(Held(w)) # plan[w].weight
      <4>1. slot' = Without(w)
        BY <2>9, <3>3, Zenon DEF ClaimEnds
      <4>2. PICK place \in {"ticket", "poll"} : pc' = [pc EXCEPT ![w] = place]
        BY <2>9, <3>3, Zenon DEF ClaimEnds, ClaimFails, Go
      <4>3. QED
        BY <3>1, <4>1, <4>2, DropStep, Zenon DEF Places
    <3>4. QED
      BY <3>2, <3>3, Zenon
  <2>10. CASE Lease(w)
    <3>1. Cardinality(Held(w)) = plan[w].weight
      BY <2>10, Zenon DEF Lease, SlotInv, Weighed
    <3>2. QED
      BY <2>10, <3>1, <1>2, QuietStep, Zenon DEF Lease, Go, Places, Claiming
  <2>11. CASE Abandon(w)
    BY <2>11, <1>2, DropStep, Zenon DEF Abandon, Go, Places
  <2>12. CASE Release(w)
    BY <2>12, <1>2, DropStep, Zenon DEF Release, Go, Keep, Places
  <2>13. CASE Age(w)
    <3>1. pc' = [pc EXCEPT ![w] = pc[w]]
      BY <2>13, <1>2, Zenon DEF Age
    <3>2. pc[w] \in Places /\ (pc[w] \in {"index", "leased"} => Cardinality(Held(w)) = plan[w].weight)
      BY <1>2, Zenon DEF SlotInv, Weighed
    <3>3. QED
      BY <2>13, <3>1, <3>2, <1>2, QuietStep, Zenon DEF Age
  <2>14. CASE Crash(w)
    BY <2>14, <1>2, QuietStep, Zenon DEF Crash, Go, Places, Claiming
  <2>15. QED
    BY <1>5, <2>1, <2>2, <2>3, <2>4, <2>5, <2>6, <2>7, <2>8, <2>9, <2>10, <2>11, <2>12, <2>13, <2>14, Zenon DEF Step
<1>6. QED
  BY <1>3, <1>4, <1>5, Zenon DEF Next
-----------------------------------------------------------------------------
\* For any waiters, slot counts, reserves and weights, and with crashes and cancellations
\* anywhere, background work never holds a slot of the interactive reserve.
THEOREM ReserveSafe == Spec => []ReserveKept
<1>1. SlotInv => ReserveKept
  <2>1. SUFFICES ASSUME SlotInv, NEW s \in DOMAIN slot["execution"], slot["execution"][s] # None,
                        Kind[slot["execution"][s]] = "background"
                 PROVE  s < Larger(Total - Reserved, 1)
    BY Zenon DEF ReserveKept
  <2>2. slot["execution"] \in [0 .. Size("execution") - 1 -> Waiters \cup {None}] /\ "execution" \in Pools
    BY <2>1, Zenon DEF SlotInv, Shapes, Pools
  <2>3. PICK w \in Waiters : slot["execution"][s] = w
    BY <2>1, <2>2, Zenon
  <2>4. plan[w].pool = "execution" /\ s \in Eligible(plan[w])
    BY <2>1, <2>2, <2>3, ZenonT(30) DEF SlotInv, HeldByPlan
  <2>5. plan[w].usable <= Larger(Total - Reserved, 1) /\ plan[w].usable \in Int /\ plan[w].low \in Int
    <3>1. plan[w].usable \in 1 .. Size(plan[w].pool) /\ plan[w].low \in 0 .. plan[w].usable - 1
      BY <2>1, Planned, Zenon DEF SlotInv
    <3>2. plan[w].usable <= Larger(Total - Reserved, 1)
      BY <2>1, <2>3, <2>4, Planned, Zenon DEF SlotInv
    <3>3. QED
      BY <3>1, <3>2
  <2>6. Larger(Total - Reserved, 1) \in Int
    BY SchedulerConstants DEF Larger
  <2>7. QED
    BY <2>4, <2>5, <2>6 DEF Eligible
<1>2. QED
  BY <1>1, SlotInit, SlotStep, PTL DEF Spec

\* For any number of waiters and any configuration, a lease has exactly the slots of its
\* weight, within its range, and whoever neither claims nor has a lease holds none.
THEOREM LeasesExact == Spec => []SlotsExact
<1>1. SlotInv => SlotsExact
  <2>1. SUFFICES ASSUME SlotInv, NEW w \in Waiters
                 PROVE  /\ pc[w] \in {"index", "leased"} =>
                            Cardinality(Held(w)) = plan[w].weight /\ Held(w) \subseteq Eligible(plan[w])
                        /\ pc[w] \notin Claiming => \A p \in Pools : \A s \in DOMAIN slot[p] : slot[p][s] # w
    BY Zenon DEF SlotsExact, Claiming
  <2>2. \A p \in Pools : DOMAIN slot[p] = 0 .. Size(p) - 1
    BY <2>1, Zenon DEF SlotInv, Shapes
  <2>3. PICK pw \in Pools : pw = plan[w].pool
    BY <2>1, Planned, Zenon DEF SlotInv
  <2>4. Held(w) \subseteq Eligible(plan[w])
    BY <2>1, <2>2, <2>3, ZenonT(30) DEF SlotInv, HeldByPlan, Held
  <2>5. \A p \in Pools : \A s \in DOMAIN slot[p] : slot[p][s] = w => pc[w] \in Claiming
    BY <2>1, <2>2, ZenonT(30) DEF SlotInv, HeldByPlan
  <2>6. QED
    BY <2>1, <2>4, <2>5, Zenon DEF SlotInv, Weighed
<1>2. QED
  BY <1>1, SlotInit, SlotStep, PTL DEF Spec
-----------------------------------------------------------------------------
(***************************************************************************)
(* Turns.  Whoever claims holds the head lock of an empty queue, or has    *)
(* the lowest ticket of its queue.                                         *)
(***************************************************************************)
Owners == Waiters \cup {None}

QueueShapes ==
    /\ queue \in [Queues -> SUBSET Waiters]
    /\ ahead \in [Waiters -> SUBSET Waiters]
    /\ head \in [Queues -> Owners]
    /\ lock \in [Queues -> Owners]

\* A ticket is in the queue of its owner's plan, and its owner waits, claims or died.
Waiting ==
    \A q \in Queues : \A w \in queue[q] :
        Queue(w) = q /\ pc[w] \in {"publish", "head", "poll", "claim", "slots", "index", "dead"}

\* The tickets of a queue are ordered.
Ordered ==
    \A q \in Queues : \A w \in queue[q] :
        /\ ahead[w] \subseteq queue[q]
        /\ \A v \in queue[q] \ {w} : v \in ahead[w] \/ w \in ahead[v]

\* The head lock is held where the code holds it, and nowhere else.
Locking ==
    /\ \A q \in Queues : \A w \in Waiters :
        lock[q] = w => Queue(w) = q /\ pc[w] \in {"direct", "publish", "claim", "slots", "dead"}
    /\ \A w \in Waiters : pc[w] \in {"direct", "publish"} => lock[Queue(w)] = w

\* The waiter that the head file names has the lowest ticket.
HeadLowest ==
    \A q \in Queues : \A w \in Waiters : head[q] = w => w \in queue[q] /\ ahead[w] = {}

\* Who may claim.
Turn(w) ==
    \/ lock[Queue(w)] = w /\ queue[Queue(w)] = {}
    \/ lock[Queue(w)] # w /\ w \in queue[Queue(w)] /\ ahead[w] = {}
ClaimInTurn == \A w \in Waiters : pc[w] \in {"claim", "slots"} => Turn(w)

TurnInv == QueueShapes /\ Waiting /\ Ordered /\ Locking /\ HeadLowest /\ ClaimInTurn

TicketPlaces == {"publish", "head", "poll", "claim", "slots", "index", "dead"}
LockPlaces == {"direct", "publish", "claim", "slots", "dead"}

\* A waiter moves on and leaves queue, head and lock alone.
LEMMA MoveTurn ==
    ASSUME Shapes, TurnInv, NEW w \in Waiters, NEW place \in Places, Alive(w),
           pc' = [pc EXCEPT ![w] = place], plan' = plan,
           queue' = queue, ahead' = ahead, head' = head, lock' = lock,
           Ticketed(w) => place \in TicketPlaces,
           lock[Queue(w)] = w => place \in LockPlaces,
           place \in {"direct", "publish"} => lock[Queue(w)] = w,
           place \in {"claim", "slots"} => Turn(w)
    PROVE  TurnInv'
<1>1. \A v \in Waiters : Queue(v) \in Queues /\ Queue(v)' = Queue(v)
  BY Planned, ZenonT(30) DEF Queue
<1>2. pc'[w] = place /\ \A v \in Waiters \ {w} : pc'[v] = pc[v]
  BY Zenon DEF Shapes
<1>3. QueueShapes' /\ Ordered'
  BY DEF TurnInv, QueueShapes, Ordered
<1>4. Waiting'
  BY <1>1, <1>2 DEF TurnInv, QueueShapes, Waiting, Ticketed, TicketPlaces
<1>5. Locking'
  BY <1>1, <1>2 DEF TurnInv, Locking, LockPlaces
<1>6. HeadLowest'
  BY ZenonT(30) DEF TurnInv, HeadLowest
<1>7. \A v \in Waiters : Turn(v)' = Turn(v)
  BY <1>1, ZenonT(30) DEF Turn
<1>8. ClaimInTurn'
  BY <1>2, <1>7 DEF TurnInv, ClaimInTurn
<1> QED BY <1>3, <1>4, <1>5, <1>6, <1>8, Zenon DEF TurnInv

\* The head a refresh finds has no ticket before it.
LEMMA HeadFound ==
    ASSUME NEW T, HeadOf(T) # None
    PROVE  HeadOf(T) \in T /\ ahead[HeadOf(T)] \cap T = {}
  BY Zenon DEF HeadOf

\* A head lock that nobody alive holds is taken.
LEMMA LockTurn ==
    ASSUME Shapes, TurnInv, NEW w \in Waiters, pc[w] = "poll", Free(lock[Queue(w)]), ~Ticketed(w),
           pc' = [pc EXCEPT ![w] = "direct"], plan' = plan,
           queue' = queue, ahead' = ahead, head' = head, lock' = [lock EXCEPT ![Queue(w)] = w]
    PROVE  TurnInv'
<1>1. \A v \in Waiters : Queue(v) \in Queues /\ Queue(v)' = Queue(v)
  BY Planned, Zenon DEF Queue
<1>2. pc'[w] = "direct" /\ \A v \in Waiters \ {w} : pc'[v] = pc[v]
  BY Zenon DEF Shapes
<1>3. lock'[Queue(w)] = w /\ \A q \in Queues \ {Queue(w)} : lock'[q] = lock[q]
  BY <1>1, Zenon DEF TurnInv, QueueShapes
<1>4. QueueShapes' /\ Ordered'
  BY ZenonT(30) DEF TurnInv, QueueShapes, Ordered, Owners
<1>5. Waiting'
  BY <1>1, <1>2 DEF TurnInv, QueueShapes, Waiting, Ticketed
<1>6. \A v \in Waiters \ {w} : lock[Queue(v)] = v /\ Alive(v) => Queue(v) # Queue(w)
  BY SchedulerConstants, Zenon DEF Free
<1>7. Locking'
  BY <1>1, <1>2, <1>3, <1>6 DEF TurnInv, Locking, Alive
<1>8. HeadLowest'
  BY ZenonT(30) DEF TurnInv, HeadLowest
<1>9. ClaimInTurn'
  BY <1>1, <1>2, <1>3, <1>6 DEF TurnInv, ClaimInTurn, Turn, Alive
<1> QED BY <1>4, <1>5, <1>7, <1>8, <1>9, Zenon DEF TurnInv

\* The owner of a head lock lets go of it; the head file is as it was or refreshed.
LEMMA UnlockTurn ==
    ASSUME Shapes, TurnInv, NEW w \in Waiters, Alive(w), NEW place \in {"ticket", "index", "head"},
           lock[Queue(w)] = w, Ticketed(w) => place \in TicketPlaces,
           pc' = [pc EXCEPT ![w] = place], plan' = plan,
           queue' = queue, ahead' = ahead, lock' = [lock EXCEPT ![Queue(w)] = None],
           head' = head \/ head' = [head EXCEPT ![Queue(w)] = HeadOf(queue[Queue(w)])]
    PROVE  TurnInv'
<1>1. \A v \in Waiters : Queue(v) \in Queues /\ Queue(v)' = Queue(v)
  BY Planned, ZenonT(30) DEF Queue
<1>2. pc'[w] = place /\ \A v \in Waiters \ {w} : pc'[v] = pc[v]
  BY Zenon DEF Shapes
<1>3. lock'[Queue(w)] = None /\ \A q \in Queues \ {Queue(w)} : lock'[q] = lock[q]
  BY <1>1, ZenonT(30) DEF TurnInv, QueueShapes
<1>4. queue[Queue(w)] \subseteq Waiters /\ HeadOf(queue[Queue(w)]) \in Owners
  BY <1>1, HeadFound DEF TurnInv, QueueShapes, Owners
<1>5. QueueShapes' /\ Ordered'
  BY <1>1, <1>4 DEF TurnInv, QueueShapes, Ordered, Owners
<1>6. Waiting'
  BY <1>1, <1>2 DEF TurnInv, QueueShapes, Waiting, Ticketed, TicketPlaces
<1>7. Locking'
  BY <1>1, <1>2, <1>3, SchedulerConstants DEF TurnInv, Locking
<1>8. HeadLowest'
  <2>1. SUFFICES ASSUME NEW q \in Queues, NEW v \in Waiters, head'[q] = v
                 PROVE  v \in queue[q] /\ ahead[v] = {}
    BY Zenon DEF HeadLowest
  <2>3. CASE head'[q] = head[q]
    BY <2>1, <2>3, Zenon DEF TurnInv, HeadLowest
  <2>4. CASE q = Queue(w) /\ head'[q] = HeadOf(queue[q])
    <3>1. v \in queue[q] /\ ahead[v] \cap queue[q] = {}
      BY <2>1, <2>4, HeadFound, SchedulerConstants
    <3> QED BY <3>1, Zenon DEF TurnInv, Ordered
  <2> QED BY <2>3, <2>4, Zenon DEF TurnInv, QueueShapes
<1>9. ClaimInTurn'
  BY <1>1, <1>2, <1>3, SchedulerConstants DEF TurnInv, ClaimInTurn, Turn
<1> QED BY <1>5, <1>6, <1>7, <1>8, <1>9, Zenon DEF TurnInv

\* A new ticket comes after the tickets of its queue.
LEMMA TicketTurn ==
    ASSUME Shapes, TurnInv, NEW w \in Waiters, pc[w] = "ticket", Free(lock[Queue(w)]),
           CreateTicket(w)
    PROVE  TurnInv'
<1> DEFINE q == Queue(w)
<1>1. \A v \in Waiters : Queue(v) \in Queues /\ Queue(v)' = Queue(v)
  BY Planned, ZenonT(30) DEF Queue, CreateTicket, Keep
<1>2. /\ pc' = [pc EXCEPT ![w] = "publish"] /\ lock' = [lock EXCEPT ![q] = w]
      /\ queue' = [queue EXCEPT ![q] = @ \cup {w}] /\ ahead' = [ahead EXCEPT ![w] = queue[q]]
      /\ head' = head
  BY Zenon DEF CreateTicket, Go
<1>3. pc'[w] = "publish" /\ \A v \in Waiters \ {w} : pc'[v] = pc[v]
  BY <1>2, Zenon DEF Shapes
<1>4. lock'[q] = w /\ \A r \in Queues \ {q} : lock'[r] = lock[r]
  BY <1>1, <1>2, Zenon DEF TurnInv, QueueShapes
<1>5. queue'[q] = queue[q] \cup {w} /\ \A r \in Queues \ {q} : queue'[r] = queue[r]
  BY <1>1, <1>2, Zenon DEF TurnInv, QueueShapes
<1>6. ahead'[w] = queue[q] /\ \A v \in Waiters \ {w} : ahead'[v] = ahead[v]
  BY <1>2, Zenon DEF TurnInv, QueueShapes
<1>7. \A r \in Queues : w \notin queue[r] /\ queue[r] \subseteq Waiters
  BY Zenon DEF TurnInv, QueueShapes, Waiting
<1>8. \A v \in Waiters \ {w} : lock[Queue(v)] = v /\ Alive(v) => Queue(v) # q
  BY SchedulerConstants, Zenon DEF Free
<1>9. QueueShapes'
  BY <1>1, <1>2 DEF TurnInv, QueueShapes, Owners
<1>10. Waiting'
  BY <1>1, <1>3, <1>5, <1>7 DEF TurnInv, Waiting
<1>11. Ordered'
  <2>1. SUFFICES ASSUME NEW r \in Queues, NEW v \in queue'[r]
                 PROVE  /\ ahead'[v] \subseteq queue'[r]
                        /\ \A u \in queue'[r] \ {v} : u \in ahead'[v] \/ v \in ahead'[u]
    BY Zenon DEF Ordered
  <2>2. CASE r # q
    BY <1>5, <1>6, <1>7, <2>1, <2>2 DEF TurnInv, Ordered
  <2>3. CASE r = q /\ v = w
    BY <1>5, <1>6, <2>3, Zenon
  <2>4. CASE r = q /\ v # w
    BY <1>5, <1>6, <1>7, <2>1, <2>4 DEF TurnInv, Ordered
  <2> QED BY <2>2, <2>3, <2>4, Zenon
<1>12. Locking'
  BY <1>1, <1>3, <1>4, <1>8 DEF TurnInv, Locking, Alive
<1>13. HeadLowest'
  BY <1>1, <1>2, <1>3, <1>5, <1>6, <1>7 DEF TurnInv, HeadLowest
<1>14. ClaimInTurn'
  <2>1. SUFFICES ASSUME NEW v \in Waiters, pc'[v] \in {"claim", "slots"} PROVE Turn(v)'
    BY Zenon DEF ClaimInTurn
  <2>2. v # w /\ Turn(v) /\ Alive(v)
    BY <1>3, <2>1, Zenon DEF TurnInv, ClaimInTurn, Alive
  <2>3. CASE Queue(v) # q
    BY <1>1, <1>4, <1>5, <1>6, <2>2, <2>3 DEF Turn
  <2>4. CASE Queue(v) = q
    BY <1>1, <1>4, <1>5, <1>6, <1>8, <2>2, <2>4 DEF Turn
  <2> QED BY <2>3, <2>4, Zenon
<1> QED BY <1>9, <1>10, <1>11, <1>12, <1>13, <1>14, Zenon DEF TurnInv

\* A ticket that its owner releases, or whose owner died, is removed.
LEMMA RemoveTurn ==
    ASSUME Shapes, TurnInv, NEW w \in Waiters, Alive(w), NEW place \in Places,
           NEW h \in Owners, Remove(Queue(w), h), h = w \/ (Free(h) /\ h = head[Queue(w)]),
           pc' = [pc EXCEPT ![w] = place], plan' = plan, lock' = lock,
           lock[Queue(w)] # w,
           h # w => place = "poll",
           h = w => place \in {"out", "leased"}
    PROVE  TurnInv'
<1> DEFINE q == Queue(w)
<1>1. \A v \in Waiters : Queue(v) \in Queues /\ Queue(v)' = Queue(v)
  BY Planned, Zenon DEF Queue
<1>2. pc'[w] = place /\ \A v \in Waiters \ {w} : pc'[v] = pc[v]
  BY Zenon DEF Shapes
<1>3. /\ queue'[q] = queue[q] \ {h} /\ \A r \in Queues \ {q} : queue'[r] = queue[r]
      /\ \A v \in Waiters : ahead'[v] = IF v = h THEN {} ELSE ahead[v] \ {h}
  BY <1>1, Zenon DEF TurnInv, QueueShapes, Remove
<1>4. \A r \in Queues : queue[r] \subseteq Waiters
  BY Zenon DEF TurnInv, QueueShapes
<1>5. HeadOf(queue[q] \ {h}) \in Owners
  BY <1>1, <1>4, HeadFound DEF Owners
<1>6. QueueShapes'
  <2>1. queue' \in [Queues -> SUBSET Waiters]
    BY <1>1, Zenon DEF TurnInv, QueueShapes, Remove
  <2>2. ahead' \in [Waiters -> SUBSET Waiters]
    BY Zenon DEF TurnInv, QueueShapes, Remove
  <2>3. head' \in [Queues -> Owners]
    BY <1>1, <1>5 DEF TurnInv, QueueShapes, Remove, Owners
  <2> QED BY <2>1, <2>2, <2>3, Zenon DEF TurnInv, QueueShapes
<1>7. \A r \in Queues : w \in queue[r] => r = q
  BY Zenon DEF TurnInv, Waiting
<1>8. Waiting'
  BY <1>1, <1>2, <1>3, <1>4, <1>7 DEF TurnInv, Waiting
<1>9. \A r \in Queues \ {q} : h \notin queue[r]
  BY <1>1, <1>4 DEF TurnInv, Waiting, HeadLowest
<1>10. Ordered'
  <2>1. SUFFICES ASSUME NEW r \in Queues, NEW v \in queue'[r]
                 PROVE  /\ ahead'[v] \subseteq queue'[r]
                        /\ \A u \in queue'[r] \ {v} : u \in ahead'[v] \/ v \in ahead'[u]
    BY Zenon DEF Ordered
  <2>2. queue'[r] = queue[r] \ {h}
    BY <1>1, <1>3, <1>9
  <2>3. \A u \in queue'[r] : ahead'[u] = ahead[u] \ {h}
    BY <1>3, <1>4, <2>2, Zenon
  <2>4. ahead[v] \subseteq queue[r] /\ \A u \in queue[r] \ {v} : u \in ahead[v] \/ v \in ahead[u]
    BY <2>1, <2>2, Zenon DEF TurnInv, Ordered
  <2> QED BY <2>1, <2>2, <2>3, <2>4
<1>11. Locking'
  BY <1>1, <1>2 DEF TurnInv, Locking, QueueShapes, Owners
<1>12. HeadLowest'
  <2>1. SUFFICES ASSUME NEW r \in Queues, NEW v \in Waiters, head'[r] = v
                 PROVE  v \in queue'[r] /\ ahead'[v] = {}
    BY Zenon DEF HeadLowest
  <2>2. CASE head[r] = v /\ v # h
    BY <1>1, <1>3, <2>1, <2>2 DEF TurnInv, HeadLowest
  <2>3. CASE r = q /\ v = HeadOf(queue[q] \ {h})
    <3>1. v \in queue[q] \ {h} /\ ahead[v] \cap (queue[q] \ {h}) = {}
      BY <2>3, HeadFound, SchedulerConstants, ZenonT(30)
    <3>2. ahead[v] \subseteq queue[q]
      BY <1>1, <3>1, Zenon DEF TurnInv, Ordered
    <3> QED BY <1>3, <2>3, <3>1, <3>2, Zenon
  <2>4. CASE r # q
    <3>1. head[r] = v
      BY <1>1, <2>1, <2>4, Zenon DEF Remove, TurnInv, QueueShapes
    <3>2. v # h
      BY <1>9, <2>4, <3>1 DEF TurnInv, HeadLowest
    <3> QED BY <2>2, <3>1, <3>2, Zenon
  <2>5. CASE r = q
    <3>1. \/ v = HeadOf(queue[q] \ {h})
          \/ head[q] = h /\ v = None
          \/ head[q] # h /\ v = head[q]
      BY <1>1, <2>1, <2>5 DEF Remove, TurnInv, QueueShapes
    <3> QED BY <2>2, <2>3, <2>5, <3>1, SchedulerConstants, Zenon
  <2> QED BY <2>4, <2>5, Zenon
<1>13. ClaimInTurn'
  <2>1. SUFFICES ASSUME NEW v \in Waiters, pc'[v] \in {"claim", "slots"} PROVE Turn(v)'
    BY Zenon DEF ClaimInTurn
  <2>2. v # w /\ Turn(v) /\ Alive(v)
    BY <1>2, <2>1 DEF TurnInv, ClaimInTurn, Alive
  <2>3. v # h
    BY <2>2, SchedulerConstants, ZenonT(30) DEF Free
  <2>4. \A r \in Queues : queue'[r] = queue[r] \ {h}
    BY <1>1, <1>3, <1>9
  <2>5. CASE lock[Queue(v)] = v /\ queue[Queue(v)] = {}
    BY <1>1, <2>4, <2>5, Zenon DEF Turn
  <2>6. CASE lock[Queue(v)] # v /\ v \in queue[Queue(v)] /\ ahead[v] = {}
    BY <1>1, <1>3, <2>3, <2>4, <2>6 DEF Turn
  <2> QED BY <2>2, <2>5, <2>6, ZenonT(30) DEF Turn
<1> QED BY <1>6, <1>8, <1>10, <1>11, <1>12, <1>13 DEF TurnInv

\* A new request has neither a ticket nor a lock of its last one.
LEMMA BeginTurn ==
    ASSUME Shapes, Shapes', TurnInv, NEW w \in Waiters, Begin(w)
    PROVE  TurnInv'
<1>1. /\ pc[w] = "out" /\ pc'[w] = "poll" /\ \A v \in Waiters \ {w} : pc'[v] = pc[v]
      /\ queue' = queue /\ ahead' = ahead /\ head' = head /\ lock' = lock
      /\ \A v \in Waiters \ {w} : plan'[v] = plan[v]
  BY DEF Begin, Go, Shapes
<1>2. \A v \in Waiters \ {w} : Queue(v)' = Queue(v) /\ Queue(v) \in Queues
  BY <1>1, Planned, Zenon DEF Queue
<1>3. \A q \in Queues : w \notin queue[q] /\ lock[q] # w /\ queue[q] \subseteq Waiters
  BY <1>1 DEF TurnInv, QueueShapes, Waiting, Locking
<1>4. QueueShapes' /\ Ordered' /\ HeadLowest'
  BY <1>1 DEF TurnInv, QueueShapes, Ordered, HeadLowest
<1>5. Waiting'
  BY <1>1, <1>2, <1>3, ZenonT(30) DEF TurnInv, Waiting
<1>6. Locking'
  BY <1>1, <1>2, <1>3 DEF TurnInv, Locking
<1>7. ClaimInTurn'
  BY <1>1, <1>2 DEF TurnInv, ClaimInTurn, Turn
<1> QED BY <1>4, <1>5, <1>6, <1>7 DEF TurnInv

\* snapshot removes the tickets of the dead.
LEMMA SweepTurn ==
    ASSUME Shapes, TurnInv, Snapshot
    PROVE  TurnInv'
<1>1. /\ pc' = pc /\ plan' = plan /\ lock' = lock
      /\ \A q \in Queues : queue'[q] = {w \in queue[q] : Alive(w)}
      /\ \A w \in Waiters : ahead'[w] = IF Alive(w) THEN {v \in ahead[w] : Alive(v)} ELSE {}
      /\ \A q \in Queues : head'[q] = IF Free(head[q]) THEN None ELSE head[q]
  BY ZenonT(30) DEF Snapshot
<1>2. \A v \in Waiters : Queue(v) \in Queues /\ Queue(v)' = Queue(v)
  BY <1>1, Planned, Zenon DEF Queue
<1>3. \A q \in Queues : queue[q] \subseteq Waiters
  BY Zenon DEF TurnInv, QueueShapes
<1>4. QueueShapes'
  BY Zenon DEF Snapshot, TurnInv, QueueShapes, Owners
<1>5. Waiting'
  BY <1>1, <1>2, <1>3 DEF TurnInv, Waiting
<1>6. Ordered'
  <2>1. SUFFICES ASSUME NEW q \in Queues, NEW w \in queue'[q]
                 PROVE  /\ ahead'[w] \subseteq queue'[q]
                        /\ \A v \in queue'[q] \ {w} : v \in ahead'[w] \/ w \in ahead'[v]
    BY Zenon DEF Ordered
  <2>2. \A v \in queue'[q] : v \in queue[q] /\ Alive(v) /\ ahead'[v] = {u \in ahead[v] : Alive(u)}
    BY <1>1, <1>3, ZenonT(30)
  <2>3. ahead[w] \subseteq queue[q] /\ \A v \in queue[q] \ {w} : v \in ahead[w] \/ w \in ahead[v]
    BY <2>1, <2>2, Zenon DEF TurnInv, Ordered
  <2> QED BY <1>1, <2>1, <2>2, <2>3
<1>7. Locking'
  BY <1>1, <1>2, Zenon DEF TurnInv, Locking
<1>8. HeadLowest'
  <2>1. SUFFICES ASSUME NEW q \in Queues, NEW w \in Waiters, head'[q] = w
                 PROVE  w \in queue'[q] /\ ahead'[w] = {}
    BY Zenon DEF HeadLowest
  <2>2. head[q] = w /\ Alive(w)
    BY <1>1, <2>1, SchedulerConstants DEF Free
  <2>3. w \in queue[q] /\ ahead[w] = {}
    BY <2>2, Zenon DEF TurnInv, HeadLowest
  <2> QED BY <1>1, <2>2, <2>3
<1>9. ClaimInTurn'
  <2>1. SUFFICES ASSUME NEW w \in Waiters, pc'[w] \in {"claim", "slots"} PROVE Turn(w)'
    BY Zenon DEF ClaimInTurn
  <2>2. Turn(w) /\ Alive(w)
    BY <1>1, <2>1, Zenon DEF TurnInv, ClaimInTurn, Alive
  <2> QED BY <1>1, <1>2, <2>2 DEF Turn
<1> QED BY <1>4, <1>5, <1>6, <1>7, <1>8, <1>9, Zenon DEF TurnInv

\* At first nobody waits.
LEMMA TurnInit == Init => TurnInv
  BY SchedulerConstants DEF Init, TurnInv, QueueShapes, Owners, Waiting, Ordered, Locking,
     HeadLowest, ClaimInTurn, Queue

\* Every step keeps the turns.
LEMMA TurnStep == SlotInv /\ SlotInv' /\ TurnInv /\ [Next]_vars => TurnInv'
<1>1. SUFFICES ASSUME SlotInv, SlotInv', TurnInv, [Next]_vars PROVE TurnInv'
  BY Zenon
<1> USE <1>1
<1>2. Shapes /\ Shapes' /\ pc \in [Waiters -> Places]
  BY Zenon DEF SlotInv, Shapes
<1>3. CASE UNCHANGED vars
  <2>1. /\ pc' = pc /\ plan' = plan /\ queue' = queue /\ ahead' = ahead /\ head' = head
        /\ lock' = lock
    BY <1>3, Zenon DEF vars
  <2> QED BY <2>1 DEF TurnInv, QueueShapes, Waiting, Ordered, Locking, HeadLowest, ClaimInTurn,
                      Turn, Queue
<1>4. CASE Snapshot
  BY <1>2, <1>4, SweepTurn, Zenon
<1>5. ASSUME NEW w \in Waiters, Begin(w) \/ Step(w) \/ Abandon(w) \/ Age(w) \/ Crash(w)
      PROVE  TurnInv'
  <2> DEFINE q == Queue(w)
  <2>1. q \in Queues /\ (Ticketed(w) => pc[w] \in TicketPlaces) /\ (lock[q] = w => pc[w] \in LockPlaces)
    BY <1>2, Planned DEF Queue, TurnInv, Waiting, Ticketed, Locking, TicketPlaces, LockPlaces
  <2>2. CASE Begin(w)
    BY <1>2, <2>2, BeginTurn, Zenon
  <2>3. CASE Poll(w)
    <3>1. /\ pc[w] = "poll" /\ Alive(w) /\ lock[q] # w /\ plan' = plan /\ queue' = queue
          /\ ahead' = ahead /\ head' = head
      BY <2>1, <2>3, ZenonT(30) DEF Poll, Keep, Alive, LockPlaces
    <3>2. CASE Ticketed(w)
      BY <1>2, <2>3, <3>1, <3>2, MoveTurn, ZenonT(30) DEF Poll, Go, Places, TicketPlaces
    <3>3. CASE ~Ticketed(w) /\ Free(lock[q])
      BY <1>2, <2>3, <3>1, <3>3, LockTurn DEF Poll, Go
    <3>4. CASE ~Ticketed(w) /\ ~Free(lock[q])
      BY <1>2, <2>3, <3>1, <3>4, MoveTurn, ZenonT(30) DEF Poll, Go, Places
    <3> QED BY <3>2, <3>3, <3>4, Zenon
  <2>4. CASE Direct(w)
    <3>1. /\ pc[w] = "direct" /\ Alive(w) /\ lock[q] = w /\ plan' = plan /\ queue' = queue
          /\ ahead' = ahead /\ head' = head /\ ~Ticketed(w)
      BY <2>1, <2>4, ZenonT(30) DEF Direct, Keep, Alive, TurnInv, Locking, TicketPlaces
    <3>2. CASE queue[q] = {} /\ ~Competes(w)
      BY <1>2, <2>4, <3>1, <3>2, MoveTurn, ZenonT(30) DEF Direct, Go, Places, LockPlaces, Turn
    <3>3. CASE ~(queue[q] = {} /\ ~Competes(w))
      BY <1>2, <2>4, <3>1, <3>3, UnlockTurn, ZenonT(30) DEF Direct, Go, Unlock
    <3> QED BY <3>2, <3>3, Zenon
  <2>5. CASE CreateTicket(w)
    <3>1. pc[w] = "ticket" /\ Alive(w) /\ lock[q] # w /\ ~Ticketed(w) /\ plan' = plan /\ head' = head
      BY <2>1, <2>5, Zenon DEF CreateTicket, Keep, Alive, LockPlaces, TicketPlaces
    <3>2. CASE Free(lock[q])
      BY <1>2, <2>5, <3>1, <3>2, TicketTurn
    <3>3. CASE ~Free(lock[q])
      BY <1>2, <2>5, <3>1, <3>3, MoveTurn, ZenonT(30) DEF CreateTicket, Go, Places
    <3> QED BY <3>2, <3>3
  <2>6. CASE Publish(w)
    <3>1. pc[w] = "publish" /\ Alive(w) /\ lock[q] = w
      BY <2>6, ZenonT(30) DEF Publish, Alive, TurnInv, Locking
    <3> QED BY <1>2, <2>6, <3>1, UnlockTurn, ZenonT(30) DEF Publish, Go, Unlock, Keep, TicketPlaces
  <2>7. CASE IsHead(w)
    <3>1. pc[w] = "head" /\ Alive(w) /\ lock[q] # w /\ plan' = plan /\ lock' = lock
      BY <2>1, <2>7, ZenonT(30) DEF IsHead, Keep, Alive, LockPlaces
    <3>2. CASE head[q] = w
      <4>1. Turn(w) /\ queue' = queue /\ ahead' = ahead /\ head' = head
        BY <2>1, <2>7, <3>1, <3>2, ZenonT(30) DEF IsHead, Turn, TurnInv, HeadLowest
      <4>2. PICK place \in {"poll", "claim"} : pc' = [pc EXCEPT ![w] = place]
        BY <2>7, <3>2 DEF IsHead, Go
      <4> QED BY <1>2, <3>1, <4>1, <4>2, MoveTurn, ZenonT(30) DEF Places, TicketPlaces
    <3>3. CASE head[q] # w /\ Free(head[q])
      <4>1. Remove(q, head[q]) /\ pc' = [pc EXCEPT ![w] = "poll"] /\ head[q] \in Owners
        BY <2>1, <2>7, <3>3, ZenonT(30) DEF IsHead, Go, TurnInv, QueueShapes
      <4> QED BY <1>2, <3>1, <3>3, <4>1, RemoveTurn, ZenonT(30) DEF Places
    <3>4. CASE head[q] # w /\ ~Free(head[q])
      BY <1>2, <2>7, <3>1, <3>4, MoveTurn, ZenonT(30) DEF IsHead, Go, Places, TicketPlaces
    <3> QED BY <3>2, <3>3, <3>4
  <2>8. CASE EnterGate(w)
    <3>1. /\ pc[w] = "claim" /\ Alive(w) /\ Turn(w) /\ plan' = plan /\ queue' = queue
          /\ ahead' = ahead /\ head' = head
      BY <2>8, ZenonT(30) DEF EnterGate, Alive, TurnInv, ClaimInTurn
    <3>2. CASE lock' = lock /\ pc' = [pc EXCEPT ![w] = "slots"]
      BY <1>2, <3>1, <3>2, MoveTurn, ZenonT(30) DEF Places, TicketPlaces, LockPlaces
    <3>3. CASE ClaimFails(w) /\ lock[q] = w
      <4>1. pc' = [pc EXCEPT ![w] = "ticket"] /\ lock' = [lock EXCEPT ![q] = None]
        BY <3>3, Zenon DEF ClaimFails, Go
      <4> QED BY <1>2, <3>1, <3>3, <4>1, UnlockTurn, ZenonT(30) DEF Turn, Ticketed
    <3>4. CASE ClaimFails(w) /\ lock[q] # w
      BY <1>2, <3>1, <3>4, MoveTurn, ZenonT(30) DEF ClaimFails, Go, Places, TicketPlaces
    <3> QED BY <2>8, <3>2, <3>3, <3>4, ZenonT(30) DEF EnterGate, Go
  <2>9. CASE TrySlot(w) \/ Age(w)
    <3>1. /\ pc' = pc /\ plan' = plan /\ queue' = queue /\ ahead' = ahead /\ head' = head
          /\ lock' = lock
      BY <2>9, Zenon DEF TrySlot, Age
    <3> QED BY <3>1 DEF TurnInv, QueueShapes, Waiting, Ordered, Locking, HeadLowest, ClaimInTurn,
                        Turn, Queue
  <2>10. CASE ClaimEnds(w)
    <3>1. /\ pc[w] = "slots" /\ Alive(w) /\ Turn(w) /\ plan' = plan /\ queue' = queue
          /\ ahead' = ahead /\ head' = head
      BY <2>10, ZenonT(30) DEF ClaimEnds, Alive, TurnInv, ClaimInTurn
    <3>2. CASE lock[q] = w
      <4>1. PICK place \in {"ticket", "index"} : pc' = [pc EXCEPT ![w] = place]
        BY <2>10, <3>2, Zenon DEF ClaimEnds, ClaimFails, Go
      <4>2. lock' = [lock EXCEPT ![q] = None] /\ ~Ticketed(w)
        BY <2>10, <3>1, <3>2, ZenonT(30) DEF ClaimEnds, ClaimFails, Turn, Ticketed
      <4> QED BY <1>2, <3>1, <3>2, <4>1, <4>2, UnlockTurn, ZenonT(30)
    <3>3. CASE lock[q] # w
      <4>1. PICK place \in {"poll", "index"} : pc' = [pc EXCEPT ![w] = place]
        BY <2>10, <3>3 DEF ClaimEnds, ClaimFails, Go
      <4>2. lock' = lock
        BY <2>10, <3>3, Zenon DEF ClaimEnds, ClaimFails
      <4> QED BY <1>2, <3>1, <3>3, <4>1, <4>2, MoveTurn, ZenonT(30) DEF Places, TicketPlaces
    <3> QED BY <3>2, <3>3, Zenon
  <2>11. CASE Lease(w) \/ Abandon(w)
    <3>1. /\ pc[w] \in {"poll", "index"} /\ Alive(w) /\ lock[q] # w /\ plan' = plan /\ lock' = lock
          /\ ReleaseTicket(w)
      BY <2>1, <2>11, ZenonT(30) DEF Lease, Abandon, Alive, LockPlaces
    <3>2. PICK place \in {"leased", "out"} : pc' = [pc EXCEPT ![w] = place]
      BY <2>11, Zenon DEF Lease, Abandon, Go
    <3>3. CASE Ticketed(w)
      BY <1>2, <3>1, <3>2, <3>3, RemoveTurn, ZenonT(30) DEF ReleaseTicket, Places, Owners
    <3>4. CASE ~Ticketed(w)
      BY <1>2, <3>1, <3>2, <3>4, MoveTurn, ZenonT(30) DEF ReleaseTicket, Places
    <3> QED BY <3>3, <3>4
  <2>12. CASE Release(w)
    <3>1. pc[w] = "leased" /\ Alive(w) /\ lock[q] # w /\ ~Ticketed(w)
      BY <2>1, <2>12, ZenonT(30) DEF Release, Alive, LockPlaces, TicketPlaces
    <3> QED BY <1>2, <2>12, <3>1, MoveTurn, ZenonT(30) DEF Release, Go, Keep, Places
  <2>13. CASE Crash(w)
    BY <1>2, <2>13, MoveTurn, Zenon DEF Crash, Go, Places, TicketPlaces, LockPlaces, Alive
  <2> QED BY <1>5, <2>2, <2>3, <2>4, <2>5, <2>6, <2>7, <2>8, <2>9, <2>10, <2>11, <2>12, <2>13, ZenonT(30) DEF Step
<1> QED BY <1>3, <1>4, <1>5, Zenon DEF Next

\* For any number of waiters and any configuration, and with crashes, cancellations and
\* stale head files anywhere, nobody completes a claim (claim_slots under is_head or
\* claim_available) before a waiter of its queue with an earlier ticket.
THEOREM TurnsKept == Spec => NoOvertaking
<1>1. SlotInv /\ TurnInv /\ [Next]_vars =>
        [\A w \in Waiters :
            pc[w] = "slots" /\ pc'[w] = "index" =>
                \A v \in queue[Queue(w)] \ {w} : Ticketed(w) /\ w \in ahead[v]]_vars
  <2>1. SUFFICES ASSUME SlotInv, TurnInv, NEW w \in Waiters, pc[w] = "slots",
                        NEW v \in queue[Queue(w)] \ {w}
                 PROVE  Ticketed(w) /\ w \in ahead[v]
    OBVIOUS
  <2>2. Queue(w) \in Queues /\ Turn(w)
    BY <2>1, Planned DEF SlotInv, Queue, TurnInv, ClaimInTurn
  <2> QED BY <2>1, <2>2, ZenonT(30) DEF Turn, TurnInv, Ordered, Ticketed
<1>2. Spec => [](SlotInv /\ TurnInv)
  <2>1. SlotInv /\ TurnInv /\ [Next]_vars => SlotInv' /\ TurnInv'
    BY SlotStep, TurnStep
  <2> QED BY <2>1, SlotInit, TurnInit, PTL DEF Spec
<1> QED BY <1>1, <1>2, PTL DEF Spec, NoOvertaking

-----------------------------------------------------------------------------
\* The calls on a browser session.

Stages == {"launch", "connect", "frame", "submit", "settle", "before", "dom", "image", "after",
           "view", "html", "htmlframe", "check", "dispatch"}
Ops == {"open", "observe", "navigate", "click", "type", "scroll"}
Pendings == {"no", "navigation", "document", "observation"}
Controls == [tag : {"a", "button"}, href : Nat, x : Nat]
Looks == [id : 0 .. MaxCalls, stable : BOOLEAN, dom : Nat, image : Nat, html : Nat, controls : Seq(Controls)]
CallRecords == [at : Stages, by : Principals, op : Ops, seen : Looks, candidate : Nat,
                before : Nat, after : Nat, x : Nat, named : 0 .. MaxCalls]
SessionRecords == [id : 1 .. MaxCalls, owner : Principals, pending : Pendings, request : 0 .. MaxCalls,
                   prev : Nat, loader : Nat, observation : 0 .. MaxCalls, last : Looks, html : Nat,
                   life : {"fresh", "over"}]
PageRecords == [doc : Nat, next : Nat, controls : Seq(Controls)]

BrowseType ==
    /\ session \in {NoSession} \cup SessionRecords
    /\ page \in PageRecords /\ Len(page.controls) = 2
    /\ docs \in Nat /\ n \in 0 .. MaxCalls
    /\ call \in {Idle} \cup CallRecords
    /\ told \subseteq [by : Principals, id : 1 .. MaxCalls]
    /\ sent \in [1 .. MaxCalls -> 0 .. 1] /\ used \in [1 .. MaxCalls -> 0 .. 1]

\* A call past its launch has a session, and only open launches one.
Opened ==
    /\ call.at = "launch" => session = NoSession
    /\ call.at \in Stages \ {"launch"} => session \in SessionRecords
    /\ call.at \in {"launch", "connect"} => call.op = "open"
    /\ call.at = "connect" => session.last = NoLast
    /\ call # Idle => n >= 1

\* The documents of the page: the one about to commit is another than the present one.
Documents ==
    /\ page.doc <= docs /\ page.next <= docs
    /\ session # NoSession /\ call.at # "connect" => page.doc >= 1 /\ page.next # page.doc

\* A document that was left and is not about to commit does not come back.
Gone(d) == d \in 1 .. docs /\ d # page.doc /\ d # page.next
Since(d) == d >= 1 /\ (page.doc = d \/ Gone(d))

\* An observation in progress: what it has read so far is of one document, or it will
\* find another document at its end than at its beginning.
Reading ==
    /\ call.at \in Stages \ {"dispatch", "html", "htmlframe"} => call.seen.html = 0
    /\ call.at = "dom" => Since(call.before)
    /\ call.at = "image" => \/ page.doc = call.before /\ call.before >= 1 /\ call.seen.dom = call.before
                            \/ Gone(call.before)
    /\ call.at = "after" => \/ /\ page.doc = call.before /\ call.before >= 1
                               /\ call.seen.dom = call.before /\ call.seen.image = call.before
                            \/ Gone(call.before)
    /\ call.at = "view" => /\ Since(call.after)
                           /\ call.after = call.before => /\ call.seen.dom = call.before
                                                          /\ call.seen.image = call.before
    /\ call.at \in {"html", "htmlframe"} =>
          /\ Since(call.after) /\ call.seen.id = n /\ session.observation = n
          /\ call.seen.stable => call.seen.dom = call.after /\ call.seen.image = call.after
    /\ call.at = "html" => call.seen.html = 0
    /\ call.at = "htmlframe" /\ page.doc = call.after => call.seen.html = call.after

\* The observation a caller may name is the session's last, and was made for its latest
\* navigation.
Lasting ==
    session # NoSession =>
        /\ session.id <= n /\ session.request <= n /\ session.observation <= n
        /\ session.last.stable => /\ session.last.id >= session.request
                                  /\ session.last.dom = session.last.image
                                  /\ session.last.html \in {0, session.last.dom}
        /\ \A t \in told : t.id = session.observation => session.last.id = session.observation
        /\ session.last.id <= n

\* What was told is of an earlier call.
Telling == \A t \in told : t.id <= n /\ (call # Idle => t.id < n)

\* A navigation that may still be submitted was not.
Submitting ==
    /\ \A r \in 1 .. MaxCalls : sent[r] = 1 => r <= n
    /\ call.at \in {"launch", "connect"} => sent[n] = 0
    /\ session # NoSession /\ (session.pending = "navigation" \/ call.at \in {"frame", "submit"}) =>
          session.request >= 1 /\ sent[session.request] = 0
    /\ call.at = "submit" => session.pending = "document"

\* An observation that may still be used was not.
Inputting ==
    /\ \A o \in 1 .. MaxCalls : used[o] = 1 => o < n /\ (session # NoSession => session.observation # o)
    /\ call.at \in {"check", "dispatch"} =>
          /\ call.named \in 1 .. n - 1 /\ used[call.named] = 0
          /\ session.last.id = call.named /\ session.last.stable
    /\ call.at = "check" => session.observation = call.named
    /\ call.at = "dispatch" => session.observation = 0
    /\ ClickTargetKept

PageInv == /\ BrowseType /\ Opened /\ Documents /\ Reading /\ Lasting /\ Telling /\ Submitting
           /\ Inputting

\* A session is told from none by its id, and a call in progress by its stage.
LEMMA PageShapes ==
    /\ NoSession \notin SessionRecords /\ NoSession.id = 0
    /\ \A s \in SessionRecords : s # NoSession /\ s.id # 0
    /\ Idle \notin CallRecords /\ Idle.at = "idle"
    /\ \A c \in CallRecords : c # Idle /\ c.at # "idle" /\ c.at \in Stages
    /\ NoLast \in Looks /\ NoLast.id = 0 /\ NoLast.html = 0 /\ NoLast.stable = FALSE
<1>1. NoSession.id = 0
  BY Zenon DEF NoSession
<1>2. \A s \in SessionRecords : s.id # 0
  BY BrowseConstants DEF SessionRecords
<1>3. Idle.at = "idle"
  BY Zenon DEF Idle
<1>4. \A c \in CallRecords : c.at # "idle" /\ c.at \in Stages
  BY Zenon DEF CallRecords, Stages
<1>5. NoLast \in Looks /\ NoLast.id = 0 /\ NoLast.html = 0 /\ NoLast.stable = FALSE
  BY BrowseConstants DEF NoLast, Looks
<1> QED BY <1>1, <1>2, <1>3, <1>4, <1>5, Zenon

\* The initial state satisfies the invariant.
LEMMA BrowseInitHolds == BrowseInit => PageInv
<1> SUFFICES ASSUME BrowseInit PROVE PageInv
  BY Zenon
<1>1. BrowseType
  <2>1. Link(1) \in Controls /\ Button(1) \in Controls
    BY Zenon DEF Link, Button, Controls
  <2>2. <<Link(1), Button(1)>> \in Seq(Controls) /\ Len(<<Link(1), Button(1)>>) = 2
    BY <2>1
  <2>3. page \in PageRecords /\ Len(page.controls) = 2
    BY <2>2, Zenon DEF BrowseInit, PageRecords
  <2>4. sent \in [1 .. MaxCalls -> 0 .. 1] /\ used \in [1 .. MaxCalls -> 0 .. 1] /\ docs \in Nat /\ n \in 0 .. MaxCalls
    BY BrowseConstants DEF BrowseInit
  <2> QED BY <2>3, <2>4, Zenon DEF BrowseInit, BrowseType
<1>2. session = NoSession /\ call = Idle /\ call.at = "idle" /\ told = {} /\ "idle" \notin Stages
  BY PageShapes, Zenon DEF BrowseInit, Stages
<1>3. Opened /\ Reading /\ Lasting /\ Telling
  BY <1>2, Zenon DEF Opened, Reading, Lasting, Telling, Stages
<1>4. Documents
  BY <1>2 DEF Documents, BrowseInit
<1>5. Submitting /\ Inputting
  <2>1. \A r \in 1 .. MaxCalls : sent[r] = 0 /\ used[r] = 0
    BY Zenon DEF BrowseInit
  <2> QED BY <1>2, <2>1 DEF Submitting, Inputting, ClickTargetKept
<1> QED BY <1>1, <1>3, <1>4, <1>5, Zenon DEF PageInv

\* A session that goes on with the same navigation, observation and pending work.
SameSession ==
    /\ session \in SessionRecords /\ session' \in SessionRecords /\ call.at # "connect"
    /\ session'.id = session.id /\ session'.request = session.request /\ session'.pending = session.pending
    /\ session'.observation = session.observation /\ session'.last = session.last
    /\ sent' = sent

\* The end of a call, by which no navigation or input becomes possible again.
CallEnds ==
    /\ call' = Idle /\ n' \in 0 .. MaxCalls /\ n <= n' /\ UNCHANGED <<page, docs, told>>
    /\ session' = NoSession \/ SameSession
    /\ sent' \in [1 .. MaxCalls -> 0 .. 1] /\ used' \in [1 .. MaxCalls -> 0 .. 1]
    /\ \A r \in 1 .. MaxCalls : sent'[r] = 1 => r <= n
    /\ \A o \in 1 .. MaxCalls : used'[o] = 1 => o < n' /\ (session' # NoSession => session.observation # o)

\* The end of a call keeps the invariant.
LEMMA CallEndsStep ==
    ASSUME PageInv, CallEnds
    PROVE  PageInv'
<1>1. call' = Idle /\ call'.at = "idle" /\ "idle" \notin Stages
  BY PageShapes, Zenon DEF CallEnds, Stages
<1>2. BrowseType'
  BY Zenon DEF PageInv, BrowseType, CallEnds, SameSession
<1>3. Opened' /\ Reading'
  BY <1>1, Zenon DEF Opened, Reading, Stages
<1>4. Documents'
  <2>1. page.doc <= docs /\ page.next <= docs
    BY Zenon DEF PageInv, Documents
  <2>2. session' # NoSession => page.doc >= 1 /\ page.next # page.doc
    BY PageShapes, Zenon DEF PageInv, Documents, CallEnds, SameSession
  <2> QED BY <2>1, <2>2, Zenon DEF CallEnds, Documents
<1>5. n \in 0 .. MaxCalls /\ n' \in 0 .. MaxCalls /\ n <= n'
  BY Zenon DEF PageInv, BrowseType, CallEnds
<1>6. Lasting'
  <2>1. SUFFICES ASSUME session' # NoSession PROVE Lasting'
    BY Zenon DEF Lasting
  <2>2. SameSession /\ session # NoSession
    BY <2>1, PageShapes, Zenon DEF CallEnds, SameSession
  <2>3. /\ session.id \in Nat /\ session.request \in Nat /\ session.observation \in Nat
        /\ session.last.id \in Nat
    BY <2>2 DEF SameSession, SessionRecords, Looks
  <2>4. session.id <= n /\ session.request <= n /\ session.observation <= n /\ session.last.id <= n
    BY <2>2, Zenon DEF PageInv, Lasting
  <2>5. session.id <= n' /\ session.request <= n' /\ session.observation <= n' /\ session.last.id <= n'
    BY <1>5, <2>3, <2>4
  <2> QED BY <2>2, <2>5, Zenon DEF PageInv, Lasting, SameSession, CallEnds
<1>7. Telling'
  <2>1. \A t \in told : t.id \in Nat
    BY DEF PageInv, BrowseType
  <2>2. \A t \in told : t.id <= n'
    BY <1>5, <2>1 DEF PageInv, Telling
  <2> QED BY <1>1, <2>2, Zenon DEF Telling, CallEnds
<1>8. Submitting'
  <2>1. \A r \in 1 .. MaxCalls : sent'[r] = 1 => r <= n'
    BY <1>5 DEF CallEnds
  <2>2. session' # NoSession /\ session'.pending = "navigation" =>
            session'.request >= 1 /\ sent'[session'.request] = 0
    BY PageShapes, Zenon DEF PageInv, Submitting, CallEnds, SameSession
  <2> QED BY <1>1, <2>1, <2>2, Zenon DEF Submitting
<1>9. Inputting'
  <2>1. session' # NoSession => session'.observation = session.observation
    BY Zenon DEF CallEnds, SameSession
  <2> QED BY <1>1, <2>1, Zenon DEF Inputting, ClickTargetKept, CallEnds
<1> QED BY <1>2, <1>3, <1>4, <1>6, <1>7, <1>8, <1>9, Zenon DEF PageInv

\* A step of a call that leaves session, page and navigations as they are.
LEMMA CallMovesStep ==
    ASSUME PageInv, call \in CallRecords, call' \in CallRecords, call.at \notin {"launch", "connect"},
           call'.at \notin {"launch", "connect", "frame", "submit", "check", "dispatch"},
           UNCHANGED <<session, page, docs, n, told, sent, used>>, Reading'
    PROVE  PageInv'
<1>1. session \in SessionRecords /\ call # Idle /\ call' # Idle
  BY PageShapes, Zenon DEF PageInv, Opened
<1>2. BrowseType' /\ Opened'
  BY <1>1, Zenon DEF PageInv, BrowseType, Opened
<1>3. Documents'
  BY Zenon DEF PageInv, Documents
<1>4. Lasting' /\ Telling'
  BY <1>1, Zenon DEF PageInv, Lasting, Telling
<1>5. Submitting'
  BY Zenon DEF PageInv, Submitting
<1>6. Inputting'
  BY Zenon DEF PageInv, Inputting, ClickTargetKept
<1> QED BY <1>2, <1>3, <1>4, <1>5, <1>6, Zenon DEF PageInv

\* The fields of a call that goes on with another stage.
LEMMA CallFields ==
    ASSUME call \in CallRecords, NEW at \in Stages, NEW d \in Nat
    PROVE  /\ LET c == [call EXCEPT !.at = at, !.before = d]
              IN  c \in CallRecords /\ c.at = at /\ c.before = d /\ c.seen = call.seen
           /\ LET c == [call EXCEPT !.at = at, !.seen.image = d]
              IN  /\ c \in CallRecords /\ c.at = at /\ c.before = call.before /\ c.seen.image = d
                  /\ c.seen.dom = call.seen.dom /\ c.seen.html = call.seen.html
           /\ LET c == [call EXCEPT !.at = at, !.after = d]
              IN  /\ c \in CallRecords /\ c.at = at /\ c.after = d
                  /\ c.before = call.before /\ c.seen = call.seen
           /\ LET c == [call EXCEPT !.at = at]
              IN  /\ c \in CallRecords /\ c.at = at /\ c.seen = call.seen /\ c.op = call.op
BY Zenon DEF CallRecords, Looks

\* An observation that begins notes the document it finds.
LEMMA BeforeStep == ASSUME PageInv, Before PROVE PageInv'
<1>1. call \in CallRecords
  BY PageShapes, Zenon DEF PageInv, BrowseType, Before, Idle
<1>2. page.doc \in Nat /\ page.doc >= 1
  <2>1. page.doc \in Nat
    BY Zenon DEF PageInv, BrowseType, PageRecords
  <2>2. session # NoSession
    BY PageShapes, Zenon DEF PageInv, Opened, Before, Stages
  <2> QED BY <2>1, <2>2, Zenon DEF PageInv, Documents, Before
<1>3. "dom" \in Stages
  BY Zenon DEF Stages
<1>4. call' \in CallRecords /\ call'.at = "dom" /\ call'.before = page.doc /\ call'.seen = call.seen
  BY <1>1, <1>2, <1>3, CallFields, Zenon DEF Before
<1>5. call.seen.html = 0
  BY Zenon DEF PageInv, Reading, Before, Stages
<1>6. Reading'
  BY <1>2, <1>4, <1>5, Zenon DEF Reading, Since, Before
<1> QED BY <1>1, <1>4, <1>6, CallMovesStep, Zenon DEF Before

\* Reading the text keeps the invariant: it is of the noted document, or that is gone.
LEMMA DomStep == ASSUME PageInv, Dom PROVE PageInv'
<1>1. call \in CallRecords
  BY PageShapes, Zenon DEF PageInv, BrowseType, Dom, Idle
<1>2. page.doc \in Nat /\ page.controls \in Seq(Controls)
  BY Zenon DEF PageInv, BrowseType, PageRecords
<1>3. /\ call' \in CallRecords /\ call'.at = "image" /\ call'.before = call.before
      /\ call'.seen.dom = page.doc /\ call'.seen.html = call.seen.html
  BY <1>1, <1>2, Zenon DEF Dom, CallRecords, Looks, Stages
<1>4. call.seen.html = 0 /\ Since(call.before)
  BY Zenon DEF PageInv, Reading, Dom, Stages
<1>5. Reading'
  BY <1>3, <1>4, Zenon DEF Reading, Since, Gone, Dom
<1> QED BY <1>1, <1>3, <1>5, CallMovesStep, Zenon DEF Dom

\* Taking the image keeps the invariant.
LEMMA ImageStep == ASSUME PageInv, Image PROVE PageInv'
<1>1. call \in CallRecords
  BY PageShapes, Zenon DEF PageInv, BrowseType, Image, Idle
<1>2. page.doc \in Nat /\ "after" \in Stages
  BY Zenon DEF PageInv, BrowseType, PageRecords, Stages
<1>3. /\ call' \in CallRecords /\ call'.at = "after" /\ call'.before = call.before
      /\ call'.seen.dom = call.seen.dom /\ call'.seen.image = page.doc /\ call'.seen.html = call.seen.html
  BY <1>1, <1>2, CallFields, Zenon DEF Image
<1>4. /\ call.seen.html = 0
      /\ \/ page.doc = call.before /\ call.before >= 1 /\ call.seen.dom = call.before
         \/ Gone(call.before)
  BY Zenon DEF PageInv, Reading, Image, Stages
<1>5. Reading'
  BY <1>3, <1>4, Zenon DEF Reading, Gone, Image
<1> QED BY <1>1, <1>3, <1>5, CallMovesStep, Zenon DEF Image

\* Looking at the document again keeps the invariant: the same one was there throughout.
LEMMA AfterStep == ASSUME PageInv, After PROVE PageInv'
<1>1. call \in CallRecords
  BY PageShapes, Zenon DEF PageInv, BrowseType, After, Idle
<1>2. page.doc \in Nat /\ "view" \in Stages /\ page.doc >= 1
  <2>1. session # NoSession
    BY PageShapes, Zenon DEF PageInv, Opened, After, Stages
  <2> QED BY <2>1, Zenon DEF PageInv, BrowseType, PageRecords, Stages, Documents, After
<1>3. /\ call' \in CallRecords /\ call'.at = "view" /\ call'.before = call.before
      /\ call'.after = page.doc /\ call'.seen = call.seen
  BY <1>1, <1>2, CallFields, Zenon DEF After
<1>4. /\ call.seen.html = 0
      /\ \/ /\ page.doc = call.before /\ call.before >= 1
            /\ call.seen.dom = call.before /\ call.seen.image = call.before
         \/ Gone(call.before)
  BY Zenon DEF PageInv, Reading, After, Stages
<1>5. Reading'
  BY <1>2, <1>3, <1>4, Zenon DEF Reading, Since, Gone, After
<1> QED BY <1>1, <1>3, <1>5, CallMovesStep, Zenon DEF After

\* A call that goes on with a session whose navigation or observation it has advanced.
\* What the session keeps is stated field by field.
LEMMA SessionMovesStep ==
    ASSUME PageInv, call \in CallRecords, call' \in CallRecords, session \in SessionRecords,
           session' \in SessionRecords, call'.at \notin {"launch", "connect", "check"},
           UNCHANGED <<n, told, used>>,
           page' \in PageRecords, Len(page'.controls) = 2, docs' \in Nat,
           sent' \in [1 .. MaxCalls -> 0 .. 1],
           Documents', Reading', Lasting', Submitting', Inputting'
    PROVE  PageInv'
<1>1. call # Idle /\ call' # Idle /\ session' # NoSession
  BY PageShapes, Zenon
<1>2. BrowseType' /\ Opened'
  BY <1>1, Zenon DEF PageInv, BrowseType, Opened
<1>3. Telling'
  BY <1>1, Zenon DEF PageInv, Telling
<1> QED BY <1>2, <1>3, Zenon DEF PageInv

\* Leaving the phase before the command is issued keeps the invariant.
LEMMA FrameStep == ASSUME PageInv, Frame PROVE PageInv'
<1>1. call \in CallRecords /\ session \in SessionRecords /\ session # NoSession
  BY PageShapes, Zenon DEF PageInv, BrowseType, Opened, Frame, Idle, Stages
<1>2. page.doc \in Nat /\ "submit" \in Stages /\ 0 \in Nat
  BY Zenon DEF PageInv, BrowseType, PageRecords, Stages
<1>3. call' \in CallRecords /\ call'.at = "submit" /\ call'.seen = call.seen
  BY <1>1, <1>2, CallFields, Zenon DEF Frame
<1>4. /\ session' \in SessionRecords /\ session'.pending = "document" /\ session'.id = session.id
      /\ session'.request = session.request /\ session'.observation = session.observation
      /\ session'.last = session.last
  BY <1>1, <1>2, Zenon DEF Frame, SessionRecords, Pendings
<1>5. UNCHANGED <<page, docs, n, told, sent, used>>
  BY Zenon DEF Frame
<1>6. session.request >= 1 /\ sent[session.request] = 0
  BY <1>1, Zenon DEF PageInv, Submitting, Frame
<1>7. Reading'
  <2>1. call.seen.html = 0
    BY Zenon DEF PageInv, Reading, Frame, Stages
  <2> QED BY <1>3, <2>1, Zenon DEF Reading
<1>8. Lasting'
  BY <1>1, <1>4, <1>5, Zenon DEF PageInv, Lasting
<1>9. Submitting'
  <2>1. \A r \in 1 .. MaxCalls : sent[r] = 1 => r <= n
    BY Zenon DEF PageInv, Submitting
  <2> QED BY <1>3, <1>4, <1>5, <1>6, <2>1, Zenon DEF Submitting
<1>10. Inputting'
  <2>1. \A o \in 1 .. MaxCalls : used[o] = 1 => o < n /\ (session # NoSession => session.observation # o)
    BY Zenon DEF PageInv, Inputting
  <2> QED BY <1>1, <1>3, <1>4, <1>5, <2>1, Zenon DEF Inputting, ClickTargetKept
<1>11. Documents'
  <2>1. page.doc >= 1 /\ page.next # page.doc
    BY <1>1, Zenon DEF PageInv, Documents, Frame
  <2> QED BY <1>5, <2>1, Zenon DEF PageInv, Documents
<1>12. page' \in PageRecords /\ Len(page'.controls) = 2 /\ docs' \in Nat /\ sent' \in [1 .. MaxCalls -> 0 .. 1]
  BY <1>5, Zenon DEF PageInv, BrowseType
<1> QED BY <1>1, <1>3, <1>4, <1>5, <1>7, <1>8, <1>9, <1>10, <1>11, <1>12, SessionMovesStep, Zenon

\* The command that is submitted is the only one of its request.
LEMMA SendsOnce ==
    ASSUME PageInv, call.at = "submit", sent' = [sent EXCEPT ![session.request] = @ + 1]
    PROVE  /\ sent' \in [1 .. MaxCalls -> 0 .. 1]
           /\ \A r \in 1 .. MaxCalls : sent'[r] = 1 => r <= n
<1>1. session \in SessionRecords /\ session # NoSession
  BY PageShapes, Zenon DEF PageInv, Opened, Stages
<1>2. session.request \in 1 .. MaxCalls /\ sent[session.request] = 0 /\ session.request <= n
  <2>1. session.request \in 0 .. MaxCalls /\ MaxCalls \in Nat
    BY <1>1, BrowseConstants, Zenon DEF SessionRecords
  <2>2. session.request >= 1 /\ sent[session.request] = 0 /\ session.request <= n
    BY <1>1, Zenon DEF PageInv, Submitting, Lasting
  <2> QED BY <2>1, <2>2
<1>3. sent \in [1 .. MaxCalls -> 0 .. 1] /\ \A r \in 1 .. MaxCalls : sent[r] = 1 => r <= n
  BY Zenon DEF PageInv, BrowseType, Submitting
<1> QED BY <1>2, <1>3

\* An acknowledged command counts once: the request it belongs to had not been sent.
LEMMA SubmitStep == ASSUME PageInv, Submit PROVE PageInv'
<1>1. call \in CallRecords /\ session \in SessionRecords /\ session # NoSession
  BY PageShapes, Zenon DEF PageInv, BrowseType, Opened, Submit, Idle, Stages
<1>2. /\ page.doc \in Nat /\ page.next \in Nat /\ "settle" \in Stages /\ docs \in Nat /\ page \in PageRecords
      /\ Len(page.controls) = 2 /\ page.doc <= docs /\ page.next <= docs /\ page.doc >= 1 /\ page.next # page.doc
  BY <1>1, Zenon DEF PageInv, BrowseType, PageRecords, Stages, Documents, Submit
<1>3. call' \in CallRecords /\ call'.at = "settle" /\ call'.seen = call.seen
  BY <1>1, <1>2, CallFields, Zenon DEF Submit
<1>4. PICK newer \in BOOLEAN :
          /\ docs' = IF newer THEN docs + 1 ELSE docs
          /\ page' = IF newer THEN [page EXCEPT !.next = docs + 1] ELSE page
          /\ session' = [session EXCEPT !.loader = IF newer THEN docs + 1 ELSE 0]
  BY Zenon DEF Submit
<1>5. /\ session' \in SessionRecords /\ session'.pending = session.pending /\ session'.id = session.id
      /\ session'.request = session.request /\ session'.observation = session.observation
      /\ session'.last = session.last
  BY <1>1, <1>2, <1>4 DEF SessionRecords
<1>6. /\ docs' \in Nat /\ page' \in PageRecords /\ Len(page'.controls) = 2
      /\ page'.doc = page.doc /\ page'.doc <= docs' /\ page'.next <= docs' /\ page'.next # page'.doc
  BY <1>2, <1>4 DEF PageRecords
<1>7. session.pending = "document"
  BY <1>1, Zenon DEF PageInv, Submitting, Submit
<1>8. /\ sent' \in [1 .. MaxCalls -> 0 .. 1]
      /\ \A r \in 1 .. MaxCalls : sent'[r] = 1 => r <= n
  BY SendsOnce, Zenon DEF Submit
<1>9. UNCHANGED <<n, told, used>>
  BY Zenon DEF Submit
<1>10. Reading'
  <2>1. call.seen.html = 0
    BY Zenon DEF PageInv, Reading, Submit, Stages
  <2> QED BY <1>3, <2>1, Zenon DEF Reading
<1>11. Lasting'
  BY <1>1, <1>5, <1>9, Zenon DEF PageInv, Lasting
<1>12. Submitting'
  BY <1>3, <1>5, <1>7, <1>8, <1>9, Zenon DEF Submitting
<1>13. Inputting'
  <2>1. \A o \in 1 .. MaxCalls : used[o] = 1 => o < n /\ (session # NoSession => session.observation # o)
    BY Zenon DEF PageInv, Inputting
  <2> QED BY <1>1, <1>3, <1>5, <1>9, <2>1, Zenon DEF Inputting, ClickTargetKept
<1>14. Documents'
  BY <1>2, <1>6, Zenon DEF Documents
<1> QED BY <1>1, <1>3, <1>5, <1>6, <1>8, <1>9, <1>10, <1>11, <1>12, <1>13, <1>14, SessionMovesStep, Zenon

\* A refused command may be issued again: it was not sent.
LEMMA RejectedStep == ASSUME PageInv, Rejected PROVE PageInv'
<1>1. call \in CallRecords /\ session \in SessionRecords /\ session # NoSession /\ call.at = "submit"
  BY PageShapes, Zenon DEF PageInv, BrowseType, Opened, Rejected, Idle, Stages
<1>2. CASE session' = NoSession
  <2>1. /\ n \in 0 .. MaxCalls /\ n <= n /\ sent \in [1 .. MaxCalls -> 0 .. 1]
        /\ used \in [1 .. MaxCalls -> 0 .. 1]
    BY DEF PageInv, BrowseType
  <2>2. CallEnds
    BY <1>2, <2>1, Zenon DEF CallEnds, Rejected, PageInv, Submitting, Inputting
  <2> QED BY <2>2, CallEndsStep, Zenon
<1>3. CASE session' = [session EXCEPT !.pending = "navigation", !.loader = 0]
  <2>1. /\ session' \in SessionRecords /\ session'.id = session.id
        /\ session'.request = session.request /\ session'.observation = session.observation
        /\ session'.last = session.last /\ session' # NoSession
    BY <1>1, <1>3, PageShapes, Zenon DEF SessionRecords, Pendings
  <2>2. call' = Idle /\ call'.at = "idle" /\ UNCHANGED <<page, docs, n, told, sent, used>>
    BY PageShapes, Zenon DEF Rejected
  <2>3. BrowseType' /\ Opened'
    BY <2>1, <2>2, Zenon DEF PageInv, BrowseType, Opened, Stages
  <2>4. Documents'
    <3>1. page.doc >= 1 /\ page.next # page.doc
      BY <1>1, Zenon DEF PageInv, Documents
    <3> QED BY <2>2, <3>1, Zenon DEF PageInv, Documents
  <2>5. Reading'
    BY <2>2, Zenon DEF Reading, Stages
  <2>6. Lasting'
    BY <1>1, <2>1, <2>2, Zenon DEF PageInv, Lasting
  <2>7. Telling'
    BY <2>2, Zenon DEF PageInv, Telling
  <2>8. Submitting'
    <3>1. session.request >= 1 /\ sent[session.request] = 0 /\ \A r \in 1 .. MaxCalls : sent[r] = 1 => r <= n
      BY <1>1, Zenon DEF PageInv, Submitting
    <3> QED BY <2>1, <2>2, <3>1, Zenon DEF Submitting
  <2>9. Inputting'
    BY <1>1, <2>1, <2>2, Zenon DEF PageInv, Inputting, ClickTargetKept
  <2> QED BY <2>3, <2>4, <2>5, <2>6, <2>7, <2>8, <2>9, Zenon DEF PageInv
<1> QED BY <1>2, <1>3, Zenon DEF Rejected, AfterRejection

\* A sample of the page keeps the invariant; two equal ones settle the navigation.
LEMMA SampleStep == ASSUME PageInv, Sample PROVE PageInv'
<1>1. call \in CallRecords /\ session \in SessionRecords /\ session # NoSession /\ call.at = "settle"
  BY PageShapes, Zenon DEF PageInv, BrowseType, Opened, Sample, Idle, Stages
<1>2. page.doc \in Nat /\ "before" \in Stages /\ 0 \in Nat /\ call.seen.html = 0
  BY <1>1, Zenon DEF PageInv, BrowseType, PageRecords, Stages, Reading
<1>3. CASE (\E d \in Nat : call' = [call EXCEPT !.candidate = d]) /\ UNCHANGED session
  <2>1. call' \in CallRecords /\ call'.at = "settle" /\ call'.seen = call.seen
    <3>1. PICK d \in Nat : call' = [call EXCEPT !.candidate = d]
      BY <1>3, Zenon
    <3> QED BY <1>1, <3>1, Zenon DEF CallRecords
  <2>2. Reading'
    BY <1>2, <2>1, Zenon DEF Reading
  <2> QED BY <1>1, <1>3, <2>1, <2>2, CallMovesStep, Zenon DEF Sample
<1>4. CASE /\ session' = [session EXCEPT !.pending = "observation", !.loader = 0, !.prev = 0]
           /\ call' = [call EXCEPT !.at = "before", !.candidate = 0]
  <2>1. call' \in CallRecords /\ call'.at = "before" /\ call'.seen = call.seen
    BY <1>1, <1>2, <1>4, Zenon DEF CallRecords
  <2>2. /\ session' \in SessionRecords /\ session'.pending = "observation" /\ session'.id = session.id
        /\ session'.request = session.request /\ session'.observation = session.observation
        /\ session'.last = session.last
    BY <1>1, <1>4, Zenon DEF SessionRecords, Pendings
  <2>3. UNCHANGED <<page, docs, n, told, sent, used>>
    BY Zenon DEF Sample
  <2>4. Reading'
    BY <1>2, <2>1, Zenon DEF Reading
  <2>5. Lasting'
    BY <1>1, <2>2, <2>3, Zenon DEF PageInv, Lasting
  <2>6. Submitting'
    <3>1. \A r \in 1 .. MaxCalls : sent[r] = 1 => r <= n
      BY Zenon DEF PageInv, Submitting
    <3> QED BY <2>1, <2>2, <2>3, <3>1, Zenon DEF Submitting
  <2>7. Inputting'
    <3>1. \A o \in 1 .. MaxCalls : used[o] = 1 => o < n /\ (session # NoSession => session.observation # o)
      BY Zenon DEF PageInv, Inputting
    <3> QED BY <1>1, <2>1, <2>2, <2>3, <3>1, Zenon DEF Inputting, ClickTargetKept
  <2>8. Documents'
    <3>1. page.doc >= 1 /\ page.next # page.doc
      BY <1>1, Zenon DEF PageInv, Documents
    <3> QED BY <2>3, <3>1, Zenon DEF PageInv, Documents
  <2>9. page' \in PageRecords /\ Len(page'.controls) = 2 /\ docs' \in Nat /\ sent' \in [1 .. MaxCalls -> 0 .. 1]
    BY <2>3, Zenon DEF PageInv, BrowseType
  <2> QED BY <1>1, <2>1, <2>2, <2>3, <2>4, <2>5, <2>6, <2>7, <2>8, <2>9, SessionMovesStep, Zenon
<1> QED BY <1>2, <1>3, <1>4, Zenon DEF Sample

\* An observation that reaches its caller: it becomes the session's last one.
LEMMA ObservedStep ==
    ASSUME PageInv, call \in CallRecords, session \in SessionRecords, call.at \in {"view", "htmlframe"},
           NEW s \in SessionRecords, NEW seen \in Looks, Observed(s, seen),
           s.id = session.id, s.request = session.request, s.observation = n,
           seen.id = n, seen.stable => seen.dom = seen.image /\ seen.html \in {0, seen.dom},
           UNCHANGED <<page, docs, n, sent, used>>
    PROVE  PageInv'
<1>1. /\ session' \in SessionRecords /\ session'.pending = "no" /\ session'.id = session.id
      /\ session'.request = session.request /\ session'.observation = n /\ session'.last = seen
  BY Zenon DEF Observed, SessionRecords, Pendings
<1>2. call' = Idle /\ call'.at = "idle" /\ session # NoSession /\ session' # NoSession /\ call # Idle
  BY <1>1, PageShapes, Zenon DEF Observed
<1>3. n \in 1 .. MaxCalls
  BY <1>2, BrowseConstants DEF PageInv, BrowseType, Opened
<1>4. told' = told \cup {[by |-> call.by, id |-> n]}
  BY Zenon DEF Observed
<1>5. BrowseType' /\ Opened'
  <2>1. told' \subseteq [by : Principals, id : 1 .. MaxCalls]
    BY <1>3, <1>4 DEF PageInv, BrowseType, CallRecords
  <2> QED BY <1>1, <1>2, <2>1, Zenon DEF PageInv, BrowseType, Opened, Stages
<1>6. Documents'
  <2>1. page.doc >= 1 /\ page.next # page.doc
    BY <1>2, Zenon DEF PageInv, Documents
  <2> QED BY <2>1, Zenon DEF PageInv, Documents
<1>7. Reading'
  BY <1>2, Zenon DEF Reading, Stages
<1>8. Lasting'
  <2>1. session.id <= n /\ session.request <= n
    BY <1>2, Zenon DEF PageInv, Lasting
  <2>2. session.request \in Nat
    BY DEF SessionRecords
  <2> QED BY <1>1, <1>3, <2>1, <2>2 DEF Lasting
<1>9. Telling'
  <2>1. \A t \in told : t.id <= n
    BY Zenon DEF PageInv, Telling
  <2> QED BY <1>2, <1>3, <1>4, <2>1 DEF Telling
<1>10. Submitting'
  BY <1>1, <1>2, Zenon DEF PageInv, Submitting
<1>11. Inputting'
  <2>1. \A o \in 1 .. MaxCalls : used[o] = 1 => o < n
    BY Zenon DEF PageInv, Inputting
  <2>2. \A o \in 1 .. MaxCalls : o < n => n # o
    BY <1>3
  <2> QED BY <1>1, <1>2, <2>1, <2>2, Zenon DEF Inputting, ClickTargetKept
<1> QED BY <1>5, <1>6, <1>7, <1>8, <1>9, <1>10, <1>11, Zenon DEF PageInv

\* The end of an observation's reading of the page: it reaches the caller, or the HTML is
\* still to be read.
LEMMA ViewStep == ASSUME PageInv, View PROVE PageInv'
<1>1. call \in CallRecords /\ session \in SessionRecords /\ session # NoSession /\ call.at = "view"
  BY PageShapes, Zenon DEF PageInv, BrowseType, Opened, View, Idle, Stages
<1>2. PICK same \in BOOLEAN, html \in BOOLEAN :
          LET seen == [call.seen EXCEPT !.id = n, !.stable = call.before = call.after /\ same]
              s == [session EXCEPT !.observation = n]
          IN IF html
             THEN /\ session' = s /\ UNCHANGED told
                  /\ call' = [call EXCEPT !.at = "html", !.seen = seen]
             ELSE Observed(s, seen)
  BY Zenon DEF View
<1> DEFINE ok == call.before = call.after /\ same
           seen == [call.seen EXCEPT !.id = n, !.stable = ok]
           s == [session EXCEPT !.observation = n]
<1>3. n \in 1 .. MaxCalls
  BY <1>1, PageShapes, BrowseConstants DEF PageInv, BrowseType, Opened
<1>4. /\ seen \in Looks /\ seen.id = n /\ seen.stable = ok
      /\ seen.dom = call.seen.dom /\ seen.image = call.seen.image /\ seen.html = call.seen.html
  <2>1. call.seen \in Looks /\ n \in 0 .. MaxCalls /\ ok \in BOOLEAN
    BY <1>1, <1>3 DEF CallRecords
  <2> HIDE DEF ok
  <2> QED BY <2>1, Zenon DEF Looks
<1>5. /\ s \in SessionRecords /\ s.id = session.id /\ s.request = session.request /\ s.observation = n
      /\ s.last = session.last /\ s.pending = session.pending
  BY <1>1, <1>3 DEF SessionRecords
<1>6. /\ call.seen.html = 0 /\ Since(call.after)
      /\ call.after = call.before => call.seen.dom = call.before /\ call.seen.image = call.before
  BY <1>1, Zenon DEF PageInv, Reading, Stages
<1>7. UNCHANGED <<page, docs, n, sent, used>>
  BY Zenon DEF View
<1>8. CASE ~html
  <2>1. Observed(s, seen)
    BY <1>2, <1>8, Zenon
  <2>2. seen.stable => seen.dom = seen.image /\ seen.html \in {0, seen.dom}
    BY <1>4, <1>6, Zenon
  <2> HIDE DEF seen, s
  <2> QED BY <1>1, <1>4, <1>5, <1>7, <2>1, <2>2, ObservedStep, Zenon
<1>9. CASE html
  <2>1. session' = s /\ told' = told /\ call' = [call EXCEPT !.at = "html", !.seen = seen]
    BY <1>2, <1>9, Zenon
  <2> HIDE DEF seen, s
  <2>2. /\ call' \in CallRecords /\ call'.at = "html" /\ call'.after = call.after
        /\ call'.before = call.before /\ call'.seen = seen
    BY <1>1, <1>4, <2>1, Zenon DEF CallRecords, Stages
  <2>3. Reading'
    <3>1. Since(call.after)'
      BY <1>6, <1>7, <2>2, Zenon DEF Since, Gone
    <3> QED BY <1>4, <1>5, <1>6, <1>7, <2>1, <2>2, <3>1, Zenon DEF Reading
  <2>4. Lasting'
    <3>1. /\ session.id <= n /\ session.request <= n /\ session.last.id <= n /\ n <= n
          /\ session.last.stable => /\ session.last.id >= session.request
                                    /\ session.last.dom = session.last.image
                                    /\ session.last.html \in {0, session.last.dom}
      BY <1>1, <1>3 DEF PageInv, Lasting
    <3>2. \A t \in told : t.id # n
      <4>1. \A t \in told : t.id < n /\ t.id \in Nat
        BY <1>1, PageShapes DEF PageInv, Telling, BrowseType
      <4> QED BY <1>3, <4>1
    <3> QED BY <1>5, <1>7, <2>1, <3>1, <3>2, Zenon DEF Lasting
  <2>5. Submitting'
    BY <1>1, <1>5, <1>7, <2>1, <2>2, Zenon DEF PageInv, Submitting
  <2>6. Inputting'
    <3>1. \A o \in 1 .. MaxCalls : used[o] = 1 => o < n
      BY Zenon DEF PageInv, Inputting
    <3>2. \A o \in 1 .. MaxCalls : o < n => n # o
      BY <1>3
    <3> QED BY <1>5, <1>7, <2>1, <2>2, <3>1, <3>2, Zenon DEF Inputting, ClickTargetKept
  <2>7. Documents'
    <3>1. page.doc >= 1 /\ page.next # page.doc
      BY <1>1, Zenon DEF PageInv, Documents
    <3> QED BY <1>7, <3>1, Zenon DEF PageInv, Documents
  <2>8. page' \in PageRecords /\ Len(page'.controls) = 2 /\ docs' \in Nat /\ sent' \in [1 .. MaxCalls -> 0 .. 1]
    BY <1>7, Zenon DEF PageInv, BrowseType
  <2> QED BY <1>1, <1>5, <1>7, <2>1, <2>2, <2>3, <2>4, <2>5, <2>6, <2>7, <2>8, SessionMovesStep, Zenon
<1> QED BY <1>8, <1>9, Zenon

\* Reading the HTML keeps the invariant.
LEMMA HtmlStep == ASSUME PageInv, Html PROVE PageInv'
<1>1. call \in CallRecords /\ session \in SessionRecords /\ session # NoSession /\ call.at = "html"
  BY PageShapes, Zenon DEF PageInv, BrowseType, Opened, Html, Idle, Stages
<1>2. page.doc \in Nat /\ "htmlframe" \in Stages
  BY Zenon DEF PageInv, BrowseType, PageRecords, Stages
<1>3. /\ call' \in CallRecords /\ call'.at = "htmlframe" /\ call'.after = call.after
      /\ call'.seen.id = call.seen.id /\ call'.seen.stable = call.seen.stable
      /\ call'.seen.dom = call.seen.dom /\ call'.seen.image = call.seen.image /\ call'.seen.html = page.doc
  BY <1>1, <1>2, Zenon DEF Html, CallRecords, Looks
<1>4. /\ session' \in SessionRecords /\ session'.pending = session.pending /\ session'.id = session.id
      /\ session'.request = session.request /\ session'.observation = session.observation
      /\ session'.last = session.last
  BY <1>1, <1>2, Zenon DEF Html, SessionRecords
<1>5. UNCHANGED <<page, docs, n, told, sent, used>>
  BY Zenon DEF Html
<1>6. Reading'
  <2>1. /\ Since(call.after) /\ call.seen.id = n /\ session.observation = n
        /\ call.seen.stable => call.seen.dom = call.after /\ call.seen.image = call.after
    BY <1>1, Zenon DEF PageInv, Reading
  <2>2. Since(call.after)'
    BY <1>3, <1>5, <2>1, Zenon DEF Since, Gone
  <2> QED BY <1>3, <1>4, <1>5, <2>1, <2>2, Zenon DEF Reading
<1>7. Lasting'
  BY <1>1, <1>4, <1>5, Zenon DEF PageInv, Lasting
<1>8. Submitting'
  BY <1>1, <1>3, <1>4, <1>5, Zenon DEF PageInv, Submitting
<1>9. Inputting'
  <2>1. \A o \in 1 .. MaxCalls : used[o] = 1 => o < n /\ (session # NoSession => session.observation # o)
    BY Zenon DEF PageInv, Inputting
  <2> QED BY <1>1, <1>3, <1>4, <1>5, <2>1, Zenon DEF Inputting, ClickTargetKept
<1>10. Documents'
  <2>1. page.doc >= 1 /\ page.next # page.doc
    BY <1>1, Zenon DEF PageInv, Documents
  <2> QED BY <1>5, <2>1, Zenon DEF PageInv, Documents
<1>11. page' \in PageRecords /\ Len(page'.controls) = 2 /\ docs' \in Nat /\ sent' \in [1 .. MaxCalls -> 0 .. 1]
  BY <1>5, Zenon DEF PageInv, BrowseType
<1> QED BY <1>1, <1>3, <1>4, <1>5, <1>6, <1>7, <1>8, <1>9, <1>10, <1>11, SessionMovesStep, Zenon

\* The last look at the document keeps the invariant: an observation still called stable
\* has the HTML of the document of its text and image.
LEMMA HtmlFrameStep == ASSUME PageInv, HtmlFrame PROVE PageInv'
<1>1. call \in CallRecords /\ session \in SessionRecords /\ session # NoSession /\ call.at = "htmlframe"
  BY PageShapes, Zenon DEF PageInv, BrowseType, Opened, HtmlFrame, Idle, Stages
<1> DEFINE seen == [call.seen EXCEPT !.stable = StillStable]
<1>2. /\ seen \in Looks /\ seen.id = call.seen.id /\ seen.stable = StillStable
      /\ seen.dom = call.seen.dom /\ seen.image = call.seen.image /\ seen.html = call.seen.html
  BY <1>1, Zenon DEF CallRecords, Looks, StillStable
<1>3. /\ call.seen.id = n /\ session.observation = n
      /\ call.seen.stable => call.seen.dom = call.after /\ call.seen.image = call.after
      /\ page.doc = call.after => call.seen.html = call.after
  BY <1>1, Zenon DEF PageInv, Reading
<1>4. seen.stable => seen.dom = seen.image /\ seen.html \in {0, seen.dom}
  BY <1>2, <1>3, Zenon DEF StillStable
<1>5. Observed(session, seen) /\ UNCHANGED <<page, docs, n, sent, used>>
  BY Zenon DEF HtmlFrame
<1> HIDE DEF seen
<1> QED BY <1>1, <1>2, <1>3, <1>4, <1>5, ObservedStep, Zenon

\* What browser_click_controls_match compares: the controls at the point are the same ones.
LEMMA MatchKeepsTarget ==
    ASSUME NEW old \in Seq(Controls), NEW new \in Seq(Controls), NEW x, click_controls_match(old, new, x)
    PROVE  /\ {i \in DOMAIN old : Contains(old[i], x)} = {i \in DOMAIN new : Contains(new[i], x)}
           /\ \A i \in {i \in DOMAIN new : Contains(new[i], x)} : old[i] = new[i]
<1>1. CASE old = new
  BY <1>1, Zenon
<1>2. CASE /\ Len(old) = Len(new)
           /\ \A i \in DOMAIN old :
                 old[i] = new[i] \/ (OnlyHref(old[i], new[i]) /\ ~Contains(old[i], x) /\ ~Contains(new[i], x))
  <2>1. DOMAIN old = DOMAIN new
    BY <1>2
  <2> QED BY <1>2, <2>1, Zenon
<1> QED BY <1>1, <1>2, Zenon DEF click_controls_match

\* Comparing the page with the named observation uses that observation up.
LEMMA CheckStep == ASSUME PageInv, Check PROVE PageInv'
<1>1. call \in CallRecords /\ session \in SessionRecords /\ session # NoSession /\ call.at = "check"
  BY PageShapes, Zenon DEF PageInv, BrowseType, Opened, Check, Idle, Stages
<1>2. /\ page \in PageRecords /\ page.controls \in Seq(Controls) /\ session.last \in Looks
      /\ session.last.controls \in Seq(Controls) /\ n \in 0 .. MaxCalls
  BY <1>1, Zenon DEF PageInv, BrowseType, PageRecords, SessionRecords, Looks
<1>3. UNCHANGED <<page, docs, n, told, sent, used>>
  BY Zenon DEF Check
<1>4. CASE call' = Idle /\ UNCHANGED session
  <2>1. CallEnds
    <3>1. n <= n /\ sent \in [1 .. MaxCalls -> 0 .. 1] /\ used \in [1 .. MaxCalls -> 0 .. 1]
      BY <1>2 DEF PageInv, BrowseType
    <3>2. SameSession
      BY <1>1, <1>3, <1>4, Zenon DEF SameSession
    <3> QED BY <1>1, <1>2, <1>3, <1>4, <3>1, <3>2, Zenon DEF CallEnds, PageInv, Submitting, Inputting
  <2> QED BY <2>1, CallEndsStep, Zenon
<1>5. CASE /\ ~Stale(call.op, session.last.controls, page.controls, call.x)
           /\ session' = [session EXCEPT !.observation = 0]
           /\ call' = [call EXCEPT !.at = "dispatch", !.seen = [session.last EXCEPT !.controls = page.controls]]
  <2> DEFINE seen == [session.last EXCEPT !.controls = page.controls]
  <2>1. seen \in Looks /\ seen.controls = page.controls
    BY <1>2, Zenon DEF Looks
  <2>2. call' = [call EXCEPT !.at = "dispatch", !.seen = seen]
    BY <1>5, Zenon
  <2> HIDE DEF seen
  <2>3. /\ call' \in CallRecords /\ call'.at = "dispatch" /\ call'.op = call.op /\ call'.x = call.x
        /\ call'.named = call.named /\ call'.seen = seen
    BY <1>1, <2>1, <2>2, Zenon DEF CallRecords, Stages
  <2>4. /\ session' \in SessionRecords /\ session'.pending = session.pending /\ session'.id = session.id
        /\ session'.request = session.request /\ session'.observation = 0
        /\ session'.last = session.last
    BY <1>1, <1>5, BrowseConstants DEF SessionRecords
  <2>5. Reading'
    BY <2>3, Zenon DEF Reading
  <2>6. Lasting'
    <3>1. /\ session.id <= n /\ session.request <= n /\ session.last.id <= n /\ 0 <= n
          /\ session.last.stable => /\ session.last.id >= session.request
                                    /\ session.last.dom = session.last.image
                                    /\ session.last.html \in {0, session.last.dom}
      BY <1>1, <1>2 DEF PageInv, Lasting
    <3>2. \A t \in told : t.id # 0
      BY DEF PageInv, BrowseType
    <3> QED BY <1>3, <2>4, <3>1, <3>2, Zenon DEF Lasting
  <2>7. Submitting'
    BY <1>1, <1>3, <2>3, <2>4, Zenon DEF PageInv, Submitting
  <2>8. ClickTargetKept'
    <3>1. call.op = "click" => click_controls_match(session.last.controls, page.controls, call.x)
      BY <1>5, Zenon DEF Stale
    <3> HIDE DEF seen
    <3>2. ASSUME call.op = "click"
          PROVE  /\ {i \in DOMAIN session.last.controls : Contains(session.last.controls[i], call.x)}
                       = {i \in DOMAIN page.controls : Contains(page.controls[i], call.x)}
                 /\ \A i \in {i \in DOMAIN page.controls : Contains(page.controls[i], call.x)} :
                       session.last.controls[i] = page.controls[i]
      BY <1>2, <3>1, <3>2, MatchKeepsTarget, Zenon
    <3>3. session'.last.controls = session.last.controls /\ call'.seen.controls = page.controls
      BY <2>1, <2>3, <2>4, Zenon
    <3> QED BY <2>3, <3>2, <3>3, Zenon DEF ClickTargetKept, Contains
  <2>9. Inputting'
    <3>1. /\ \A o \in 1 .. MaxCalls : used[o] = 1 => o < n
          /\ call.named \in 1 .. n - 1 /\ used[call.named] = 0
          /\ session.last.id = call.named /\ session.last.stable
      BY <1>1, Zenon DEF PageInv, Inputting
    <3>2. \A o \in 1 .. MaxCalls : 0 # o
      BY BrowseConstants
    <3> QED BY <1>3, <2>3, <2>4, <2>8, <3>1, <3>2, Zenon DEF Inputting
  <2>10. Documents'
    <3>1. page.doc >= 1 /\ page.next # page.doc
      BY <1>1, Zenon DEF PageInv, Documents
    <3> QED BY <1>3, <3>1, Zenon DEF PageInv, Documents
  <2>11. page' \in PageRecords /\ Len(page'.controls) = 2 /\ docs' \in Nat /\ sent' \in [1 .. MaxCalls -> 0 .. 1]
    BY <1>3, Zenon DEF PageInv, BrowseType
  <2> QED BY <1>1, <1>3, <2>3, <2>4, <2>5, <2>6, <2>7, <2>9, <2>10, <2>11, SessionMovesStep, Zenon
<1> QED BY <1>4, <1>5, Zenon DEF Check

\* The input that is dispatched is the only one of its observation.
LEMMA UsesOnce ==
    ASSUME PageInv, call.at = "dispatch", used' = [used EXCEPT ![call.named] = @ + 1]
    PROVE  /\ used' \in [1 .. MaxCalls -> 0 .. 1]
           /\ \A o \in 1 .. MaxCalls : used'[o] = 1 => o < n /\ session.observation # o
<1>1. call.named \in 1 .. n - 1 /\ used[call.named] = 0 /\ session.observation = 0
  BY Zenon DEF PageInv, Inputting
<1>2. n \in 0 .. MaxCalls /\ used \in [1 .. MaxCalls -> 0 .. 1] /\ MaxCalls \in Nat
  BY BrowseConstants, Zenon DEF PageInv, BrowseType
<1>3. \A o \in 1 .. MaxCalls : used[o] = 1 => o < n
  BY Zenon DEF PageInv, Inputting
<1> QED BY <1>1, <1>2, <1>3

\* Dispatching the input keeps the invariant.
LEMMA DispatchInputStep == ASSUME PageInv, Dispatch PROVE PageInv'
<1>1. call \in CallRecords /\ session \in SessionRecords /\ session # NoSession /\ call.at = "dispatch"
  BY PageShapes, Zenon DEF PageInv, BrowseType, Opened, Dispatch, Idle, Stages
<1>2. UNCHANGED <<session, page, docs, n, told, sent>>
  BY Zenon DEF Dispatch
<1>3. /\ used' \in [1 .. MaxCalls -> 0 .. 1]
      /\ \A o \in 1 .. MaxCalls : used'[o] = 1 => o < n /\ session.observation # o
  BY <1>1, UsesOnce, Zenon DEF Dispatch
<1>4. call' \in CallRecords /\ call'.at = "before" /\ call'.seen = NoLast /\ call' # Idle /\ call # Idle
  BY <1>1, PageShapes, Zenon DEF Dispatch, CallRecords, Stages
<1>5. BrowseType' /\ Opened'
  BY <1>1, <1>2, <1>3, <1>4, Zenon DEF PageInv, BrowseType, Opened
<1>6. Documents'
  BY <1>1, <1>2, <1>4, Zenon DEF PageInv, Documents
<1>7. Reading'
  BY <1>4, PageShapes, Zenon DEF Reading
<1>8. Lasting' /\ Telling'
  BY <1>2, <1>4, Zenon DEF PageInv, Lasting, Telling
<1>9. Submitting'
  BY <1>1, <1>2, <1>4, Zenon DEF PageInv, Submitting
<1>10. Inputting'
  BY <1>2, <1>3, <1>4, Zenon DEF Inputting, ClickTargetKept
<1> QED BY <1>5, <1>6, <1>7, <1>8, <1>9, <1>10, Zenon DEF PageInv

\* A new session has nothing sent, observed or pending.
LEMMA LaunchStep == ASSUME PageInv, Launch PROVE PageInv'
<1>1. call \in CallRecords /\ session = NoSession /\ call.at = "launch" /\ call.op = "open" /\ call # Idle
  BY PageShapes, Zenon DEF PageInv, BrowseType, Opened, Launch, Idle
<1>2. n \in 1 .. MaxCalls /\ MaxCalls \in Nat
  BY <1>1, BrowseConstants DEF PageInv, BrowseType, Opened
<1>3. /\ call' \in CallRecords /\ call'.at = "connect" /\ call'.op = "open" /\ call'.seen = call.seen /\ call' # Idle
  <2>1. "connect" \in Stages /\ 0 \in Nat
    BY Zenon DEF Stages
  <2> QED BY <1>1, <2>1, CallFields, PageShapes, Zenon DEF Launch
<1>4. /\ session' \in SessionRecords /\ session'.id = n /\ session'.pending = "no" /\ session'.request = 0
      /\ session'.observation = 0 /\ session'.last = NoLast
  BY <1>1, <1>2, PageShapes DEF Launch, SessionRecords, CallRecords, Pendings
<1>5. UNCHANGED <<page, docs, n, told, sent, used>>
  BY Zenon DEF Launch
<1>6. BrowseType' /\ Opened'
  BY <1>2, <1>3, <1>4, <1>5 DEF PageInv, BrowseType, Opened
<1>7. Documents'
  BY <1>3, <1>5, Zenon DEF PageInv, Documents
<1>8. Reading'
  BY <1>1, <1>3, Zenon DEF PageInv, Reading, Stages
<1>9. Lasting'
  <2>1. \A t \in told : t.id # 0
    BY DEF PageInv, BrowseType
  <2> QED BY <1>2, <1>4, <1>5, <2>1, PageShapes DEF Lasting
<1>10. Telling'
  BY <1>1, <1>5, Zenon DEF PageInv, Telling
<1>11. Submitting'
  BY <1>1, <1>3, <1>4, <1>5, Zenon DEF PageInv, Submitting
<1>12. Inputting'
  <2>1. \A o \in 1 .. MaxCalls : used[o] = 1 => o < n /\ 0 # o
    BY <1>2 DEF PageInv, Inputting
  <2> QED BY <1>3, <1>4, <1>5, <2>1, Zenon DEF Inputting, ClickTargetKept
<1> QED BY <1>6, <1>7, <1>8, <1>9, <1>10, <1>11, <1>12, Zenon DEF PageInv

\* The fields of a session whose first navigation is requested.
LEMMA RequestFields ==
    ASSUME NEW s \in SessionRecords, NEW r \in 0 .. MaxCalls
    PROVE  LET t == [s EXCEPT !.pending = "navigation", !.request = r]
           IN  /\ t \in SessionRecords /\ t.id = s.id /\ t.pending = "navigation" /\ t.request = r
               /\ t.observation = s.observation /\ t.last = s.last
BY Zenon DEF SessionRecords, Pendings

\* The fields of a page whose document or controls change.
LEMMA PageFields ==
    ASSUME page \in PageRecords, NEW d \in Nat, NEW e \in Nat,
           page' = [page EXCEPT !.doc = d, !.next = e] \/ (page' = [page EXCEPT !.doc = d] /\ e = page.next)
    PROVE  page' \in PageRecords /\ page'.doc = d /\ page'.next = e /\ page'.controls = page.controls
<1>1. CASE page' = [page EXCEPT !.doc = d, !.next = e]
  BY <1>1, Zenon DEF PageRecords
<1>2. CASE page' = [page EXCEPT !.doc = d] /\ e = page.next
  BY <1>2, Zenon DEF PageRecords
<1> QED BY <1>1, <1>2, Zenon

\* A connected browser has a document, and the navigation to the first page is pending.
LEMMA ConnectStep == ASSUME PageInv, Connect PROVE PageInv'
<1>1. /\ call \in CallRecords /\ session \in SessionRecords /\ call.at = "connect" /\ call # Idle
      /\ session # NoSession
  BY PageShapes, Zenon DEF PageInv, BrowseType, Opened, Connect, Idle, Stages
<1>2. n \in 1 .. MaxCalls /\ MaxCalls \in Nat /\ docs \in Nat
  BY <1>1, BrowseConstants DEF PageInv, BrowseType, Opened
<1>3. /\ call' = Idle \/ (call' \in CallRecords /\ call'.at = "frame" /\ call'.seen = call.seen)
  <2>1. "frame" \in Stages /\ 0 \in Nat
    BY Zenon DEF Stages
  <2>2. call' = Idle \/ call' = [call EXCEPT !.at = "frame"]
    BY Zenon DEF Connect
  <2> QED BY <1>1, <2>1, <2>2, CallFields, Zenon
<1>4. /\ session' \in SessionRecords /\ session'.id = session.id /\ session'.pending = "navigation"
      /\ session'.request = n /\ session'.observation = session.observation /\ session'.last = session.last
      /\ session' # NoSession
  <2>1. session' = [session EXCEPT !.pending = "navigation", !.request = n]
    BY Zenon DEF Connect
  <2>2. n \in 0 .. MaxCalls
    BY Zenon DEF PageInv, BrowseType
  <2> QED BY <1>1, <2>1, <2>2, RequestFields, PageShapes, Zenon
<1>5. UNCHANGED <<n, told, sent, used>>
  BY Zenon DEF Connect
<1>6. /\ page' \in PageRecords /\ Len(page'.controls) = 2 /\ docs' \in Nat
      /\ page'.doc = docs + 1 /\ page'.next = 0 /\ docs' = docs + 1
  <2>1. page \in PageRecords /\ Len(page.controls) = 2
    BY Zenon DEF PageInv, BrowseType
  <2>2. page' = [page EXCEPT !.doc = docs + 1, !.next = 0] /\ docs' = docs + 1
    BY Zenon DEF Connect
  <2>3. docs + 1 \in Nat /\ 0 \in Nat /\ page.controls \in Seq(Controls)
    BY <1>2, <2>1 DEF PageRecords
  <2>4. page' \in PageRecords /\ page'.doc = docs + 1 /\ page'.next = 0 /\ page'.controls = page.controls
    BY <2>1, <2>2, <2>3, PageFields, Zenon
  <2> QED BY <2>1, <2>2, <2>3, <2>4, Zenon
<1>7. BrowseType' /\ Opened'
  BY <1>1, <1>2, <1>3, <1>4, <1>5, <1>6, PageShapes, Zenon DEF PageInv, BrowseType, Opened
<1>8. Documents'
  BY <1>2, <1>6 DEF Documents
<1>9. Reading'
  <2>1. call.seen.html = 0 /\ "idle" \notin Stages
    BY <1>1, Zenon DEF PageInv, Reading, Stages
  <2> QED BY <1>3, <2>1, PageShapes, Zenon DEF Reading
<1>10. Lasting'
  <2>1. /\ session.id <= n /\ session.observation <= n /\ session.last.id <= n
        /\ \A t \in told : t.id = session.observation => session.last.id = session.observation
    BY <1>1, Zenon DEF PageInv, Lasting
  <2>2. session.last.stable => /\ session.last.id >= n
                               /\ session.last.dom = session.last.image
                               /\ session.last.html \in {0, session.last.dom}
    BY <1>1, PageShapes, Zenon DEF PageInv, Opened
  <2> QED BY <1>2, <1>4, <1>5, <2>1, <2>2 DEF Lasting
<1>11. Telling'
  BY <1>1, <1>5, Zenon DEF PageInv, Telling
<1>12. Submitting'
  <2>1. sent[n] = 0 /\ \A r \in 1 .. MaxCalls : sent[r] = 1 => r <= n
    BY <1>1, Zenon DEF PageInv, Submitting
  <2> QED BY <1>2, <1>3, <1>4, <1>5, <2>1, PageShapes DEF Submitting
<1>13. Inputting'
  <2>1. \A o \in 1 .. MaxCalls : used[o] = 1 => o < n /\ session.observation # o
    BY <1>1, Zenon DEF PageInv, Inputting
  <2> QED BY <1>3, <1>4, <1>5, <2>1, PageShapes, Zenon DEF Inputting, ClickTargetKept
<1> QED BY <1>7, <1>8, <1>9, <1>10, <1>11, <1>12, <1>13, Zenon DEF PageInv

\* A step that throws ends the call; its session is given up, or keeps what it allows.
LEMMA ThrowsStep == ASSUME PageInv, Throws PROVE PageInv'
<1>1. call \in CallRecords /\ call.at \in Stages /\ call # Idle
  BY PageShapes, Zenon DEF PageInv, BrowseType, Throws
<1>2. PICK gone, effect \in BOOLEAN :
          /\ session' = IF session.id = 0 \/ GivesUp THEN NoSession
                        ELSE [session EXCEPT !.life = IF gone THEN "over" ELSE @]
          /\ sent' = IF call.at = "submit" /\ effect THEN [sent EXCEPT ![session.request] = @ + 1]
                     ELSE sent
          /\ used' = IF call.at = "dispatch" /\ effect THEN [used EXCEPT ![call.named] = @ + 1]
                     ELSE used
  BY Zenon DEF Throws
<1>3. call' = Idle /\ UNCHANGED <<page, docs, n, told>>
  BY Zenon DEF Throws
<1>4. /\ sent' \in [1 .. MaxCalls -> 0 .. 1] /\ \A r \in 1 .. MaxCalls : sent'[r] = 1 => r <= n
      /\ call.at # "submit" => sent' = sent
  <2>1. sent \in [1 .. MaxCalls -> 0 .. 1] /\ \A r \in 1 .. MaxCalls : sent[r] = 1 => r <= n
    BY Zenon DEF PageInv, BrowseType, Submitting
  <2> QED BY <1>2, <2>1, SendsOnce, Zenon
<1>5. /\ used' \in [1 .. MaxCalls -> 0 .. 1]
      /\ \A o \in 1 .. MaxCalls : used'[o] = 1 => o < n /\ (session # NoSession => session.observation # o)
  <2>1. /\ used \in [1 .. MaxCalls -> 0 .. 1]
        /\ \A o \in 1 .. MaxCalls : used[o] = 1 => o < n /\ (session # NoSession => session.observation # o)
    BY Zenon DEF PageInv, BrowseType, Inputting
  <2> QED BY <1>2, <2>1, UsesOnce, Zenon
<1>6. session' = NoSession \/ (session \in SessionRecords /\ SameSession)
  <2>1. SUFFICES ASSUME session.id # 0, ~GivesUp PROVE session \in SessionRecords /\ SameSession
    BY <1>2, Zenon
  <2>2. session \in SessionRecords
    BY <2>1, PageShapes, Zenon DEF PageInv, BrowseType
  <2>3. call.at # "connect" /\ sent' = sent
    BY <1>4, <2>1, Zenon DEF PageInv, Opened, GivesUp
  <2>4. session' = session \/ session' = [session EXCEPT !.life = "over"]
    BY <1>2, <2>1, <2>2, Zenon DEF SessionRecords
  <2>5. /\ session' \in SessionRecords
        /\ session'.id = session.id /\ session'.request = session.request /\ session'.pending = session.pending
        /\ session'.observation = session.observation /\ session'.last = session.last
    BY <2>2, <2>4, Zenon DEF SessionRecords
  <2> QED BY <2>2, <2>3, <2>5, Zenon DEF SameSession
<1>7. CallEnds
  <2>1. n \in 0 .. MaxCalls /\ n <= n
    BY BrowseConstants DEF PageInv, BrowseType
  <2>2. session' # NoSession => session # NoSession
    BY <1>6, PageShapes, Zenon
  <2> QED BY <1>3, <1>4, <1>5, <1>6, <2>1, <2>2, Zenon DEF CallEnds
<1> QED BY <1>7, CallEndsStep, Zenon

\* A call that ends without having navigated or acted, whatever becomes of the session.
LEMMA QuietEnd ==
    ASSUME PageInv, call' = Idle, n' \in {n, n + 1}, n' \in 0 .. MaxCalls,
           UNCHANGED <<page, docs, told, sent, used>>,
           session' = NoSession \/ SameSession
    PROVE  PageInv'
<1>1. n \in Nat /\ n <= n'
  BY BrowseConstants DEF PageInv, BrowseType
<1>2. /\ sent' \in [1 .. MaxCalls -> 0 .. 1] /\ used' \in [1 .. MaxCalls -> 0 .. 1]
      /\ \A r \in 1 .. MaxCalls : sent'[r] = 1 => r <= n
  BY Zenon DEF PageInv, BrowseType, Submitting
<1>3. \A o \in 1 .. MaxCalls : used'[o] = 1 => o < n' /\ (session' # NoSession => session.observation # o)
  <2>1. \A o \in 1 .. MaxCalls : used[o] = 1 => o < n /\ (session # NoSession => session.observation # o)
    BY Zenon DEF PageInv, Inputting
  <2>2. session' # NoSession => session # NoSession
    BY PageShapes, Zenon DEF SameSession
  <2>3. \A o \in 1 .. MaxCalls : o < n => o < n'
    BY <1>1, BrowseConstants
  <2> QED BY <2>1, <2>2, <2>3, Zenon
<1> QED BY <1>1, <1>2, <1>3, CallEndsStep, Zenon DEF CallEnds

\* A navigation that keeps its caller waiting ends the call and keeps the session.
LEMMA AllowanceEndsStep == ASSUME PageInv, AllowanceEnds PROVE PageInv'
<1>1. session \in SessionRecords /\ call.at # "connect"
  BY Zenon DEF PageInv, Opened, AllowanceEnds, Stages
<1>2. n' = n /\ n \in 0 .. MaxCalls /\ call' = Idle /\ UNCHANGED <<session, page, docs, told, sent, used>>
  BY Zenon DEF AllowanceEnds, PageInv, BrowseType
<1> QED BY <1>1, <1>2, QuietEnd, Zenon DEF SameSession

\* A session whose time is over keeps what it has until it is dropped.
LEMMA SessionAgesStep == ASSUME PageInv, SessionAges PROVE PageInv'
<1>1. session \in SessionRecords /\ call.at # "connect"
  BY PageShapes, Zenon DEF PageInv, BrowseType, SessionAges
<1>2. n' = n /\ n \in 0 .. MaxCalls /\ call' = Idle /\ UNCHANGED <<page, docs, told, sent, used>>
  BY Zenon DEF SessionAges, PageInv, BrowseType
<1>3. /\ session' \in SessionRecords
      /\ session'.id = session.id /\ session'.request = session.request /\ session'.pending = session.pending
      /\ session'.observation = session.observation /\ session'.last = session.last
  BY <1>1, Zenon DEF SessionRecords, SessionAges
<1> QED BY <1>1, <1>2, <1>3, QuietEnd, Zenon DEF SameSession

\* The janitor drops a session that is over.
LEMMA JanitorStep == ASSUME PageInv, Janitor PROVE PageInv'
<1>1. /\ n' = n /\ n \in 0 .. MaxCalls /\ call' = Idle /\ UNCHANGED <<page, docs, told, sent, used>>
      /\ session' = NoSession
  BY Zenon DEF Janitor, PageInv, BrowseType
<1> QED BY <1>1, QuietEnd, Zenon

\* What a call finds of the session: none, or the session as it was left.
LEMMA CurrentIs ==
    ASSUME PageInv, call = Idle
    PROVE  /\ Current = NoSession \/ (Current = session /\ session \in SessionRecords)
           /\ Current.id # 0 => Current = session /\ session \in SessionRecords
           /\ Current = session /\ session \in SessionRecords /\ sent' = sent /\ session' = Current => SameSession
<1>1. session = NoSession \/ session \in SessionRecords
  BY Zenon DEF PageInv, BrowseType
<1>2. call.at # "connect"
  BY PageShapes, Zenon
<1>3. Current = NoSession \/ (Current = session /\ session \in SessionRecords)
  BY <1>1, Zenon DEF Current
<1> QED BY <1>2, <1>3, PageShapes, Zenon DEF SameSession

\* The beginning of a call.
CallBegins ==
    /\ call = Idle /\ n < MaxCalls /\ n' = n + 1 /\ UNCHANGED <<page, docs, told, sent, used>>
    /\ call' \in CallRecords /\ call'.seen = NoLast
    /\ \/ call'.at = "launch" /\ call'.op = "open" /\ session' = NoSession
       \/ call'.at \in {"frame", "settle", "before", "check"} /\ session \in SessionRecords /\ session' \in SessionRecords

\* The beginning of a call keeps what does not depend on the session's navigation and observation.
LEMMA CallBeginsStep ==
    ASSUME PageInv, CallBegins, Lasting', Submitting', Inputting'
    PROVE  PageInv'
<1>1. n \in Nat /\ MaxCalls \in Nat /\ n < MaxCalls /\ n' = n + 1 /\ n' \in 1 .. MaxCalls /\ n' \in 0 .. MaxCalls /\ n' >= 1
  BY BrowseConstants DEF PageInv, BrowseType, CallBegins
<1>2. call' # Idle /\ call'.seen.html = 0 /\ call'.at \in {"launch", "frame", "settle", "before", "check"}
  BY PageShapes, Zenon DEF CallBegins
<1>3. BrowseType'
  BY <1>1, Zenon DEF PageInv, BrowseType, CallBegins
<1>4. Opened'
  BY <1>1, <1>2, Zenon DEF Opened, CallBegins
<1>5. Documents'
  <2>1. page.doc <= docs /\ page.next <= docs
    BY Zenon DEF PageInv, Documents
  <2>2. session' # NoSession => session # NoSession /\ call.at # "connect"
    BY PageShapes, Zenon DEF CallBegins
  <2>3. session' # NoSession => page.doc >= 1 /\ page.next # page.doc
    BY <2>2, Zenon DEF PageInv, Documents
  <2> QED BY <2>1, <2>3, Zenon DEF Documents, CallBegins
<1>6. Reading'
  BY <1>2, Zenon DEF Reading
<1>7. Telling'
  <2>1. \A t \in told : t.id \in Nat /\ t.id <= n
    BY DEF PageInv, BrowseType, Telling
  <2> QED BY <1>1, <2>1 DEF Telling, CallBegins
<1> QED BY <1>3, <1>4, <1>5, <1>6, <1>7, Zenon DEF PageInv

\* What the next call may do was not done yet.
LEMMA Unused ==
    ASSUME PageInv, n < MaxCalls
    PROVE  /\ n + 1 \in 1 .. MaxCalls /\ sent[n + 1] = 0
           /\ \A r \in 1 .. MaxCalls : sent[r] = 1 => r <= n + 1
           /\ \A o \in 1 .. MaxCalls : used[o] = 1 => o < n + 1 /\ (session # NoSession => session.observation # o)
<1>1. n \in 0 .. MaxCalls /\ MaxCalls \in Nat /\ sent \in [1 .. MaxCalls -> 0 .. 1]
  BY BrowseConstants, Zenon DEF PageInv, BrowseType
<1>2. /\ \A r \in 1 .. MaxCalls : sent[r] = 1 => r <= n
      /\ \A o \in 1 .. MaxCalls : used[o] = 1 => o < n /\ (session # NoSession => session.observation # o)
  BY Zenon DEF PageInv, Submitting, Inputting
<1>3. n + 1 \in 1 .. MaxCalls
  BY <1>1
<1>4. sent[n + 1] \in 0 .. 1 /\ sent[n + 1] # 1
  BY <1>1, <1>2, <1>3
<1> QED BY <1>1, <1>2, <1>3, <1>4

\* A call that goes on with the session as it is: it continues a navigation that was not
\* submitted, or observes, or is to act on the last observation.
LEMMA CallContinues ==
    ASSUME PageInv, CallBegins, session \in SessionRecords, session' = session,
           call'.at \in {"frame", "settle", "before", "check"},
           call'.at = "frame" => session.pending = "navigation",
           call'.at = "check" => /\ call'.named = session.observation /\ session.observation # 0
                                 /\ session.last.stable /\ \E t \in told : t.id = session.observation
    PROVE  PageInv'
<1>1. n \in Nat /\ MaxCalls \in Nat /\ n' = n + 1 /\ n < MaxCalls /\ session # NoSession /\ UNCHANGED <<sent, used, told>>
  BY BrowseConstants, PageShapes DEF PageInv, BrowseType, CallBegins
<1>2. /\ session.id \in Nat /\ session.request \in Nat /\ session.observation \in 0 .. MaxCalls
      /\ session.last.id \in Nat
  BY DEF SessionRecords, Looks
<1>3. /\ session.id <= n /\ session.request <= n /\ session.observation <= n /\ session.last.id <= n
      /\ session.last.stable => /\ session.last.id >= session.request
                                /\ session.last.dom = session.last.image
                                /\ session.last.html \in {0, session.last.dom}
      /\ \A t \in told : t.id = session.observation => session.last.id = session.observation
  BY <1>1, Zenon DEF PageInv, Lasting
<1>4. Lasting'
  <2>1. session.id <= n' /\ session.request <= n' /\ session.observation <= n' /\ session.last.id <= n'
    BY <1>1, <1>2, <1>3
  <2> QED BY <1>1, <1>3, <2>1, Zenon DEF Lasting
<1>5. Submitting'
  <2>1. session.pending = "navigation" => session.request >= 1 /\ sent[session.request] = 0
    BY <1>1, Zenon DEF PageInv, Submitting
  <2>2. \A r \in 1 .. MaxCalls : sent'[r] = 1 => r <= n'
    BY <1>1, Unused, Zenon
  <2> QED BY <1>1, <2>1, <2>2, Zenon DEF Submitting
<1>6. Inputting'
  <2>1. \A o \in 1 .. MaxCalls : used'[o] = 1 => o < n' /\ session'.observation # o
    BY <1>1, Unused, Zenon
  <2>2. used \in [1 .. MaxCalls -> 0 .. 1]
    BY Zenon DEF PageInv, BrowseType
  <2>3. call'.at = "check" => /\ call'.named \in 1 .. n' - 1 /\ used'[call'.named] = 0
                              /\ session'.last.id = call'.named /\ session'.last.stable
                              /\ session'.observation = call'.named
    <3>1. SUFFICES ASSUME call'.at = "check"
                   PROVE  /\ call'.named \in 1 .. n' - 1 /\ used'[call'.named] = 0
                          /\ session'.last.id = call'.named /\ session'.last.stable
                          /\ session'.observation = call'.named
      BY Zenon
    <3>2. session.last.id = session.observation /\ session.last.stable /\ call'.named = session.observation
      BY <1>3, <3>1, Zenon
    <3>3. session.observation \in 1 .. MaxCalls /\ session.observation \in 1 .. n' - 1
      BY <1>1, <1>2, <1>3, <3>1
    <3>4. used[session.observation] = 0
      BY <1>1, <2>1, <2>2, <3>3
    <3> QED BY <1>1, <3>2, <3>3, <3>4, Zenon
  <2>4. call'.at # "dispatch"
    BY Zenon
  <2> QED BY <2>1, <2>3, <2>4, Zenon DEF Inputting, ClickTargetKept
<1> QED BY <1>4, <1>5, <1>6, CallBeginsStep, Zenon

\* The record of a call that begins.
LEMMA CallShape ==
    ASSUME NEW p \in Principals, NEW op \in Ops, NEW at \in Stages, NEW x \in Nat, NEW o \in 0 .. MaxCalls,
           call' = [at |-> at, by |-> p, op |-> op, seen |-> NoLast, candidate |-> 0,
                    before |-> 0, after |-> 0, x |-> x, named |-> o]
    PROVE  call' \in CallRecords /\ call'.at = at /\ call'.op = op /\ call'.seen = NoLast /\ call'.named = o
<1>1. NoLast \in Looks
  BY PageShapes, Zenon
<1> QED BY <1>1, Zenon DEF CallRecords

\* The record of a call that begins and names no observation.
LEMMA AtShape ==
    ASSUME NEW p \in Principals, NEW op \in Ops, NEW at \in Stages, At(p, op, at)
    PROVE  call' \in CallRecords /\ call'.at = at /\ call'.op = op /\ call'.seen = NoLast
<1>1. 0 \in Nat /\ 0 \in 0 .. MaxCalls
  BY BrowseConstants
<1> QED BY <1>1, CallShape, Zenon DEF At

\* A refused call changes nothing but the session it finds to be over.
LEMMA RefusedStep ==
    ASSUME PageInv, call = Idle, n < MaxCalls, n' = n + 1, UNCHANGED <<page, docs, told, sent, used>>, Refused
    PROVE  PageInv'
<1>1. n' \in 0 .. MaxCalls
  BY BrowseConstants DEF PageInv, BrowseType
<1>2. call' = Idle /\ session' = Current
  BY Zenon DEF Refused
<1>3. session' = NoSession \/ SameSession
  BY <1>2, CurrentIs, Zenon
<1> QED BY <1>1, <1>2, <1>3, QuietEnd, Zenon

\* A navigation that is requested was not sent.
LEMMA NavigateStep ==
    ASSUME PageInv, call = Idle, n < MaxCalls, n' = n + 1, UNCHANGED <<page, docs, told, sent, used>>,
           session \in SessionRecords, session' = Requested(session), call' \in CallRecords,
           call'.at = "frame", call'.seen = NoLast
    PROVE  PageInv'
<1>1. n \in Nat /\ n + 1 \in 1 .. MaxCalls /\ n + 1 \in 0 .. MaxCalls /\ n + 1 >= 1 /\ session # NoSession
  BY BrowseConstants, PageShapes DEF PageInv, BrowseType
<1>2. /\ session' \in SessionRecords /\ session'.id = session.id /\ session'.pending = "navigation"
      /\ session'.request = n + 1 /\ session'.observation = 0 /\ session'.last = NoLast
  <2>1. NoLast \in Looks /\ 0 \in 0 .. MaxCalls
    BY BrowseConstants, PageShapes
  <2> QED BY <1>1, <2>1, Zenon DEF SessionRecords, Requested, Pendings
<1>3. CallBegins
  BY <1>2, Zenon DEF CallBegins
<1>4. Lasting'
  <2>1. session.id <= n /\ session.id \in Nat
    BY <1>1 DEF PageInv, Lasting, SessionRecords
  <2>2. \A t \in told' : t.id # 0
    BY DEF PageInv, BrowseType
  <2> QED BY <1>1, <1>2, <2>1, <2>2, PageShapes DEF Lasting
<1>5. Submitting'
  BY <1>1, <1>2, Unused, Zenon DEF Submitting
<1>6. Inputting'
  <2>1. \A o \in 1 .. MaxCalls : used[o] = 1 => o < n' /\ 0 # o
    BY Unused, BrowseConstants
  <2> QED BY <1>2, <2>1, Zenon DEF Inputting, ClickTargetKept
<1> QED BY <1>3, <1>4, <1>5, <1>6, CallBeginsStep, Zenon

\* An open that finds no session begins with none.
LEMMA OpenStep ==
    ASSUME PageInv, call = Idle, n < MaxCalls, n' = n + 1, UNCHANGED <<page, docs, told, sent, used>>,
           session' = NoSession, call' \in CallRecords,
           call'.at = "launch", call'.op = "open", call'.seen = NoLast
    PROVE  PageInv'
<1>1. CallBegins
  BY Zenon DEF CallBegins
<1>2. Lasting'
  BY Zenon DEF Lasting
<1>3. Submitting'
  BY Unused, Zenon DEF Submitting
<1>4. Inputting'
  BY Unused, Zenon DEF Inputting, ClickTargetKept
<1> QED BY <1>1, <1>2, <1>3, <1>4, CallBeginsStep, Zenon

\* A call of perform keeps the invariant.
LEMMA PerformStep ==
    ASSUME PageInv, NEW p \in Principals,
           NEW op \in {"status", "open", "close", "read_html", "observe", "navigate"}, Perform(p, op)
    PROVE  PageInv'
<1>1. call = Idle /\ n < MaxCalls /\ n' = n + 1 /\ UNCHANGED <<page, docs, told, sent, used>>
  BY Zenon DEF Perform
<1>2. CASE Refused
  BY <1>1, <1>2, RefusedStep, Zenon
<1>3. CASE op = "open" /\ At(p, op, "launch") /\ session' = NoSession
  <2>1. op \in Ops /\ "launch" \in Stages
    BY <1>3, Zenon DEF Ops, Stages
  <2>2. call' \in CallRecords /\ call'.at = "launch" /\ call'.op = "open" /\ call'.seen = NoLast
    BY <1>3, <2>1, AtShape, Zenon
  <2> QED BY <1>1, <1>3, <2>2, OpenStep, Zenon
<1>4. CASE call' = Idle /\ (session' = NoSession \/ session' = Current)
  <2>1. n' \in 0 .. MaxCalls
    BY <1>1, BrowseConstants DEF PageInv, BrowseType
  <2>2. session' = NoSession \/ SameSession
    BY <1>1, <1>4, CurrentIs, Zenon
  <2> QED BY <1>1, <1>4, <2>1, <2>2, QuietEnd, Zenon
<1>5. CASE op = "observe" /\ Named(p) /\ session' = Current
           /\ At(p, op, CASE Current.pending = "navigation" -> "frame"
                          [] Current.pending = "document" -> "settle"
                          [] OTHER -> "before")
  <2>1. Current = session /\ session \in SessionRecords
    BY <1>1, <1>5, CurrentIs, Zenon DEF Named
  <2>2. PICK at \in {"frame", "settle", "before"} :
            At(p, op, at) /\ (at = "frame" => session.pending = "navigation")
    BY <1>5, <2>1, Zenon
  <2>3. op \in Ops /\ at \in Stages
    BY <1>5, Zenon DEF Ops, Stages
  <2>4. call' \in CallRecords /\ call'.at = at /\ call'.seen = NoLast
    BY <2>2, <2>3, AtShape, Zenon
  <2>5. CallBegins
    BY <1>1, <1>5, <2>1, <2>4, Zenon DEF CallBegins
  <2> QED BY <1>5, <2>1, <2>2, <2>4, <2>5, CallContinues, Zenon
<1>6. CASE op = "navigate" /\ Named(p) /\ At(p, op, "frame") /\ session' = Requested(Current)
  <2>1. Current = session /\ session \in SessionRecords
    BY <1>1, <1>6, CurrentIs, Zenon DEF Named
  <2>2. op \in Ops /\ "frame" \in Stages
    BY <1>6, Zenon DEF Ops, Stages
  <2>3. call' \in CallRecords /\ call'.at = "frame" /\ call'.seen = NoLast
    BY <1>6, <2>2, AtShape, Zenon
  <2> QED BY <1>1, <1>6, <2>1, <2>3, NavigateStep, Zenon
<1> QED BY <1>2, <1>3, <1>4, <1>5, <1>6, Zenon DEF Perform

\* An input names an observation its caller was told of.
LEMMA InputStep ==
    ASSUME PageInv, NEW p \in Principals, NEW op \in {"click", "type", "scroll"}, NEW o \in 1 .. n,
           NEW x \in 1 .. 3, Input(p, op, o, x)
    PROVE  PageInv'
<1>1. /\ call = Idle /\ n < MaxCalls /\ n' = n + 1 /\ UNCHANGED <<page, docs, told, sent, used>>
      /\ [by |-> p, id |-> o] \in told
  BY Zenon DEF Input
<1>2. CASE Refused
  BY <1>1, <1>2, RefusedStep, Zenon
<1>3. CASE /\ Named(p) /\ Actionable(o) /\ session' = Current
           /\ call' = [at |-> "check", by |-> p, op |-> op, seen |-> NoLast, candidate |-> 0,
                       before |-> 0, after |-> 0, x |-> x, named |-> o]
  <2>1. Current = session /\ session \in SessionRecords
    BY <1>1, <1>3, CurrentIs, Zenon DEF Named
  <2>2. op \in Ops /\ "check" \in Stages /\ x \in Nat /\ o \in 0 .. MaxCalls
    BY BrowseConstants DEF Ops, Stages, PageInv, BrowseType
  <2>3. call' \in CallRecords /\ call'.at = "check" /\ call'.seen = NoLast /\ call'.named = o
    BY <1>3, <2>2, CallShape, Zenon
  <2>4. CallBegins
    BY <1>1, <1>3, <2>1, <2>3, Zenon DEF CallBegins
  <2>5. o = session.observation /\ session.observation # 0 /\ session.last.stable
    BY <1>3, <2>1, Zenon DEF Actionable
  <2>6. [by |-> p, id |-> o].id = o
    BY Zenon
  <2>7. \E t \in told : t.id = session.observation
    BY <1>1, <2>5, <2>6, Zenon
  <2> QED BY <1>3, <2>1, <2>3, <2>4, <2>5, <2>7, CallContinues, Zenon
<1> QED BY <1>2, <1>3, Zenon DEF Input

\* A page that changes by itself leaves the session, its call and its navigations alone.
PageMoves ==
    /\ UNCHANGED <<session, call, n, told, sent, used>>
    /\ page' \in PageRecords /\ Len(page'.controls) = 2 /\ docs' \in Nat

\* A page that changes by itself keeps all but what is said of its documents.
LEMMA PageMovesStep == ASSUME PageInv, PageMoves, Documents', Reading' PROVE PageInv'
<1>1. BrowseType'
  BY Zenon DEF PageInv, BrowseType, PageMoves
<1>2. Opened' /\ Telling'
  BY Zenon DEF PageInv, Opened, Telling, PageMoves
<1>3. Lasting'
  BY Zenon DEF PageInv, Lasting, PageMoves
<1>4. Submitting'
  BY Zenon DEF PageInv, Submitting, PageMoves
<1>5. Inputting'
  BY Zenon DEF PageInv, Inputting, ClickTargetKept, PageMoves
<1> QED BY <1>1, <1>2, <1>3, <1>4, <1>5, Zenon DEF PageInv

\* When another document comes, an observation in progress will find that its document is gone.
LEMMA DocumentLeaves ==
    ASSUME PageInv, PageMoves, Documents',
           session # NoSession /\ call.at # "connect" => \A d : Since(d) => Gone(d)'
    PROVE  PageInv'
<1>1. CASE call.at \in {"dom", "image", "after", "view", "html", "htmlframe"}
  <2>1. session # NoSession /\ call.at # "connect" /\ call' = call /\ session' = session /\ n' = n
    BY <1>1, PageShapes, Zenon DEF PageInv, Opened, Stages, PageMoves
  <2>2. \A d : Since(d) => Gone(d)'
    BY <2>1, Zenon
  <2>3. \A d : (page.doc = d /\ d >= 1) => Since(d)
    BY Zenon DEF Since
  <2>4. \A d : Gone(d) => Since(d)
    <3>1. \A d : d \in 1 .. docs => d >= 1
      BY DEF PageInv, BrowseType
    <3> QED BY <3>1, Zenon DEF Since, Gone
  <2>5. \A d : Gone(d)' => Since(d)' /\ page'.doc # d
    <3>1. \A d : d \in 1 .. docs' => d >= 1
      BY DEF PageMoves
    <3> QED BY <3>1, Zenon DEF Since, Gone
  <2>6. call.at = "dom" => Since(call.before)'
    BY <2>1, <2>2, <2>5, Zenon DEF PageInv, Reading
  <2>7. call.at \in {"image", "after"} => Gone(call.before)'
    BY <2>1, <2>2, <2>3, <2>4, Zenon DEF PageInv, Reading
  <2>8. call.at \in {"view", "html", "htmlframe"} => Since(call.after)' /\ page'.doc # call.after
    BY <2>1, <2>2, <2>5, Zenon DEF PageInv, Reading
  <2>9. Reading'
    BY <1>1, <2>1, <2>6, <2>7, <2>8, Zenon DEF PageInv, Reading
  <2> QED BY <2>9, PageMovesStep, Zenon
<1>2. CASE call.at \notin {"dom", "image", "after", "view", "html", "htmlframe"}
  <2>1. Reading'
    BY <1>2, Zenon DEF PageInv, Reading, PageMoves
  <2> QED BY <2>1, PageMovesStep, Zenon
<1> QED BY <1>1, <1>2, Zenon

\* The document about to come commits.
LEMMA CommitStep == ASSUME PageInv, Commit PROVE PageInv'
<1>1. /\ page \in PageRecords /\ Len(page.controls) = 2 /\ page.next \in Nat /\ page.doc \in Nat /\ docs \in Nat
      /\ page.next <= docs /\ page.next # 0
  BY Zenon DEF PageInv, BrowseType, PageRecords, Documents, Commit
<1>2. page' \in PageRecords /\ page'.doc = page.next /\ page'.next = 0 /\ page'.controls = page.controls
  <2>1. page' = [page EXCEPT !.doc = page.next, !.next = 0] /\ 0 \in Nat
    BY Zenon DEF Commit
  <2> QED BY <1>1, <2>1, PageFields, Zenon
<1>3. UNCHANGED <<session, docs, call, n, told, sent, used>>
  BY Zenon DEF Commit
<1>4. PageMoves
  BY <1>1, <1>2, <1>3, Zenon DEF PageMoves
<1>5. Documents'
  BY <1>1, <1>2, <1>3 DEF Documents
<1>6. session # NoSession /\ call.at # "connect" => \A d : Since(d) => Gone(d)'
  <2>1. SUFFICES ASSUME session # NoSession, call.at # "connect", NEW d, Since(d) PROVE Gone(d)'
    BY Zenon
  <2>2. page.doc <= docs /\ page.next # page.doc
    BY <2>1, Zenon DEF PageInv, Documents
  <2> QED BY <1>1, <1>2, <1>3, <2>1, <2>2 DEF Since, Gone
<1> QED BY <1>4, <1>5, <1>6, DocumentLeaves, Zenon

\* A script leads to another document.
LEMMA RedirectStep == ASSUME PageInv, Redirect PROVE PageInv'
<1>1. /\ page \in PageRecords /\ Len(page.controls) = 2 /\ page.next \in Nat /\ page.doc \in Nat /\ docs \in Nat
      /\ page.next <= docs /\ page.doc <= docs /\ docs + 1 \in Nat
  BY DEF PageInv, BrowseType, PageRecords, Documents
<1>2. page' \in PageRecords /\ page'.doc = docs + 1 /\ page'.next = page.next /\ page'.controls = page.controls
  <2>1. page' = [page EXCEPT !.doc = docs + 1]
    BY Zenon DEF Redirect
  <2> QED BY <1>1, <2>1, PageFields, Zenon
<1>3. UNCHANGED <<session, call, n, told, sent, used>> /\ docs' = docs + 1
  BY Zenon DEF Redirect
<1>4. PageMoves
  BY <1>1, <1>2, <1>3, Zenon DEF PageMoves
<1>5. Documents'
  BY <1>1, <1>2, <1>3 DEF Documents
<1>6. session # NoSession /\ call.at # "connect" => \A d : Since(d) => Gone(d)'
  <2>1. SUFFICES ASSUME session # NoSession, call.at # "connect", NEW d, Since(d) PROVE Gone(d)'
    BY Zenon
  <2>2. page.doc <= docs /\ page.next # page.doc
    BY <2>1, Zenon DEF PageInv, Documents
  <2> QED BY <1>1, <1>2, <1>3, <2>1, <2>2 DEF Since, Gone
<1> QED BY <1>4, <1>5, <1>6, DocumentLeaves, Zenon

\* A control changes in the document that is there.
LEMMA ControlsChangeStep == ASSUME PageInv, ControlsChange PROVE PageInv'
<1>1. page \in PageRecords /\ page.controls \in Seq(Controls) /\ Len(page.controls) = 2
  BY Zenon DEF PageInv, BrowseType, PageRecords
<1>2. PICK c \in {<<Link(2), page.controls[2]>>, <<page.controls[1], Button(3)>>} :
          page' = [page EXCEPT !.controls = c]
  BY Zenon DEF ControlsChange
<1>3. c \in Seq(Controls) /\ Len(c) = 2
  <2>1. page.controls[1] \in Controls /\ page.controls[2] \in Controls
    BY <1>1
  <2>2. Link(2) \in Controls /\ Button(3) \in Controls
    BY Zenon DEF Link, Button, Controls
  <2>3. ASSUME NEW a \in Controls, NEW b \in Controls PROVE <<a, b>> \in Seq(Controls) /\ Len(<<a, b>>) = 2
    OBVIOUS
  <2> QED BY <1>2, <2>1, <2>2, <2>3, Zenon
<1>4. page' \in PageRecords /\ page'.doc = page.doc /\ page'.next = page.next /\ page'.controls = c
  BY <1>1, <1>2, <1>3, Zenon DEF PageRecords
<1>5. UNCHANGED <<session, docs, call, n, told, sent, used>>
  BY Zenon DEF ControlsChange
<1>6. docs' \in Nat
  BY <1>5, Zenon DEF PageInv, BrowseType
<1>7. PageMoves
  BY <1>3, <1>4, <1>5, <1>6, Zenon DEF PageMoves
<1>8. Documents' /\ Reading'
  <2>1. Documents'
    BY <1>4, <1>5, Zenon DEF PageInv, Documents
  <2>2. Reading'
    BY <1>4, <1>5, Zenon DEF PageInv, Reading, Since, Gone
  <2> QED BY <2>1, <2>2, Zenon
<1> QED BY <1>7, <1>8, PageMovesStep, Zenon

\* Every step of calls, page, process and time keeps the invariant.
LEMMA BrowseNextKeeps == PageInv /\ [BrowseNext]_sessionVars => PageInv'
<1> SUFFICES ASSUME PageInv, [BrowseNext]_sessionVars PROVE PageInv'
  BY Zenon
<1>1. CASE UNCHANGED sessionVars
  <2>1. UNCHANGED <<session, page, docs, call, n, told, sent, used>>
    BY <1>1, Zenon DEF sessionVars
  <2>2. BrowseType' /\ Opened'
    BY <2>1, Zenon DEF PageInv, BrowseType, Opened
  <2>3. Documents' /\ Reading'
    <3>1. Documents'
      BY <2>1, Zenon DEF PageInv, Documents
    <3>2. Reading'
      BY <2>1, Zenon DEF PageInv, Reading, Since, Gone
    <3> QED BY <3>1, <3>2, Zenon
  <2>4. PageMoves
    BY <2>1, <2>2, Zenon DEF PageMoves, BrowseType
  <2> QED BY <2>3, <2>4, PageMovesStep, Zenon
<1>2. ASSUME NEW p \in Principals,
             NEW op \in {"status", "open", "close", "read_html", "observe", "navigate"}, Perform(p, op)
      PROVE  PageInv'
  BY <1>2, PerformStep, Zenon
<1>3. ASSUME NEW p \in Principals, NEW op \in {"click", "type", "scroll"}, NEW o \in 1 .. n,
             NEW x \in 1 .. 3, Input(p, op, o, x)
      PROVE  PageInv'
  BY <1>3, InputStep, Zenon
<1>4. CASE BrowseStep
  BY <1>4, LaunchStep, ConnectStep, FrameStep, SubmitStep, RejectedStep, SampleStep, BeforeStep, DomStep,
     ImageStep, AfterStep, ViewStep, HtmlStep, HtmlFrameStep, CheckStep, DispatchInputStep, ThrowsStep, Zenon
     DEF BrowseStep
<1>5. CASE AllowanceEnds \/ Commit \/ Redirect \/ ControlsChange \/ SessionAges \/ Janitor
  BY <1>5, AllowanceEndsStep, CommitStep, RedirectStep, ControlsChangeStep, SessionAgesStep, JanitorStep, Zenon
<1> QED BY <1>1, <1>2, <1>3, <1>4, <1>5, Zenon DEF BrowseNext

\* Calls on a browser session are sound, for every number of calls, principals and page
\* changes: perform submits a requested navigation once, consumes an observation before it
\* dispatches an input, and reports stable only what it read of one document.
THEOREM PageActsAreSound == BrowseSpec => []PageActsSound
<1>1. PageInv => PageActsSound
  <2> SUFFICES ASSUME PageInv PROVE PageActsSound
    BY Zenon
  <2>1. NavigatedOnce /\ OneInputPerObservation
    <3>1. \A r \in 1 .. MaxCalls : sent[r] \in 0 .. 1 /\ used[r] \in 0 .. 1
      BY Zenon DEF PageInv, BrowseType
    <3> QED BY <3>1 DEF NavigatedOnce, OneInputPerObservation
  <2>2. ASSUME session # NoSession, session.last.stable
        PROVE  /\ session.last.id >= session.request /\ session.last.dom = session.last.image
               /\ session.last.html \in {0, session.last.dom}
    BY <2>2, Zenon DEF PageInv, Lasting
  <2>3. ActsOnNamedObservation
    <3>1. call.at = "dispatch" => session # NoSession
      BY PageShapes, Zenon DEF PageInv, Opened, Stages
    <3> QED BY <2>2, <3>1, Zenon DEF PageInv, Inputting, ActsOnNamedObservation
  <2>4. StableIsOneDocument
    BY <2>2, PageShapes, Zenon DEF StableIsOneDocument
  <2>5. ClickTargetKept
    BY Zenon DEF PageInv, Inputting
  <2> QED BY <2>1, <2>3, <2>4, <2>5, Zenon DEF PageActsSound
<1> QED BY <1>1, BrowseInitHolds, BrowseNextKeeps, PTL DEF BrowseSpec
=============================================================================
