--------------------------- MODULE DeliveryProofs ---------------------------
(*****************************************************************************)
(* What is delivered once and counted exactly. JobSubmission: submission for *)
(* every number of clients, operations, tasks and retries, and all           *)
(* capacities. BrowserNetwork: reading loops nest once, a paused request is  *)
(* acknowledged once, and the proxy keeps to its places and its budget.      *)
(*****************************************************************************)
EXTENDS JobSubmission, BrowserNetwork, FiniteSetTheorems, SequenceTheorems, TLAPS

\* What the configuration guarantees.
Configured ==
    /\ IsFiniteSet(Ops) /\ Ops # {} /\ Keyed \subseteq Ops
    /\ NoPrint \notin Prints /\ Nobody \notin Clients
    /\ MaxActive \in Nat /\ MaxPerTask \in Nat /\ MaxOperations \in Nat

Early == {"gated", "receipted", "created", "recorded"}
Late == {"spawned", "published"}
Own == {"accepted", "known", "expired", "unknown", "unavailable"}
Busy == Early \cup Late
Replies == Own \cup {"none", "conflict", "refused", "exists", "error", "unconfirmed"}
Records == {"absent", "active", "terminal", "pruned"}

Typed ==
    /\ indexed \in BOOLEAN
    /\ bound \in [Ops -> Prints \cup {NoPrint}]
    /\ confirmed \in [Ops -> BOOLEAN]
    /\ folder \in [Ops -> BOOLEAN]
    /\ record \in [Ops -> Records]
    /\ launched \in [Ops -> Prints \cup {NoPrint}]
    /\ spawns \in [Ops -> Nat]
    /\ call \in [Clients -> [at : {"idle", "done"} \cup Busy, op : Ops,
                             print : Prints \cup {NoPrint}, reply : Replies]]
    /\ \A c \in Clients : call[c].at # "idle" => call[c].print \in Prints

\* Only the holder of .submission.lock is in the middle of a submission.
Gated == \A c \in Clients : call[c].at \in Busy <=> gate = c

\* What is known of an operation, whoever asks.
Operations ==
    \A op \in Ops :
        /\ spawns[op] <= 1
        /\ confirmed[op] => spawns[op] = 1
        /\ record[op] \in {"active", "terminal"} => folder[op]
        /\ op \in Keyed /\ launched[op] # NoPrint => bound[op] = launched[op]
        /\ op \in Keyed /\ bound[op] = NoPrint =>
            spawns[op] = 0 /\ record[op] = "absent" /\ ~folder[op]

\* What the holder of the lock knows of its operation.
Underway(c, op) ==
    /\ call[c].at = "gated" /\ op \notin Keyed => spawns[op] = 0 /\ record[op] = "absent" /\ ~folder[op]
    /\ call[c].at = "receipted" => spawns[op] = 0 /\ record[op] = "absent" /\ ~folder[op]
    /\ call[c].at = "created" => spawns[op] = 0 /\ record[op] = "absent" /\ folder[op]
    /\ call[c].at = "recorded" => spawns[op] = 0
    /\ call[c].at \in Late => spawns[op] = 1
    /\ call[c].at \in Busy \ {"gated"} /\ op \in Keyed => bound[op] = call[c].print
    /\ call[c].at \in {"receipted", "created"} =>
        /\ Cardinality(ActiveOf(Ops)) < MaxActive
        /\ op \in Keyed => Cardinality(ActiveOf(SameTask(op))) < MaxPerTask
Holding == \A c \in Clients : Underway(c, call[c].op)

\* What a client was told stays true.
Answered(c) ==
    LET op == call[c].op IN
    call[c].at = "done" =>
        /\ op \in Keyed /\ call[c].reply \in Own => bound[op] = call[c].print
        /\ call[c].reply = "expired" => spawns[op] = 1 /\ record[op] = "absent"
        /\ op \in Keyed => call[c].reply # "exists"
Answers == \A c \in Clients : Answered(c)

IInv == Typed /\ Gated /\ Operations /\ Holding /\ Answers /\ CapacityHeld

\* The inductive invariant says all that LaunchedOnce promises.
LEMMA Promised ==
    ASSUME Configured, IInv
    PROVE  LaunchedOnce
<1>1. SpawnedOnce
  BY Zenon DEF IInv, Operations, SpawnedOnce
<1>2. LaunchIsBound
  BY Zenon DEF IInv, Typed, Operations, Answers, Answered, LaunchIsBound, Own, Configured
<1>3. GoneJobsAnswered
  BY Zenon DEF IInv, Typed, Answers, Answered, GoneJobsAnswered
<1> QED BY <1>1, <1>2, <1>3, Zenon DEF IInv, LaunchedOnce

-----------------------------------------------------------------------------
(*****************************************************************************)
(* Effects of a step on the calls, and on the jobs that count.               *)
(*****************************************************************************)

\* While a submission is under way nobody else is in one.
LEMMA Alone ==
    ASSUME Typed, Gated, NEW c \in Clients, call[c].at \in Busy
    PROVE  gate = c /\ \A d \in Clients \ {c} : call[d].at \in {"idle", "done"}
  BY Zenon DEF Typed, Gated

\* A step of c that leaves the other calls alone and takes c's to the given place.
Took(c, at, answer) ==
    /\ call' \in [Clients -> [at : {"idle", "done"} \cup Busy, op : Ops,
                              print : Prints \cup {NoPrint}, reply : Replies]]
    /\ \A d \in Clients : call'[d].at # "idle" => call'[d].print \in Prints
    /\ \A d \in Clients \ {c} : call'[d] = call[d]
    /\ call'[c].at = at /\ call'[c].op = call[c].op /\ call'[c].print = call[c].print
    /\ call'[c].reply = answer

\* A submission that is answered lets go of the lock.
LEMMA Replied ==
    ASSUME Configured, Typed, Gated, NEW c \in Clients, call[c].at \in Busy,
           NEW answer \in Replies, Respond(c, answer)
    PROVE  /\ Took(c, "done", answer)
           /\ Gated'
           /\ Holding'
<1>1. \A d \in Clients \ {c} : call'[d] = call[d]
  BY Zenon DEF Respond, Typed
<1>2. /\ call'[c].at = "done" /\ call'[c].op = call[c].op /\ call'[c].print = call[c].print
      /\ call'[c].reply = answer
  BY Zenon DEF Respond, Typed
<1>3. call' \in [Clients -> [at : {"idle", "done"} \cup Busy, op : Ops,
                             print : Prints \cup {NoPrint}, reply : Replies]]
  <2>1. [call[c] EXCEPT !.at = "done", !.reply = answer]
            \in [at : {"idle", "done"} \cup Busy, op : Ops, print : Prints \cup {NoPrint}, reply : Replies]
    BY ZenonT(30) DEF Typed
  <2> QED BY <2>1, Zenon DEF Respond, Typed
<1>4. \A d \in Clients : call'[d].at # "idle" => call'[d].print \in Prints
  BY <1>1, <1>2, Zenon DEF Typed, Busy, Early, Late
<1>5. \A d \in Clients : call'[d].at \in {"idle", "done"}
  BY <1>1, <1>2, Alone, Zenon
<1>6. Gated'
  BY <1>5, ZenonT(30) DEF Gated, Respond, Configured, Busy, Early, Late
<1>7. Holding'
  BY <1>5, Zenon DEF Holding, Underway, Busy, Early, Late
<1> QED BY <1>1, <1>2, <1>3, <1>4, <1>6, <1>7, Zenon DEF Took

\* A submission that goes on keeps the lock.
LEMMA Advanced ==
    ASSUME Configured, Typed, Gated, NEW c \in Clients, call[c].at \in Busy,
           NEW at \in Busy, Advance(c, at)
    PROVE  /\ Took(c, at, call[c].reply)
           /\ Gated'
           /\ Underway(c, call[c].op)' => Holding'
<1>1. \A d \in Clients \ {c} : call'[d] = call[d]
  BY Zenon DEF Advance, Typed
<1>2. /\ call'[c].at = at /\ call'[c].op = call[c].op /\ call'[c].print = call[c].print
      /\ call'[c].reply = call[c].reply
  BY Zenon DEF Advance, Typed
<1>3. call' \in [Clients -> [at : {"idle", "done"} \cup Busy, op : Ops,
                             print : Prints \cup {NoPrint}, reply : Replies]]
  BY DEF Advance, Typed
<1>4. \A d \in Clients : call'[d].at # "idle" => call'[d].print \in Prints
  BY <1>1, <1>2, Zenon DEF Typed, Busy, Early, Late
<1>5. gate' = c /\ \A d \in Clients \ {c} : call'[d].at \in {"idle", "done"}
  BY <1>1, Alone, Zenon DEF Advance
<1>6. Gated'
  BY <1>2, <1>5, Zenon DEF Gated, Busy, Early, Late
<1>7. \A d \in Clients \ {c} : Underway(d, call[d].op)'
  BY <1>5, Zenon DEF Underway, Busy, Early, Late
<1>8. Underway(c, call[c].op)' => Holding'
  BY <1>7, Zenon DEF Holding
<1> QED BY <1>1, <1>2, <1>3, <1>4, <1>6, <1>8, Zenon DEF Took

\* The active jobs are finitely many.
LEMMA ActiveFinite ==
    ASSUME Configured, NEW S \in SUBSET Ops
    PROVE  IsFiniteSet(ActiveOf(S)) /\ Cardinality(ActiveOf(S)) \in Nat
<1>1. IsFiniteSet(S) /\ ActiveOf(S) \subseteq S
  BY FS_Subset, Zenon DEF Configured, ActiveOf
<1>2. IsFiniteSet(ActiveOf(S))
  BY <1>1, FS_Subset, Zenon
<1> QED BY <1>2, FS_CardinalityType, Zenon

\* As long as no job becomes active, the capacities have room for as many as before.
LEMMA FewerActive ==
    ASSUME Configured, NEW S \in SUBSET Ops,
           \A op \in Ops : record'[op] = "active" => record[op] = "active"
    PROVE  /\ Cardinality(ActiveOf(S))' <= Cardinality(ActiveOf(S))
           /\ Cardinality(ActiveOf(S)) \in Nat /\ Cardinality(ActiveOf(S))' \in Nat
<1>1. IsFiniteSet(ActiveOf(S)) /\ Cardinality(ActiveOf(S)) \in Nat
  BY ActiveFinite, Zenon
<1>2. ActiveOf(S)' \subseteq ActiveOf(S)
  BY Zenon DEF ActiveOf
<1>3. IsFiniteSet(ActiveOf(S)') /\ Cardinality(ActiveOf(S)') <= Cardinality(ActiveOf(S))
  BY <1>1, <1>2, FS_Subset, Zenon
<1>4. Cardinality(ActiveOf(S)') \in Nat
  BY <1>3, FS_CardinalityType, Zenon
<1> QED BY <1>1, <1>3, <1>4, Zenon

\* A job more counts once against each capacity it falls under.
LEMMA OneMoreActive ==
    ASSUME Configured, Typed, NEW S \in SUBSET Ops, NEW op \in Ops, record[op] # "active",
           record' = [record EXCEPT ![op] = "active"]
    PROVE  /\ Cardinality(ActiveOf(S))' <= Cardinality(ActiveOf(S)) + 1
           /\ op \notin S => Cardinality(ActiveOf(S))' = Cardinality(ActiveOf(S))
           /\ Cardinality(ActiveOf(S)) \in Nat /\ Cardinality(ActiveOf(S))' \in Nat
<1>1. IsFiniteSet(ActiveOf(S)) /\ Cardinality(ActiveOf(S)) \in Nat
  BY ActiveFinite, Zenon
<1>2. CASE op \in S
  <2>1. ActiveOf(S)' = ActiveOf(S) \cup {op} /\ op \notin ActiveOf(S)
    BY <1>2, Zenon DEF ActiveOf, Typed
  <2>2. Cardinality(ActiveOf(S) \cup {op}) = Cardinality(ActiveOf(S)) + 1
    BY <1>1, <2>1, FS_AddElement, Zenon
  <2>3. Cardinality(ActiveOf(S)') = Cardinality(ActiveOf(S)) + 1
    BY <2>1, <2>2, Zenon
  <2> QED BY <1>1, <1>2, <2>3
<1>3. CASE op \notin S
  <2>1. ActiveOf(S)' = ActiveOf(S)
    BY <1>3, Zenon DEF ActiveOf, Typed
  <2> QED BY <1>1, <2>1
<1> QED BY <1>2, <1>3, Zenon

\* The capacities are kept by a step that makes no job active and writes no receipt.
LEMMA SameCapacity ==
    ASSUME Configured, CapacityHeld, bound' = bound,
           \A op \in Ops : record'[op] = "active" => record[op] = "active"
    PROVE  CapacityHeld'
<1>1. Cardinality(ActiveOf(Ops))' <= MaxActive
  BY FewerActive DEF CapacityHeld, Configured
<1>2. \A op \in Keyed : Cardinality(ActiveOf(SameTask(op)))' <= MaxPerTask
  <2>1. SUFFICES ASSUME NEW op \in Keyed PROVE Cardinality(ActiveOf(SameTask(op)))' <= MaxPerTask
    BY Zenon
  <2>2. SameTask(op) \in SUBSET Ops
    BY Zenon DEF SameTask, Configured
  <2> QED BY <2>2, FewerActive DEF CapacityHeld, Configured
<1>3. Cardinality(Receipts)' <= MaxOperations
  BY Zenon DEF CapacityHeld, Receipts
<1> QED BY <1>1, <1>2, <1>3, Zenon DEF CapacityHeld

\* What others were told stays true when receipts are only added and the job of an
\* operation whose result has expired is left alone.
LEMMA AnswersKept ==
    ASSUME Configured, IInv,
           \A op \in Ops : bound[op] # NoPrint => bound'[op] = bound[op],
           \A op \in Ops : spawns[op] = 1 /\ record[op] = "absent"
                           => spawns'[op] = 1 /\ record'[op] = "absent"
    PROVE  \A d \in Clients : call'[d] = call[d] => Answered(d)'
<1>1. SUFFICES ASSUME NEW d \in Clients, call'[d] = call[d] PROVE Answered(d)'
  BY Zenon
<1>2. Answered(d) /\ call[d].op \in Ops
  BY Zenon DEF IInv, Answers, Typed
<1>3. call[d].at = "done" => call[d].print # NoPrint
  BY Zenon DEF IInv, Typed, Configured
<1> DEFINE o == call[d].op
<1>4. /\ bound[o] # NoPrint => bound'[o] = bound[o]
      /\ spawns[o] = 1 /\ record[o] = "absent" => spawns'[o] = 1 /\ record'[o] = "absent"
  BY <1>2, Zenon
<1>5. call'[d].op = o /\ call'[d].at = call[d].at /\ call'[d].print = call[d].print
      /\ call'[d].reply = call[d].reply
  BY <1>1, Zenon
<1> QED BY <1>2, <1>3, <1>4, <1>5, Zenon DEF Answered

-----------------------------------------------------------------------------
(*****************************************************************************)
(* The steps.                                                                *)
(*****************************************************************************)

\* Taking the lock binds nothing yet.
LEMMA EnterStep ==
    ASSUME Configured, IInv, NEW c \in Clients, Enter(c)
    PROVE  IInv'
<1> USE DEF IInv
<1>1. PICK op \in Ops, print \in Prints :
        /\ op \notin Keyed => spawns[op] = 0 /\ record[op] = "absent" /\ ~folder[op]
        /\ call' = [call EXCEPT ![c] = [at |-> "gated", op |-> op, print |-> print, reply |-> "none"]]
  BY ZenonT(30) DEF Enter
<1>2. \A d \in Clients \ {c} : call'[d] = call[d]
  BY <1>1, Zenon DEF Typed
<1>3. call'[c] = [at |-> "gated", op |-> op, print |-> print, reply |-> "none"]
  BY <1>1, Zenon DEF Typed
<1>4. \A d \in Clients : call[d].at \notin Busy
  BY Zenon DEF Enter, Gated, Configured
<1>5. Typed'
  BY <1>1, <1>2, <1>3 DEF Typed, Enter, Busy, Early, Replies
<1>6. Gated'
  BY <1>2, <1>3, <1>4 DEF Gated, Enter, Busy, Early
<1>7. Operations'
  BY Zenon DEF Enter, Operations
<1>8. Holding'
  <2>1. SUFFICES ASSUME NEW d \in Clients PROVE Underway(d, call[d].op)'
    BY Zenon DEF Holding
  <2>2. CASE d = c
    BY <1>1, <1>3, <2>2 DEF Underway, Enter, Late
  <2>3. CASE d # c
    BY <1>2, <1>4, <2>3, Zenon DEF Underway, Busy, Early, Late
  <2> QED BY <2>2, <2>3, Zenon
<1>9. Answers'
  <2>1. Answered(c)'
    BY <1>3 DEF Answered
  <2>2. \A d \in Clients \ {c} : Answered(d)'
    BY <1>2, AnswersKept, Zenon DEF Enter
  <2> QED BY <2>1, <2>2, Zenon DEF Answers
<1>10. CapacityHeld'
  BY SameCapacity, Zenon DEF Enter
<1> QED BY <1>5, <1>6, <1>7, <1>8, <1>9, <1>10, Zenon

\* A replayed operation is answered from what is kept of it.
LEMMA ReplayStep ==
    ASSUME Configured, IInv, NEW c \in Clients, Replay(c)
    PROVE  IInv'
<1> USE DEF IInv
<1> DEFINE op == call[c].op
           answer == IF bound[op] # call[c].print THEN "conflict" ELSE Retained(op)
<1>1. op \in Ops /\ op \in Keyed /\ call[c].at \in Busy
  BY Zenon DEF Replay, Typed, Busy, Early
<1>2. answer \in Replies /\ answer # "exists" /\ Respond(c, answer)
  BY Zenon DEF Replay, Retained, Replies, Own
<1> HIDE DEF answer
<1>3. Took(c, "done", answer) /\ Gated' /\ Holding'
  BY <1>1, <1>2, Replied, Zenon
<1>4. Typed'
  BY <1>3, Zenon DEF Typed, Took, Replay
<1>5. Operations'
  BY DEF Replay, Operations
<1>6. Answers'
  <2>1. answer \in Own => bound[op] = call[c].print
    BY Zenon DEF answer, Own
  <2>2. answer = "expired" => spawns[op] = 1 /\ record[op] = "absent"
    BY <1>1 DEF answer, Retained, Operations, Typed, Records
  <2>3. Answered(c)'
    BY <1>2, <1>3, <2>1, <2>2, Zenon DEF Answered, Took, Replay
  <2>4. \A d \in Clients \ {c} : Answered(d)'
    BY <1>3, AnswersKept, Zenon DEF Took, Replay
  <2> QED BY <2>3, <2>4, Zenon DEF Answers
<1>7. CapacityHeld'
  BY SameCapacity, Zenon DEF Replay
<1> QED BY <1>3, <1>4, <1>5, <1>6, <1>7, Zenon

\* A first submission is refused at a capacity, or leaves a receipt and room for its job.
LEMMA AdmitStep ==
    ASSUME Configured, IInv, NEW c \in Clients, Admit(c)
    PROVE  IInv'
<1> USE DEF IInv
<1> DEFINE op == call[c].op
<1>1. op \in Ops /\ call[c].at = "gated" /\ call[c].at \in Busy /\ (op \in Keyed => bound[op] = NoPrint)
      /\ call[c].print \in Prints
  BY Zenon DEF Admit, Typed, Busy, Early
<1>2. CASE Full(op) /\ Respond(c, "refused") /\ UNCHANGED bound
  <2>1. "refused" \in Replies
    BY Zenon DEF Replies
  <2>2. Took(c, "done", "refused") /\ Gated' /\ Holding'
    BY <1>1, <1>2, <2>1, Replied
  <2>3. Typed'
    BY <1>2, <2>2, Zenon DEF Typed, Took, Admit
  <2>4. Operations'
    BY <1>2, Zenon DEF Admit, Operations
  <2>5. Answered(c)'
    BY <2>2 DEF Took, Answered, Own
  <2>6. \A d \in Clients \ {c} : Answered(d)'
    BY <1>2, <2>2, AnswersKept DEF Took, Admit
  <2>7. CapacityHeld'
    BY <1>2, SameCapacity, Zenon DEF Admit
  <2> QED BY <2>2, <2>3, <2>4, <2>5, <2>6, <2>7 DEF Answers
<1>3. CASE /\ ~Full(op)
           /\ bound' = IF op \in Keyed THEN [bound EXCEPT ![op] = call[c].print] ELSE bound
           /\ Advance(c, "receipted")
  <2>1. "receipted" \in Busy
    BY Zenon DEF Busy, Early
  <2>2. Took(c, "receipted", call[c].reply) /\ Gated' /\ (Underway(c, op)' => Holding')
    BY <1>1, <1>3, <2>1, Advanced
  <2>3. /\ bound' \in [Ops -> Prints \cup {NoPrint}]
        /\ \A o \in Ops \ {op} : bound'[o] = bound[o]
        /\ op \in Keyed => bound'[op] = call[c].print
        /\ op \notin Keyed => bound' = bound
    BY <1>1, <1>3 DEF Typed
  <2>4. Typed'
    BY <2>2, <2>3 DEF Typed, Took, Admit
  <2>5. Operations'
    <3>1. SUFFICES ASSUME NEW o \in Ops
                   PROVE  /\ o \in Keyed /\ launched[o] # NoPrint => bound'[o] = launched[o]
                          /\ o \in Keyed /\ bound'[o] = NoPrint =>
                                spawns[o] = 0 /\ record[o] = "absent" /\ ~folder[o]
      BY Zenon DEF Operations, Admit
    <3>2. CASE o = op
      BY <1>1, <2>3, <3>2 DEF Operations, Configured
    <3>3. CASE o # op
      BY <2>3, <3>3 DEF Operations
    <3> QED BY <3>2, <3>3
  <2>6. spawns[op] = 0 /\ record[op] = "absent" /\ ~folder[op]
    BY <1>1 DEF Operations, Holding, Underway
  <2>7. /\ Cardinality(ActiveOf(Ops)) < MaxActive
        /\ op \in Keyed => Cardinality(ActiveOf(SameTask(op))) < MaxPerTask
    <3>1. SameTask(op) \in SUBSET Ops /\ Ops \in SUBSET Ops
      BY Zenon DEF SameTask, Configured
    <3>2. Cardinality(ActiveOf(SameTask(op))) \in Nat /\ Cardinality(ActiveOf(Ops)) \in Nat
      BY <3>1, ActiveFinite, Zenon
    <3> QED BY <1>3, <3>2 DEF Full, Configured
  <2>8. Underway(c, op)'
    BY <2>2, <2>3, <2>6, <2>7 DEF Underway, Took, Admit, ActiveOf, SameTask, Late
  <2>9. Answered(c)'
    BY <2>2, Zenon DEF Took, Answered
  <2>10. \A o \in Ops : bound[o] # NoPrint => bound'[o] = bound[o]
    BY <1>1, <2>3, Zenon
  <2>11. \A d \in Clients \ {c} : Answered(d)'
    BY <2>2, <2>10, AnswersKept DEF Took, Admit
  <2>12. CapacityHeld'
    <3>1. Cardinality(ActiveOf(Ops))' <= MaxActive
          /\ \A o \in Keyed : Cardinality(ActiveOf(SameTask(o)))' <= MaxPerTask
      BY Zenon DEF CapacityHeld, ActiveOf, Admit
    <3>2. CASE op \notin Keyed
      BY <2>3, <3>1, <3>2 DEF CapacityHeld, Receipts
    <3>3. CASE op \in Keyed
      <4>1. IsFiniteSet(Keyed)
        BY FS_Subset, Zenon DEF Configured
      <4>2. IsFiniteSet(Receipts)
        BY <4>1, FS_Subset, Zenon DEF Receipts
      <4>3. Receipts' = Receipts \cup {op} /\ op \notin Receipts
        BY <1>1, <2>3, <3>3, Zenon DEF Receipts, Configured
      <4>4. Cardinality(Receipts \cup {op}) = Cardinality(Receipts) + 1 /\ Cardinality(Receipts) \in Nat
        BY <4>2, <4>3, FS_AddElement, FS_CardinalityType, ZenonT(30)
      <4>5. Cardinality(Receipts') = Cardinality(Receipts \cup {op})
        BY <4>3, Zenon
      <4>6. Cardinality(Receipts) < MaxOperations
        BY <1>3, <3>3, <4>4 DEF Full, Configured
      <4> QED BY <3>1, <4>4, <4>5, <4>6 DEF CapacityHeld, Configured
    <3> QED BY <3>2, <3>3, Zenon
  <2> QED BY <2>2, <2>4, <2>5, <2>8, <2>9, <2>11, <2>12 DEF Answers
<1> QED BY <1>2, <1>3, Zenon DEF Admit

\* An admitted operation has no directory yet: it is created.
LEMMA CreateFolderStep ==
    ASSUME Configured, IInv, NEW c \in Clients, CreateFolder(c)
    PROVE  IInv'
<1> USE DEF IInv
<1> DEFINE op == call[c].op
<1>1. op \in Ops /\ call[c].at = "receipted" /\ call[c].at \in Busy /\ call[c].print \in Prints
  BY Zenon DEF CreateFolder, Typed, Busy, Early
<1>2. Underway(c, op)
  BY Zenon DEF Holding
<1>3. folder' = [folder EXCEPT ![op] = TRUE] /\ Advance(c, "created")
  BY <1>1, <1>2 DEF CreateFolder, Underway
<1>4. "created" \in Busy
  BY Zenon DEF Busy, Early
<1>5. Took(c, "created", call[c].reply) /\ Gated' /\ (Underway(c, op)' => Holding')
  BY <1>1, <1>3, <1>4, Advanced
<1>6. Typed'
  BY <1>3, <1>5 DEF Typed, Took, CreateFolder
<1>7. Operations'
  BY <1>1, <1>2, <1>3 DEF Operations, Typed, Underway, Busy, CreateFolder, Configured
<1>8. Underway(c, op)'
  BY <1>1, <1>2, <1>3, <1>5, ZenonT(30) DEF Underway, Took, CreateFolder, ActiveOf, SameTask, Late, Typed, Busy, Early
<1>9. Answered(c)'
  BY <1>5, Zenon DEF Took, Answered
<1>10. \A d \in Clients \ {c} : Answered(d)'
  BY <1>5, AnswersKept, Zenon DEF Took, CreateFolder
<1>11. CapacityHeld'
  BY SameCapacity, Zenon DEF CreateFolder
<1> QED BY <1>5, <1>6, <1>7, <1>8, <1>9, <1>10, <1>11 DEF Answers

\* The record of a new job takes the room that was found for it.
LEMMA PersistRecordStep ==
    ASSUME Configured, IInv, NEW c \in Clients, PersistRecord(c)
    PROVE  IInv'
<1> USE DEF IInv
<1> DEFINE op == call[c].op
<1>1. op \in Ops /\ call[c].at = "created" /\ call[c].at \in Busy /\ call[c].print \in Prints
  BY Zenon DEF PersistRecord, Typed, Busy, Early
<1>2. Underway(c, op)
  BY Zenon DEF Holding
<1>3. CASE record' = [record EXCEPT ![op] = "active"] /\ Advance(c, "recorded") /\ UNCHANGED folder
  <2>1. "recorded" \in Busy
    BY Zenon DEF Busy, Early
  <2>2. Took(c, "recorded", call[c].reply) /\ Gated' /\ (Underway(c, op)' => Holding')
    BY <1>1, <1>3, <2>1, Advanced
  <2>3. Typed'
    BY <1>3, <2>2 DEF Typed, Took, PersistRecord, Records
  <2>4. Operations'
    BY <1>1, <1>2, <1>3 DEF Operations, Typed, Underway, Busy, Early, PersistRecord, Configured
  <2>5. Underway(c, op)'
    BY <1>1, <1>2, <1>3, <2>2, ZenonT(30) DEF Underway, Took, PersistRecord, Late, Busy, Early
  <2>6. Answered(c)'
    BY <2>2, Zenon DEF Took, Answered
  <2>7. \A o \in Ops : spawns[o] = 1 /\ record[o] = "absent" => spawns'[o] = 1 /\ record'[o] = "absent"
    BY <1>1, <1>2, <1>3 DEF Underway, PersistRecord, Typed
  <2>8. \A d \in Clients \ {c} : Answered(d)'
    BY <2>2, <2>7, AnswersKept, Zenon DEF Took, PersistRecord
  <2>9. CapacityHeld'
    <3>1. record[op] # "active" /\ Cardinality(ActiveOf(Ops)) < MaxActive
          /\ (op \in Keyed => Cardinality(ActiveOf(SameTask(op))) < MaxPerTask)
      BY <1>1, <1>2 DEF Underway
    <3>2. Cardinality(ActiveOf(Ops))' <= MaxActive
      <4>1. Ops \in SUBSET Ops
        BY Zenon
      <4>2. /\ Cardinality(ActiveOf(Ops))' <= Cardinality(ActiveOf(Ops)) + 1
            /\ Cardinality(ActiveOf(Ops)) \in Nat /\ Cardinality(ActiveOf(Ops))' \in Nat
        BY <1>1, <1>3, <3>1, <4>1, OneMoreActive, ZenonT(30)
      <4> QED BY <3>1, <4>2 DEF Configured
    <3>3. ASSUME NEW o \in Keyed PROVE Cardinality(ActiveOf(SameTask(o)))' <= MaxPerTask
      <4>1. SameTask(o) \in SUBSET Ops
        BY Zenon DEF SameTask, Configured
      <4>2. /\ Cardinality(ActiveOf(SameTask(o)))' <= Cardinality(ActiveOf(SameTask(o))) + 1
            /\ op \notin SameTask(o) =>
                  Cardinality(ActiveOf(SameTask(o)))' = Cardinality(ActiveOf(SameTask(o)))
            /\ Cardinality(ActiveOf(SameTask(o))) \in Nat /\ Cardinality(ActiveOf(SameTask(o)))' \in Nat
        BY <1>1, <1>3, <3>1, <4>1, OneMoreActive, ZenonT(30)
      <4>3. CASE op \notin SameTask(o)
        BY <4>2, <4>3 DEF CapacityHeld
      <4>4. CASE op \in SameTask(o)
        <5>1. op \in Keyed /\ SameTask(o) = SameTask(op)
          BY <4>4 DEF SameTask
        <5>2. Cardinality(ActiveOf(SameTask(o))) < MaxPerTask
          BY <3>1, <5>1, Zenon
        <5> QED BY <4>2, <5>2 DEF Configured
      <4> QED BY <4>3, <4>4
    <3> QED BY <3>2, <3>3, Zenon DEF CapacityHeld, Receipts, PersistRecord
  <2> QED BY <2>2, <2>3, <2>4, <2>5, <2>6, <2>8, <2>9, Zenon DEF Answers
<1>4. CASE folder' = [folder EXCEPT ![op] = FALSE] /\ Respond(c, "error") /\ UNCHANGED record
  <2>1. "error" \in Replies
    BY Zenon DEF Replies
  <2>2. Took(c, "done", "error") /\ Gated' /\ Holding'
    BY <1>1, <1>4, <2>1, Replied
  <2>3. Typed'
    BY <1>4, <2>2 DEF Typed, Took, PersistRecord
  <2>4. Operations'
    BY <1>1, <1>2, <1>4 DEF Operations, Typed, Underway, PersistRecord
  <2>5. Answered(c)'
    BY <2>2, Zenon DEF Took, Answered, Own
  <2>6. \A d \in Clients \ {c} : Answered(d)'
    BY <1>4, <2>2, AnswersKept, Zenon DEF Took, PersistRecord
  <2>7. CapacityHeld'
    BY <1>4, SameCapacity, Zenon DEF PersistRecord
  <2> QED BY <2>2, <2>3, <2>4, <2>5, <2>6, <2>7 DEF Answers
<1> QED BY <1>3, <1>4, Zenon DEF PersistRecord

\* A runner is spawned for an operation that had none, or the job is recorded as failed.
LEMMA SpawnStep ==
    ASSUME Configured, IInv, NEW c \in Clients, Spawn(c)
    PROVE  IInv'
<1> USE DEF IInv
<1> DEFINE op == call[c].op
<1>1. op \in Ops /\ call[c].at = "recorded" /\ call[c].at \in Busy /\ call[c].print \in Prints
  BY Zenon DEF Spawn, Typed, Busy, Early
<1>2. spawns[op] = 0 /\ (op \in Keyed => bound[op] = call[c].print)
  BY <1>1 DEF Holding, Underway
<1>3. CASE /\ spawns' = [spawns EXCEPT ![op] = @ + 1]
           /\ launched' = [launched EXCEPT ![op] = call[c].print]
           /\ Advance(c, "spawned") /\ UNCHANGED <<folder, record>>
  <2>1. "spawned" \in Busy
    BY Zenon DEF Busy, Late
  <2>2. Took(c, "spawned", call[c].reply) /\ Gated' /\ (Underway(c, op)' => Holding')
    BY <1>1, <1>3, <2>1, Advanced
  <2>3. /\ spawns' \in [Ops -> Nat] /\ spawns'[op] = 1 /\ \A o \in Ops \ {op} : spawns'[o] = spawns[o]
        /\ launched' \in [Ops -> Prints \cup {NoPrint}] /\ launched'[op] = call[c].print
        /\ \A o \in Ops \ {op} : launched'[o] = launched[o]
    BY <1>1, <1>2, <1>3 DEF Typed
  <2>4. Typed'
    BY <1>3, <2>2, <2>3, Zenon DEF Typed, Took, Spawn
  <2>5. Operations'
    <3>1. SUFFICES ASSUME NEW o \in Ops
                   PROVE  /\ spawns'[o] <= 1 /\ (confirmed[o] => spawns'[o] = 1)
                          /\ o \in Keyed /\ launched'[o] # NoPrint => bound[o] = launched'[o]
                          /\ o \in Keyed /\ bound[o] = NoPrint =>
                                spawns'[o] = 0 /\ record[o] = "absent" /\ ~folder[o]
      BY <1>3 DEF Operations, Spawn
    <3>2. CASE o = op
      BY <1>1, <1>2, <2>3, <3>2 DEF Configured
    <3>3. CASE o # op
      BY <2>3, <3>3 DEF Operations
    <3> QED BY <3>2, <3>3, Zenon
  <2>6. Underway(c, op)'
    BY <1>2, <2>2, <2>3, ZenonT(30) DEF Underway, Took, Spawn, Late, Busy, Early
  <2>7. Answered(c)'
    BY <2>2 DEF Took, Answered
  <2>8. \A o \in Ops : spawns[o] = 1 /\ record[o] = "absent" => spawns'[o] = 1 /\ record'[o] = "absent"
    BY <1>2, <1>3, <2>3
  <2>9. \A d \in Clients \ {c} : Answered(d)'
    BY <2>2, <2>8, AnswersKept DEF Took, Spawn
  <2>10. CapacityHeld'
    BY <1>3, SameCapacity DEF Spawn
  <2> QED BY <2>2, <2>4, <2>5, <2>6, <2>7, <2>9, <2>10 DEF Answers
<1>4. CASE /\ record' = [record EXCEPT ![op] = IF indexed /\ @ # "active" THEN @ ELSE "terminal"]
           /\ folder' = [folder EXCEPT ![op] = indexed => @]
           /\ Respond(c, "error") /\ UNCHANGED <<spawns, launched>>
  <2>1. "error" \in Replies
    BY Zenon DEF Replies
  <2>2. Took(c, "done", "error") /\ Gated' /\ Holding'
    BY <1>1, <1>4, <2>1, Replied
  <2>3. /\ record' \in [Ops -> Records] /\ (record'[op] = record[op] \/ record'[op] = "terminal")
        /\ \A o \in Ops \ {op} : record'[o] = record[o]
    BY <1>1, <1>4 DEF Typed, Records
  <2>4. /\ folder' \in [Ops -> BOOLEAN] /\ \A o \in Ops \ {op} : folder'[o] = folder[o]
        /\ folder[op] => folder'[op]
    BY <1>1, <1>4, Zenon DEF Typed
  <2>5. record'[op] \in {"active", "terminal"} => folder'[op]
    <3>1. CASE ~indexed
      BY <1>1, <1>4, <3>1, Zenon DEF Typed
    <3>2. CASE indexed /\ record[op] = "active"
      BY <1>1, <2>4, <3>2 DEF Operations
    <3>3. CASE indexed /\ record[op] # "active"
      <4>1. record'[op] = record[op]
        BY <1>1, <1>4, <3>3 DEF Typed
      <4> QED BY <1>1, <2>4, <4>1 DEF Operations
    <3> QED BY <3>1, <3>2, <3>3
  <2>6. Typed'
    BY <1>4, <2>2, <2>3, <2>4 DEF Typed, Took, Spawn
  <2>7. Operations'
    <3>1. SUFFICES ASSUME NEW o \in Ops
                   PROVE  /\ record'[o] \in {"active", "terminal"} => folder'[o]
                          /\ o \in Keyed /\ bound[o] = NoPrint =>
                                spawns[o] = 0 /\ record'[o] = "absent" /\ ~folder'[o]
      BY <1>4, Zenon DEF Operations, Spawn
    <3>2. CASE o = op
      BY <1>1, <1>2, <2>5, <3>2 DEF Configured
    <3>3. CASE o # op
      BY <2>3, <2>4, <3>3 DEF Operations
    <3> QED BY <3>2, <3>3
  <2>8. Answered(c)'
    BY <2>2, Zenon DEF Took, Answered, Own
  <2>9. \A o \in Ops : spawns[o] = 1 /\ record[o] = "absent" => spawns'[o] = 1 /\ record'[o] = "absent"
    BY <1>2, <1>4, <2>3
  <2>10. \A d \in Clients \ {c} : Answered(d)'
    BY <2>2, <2>9, AnswersKept DEF Took, Spawn
  <2>11. CapacityHeld'
    BY <1>1, <2>3, SameCapacity DEF Spawn
  <2> QED BY <2>2, <2>6, <2>7, <2>8, <2>10, <2>11, Zenon DEF Answers
<1> QED BY <1>3, <1>4 DEF Spawn

\* The identity of a spawned runner is published, or its ownership reported unconfirmed.
LEMMA PublishIdentityStep ==
    ASSUME Configured, IInv, NEW c \in Clients, PublishIdentity(c)
    PROVE  IInv'
<1> USE DEF IInv
<1> DEFINE op == call[c].op
<1>1. op \in Ops /\ call[c].at = "spawned" /\ call[c].at \in Busy /\ call[c].print \in Prints
  BY Zenon DEF PublishIdentity, Typed, Busy, Late
<1>2. spawns[op] = 1 /\ (op \in Keyed => bound[op] = call[c].print)
  BY <1>1, Zenon DEF Holding, Underway, Late, Busy, Early
<1>3. CapacityHeld'
  BY SameCapacity, Zenon DEF PublishIdentity
<1>4. CASE folder' = [folder EXCEPT ![op] = TRUE] /\ Advance(c, "published")
  <2>1. "published" \in Busy
    BY Zenon DEF Busy, Late
  <2>2. Took(c, "published", call[c].reply) /\ Gated' /\ (Underway(c, op)' => Holding')
    BY <1>1, <1>4, <2>1, Advanced, Zenon
  <2>3. Typed'
    BY <1>4, <2>2, Zenon DEF Typed, Took, PublishIdentity
  <2>4. Operations'
    BY <1>1, <1>2, <1>4 DEF Operations, Typed, PublishIdentity, Configured
  <2>5. Underway(c, op)'
    BY <1>2, <2>2, ZenonT(30) DEF Underway, Took, PublishIdentity, Late, Busy, Early
  <2>6. Answered(c)'
    BY <2>2, Zenon DEF Took, Answered
  <2>7. \A d \in Clients \ {c} : Answered(d)'
    BY <2>2, AnswersKept, Zenon DEF Took, PublishIdentity
  <2> QED BY <1>3, <2>2, <2>3, <2>4, <2>5, <2>6, <2>7, Zenon DEF Answers
<1>5. CASE Respond(c, "unconfirmed") /\ UNCHANGED <<identity, folder>>
  <2>1. "unconfirmed" \in Replies
    BY Zenon DEF Replies
  <2>2. Took(c, "done", "unconfirmed") /\ Gated' /\ Holding'
    BY <1>1, <1>5, <2>1, Replied, Zenon
  <2>3. Typed'
    BY <1>5, <2>2, Zenon DEF Typed, Took, PublishIdentity
  <2>4. Operations'
    BY <1>5, Zenon DEF Operations, PublishIdentity
  <2>5. Answered(c)'
    BY <2>2, Zenon DEF Took, Answered, Own
  <2>6. \A d \in Clients \ {c} : Answered(d)'
    BY <2>2, AnswersKept, Zenon DEF Took, PublishIdentity
  <2> QED BY <1>3, <2>2, <2>3, <2>4, <2>5, <2>6, Zenon DEF Answers
<1> QED BY <1>4, <1>5, Zenon DEF PublishIdentity

\* The receipt of a spawned operation is confirmed, or its rewriting fails.
LEMMA ConfirmStep ==
    ASSUME Configured, IInv, NEW c \in Clients, Confirm(c)
    PROVE  IInv'
<1> USE DEF IInv
<1> DEFINE op == call[c].op
<1>1. op \in Ops /\ call[c].at = "published" /\ call[c].at \in Busy /\ call[c].print \in Prints
  BY Zenon DEF Confirm, Typed, Busy, Late
<1>2. spawns[op] = 1 /\ (op \in Keyed => bound[op] = call[c].print)
  BY <1>1, ZenonT(30) DEF Holding, Underway, Late, Busy, Early
<1>3. PICK answer \in {"accepted", "error"} : Respond(c, answer)
  BY Zenon DEF Confirm
<1>4. answer \in Replies /\ answer # "expired" /\ answer # "exists"
  BY Zenon DEF Replies, Own
<1>5. Took(c, "done", answer) /\ Gated' /\ Holding'
  BY <1>1, <1>3, <1>4, Replied, Zenon
<1>6. /\ confirmed' \in [Ops -> BOOLEAN]
      /\ \A o \in Ops : confirmed'[o] => confirmed[o] \/ o = op
  BY <1>1, ZenonT(30) DEF Confirm, Typed
<1>7. Typed'
  BY <1>5, <1>6, Zenon DEF Typed, Took, Confirm
<1>8. Operations'
  BY <1>2, <1>6, Zenon DEF Operations, Confirm
<1>9. Answered(c)'
  BY <1>2, <1>4, <1>5, Zenon DEF Took, Answered, Confirm
<1>10. \A d \in Clients \ {c} : Answered(d)'
  BY <1>5, AnswersKept, Zenon DEF Took, Confirm
<1>11. CapacityHeld'
  BY SameCapacity, Zenon DEF Confirm
<1> QED BY <1>5, <1>7, <1>8, <1>9, <1>10, <1>11, Zenon DEF Answers

\* A submitter that dies leaves what it had stored and lets go of the lock.
LEMMA CrashStep ==
    ASSUME Configured, IInv, NEW c \in Clients, Crash(c)
    PROVE  IInv'
<1> USE DEF IInv
<1>1. call[c].at \in Busy
  BY Zenon DEF Crash, Typed
<1>2. (CHOOSE op \in Ops : TRUE) \in Ops
  BY Zenon DEF Configured
<1>3. Idle \in [at : {"idle", "done"} \cup Busy, op : Ops, print : Prints \cup {NoPrint}, reply : Replies]
      /\ Idle.at = "idle"
  BY <1>2, Zenon DEF Idle, Replies
<1>4. call'[c] = Idle /\ \A d \in Clients \ {c} : call'[d] = call[d]
  BY Zenon DEF Crash, Typed
<1>5. Typed'
  BY <1>3, <1>4, Zenon DEF Crash, Typed
<1>6. \A d \in Clients : call'[d].at \in {"idle", "done"}
  BY <1>1, <1>3, <1>4, Alone, Zenon
<1>7. Gated'
  BY <1>6, Zenon DEF Gated, Crash, Configured, Busy, Early, Late
<1>8. Holding'
  BY <1>6, ZenonT(30) DEF Holding, Underway, Busy, Early, Late
<1>9. Operations'
  BY Zenon DEF Operations, Crash
<1>10. Answered(c)'
  BY <1>3, <1>4, Zenon DEF Answered
<1>11. \A d \in Clients \ {c} : Answered(d)'
  BY <1>4, AnswersKept, Zenon DEF Crash
<1>12. CapacityHeld'
  BY SameCapacity, Zenon DEF Crash
<1> QED BY <1>5, <1>7, <1>8, <1>9, <1>10, <1>11, <1>12, Zenon DEF Answers

\* A job that settles or is pruned gives its room back, and nothing of it is started again.
LEMMA LifeStep ==
    ASSUME Configured, IInv, NEW op \in Ops, Settle(op) \/ Prune(op)
    PROVE  IInv'
<1> USE DEF IInv
<1>1. /\ record[op] \in {"active", "terminal"} /\ folder[op] /\ record'[op] # "active"
      /\ record' \in [Ops -> Records] /\ folder' \in [Ops -> BOOLEAN]
      /\ \A o \in Ops \ {op} : record'[o] = record[o] /\ folder'[o] = folder[o]
      /\ record'[op] = "terminal" => folder'[op]
  <2>1. CASE Settle(op)
    BY <2>1, Zenon DEF Settle, Operations, Typed, Records
  <2>2. CASE Prune(op)
    BY <2>2, Zenon DEF Prune, Operations, Typed, Records
  <2> QED BY <2>1, <2>2, Zenon
<1>2. UNCHANGED <<indexed, bound, confirmed, launched, spawns, identity, gate, call, calls>>
  BY Zenon DEF Settle, Prune
<1>3. Typed'
  BY <1>1, <1>2, Zenon DEF Typed
<1>4. Gated'
  BY <1>2, Zenon DEF Gated
<1>5. Operations'
  <2>1. op \in Keyed => bound[op] # NoPrint
    BY <1>1, Zenon DEF Operations
  <2>2. SUFFICES ASSUME NEW o \in Ops
                 PROVE  /\ record'[o] \in {"active", "terminal"} => folder'[o]
                        /\ o \in Keyed /\ bound[o] = NoPrint =>
                              spawns[o] = 0 /\ record'[o] = "absent" /\ ~folder'[o]
    BY <1>2, Zenon DEF Operations
  <2> QED BY <1>1, <2>1, ZenonT(30) DEF Operations
<1>6. \A o \in Ops : record'[o] = "active" => record[o] = "active"
  BY <1>1, Zenon
<1>7. Holding'
  <2>1. SUFFICES ASSUME NEW c \in Clients PROVE Underway(c, call[c].op)'
    BY Zenon DEF Holding
  <2> DEFINE mine == call[c].op
  <2>2. Underway(c, mine) /\ mine \in Ops
    BY Zenon DEF Holding, Typed
  <2>3. /\ Cardinality(ActiveOf(Ops))' <= Cardinality(ActiveOf(Ops))
        /\ Cardinality(ActiveOf(Ops)) \in Nat /\ Cardinality(ActiveOf(Ops))' \in Nat
    <3>1. Ops \in SUBSET Ops
      BY Zenon
    <3> QED BY <1>6, <3>1, FewerActive, Zenon
  <2>4. /\ Cardinality(ActiveOf(SameTask(mine)))' <= Cardinality(ActiveOf(SameTask(mine)))
        /\ Cardinality(ActiveOf(SameTask(mine))) \in Nat /\ Cardinality(ActiveOf(SameTask(mine)))' \in Nat
    <3>1. SameTask(mine) \in SUBSET Ops
      BY Zenon DEF SameTask, Configured
    <3>2. SameTask(mine)' = SameTask(mine)
      BY <1>2, Zenon DEF SameTask
    <3> QED BY <1>6, <3>1, <3>2, FewerActive, Zenon
  <2>5. record[mine] = "absent" => record'[mine] = "absent" /\ folder'[mine] = folder[mine]
    BY <1>1, <2>2, Zenon
  <2>6. call[c].at \in {"receipted", "created"} =>
            /\ Cardinality(ActiveOf(Ops))' < MaxActive
            /\ mine \in Keyed => Cardinality(ActiveOf(SameTask(mine)))' < MaxPerTask
    <3>1. call[c].at \in {"receipted", "created"} =>
              /\ Cardinality(ActiveOf(Ops)) < MaxActive
              /\ mine \in Keyed => Cardinality(ActiveOf(SameTask(mine))) < MaxPerTask
      BY <2>2, ZenonT(30) DEF Underway
    <3> QED BY <2>3, <2>4, <3>1 DEF Configured
  <2>7. call'[c] = call[c] /\ call'[c].op = mine /\ spawns' = spawns /\ bound' = bound
    BY <1>2, Zenon
  <2> QED BY <2>2, <2>5, <2>6, <2>7, ZenonT(30) DEF Underway
<1>8. \A o \in Ops : spawns[o] = 1 /\ record[o] = "absent" => spawns'[o] = 1 /\ record'[o] = "absent"
  BY <1>1, <1>2, ZenonT(30)
<1>9. Answers'
  BY <1>2, <1>8, AnswersKept, Zenon DEF Answers
<1>10. CapacityHeld'
  BY <1>2, <1>6, SameCapacity, Zenon
<1> QED BY <1>3, <1>4, <1>5, <1>7, <1>9, <1>10, Zenon

\* Every behaviour starts with nothing submitted.
LEMMA InitSubmission ==
    ASSUME Configured, SubmissionInit
    PROVE  IInv
<1>1. (CHOOSE op \in Ops : TRUE) \in Ops
  BY Zenon DEF Configured
<1>2. Idle \in [at : {"idle", "done"} \cup Busy, op : Ops, print : Prints \cup {NoPrint}, reply : Replies]
      /\ Idle.at = "idle"
  BY <1>1, Zenon DEF Idle, Replies
<1>3. Typed
  BY <1>2, Zenon DEF SubmissionInit, Typed, Records
<1>4. Gated
  BY <1>2, Zenon DEF SubmissionInit, Gated, Configured, Busy, Early, Late
<1>5. Operations
  BY DEF SubmissionInit, Operations
<1>6. Holding /\ Answers
  BY <1>2, Zenon DEF SubmissionInit, Holding, Underway, Answers, Answered, Busy, Early, Late
<1>7. CapacityHeld
  <2>1. \A S \in SUBSET Ops : ActiveOf(S) = {}
    BY Zenon DEF SubmissionInit, ActiveOf
  <2>2. \A op \in Keyed : SameTask(op) \in SUBSET Ops
    BY Zenon DEF SameTask, Configured
  <2>3. Receipts = {}
    BY Zenon DEF SubmissionInit, Receipts, Configured
  <2>4. Cardinality({}) = 0
    BY FS_EmptySet, Zenon
  <2>5. Cardinality(ActiveOf(Ops)) = 0 /\ Cardinality(Receipts) = 0
    BY <2>1, <2>3, <2>4, Zenon
  <2>6. \A op \in Keyed : Cardinality(ActiveOf(SameTask(op))) = 0
    BY <2>1, <2>2, <2>4, Zenon
  <2> QED BY <2>5, <2>6 DEF CapacityHeld, Configured
<1> QED BY <1>3, <1>4, <1>5, <1>6, <1>7, Zenon DEF IInv

\* However often clients retry an operation, wherever their processes die and whichever
\* step fails, submit starts one workload for it, the one its receipt names, within the
\* capacities, and tells nobody that the operation of another request is its own.
THEOREM SubmittedOnce ==
    ASSUME Configured
    PROVE  SubmissionSpec => []LaunchedOnce
<1>1. SubmissionInit => IInv
  BY InitSubmission, Zenon
<1>2. IInv /\ [SubmissionNext]_submissionVars => IInv'
  <2>1. SUFFICES ASSUME IInv, [SubmissionNext]_submissionVars PROVE IInv'
    BY Zenon
  <2>2. CASE UNCHANGED submissionVars
    <3>1. Typed' /\ Gated' /\ Operations'
      BY <2>1, <2>2, Zenon DEF IInv, Typed, Gated, Operations, submissionVars
    <3>2. Holding' /\ Answers'
      BY <2>1, <2>2, ZenonT(30) DEF IInv, Holding, Underway, Answers, Answered, submissionVars, ActiveOf, SameTask
    <3>3. CapacityHeld'
      BY <2>1, <2>2, ZenonT(30) DEF IInv, CapacityHeld, Receipts, ActiveOf, SameTask, submissionVars
    <3> QED BY <3>1, <3>2, <3>3, Zenon DEF IInv
  <2>3. ASSUME NEW c \in Clients,
               \/ Enter(c) \/ Replay(c) \/ Admit(c) \/ CreateFolder(c) \/ PersistRecord(c)
               \/ Spawn(c) \/ PublishIdentity(c) \/ Confirm(c) \/ Crash(c)
        PROVE  IInv'
    BY <2>1, <2>3, EnterStep, ReplayStep, AdmitStep, CreateFolderStep, PersistRecordStep,
       SpawnStep, PublishIdentityStep, ConfirmStep, CrashStep, Zenon
  <2>4. ASSUME NEW op \in Ops, Settle(op) \/ Prune(op)
        PROVE  IInv'
    BY <2>1, <2>4, LifeStep, Zenon
  <2> QED BY <2>1, <2>2, <2>3, <2>4, Zenon DEF SubmissionNext
<1>3. IInv => LaunchedOnce
  BY Promised, Zenon
<1> QED BY <1>1, <1>2, <1>3, PTL DEF SubmissionSpec

-----------------------------------------------------------------------------
\* The browser's connections.

FrameRecords == [first : Nat, count : Nat, got : Nat, drain : BOOLEAN]
Events == [kind : {"event"}, request : Requests]
ReplyMessages == [kind : {"reply"}, id : Nat]
Asked == [id : Nat, ack : Requests \cup {"command"}]

WireType ==
    /\ stack \in Seq(FrameRecords) /\ sequence \in Nat /\ channel \in Seq(Events \cup ReplyMessages)
    /\ pending \subseteq Asked /\ fresh \subseteq Requests /\ intercepted \in Seq(Requests)
    /\ draining \in BOOLEAN /\ connected \in BOOLEAN /\ processed \in Nat
    /\ acked \in [Requests -> 0 .. 1]

\* The ids of a batch whose replies are not collected.
Left(f) == f.first + f.got .. f.first + f.count - 1

\* A call reads for one command, and above it at most one batch of acknowledgements reads.
Framed(frames, ids) ==
    /\ frames \in Seq(FrameRecords) /\ Len(frames) <= 2
    /\ Len(frames) = 0 => ids = {}
    /\ Len(frames) >= 1 => frames[1].count = 1 /\ frames[1].got = 0 /\ frames[1].drain = FALSE
    /\ Len(frames) = 1 => ids \subseteq Left(frames[1])
    /\ Len(frames) = 2 => /\ frames[2].drain = TRUE /\ frames[2].got < frames[2].count
                          /\ frames[2].count <= BatchLimit
                          /\ ids \subseteq Left(frames[1]) \cup Left(frames[2])

\* A request is in one place only on its way: not made, announced, intercepted, being
\* acknowledged or acknowledged.
Announced(messages, r) == \E i \in 1 .. Len(messages) : messages[i] = [kind |-> "event", request |-> r]
Waits(waiting, r) == \E i \in 1 .. Len(waiting) : waiting[i] = r
Acknowledging(commands, r) == \E c \in commands : c.ack = r
Distinct(messages, waiting, commands) ==
    /\ \A i, j \in 1 .. Len(messages) : messages[i] = messages[j] /\ messages[i].kind = "event" => i = j
    /\ \A i, j \in 1 .. Len(waiting) : waiting[i] = waiting[j] => i = j
    /\ \A c, e \in commands : c.ack = e.ack /\ c.ack \in Requests => c = e
OnePlace(new, messages, waiting, commands, got) ==
    /\ Distinct(messages, waiting, commands)
    /\ \A r \in Requests :
          /\ r \in new => ~Announced(messages, r)
          /\ r \in new \/ Announced(messages, r) => ~Waits(waiting, r)
          /\ r \in new \/ Announced(messages, r) \/ Waits(waiting, r) => ~Acknowledging(commands, r)
          /\ r \in new \/ Announced(messages, r) \/ Waits(waiting, r) \/ Acknowledging(commands, r) => got[r] = 0

WireInv ==
    /\ WireType /\ Framed(stack, active) /\ replies \subseteq active
    /\ draining <=> Len(stack) = 2
    /\ connected /\ Len(stack) < 2 => intercepted = <<>>
    /\ ~connected => stack = <<>>
    /\ OnePlace(fresh, channel, intercepted, pending, acked)

\* The first message is taken off the channel.
LEMMA MessageTaken ==
    ASSUME NEW messages \in Seq(Events \cup ReplyMessages), messages # <<>>,
           NEW new, NEW waiting, NEW commands, NEW got,
           OnePlace(new, messages, waiting, commands, got)
    PROVE  /\ Tail(messages) \in Seq(Events \cup ReplyMessages)
           /\ OnePlace(new, Tail(messages), waiting, commands, got)
           /\ \A r \in Requests : Head(messages) = [kind |-> "event", request |-> r] =>
                 /\ r \notin new /\ ~Announced(Tail(messages), r) /\ ~Waits(waiting, r)
                 /\ ~Acknowledging(commands, r) /\ got[r] = 0
<1> DEFINE rest == Tail(messages)
<1>1. /\ Len(messages) \in Nat /\ Len(messages) >= 1 /\ rest \in Seq(Events \cup ReplyMessages)
      /\ Len(rest) = Len(messages) - 1 /\ Head(messages) = messages[1]
      /\ \A i \in 1 .. Len(rest) : rest[i] = messages[i + 1]
  OBVIOUS
<1> HIDE DEF rest
<1>2. \A r : Announced(rest, r) => Announced(messages, r)
  BY <1>1 DEF Announced
<1>3. Distinct(rest, waiting, commands)
  <2>1. Distinct(messages, waiting, commands)
    BY Zenon DEF OnePlace
  <2>2. \A i, j \in 1 .. Len(rest) : rest[i] = rest[j] /\ rest[i].kind = "event" => i = j
    <3>1. SUFFICES ASSUME NEW i \in 1 .. Len(rest), NEW j \in 1 .. Len(rest), rest[i] = rest[j], rest[i].kind = "event"
                   PROVE  i = j
      BY Zenon
    <3>2. i + 1 \in 1 .. Len(messages) /\ j + 1 \in 1 .. Len(messages)
      BY <1>1
    <3>3. messages[i + 1] = messages[j + 1] /\ messages[i + 1].kind = "event"
      BY <1>1, <3>1, Zenon
    <3>4. i + 1 = j + 1
      BY <2>1, <3>2, <3>3, Zenon DEF Distinct
    <3> QED BY <3>4
  <2> QED BY <2>1, <2>2, Zenon DEF Distinct
<1>4. OnePlace(new, rest, waiting, commands, got)
  BY <1>2, <1>3, Zenon DEF OnePlace
<1>5. ASSUME NEW r \in Requests, Head(messages) = [kind |-> "event", request |-> r]
      PROVE  /\ r \notin new /\ ~Announced(rest, r) /\ ~Waits(waiting, r)
             /\ ~Acknowledging(commands, r) /\ got[r] = 0
  <2>1. 1 \in 1 .. Len(messages) /\ messages[1] = [kind |-> "event", request |-> r]
    BY <1>1, <1>5
  <2>2. Announced(messages, r)
    BY <2>1, Zenon DEF Announced
  <2>3. ~Announced(rest, r)
    <3>1. SUFFICES ASSUME NEW i \in 1 .. Len(rest), rest[i] = [kind |-> "event", request |-> r] PROVE FALSE
      BY Zenon DEF Announced
    <3>2. i + 1 \in 1 .. Len(messages) /\ messages[i + 1] = messages[1] /\ i + 1 # 1
      BY <1>1, <2>1, <3>1
    <3>3. messages[i + 1].kind = "event"
      BY <1>1, <3>1
    <3> QED BY <2>1, <3>2, <3>3, Zenon DEF OnePlace, Distinct
  <2> QED BY <2>2, <2>3, Zenon DEF OnePlace
<1> QED BY <1>1, <1>4, <1>5, Zenon DEF rest

\* A request whose event was taken is intercepted.
LEMMA RequestQueued ==
    ASSUME NEW new, NEW messages, NEW waiting \in Seq(Requests), NEW commands, NEW got, NEW q \in Requests,
           OnePlace(new, messages, waiting, commands, got),
           q \notin new, ~Announced(messages, q), ~Waits(waiting, q), ~Acknowledging(commands, q), got[q] = 0
    PROVE  /\ Append(waiting, q) \in Seq(Requests) /\ Append(waiting, q) # <<>>
           /\ OnePlace(new, messages, Append(waiting, q), commands, got)
<1> DEFINE more == Append(waiting, q)
<1>1. /\ Len(waiting) \in Nat /\ more \in Seq(Requests) /\ Len(more) = Len(waiting) + 1 /\ more # <<>>
      /\ more[Len(waiting) + 1] = q /\ \A i \in 1 .. Len(waiting) : more[i] = waiting[i]
  OBVIOUS
<1> HIDE DEF more
<1>2. \A i \in 1 .. Len(more) : i \in 1 .. Len(waiting) \/ i = Len(waiting) + 1
  BY <1>1
<1>3. \A r : Waits(more, r) => Waits(waiting, r) \/ r = q
  BY <1>1, <1>2, Zenon DEF Waits
<1>4. \A i, j \in 1 .. Len(more) : more[i] = more[j] => i = j
  <2>1. SUFFICES ASSUME NEW i \in 1 .. Len(more), NEW j \in 1 .. Len(more), more[i] = more[j] PROVE i = j
    BY Zenon
  <2>2. \A k \in 1 .. Len(waiting) : waiting[k] # q
    BY Zenon DEF Waits
  <2>3. \A k, l \in 1 .. Len(waiting) : waiting[k] = waiting[l] => k = l
    BY Zenon DEF OnePlace, Distinct
  <2> QED BY <1>1, <1>2, <2>1, <2>2, <2>3, Zenon
<1>5. OnePlace(new, messages, more, commands, got)
  BY <1>3, <1>4, Zenon DEF OnePlace, Distinct
<1> QED BY <1>1, <1>5, Zenon DEF more

\* The first requests that wait are acknowledged, each by a command of its own.
Drained(new, messages, waiting, commands, got, seq, take, acks, more, left) ==
    /\ waiting \in Seq(Requests) /\ commands \in SUBSET Asked /\ seq \in Nat /\ take \in 1 .. Len(waiting)
    /\ acks = SubSeq(waiting, 1, take)
    /\ OnePlace(new, messages, waiting, commands, got)
    /\ more = commands \cup {[id |-> i, ack |-> acks[i - seq]] : i \in seq + 1 .. seq + take}
    /\ left = SubSeq(waiting, take + 1, Len(waiting))

\* A drain leaves every request in one place.
LEMMA RequestsDrained ==
    ASSUME NEW new, NEW messages, NEW waiting, NEW commands, NEW got, NEW seq, NEW take,
           NEW acks, NEW more, NEW left,
           Drained(new, messages, waiting, commands, got, seq, take, acks, more, left)
    PROVE  more \in SUBSET Asked /\ left \in Seq(Requests) /\ OnePlace(new, messages, left, more, got)
<1>0. /\ waiting \in Seq(Requests) /\ commands \in SUBSET Asked /\ seq \in Nat /\ take \in 1 .. Len(waiting)
      /\ acks = SubSeq(waiting, 1, take)
      /\ OnePlace(new, messages, waiting, commands, got)
      /\ more = commands \cup {[id |-> i, ack |-> acks[i - seq]] : i \in seq + 1 .. seq + take}
      /\ left = SubSeq(waiting, take + 1, Len(waiting))
  BY Zenon DEF Drained
<1> USE <1>0
<1>1. /\ Len(waiting) \in Nat /\ left \in Seq(Requests) /\ Len(left) = Len(waiting) - take
      /\ \A i \in 1 .. Len(left) : left[i] = waiting[i + take]
      /\ \A i \in 1 .. take : acks[i] = waiting[i] /\ waiting[i] \in Requests
  OBVIOUS
<1>2. ASSUME NEW c \in more, c \notin commands
      PROVE  \E i \in 1 .. take : c = [id |-> i + seq, ack |-> waiting[i]]
  <2>1. PICK k \in seq + 1 .. seq + take : c = [id |-> k, ack |-> acks[k - seq]]
    BY <1>2, Zenon
  <2>2. k - seq \in 1 .. take /\ k = (k - seq) + seq
    BY <2>1
  <2> QED BY <1>1, <2>1, <2>2, Zenon
<1>3. more \in SUBSET Asked
  BY <1>1, <1>2 DEF Asked
<1>4. ASSUME NEW r, Waits(left, r) PROVE Waits(waiting, r) /\ ~\E i \in 1 .. take : waiting[i] = r
  <2>1. PICK i \in 1 .. Len(left) : left[i] = r
    BY <1>4, Zenon DEF Waits
  <2>2. i + take \in 1 .. Len(waiting) /\ waiting[i + take] = r /\ \A k \in 1 .. take : k # i + take /\ k \in 1 .. Len(waiting)
    BY <1>1, <2>1
  <2> QED BY <2>2, Zenon DEF Waits, OnePlace, Distinct
<1>5. ASSUME NEW r, Acknowledging(more, r) PROVE Acknowledging(commands, r) \/ \E i \in 1 .. take : waiting[i] = r
  <2>1. PICK c \in more : c.ack = r
    BY <1>5, Zenon DEF Acknowledging
  <2>2. CASE c \in commands
    BY <2>1, <2>2, Zenon DEF Acknowledging
  <2>3. CASE c \notin commands
    BY <1>2, <2>1, <2>3
  <2> QED BY <2>2, <2>3, Zenon
<1>6. \A i \in 1 .. take : Waits(waiting, waiting[i])
  <2>1. \A i \in 1 .. take : i \in 1 .. Len(waiting)
    BY <1>1
  <2> QED BY <2>1, Zenon DEF Waits
<1>7. Distinct(messages, left, more)
  <2>1. \A i, j \in 1 .. Len(left) : left[i] = left[j] => i = j
    <3>1. SUFFICES ASSUME NEW i \in 1 .. Len(left), NEW j \in 1 .. Len(left), left[i] = left[j] PROVE i = j
      BY Zenon
    <3>2. i + take \in 1 .. Len(waiting) /\ j + take \in 1 .. Len(waiting) /\ waiting[i + take] = waiting[j + take]
      BY <1>1, <3>1
    <3>3. i + take = j + take
      BY <3>2, Zenon DEF OnePlace, Distinct
    <3> QED BY <3>3
  <2>2. \A c, e \in more : c.ack = e.ack /\ c.ack \in Requests => c = e
    <3>1. SUFFICES ASSUME NEW c \in more, NEW e \in more, c.ack = e.ack, c.ack \in Requests PROVE c = e
      BY Zenon
    <3>2. CASE c \in commands /\ e \in commands
      BY <3>1, <3>2, Zenon DEF OnePlace, Distinct
    <3>3. ASSUME NEW d \in more, d \notin commands, d.ack \in Requests PROVE ~Acknowledging(commands, d.ack)
      <4>1. PICK i \in 1 .. take : d = [id |-> i + seq, ack |-> waiting[i]]
        BY <1>2, <3>3, Zenon
      <4>2. d.ack = waiting[i]
        BY <4>1, Zenon
      <4> QED BY <1>6, <3>3, <4>2, Zenon DEF OnePlace
    <3>4. CASE c \notin commands /\ e \notin commands
      <4>1. PICK i \in 1 .. take : c = [id |-> i + seq, ack |-> waiting[i]]
        BY <1>2, <3>4, Zenon
      <4>2. PICK j \in 1 .. take : e = [id |-> j + seq, ack |-> waiting[j]]
        BY <1>2, <3>4, Zenon
      <4>3. waiting[i] = waiting[j] /\ i \in 1 .. Len(waiting) /\ j \in 1 .. Len(waiting)
        BY <1>1, <3>1, <4>1, <4>2
      <4>4. i = j
        BY <4>3, Zenon DEF OnePlace, Distinct
      <4> QED BY <4>1, <4>2, <4>4, Zenon
    <3> QED BY <3>1, <3>2, <3>3, <3>4, Zenon DEF Acknowledging
  <2> QED BY <2>1, <2>2, Zenon DEF OnePlace, Distinct
<1>8. OnePlace(new, messages, left, more, got)
  <2>1. SUFFICES ASSUME NEW r \in Requests
                 PROVE  /\ r \in new => ~Announced(messages, r)
                        /\ r \in new \/ Announced(messages, r) => ~Waits(left, r)
                        /\ r \in new \/ Announced(messages, r) \/ Waits(left, r) => ~Acknowledging(more, r)
                        /\ r \in new \/ Announced(messages, r) \/ Waits(left, r) \/ Acknowledging(more, r) => got[r] = 0
    BY <1>7, Zenon DEF OnePlace
  <2>2. Waits(left, r) => Waits(waiting, r) /\ ~\E i \in 1 .. take : waiting[i] = r
    BY <1>4, Zenon
  <2>3. Acknowledging(more, r) => Acknowledging(commands, r) \/ \E i \in 1 .. take : waiting[i] = r
    BY <1>5, Zenon
  <2>4. (\E i \in 1 .. take : waiting[i] = r) => Waits(waiting, r)
    BY <1>6, Zenon
  <2>5. /\ r \in new => ~Announced(messages, r)
        /\ r \in new \/ Announced(messages, r) => ~Waits(waiting, r)
        /\ r \in new \/ Announced(messages, r) \/ Waits(waiting, r) => ~Acknowledging(commands, r)
        /\ r \in new \/ Announced(messages, r) \/ Waits(waiting, r) \/ Acknowledging(commands, r) => got[r] = 0
    BY Zenon DEF OnePlace
  <2> QED BY <2>2, <2>3, <2>4, <2>5, Zenon
<1> QED BY <1>1, <1>3, <1>8, Zenon

\* One and two frames.
LEMMA FrameSequences ==
    ASSUME NEW S, NEW s \in Seq(S), NEW e \in S
    PROVE  /\ Len(s) = 1 => /\ Append(s, e) \in Seq(S) /\ Len(Append(s, e)) = 2
                            /\ Append(s, e)[1] = s[1] /\ Append(s, e)[2] = e
           /\ Len(s) = 2 => /\ [s EXCEPT ![2] = e] \in Seq(S) /\ Len([s EXCEPT ![2] = e]) = 2
                            /\ [s EXCEPT ![2] = e][1] = s[1] /\ [s EXCEPT ![2] = e][2] = e
           /\ Len(s) \in {1, 2} => /\ SubSeq(s, 1, Len(s) - 1) \in Seq(S) /\ s[Len(s)] \in S
                                   /\ Len(SubSeq(s, 1, Len(s) - 1)) = Len(s) - 1
           /\ Len(s) = 2 => SubSeq(s, 1, Len(s) - 1)[1] = s[1] /\ s[2] \in S
           /\ Len(s) >= 1 => s[1] \in S
<1>1. ASSUME Len(s) = 1
      PROVE  /\ Append(s, e) \in Seq(S) /\ Len(Append(s, e)) = 2
             /\ Append(s, e)[1] = s[1] /\ Append(s, e)[2] = e
  <2>1. 1 \in 1 .. Len(s) /\ Len(s) + 1 = 2
    BY <1>1
  <2>2. /\ Append(s, e) \in Seq(S) /\ Len(Append(s, e)) = Len(s) + 1
        /\ \A i \in 1 .. Len(s) : Append(s, e)[i] = s[i]
        /\ Append(s, e)[Len(s) + 1] = e
    BY AppendProperties
  <2> QED BY <2>1, <2>2, Zenon
<1>2. ASSUME Len(s) = 2
      PROVE  /\ [s EXCEPT ![2] = e] \in Seq(S) /\ Len([s EXCEPT ![2] = e]) = 2
             /\ [s EXCEPT ![2] = e][1] = s[1] /\ [s EXCEPT ![2] = e][2] = e
  <2>1. 1 \in 1 .. Len(s) /\ 2 \in 1 .. Len(s) /\ 1 # 2
    BY <1>2
  <2>2. /\ [s EXCEPT ![2] = e] \in Seq(S) /\ Len([s EXCEPT ![2] = e]) = Len(s)
        /\ \A j \in 1 .. Len(s) : [s EXCEPT ![2] = e][j] = IF j = 2 THEN e ELSE s[j]
    BY <2>1, ExceptSeq
  <2> QED BY <1>2, <2>1, <2>2
<1>3. ASSUME Len(s) \in {1, 2}
      PROVE  /\ SubSeq(s, 1, Len(s) - 1) \in Seq(S) /\ s[Len(s)] \in S
             /\ Len(SubSeq(s, 1, Len(s) - 1)) = Len(s) - 1
             /\ Len(s) = 2 => SubSeq(s, 1, Len(s) - 1)[1] = s[1]
  <2>1. Len(s) \in 1 .. Len(s) /\ \A i \in 1 .. Len(s) - 1 : i \in 1 .. Len(s)
    BY <1>3
  <2>2. \A i \in 1 .. Len(s) - 1 : s[i] \in S
    BY <2>1, ElementOfSeq, Zenon
  <2>3. 1 \in Int /\ Len(s) - 1 \in Int
    BY <1>3
  <2> DEFINE rest == SubSeq(s, 1, Len(s) - 1)
  <2>4. /\ rest \in Seq(S) /\ Len(rest) = IF 1 <= Len(s) - 1 THEN Len(s) - 1 - 1 + 1 ELSE 0
        /\ \A i \in 1 .. Len(s) - 1 - 1 + 1 : rest[i] = s[1 + i - 1]
    BY <2>2, <2>3, SubSeqProperties
  <2> HIDE DEF rest
  <2>5. Len(rest) = Len(s) - 1
    <3>1. Len(rest) = IF 1 <= Len(s) - 1 THEN Len(s) - 1 - 1 + 1 ELSE 0
      BY <2>4, Zenon
    <3>2. \A k \in Nat : k >= 1 => (IF 1 <= k - 1 THEN k - 1 - 1 + 1 ELSE 0) = k - 1
      OBVIOUS
    <3>3. Len(s) \in Nat /\ Len(s) >= 1
      BY <1>3
    <3> QED BY <3>1, <3>2, <3>3, Zenon
  <2>6. ASSUME Len(s) = 2 PROVE rest[1] = s[1]
    <3>1. 1 \in 1 .. Len(s) - 1 - 1 + 1 /\ 1 + 1 - 1 = 1
      BY <2>6
    <3>2. rest[1] = s[1 + 1 - 1]
      BY <2>4, <3>1, Zenon
    <3> QED BY <3>1, <3>2, Zenon
  <2>7. s[Len(s)] \in S
    BY <2>1, ElementOfSeq, Zenon
  <2> QED BY <2>4, <2>5, <2>6, <2>7, Zenon DEF rest
<1>4. Len(s) = 2 => s[2] \in S
  BY ElementOfSeq
<1>5. Len(s) >= 1 => s[1] \in S
  BY LenProperties, ElementOfSeq
<1> QED BY <1>1, <1>2, <1>3, <1>4, <1>5, Zenon

\* A batch of acknowledgements above the frame of the call.
LEMMA FramePushed ==
    ASSUME NEW frames, NEW held, Framed(frames, held), Len(frames) = 1, NEW seq \in Nat,
           NEW count \in 1 .. BatchLimit, NEW f, f = [first |-> seq + 1, count |-> count, got |-> 0, drain |-> TRUE]
    PROVE  Framed(Append(frames, f), held \cup (seq + 1 .. seq + count)) /\ Len(Append(frames, f)) = 2
<1> DEFINE more == Append(frames, f)
<1>1. count \in Nat /\ count > 0 /\ count <= BatchLimit
  BY WireConstants
<1>2. /\ f \in FrameRecords /\ f.first = seq + 1 /\ f.count = count /\ f.got = 0 /\ f.drain = TRUE
  BY <1>1 DEF FrameRecords
<1>3. frames \in Seq(FrameRecords) /\ frames[1].count = 1 /\ frames[1].got = 0 /\ frames[1].drain = FALSE
      /\ held \subseteq Left(frames[1])
  BY DEF Framed
<1>4. more \in Seq(FrameRecords) /\ Len(more) = 2 /\ more[1] = frames[1] /\ more[2] = f
  BY <1>2, <1>3, FrameSequences
<1> HIDE DEF more
<1>5. Left(f) = seq + 1 .. seq + count
  BY <1>1, <1>2 DEF Left
<1>6. Framed(more, held \cup (seq + 1 .. seq + count))
  <2>1. held \cup (seq + 1 .. seq + count) \subseteq Left(more[1]) \cup Left(more[2])
    BY <1>3, <1>4, <1>5, Zenon
  <2>2. 2 <= 2 /\ 2 # 0 /\ 2 # 1 /\ f.got < f.count /\ f.count <= BatchLimit
    BY <1>1, <1>2
  <2> QED BY <1>2, <1>3, <1>4, <2>1, <2>2, Zenon DEF Framed
<1> QED BY <1>4, <1>6, Zenon DEF more

\* What a drain takes is at least one request and at most a batch.
LEMMA DrainKeeps ==
    ASSUME NEW frames, NEW held, Framed(frames, held), Len(frames) = 1, sequence \in Nat, pending \subseteq Asked,
           NEW waiting \in Seq(Requests), waiting # <<>>, NEW done \in Nat, done < DrainLimit,
           NEW messages, OnePlace(fresh, messages, waiting, pending, acked), Drain(frames, held, waiting, done)
    PROVE  /\ Framed(stack', active') /\ Len(stack') = 2 /\ held \subseteq active' /\ draining' = TRUE
           /\ sequence' \in Nat /\ pending' \subseteq Asked /\ processed' \in Nat /\ intercepted' \in Seq(Requests)
           /\ OnePlace(fresh, messages, intercepted', pending', acked)
<1> DEFINE take == Min2(Min2(Len(waiting), BatchLimit), DrainLimit - done)
           acks == SubSeq(waiting, 1, take)
           frame == [first |-> sequence + 1, count |-> take, got |-> 0, drain |-> TRUE]
<1>1. BatchLimit \in Nat \ {0} /\ DrainLimit \in Nat \ {0} /\ Len(waiting) \in Nat /\ Len(waiting) >= 1
  BY WireConstants
<1>2. take \in 1 .. Len(waiting) /\ take \in 1 .. BatchLimit /\ take \in Nat
  BY <1>1 DEF Min2
<1>3. /\ intercepted' = SubSeq(waiting, take + 1, Len(waiting))
      /\ processed' = done + take /\ draining' = TRUE /\ Batch(frames, held, acks)
  BY Zenon DEF Drain
<1> HIDE DEF take
<1>4. acks # <<>> /\ Len(acks) = take
  BY <1>2
<1>5. (acks # <<>>) = TRUE
  BY <1>4, Zenon
<1> HIDE DEF acks
<1>6. /\ sequence' = sequence + take /\ active' = held \cup (sequence + 1 .. sequence + take)
      /\ stack' = Append(frames, frame)
      /\ pending' = pending \cup {[id |-> i, ack |-> acks[i - sequence]] : i \in sequence + 1 .. sequence + take}
  <2>1. /\ sequence' = sequence + Len(acks) /\ active' = held \cup (sequence + 1 .. sequence + Len(acks))
        /\ stack' = Append(frames, [first |-> sequence + 1, count |-> Len(acks), got |-> 0, drain |-> acks # <<>>])
        /\ pending' = pending \cup {[id |-> i, ack |-> IF acks = <<>> THEN "command" ELSE acks[i - sequence]]
                                       : i \in sequence + 1 .. sequence + Len(acks)}
    BY <1>3, <1>4, Zenon DEF Batch
  <2>2. \A i : (IF acks = <<>> THEN "command" ELSE acks[i - sequence]) = acks[i - sequence]
    BY <1>4, Zenon
  <2> QED BY <1>4, <1>5, <2>1, <2>2, Zenon
<1>7. Framed(stack', active') /\ Len(stack') = 2
  BY <1>2, <1>6, FramePushed, Zenon
<1>8. pending' \subseteq Asked /\ intercepted' \in Seq(Requests) /\ OnePlace(fresh, messages, intercepted', pending', acked)
  <2>1. Drained(fresh, messages, waiting, pending, acked, sequence, take, acks, pending', intercepted')
    BY <1>2, <1>3, <1>6, Zenon DEF acks, Drained
  <2> QED BY <2>1, RequestsDrained, Zenon
<1>9. sequence + take \in Nat /\ done + take \in Nat
  BY <1>2
<1> QED BY <1>3, <1>6, <1>7, <1>8, <1>9, Zenon

\* The ids that are left after the first of them.
LEMMA LeftIds ==
    ASSUME NEW a \in Nat, NEW b \in Nat, NEW k \in Nat
    PROVE  /\ a + b .. a + k - 1 \subseteq (a + (b + 1) .. a + k - 1) \cup {a + b}
           /\ b + 1 = k => a + b .. a + k - 1 = {a + b}
OBVIOUS

\* A reply of the innermost batch is collected, and it is not the last one.
LEMMA FrameAdvanced ==
    ASSUME NEW frames, NEW ids, Framed(frames, ids), Len(frames) = 2, frames[2].got + 1 # frames[2].count
    PROVE  LET more == [frames EXCEPT ![2].got = @ + 1]
           IN  Framed(more, ids \ {frames[2].first + frames[2].got}) /\ Len(more) = 2
<1> DEFINE more == [frames EXCEPT ![2].got = @ + 1]
           f == frames[2]
           g == [f EXCEPT !.got = @ + 1]
<1>1. /\ frames \in Seq(FrameRecords) /\ frames[1].count = 1 /\ frames[1].got = 0 /\ frames[1].drain = FALSE
      /\ f \in FrameRecords /\ f.drain = TRUE /\ f.got < f.count /\ f.count <= BatchLimit
      /\ ids \subseteq Left(frames[1]) \cup Left(f)
  <2>1. 2 >= 1 /\ 2 \in 1 .. 2
    OBVIOUS
  <2> QED BY <2>1, ElementOfSeq, Zenon DEF Framed
<1>2. g \in FrameRecords /\ g.first = f.first /\ g.count = f.count /\ g.got = f.got + 1 /\ g.drain = TRUE
  BY <1>1 DEF FrameRecords
<1>3. f.first \in Nat /\ f.got \in Nat /\ f.count \in Nat /\ f.got + 1 < f.count
  BY <1>1 DEF FrameRecords
<1>4. more = [frames EXCEPT ![2] = g]
  BY Zenon
<1> HIDE DEF g, more
<1>5. more \in Seq(FrameRecords) /\ Len(more) = 2 /\ more[1] = frames[1] /\ more[2] = g
  BY <1>1, <1>2, <1>4, FrameSequences
<1>6. Left(f) \subseteq Left(g) \cup {f.first + f.got}
  BY <1>2, <1>3, LeftIds, Zenon DEF Left
<1>7. ids \ {f.first + f.got} \subseteq Left(more[1]) \cup Left(more[2])
  BY <1>1, <1>5, <1>6, Zenon
<1>8. Framed(more, ids \ {f.first + f.got})
  <2>1. 2 <= 2 /\ 2 # 0 /\ 2 # 1 /\ g.got < g.count /\ g.count <= BatchLimit
    BY <1>1, <1>2, <1>3
  <2> QED BY <1>1, <1>2, <1>5, <1>7, <2>1, Zenon DEF Framed
<1> QED BY <1>5, <1>8, Zenon DEF more

\* The last reply of the innermost batch is collected.
LEMMA FramePopped ==
    ASSUME NEW frames, NEW ids, Framed(frames, ids), frames # <<>>,
           frames[Len(frames)].got + 1 = frames[Len(frames)].count
    PROVE  /\ Framed(SubSeq(frames, 1, Len(frames) - 1), ids \ {frames[Len(frames)].first + frames[Len(frames)].got})
           /\ Len(SubSeq(frames, 1, Len(frames) - 1)) = Len(frames) - 1
<1> DEFINE rest == SubSeq(frames, 1, Len(frames) - 1)
           f == frames[Len(frames)]
<1>1. frames \in Seq(FrameRecords) /\ Len(frames) \in {1, 2}
  <2>1. frames \in Seq(FrameRecords) /\ Len(frames) <= 2
    BY Zenon DEF Framed
  <2>2. Len(frames) \in Nat \ {0}
    BY <2>1, EmptySeq, Zenon
  <2>3. \A k \in Nat \ {0} : k <= 2 => k \in {1, 2}
    OBVIOUS
  <2> QED BY <2>1, <2>2, <2>3, Zenon
<1>2. /\ f \in FrameRecords /\ rest \in Seq(FrameRecords) /\ Len(rest) = Len(frames) - 1
      /\ Len(frames) = 2 => rest[1] = frames[1]
  BY <1>1, FrameSequences
<1>3. f.first \in Nat /\ f.got \in Nat /\ f.count \in Nat
  BY <1>2, Zenon DEF FrameRecords
<1>4. Left(f) = {f.first + f.got}
  BY <1>3, LeftIds, Zenon DEF Left
<1> HIDE DEF rest
<1>5. CASE Len(frames) = 1
  <2>1. Len(rest) = 0 /\ 0 <= 2 /\ ~(0 >= 1) /\ 0 # 1 /\ 0 # 2
    BY <1>2, <1>5
  <2>2. ids \ {f.first + f.got} = {}
    BY <1>4, <1>5, Zenon DEF Framed
  <2> QED BY <1>2, <2>1, <2>2, Zenon DEF Framed, rest
<1>6. CASE Len(frames) = 2
  <2>1. Len(rest) = 1 /\ 1 <= 2 /\ 1 >= 1 /\ 2 >= 1 /\ 1 # 0 /\ 1 # 2
    BY <1>2, <1>6
  <2>2. ids \ {f.first + f.got} \subseteq Left(rest[1])
    BY <1>2, <1>4, <1>6, Zenon DEF Framed
  <2>3. frames[1].count = 1 /\ frames[1].got = 0 /\ frames[1].drain = FALSE
    BY <1>6, <2>1, Zenon DEF Framed
  <2> QED BY <1>2, <1>6, <2>1, <2>2, <2>3, Zenon DEF Framed, rest
<1> QED BY <1>1, <1>5, <1>6, Zenon

\* The connection begins with nothing sent.
LEMMA WireInitHolds == WireInit => WireInv
<1> SUFFICES ASSUME WireInit PROVE WireInv
  BY Zenon
<1>1. /\ <<>> \in Seq(FrameRecords) /\ <<>> \in Seq(Events \cup ReplyMessages) /\ <<>> \in Seq(Requests)
      /\ Len(<<>>) = 0
  BY EmptySeq, Zenon
<1>2. 0 \in Nat /\ 0 \in 0 .. 1 /\ 0 <= 2 /\ ~(0 >= 1) /\ 0 # 1 /\ 0 # 2 /\ 1 .. 0 = {}
  OBVIOUS
<1>3. WireType
  BY <1>1, <1>2, Zenon DEF WireInit, WireType
<1>4. Framed(stack, active) /\ replies \subseteq active /\ (draining <=> Len(stack) = 2)
  BY <1>1, <1>2, Zenon DEF WireInit, Framed
<1>5. OnePlace(fresh, channel, intercepted, pending, acked)
  <2>1. 1 .. Len(channel) = {} /\ 1 .. Len(intercepted) = {} /\ pending = {}
    BY <1>1, <1>2, Zenon DEF WireInit
  <2>2. \A r \in Requests : acked[r] = 0
    BY Zenon DEF WireInit
  <2> QED BY <2>1, <2>2, Zenon DEF OnePlace, Distinct, Announced, Waits, Acknowledging
<1> QED BY <1>3, <1>4, <1>5, Zenon DEF WireInv, WireInit

\* What the loss of the connection leaves behind.
LEMMA ClosedStep ==
    ASSUME WireInv, Closed, UNCHANGED <<sequence, pending, intercepted, processed, fresh, acked>>,
           channel' \in Seq(Events \cup ReplyMessages), OnePlace(fresh, channel', intercepted, pending, acked)
    PROVE  WireInv'
<1>1. connected' = FALSE /\ stack' = <<>> /\ active' = {} /\ replies' = {} /\ draining' = FALSE
  BY Zenon DEF Closed
<1>2. <<>> \in Seq(FrameRecords) /\ Len(<<>>) = 0
  BY EmptySeq, Zenon
<1>3. 0 <= 2 /\ ~(0 >= 1) /\ 0 # 1 /\ 0 # 2
  OBVIOUS
<1>4. WireType'
  BY <1>1, <1>2, Zenon DEF WireInv, WireType
<1>5. Framed(stack', active')
  BY <1>1, <1>2, <1>3, Zenon DEF Framed
<1> QED BY <1>1, <1>2, <1>3, <1>4, <1>5, Zenon DEF WireInv

\* A call writes one command.
LEMMA CallStep == ASSUME WireInv, Call PROVE WireInv'
<1> DEFINE frame == [first |-> sequence + 1, count |-> 1, got |-> 0, drain |-> FALSE]
<1>1. /\ connected /\ stack = <<>> /\ Batch(<<>>, {}, <<>>)
      /\ UNCHANGED <<replies, channel, fresh, intercepted, draining, processed, acked, connected>>
  BY Zenon DEF Call
<1>2. Len(<<>>) = 0 /\ replies = {} /\ sequence \in Nat /\ intercepted = <<>> /\ draining = FALSE
  <2>1. Len(<<>>) = 0
    BY EmptySeq, Zenon
  <2>2. 0 < 2 /\ 0 # 2
    OBVIOUS
  <2>3. active = {}
    BY <1>1, <2>1, Zenon DEF WireInv, Framed
  <2> QED BY <1>1, <2>1, <2>2, <2>3, Zenon DEF WireInv, WireType
<1>3. /\ sequence' = sequence + 1 /\ active' = sequence + 1 .. sequence + 1 /\ stack' = Append(<<>>, frame)
      /\ pending' = pending \cup {[id |-> i, ack |-> "command"] : i \in sequence + 1 .. sequence + 1}
  <2>1. (<<>> # <<>>) = FALSE
    BY Zenon
  <2>2. /\ sequence' = sequence + 1 /\ active' = {} \cup (sequence + 1 .. sequence + 1)
        /\ stack' = Append(<<>>, [first |-> sequence + 1, count |-> 1, got |-> 0, drain |-> <<>> # <<>>])
        /\ pending' = pending \cup {[id |-> i, ack |-> IF <<>> = <<>> THEN "command" ELSE <<>>[i - sequence]]
                                       : i \in sequence + 1 .. sequence + 1}
    BY <1>1, Zenon DEF Batch
  <2>3. \A i : (IF <<>> = <<>> THEN "command" ELSE <<>>[i - sequence]) = "command"
    BY Zenon
  <2> QED BY <2>1, <2>2, <2>3, Zenon
<1>4. frame \in FrameRecords /\ frame.first = sequence + 1 /\ frame.count = 1 /\ frame.got = 0 /\ frame.drain = FALSE
  BY <1>2 DEF FrameRecords
<1> HIDE DEF frame
<1>5. stack' \in Seq(FrameRecords) /\ Len(stack') = 1 /\ stack'[1] = frame
  <2>1. <<>> \in Seq(FrameRecords) /\ 0 + 1 = 1
    BY EmptySeq
  <2>2. Len(Append(<<>>, frame)) = Len(<<>>) + 1 /\ Append(<<>>, frame)[Len(<<>>) + 1] = frame
        /\ Append(<<>>, frame) \in Seq(FrameRecords)
    BY <1>4, <2>1, AppendProperties
  <2> QED BY <1>2, <1>3, <2>1, <2>2, Zenon
<1>6. Left(frame) = sequence + 1 .. sequence + 1
  BY <1>2, <1>4 DEF Left
<1>7. Framed(stack', active')
  <2>1. 1 <= 2 /\ 1 # 0 /\ 1 # 2
    OBVIOUS
  <2> QED BY <1>3, <1>4, <1>5, <1>6, <2>1, Zenon DEF Framed
<1>8. pending' \subseteq Asked /\ sequence' \in Nat
  <2>1. \A i \in sequence + 1 .. sequence + 1 : [id |-> i, ack |-> "command"] \in Asked
    BY <1>2 DEF Asked
  <2>2. sequence + 1 \in Nat
    BY <1>2
  <2> QED BY <1>3, <2>1, <2>2, Zenon DEF WireInv, WireType
<1>9. OnePlace(fresh, channel, intercepted, pending', acked)
  <2>1. OnePlace(fresh, channel, intercepted, pending, acked)
    BY Zenon DEF WireInv
  <2>2. \A c \in pending' : c \in pending \/ c.ack = "command"
    BY <1>3
  <2>3. "command" \notin Requests
    BY WireConstants, Zenon
  <2>4. \A r \in Requests : Acknowledging(pending', r) => Acknowledging(pending, r)
    BY <2>2, <2>3, Zenon DEF Acknowledging
  <2>5. Distinct(channel, intercepted, pending')
    BY <2>1, <2>2, <2>3, Zenon DEF OnePlace, Distinct
  <2> QED BY <2>1, <2>4, <2>5, Zenon DEF OnePlace
<1>10. WireType'
  BY <1>1, <1>5, <1>8, Zenon DEF WireInv, WireType
<1>11. 1 < 2 /\ 1 # 2
  OBVIOUS
<1> QED BY <1>1, <1>2, <1>5, <1>7, <1>9, <1>10, <1>11, Zenon DEF WireInv

\* A message is received: a reply is noted, an event is queued and drained.
LEMMA ReceiveStep == ASSUME WireInv, Receive PROVE WireInv'
<1> DEFINE m == Head(channel)
<1>1. /\ connected /\ stack # <<>> /\ channel # <<>> /\ channel' = Tail(channel) /\ UNCHANGED <<fresh, acked>>
  BY Zenon DEF Receive
<1>2. /\ channel \in Seq(Events \cup ReplyMessages) /\ OnePlace(fresh, channel, intercepted, pending, acked)
      /\ Framed(stack, active) /\ stack \in Seq(FrameRecords)
  BY Zenon DEF WireInv, WireType
<1>3. /\ channel' \in Seq(Events \cup ReplyMessages) /\ OnePlace(fresh, channel', intercepted, pending, acked)
      /\ \A r \in Requests : m = [kind |-> "event", request |-> r] =>
            /\ r \notin fresh /\ ~Announced(channel', r) /\ ~Waits(intercepted, r)
            /\ ~Acknowledging(pending, r) /\ acked[r] = 0
  BY <1>1, <1>2, MessageTaken, Zenon
<1>4. CASE Closed /\ UNCHANGED <<sequence, pending, intercepted, processed>>
  BY <1>1, <1>3, <1>4, ClosedStep, Zenon
<1>5. CASE /\ m.id \in active /\ replies' = replies \cup {m.id}
           /\ UNCHANGED <<stack, active, draining, connected, finished>>
           /\ UNCHANGED <<sequence, pending, intercepted, processed>>
  <2>1. WireType'
    BY <1>1, <1>3, <1>5, Zenon DEF WireInv, WireType
  <2> QED BY <1>1, <1>3, <1>5, <2>1, Zenon DEF WireInv
<1>6. ASSUME m.kind # "reply"
      PROVE  m.request \in Requests /\ m = [kind |-> "event", request |-> m.request]
  <2>1. m \in Events \cup ReplyMessages
    BY <1>1, <1>2
  <2> HIDE DEF m
  <2> QED BY <1>6, <2>1, Zenon DEF Events, ReplyMessages
<1>7. ASSUME m.kind # "reply"
      PROVE  /\ Append(intercepted, m.request) \in Seq(Requests) /\ Append(intercepted, m.request) # <<>>
             /\ OnePlace(fresh, channel', Append(intercepted, m.request), pending, acked)
  <2>1. intercepted \in Seq(Requests)
    BY Zenon DEF WireInv, WireType
  <2> HIDE DEF m
  <2> QED BY <1>3, <1>6, <1>7, <2>1, RequestQueued, Zenon
<1>8. CASE /\ m.kind # "reply" /\ Enters
           /\ Drain(stack, active, Append(intercepted, m.request), 0)
           /\ UNCHANGED <<replies, connected, finished>>
  <2>1. Len(stack) = 1
    <3>1. Len(stack) # 2 /\ Len(stack) <= 2
      BY <1>8, Zenon DEF Enters, WireInv, Framed
    <3>2. Len(stack) \in Nat \ {0}
      BY <1>1, <1>2, EmptySeq, Zenon
    <3>3. \A k \in Nat \ {0} : k <= 2 /\ k # 2 => k = 1
      OBVIOUS
    <3> QED BY <3>1, <3>2, <3>3, Zenon
  <2>2. 0 \in Nat /\ 0 < DrainLimit /\ sequence \in Nat /\ pending \subseteq Asked
    BY WireConstants DEF WireInv, WireType
  <2> HIDE DEF m
  <2>3. /\ Framed(stack', active') /\ Len(stack') = 2 /\ active \subseteq active' /\ draining' = TRUE
        /\ sequence' \in Nat /\ pending' \subseteq Asked /\ processed' \in Nat /\ intercepted' \in Seq(Requests)
        /\ OnePlace(fresh, channel', intercepted', pending', acked)
    BY <1>2, <1>7, <1>8, <2>1, <2>2, DrainKeeps, Zenon
  <2>4. WireType'
    BY <1>1, <1>3, <1>8, <2>3, Zenon DEF WireInv, WireType, Framed
  <2>5. ~(2 < 2)
    OBVIOUS
  <2> QED BY <1>1, <1>8, <2>3, <2>4, <2>5, Zenon DEF WireInv
<1>9. CASE /\ m.kind # "reply" /\ ~Enters /\ intercepted' = Append(intercepted, m.request)
           /\ UNCHANGED <<stack, sequence, active, replies, pending, draining, processed, connected, finished>>
  <2>1. Len(stack) = 2 /\ ~(2 < 2)
    BY <1>9 DEF Enters, WireInv
  <2> HIDE DEF m
  <2>2. WireType'
    BY <1>1, <1>3, <1>7, <1>9, Zenon DEF WireInv, WireType
  <2> QED BY <1>1, <1>7, <1>9, <2>1, <2>2, Zenon DEF WireInv
<1> QED BY <1>4, <1>5, <1>8, <1>9, Zenon DEF Receive

\* A reply is collected: the batch goes on, the drain goes on, or the frame is left.
LEMMA CollectStep == ASSUME WireInv, Collect PROVE WireInv'
<1> DEFINE id == Top.first + Top.got
           rest == SubSeq(stack, 1, Len(stack) - 1)
           last == Top.got + 1 = Top.count
<1>1. /\ connected /\ stack # <<>> /\ UNCHANGED <<channel, fresh, acked>>
  BY Zenon DEF Collect
<1>2. /\ OnePlace(fresh, channel, intercepted, pending, acked) /\ Framed(stack, active)
      /\ stack \in Seq(FrameRecords) /\ channel \in Seq(Events \cup ReplyMessages) /\ replies \subseteq active
      /\ sequence \in Nat /\ pending \subseteq Asked /\ intercepted \in Seq(Requests) /\ processed \in Nat
      /\ draining \in BOOLEAN
  BY Zenon DEF WireInv, WireType
<1>3. Len(stack) = 1 \/ Len(stack) = 2
  <2>1. Len(stack) <= 2
    BY <1>2, Zenon DEF Framed
  <2>2. Len(stack) \in Nat \ {0}
    BY <1>1, <1>2, EmptySeq, Zenon
  <2>3. \A k \in Nat \ {0} : k <= 2 => k = 1 \/ k = 2
    OBVIOUS
  <2> QED BY <2>1, <2>2, <2>3, Zenon
<1>4. ASSUME last PROVE Framed(rest, active \ {id}) /\ Len(rest) = Len(stack) - 1
  BY <1>1, <1>2, <1>4, FramePopped, Zenon DEF Top
<1>5. Len(stack) = 1 => last /\ ~Top.drain
  <2>1. Len(stack) = 1 => Top.count = 1 /\ Top.got = 0 /\ Top.drain = FALSE
    <3>1. 1 >= 1
      OBVIOUS
    <3> QED BY <1>2, <3>1, Zenon DEF Top, Framed
  <2>2. 0 + 1 = 1
    OBVIOUS
  <2> QED BY <2>1, <2>2, Zenon
<1>6. Len(stack) = 2 => Top.drain
  BY <1>2, Zenon DEF Top, Framed
<1>7. CASE Closed /\ UNCHANGED <<sequence, pending, intercepted, processed>>
  BY <1>1, <1>2, <1>7, ClosedStep, Zenon
<1>8. CASE /\ last /\ Top.drain /\ intercepted # <<>> /\ ~(processed >= DrainLimit)
           /\ replies' = replies \ {id} /\ UNCHANGED connected
           /\ Drain(rest, active \ {id}, intercepted, processed) /\ UNCHANGED finished
  <2>1. Len(rest) = 1
    <3>1. 2 - 1 = 1
      OBVIOUS
    <3> QED BY <1>3, <1>4, <1>5, <1>8, <3>1, Zenon
  <2>2. processed < DrainLimit
    BY <1>2, <1>8, WireConstants
  <2> HIDE DEF id, rest, last
  <2>3. /\ Framed(stack', active') /\ Len(stack') = 2 /\ active \ {id} \subseteq active' /\ draining' = TRUE
        /\ sequence' \in Nat /\ pending' \subseteq Asked /\ processed' \in Nat /\ intercepted' \in Seq(Requests)
        /\ OnePlace(fresh, channel, intercepted', pending', acked)
    BY <1>2, <1>4, <1>8, <2>1, <2>2, DrainKeeps, Zenon
  <2>4. WireType'
    BY <1>1, <1>8, <2>3, Zenon DEF WireInv, WireType, Framed
  <2>5. ~(2 < 2) /\ replies' \subseteq active'
    BY <1>2, <1>8, <2>3
  <2> QED BY <1>1, <1>8, <2>3, <2>4, <2>5, Zenon DEF WireInv
<1>9. CASE /\ ~(last /\ Top.drain /\ intercepted # <<>>) /\ last
           /\ replies' = replies \ {id} /\ UNCHANGED connected /\ stack' = rest /\ active' = active \ {id}
           /\ draining' = (draining /\ ~(last /\ Top.drain)) /\ UNCHANGED <<sequence, pending, intercepted, processed>>
  <2>1. Framed(stack', active') /\ Len(stack') = Len(stack) - 1
    BY <1>4, <1>9, Zenon
  <2>2. Len(stack') # 2 /\ Len(stack') < 2
    <3>1. \A k : k = 1 \/ k = 2 => k - 1 # 2 /\ k - 1 < 2
      OBVIOUS
    <3> QED BY <1>3, <2>1, <3>1, Zenon
  <2>3. draining' = FALSE
    <3>1. CASE Len(stack) = 1
      <4>1. draining = FALSE
        <5>1. 1 # 2
          OBVIOUS
        <5> QED BY <3>1, <1>2, <5>1, Zenon DEF WireInv
      <4> QED BY <1>9, <4>1, Zenon
    <3>2. CASE Len(stack) = 2
      BY <1>6, <1>9, <3>2, Zenon
    <3> QED BY <1>3, <3>1, <3>2, Zenon
  <2>4. intercepted' = <<>>
    <3>1. CASE Len(stack) = 1
      <4>1. 1 < 2
        OBVIOUS
      <4> QED BY <1>1, <1>9, <3>1, <4>1, Zenon DEF WireInv
    <3>2. CASE Len(stack) = 2
      BY <1>6, <1>9, <3>2, Zenon
    <3> QED BY <1>3, <3>1, <3>2, Zenon
  <2> HIDE DEF id, rest, last
  <2>5. WireType'
    BY <1>1, <1>2, <1>9, <2>1, <2>3, Zenon DEF WireInv, WireType, Framed
  <2> QED BY <1>1, <1>2, <1>9, <2>1, <2>2, <2>3, <2>4, <2>5, Zenon DEF WireInv
<1>10. CASE /\ ~last /\ replies' = replies \ {id} /\ UNCHANGED connected
            /\ stack' = [stack EXCEPT ![Len(stack)].got = @ + 1] /\ active' = active \ {id}
            /\ draining' = (draining /\ ~(last /\ Top.drain)) /\ UNCHANGED <<sequence, pending, intercepted, processed>>
  <2>1. Len(stack) = 2
    BY <1>3, <1>5, <1>10, Zenon
  <2>2. Framed(stack', active') /\ Len(stack') = 2
    BY <1>2, <1>10, <2>1, FrameAdvanced, Zenon DEF Top
  <2>3. draining' = TRUE
    BY <1>2, <1>10, <2>1, Zenon DEF WireInv
  <2> HIDE DEF id, rest, last
  <2>4. WireType'
    BY <1>1, <1>2, <1>10, <2>2, <2>3, Zenon DEF WireInv, WireType, Framed
  <2>5. ~(2 < 2)
    OBVIOUS
  <2> QED BY <1>1, <1>2, <1>10, <2>2, <2>3, <2>4, <2>5, Zenon DEF WireInv
<1> QED BY <1>7, <1>8, <1>9, <1>10, Zenon DEF Collect

\* The deadline or a cancellation closes the connection.
LEMMA InterruptStep == ASSUME WireInv, Interrupt PROVE WireInv'
<1>1. /\ Closed /\ UNCHANGED <<sequence, channel, pending, intercepted, processed, fresh, acked>>
  BY Zenon DEF Interrupt
<1>2. channel \in Seq(Events \cup ReplyMessages) /\ OnePlace(fresh, channel, intercepted, pending, acked)
  BY Zenon DEF WireInv, WireType
<1> QED BY <1>1, <1>2, ClosedStep, Zenon

\* The browser says something; what the client holds stays.
LEMMA BrowserStep ==
    ASSUME WireInv, UNCHANGED <<stack, sequence, active, replies, intercepted, draining, processed, connected>>,
           channel' \in Seq(Events \cup ReplyMessages), pending' \subseteq Asked, fresh' \subseteq Requests,
           acked' \in [Requests -> 0 .. 1], OnePlace(fresh', channel', intercepted, pending', acked')
    PROVE  WireInv'
<1>1. WireType'
  BY Zenon DEF WireInv, WireType
<1> QED BY <1>1, Zenon DEF WireInv

\* A message is put on the channel.
LEMMA MessagePut ==
    ASSUME NEW messages \in Seq(Events \cup ReplyMessages), NEW m \in Events \cup ReplyMessages
    PROVE  /\ Append(messages, m) \in Seq(Events \cup ReplyMessages)
           /\ \A r : Announced(Append(messages, m), r) => Announced(messages, r) \/ m = [kind |-> "event", request |-> r]
           /\ \A waiting, commands :
                 /\ Distinct(messages, waiting, commands)
                 /\ m.kind = "event" => ~Announced(messages, m.request)
                 => Distinct(Append(messages, m), waiting, commands)
<1> DEFINE more == Append(messages, m)
<1>1. /\ Len(messages) \in Nat /\ more \in Seq(Events \cup ReplyMessages) /\ Len(more) = Len(messages) + 1
      /\ more[Len(messages) + 1] = m /\ \A i \in 1 .. Len(messages) : more[i] = messages[i]
  BY AppendProperties, LenProperties
<1> HIDE DEF more
<1>2. \A i \in 1 .. Len(more) : i \in 1 .. Len(messages) \/ i = Len(messages) + 1
  BY <1>1
<1>3. \A r : Announced(more, r) => Announced(messages, r) \/ m = [kind |-> "event", request |-> r]
  BY <1>1, <1>2, Zenon DEF Announced
<1>4. m.kind = "event" => m = [kind |-> "event", request |-> m.request]
  BY Zenon DEF Events, ReplyMessages
<1>5. ASSUME NEW waiting, NEW commands, Distinct(messages, waiting, commands),
             m.kind = "event" => ~Announced(messages, m.request)
      PROVE  Distinct(more, waiting, commands)
  <2>1. SUFFICES ASSUME NEW i \in 1 .. Len(more), NEW j \in 1 .. Len(more), more[i] = more[j], more[i].kind = "event"
                 PROVE  i = j
    BY <1>5, Zenon DEF Distinct
  <2>2. \A k \in 1 .. Len(messages) : m.kind = "event" => messages[k] # m
    BY <1>4, <1>5, Zenon DEF Announced
  <2> QED BY <1>1, <1>2, <1>5, <2>1, <2>2, Zenon DEF Distinct
<1> QED BY <1>1, <1>3, <1>5, Zenon DEF more

\* The renderer pauses a request and announces it.
LEMMA PauseStep == ASSUME WireInv, NEW r \in Requests, Pause(r) PROVE WireInv'
<1> DEFINE m == [kind |-> "event", request |-> r]
<1>1. /\ r \in fresh /\ fresh' = fresh \ {r} /\ channel' = Append(channel, m)
      /\ UNCHANGED <<stack, sequence, active, replies, pending, intercepted, draining, processed, acked, connected>>
  BY Zenon DEF Pause
<1>2. /\ channel \in Seq(Events \cup ReplyMessages) /\ OnePlace(fresh, channel, intercepted, pending, acked)
      /\ fresh \subseteq Requests /\ pending \subseteq Asked /\ acked \in [Requests -> 0 .. 1]
  BY Zenon DEF WireInv, WireType
<1>3. m \in Events \cup ReplyMessages /\ m.kind = "event" /\ m.request = r /\ \A q : m = [kind |-> "event", request |-> q] => q = r
  BY Zenon DEF Events
<1> HIDE DEF m
<1>4. r \in fresh => ~Announced(channel, r)
  BY <1>2, Zenon DEF OnePlace
<1>5. /\ channel' \in Seq(Events \cup ReplyMessages) /\ Distinct(channel', intercepted, pending)
      /\ \A q : Announced(channel', q) => Announced(channel, q) \/ q = r
  <2>1. Distinct(channel, intercepted, pending)
    BY <1>2, Zenon DEF OnePlace
  <2> QED BY <1>1, <1>2, <1>3, <1>4, <2>1, MessagePut, Zenon
<1>6. OnePlace(fresh', channel', intercepted, pending, acked)
  BY <1>1, <1>2, <1>5, Zenon DEF OnePlace
<1> QED BY <1>1, <1>2, <1>5, <1>6, BrowserStep, Zenon

\* The browser answers a command; an acknowledgement was the only one of its request.
LEMMA AnswerStep == ASSUME WireInv, NEW c \in pending, Answer(c) PROVE WireInv'
<1> DEFINE m == [kind |-> "reply", id |-> c.id]
<1>1. /\ pending' = pending \ {c} /\ channel' = Append(channel, m)
      /\ acked' = IF c.ack = "command" THEN acked ELSE [acked EXCEPT ![c.ack] = @ + 1]
      /\ UNCHANGED <<stack, sequence, active, replies, fresh, intercepted, draining, processed, connected>>
  BY Zenon DEF Answer
<1>2. /\ channel \in Seq(Events \cup ReplyMessages) /\ OnePlace(fresh, channel, intercepted, pending, acked)
      /\ fresh \subseteq Requests /\ pending \subseteq Asked /\ acked \in [Requests -> 0 .. 1]
  BY Zenon DEF WireInv, WireType
<1>3. m \in Events \cup ReplyMessages /\ m.kind # "event" /\ \A q : m # [kind |-> "event", request |-> q]
  <2>1. c.id \in Nat
    BY <1>2, Zenon DEF Asked
  <2> QED BY <2>1, Zenon DEF ReplyMessages
<1> HIDE DEF m
<1>4. c.ack \in Requests \/ c.ack = "command"
  BY <1>2, Zenon DEF Asked
<1>5. /\ channel' \in Seq(Events \cup ReplyMessages) /\ Distinct(channel', intercepted, pending)
      /\ \A q : Announced(channel', q) => Announced(channel, q)
  <2>1. Distinct(channel, intercepted, pending)
    BY <1>2, Zenon DEF OnePlace
  <2> QED BY <1>1, <1>2, <1>3, <2>1, MessagePut, Zenon
<1>6. \A q : Acknowledging(pending', q) => Acknowledging(pending, q)
  BY <1>1, Zenon DEF Acknowledging
<1>7. ASSUME c.ack \in Requests
      PROVE  acked[c.ack] = 0 /\ ~Acknowledging(pending', c.ack) /\ Acknowledging(pending, c.ack)
  BY <1>1, <1>2, <1>7, Zenon DEF OnePlace, Distinct, Acknowledging
<1>8. /\ acked' \in [Requests -> 0 .. 1]
      /\ \A q \in Requests : q # c.ack => acked'[q] = acked[q]
  <2>1. CASE c.ack = "command"
    BY <1>1, <1>2, <2>1, Zenon
  <2>2. CASE c.ack # "command" /\ c.ack \in Requests
    <3>1. acked' = [acked EXCEPT ![c.ack] = 1]
      <4>1. acked' = [acked EXCEPT ![c.ack] = acked[c.ack] + 1]
        BY <1>1, <2>2, Zenon
      <4>2. 0 + 1 = 1
        OBVIOUS
      <4> QED BY <1>7, <2>2, <4>1, <4>2, Zenon
    <3> QED BY <1>2, <2>2, <3>1
  <2> QED BY <1>4, <2>1, <2>2, Zenon
<1>9. OnePlace(fresh, channel', intercepted, pending', acked')
  <2>1. Distinct(channel', intercepted, pending')
    BY <1>1, <1>5, Zenon DEF Distinct
  <2>2. SUFFICES ASSUME NEW q \in Requests
                 PROVE  /\ q \in fresh => ~Announced(channel', q)
                        /\ q \in fresh \/ Announced(channel', q) => ~Waits(intercepted, q)
                        /\ q \in fresh \/ Announced(channel', q) \/ Waits(intercepted, q) => ~Acknowledging(pending', q)
                        /\ q \in fresh \/ Announced(channel', q) \/ Waits(intercepted, q) \/ Acknowledging(pending', q)
                              => acked'[q] = 0
    BY <2>1, Zenon DEF OnePlace
  <2>3. /\ q \in fresh => ~Announced(channel, q)
        /\ q \in fresh \/ Announced(channel, q) => ~Waits(intercepted, q)
        /\ q \in fresh \/ Announced(channel, q) \/ Waits(intercepted, q) => ~Acknowledging(pending, q)
        /\ q \in fresh \/ Announced(channel, q) \/ Waits(intercepted, q) \/ Acknowledging(pending, q) => acked[q] = 0
    BY <1>2, Zenon DEF OnePlace
  <2> QED BY <1>5, <1>6, <1>7, <1>8, <2>3, Zenon
<1> QED BY <1>1, <1>2, <1>5, <1>8, <1>9, BrowserStep, Zenon

\* Every step of the connection keeps the invariant.
LEMMA WireNextKeeps == WireInv /\ [WireNext]_protocolVars => WireInv'
<1> SUFFICES ASSUME WireInv, [WireNext]_protocolVars PROVE WireInv'
  BY Zenon
<1>1. CASE UNCHANGED protocolVars
  <2>1. /\ UNCHANGED <<stack, sequence, active, replies, intercepted, draining, processed, connected>>
        /\ channel' = channel /\ pending' = pending /\ fresh' = fresh /\ acked' = acked
    BY <1>1, Zenon DEF protocolVars
  <2> QED BY <2>1, BrowserStep, Zenon DEF WireInv, WireType
<1> QED BY <1>1, CallStep, ReceiveStep, CollectStep, InterruptStep, PauseStep, AnswerStep, Zenon DEF WireNext

\* At most the call and one batch read the socket, so few ids are in use.
LEMMA FewIds == WireInv => DepthBounded
<1> SUFFICES ASSUME WireInv PROVE DepthBounded
  BY Zenon
<1>1. Framed(stack, active) /\ BatchLimit \in Nat /\ stack \in Seq(FrameRecords) /\ Len(stack) <= 2
  BY WireConstants, Zenon DEF WireInv, WireType, Framed
<1>2. \A f \in FrameRecords : f.first \in Nat /\ f.got \in Nat /\ f.count \in Nat
  BY Zenon DEF FrameRecords
<1>3. ASSUME NEW a \in Nat, NEW b \in Nat, NEW k \in Nat
      PROVE  IsFiniteSet(a + b .. a + k - 1) /\ Cardinality(a + b .. a + k - 1) <= k
  <2>1. a + b \in Int /\ a + k - 1 \in Int
    OBVIOUS
  <2>2. /\ IsFiniteSet(a + b .. a + k - 1)
        /\ Cardinality(a + b .. a + k - 1) = IF a + b > a + k - 1 THEN 0 ELSE a + k - 1 - (a + b) + 1
    BY <2>1, FS_Interval
  <2> QED BY <2>2
<1>4. \A f \in FrameRecords : IsFiniteSet(Left(f)) /\ Cardinality(Left(f)) <= f.count /\ Cardinality(Left(f)) \in Nat
  BY <1>2, <1>3, FS_CardinalityType, Zenon DEF Left
<1>5. CASE Len(stack) = 0
  <2>1. active = {}
    BY <1>1, <1>5, Zenon DEF Framed
  <2>2. Cardinality(active) = 0
    BY <2>1, FS_EmptySet, Zenon
  <2> QED BY <1>1, <2>2 DEF DepthBounded
<1>6. CASE Len(stack) = 1
  <2>1. active \subseteq Left(stack[1]) /\ stack[1].count = 1 /\ stack[1] \in FrameRecords
    <3>1. 1 >= 1 /\ 1 \in 1 .. 1
      OBVIOUS
    <3>2. stack[1] \in FrameRecords
      BY <1>1, <1>6, <3>1, ElementOfSeq, Zenon
    <3> QED BY <1>1, <1>6, <3>1, <3>2, Zenon DEF Framed
  <2>2. Cardinality(active) <= Cardinality(Left(stack[1])) /\ Cardinality(active) \in Nat
    BY <1>4, <2>1, FS_Subset, FS_CardinalityType, Zenon
  <2>3. Cardinality(Left(stack[1])) <= 1 /\ Cardinality(Left(stack[1])) \in Nat
    BY <1>4, <2>1, Zenon
  <2> QED BY <1>1, <2>2, <2>3 DEF DepthBounded
<1>7. CASE Len(stack) = 2
  <2>1. 2 >= 1 /\ 1 \in 1 .. 2 /\ 2 \in 1 .. 2
    OBVIOUS
  <2>2. stack[1] \in FrameRecords /\ stack[2] \in FrameRecords
    BY <1>1, <1>7, <2>1, ElementOfSeq, Zenon
  <2>3. /\ active \subseteq Left(stack[1]) \cup Left(stack[2]) /\ stack[1].count = 1 /\ stack[2].count <= BatchLimit
    BY <1>1, <1>7, <2>1, Zenon DEF Framed
  <2>4. /\ IsFiniteSet(Left(stack[1]) \cup Left(stack[2]))
        /\ Cardinality(Left(stack[1]) \cup Left(stack[2])) =
              Cardinality(Left(stack[1])) + Cardinality(Left(stack[2])) - Cardinality(Left(stack[1]) \cap Left(stack[2]))
    BY <1>4, <2>2, FS_Union, Zenon
  <2>5. Cardinality(Left(stack[1]) \cap Left(stack[2])) \in Nat
    BY <1>4, <2>2, FS_Intersection, FS_CardinalityType, Zenon
  <2>6. /\ Cardinality(Left(stack[1])) <= 1 /\ Cardinality(Left(stack[1])) \in Nat
        /\ Cardinality(Left(stack[2])) <= stack[2].count /\ Cardinality(Left(stack[2])) \in Nat
        /\ stack[2].count \in Nat
    BY <1>2, <1>4, <2>2, <2>3, Zenon
  <2> DEFINE a == Cardinality(Left(stack[1]))
             b == Cardinality(Left(stack[2]))
             both == Cardinality(Left(stack[1]) \cap Left(stack[2]))
             all == Cardinality(Left(stack[1]) \cup Left(stack[2]))
             count == stack[2].count
  <2>7. Cardinality(active) <= all /\ Cardinality(active) \in Nat /\ all \in Nat
    BY <2>3, <2>4, FS_Subset, FS_CardinalityType, Zenon
  <2>8. all <= 1 + BatchLimit
    <3>1. a <= 1 /\ a \in Nat /\ b <= count /\ b \in Nat /\ count \in Nat /\ both \in Nat /\ all = a + b - both
          /\ count <= BatchLimit
      BY <2>3, <2>4, <2>5, <2>6, Zenon
    <3> HIDE DEF a, b, both, all, count
    <3> QED BY <1>1, <3>1
  <2>9. Cardinality(active) <= 1 + BatchLimit
    <3> HIDE DEF all
    <3> QED BY <1>1, <2>7, <2>8
  <2> QED BY <1>1, <2>9, Zenon DEF DepthBounded
<1>8. Len(stack) = 0 \/ Len(stack) = 1 \/ Len(stack) = 2
  <2>1. Len(stack) \in Nat
    BY <1>1, LenProperties, Zenon
  <2>2. \A k \in Nat : k <= 2 => k = 0 \/ k = 1 \/ k = 2
    OBVIOUS
  <2> QED BY <1>1, <2>1, <2>2, Zenon
<1> QED BY <1>5, <1>6, <1>7, <1>8, Zenon

\* The proxy's state, and what its counters are.
Whereabouts == {"none", "head", "resolve", "connect", "over", "gone"}
Links == [at : Whereabouts, pumps : SUBSET {"down", "up"}, timer : BOOLEAN, open : BOOLEAN]
Placed(links) == {c \in Connections : links[c].at \notin {"none", "gone"}}
ProxyInv == /\ conn \in [Connections -> Links] /\ live \in Nat /\ bytes \in Nat /\ forwarded \in Nat
            /\ PlacesExact
            /\ forwarded <= bytes /\ ForwardedWithinBudget

\* A connection's place is taken only when it was free, and given back only when it was taken.
LEMMA PlacesCounted ==
    ASSUME NEW links, NEW c \in Connections, NEW k, links \in [Connections -> Links], k \in Links
    PROVE  LET after == [links EXCEPT ![c] = k]
           IN /\ after \in [Connections -> Links]
              /\ links[c].at \in {"none", "gone"} /\ k.at \in {"none", "gone"} => Placed(after) = Placed(links)
              /\ links[c].at \notin {"none", "gone"} /\ k.at \notin {"none", "gone"} => Placed(after) = Placed(links)
              /\ links[c].at \in {"none", "gone"} /\ k.at \notin {"none", "gone"} =>
                    Cardinality(Placed(after)) = Cardinality(Placed(links)) + 1
              /\ links[c].at \notin {"none", "gone"} /\ k.at \in {"none", "gone"} =>
                    Cardinality(Placed(after)) = Cardinality(Placed(links)) - 1
<1> DEFINE after == [links EXCEPT ![c] = k]
<1>1. after \in [Connections -> Links] /\ after[c] = k /\ \A d \in Connections : d # c => after[d] = links[d]
  BY Zenon
<1>2. IsFiniteSet(Placed(links))
  <2>1. Placed(links) \in SUBSET Connections
    BY Zenon DEF Placed
  <2> QED BY <2>1, ProxyConstants, FS_Subset, Zenon
<1> HIDE DEF after
<1>3. ASSUME links[c].at \in {"none", "gone"}, k.at \notin {"none", "gone"}
      PROVE  Cardinality(Placed(after)) = Cardinality(Placed(links)) + 1
  <2>1. Placed(after) = Placed(links) \cup {c} /\ c \notin Placed(links)
    BY <1>1, <1>3, Zenon DEF Placed
  <2> QED BY <1>2, <2>1, FS_AddElement, Zenon
<1>4. ASSUME links[c].at \notin {"none", "gone"}, k.at \in {"none", "gone"}
      PROVE  Cardinality(Placed(after)) = Cardinality(Placed(links)) - 1
  <2>1. Placed(after) = Placed(links) \ {c} /\ c \in Placed(links)
    BY <1>1, <1>4, Zenon DEF Placed
  <2> QED BY <1>2, <2>1, FS_RemoveElement, Zenon
<1>5. ASSUME links[c].at \in {"none", "gone"} <=> k.at \in {"none", "gone"}
      PROVE  Placed(after) = Placed(links)
  BY <1>1, <1>5, Zenon DEF Placed
<1> QED BY <1>1, <1>3, <1>4, <1>5, Zenon DEF after

\* A step that leaves a connection its place keeps the counters.
LEMMA PlaceHeld ==
    ASSUME ProxyInv, NEW c \in Connections, NEW k \in Links, conn' = [conn EXCEPT ![c] = k], live' = live,
           conn[c].at \in {"none", "gone"} <=> k.at \in {"none", "gone"},
           bytes' \in Nat, forwarded' \in Nat, forwarded' <= bytes', forwarded' <= ByteLimit
    PROVE  ProxyInv'
<1>1. conn \in [Connections -> Links] /\ live \in Nat /\ live = Cardinality(Placed(conn)) /\ live <= ConnectionLimit
  BY Zenon DEF ProxyInv, PlacesExact, Placed
<1>2. conn' \in [Connections -> Links] /\ Placed(conn') = Placed(conn)
  BY <1>1, PlacesCounted, Zenon
<1> QED BY <1>1, <1>2, Zenon DEF ProxyInv, PlacesExact, Placed, ForwardedWithinBudget

LEMMA ProxyInitHolds == ProxyInit => ProxyInv
<1> SUFFICES ASSUME ProxyInit PROVE ProxyInv
  BY Zenon
<1>1. conn \in [Connections -> Links]
  BY Zenon DEF ProxyInit, Links, Whereabouts
<1>2. {c \in Connections : conn[c].at \notin {"none", "gone"}} = {}
  BY Zenon DEF ProxyInit
<1>3. live = 0 /\ bytes = 0 /\ forwarded = 0
  BY Zenon DEF ProxyInit
<1>4. 0 \in Nat /\ 0 <= 0 /\ 0 <= ConnectionLimit /\ 0 <= ByteLimit
  BY ProxyConstants
<1> QED BY <1>1, <1>2, <1>3, <1>4, FS_EmptySet, Zenon DEF ProxyInv, PlacesExact, ForwardedWithinBudget

LEMMA AcceptStep == ASSUME ProxyInv, NEW c \in Connections, Accept(c) PROVE ProxyInv'
<1>1. conn \in [Connections -> Links] /\ live \in Nat /\ live = Cardinality(Placed(conn)) /\ live <= ConnectionLimit
      /\ conn[c] \in Links /\ conn[c].at = "none" /\ bytes' = bytes /\ forwarded' = forwarded
  BY Zenon DEF ProxyInv, PlacesExact, Placed, Accept
<1>2. bytes' \in Nat /\ forwarded' \in Nat /\ forwarded' <= bytes' /\ forwarded' <= ByteLimit
  BY <1>1, Zenon DEF ProxyInv, ForwardedWithinBudget
<1>3. CASE Admits
  <2> DEFINE k == [at |-> "head", pumps |-> {}, timer |-> TRUE, open |-> TRUE]
  <2>1. conn' = [conn EXCEPT ![c] = k] /\ live' = live + 1
    BY <1>3, Zenon DEF Accept
  <2>2. k \in Links /\ k.at \notin {"none", "gone"}
    BY Zenon DEF Links, Whereabouts
  <2> HIDE DEF k
  <2>3. conn' \in [Connections -> Links] /\ Cardinality(Placed(conn')) = Cardinality(Placed(conn)) + 1
    BY <1>1, <2>1, <2>2, PlacesCounted, Zenon
  <2>4. live + 1 \in Nat /\ live + 1 <= ConnectionLimit
    BY <1>1, <1>3, ProxyConstants DEF Admits
  <2> QED BY <1>1, <1>2, <2>1, <2>3, <2>4, Zenon DEF ProxyInv, PlacesExact, Placed, ForwardedWithinBudget
<1>4. CASE ~Admits
  <2> DEFINE k == [conn[c] EXCEPT !.at = "gone"]
  <2>1. conn' = [conn EXCEPT ![c] = k] /\ live' = live
    BY <1>1, <1>4, Zenon DEF Accept
  <2>2. k \in Links /\ k.at = "gone"
    BY <1>1, Zenon DEF Links, Whereabouts
  <2> HIDE DEF k
  <2> QED BY <1>1, <1>2, <2>1, <2>2, PlaceHeld, Zenon
<1> QED BY <1>3, <1>4, Zenon

\* Closing a connection keeps its place.
LEMMA ShutKeeps ==
    ASSUME NEW k \in Links
    PROVE  /\ Shut(k) \in Links /\ Shut(k).at = k.at
           /\ [Shut(k) EXCEPT !.at = "over"] \in Links /\ [Shut(k) EXCEPT !.at = "over"].at = "over"
           /\ \A p : [Shut(k) EXCEPT !.pumps = @ \ {p}] \in Links /\ [Shut(k) EXCEPT !.pumps = @ \ {p}].at = k.at
<1>1. Shut(k) \in Links /\ Shut(k).at = k.at
  BY Zenon DEF Shut, Links
<1>2. ASSUME NEW j \in Links
      PROVE  [j EXCEPT !.at = "over"] \in Links /\ [j EXCEPT !.at = "over"].at = "over"
  BY Zenon DEF Links, Whereabouts
<1>3. ASSUME NEW j \in Links, NEW p
      PROVE  [j EXCEPT !.pumps = @ \ {p}] \in Links /\ [j EXCEPT !.pumps = @ \ {p}].at = j.at
  <2>1. j.pumps \ {p} \in SUBSET {"down", "up"}
    BY Zenon DEF Links
  <2> QED BY <2>1, Zenon DEF Links
<1> QED BY <1>1, <1>2, <1>3, Zenon

LEMMA ProceedStep == ASSUME ProxyInv, NEW c \in Connections, Proceed(c) PROVE ProxyInv'
<1>1. /\ conn[c] \in Links /\ conn \in [Connections -> Links] /\ conn[c].at \notin {"none", "gone"}
      /\ live' = live
      /\ bytes \in Nat /\ forwarded \in Nat /\ forwarded <= bytes /\ forwarded <= ByteLimit
  <2>1. conn[c].at \in {"head", "resolve", "connect"} /\ live' = live
    BY Zenon DEF Proceed, Deny
  <2> QED BY <2>1, Zenon DEF ProxyInv, ForwardedWithinBudget
<1>2. bytes + 1 \in Nat /\ forwarded + 1 \in Nat /\ forwarded <= bytes + 1 /\ forwarded + 1 <= bytes + 1
      /\ (~(bytes + 1 > ByteLimit) => forwarded + 1 <= ByteLimit)
  BY <1>1, ProxyConstants
<1> USE <1>1, <1>2
<1>3. CASE Deny(c) /\ (bytes' = bytes \/ bytes' = bytes + 1)
  <2>1. conn' = [conn EXCEPT ![c] = [Shut(conn[c]) EXCEPT !.at = "over"]] /\ forwarded' = forwarded
    BY <1>3, Zenon DEF Deny
  <2>2. [Shut(conn[c]) EXCEPT !.at = "over"] \in Links /\ [Shut(conn[c]) EXCEPT !.at = "over"].at = "over"
    BY ShutKeeps, Zenon
  <2> DEFINE k == [Shut(conn[c]) EXCEPT !.at = "over"]
  <2> HIDE DEF k
  <2>3. conn' = [conn EXCEPT ![c] = k] /\ k \in Links /\ k.at = "over"
    BY <2>1, <2>2, Zenon DEF k
  <2> QED BY <1>3, <2>1, <2>3, PlaceHeld, Zenon
<1>4. CASE /\ conn' = [conn EXCEPT ![c].at = IF @ = "head" THEN "resolve" ELSE "connect"]
           /\ UNCHANGED <<live, bytes, forwarded, refusals>>
  <2> DEFINE k == [conn[c] EXCEPT !.at = IF @ = "head" THEN "resolve" ELSE "connect"]
  <2>1. conn' = [conn EXCEPT ![c] = k] /\ bytes' = bytes /\ forwarded' = forwarded
    BY <1>4, Zenon
  <2>2. k \in Links /\ k.at \notin {"none", "gone"}
    BY Zenon DEF Links, Whereabouts
  <2> HIDE DEF k
  <2> QED BY <2>1, <2>2, PlaceHeld, Zenon
<1>5. CASE \E pumps \in SUBSET {"down", "up"} :
           /\ conn' = [conn EXCEPT ![c].at = "over", ![c].pumps = pumps]
           /\ \/ bytes' = bytes /\ forwarded' = forwarded
              \/ bytes' = bytes + 1 /\ forwarded' = forwarded + 1 /\ ~(bytes + 1 > ByteLimit)
  <2>1. PICK pumps \in SUBSET {"down", "up"} :
           /\ conn' = [conn EXCEPT ![c].at = "over", ![c].pumps = pumps]
           /\ \/ bytes' = bytes /\ forwarded' = forwarded
              \/ bytes' = bytes + 1 /\ forwarded' = forwarded + 1 /\ ~(bytes + 1 > ByteLimit)
    BY <1>5, Zenon
  <2> DEFINE k == [conn[c] EXCEPT !.at = "over", !.pumps = pumps]
  <2>2. conn' = [conn EXCEPT ![c] = k]
    BY <2>1, Zenon
  <2>3. k \in Links /\ k.at = "over"
    BY Zenon DEF Links, Whereabouts
  <2>4. bytes' \in Nat /\ forwarded' \in Nat /\ forwarded' <= bytes' /\ forwarded' <= ByteLimit
    BY <2>1, Zenon
  <2>5. conn[c].at \in {"none", "gone"} <=> k.at \in {"none", "gone"}
    BY <2>3, Zenon
  <2> HIDE DEF k
  <2> QED BY <2>2, <2>3, <2>4, <2>5, PlaceHeld, Zenon
<1>6. {"down"} \in SUBSET {"down", "up"} /\ {"down", "up"} \in SUBSET {"down", "up"}
  BY Zenon
<1> QED BY <1>3, <1>4, <1>5, <1>6, Zenon DEF Proceed

LEMMA PumpStep == ASSUME ProxyInv, NEW c \in Connections, NEW p, Pump(c, p) PROVE ProxyInv'
<1>1. /\ conn[c] \in Links /\ conn \in [Connections -> Links] /\ live' = live
      /\ bytes \in Nat /\ forwarded \in Nat /\ forwarded <= bytes /\ forwarded <= ByteLimit
  BY Zenon DEF ProxyInv, ForwardedWithinBudget, Pump
<1>2. bytes + 1 \in Nat /\ forwarded + 1 \in Nat /\ forwarded <= bytes + 1 /\ forwarded + 1 <= bytes + 1
      /\ (bytes + 1 <= ByteLimit => forwarded + 1 <= ByteLimit)
  BY <1>1, ProxyConstants
<1>3. CASE conn' = conn /\ bytes' = bytes + 1 /\ forwarded' = forwarded + 1 /\ Counts(c, p)
  <2>1. conn' = [conn EXCEPT ![c] = conn[c]]
    BY <1>1, <1>3, Zenon
  <2> QED BY <1>1, <1>2, <1>3, <2>1, PlaceHeld, Zenon DEF Counts
<1>4. CASE /\ conn' = [conn EXCEPT ![c] = [Shut(conn[c]) EXCEPT !.pumps = @ \ {p}]]
           /\ forwarded' = forwarded /\ (bytes' = bytes \/ bytes' = bytes + 1)
  <2> DEFINE k == [Shut(conn[c]) EXCEPT !.pumps = @ \ {p}]
  <2>1. k \in Links /\ k.at = conn[c].at
    BY <1>1, ShutKeeps, Zenon
  <2>2. conn' = [conn EXCEPT ![c] = k]
    BY <1>4, Zenon
  <2> HIDE DEF k
  <2> QED BY <1>1, <1>2, <1>4, <2>1, <2>2, PlaceHeld, Zenon
<1> QED BY <1>1, <1>3, <1>4, Zenon DEF Pump

LEMMA OverdueStep == ASSUME ProxyInv, NEW c \in Connections, Overdue(c) PROVE ProxyInv'
<1>1. /\ conn[c] \in Links /\ live' = live /\ bytes' = bytes /\ forwarded' = forwarded
      /\ conn' = [conn EXCEPT ![c] = Shut(conn[c])]
      /\ bytes \in Nat /\ forwarded \in Nat /\ forwarded <= bytes /\ forwarded <= ByteLimit
  BY Zenon DEF ProxyInv, ForwardedWithinBudget, Overdue
<1>2. Shut(conn[c]) \in Links /\ Shut(conn[c]).at = conn[c].at
  BY <1>1, ShutKeeps, Zenon
<1> QED BY <1>1, <1>2, PlaceHeld, Zenon

LEMMA DestroyStep == ASSUME ProxyInv, NEW c \in Connections, Destroy(c) PROVE ProxyInv'
<1>1. conn \in [Connections -> Links] /\ live \in Nat /\ live = Cardinality(Placed(conn)) /\ live <= ConnectionLimit
      /\ conn[c] \in Links /\ conn[c].at = "over" /\ bytes' = bytes /\ forwarded' = forwarded /\ live' = live - 1
  BY Zenon DEF ProxyInv, PlacesExact, Placed, Destroy
<1> DEFINE k == [conn[c] EXCEPT !.at = "gone"]
<1>2. conn' = [conn EXCEPT ![c] = k]
  BY <1>1, Zenon DEF Destroy
<1>3. k \in Links /\ k.at = "gone"
  BY <1>1, Zenon DEF Links, Whereabouts
<1> HIDE DEF k
<1>4. conn' \in [Connections -> Links] /\ Cardinality(Placed(conn')) = Cardinality(Placed(conn)) - 1
  BY <1>1, <1>2, <1>3, PlacesCounted, Zenon
<1>5. Cardinality(Placed(conn')) \in Nat
  <2>1. Placed(conn') \in SUBSET Connections
    BY Zenon DEF Placed
  <2> QED BY <2>1, ProxyConstants, FS_Subset, FS_CardinalityType, Zenon
<1>6. live - 1 <= ConnectionLimit
  BY <1>1, ProxyConstants
<1> QED BY <1>1, <1>4, <1>5, <1>6, Zenon DEF ProxyInv, PlacesExact, Placed, ForwardedWithinBudget

LEMMA ProxyNextKeeps == ProxyInv /\ [ProxyNext]_proxyVars => ProxyInv'
<1> SUFFICES ASSUME ProxyInv, [ProxyNext]_proxyVars PROVE ProxyInv'
  BY Zenon
<1>1. CASE UNCHANGED proxyVars
  BY <1>1, Zenon DEF proxyVars, ProxyInv, PlacesExact, ForwardedWithinBudget
<1> QED BY <1>1, AcceptStep, ProceedStep, PumpStep, OverdueStep, DestroyStep, Zenon DEF ProxyNext

\* The invariants of the two connections give the property.
LEMMA NetworkFollows == WireInv /\ ProxyInv => NetworkSound
<1> SUFFICES ASSUME WireInv, ProxyInv PROVE NetworkSound
  BY Zenon
<1>1. AckedOnce
  <2>1. \A k \in 0 .. 1 : k <= 1
    OBVIOUS
  <2> QED BY <2>1, Zenon DEF WireInv, WireType, AckedOnce
<1>2. NothingLeftOver
  <2>1. ASSUME stack = <<>>, connected PROVE Len(stack) = 0 /\ Len(stack) < 2 /\ Len(stack) # 2
    BY <2>1, EmptySeq
  <2> QED BY <2>1, Zenon DEF WireInv, WireType, Framed, NothingLeftOver
<1> QED BY <1>1, <1>2, FewIds, Zenon DEF ProxyInv, NetworkSound

\* The browser's connections, for every number of requests, commands and connections and for
\* every limit: at most a call and one batch of acknowledgements read the socket, a paused
\* request is acknowledged at most once, a call leaves nothing behind, and the proxy counts
\* its connections exactly and forwards no more than the session's budget.
THEOREM NetworkIsSound == NetworkSpec => []NetworkSound
<1>1. NetworkInit => WireInv /\ ProxyInv
  BY WireInitHolds, ProxyInitHolds, Zenon DEF NetworkInit
<1>2. ASSUME WireInv /\ ProxyInv, [NetworkNext]_<<protocolVars, proxyVars>>
      PROVE  (WireInv /\ ProxyInv)'
  <2>1. [WireNext]_protocolVars /\ [ProxyNext]_proxyVars
    BY <1>2, Zenon DEF NetworkNext
  <2> QED BY <1>2, <2>1, WireNextKeeps, ProxyNextKeeps, Zenon
<1> QED BY <1>1, <1>2, NetworkFollows, PTL DEF NetworkSpec
=============================================================================
