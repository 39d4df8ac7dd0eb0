------------------------- MODULE RunControllerProofs -------------------------
(***************************************************************************)
(* Safety of RunController for every number of drivers and operators,      *)
(* every set of tools and every budget: types and budgets, at most one     *)
(* effect per operation, what a committed cancellation and a terminal      *)
(* status guarantee, and over which records work is admitted.  Each layer  *)
(* of the inductive invariant is preserved by Next given the ones before   *)
(* it.  Locking and Records speak of the lock and of the stored record,    *)
(* Receipts of what the tool executor has already done, Cancelling of      *)
(* cancellations and of records that are at rest, Phasing of the phases in *)
(* which work is proposed, admitted and carried out.                       *)
(***************************************************************************)
EXTENDS RunController, TLAPS

-----------------------------------------------------------------------------
(***************************************************************************)
(* The inductive invariant.                                                *)
(***************************************************************************)

\* What the phase of a record guarantees about its counters.
RecordOK(r) ==
    /\ r \in RunRecord
    /\ r.status = "awaiting_approval" => r.phase = "approval_wait"
    /\ r.phase \in {"approval_wait", "tool_ready"} => MoreCalls(r) /\ ~ToolBudgetExhausted(r)
    /\ r.phase = "tool_pending" =>
           MoreCalls(r) /\ r.tool_calls > 0 /\ r.repetitions[Proposed(r)] > 0

\* A model call that was admitted and not yet settled.
Charged(r) == r.phase = "model_pending" /\ r.rounds > 0 /\ r.tokens >= CallTokens

-----------------------------------------------------------------------------
(***************************************************************************)
(* Every transformer of records keeps RecordOK.                            *)
(***************************************************************************)

\* A record of the next reply, or of a proposed call, indexes its own calls.
LEMMA ProposedCall ==
    ASSUME NEW r \in RunRecord, MoreCalls(r)
    PROVE  Proposed(r) \in Tools /\ r.call_index + 1 \in 0 .. MaxCalls
<1>1. PICK n \in 0 .. MaxCalls : r.pending_calls \in [1 .. n -> Tools]
  BY Zenon DEF RunRecord, Replies
<1>2. Len(r.pending_calls) = n
  BY <1>1, ConstantsOK
<1>3. r.call_index \in 0 .. MaxCalls /\ r.call_index < n
  BY <1>2, Zenon DEF MoreCalls, RunRecord
<1>4. r.call_index + 1 \in 1 .. n
  BY <1>3, ConstantsOK
<1>5. Proposed(r) \in Tools
  BY <1>1, <1>4, Zenon DEF Proposed
<1> QED
  BY <1>3, <1>4, <1>5, ConstantsOK

\* Changing the control or the status keeps RecordOK.
LEMMA ControlOK ==
    ASSUME NEW r, RecordOK(r), NEW c \in {"", "pause", "cancel"}
    PROVE  /\ RecordOK([r EXCEPT !.control = c])
           /\ [r EXCEPT !.control = c].phase = r.phase
           /\ Charged(r) => Charged([r EXCEPT !.control = c])
  BY Zenon DEF RecordOK, RunRecord, MoreCalls, ToolBudgetExhausted, Proposed, Charged

\* A record stays well formed when only its status or the request changes.
LEMMA StatusOK ==
    ASSUME NEW r, RecordOK(r), NEW s \in Statuses \ {"awaiting_approval"},
           NEW c \in {"", "pause", "cancel"}
    PROVE  /\ RecordOK([r EXCEPT !.status = s])
           /\ RecordOK([r EXCEPT !.control = c, !.status = s])
  BY ZenonT(30) DEF RecordOK, RunRecord, MoreCalls, ToolBudgetExhausted, Proposed

\* The status and phase names the transitions assign.
LEMMA Names ==
    /\ {"ready", "running", "completed", "failed", "cancelled", "awaiting_approval",
        "paused", "uncertain"} \subseteq Statuses
    /\ {"model_pending", "tool_pending", "model_ready", "tool_gate", "approval_wait",
        "tool_ready", "completed", "abandoned"} \subseteq Phases
    /\ Pendings = {"model_pending", "tool_pending"}
  BY Zenon DEF Statuses, Phases, Terminals, Pendings, Runnable

\* save() settles, control() stops and resumes, and drive() fails a record in ways
\* that keep RecordOK: they touch neither the phase nor a counter.
LEMMA SettlingOK ==
    ASSUME NEW r, RecordOK(r), NEW a \in {"pause", "cancel"}
    PROVE  /\ RecordOK(Settled(r)) /\ Settled(r).phase = r.phase
           /\ Charged(r) => Charged(Settled(r))
           /\ RecordOK(StopRequested(r, a))
           /\ RecordOK(Resumed(r))
           /\ RecordOK(FailureOf(r))
           /\ RecordOK(Failed(r))
<1> USE Names DEF RecordOK, RunRecord, MoreCalls, ToolBudgetExhausted, Proposed
<1>1. RecordOK(Settled(r)) /\ Settled(r).phase = r.phase
  BY ZenonT(30) DEF Settled
<1>6. Charged(r) => Charged(Settled(r))
  BY Zenon DEF Settled, Charged
<1>2. RecordOK(StopRequested(r, a))
  BY ZenonT(30) DEF StopRequested, pending
<1>3. RecordOK(Resumed(r))
  BY Zenon DEF Resumed
<1>4. RecordOK(FailureOf(r))
  BY ZenonT(30) DEF FailureOf, pending
<1>5. RecordOK(Failed(r))
  BY Zenon DEF Failed
<1> QED
  BY <1>1, <1>2, <1>3, <1>4, <1>5, <1>6, ZenonT(30)

\* The counters of a record have their types.
LEMMA Fields ==
    ASSUME NEW r \in RunRecord
    PROVE  /\ r.rounds \in 0 .. MaxRounds
           /\ r.tool_calls \in 0 .. MaxToolCalls
           /\ r.repetitions \in [Tools -> 0 .. MaxRepetitions]
           /\ r.tokens \in 0 .. TokenBudget
           /\ r.pending_calls \in Replies
           /\ r.call_index \in 0 .. MaxCalls
           /\ r.recorded \in Nat
  BY Zenon DEF RunRecord

\* The outcome of a throwing call or of recovered work is a status and a flag.
LEMMA UnknownOK ==
    ASSUME NEW r, RecordOK(r), NEW s \in Statuses \ {"awaiting_approval"}
    PROVE  RecordOK(Unknown(r, s))
  BY Zenon DEF RecordOK, RunRecord, MoreCalls, ToolBudgetExhausted, Proposed, Unknown

\* A record stays well formed when an observation is appended.
LEMMA ObservedOK ==
    ASSUME NEW r, RecordOK(r)
    PROVE  RecordOK(Observed(r)) /\ Observed(r).phase = r.phase /\ Observed(r).tokens = r.tokens
<1> DEFINE n == r.recorded + 1
<1>1. n \in Nat
  BY Fields DEF RecordOK
<1> HIDE DEF n
<1>2. Observed(r) = [r EXCEPT !.recorded = n]
  BY Zenon DEF Observed, n, RecordOK, RunRecord
<1> QED
  BY <1>1, <1>2, ZenonT(30) DEF RecordOK, RunRecord, MoreCalls, ToolBudgetExhausted, Proposed

\* Approval, the tool gate and the end of a reply's calls move between phases.
LEMMA PhaseOK ==
    ASSUME NEW r, RecordOK(r)
    PROVE  /\ r.phase = "tool_gate" => RecordOK(CallsDone(r))
           /\ MoreCalls(r) /\ ~ToolBudgetExhausted(r) => RecordOK(Gated(r))
           /\ r.phase = "approval_wait" =>
                  RecordOK([r EXCEPT !.phase = "tool_ready", !.status = "ready"])
           /\ RecordOK([r EXCEPT !.status = "failed", !.phase = "abandoned"])
           /\ RecordOK([r EXCEPT !.phase = "model_ready", !.status = "ready"])
  BY Names, ZenonT(30) DEF RecordOK, RunRecord, MoreCalls, ToolBudgetExhausted, Proposed, CallsDone, Gated

\* A call is stepped over only when there is one.
LEMMA NextCallOK ==
    ASSUME NEW r, RecordOK(r), MoreCalls(r)
    PROVE  /\ RecordOK([r EXCEPT !.phase = "tool_gate", !.status = "ready", !.call_index = @ + 1])
           /\ RecordOK([r EXCEPT !.call_index = @ + 1, !.phase = "tool_gate", !.status = "ready"])
<1> DEFINE i == r.call_index + 1
<1>1. i \in 0 .. MaxCalls /\ r \in RunRecord
  BY ProposedCall, Zenon DEF RecordOK
<1> HIDE DEF i
<1>2. /\ RecordOK([r EXCEPT !.phase = "tool_gate", !.status = "ready", !.call_index = i])
      /\ RecordOK([r EXCEPT !.call_index = i, !.phase = "tool_gate", !.status = "ready"])
  BY <1>1, Names, ZenonT(30) DEF RecordOK, RunRecord
<1> QED
  BY <1>2, Zenon DEF i

\* Admission charges within the budget.
LEMMA ModelAdmittedOK ==
    ASSUME NEW r, RecordOK(r), ~ModelBudgetExhausted(r)
    PROVE  RecordOK(ModelAdmitted(r)) /\ Charged(ModelAdmitted(r))
<1> DEFINE k == r.rounds + 1
           m == r.tokens + CallTokens
           q == [r EXCEPT !.rounds = k, !.tokens = m, !.phase = "model_pending",
                          !.status = "running"]
<1>1. r \in RunRecord /\ r.rounds \in 0 .. MaxRounds /\ r.tokens \in 0 .. TokenBudget
  BY Fields, Zenon DEF RecordOK
<1>2. k \in 0 .. MaxRounds /\ m \in 0 .. TokenBudget /\ k > 0 /\ m >= CallTokens
  BY <1>1, ConstantsOK DEF ModelBudgetExhausted
<1>3. ModelAdmitted(r) = q
  BY Zenon DEF ModelAdmitted
<1> HIDE DEF k, m
<1>4. q \in RunRecord /\ q.phase = "model_pending" /\ q.rounds = k /\ q.tokens = m
      /\ q.status = "running"
  BY <1>1, <1>2, Names, ZenonT(30) DEF RunRecord
<1> QED
  BY <1>2, <1>3, <1>4, Zenon DEF RecordOK, Charged

\* A record stays well formed when its proposed tool call is charged.
LEMMA ToolAdmittedOK ==
    ASSUME NEW r, RecordOK(r), r.phase = "tool_ready"
    PROVE  RecordOK(ToolAdmitted(r)) /\ ToolAdmitted(r).phase = "tool_pending"
<1> DEFINE x == Proposed(r)
           reps == [r.repetitions EXCEPT ![x] = @ + 1]
           t == r.tool_calls + 1
           q == [r EXCEPT !.repetitions = reps, !.tool_calls = t,
                          !.phase = "tool_pending", !.status = "running"]
<1>1. r \in RunRecord /\ MoreCalls(r) /\ ~ToolBudgetExhausted(r)
  BY Zenon DEF RecordOK
<1>2. x \in Tools
  BY <1>1, ProposedCall, Zenon
<1>3. ToolAdmitted(r) = q
  BY <1>1, ZenonT(30) DEF ToolAdmitted, RunRecord
<1>4. /\ r.tool_calls \in 0 .. MaxToolCalls /\ ~(r.tool_calls >= MaxToolCalls)
      /\ r.repetitions \in [Tools -> 0 .. MaxRepetitions]
      /\ ~(r.repetitions[x] >= MaxRepetitions)
  BY <1>1, Fields, Zenon DEF ToolBudgetExhausted
<1> HIDE DEF x
<1>5. r.repetitions[x] \in 0 .. MaxRepetitions
  BY <1>2, <1>4, Zenon
<1>6. t \in 0 .. MaxToolCalls /\ t > 0
  BY <1>4, ConstantsOK
<1>7. reps \in [Tools -> 0 .. MaxRepetitions] /\ reps[x] > 0
  BY <1>2, <1>4, <1>5, ConstantsOK
<1> HIDE DEF reps, t
<1>8. /\ q \in RunRecord /\ q.phase = "tool_pending" /\ q.tool_calls = t
      /\ q.status = "running" /\ q.repetitions = reps /\ q.pending_calls = r.pending_calls
      /\ q.call_index = r.call_index
  BY <1>1, <1>6, <1>7, Names, ZenonT(30) DEF RunRecord
<1> HIDE DEF q
<1>9. MoreCalls(q) /\ Proposed(q) = x
  BY <1>1, <1>8, Zenon DEF MoreCalls, Proposed, x
<1> QED
  BY <1>3, <1>6, <1>7, <1>8, <1>9, Zenon DEF RecordOK

\* A fresh admission can always be refunded.
LEMMA RefundedOK ==
    ASSUME NEW r, RecordOK(r), Charged(r) \/ r.phase = "tool_pending"
    PROVE  RecordOK(Refunded(r))
<1>1. CASE Charged(r)
  <2> DEFINE k == r.rounds - 1
             m == r.tokens - CallTokens
             q == [r EXCEPT !.rounds = k, !.tokens = m, !.phase = "model_ready"]
  <2>1. /\ r \in RunRecord /\ r.rounds \in 0 .. MaxRounds /\ r.tokens \in 0 .. TokenBudget
        /\ r.rounds > 0 /\ r.tokens >= CallTokens /\ r.phase = "model_pending"
    BY <1>1, Fields, Zenon DEF RecordOK, Charged
  <2>2. k \in 0 .. MaxRounds /\ m \in 0 .. TokenBudget
    BY <2>1, ConstantsOK
  <2>3. Refunded(r) = q
    BY <2>1, Zenon DEF Refunded
  <2> HIDE DEF k, m
  <2>4. q \in RunRecord /\ q.phase = "model_ready" /\ q.status = r.status
    BY <2>1, <2>2, Names, ZenonT(30) DEF RunRecord
  <2> QED
    BY <2>1, <2>3, <2>4, Zenon DEF RecordOK
<1>2. CASE r.phase = "tool_pending"
  <2> DEFINE x == Proposed(r)
             reps == [r.repetitions EXCEPT ![x] = @ - 1]
             t == r.tool_calls - 1
             q == [r EXCEPT !.tool_calls = t, !.repetitions = reps, !.phase = "tool_ready"]
  <2>1. r \in RunRecord /\ MoreCalls(r) /\ r.tool_calls > 0 /\ r.repetitions[x] > 0
    BY <1>2, Zenon DEF RecordOK
  <2>2. x \in Tools
    BY <2>1, ProposedCall, Zenon
  <2>3. Refunded(r) = q
    BY <1>2, <2>1, ZenonT(30) DEF Refunded, RunRecord
  <2>4. /\ r.tool_calls \in 0 .. MaxToolCalls
        /\ r.repetitions \in [Tools -> 0 .. MaxRepetitions]
    BY <2>1, Fields, Zenon
  <2> HIDE DEF x
  <2>5. r.repetitions[x] \in 0 .. MaxRepetitions
    BY <2>2, <2>4, Zenon
  <2>6. t \in 0 .. MaxToolCalls /\ ~(t >= MaxToolCalls)
    BY <2>1, <2>4, ConstantsOK
  <2>7. reps \in [Tools -> 0 .. MaxRepetitions] /\ ~(reps[x] >= MaxRepetitions)
    BY <2>1, <2>2, <2>4, <2>5, ConstantsOK
  <2> HIDE DEF reps, t
  <2>8. /\ q \in RunRecord /\ q.phase = "tool_ready" /\ q.tool_calls = t
        /\ q.status = r.status /\ q.repetitions = reps /\ q.pending_calls = r.pending_calls
        /\ q.call_index = r.call_index
    BY <2>1, <2>6, <2>7, Names, ZenonT(30) DEF RunRecord
  <2> HIDE DEF q
  <2>9. MoreCalls(q) /\ Proposed(q) = x
    BY <2>1, <2>8, Zenon DEF MoreCalls, Proposed, x
  <2>10. ~ToolBudgetExhausted(q)
    BY <2>6, <2>7, <2>8, <2>9, Zenon DEF ToolBudgetExhausted
  <2> QED
    BY <1>2, <2>3, <2>8, <2>9, <2>10, Zenon DEF RecordOK
<1> QED
  BY <1>1, <1>2, Zenon

\* A reply that completed settles its reservation with the usage it reports.
LEMMA CompletedOK ==
    ASSUME NEW r, RecordOK(r), Charged(r), NEW used \in 0 .. CallTokens, NEW calls \in Replies
    PROVE  LET q == [Observed(r) EXCEPT !.tokens = @ - CallTokens + used]
           IN /\ RecordOK(Failed(q))
              /\ RecordOK([q EXCEPT !.status = "completed", !.phase = "completed",
                                    !.pending_calls = calls, !.call_index = 0])
              /\ RecordOK([q EXCEPT !.status = "ready", !.phase = "tool_gate",
                                    !.pending_calls = calls, !.call_index = 0])
<1> DEFINE o == Observed(r)
           m == o.tokens - CallTokens + used
           q == [o EXCEPT !.tokens = m]
<1>1. RecordOK(o) /\ o.phase = "model_pending" /\ o.tokens = r.tokens
  BY ObservedOK, Zenon DEF Charged
<1>7. 0 \in 0 .. MaxCalls
  BY ConstantsOK
<1>2. o \in RunRecord /\ m \in 0 .. TokenBudget
  BY <1>1, Fields, ConstantsOK DEF RecordOK, Charged
<1> HIDE DEF o, m
<1>3. q \in RunRecord /\ q.phase = "model_pending" /\ q.status # "awaiting_approval"
  BY <1>1, <1>2, ZenonT(30) DEF RecordOK, RunRecord
<1>4. RecordOK(q)
  BY <1>3, Zenon DEF RecordOK
<1> HIDE DEF q
<1>5. /\ RecordOK([q EXCEPT !.status = "completed", !.phase = "completed",
                            !.pending_calls = calls, !.call_index = 0])
      /\ RecordOK([q EXCEPT !.status = "ready", !.phase = "tool_gate",
                            !.pending_calls = calls, !.call_index = 0])
  BY <1>3, <1>7, Names, ZenonT(30) DEF RecordOK, RunRecord
<1>6. RecordOK(Failed(q))
  BY <1>4, SettlingOK, Zenon
<1> QED
  BY <1>5, <1>6, Zenon DEF o, m, q

-----------------------------------------------------------------------------
(***************************************************************************)
(* Locking: who works on the copy holds the controller lock.               *)
(***************************************************************************)
Locking ==
    /\ pc \in [Procs -> PCs]
    /\ lock \in Procs \cup {NoProc}
    /\ driverLock \in Drivers \cup {NoProc}
    /\ \A p \in Procs : pc[p] \in Working => lock = p

\* Every step keeps the run lock with the one process that works on the record.
LEMMA LockingStep ==
    ASSUME Locking, [Next]_vars
    PROVE  Locking'
<1> USE ConstantsOK DEF Locking, Procs, PCs, Working
<1>1. ASSUME NEW d \in Drivers, DriverStart(d) PROVE Locking'
  BY <1>1, Zenon DEF DriverStart, Goto, At
<1>2. ASSUME NEW d \in Drivers, DriverStep(d) PROVE Locking'
  <2> USE DEF Goto, At
  <2>1. CASE StepBegin(d)
    BY <2>1, Zenon DEF StepBegin, Lock
  <2>2. CASE StepLockFails(d)
    BY <2>2 DEF StepLockFails, lockVars
  <2>3. CASE Step(d)
    BY <2>3 DEF Step, lockVars, StepStop, StepParked, StepExpired, StepRecoveredModel,
                StepModelReady, StepToolGate, StepToolReady, StepRecoveredTool, Propose
  <2>4. CASE Save(d)
    BY <2>4 DEF Save, lockVars
  <2>5. CASE StepReturns(d)
    BY <2>5, Zenon DEF StepReturns, Unlock
  <2>6. CASE DriverParks(d)
    BY <2>6 DEF DriverParks, DriverExits
  <2>7. CASE PublishBegin(d)
    BY <2>7, Zenon DEF PublishBegin, Lock
  <2>8. CASE PublishFailure(d)
    BY <2>8, Zenon DEF PublishFailure, DriverExits, Unlock
  <2>9. CASE PublishDeadline(d)
    BY <2>9, Zenon DEF PublishDeadline, DriverExits
  <2>10. CASE StopBeforeDispatch(d)
    BY <2>10 DEF StopBeforeDispatch, Propose, lockVars
  <2>11. CASE DispatchModel(d)
    BY <2>11, Zenon DEF DispatchModel, lockVars
  <2>12. CASE ModelReturns(d)
    BY <2>12, ZenonT(30) DEF ModelReturns, ModelUnknown, ModelNotCompleted, ModelBudgetViolated,
                 ModelCompleted, Propose, lockVars
  <2>13. CASE PerformAdmission(d)
    BY <2>13 DEF PerformAdmission, ToolReply, ToolThrows, Propose, lockVars
  <2>14. CASE Effect(d)
    BY <2>14, Zenon DEF Effect, lockVars
  <2>15. CASE EffectThrows(d) \/ PerformCompletes(d)
    BY <2>15 DEF EffectThrows, PerformCompletes, ToolReply, ToolThrows, Propose, lockVars
  <2> QED
    BY <1>2, <2>1, <2>2, <2>3, <2>4, <2>5, <2>6, <2>7, <2>8, <2>9, <2>10, <2>11, <2>12,
       <2>13, <2>14, <2>15 DEF DriverStep
<1>3. ASSUME NEW d \in Drivers, DriverFault(d) PROVE Locking'
  <2>1. CASE DriverThrows(d)
    BY <2>1, Zenon DEF DriverThrows, UnlockIfHeld, Unlock, Goto
  <2>2. CASE SaveUnconfirmed(d)
    BY <2>2, Zenon DEF SaveUnconfirmed, Unlock, Goto, At
  <2>3. CASE Crash(d)
    BY <2>3, Zenon DEF Crash, DriverExits, UnlockIfHeld, Unlock, Goto
  <2> QED
    BY <1>3, <2>1, <2>2, <2>3, Zenon DEF DriverFault
<1>4. ASSUME NEW o \in Operators, OperatorCall(o) PROVE Locking'
  BY <1>4, ZenonT(30) DEF OperatorCall, Approve, Reconcile, OperatorRefused, OperatorEnters, Propose,
              Goto, At
<1>5. ASSUME NEW o \in Operators, OperatorFinish(o) PROVE Locking'
  BY <1>5 DEF OperatorFinish, Save, OperatorReturns, Unlock, Goto, At, lockVars
<1>6. ASSUME NEW o \in Operators, OperatorFault(o) PROVE Locking'
  BY <1>6 DEF OperatorFault, OperatorFails, SaveUnconfirmed, Unlock, Goto, At
<1>7. CASE Environment
  BY <1>7 DEF Environment, Control, Resume, ControlCommits, Expire, TokenFires, Issue, Revoke,
              GrantExpires, SetGrant, lockVars
<1>8. CASE UNCHANGED vars
  BY <1>8, Zenon DEF vars, lockVars
<1> QED
  BY <1>1, <1>2, <1>3, <1>4, <1>5, <1>6, <1>7, <1>8 DEF Next

-----------------------------------------------------------------------------
(***************************************************************************)
(* Records: the committed record and the copy are sound, and the copy is   *)
(* in the phase its holder relies on.                                      *)
(***************************************************************************)
Records ==
    /\ RecordOK(rec)
    /\ RecordOK(copy)
    /\ \A p \in Procs :
           /\ pc[p] = "admitted" \/ (pc[p] = "saving" /\ Admitting) =>
                  Charged(copy) \/ copy.phase = "tool_pending"
           /\ pc[p] \in {"dispatch", "model_out"} => Charged(copy)
           /\ pc[p] \in {"perform", "effect", "effected"} => copy.phase = "tool_pending"

\* Two processes never work on the copy at the same time.
LEMMA Alone ==
    ASSUME Locking, NEW p \in Procs, pc[p] \in Working \/ lock = NoProc,
           NEW q \in Procs, q # p
    PROVE  pc[q] \notin Working
  BY ConstantsOK, Zenon DEF Locking, Procs

\* A process that proposes a well-formed record keeps all records well formed.
LEMMA ProposalOK ==
    ASSUME Locking, Records, NEW p \in Procs, pc[p] \in Working \/ lock = NoProc,
           NEW r, RecordOK(r), NEW e, Propose(p, r, e), rec' = rec,
           e \in {"model_admitted", "tool_admitted"} => Charged(r) \/ r.phase = "tool_pending"
    PROVE  Records'
<1>1. RecordOK(rec)' /\ RecordOK(copy)'
  BY Zenon DEF Records, Propose, RecordOK, MoreCalls, ToolBudgetExhausted, Proposed
<1>2. ASSUME NEW q \in Procs, q # p PROVE pc'[q] = pc[q] /\ pc[q] \notin Working
  BY <1>2, Alone, Zenon DEF Propose, Goto, Locking
<1>3. pc'[p] = "saving"
  BY Zenon DEF Propose, Goto, Locking
<1> QED
  BY <1>1, <1>2, <1>3 DEF Records, Propose, Admitting, Working, Charged

\* A process that leaves the copy alone, or replaces it on its way out.
LEMMA MoveOK ==
    ASSUME Locking, Records, NEW p \in Procs, pc[p] \in Working \/ lock = NoProc \/ copy' = copy,
           NEW there, Goto(p, there), RecordOK(rec'), RecordOK(copy'),
           there \notin {"admitted", "saving", "dispatch", "model_out", "perform", "effect",
                         "effected"},
           copy' = copy => event' = event
    PROVE  Records'
<1>1. ASSUME NEW q \in Procs, q # p
      PROVE  pc'[q] = pc[q] /\ (pc[q] \notin Working \/ (copy' = copy /\ event' = event))
  BY <1>1, Alone, Zenon DEF Goto, Locking
<1>2. pc'[p] = there
  BY Zenon DEF Goto, Locking
<1> QED
  BY <1>1, <1>2 DEF Records, Admitting, Working, Charged, RecordOK, MoreCalls,
     ToolBudgetExhausted, Proposed

\* A new run's record is well formed.
LEMMA CreatedOK == RecordOK(Created)
<1>1. <<>> \in Replies
  <2>1. <<>> \in [1 .. 0 -> Tools] /\ 0 \in 0 .. MaxCalls
    BY ConstantsOK
  <2> QED
    BY <2>1, Zenon DEF Replies
<1>2. [t \in Tools |-> 0] \in [Tools -> 0 .. MaxRepetitions]
  BY ConstantsOK
<1>3. Created \in RunRecord
  BY <1>1, <1>2, Names, ConstantsOK DEF Created, RunRecord
<1> QED
  BY <1>3, ZenonT(30) DEF RecordOK, Created

\* The copy with the control of the committed record.
LEMMA RebasedOK ==
    ASSUME Records
    PROVE  /\ RecordOK(Rebased)
           /\ RecordOK(Settled(Rebased)) /\ Settled(Rebased).phase = copy.phase
           /\ Charged(copy) => Charged(Settled(Rebased))
<1>1. rec.control \in {"", "pause", "cancel"} /\ RecordOK(copy)
  BY Zenon DEF Records, RecordOK, RunRecord
<1>2. Rebased = copy \/ Rebased = [copy EXCEPT !.control = rec.control]
  BY Zenon DEF Rebased
<1>3. /\ RecordOK(Rebased) /\ Rebased.phase = copy.phase
      /\ Charged(copy) => Charged(Rebased)
  BY <1>1, <1>2, ControlOK, ZenonT(30)
<1> QED
  BY <1>3, SettlingOK, Zenon

\* Saving a proposal keeps all records well formed.
LEMMA SaveOK ==
    ASSUME Locking, Records, NEW p \in Procs, Save(p)
    PROVE  Records'
<1>1. pc[p] \in Working
  BY Zenon DEF Save, At, Working
<1>2. CASE SaveRefused
  <2>1. Goto(p, "returned") /\ rec' = rec /\ copy' = rec /\ event' = event
    BY <1>2, Zenon DEF Save
  <2> QED
    BY <1>1, <2>1, MoveOK, Zenon DEF Records
<1>3. CASE ~SaveRefused /\ ~Admitting
  <2>1. /\ Goto(p, "returned") /\ rec' = Settled(Rebased) /\ copy' = Settled(Rebased)
        /\ event' = event
    BY <1>3, Zenon DEF Save
  <2> QED
    BY <1>1, <2>1, RebasedOK, MoveOK
<1>4. CASE ~SaveRefused /\ Admitting
  <2>1. /\ Goto(p, "admitted") /\ rec' = Settled(Rebased) /\ copy' = Settled(Rebased)
        /\ event' = event
    BY <1>4, Zenon DEF Save
  <2>2. Charged(copy) \/ copy.phase = "tool_pending"
    BY <1>4, Zenon DEF Records, Save, At
  <2>3. RecordOK(rec') /\ RecordOK(copy') /\ (Charged(copy') \/ copy'.phase = "tool_pending")
    BY <2>1, <2>2, RebasedOK, Zenon
  <2>4. ASSUME NEW q \in Procs, q # p PROVE pc'[q] = pc[q] /\ pc[q] \notin Working
    BY <1>1, <2>1, <2>4, Alone DEF Goto, Locking
  <2>5. pc'[p] = "admitted"
    BY <2>1, Zenon DEF Goto, Locking
  <2>6. RecordOK(rec)' /\ RecordOK(copy)'
    BY <2>3, Zenon DEF RecordOK, MoreCalls, ToolBudgetExhausted, Proposed
  <2> QED
    BY <2>3, <2>4, <2>5, <2>6 DEF Records, Working, Charged
<1> QED
  BY <1>2, <1>3, <1>4, Zenon

\* Every branch of step() proposes a well-formed record.
LEMMA StepRecords ==
    ASSUME Locking, Records, NEW d \in Drivers, Step(d)
    PROVE  Records'
<1>1. d \in Procs /\ pc[d] \in Working /\ rec' = rec /\ RecordOK(copy)
  BY Zenon DEF Step, At, Working, Procs, Records
<1>2. CASE StepStop(d)
  <2> DEFINE s == IF Stopping THEN "cancelled"
                  ELSE IF pending(copy) THEN "uncertain" ELSE "paused"
             b == copy.external_outcome_unknown \/ pending(copy) \/ copy.status = "uncertain"
             r == [copy EXCEPT !.status = s, !.external_outcome_unknown = b]
  <2>1. s \in Statuses \ {"awaiting_approval"} /\ b \in BOOLEAN
    BY Names, Zenon
  <2>2. Propose(d, r, s) /\ s \notin {"model_admitted", "tool_admitted"}
    BY <1>2, Zenon DEF StepStop
  <2> HIDE DEF s, b
  <2>3. RecordOK(r)
    BY <1>1, <2>1, ZenonT(30) DEF RecordOK, RunRecord, MoreCalls, ToolBudgetExhausted, Proposed
  <2> QED
    BY <1>1, <2>2, <2>3, ProposalOK, Zenon
<1>3. CASE StepParked(d)
  BY <1>1, <1>3, MoveOK, Zenon DEF StepParked, Records
<1>4. CASE StepExpired(d)
  <2>1. PICK r \in {Unknown(copy, "failed"), Failed(copy)} : Propose(d, r, "budget_exhausted")
    BY <1>4, Zenon DEF StepExpired
  <2>2. RecordOK(r)
    BY <1>1, UnknownOK, SettlingOK, Names
  <2> QED
    BY <1>1, <2>1, <2>2, ProposalOK
<1>5. CASE StepRecoveredModel(d)
  BY <1>1, <1>5, UnknownOK, ProposalOK, Names DEF StepRecoveredModel
<1>6. CASE StepModelReady(d)
  <2>1. CASE Propose(d, Failed(copy), "budget_exhausted")
    BY <1>1, <2>1, SettlingOK, ProposalOK, Zenon
  <2>2. CASE ~ModelBudgetExhausted(copy) /\ Propose(d, ModelAdmitted(copy), "model_admitted")
    BY <1>1, <2>2, ModelAdmittedOK, ProposalOK, Zenon
  <2> QED
    BY <1>6, <2>1, <2>2, Zenon DEF StepModelReady
<1>7. CASE StepToolGate(d)
  <2>1. CASE Propose(d, CallsDone(copy), "tools_completed")
    BY <1>1, <1>7, <2>1, PhaseOK, ProposalOK, ZenonT(30) DEF StepToolGate
  <2>2. CASE Propose(d, Failed(copy), "budget_exhausted")
             \/ Propose(d, Failed(copy), "policy_denied")
    BY <1>1, <2>2, SettlingOK, ProposalOK
  <2>3. CASE /\ MoreCalls(copy) /\ ~ToolBudgetExhausted(copy)
             /\ Propose(d, Gated(copy), "approval_required")
    BY <1>1, <2>3, PhaseOK, ProposalOK, ZenonT(30)
  <2> QED
    BY <1>7, <2>1, <2>2, <2>3, Zenon DEF StepToolGate
<1>8. CASE StepToolReady(d)
  BY <1>1, <1>8, ToolAdmittedOK, ProposalOK, Zenon DEF StepToolReady
<1>9. CASE StepRecoveredTool(d)
  <2>1. copy.phase = "tool_pending" /\ Goto(d, "perform") /\ copy' = copy /\ event' = event
    BY <1>9, Zenon DEF StepRecoveredTool
  <2>2. ASSUME NEW q \in Procs, q # d PROVE pc'[q] = pc[q]
    BY <2>1, <2>2, Zenon DEF Goto, Locking
  <2>3. pc'[d] = "perform"
    BY <1>1, <2>1, Zenon DEF Goto, Locking
  <2> QED
    BY <1>1, <2>1, <2>2, <2>3, Zenon DEF Records, Admitting, Charged, RecordOK, MoreCalls,
       ToolBudgetExhausted, Proposed
<1> QED
  BY <1>2, <1>3, <1>4, <1>5, <1>6, <1>7, <1>8, <1>9 DEF Step

\* So does stopping between admission and dispatch.
LEMMA DispatchRecords ==
    ASSUME Locking, Records, NEW d \in Drivers, StopBeforeDispatch(d)
    PROVE  Records'
<1>1. d \in Procs /\ At(d, "admitted") /\ pc[d] \in Working /\ rec' = rec
  BY Zenon DEF StopBeforeDispatch, At, Working, Procs
<1>2. RecordOK(rec) /\ RecordOK(copy) /\ (Charged(copy) \/ copy.phase = "tool_pending")
  BY <1>1, Zenon DEF Records, At
<1>3. CASE Goto(d, "returned") /\ copy' = rec /\ event' = event
  BY <1>1, <1>2, <1>3, MoveOK, Zenon
<1>4. CASE /\ Goto(d, IF copy.phase = "model_pending" THEN "dispatch" ELSE "perform")
           /\ copy' = copy /\ event' = event
  <2>1. ASSUME NEW q \in Procs, q # d PROVE pc'[q] = pc[q]
    BY <1>4, <2>1, Zenon DEF Goto, Locking
  <2>2. pc'[d] = IF copy.phase = "model_pending" THEN "dispatch" ELSE "perform"
    BY <1>1, <1>4, Zenon DEF Goto, Locking
  <2> QED
    BY <1>1, <1>2, <1>4, <2>1, <2>2 DEF Records, Admitting, Charged, RecordOK, MoreCalls,
       ToolBudgetExhausted, Proposed
<1>5. CASE \E s \in {"cancelled", "failed", "paused"} :
               Propose(d, [Refunded(copy) EXCEPT !.control = rec.control, !.status = s],
                       "dispatch_suppressed")
  <2>1. PICK s \in {"cancelled", "failed", "paused"} :
               Propose(d, [Refunded(copy) EXCEPT !.control = rec.control, !.status = s],
                       "dispatch_suppressed")
    BY <1>5, Zenon
  <2>2. RecordOK(Refunded(copy)) /\ rec.control \in {"", "pause", "cancel"}
    BY <1>2, RefundedOK, Zenon DEF RecordOK, RunRecord
  <2>3. RecordOK([Refunded(copy) EXCEPT !.control = rec.control, !.status = s])
    BY <2>2, StatusOK, Names, ZenonT(30)
  <2> QED
    BY <1>1, <2>1, <2>3, ProposalOK, Zenon
<1> QED
  BY <1>3, <1>4, <1>5, ZenonT(30) DEF StopBeforeDispatch

\* So does every outcome of a model call.
LEMMA ReplyRecords ==
    ASSUME Locking, Records, NEW d \in Drivers, ModelReturns(d)
    PROVE  Records'
<1>1. d \in Procs /\ pc[d] \in Working /\ rec' = rec /\ RecordOK(copy) /\ Charged(copy)
  BY Zenon DEF ModelReturns, At, Working, Procs, Records
<1>2. Otherwise("uncertain") \in Statuses \ {"awaiting_approval"}
      /\ Otherwise("failed") \in Statuses \ {"awaiting_approval"}
  BY Names, Zenon DEF Otherwise
<1>3. CASE ModelUnknown(d)
  BY <1>1, <1>2, <1>3, UnknownOK, ProposalOK, Zenon DEF ModelUnknown
<1>4. CASE ModelNotCompleted(d)
  <2>1. RecordOK([Observed(copy) EXCEPT !.status = Otherwise("failed")])
    BY <1>1, <1>2, ObservedOK, StatusOK, ZenonT(30)
  <2> QED
    BY <1>1, <1>4, <2>1, ProposalOK, Zenon DEF ModelNotCompleted
<1>5. CASE ModelBudgetViolated(d)
  <2>1. RecordOK(Failed(Observed(copy)))
    BY <1>1, ObservedOK, SettlingOK, Zenon
  <2> QED
    BY <1>1, <1>5, <2>1, ProposalOK, Zenon DEF ModelBudgetViolated
<1>6. CASE ModelCompleted(d)
  <2>1. PICK used \in 0 .. CallTokens, calls \in Replies :
          LET r == [Observed(copy) EXCEPT !.tokens = @ - CallTokens + used]
          IN \/ Propose(d, Failed(r), "policy_denied")
             \/ Propose(d, [r EXCEPT !.status = "completed", !.phase = "completed",
                                     !.pending_calls = calls, !.call_index = 0],
                        "completed")
             \/ Propose(d, [r EXCEPT !.status = "ready", !.phase = "tool_gate",
                                     !.pending_calls = calls, !.call_index = 0],
                        "model_reply_recorded")
    BY <1>6, ZenonT(30) DEF ModelCompleted
  <2> DEFINE q == [Observed(copy) EXCEPT !.tokens = @ - CallTokens + used]
             q1 == [q EXCEPT !.status = "completed", !.phase = "completed",
                             !.pending_calls = calls, !.call_index = 0]
             q2 == [q EXCEPT !.status = "ready", !.phase = "tool_gate",
                             !.pending_calls = calls, !.call_index = 0]
  <2>2. RecordOK(Failed(q)) /\ RecordOK(q1) /\ RecordOK(q2)
    BY <1>1, CompletedOK, ZenonT(30)
  <2>3. \/ Propose(d, Failed(q), "policy_denied")
        \/ Propose(d, q1, "completed")
        \/ Propose(d, q2, "model_reply_recorded")
    BY <2>1, Zenon
  <2> HIDE DEF q, q1, q2
  <2> QED
    BY <1>1, <2>2, <2>3, ProposalOK, Zenon
<1> QED
  BY <1>3, <1>4, <1>5, <1>6, Zenon DEF ModelReturns

\* So does every outcome of a tool call.
LEMMA ToolRecords ==
    ASSUME Locking, Records, NEW d \in Drivers,
           PerformAdmission(d) \/ Effect(d) \/ EffectThrows(d) \/ PerformCompletes(d)
    PROVE  Records'
<1>1. /\ d \in Procs /\ pc[d] \in {"perform", "effect", "effected"} /\ rec' = rec
      /\ RecordOK(copy) /\ copy.phase = "tool_pending"
  BY DEF PerformAdmission, Effect, EffectThrows, PerformCompletes, At, Procs, Records
<1>2. pc[d] \in Working
  BY <1>1, Zenon DEF Working
<1>3. CASE ToolReply(d)
  <2> DEFINE r == [Observed(copy) EXCEPT !.call_index = @ + 1, !.phase = "tool_gate",
                                         !.status = "ready"]
  <2>1. RecordOK(Observed(copy)) /\ Observed(copy).phase = "tool_pending"
    BY <1>1, ObservedOK, Zenon
  <2>2. MoreCalls(Observed(copy))
    BY <2>1, Zenon DEF RecordOK
  <2>3. RecordOK(r)
    BY <2>1, <2>2, NextCallOK, ZenonT(30)
  <2> QED
    BY <1>1, <1>2, <1>3, <2>3, ProposalOK, Zenon DEF ToolReply
<1>4. CASE ToolThrows(d)
  <2>1. Otherwise("uncertain") \in Statuses \ {"awaiting_approval"}
    BY Names, Zenon DEF Otherwise
  <2> QED
    BY <1>1, <1>2, <1>4, <2>1, UnknownOK, ProposalOK, Zenon DEF ToolThrows
<1>5. CASE /\ Goto(d, "effect") \/ Goto(d, "effected")
           /\ copy' = copy /\ event' = event
  <2>1. ASSUME NEW q \in Procs, q # d PROVE pc'[q] = pc[q]
    BY <1>5, <2>1, Zenon DEF Goto, Locking
  <2>2. pc'[d] \in {"effect", "effected"}
    BY <1>1, <1>5, Zenon DEF Goto, Locking
  <2> QED
    BY <1>1, <1>5, <2>1, <2>2, ZenonT(30) DEF Records, Admitting, Charged, RecordOK, MoreCalls,
       ToolBudgetExhausted, Proposed
<1> QED
  BY <1>3, <1>4, <1>5, Zenon DEF PerformAdmission, Effect, EffectThrows, PerformCompletes, copyVars

\* Every step keeps all records well formed.
LEMMA RecordsStep ==
    ASSUME Locking, Records, [Next]_vars
    PROVE  Records'
<1> USE DEF Procs
<1>1. RecordOK(rec) /\ RecordOK(copy) /\ RecordOK(Created)
  BY CreatedOK, Zenon DEF Records
<1>2. ASSUME NEW d \in Drivers, DriverStart(d) \/ StepLockFails(d) \/ DriverParks(d)
                                \/ PublishDeadline(d)
      PROVE  Records'
  <2>1. /\ rec' = rec /\ copy' = copy /\ event' = event
        /\ \E there \in {"loop", "failing", "lock_deadline", "off"} : Goto(d, there)
    BY <1>2, Zenon DEF DriverStart, StepLockFails, DriverParks, PublishDeadline, DriverExits, copyVars
  <2> QED
    BY <1>1, <2>1, MoveOK, Zenon
<1>3. ASSUME NEW d \in Drivers, StepBegin(d) \/ PublishBegin(d)
      PROVE  Records'
  <2>1. /\ lock = NoProc /\ rec' = rec /\ copy' = rec
        /\ Goto(d, "step") \/ Goto(d, "publishing")
    BY <1>3, Zenon DEF StepBegin, PublishBegin, Lock
  <2>2. ASSUME NEW q \in Procs, q # d PROVE pc'[q] = pc[q] /\ pc[q] \notin Working
    BY <2>1, <2>2, Alone, Zenon DEF Goto, Locking
  <2>3. pc'[d] \in {"step", "publishing"}
    BY <2>1, Zenon DEF Goto, Locking
  <2> QED
    BY <1>1, <2>1, <2>2, <2>3, ZenonT(30) DEF Records, Working, Admitting, Charged, RecordOK, MoreCalls,
       ToolBudgetExhausted, Proposed
<1>4. ASSUME NEW p \in Procs, pc[p] \in Working, copy' = Created,
             NEW there \in {"loop", "parking", "off", "failing"}, Goto(p, there), RecordOK(rec')
      PROVE  Records'
  <2>1. ASSUME NEW q \in Procs, q # p PROVE pc'[q] = pc[q] /\ pc[q] \notin Working
    BY <1>4, <2>1, Alone, Zenon DEF Goto, Locking
  <2>2. pc'[p] = there
    BY <1>4, Zenon DEF Goto, Locking
  <2> QED
    BY <1>1, <1>4, <2>1, <2>2, ZenonT(30) DEF Records, Working, Admitting, Charged, RecordOK, MoreCalls,
       ToolBudgetExhausted, Proposed
<1>5. ASSUME NEW p \in Procs, SaveUnconfirmed(p) PROVE Records'
  <2>1. /\ pc[p] \in Working /\ copy' = Created /\ rec' = Settled(Rebased)
        /\ \E there \in {"failing", "off"} : Goto(p, there)
    BY <1>5, ZenonT(30) DEF SaveUnconfirmed, Unlock, Forget, At, Working
  <2> QED
    BY <1>4, <2>1, RebasedOK, Zenon
<1>6. ASSUME NEW d \in Drivers, StepReturns(d) \/ PublishFailure(d) PROVE Records'
  <2>1. /\ pc[d] \in Working /\ copy' = Created
        /\ rec' = rec \/ rec' = FailureOf(copy)
        /\ \E there \in {"loop", "parking", "off"} : Goto(d, there)
    BY <1>6, ZenonT(30) DEF StepReturns, PublishFailure, DriverExits, Unlock, Forget, At, Working
  <2>2. RecordOK(rec')
    BY <1>1, <2>1, SettlingOK, Zenon
  <2> QED
    BY <1>4, <2>1, <2>2, Zenon
<1>7. ASSUME NEW d \in Drivers, DriverThrows(d) \/ Crash(d) PROVE Records'
  <2>1. /\ rec' = rec
        /\ Goto(d, "failing") \/ Goto(d, "off")
        /\ UnlockIfHeld(d)
    BY <1>7, Zenon DEF DriverThrows, Crash, DriverExits
  <2>2. CASE lock = d
    <3>1. copy' = Created
      BY <2>1, <2>2, ZenonT(30) DEF UnlockIfHeld, Unlock, Forget
    <3>2. ASSUME NEW q \in Procs, q # d PROVE pc'[q] = pc[q] /\ pc[q] \notin Working
      BY <2>1, <2>2, <3>2, Zenon DEF Goto, Locking
    <3>3. pc'[d] \in {"failing", "off"}
      BY <2>1, Zenon DEF Goto, Locking
    <3> QED
      BY <1>1, <1>7, <2>1, <3>1, <3>2, <3>3, ZenonT(30) DEF Records, Working, Admitting, Charged, RecordOK,
         MoreCalls, ToolBudgetExhausted, Proposed, DriverThrows, Crash
  <2>3. CASE lock # d
    <3>1. copy' = copy /\ event' = event
      BY <2>1, <2>3, Zenon DEF UnlockIfHeld, copyVars
    <3>2. rec' = rec
      BY <1>7, Zenon DEF DriverThrows, Crash
    <3> QED
      BY <1>1, <2>1, <3>1, <3>2, MoveOK, Zenon
  <2> QED
    BY <2>2, <2>3, Zenon
<1>8. ASSUME NEW d \in Drivers, DispatchModel(d) PROVE Records'
  <2>1. /\ rec' = rec /\ copy' = copy /\ event' = event /\ Goto(d, "model_out")
        /\ Charged(copy)
    BY <1>8, Zenon DEF DispatchModel, copyVars, Records, At
  <2>2. ASSUME NEW q \in Procs, q # d PROVE pc'[q] = pc[q]
    BY <2>1, <2>2, Zenon DEF Goto, Locking
  <2>3. pc'[d] = "model_out"
    BY <2>1, Zenon DEF Goto, Locking
  <2> QED
    BY <2>1, <2>2, <2>3, Zenon DEF Records, Admitting, Charged, RecordOK, MoreCalls,
       ToolBudgetExhausted, Proposed
<1>9. ASSUME NEW o \in Operators, OperatorCall(o) PROVE Records'
  <2>1. CASE Approve(o)
    <3> DEFINE r == [rec EXCEPT !.phase = "tool_ready", !.status = "ready"]
    <3>1. lock = NoProc /\ rec' = rec /\ rec.status = "awaiting_approval"
          /\ Propose(o, r, "operator_approved")
      BY <2>1, Zenon DEF Approve, OperatorEnters
    <3>2. RecordOK(r)
      BY <1>1, <3>1, PhaseOK, ZenonT(30) DEF RecordOK
    <3> QED
      BY <3>1, <3>2, ProposalOK, Zenon
  <2>2. CASE Reconcile(o)
    <3>1. lock = NoProc /\ rec' = rec
          /\ \E r \in Resolutions(rec) :
                 Propose(o, [r EXCEPT !.control = ""], "operator_reconciled")
      BY <2>2, ZenonT(30) DEF Reconcile, OperatorEnters
    <3>2. PICK r \in Resolutions(rec) :
                 Propose(o, [r EXCEPT !.control = ""], "operator_reconciled")
      BY <3>1, ZenonT(30)
    <3>3. rec.phase = "tool_pending" => MoreCalls(rec)
      BY <1>1, Zenon DEF RecordOK
    <3>4. RecordOK(r)
      BY <1>1, <3>3, PhaseOK, NextCallOK, ZenonT(30) DEF Resolutions
    <3>5. RecordOK([r EXCEPT !.control = ""])
      BY <3>4, ControlOK, ZenonT(30)
    <3> QED
      BY <3>1, <3>2, <3>5, ProposalOK, ZenonT(30)
  <2>3. CASE OperatorRefused(o)
    <3>1. lock = NoProc /\ rec' = rec /\ copy' = rec /\ Goto(o, "returned") /\ event' = event
      BY <2>3, Zenon DEF OperatorRefused, OperatorEnters
    <3> QED
      BY <1>1, <3>1, MoveOK, Zenon
  <2> QED
    BY <1>9, <2>1, <2>2, <2>3, Zenon DEF OperatorCall
<1>10. ASSUME NEW o \in Operators, OperatorReturns(o) \/ OperatorFails(o) PROVE Records'
  <2>1. pc[o] \in Working /\ copy' = Created /\ rec' = rec /\ Goto(o, "off")
    BY <1>10, ZenonT(30) DEF OperatorReturns, OperatorFails, Unlock, Forget, At, Working
  <2> QED
    BY <1>1, <1>4, <2>1, Zenon
<1>11. CASE Environment
  <2>1. pc' = pc /\ copy' = copy /\ event' = event
    BY <1>11, Zenon DEF Environment, Control, Resume, ControlCommits, Expire, TokenFires, Issue,
       Revoke, GrantExpires, SetGrant, copyVars
  <2>2. RecordOK(rec')
    BY <1>1, <1>11, SettlingOK, Zenon DEF Environment, Control, Resume, ControlCommits, Expire,
       TokenFires, Issue, Revoke, GrantExpires, SetGrant
  <2> QED
    BY <2>1, <2>2, ZenonT(30) DEF Records, Admitting, Charged, RecordOK, MoreCalls, ToolBudgetExhausted,
       Proposed
<1>12. CASE UNCHANGED vars
  BY <1>12 DEF vars, copyVars, Records, Admitting, Charged, RecordOK, MoreCalls,
     ToolBudgetExhausted, Proposed
<1> QED
  BY <1>2, <1>3, <1>5, <1>6, <1>7, <1>8, <1>9, <1>10, <1>11, <1>12, SaveOK, StepRecords,
     DispatchRecords, ReplyRecords, ToolRecords
     DEF Next, DriverStep, DriverFault, OperatorFinish, OperatorFault

-----------------------------------------------------------------------------
(***************************************************************************)
(* The remaining types.                                                    *)
(***************************************************************************)
Flags == stale \in BOOLEAN /\ cancelled \in BOOLEAN /\ expired \in BOOLEAN
Histories == modelCalls \in Nat /\ spent \in Int
Grants ==
    /\ grant \in [Ops -> {"none", "active", "expired", "revoked"}]
    /\ opState \in [Ops -> {"absent", "admitted", "uncertain", "completed"}]
    /\ effects \in [Ops -> Nat]

\* Every step keeps the flags and counters of the right kind.
LEMMA FlagsStep ==
    ASSUME Flags, [Next]_vars
    PROVE  Flags'
<1> USE DEF Flags
<1>1. ASSUME NEW d \in Drivers, DriverStart(d) \/ DriverStep(d) \/ DriverFault(d) PROVE Flags'
  BY <1>1, ZenonT(30) DEF DriverStart, DriverStep, DriverFault, StepBegin, StepLockFails, Step, Save,
     StepReturns, DriverParks, PublishBegin, PublishFailure, PublishDeadline,
     StopBeforeDispatch, DispatchModel, ModelReturns, PerformAdmission, Effect, EffectThrows,
     PerformCompletes, DriverThrows, SaveUnconfirmed, Crash, Lock, Unlock, UnlockIfHeld, Forget,
     copyVars, lockVars
<1>2. ASSUME NEW o \in Operators, OperatorCall(o) \/ OperatorFinish(o) \/ OperatorFault(o)
      PROVE  Flags'
  BY <1>2, ZenonT(30) DEF OperatorCall, OperatorFinish, OperatorFault, Approve, Reconcile, OperatorRefused,
     OperatorEnters, Save, OperatorReturns, OperatorFails, SaveUnconfirmed, Unlock, Forget,
     copyVars, lockVars
<1>3. CASE Environment
  BY <1>3, ZenonT(30) DEF Environment, Control, Resume, ControlCommits, Expire, TokenFires, Issue, Revoke,
     GrantExpires, SetGrant, copyVars, lockVars
<1>4. CASE UNCHANGED vars
  BY <1>4, Zenon DEF vars, copyVars, lockVars
<1> QED
  BY <1>1, <1>2, <1>3, <1>4, Zenon DEF Next

\* Every step keeps the histories of calls of the right kind.
LEMMA HistoriesStep ==
    ASSUME Histories, [Next]_vars
    PROVE  Histories'
<1> USE DEF Histories, callVars
<1>1. ASSUME NEW d \in Drivers, DispatchModel(d) PROVE Histories'
  BY <1>1, ConstantsOK DEF DispatchModel
<1>2. ASSUME NEW d \in Drivers, ModelReturns(d) PROVE Histories'
  <2>1. modelCalls' = modelCalls
    BY <1>2, Zenon DEF ModelReturns
  <2>2. spent' = spent \/ \E used \in 0 .. CallTokens : spent' = spent - CallTokens + used
    BY <1>2, ZenonT(30) DEF ModelReturns, ModelUnknown, ModelNotCompleted, ModelBudgetViolated, ModelCompleted
  <2> QED
    BY <2>1, <2>2, ConstantsOK
<1>3. ASSUME UNCHANGED callVars PROVE Histories'
  BY <1>3, Zenon
<1>4. ASSUME NEW d \in Drivers, DriverStart(d) \/ DriverStep(d) \/ DriverFault(d) PROVE Histories'
  BY <1>1, <1>2, <1>3, <1>4 DEF DriverStart, DriverStep, DriverFault, StepBegin, StepLockFails,
     Step, Save, StepReturns, DriverParks, PublishBegin, PublishFailure, PublishDeadline,
     StopBeforeDispatch, PerformAdmission, Effect, EffectThrows, PerformCompletes, DriverThrows,
     SaveUnconfirmed, Crash
<1>5. ASSUME NEW o \in Operators, OperatorCall(o) \/ OperatorFinish(o) \/ OperatorFault(o)
      PROVE  Histories'
  BY <1>3, <1>5, ZenonT(30) DEF OperatorCall, OperatorFinish, OperatorFault, Approve, Reconcile,
     OperatorRefused, OperatorEnters, Save, OperatorReturns, OperatorFails, SaveUnconfirmed
<1>6. CASE Environment
  BY <1>3, <1>6, Zenon DEF Environment, Control, Resume, ControlCommits, Expire, TokenFires, Issue,
     Revoke, GrantExpires, SetGrant
<1>7. CASE UNCHANGED vars
  BY <1>3, <1>7, Zenon DEF vars
<1> QED
  BY <1>4, <1>5, <1>6, <1>7, Zenon DEF Next

-----------------------------------------------------------------------------
(***************************************************************************)
(* Effects: an operation that ran has a receipt, and the process about to  *)
(* run one has just written it.                                            *)
(***************************************************************************)
Receipts ==
    /\ Grants
    /\ \A op \in Ops : effects[op] = 0 \/ (effects[op] = 1 /\ opState[op] # "absent")
    /\ \A p \in Procs : pc[p] = "effect" /\ Operation(copy) \in Ops =>
           effects[Operation(copy)] = 0 /\ opState[Operation(copy)] # "absent"

\* Adding one to a counter of a family of counters leaves them counters.
LEMMA Counted ==
    ASSUME NEW S, NEW f \in [S -> Nat], NEW x
    PROVE  [f EXCEPT ![x] = @ + 1] \in [S -> Nat]
<1> DEFINE g == [f EXCEPT ![x] = @ + 1]
<1>1. ASSUME NEW y \in S PROVE g[y] \in Nat
  <2>1. f[y] \in Nat /\ f[y] + 1 \in Nat
    BY <1>1
  <2>2. g[y] = f[y] \/ g[y] = f[y] + 1
    BY <1>1, Zenon
  <2> QED
    BY <2>1, <2>2, ZenonT(30)
<1>2. g = [y \in S |-> g[y]]
  BY Zenon
<1> HIDE DEF g
<1>3. g \in [S -> Nat]
  BY <1>1, <1>2, Zenon
<1> QED
  BY <1>3, Zenon DEF g

\* A step that writes no receipt and runs no effect.
LEMMA ReceiptsFrame ==
    ASSUME Locking, Receipts, UNCHANGED <<opState, effects>>, Grants',
           \A p \in Procs : pc'[p] = "effect" => pc[p] = "effect" /\ copy' = copy
    PROVE  Receipts'
  BY Zenon DEF Receipts, Operation

\* Every step keeps receipts and effects in agreement (perform in grants.cpp).
LEMMA ReceiptsStep ==
    ASSUME Locking, Receipts, [Next]_vars
    PROVE  Receipts'
<1> USE DEF Procs
<1>1. ASSUME NEW d \in Drivers, Effect(d) PROVE Receipts'
  <2>1. /\ effects' = [effects EXCEPT ![Operation(copy)] = @ + 1] /\ opState' = opState
        /\ grant' = grant /\ copy' = copy /\ Goto(d, "effected") /\ pc[d] = "effect"
    BY <1>1, Zenon DEF Effect, copyVars, At
  <2>2. ASSUME NEW q \in Procs PROVE pc'[q] # "effect"
    BY <2>1, <2>2, Alone, Zenon DEF Goto, Locking, Working
  <2>3. ASSUME NEW op \in Ops
        PROVE  effects'[op] = 0 \/ (effects'[op] = 1 /\ opState'[op] # "absent")
    <3>1. CASE op = Operation(copy)
      <4>1. effects[op] = 0 /\ opState[op] # "absent"
        BY <2>1, <2>3, <3>1, Zenon DEF Receipts
      <4> QED
        BY <2>1, <2>3, <3>1, <4>1 DEF Receipts, Grants
    <3>2. CASE op # Operation(copy)
      BY <2>1, <2>3, <3>2, Zenon DEF Receipts, Grants
    <3> QED
      BY <3>1, <3>2, Zenon
  <2>4. Grants'
    BY <2>1, Counted, Zenon DEF Receipts, Grants
  <2> QED
    BY <2>2, <2>3, <2>4, ZenonT(30) DEF Receipts
<1>2. ASSUME NEW d \in Drivers, PerformAdmission(d) PROVE Receipts'
  <2>1. pc[d] \in Working /\ effects' = effects /\ grant' = grant
    BY <1>2, Zenon DEF PerformAdmission, At, Working
  <2>2. CASE UNCHANGED opState /\ (ToolReply(d) \/ ToolThrows(d))
    <3>1. ASSUME NEW q \in Procs PROVE pc'[q] # "effect"
      BY <2>1, <2>2, <3>1, Alone DEF ToolReply, ToolThrows, Propose, Goto, Locking, Working
    <3> QED
      BY <2>1, <2>2, <3>1, ReceiptsFrame, ZenonT(30) DEF Receipts, Grants
  <2>3. CASE /\ MayPerform /\ SetOp("admitted") /\ copy' = copy /\ Goto(d, "effect")
    <3>1. ASSUME NEW q \in Procs, q # d PROVE pc'[q] # "effect"
      BY <2>1, <2>3, <3>1, Alone, Zenon DEF Goto, Locking, Working
    <3>2. /\ opState' = [opState EXCEPT ![Operation(copy)] = "admitted"]
          /\ opState[Operation(copy)] = "absent" /\ Operation(copy)' = Operation(copy)
      BY <2>3, Zenon DEF MayPerform, SetOp, Operation
    <3>3. Grants'
      BY <2>1, <3>2, ZenonT(30) DEF Receipts, Grants
    <3>4. ASSUME NEW op \in Ops
          PROVE  effects'[op] = 0 \/ (effects'[op] = 1 /\ opState'[op] # "absent")
      BY <2>1, <3>2, <3>4, Zenon DEF Receipts, Grants
    <3>5. Operation(copy) \in Ops =>
              effects'[Operation(copy)] = 0 /\ opState'[Operation(copy)] # "absent"
      BY <2>1, <3>2, Zenon DEF Receipts, Grants
    <3> QED
      BY <3>1, <3>2, <3>3, <3>4, <3>5, ZenonT(30) DEF Receipts
  <2> QED
    BY <1>2, <2>2, <2>3, Zenon DEF PerformAdmission
<1>3. ASSUME NEW d \in Drivers, EffectThrows(d) \/ PerformCompletes(d) PROVE Receipts'
  <2>1. /\ pc[d] \in Working /\ effects' = effects /\ grant' = grant
        /\ \/ opState' = opState
           \/ \E s \in {"uncertain", "completed"} :
                  opState' = [opState EXCEPT ![Operation(copy)] = s]
        /\ \E r, e : Propose(d, r, e)
    BY <1>3, Zenon DEF EffectThrows, PerformCompletes, ToolReply, ToolThrows, SetOp, At, Working
  <2>2. ASSUME NEW q \in Procs PROVE pc'[q] # "effect"
    BY <2>1, <2>2, Alone, Zenon DEF Propose, Goto, Locking, Working
  <2> QED
    BY <2>1, <2>2 DEF Receipts, Grants
<1>4. ASSUME UNCHANGED grantVars,
             \A p \in Procs : pc'[p] = "effect" => pc[p] = "effect" /\ copy' = copy
      PROVE  Receipts'
  BY <1>4, ReceiptsFrame, Zenon DEF grantVars, Receipts, Grants
<1>5. ASSUME NEW p \in Procs, pc[p] \in Working \/ lock = NoProc \/ copy' = copy,
             NEW there, there # "effect", Goto(p, there), UNCHANGED grantVars
      PROVE  Receipts'
  <2>1. ASSUME NEW q \in Procs, pc'[q] = "effect" PROVE pc[q] = "effect" /\ copy' = copy
    BY <1>5, <2>1, Alone, Zenon DEF Goto, Locking, Working
  <2> QED
    BY <1>4, <1>5, <2>1, Zenon
<1>6. ASSUME NEW d \in Drivers, DriverStart(d) \/ StepLockFails(d) \/ DriverParks(d)
                                \/ PublishDeadline(d) \/ DispatchModel(d)
      PROVE  Receipts'
  <2>1. /\ copy' = copy /\ UNCHANGED grantVars
        /\ \E there \in {"loop", "failing", "lock_deadline", "off", "model_out"} : Goto(d, there)
    BY <1>6, Zenon DEF DriverStart, StepLockFails, DriverParks, PublishDeadline, DispatchModel,
       DriverExits, copyVars
  <2> QED
    BY <1>5, <2>1, Zenon
<1>7. ASSUME NEW d \in Drivers, StepBegin(d) \/ PublishBegin(d) PROVE Receipts'
  <2>1. /\ lock = NoProc /\ UNCHANGED grantVars
        /\ \E there \in {"step", "publishing"} : Goto(d, there)
    BY <1>7, Zenon DEF StepBegin, PublishBegin, Lock
  <2> QED
    BY <1>5, <2>1, Zenon
<1>8. ASSUME NEW d \in Drivers, Step(d) PROVE Receipts'
  <2>1. /\ pc[d] \in Working /\ UNCHANGED grantVars
        /\ \E there \in {"saving", "returned", "perform"} : Goto(d, there)
    BY <1>8, Zenon DEF Step, At, Working, StepStop, StepParked, StepExpired, StepRecoveredModel,
       StepModelReady, StepToolGate, StepToolReady, StepRecoveredTool, Propose
  <2> QED
    BY <1>5, <2>1, Zenon
<1>9. ASSUME NEW d \in Drivers, StepReturns(d) \/ PublishFailure(d) \/ StopBeforeDispatch(d)
                                \/ ModelReturns(d)
      PROVE  Receipts'
  <2>1. /\ pc[d] \in Working /\ UNCHANGED grantVars
        /\ \E there \in {"loop", "parking", "off", "returned", "dispatch", "perform", "saving"} :
               Goto(d, there)
    BY <1>9, ZenonT(30) DEF StepReturns, PublishFailure, StopBeforeDispatch, ModelReturns, ModelUnknown,
       ModelNotCompleted, ModelBudgetViolated, ModelCompleted, DriverExits, Propose, At, Working
  <2> QED
    BY <1>5, <2>1, Zenon
<1>10. ASSUME NEW p \in Procs, Save(p) \/ SaveUnconfirmed(p) PROVE Receipts'
  <2>1. /\ pc[p] \in Working /\ UNCHANGED grantVars
        /\ \E there \in {"returned", "admitted", "failing", "off"} : Goto(p, there)
    BY <1>10, Zenon DEF Save, SaveUnconfirmed, At, Working
  <2> QED
    BY <1>5, <2>1, Zenon
<1>11. ASSUME NEW d \in Drivers, DriverThrows(d) \/ Crash(d) PROVE Receipts'
  <2>1. /\ UNCHANGED grantVars /\ UnlockIfHeld(d)
        /\ \E there \in {"failing", "off"} : Goto(d, there)
    BY <1>11, Zenon DEF DriverThrows, Crash, DriverExits
  <2>2. ASSUME NEW q \in Procs, pc'[q] = "effect" PROVE pc[q] = "effect" /\ copy' = copy
    BY <2>1, <2>2, Zenon DEF Goto, Locking, Working, UnlockIfHeld, copyVars
  <2> QED
    BY <1>4, <2>1, <2>2
<1>12. ASSUME NEW o \in Operators, OperatorCall(o) PROVE Receipts'
  <2>1. /\ lock = NoProc /\ UNCHANGED grantVars
        /\ \E there \in {"saving", "returned"} : Goto(o, there)
    BY <1>12, ZenonT(30) DEF OperatorCall, Approve, Reconcile, OperatorRefused, OperatorEnters, Propose
  <2> QED
    BY <1>5, <2>1, Zenon
<1>13. ASSUME NEW o \in Operators, OperatorReturns(o) \/ OperatorFails(o) PROVE Receipts'
  <2>1. pc[o] \in Working /\ UNCHANGED grantVars /\ Goto(o, "off")
    BY <1>13, Zenon DEF OperatorReturns, OperatorFails, At, Working
  <2> QED
    BY <1>5, <2>1, Zenon
<1>14. CASE Environment
  <2>1. pc' = pc /\ copy' = copy /\ UNCHANGED <<opState, effects>>
    BY <1>14, Zenon DEF Environment, Control, Resume, ControlCommits, Expire, TokenFires, Issue,
       Revoke, GrantExpires, SetGrant, copyVars, grantVars
  <2>2. grant' = grant \/ \E op \in Ops, g \in {"active", "expired", "revoked"} :
                              grant' = [grant EXCEPT ![op] = g]
    BY <1>14, Zenon DEF Environment, Control, Resume, ControlCommits, Expire, TokenFires, Issue,
       Revoke, GrantExpires, SetGrant, grantVars
  <2>3. Grants'
    BY <2>1, <2>2 DEF Receipts, Grants
  <2> QED
    BY <2>1, <2>3, ReceiptsFrame, Zenon
<1>15. CASE UNCHANGED vars
  BY <1>4, <1>15, Zenon DEF vars, copyVars
<1> QED
  BY <1>1, <1>2, <1>3, <1>6, <1>7, <1>8, <1>9, <1>10, <1>11, <1>12, <1>13, <1>14, <1>15
     DEF Next, DriverStep, DriverFault, OperatorFinish, OperatorFault

-----------------------------------------------------------------------------
(***************************************************************************)
(* Cancellation: a copy that still carries the committed revision carries  *)
(* its cancellation too, and a failure is published from an exact copy.    *)
(***************************************************************************)
Cancelling ==
    /\ AcceptedCancelWins
    /\ rec.control = "cancel" /\ lock # NoProc /\ ~stale => copy.control = "cancel"
    /\ \A p \in Procs : pc[p] = "publishing" /\ ~stale => copy = rec

\* No transformer of the driver touches the control request.
LEMMA ControlKept ==
    ASSUME NEW r \in RunRecord
    PROVE  /\ \A s : [r EXCEPT !.status = s].control = r.control
           /\ \A s, b : [r EXCEPT !.status = s, !.external_outcome_unknown = b].control = r.control
           /\ \A s : Unknown(r, s).control = r.control
           /\ Failed(r).control = r.control
           /\ ModelAdmitted(r).control = r.control
           /\ ToolAdmitted(r).control = r.control
           /\ Gated(r).control = r.control
           /\ CallsDone(r).control = r.control
           /\ FailureOf(r).control = r.control
           /\ Observed(r).control = r.control
  BY ZenonT(30) DEF RunRecord, Unknown, Failed, ModelAdmitted, ToolAdmitted, Gated, CallsDone, FailureOf,
     Observed

\* What step() proposes leaves the operator's request in the record alone.
LEMMA StepKeepsControl ==
    ASSUME Records, NEW d \in Drivers, Step(d)
    PROVE  copy'.control = copy.control
<1>1. copy \in RunRecord
  BY Zenon DEF Records, RecordOK
<1>2. CASE StepStop(d)
  BY <1>1, <1>2, ControlKept DEF StepStop, Propose
<1>3. CASE StepParked(d) \/ StepRecoveredTool(d)
  BY <1>3, Zenon DEF StepParked, StepRecoveredTool
<1>4. CASE StepExpired(d) \/ StepRecoveredModel(d)
  BY <1>1, <1>4, ControlKept DEF StepExpired, StepRecoveredModel, Propose
<1>5. CASE StepModelReady(d)
  BY <1>1, <1>5, ControlKept DEF StepModelReady, Propose
<1>6. CASE StepToolGate(d)
  BY <1>1, <1>6, ControlKept DEF StepToolGate, Propose
<1>7. CASE StepToolReady(d)
  BY <1>1, <1>7, ControlKept, Zenon DEF StepToolReady, Propose
<1> QED
  BY <1>2, <1>3, <1>4, <1>5, <1>6, <1>7, ZenonT(30) DEF Step

\* So does what it proposes when the model returns.
LEMMA ReplyKeepsControl ==
    ASSUME Records, NEW d \in Drivers, ModelReturns(d)
    PROVE  copy'.control = copy.control
<1>1. copy \in RunRecord
  BY Zenon DEF Records, RecordOK
<1>2. CASE ModelUnknown(d)
  BY <1>1, <1>2, ControlKept DEF ModelUnknown, Propose
<1>3. CASE ModelNotCompleted(d)
  BY <1>1, <1>3, ZenonT(30) DEF ModelNotCompleted, Propose, Observed, RunRecord
<1>4. CASE ModelBudgetViolated(d)
  BY <1>1, <1>4, ZenonT(30) DEF ModelBudgetViolated, Propose, Observed, Failed, RunRecord
<1>5. CASE ModelCompleted(d)
  BY <1>1, <1>5, ZenonT(30) DEF ModelCompleted, Propose, Observed, Failed, RunRecord
<1> QED
  BY <1>2, <1>3, <1>4, <1>5, ZenonT(30) DEF ModelReturns

\* And what it proposes around an effect.
LEMMA PerformKeepsControl ==
    ASSUME Records, NEW d \in Drivers, PerformAdmission(d) \/ EffectThrows(d) \/ PerformCompletes(d)
    PROVE  copy'.control = copy.control
<1>1. copy \in RunRecord
  BY Zenon DEF Records, RecordOK
<1>2. ASSUME ToolReply(d) PROVE copy'.control = copy.control
  BY <1>1, <1>2, ZenonT(30) DEF ToolReply, Propose, Observed, RunRecord
<1>3. ASSUME ToolThrows(d) PROVE copy'.control = copy.control
  BY <1>1, <1>3, ControlKept DEF ToolThrows, Propose
<1> QED
  BY <1>2, <1>3, Zenon DEF PerformAdmission, EffectThrows, PerformCompletes

\* A step of the holder, or of a process without the lock, that commits nothing.
LEMMA CancellingFrame ==
    ASSUME Locking, Cancelling, rec' = rec, stale' = stale, lock' = lock,
           NEW p \in Procs, NEW there, there # "publishing", Goto(p, there),
           pc[p] \in Working \/ copy' = copy,
           copy'.control = copy.control
    PROVE  Cancelling'
<1>1. ASSUME NEW q \in Procs, pc'[q] = "publishing" PROVE pc[q] = "publishing" /\ copy' = copy
  BY <1>1, Alone, Zenon DEF Goto, Locking, Working
<1> QED
  BY <1>1, ZenonT(30) DEF Cancelling, AcceptedCancelWins

\* A step that releases the lock of a process, or leaves it with its holder.
LEMMA CancellingRelease ==
    ASSUME Locking, Cancelling, AcceptedCancelWins', NEW p \in Procs,
           NEW there, there # "publishing", Goto(p, there),
           \/ pc[p] \in Working /\ lock' = NoProc
           \/ lock = p /\ lock' = NoProc
    PROVE  Cancelling'
<1>1. ASSUME NEW q \in Procs PROVE pc'[q] # "publishing"
  BY <1>1, Zenon DEF Goto, Locking, Working
<1> QED
  BY <1>1, Zenon DEF Cancelling

\* The settling before a save lets a requested cancel win.
LEMMA SettledWins ==
    ASSUME NEW r \in RunRecord
    PROVE  Settled(r).control = r.control
           /\ (r.control = "cancel" => Settled(r).status \in {"running", "cancelled"})
  BY Zenon DEF Settled, RunRecord

\* A stop request never takes a cancel back.
LEMMA RequestedWins ==
    ASSUME NEW r \in RunRecord, NEW action \in {"pause", "cancel"},
           r.control = "cancel" => r.status \in {"running", "cancelled"}
    PROVE  /\ r.control = "cancel" => StopRequested(r, action).control = "cancel"
           /\ StopRequested(r, action).control = "cancel" =>
                  StopRequested(r, action).status \in {"running", "cancelled"}
  BY Zenon DEF StopRequested, RunRecord

\* A failure published over a requested cancel says cancelled.
LEMMA FailureWins ==
    ASSUME NEW r \in RunRecord
    PROVE  FailureOf(r).control = "cancel" => FailureOf(r).status = "cancelled"
  BY ZenonT(30) DEF FailureOf, RunRecord

\* A save, confirmed or not, keeps an accepted cancel and a terminal record.
LEMMA SaveCancelling ==
    ASSUME Locking, Records, Cancelling, NEW p \in Procs, Save(p) \/ SaveUnconfirmed(p)
    PROVE  /\ Cancelling'
           /\ terminal(rec.status) => rec' = rec
           /\ rec.control = "cancel" => rec'.control = "cancel"
<1>1. /\ pc[p] = "saving" /\ pc[p] \in Working /\ lock = p /\ lock # NoProc
      /\ copy \in RunRecord /\ Rebased \in RunRecord
  <2>1. pc[p] = "saving" /\ pc[p] \in Working
    BY Zenon DEF Save, SaveUnconfirmed, At, Working
  <2>2. lock = p /\ lock # NoProc
    BY <2>1, ConstantsOK, Zenon DEF Locking, Procs
  <2>3. RecordOK(copy) /\ RecordOK(Rebased)
    BY RebasedOK, Zenon DEF Records
  <2> QED
    BY <2>1, <2>2, <2>3 DEF RecordOK
<1>2. rec.control = "cancel" => Rebased.control = "cancel"
  BY <1>1, ZenonT(30) DEF Rebased, Cancelling, RunRecord
<1>3. rec' = rec \/ (~terminal(rec.status) /\ rec' = Settled(Rebased))
  BY Zenon DEF Save, SaveUnconfirmed, SaveRefused
<1>4. AcceptedCancelWins'
  BY <1>1, <1>3, SettledWins, Zenon DEF Cancelling, AcceptedCancelWins
<1>5. rec.control = "cancel" => rec'.control = "cancel"
  BY <1>1, <1>2, <1>3, SettledWins, Zenon
<1>6. CASE Save(p)
  <2>1. copy' = rec' /\ \E there \in {"returned", "admitted"} : Goto(p, there)
    BY <1>6 DEF Save
  <2>2. ASSUME NEW q \in Procs PROVE pc'[q] # "publishing"
    BY <1>1, <2>1, <2>2, Alone, Zenon DEF Goto, Locking, Working
  <2> QED
    BY <1>3, <1>4, <1>5, <2>1, <2>2, Zenon DEF Cancelling
<1>7. CASE SaveUnconfirmed(p)
  <2>1. lock' = NoProc /\ \E there \in {"failing", "off"} : Goto(p, there)
    BY <1>7, Zenon DEF SaveUnconfirmed, Unlock
  <2> QED
    BY <1>1, <1>3, <1>4, <1>5, <2>1, CancellingRelease, Zenon
<1> QED
  BY <1>6, <1>7, Zenon

\* So do pause, cancel and resume (control() in runs.cpp).
LEMMA ControlCancelling ==
    ASSUME Locking, Records, Cancelling, Control("pause") \/ Control("cancel") \/ Resume
    PROVE  /\ Cancelling'
           /\ terminal(rec.status) => rec' = rec
           /\ rec.control = "cancel" => rec'.control = "cancel"
<1>1. rec \in RunRecord
  BY DEF Records, RecordOK
<1>2. stale' = (lock # NoProc) /\ UNCHANGED <<copy, pc, lock>>
  BY Zenon DEF Control, Resume, ControlCommits, lockVars
<1>3. ~stale' => lock' = NoProc
  BY <1>2, ZenonT(30)
<1>4. ASSUME NEW q \in Procs, pc'[q] = "publishing" PROVE stale'
  BY <1>2, <1>4, ConstantsOK, ZenonT(30) DEF Locking, Working, Procs
<1>5. CASE \E action \in {"pause", "cancel"} : Control(action)
  <2>1. PICK action \in {"pause", "cancel"} : Control(action)
    BY <1>5, Zenon
  <2>2. rec' = StopRequested(rec, action) /\ ~terminal(rec.status)
    BY <2>1, Zenon DEF Control, ControlCommits
  <2>3. /\ rec.control = "cancel" => rec'.control = "cancel"
        /\ AcceptedCancelWins'
    BY <1>1, <2>2, RequestedWins, Zenon DEF Cancelling, AcceptedCancelWins
  <2> QED
    BY <1>3, <1>4, <2>2, <2>3, Zenon DEF Cancelling
<1>6. CASE Resume
  <2>1. rec' = Resumed(rec) /\ rec.status = "paused"
    BY <1>6, Zenon DEF Resume, ControlCommits
  <2>2. rec'.control = "" /\ rec.control # "cancel"
    BY <1>1, <2>1, ZenonT(30) DEF Resumed, RunRecord, Cancelling, AcceptedCancelWins
  <2> QED
    BY <1>3, <1>4, <2>1, <2>2, ZenonT(30) DEF Cancelling, AcceptedCancelWins, terminal, Terminals
<1> QED
  BY <1>5, <1>6, Zenon

\* So does the failure a driver publishes when its step threw.
LEMMA PublishCancelling ==
    ASSUME Locking, Records, Cancelling, NEW d \in Drivers, PublishFailure(d)
    PROVE  /\ Cancelling'
           /\ terminal(rec.status) => rec' = rec
           /\ rec.control = "cancel" => rec'.control = "cancel"
<1>1. /\ d \in Procs /\ pc[d] = "publishing" /\ pc[d] \in Working
      /\ Goto(d, "off") /\ lock' = NoProc
  BY Zenon DEF PublishFailure, At, Procs, Working, DriverExits, Unlock
<1>2. rec' = rec \/ (rec' = FailureOf(copy) /\ copy.status \in Runnable /\ ~stale)
  BY Zenon DEF PublishFailure
<1>3. copy \in RunRecord
  BY Zenon DEF Records, RecordOK
<1>4. ~stale => copy = rec
  BY <1>1, Zenon DEF Cancelling
<1>5. AcceptedCancelWins'
  BY <1>2, <1>3, FailureWins, Zenon DEF Cancelling, AcceptedCancelWins
<1>6. rec.control = "cancel" => rec'.control = "cancel"
  BY <1>2, <1>3, <1>4, ControlKept
<1>7. terminal(rec.status) => rec' = rec
  BY <1>2, <1>4, Zenon DEF terminal, Terminals, Runnable
<1> QED
  BY <1>1, <1>5, <1>6, <1>7, CancellingRelease

\* A process that takes the lock and reads the record loses no cancel.
LEMMA EnterCancelling ==
    ASSUME Locking, Cancelling, rec' = rec, stale' = FALSE, lock = NoProc, lock' # NoProc,
           NEW p \in Procs, NEW there, Goto(p, there),
           there = "publishing" => copy' = rec,
           rec.control = "cancel" => copy'.control = "cancel"
    PROVE  Cancelling'
<1>1. ASSUME NEW q \in Procs, pc'[q] = "publishing" PROVE copy' = rec'
  BY <1>1, Alone, Zenon DEF Goto, Locking, Working
<1> QED
  BY <1>1, Zenon DEF Cancelling, AcceptedCancelWins

\* Approve and reconcile read under the lock and change nothing yet.
LEMMA OperatorCancelling ==
    ASSUME Locking, Records, Cancelling, NEW o \in Operators, OperatorCall(o)
    PROVE  Cancelling' /\ rec' = rec
<1>1. /\ rec' = rec /\ stale' = FALSE /\ lock = NoProc /\ lock' # NoProc /\ o \in Procs
      /\ \E there \in {"saving", "returned"} : Goto(o, there)
  BY ConstantsOK, ZenonT(30) DEF OperatorCall, Approve, Reconcile, OperatorRefused, OperatorEnters, Propose, Procs
<1>2. rec \in RunRecord
  BY Zenon DEF Records, RecordOK
<1>3. rec.control = "cancel" => copy'.control = "cancel"
  <2>1. CASE Approve(o)
    BY <1>2, <2>1, ZenonT(30) DEF Approve, Propose, RunRecord
  <2>2. CASE Reconcile(o)
    BY <2>2, ZenonT(30) DEF Reconcile, Cancelling, AcceptedCancelWins
  <2>3. CASE OperatorRefused(o)
    BY <2>3, Zenon DEF OperatorRefused
  <2> QED
    BY <2>1, <2>2, <2>3, Zenon DEF OperatorCall
<1> QED
  BY <1>1, <1>3, EnterCancelling, ZenonT(30)

\* Every step keeps an accepted cancel and leaves a terminal record alone.
LEMMA CancellingStep ==
    ASSUME Locking, Records, Cancelling, [Next]_vars
    PROVE  /\ Cancelling'
           /\ terminal(rec.status) => rec' = rec
           /\ rec.control = "cancel" => rec'.control = "cancel"
<1> DEFINE Goal == /\ Cancelling'
                   /\ terminal(rec.status) => rec' = rec
                   /\ rec.control = "cancel" => rec'.control = "cancel"
<1>1. ASSUME NEW d \in Drivers, DriverStart(d) \/ StepLockFails(d) \/ DriverParks(d)
                                \/ PublishDeadline(d) \/ DispatchModel(d) \/ Effect(d)
      PROVE  Goal
  <2>1. /\ copy' = copy /\ rec' = rec /\ stale' = stale /\ lock' = lock /\ d \in Procs
        /\ \E there \in {"loop", "failing", "lock_deadline", "off", "model_out", "effected"} :
               Goto(d, there)
    BY <1>1, Zenon DEF DriverStart, StepLockFails, DriverParks, PublishDeadline, DispatchModel, Effect,
       DriverExits, copyVars, lockVars, Procs
  <2> QED
    BY <2>1, CancellingFrame, Zenon
<1>2. ASSUME NEW d \in Drivers, StepBegin(d) \/ PublishBegin(d) PROVE Goal
  <2>1. /\ rec' = rec /\ stale' = FALSE /\ lock = NoProc /\ lock' # NoProc /\ d \in Procs
        /\ copy' = rec /\ \E there : Goto(d, there)
    BY <1>2, ConstantsOK DEF StepBegin, PublishBegin, Lock, Procs
  <2> QED
    BY <2>1, EnterCancelling, ZenonT(30)
<1>3. ASSUME NEW d \in Drivers, Step(d) \/ ModelReturns(d) \/ PerformAdmission(d)
                                \/ EffectThrows(d) \/ PerformCompletes(d)
      PROVE  Goal
  <2>1. /\ pc[d] \in Working /\ rec' = rec /\ stale' = stale /\ lock' = lock /\ d \in Procs
    BY <1>3, Zenon DEF Step, ModelReturns, PerformAdmission, EffectThrows, PerformCompletes, At, Working,
       lockVars, Procs
  <2>2. \E there \in {"saving", "returned", "perform", "effect"} : Goto(d, there)
    BY <1>3, ZenonT(30) DEF Step, StepStop, StepParked, StepExpired, StepRecoveredModel, StepModelReady,
       StepToolGate, StepToolReady, StepRecoveredTool, ModelReturns, ModelUnknown,
       ModelNotCompleted, ModelBudgetViolated, ModelCompleted, PerformAdmission, EffectThrows,
       PerformCompletes, ToolReply, ToolThrows, Propose
  <2>3. copy'.control = copy.control
    BY <1>3, StepKeepsControl, ReplyKeepsControl, PerformKeepsControl
  <2> QED
    BY <2>1, <2>2, <2>3, CancellingFrame
<1>4. ASSUME NEW d \in Drivers, StopBeforeDispatch(d) PROVE Goal
  <2>1. /\ pc[d] \in Working /\ rec' = rec /\ stale' = stale /\ lock' = lock /\ d \in Procs
        /\ \E there \in {"saving", "returned", "perform", "dispatch"} : Goto(d, there)
    BY <1>4, Zenon DEF StopBeforeDispatch, Propose, At, Working, lockVars, Procs
  <2>2. \/ copy' = rec \/ copy' = copy
        \/ \E s \in Statuses : copy' = [Refunded(copy) EXCEPT !.control = rec.control, !.status = s]
    BY <1>4, Names, ZenonT(30) DEF StopBeforeDispatch, Propose
  <2>3. RecordOK(Refunded(copy))
    BY <1>4, RefundedOK, Zenon DEF StopBeforeDispatch, Records, At, Procs
  <2>4. copy' = copy \/ copy'.control = rec.control
    BY <2>2, <2>3, ZenonT(30) DEF RecordOK, RunRecord
  <2>5. ASSUME NEW q \in Procs PROVE pc'[q] # "publishing"
    BY <2>1, <2>5, Alone, Zenon DEF Goto, Locking, Working
  <2> QED
    BY <2>1, <2>4, <2>5, ZenonT(30) DEF Cancelling, AcceptedCancelWins
<1>5. ASSUME NEW d \in Drivers, StepReturns(d) PROVE Goal
  <2>1. /\ pc[d] \in Working /\ rec' = rec /\ lock' = NoProc /\ d \in Procs
        /\ \E there \in {"loop", "parking"} : Goto(d, there)
    BY <1>5, Zenon DEF StepReturns, Unlock, At, Working, Procs
  <2> QED
    BY <2>1, CancellingRelease, ZenonT(30) DEF Cancelling, AcceptedCancelWins
<1>6. ASSUME NEW d \in Drivers, DriverThrows(d) \/ Crash(d) PROVE Goal
  <2>1. /\ rec' = rec /\ d \in Procs /\ UnlockIfHeld(d)
        /\ \E there \in {"failing", "off"} : Goto(d, there)
    BY <1>6, Zenon DEF DriverThrows, Crash, DriverExits, Procs
  <2>2. CASE lock = d
    BY <2>1, <2>2, CancellingRelease, Zenon DEF UnlockIfHeld, Unlock, Cancelling, AcceptedCancelWins
  <2>3. CASE lock # d
    BY <2>1, <2>3, CancellingFrame, Zenon DEF UnlockIfHeld, copyVars
  <2> QED
    BY <2>2, <2>3
<1>7. ASSUME NEW o \in Operators, OperatorReturns(o) \/ OperatorFails(o) PROVE Goal
  <2>1. pc[o] \in Working /\ rec' = rec /\ lock' = NoProc /\ o \in Procs /\ Goto(o, "off")
    BY <1>7, Zenon DEF OperatorReturns, OperatorFails, Unlock, At, Working, Procs
  <2> QED
    BY <2>1, CancellingRelease, Zenon DEF Cancelling, AcceptedCancelWins
<1>8. ASSUME UNCHANGED <<rec, copyVars, pc, lock>> PROVE Goal
  BY <1>8, Zenon DEF Cancelling, AcceptedCancelWins, copyVars
<1>9. CASE Environment
  BY <1>8, <1>9, ControlCancelling DEF Environment, Expire, TokenFires, Issue, Revoke, GrantExpires,
     SetGrant, lockVars
<1>10. CASE UNCHANGED vars
  BY <1>8, <1>10, Zenon DEF vars, lockVars
<1>11. ASSUME NEW d \in Drivers, DriverStart(d) \/ DriverStep(d) \/ DriverFault(d) PROVE Goal
  <2>1. d \in Procs
    BY DEF Procs
  <2> QED
    BY <1>1, <1>2, <1>3, <1>4, <1>5, <1>6, <1>11, <2>1, SaveCancelling, PublishCancelling
       DEF DriverStep, DriverFault
<1>12. ASSUME NEW o \in Operators, OperatorCall(o) \/ OperatorFinish(o) \/ OperatorFault(o)
       PROVE  Goal
  <2>1. o \in Procs
    BY Zenon DEF Procs
  <2> QED
    BY <1>7, <1>12, <2>1, SaveCancelling, OperatorCancelling, Zenon DEF OperatorFinish, OperatorFault
<1> QED
  BY <1>9, <1>10, <1>11, <1>12 DEF Next


-----------------------------------------------------------------------------
(***************************************************************************)
(* Phases: who holds the lock works on a copy in the phase of the record,  *)
(* an admission is proposed only over a phase that is ready for it, and a  *)
(* call is under way only while the record says that one is pending.       *)
(***************************************************************************)
FitsStatus(r) ==
    /\ pending(r) => r.status \notin {"ready", "paused", "awaiting_approval"}
    /\ r.phase = "approval_wait" => r.status \notin Runnable
    /\ r.status = "running" => pending(r)

Calling == {"admitted", "dispatch", "model_out", "perform", "effect", "effected"}
Admissions == {"model_admitted", "tool_admitted"}

Phasing ==
    /\ FitsStatus(rec) /\ FitsStatus(copy)
    /\ \A p \in Procs :
           /\ pc[p] = "step" => copy.phase = rec.phase
           /\ pc[p] = "saving" /\ event \in Admissions => rec.phase \in {"model_ready", "tool_ready"}
           /\ pc[p] = "saving" /\ event \notin Admissions => (pending(copy) => pending(rec))
           /\ pc[p] \in Calling => pending(rec)

\* A step of one process that leaves its own place in order: nobody else works on the copy,
\* or the step touches neither the copy nor the record.
LEMMA PhasingMove ==
    ASSUME Locking, Phasing, NEW p \in Procs, NEW there, Goto(p, there),
           FitsStatus(rec'), FitsStatus(copy'),
           \/ pc[p] \in Working \/ lock = NoProc
           \/ copy' = copy /\ event' = event /\ rec' = rec,
           there = "step" => copy'.phase = rec'.phase,
           there = "saving" /\ event' \in Admissions => rec'.phase \in {"model_ready", "tool_ready"},
           there = "saving" /\ event' \notin Admissions => (pending(copy') => pending(rec')),
           there \in Calling => pending(rec')
    PROVE  Phasing'
<1>1. pc'[p] = there
  BY Zenon DEF Goto, Locking
<1>2. ASSUME NEW q \in Procs, q # p
      PROVE  pc'[q] = pc[q] /\ (pc[q] \notin Working \/ (copy' = copy /\ event' = event /\ rec' = rec))
  BY <1>2, Alone, Zenon DEF Goto, Locking
<1>3. Calling \cup {"step", "saving"} \subseteq Working
  BY Zenon DEF Calling, Working
<1>4. (FitsStatus(rec) /\ FitsStatus(copy))'
  BY Zenon DEF FitsStatus, pending
<1>5. ASSUME NEW q \in Procs
      PROVE  /\ pc'[q] = "step" => copy'.phase = rec'.phase
             /\ pc'[q] = "saving" /\ event' \in Admissions
                    => rec'.phase \in {"model_ready", "tool_ready"}
             /\ pc'[q] = "saving" /\ event' \notin Admissions => (pending(copy') => pending(rec'))
             /\ pc'[q] \in Calling => pending(rec')
  <2>1. CASE q = p
    BY <1>1, <2>1, Zenon
  <2>2. CASE q # p
    BY <1>2, <1>3, <2>2, Zenon DEF Phasing
  <2> QED BY <2>1, <2>2, Zenon
<1> QED BY <1>4, <1>5, Zenon DEF Phasing, pending

\* What step() proposes fits: an outcome is not running, an admission is running and
\* pending, and the end of a reply's calls leaves a status that is not running.
LEMMA ProposalsFit ==
    ASSUME NEW r \in RunRecord, FitsStatus(r)
    PROVE  /\ \A s \in {"cancelled", "failed", "uncertain"} : FitsStatus(Unknown(r, s))
           /\ FitsStatus(Failed(r))
           /\ FitsStatus(ModelAdmitted(r)) /\ FitsStatus(ToolAdmitted(r)) /\ FitsStatus(Gated(r))
           /\ r.phase = "tool_gate" => FitsStatus(CallsDone(r))
<1> USE DEF RunRecord, FitsStatus, pending, Pendings, Runnable
<1>1. \A s \in {"cancelled", "failed", "uncertain"} : FitsStatus(Unknown(r, s))
  BY Zenon DEF Unknown
<1>2. FitsStatus(Failed(r))
  BY Zenon DEF Failed
<1>3. FitsStatus(ModelAdmitted(r)) /\ FitsStatus(ToolAdmitted(r)) /\ FitsStatus(Gated(r))
  BY Zenon DEF ModelAdmitted, ToolAdmitted, Gated
<1>4. r.phase = "tool_gate" => FitsStatus(CallsDone(r))
  BY ZenonT(30) DEF CallsDone
<1> QED BY <1>1, <1>2, <1>3, <1>4, ZenonT(30)

\* What others make of a record fits as well, and stays in its phase.
LEMMA RequestsFit ==
    ASSUME NEW r \in RunRecord, FitsStatus(r)
    PROVE  /\ \A a \in {"pause", "cancel"} :
                  FitsStatus(StopRequested(r, a)) /\ StopRequested(r, a).phase = r.phase
           /\ Resumed(r).phase = r.phase /\ (~pending(r) => FitsStatus(Resumed(r)))
           /\ FitsStatus(FailureOf(r)) /\ FailureOf(r).phase = r.phase
           /\ FitsStatus(Settled(r)) /\ Settled(r).phase = r.phase
           /\ \A c : FitsStatus([r EXCEPT !.control = c]) /\ [r EXCEPT !.control = c].phase = r.phase
<1>1. ASSUME NEW a \in {"pause", "cancel"}
      PROVE  FitsStatus(StopRequested(r, a)) /\ StopRequested(r, a).phase = r.phase
  <2> DEFINE q == StopRequested(r, a)
  <2>1. /\ q.phase = r.phase
        /\ r.status = "running" => q.status = "running"
        /\ r.status # "running" => q.status \in {"cancelled", "uncertain", "paused"}
        /\ r.status # "running" /\ pending(r) => q.status # "paused"
    BY Zenon DEF StopRequested, RunRecord
  <2> HIDE DEF q
  <2>2. FitsStatus(q)
    BY <2>1 DEF FitsStatus, pending, Runnable
  <2> QED BY <2>1, <2>2, Zenon DEF q
<1> USE DEF RunRecord, FitsStatus, pending, Pendings, Runnable
<1>2. Resumed(r).phase = r.phase /\ (~pending(r) => FitsStatus(Resumed(r)))
  BY Zenon DEF Resumed
<1>3. FitsStatus(FailureOf(r)) /\ FailureOf(r).phase = r.phase
  BY Zenon DEF FailureOf
<1>4. FitsStatus(Settled(r)) /\ Settled(r).phase = r.phase
  BY Zenon DEF Settled
<1>5. \A c : FitsStatus([r EXCEPT !.control = c]) /\ [r EXCEPT !.control = c].phase = r.phase
  BY Zenon
<1> QED BY <1>1, <1>2, <1>3, <1>4, <1>5, ZenonT(30)

\* step() under the lock.
LEMMA StepPhasing ==
    ASSUME Locking, Records, Phasing, NEW d \in Drivers, Step(d)
    PROVE  Phasing'
<1>1. /\ d \in Procs /\ pc[d] = "step" /\ pc[d] \in Working /\ rec' = rec
      /\ copy \in RunRecord /\ FitsStatus(copy) /\ FitsStatus(rec) /\ copy.phase = rec.phase
  BY Zenon DEF Step, At, Procs, Working, Phasing, Records, RecordOK
<1>2. ASSUME NEW r, NEW e, e \notin Admissions, Propose(d, r, e), FitsStatus(r),
             r.phase = copy.phase \/ ~pending(r)
      PROVE  Phasing'
  BY <1>1, <1>2, PhasingMove, Zenon DEF Propose, Calling, pending
<1>3. CASE StepStop(d)
  <2> DEFINE s == IF Stopping THEN "cancelled" ELSE IF pending(copy) THEN "uncertain" ELSE "paused"
             b == copy.external_outcome_unknown \/ pending(copy) \/ copy.status = "uncertain"
  <2>1. Propose(d, [copy EXCEPT !.status = s, !.external_outcome_unknown = b], s)
    BY <1>3, Zenon DEF StepStop
  <2>2. s \notin Admissions /\ s # "running" /\ s \notin Runnable /\ (pending(copy) => s # "paused")
        /\ s \notin {"ready", "awaiting_approval"}
    BY Zenon DEF Admissions, Runnable
  <2> HIDE DEF s, b
  <2>3. /\ FitsStatus([copy EXCEPT !.status = s, !.external_outcome_unknown = b])
        /\ [copy EXCEPT !.status = s, !.external_outcome_unknown = b].phase = copy.phase
    BY <1>1, <2>2, ZenonT(30) DEF FitsStatus, pending, RunRecord
  <2> QED BY <1>2, <2>1, <2>2, <2>3, Zenon
<1>4. CASE StepParked(d)
  BY <1>1, <1>4, PhasingMove, Zenon DEF StepParked, Calling
<1>5. CASE StepExpired(d)
  <2>1. /\ Unknown(copy, "failed").phase = copy.phase /\ Failed(copy).phase = copy.phase
        /\ "budget_exhausted" \notin Admissions
    BY <1>1, ZenonT(30) DEF Unknown, Failed, RunRecord, Admissions
  <2> QED BY <1>1, <1>2, <1>5, <2>1, ProposalsFit DEF StepExpired
<1>6. CASE StepRecoveredModel(d)
  <2>1. Unknown(copy, "uncertain").phase = copy.phase /\ "reconciliation_required" \notin Admissions
    BY <1>1, ZenonT(30) DEF Unknown, RunRecord, Admissions
  <2> QED BY <1>1, <1>2, <1>6, <2>1, ProposalsFit, Zenon DEF StepRecoveredModel
<1>7. ASSUME NEW r, NEW e \in Admissions, Propose(d, r, e), FitsStatus(r),
             copy.phase \in {"model_ready", "tool_ready"}
      PROVE  Phasing'
  BY <1>1, <1>7, PhasingMove, Zenon DEF Propose, Calling
<1>8. CASE StepModelReady(d)
  <2>1. /\ Failed(copy).phase = copy.phase /\ "budget_exhausted" \notin Admissions
        /\ "model_admitted" \in Admissions
    BY <1>1, ZenonT(30) DEF Failed, RunRecord, Admissions
  <2> QED BY <1>1, <1>2, <1>7, <1>8, <2>1, ProposalsFit, Zenon DEF StepModelReady
<1>9. CASE StepToolGate(d)
  <2>1. /\ Failed(copy).phase = copy.phase /\ ~pending(CallsDone(copy)) /\ ~pending(Gated(copy))
        /\ {"tools_completed", "budget_exhausted", "policy_denied", "approval_required"}
               \cap Admissions = {}
    BY <1>1, ZenonT(30) DEF Failed, CallsDone, Gated, pending, Pendings, RunRecord, Admissions
  <2> QED BY <1>1, <1>2, <1>9, <2>1, ProposalsFit, Zenon DEF StepToolGate
<1>10. CASE StepToolReady(d)
  <2>1. "tool_admitted" \in Admissions
    BY Zenon DEF Admissions
  <2> QED BY <1>1, <1>7, <1>10, <2>1, ProposalsFit DEF StepToolReady
<1>11. CASE StepRecoveredTool(d)
  <2>1. pending(rec)
    BY <1>1, <1>11, Zenon DEF StepRecoveredTool, pending, Pendings
  <2> QED BY <1>1, <1>11, <2>1, PhasingMove, Zenon DEF StepRecoveredTool
<1> QED
  BY <1>3, <1>4, <1>5, <1>6, <1>8, <1>9, <1>10, <1>11 DEF Step

\* The calls a driver makes under the lock: whatever their outcome, the record still says
\* that a call is pending until the outcome is saved.
LEMMA CallPhasing ==
    ASSUME Locking, Records, Phasing, NEW d \in Drivers,
           StopBeforeDispatch(d) \/ DispatchModel(d) \/ ModelReturns(d) \/ PerformAdmission(d)
               \/ Effect(d) \/ EffectThrows(d) \/ PerformCompletes(d)
    PROVE  Phasing'
<1>1. /\ d \in Procs /\ pc[d] \in Calling /\ pc[d] \in Working /\ rec' = rec
      /\ copy \in RunRecord /\ FitsStatus(copy) /\ FitsStatus(rec) /\ pending(rec)
  <2>1. pc[d] \in Calling /\ rec' = rec /\ d \in Procs
    BY Zenon DEF StopBeforeDispatch, DispatchModel, ModelReturns, PerformAdmission, Effect, EffectThrows,
       PerformCompletes, At, Calling, Procs
  <2> QED BY <2>1, Zenon DEF Calling, Working, Phasing, Records, RecordOK
<1>2. ASSUME NEW r, NEW e, e \notin Admissions, Propose(d, r, e), FitsStatus(r)
      PROVE  Phasing'
  BY <1>1, <1>2, PhasingMove, Zenon DEF Propose, Calling
<1>3. ASSUME NEW there, there \notin {"step", "saving"}, Goto(d, there), copy' = copy \/ copy' = rec
      PROVE  Phasing'
  BY <1>1, <1>3, PhasingMove
<1>4. {"dispatch_suppressed", "reconciliation_required", "model_not_completed", "budget_exhausted",
       "policy_denied", "completed", "model_reply_recorded", "tool_reply_recorded"}
          \cap Admissions = {}
  BY DEF Admissions
<1>5. Otherwise("uncertain") \in {"cancelled", "uncertain"} /\ Otherwise("failed") \in {"cancelled", "failed"}
  BY Zenon DEF Otherwise
<1>6. CASE StopBeforeDispatch(d)
  <2> DEFINE s == IF LiveStop THEN "cancelled" ELSE IF expired THEN "failed" ELSE "paused"
             r == [Refunded(copy) EXCEPT !.control = rec.control, !.status = s]
  <2>1. ~pending(r) /\ r.status \in {"cancelled", "failed", "paused"}
    BY <1>1, ZenonT(30) DEF Refunded, RunRecord, pending, Pendings
  <2> HIDE DEF r
  <2>2. FitsStatus(r) /\ ~pending(r)
    BY <2>1, Zenon DEF FitsStatus, pending, Pendings, Runnable
  <2> USE DEF r
  <2> QED BY <1>2, <1>3, <1>4, <1>6, <2>2, Zenon DEF StopBeforeDispatch
<1>7. CASE DispatchModel(d) \/ Effect(d)
  BY <1>3, <1>7, Zenon DEF DispatchModel, Effect, copyVars
<1>8. ASSUME NEW e \in {"reconciliation_required", "model_not_completed"},
             Propose(d, Unknown(copy, Otherwise("uncertain")), e)
      PROVE  Phasing'
  BY <1>1, <1>2, <1>4, <1>5, <1>8, ProposalsFit
<1>9. CASE ModelReturns(d)
  <2>1. CASE ModelUnknown(d)
    BY <1>8, <2>1, Zenon DEF ModelUnknown
  <2>2. ASSUME NEW r, NEW s \in {"cancelled", "failed", "completed"}, r.status = s
        PROVE  FitsStatus(r)
    BY <2>2, Zenon DEF FitsStatus, Runnable
  <2>3. CASE ModelNotCompleted(d)
    <3>1. [Observed(copy) EXCEPT !.status = Otherwise("failed")].status = Otherwise("failed")
      BY <1>1, Zenon DEF Observed, RunRecord
    <3> QED BY <1>2, <1>4, <1>5, <2>2, <2>3, <3>1, ZenonT(30) DEF ModelNotCompleted
  <2>4. CASE ModelBudgetViolated(d)
    <3>1. Failed(Observed(copy)).status = "failed"
      BY <1>1, ZenonT(30) DEF Observed, Failed, RunRecord
    <3> QED BY <1>2, <1>4, <2>2, <2>4, <3>1 DEF ModelBudgetViolated
  <2>5. CASE ModelCompleted(d)
    <3>1. PICK used \in 0 .. CallTokens, calls \in Replies :
              LET r == [Observed(copy) EXCEPT !.tokens = @ - CallTokens + used]
              IN \/ Propose(d, Failed(r), "policy_denied")
                 \/ Propose(d, [r EXCEPT !.status = "completed", !.phase = "completed",
                                         !.pending_calls = <<>>, !.call_index = 0],
                            "completed")
                 \/ Propose(d, [r EXCEPT !.status = "ready", !.phase = "tool_gate",
                                         !.pending_calls = calls, !.call_index = 0],
                            "model_reply_recorded")
      BY <2>5, ZenonT(30) DEF ModelCompleted
    <3> DEFINE r == [Observed(copy) EXCEPT !.tokens = @ - CallTokens + used]
               r1 == Failed(r)
               r2 == [r EXCEPT !.status = "completed", !.phase = "completed",
                               !.pending_calls = <<>>, !.call_index = 0]
               r3 == [r EXCEPT !.status = "ready", !.phase = "tool_gate",
                               !.pending_calls = calls, !.call_index = 0]
    <3>2. r1.status = "failed" /\ r2.status = "completed" /\ r3.status = "ready" /\ r3.phase = "tool_gate"
      BY <1>1, ZenonT(30) DEF Observed, Failed, RunRecord
    <3>3. \/ Propose(d, r1, "policy_denied") \/ Propose(d, r2, "completed")
          \/ Propose(d, r3, "model_reply_recorded")
      BY <3>1, Zenon
    <3> HIDE DEF r1, r2, r3
    <3>4. FitsStatus(r1) /\ FitsStatus(r2)
      BY <2>2, <3>2, Zenon
    <3>5. FitsStatus(r3)
      BY <3>2, Zenon DEF FitsStatus, pending, Pendings
    <3> QED BY <1>2, <1>4, <3>3, <3>4, <3>5
  <2> QED BY <1>9, <2>1, <2>3, <2>4, <2>5 DEF ModelReturns
<1>10. ASSUME ToolReply(d) PROVE Phasing'
  <2> DEFINE r == [Observed(copy) EXCEPT !.call_index = @ + 1, !.phase = "tool_gate",
                                         !.status = "ready"]
  <2>1. r.status = "ready" /\ r.phase = "tool_gate"
    BY <1>1, ZenonT(30) DEF Observed, RunRecord
  <2>2. Propose(d, r, "tool_reply_recorded")
    BY <1>10 DEF ToolReply
  <2> HIDE DEF r
  <2>3. FitsStatus(r)
    BY <2>1, Zenon DEF FitsStatus, pending, Pendings
  <2> QED BY <1>2, <1>4, <2>2, <2>3
<1>11. CASE PerformAdmission(d) \/ EffectThrows(d) \/ PerformCompletes(d)
  BY <1>3, <1>8, <1>10, <1>11 DEF PerformAdmission, EffectThrows, PerformCompletes, ToolThrows
<1> QED
  BY <1>6, <1>7, <1>9, <1>11, Zenon

\* A save, confirmed or not: an admission is committed only over a ready run without a
\* request, and any other save commits a pending phase only over a pending one.
LEMMA SavePhasing ==
    ASSUME Locking, Records, Phasing, NEW p \in Procs, Save(p) \/ SaveUnconfirmed(p)
    PROVE  /\ Phasing'
           /\ ~pending(rec) /\ pending(rec') => rec.status = "ready" /\ rec.control = ""
<1>1. /\ pc[p] = "saving" /\ pc[p] \in Working
      /\ rec \in RunRecord /\ copy \in RunRecord /\ RecordOK(rec)
      /\ FitsStatus(rec) /\ FitsStatus(copy)
  BY Zenon DEF Save, SaveUnconfirmed, At, Working, Phasing, Records, RecordOK
<1>2. Rebased \in RunRecord /\ FitsStatus(Rebased) /\ Rebased.phase = copy.phase
  <2>1. RecordOK(Rebased)
    BY RebasedOK
  <2> QED BY <1>1, <2>1, RequestsFit DEF Rebased, RecordOK
<1>3. FitsStatus(Settled(Rebased)) /\ Settled(Rebased).phase = copy.phase
  BY <1>2, RequestsFit
<1>4. rec' = rec \/ (~SaveRefused /\ rec' = Settled(Rebased))
  BY Zenon DEF Save, SaveUnconfirmed
<1>5. FitsStatus(rec')
  BY <1>1, <1>3, <1>4, Zenon
<1>6. ASSUME ~pending(rec), pending(rec')
      PROVE  rec.status = "ready" /\ rec.control = ""
  <2>1. ~SaveRefused /\ pending(copy)
    BY <1>3, <1>4, <1>6, Zenon DEF pending
  <2>2. event \in Admissions /\ rec.phase \in {"model_ready", "tool_ready"}
    BY <1>1, <1>6, <2>1, Zenon DEF Phasing
  <2>3. /\ rec.status \notin Terminals \cup {"paused", "uncertain"}
        /\ rec.control \notin {"pause", "cancel"}
    BY <2>1, <2>2, Zenon DEF SaveRefused, Admitting, Admissions, terminal
  <2>4. rec.status # "running" /\ rec.status # "awaiting_approval"
    BY <1>1, <1>6, <2>2, Zenon DEF FitsStatus, RecordOK
  <2>5. rec.status \in Statuses /\ rec.control \in {"", "pause", "cancel"}
    BY <1>1, Zenon DEF RunRecord
  <2>6. rec.status = "ready"
    BY <2>3, <2>4, <2>5, ZenonT(30) DEF Statuses, Runnable
  <2>7. rec.control = ""
    BY <2>3, <2>5, Zenon
  <2> QED BY <2>6, <2>7, ZenonT(30)
<1>7. CASE Save(p)
  <2>1. CASE SaveRefused
    BY <1>1, <1>7, <2>1, PhasingMove, ZenonT(30) DEF Save, Calling
  <2>2. CASE ~SaveRefused
    <3>1. /\ rec' = Settled(Rebased) /\ copy' = Settled(Rebased)
          /\ Goto(p, IF Admitting THEN "admitted" ELSE "returned")
      BY <1>7, <2>2, Zenon DEF Save
    <3>2. Admitting => pending(rec')
      <4>1. Admitting => pending(copy)
        BY <1>1, Zenon DEF Records, Charged, pending, Pendings
      <4> QED BY <1>3, <3>1, <4>1, Zenon DEF pending
    <3> DEFINE there == IF Admitting THEN "admitted" ELSE "returned"
    <3>3. there \notin {"step", "saving"} /\ (there \in Calling => Admitting)
      BY Zenon DEF Calling
    <3> HIDE DEF there
    <3>4. Goto(p, there)
      BY <3>1, Zenon DEF there
    <3>5. FitsStatus(rec') /\ FitsStatus(copy')
      BY <1>3, <3>1, Zenon
    <3>6. Phasing'
      BY <1>1, <3>2, <3>3, <3>4, <3>5, PhasingMove, Zenon
    <3> QED BY <1>6, <3>6, ZenonT(30)
  <2> QED BY <1>6, <2>1, <2>2, ZenonT(30)
<1>8. CASE SaveUnconfirmed(p)
  <2>1. /\ copy' = Created /\ \E there \in {"failing", "off"} : Goto(p, there)
    BY <1>8, ZenonT(30) DEF SaveUnconfirmed, Unlock, Forget
  <2>2. FitsStatus(Created)
    BY Zenon DEF Created, FitsStatus, pending, Pendings
  <2> QED BY <1>1, <1>5, <1>6, <2>1, <2>2, PhasingMove, ZenonT(30) DEF Calling
<1> QED BY <1>6, <1>7, <1>8, ZenonT(30)

\* Every step keeps the phases in order, and admits work only of a ready run.
LEMMA PhasingStep ==
    ASSUME Locking, Records, Cancelling, Phasing, [Next]_vars
    PROVE  /\ Phasing'
           /\ ~pending(rec) /\ pending(rec') => rec.status = "ready" /\ rec.control = ""
<1> DEFINE Legal == ~pending(rec) /\ pending(rec') => rec.status = "ready" /\ rec.control = ""
           Goal == Phasing' /\ Legal
<1>1. /\ rec \in RunRecord /\ copy \in RunRecord /\ FitsStatus(rec) /\ FitsStatus(copy)
      /\ FitsStatus(Created)
  BY Zenon DEF Records, RecordOK, Phasing, Created, FitsStatus, pending, Pendings
<1>2. ASSUME rec'.phase = rec.phase PROVE Legal
  BY <1>2, ZenonT(30) DEF pending
<1> HIDE DEF Legal
<1>3. ASSUME NEW d \in Drivers, DriverStart(d) \/ StepLockFails(d) \/ DriverParks(d)
                                \/ PublishDeadline(d)
      PROVE  Goal
  <2>1. /\ rec' = rec /\ copy' = copy /\ event' = event /\ d \in Procs
        /\ \E there \in {"loop", "failing", "lock_deadline", "off"} : Goto(d, there)
    BY <1>3, Zenon DEF DriverStart, StepLockFails, DriverParks, PublishDeadline, DriverExits, copyVars, Procs
  <2> QED BY <1>1, <1>2, <2>1, PhasingMove, Zenon DEF Calling
<1>4. ASSUME NEW d \in Drivers, StepBegin(d) \/ PublishBegin(d) PROVE Goal
  <2>1. /\ lock = NoProc /\ rec' = rec /\ copy' = rec /\ d \in Procs
        /\ \E there \in {"step", "publishing"} : Goto(d, there)
    BY <1>4, Zenon DEF StepBegin, PublishBegin, Lock, Procs
  <2> QED BY <1>1, <1>2, <2>1, PhasingMove, Zenon DEF Calling
<1>5. ASSUME NEW d \in Drivers, StepReturns(d) \/ PublishFailure(d) PROVE Goal
  <2>1. /\ pc[d] \in Working /\ copy' = Created /\ d \in Procs
        /\ \E there \in {"loop", "parking", "off"} : Goto(d, there)
    BY <1>5, ZenonT(30) DEF StepReturns, PublishFailure, DriverExits, Unlock, Forget, At, Working, Procs
  <2>2. rec' = rec \/ (rec' = FailureOf(copy) /\ copy = rec)
    BY <1>5, Zenon DEF StepReturns, PublishFailure, Cancelling, At, Procs
  <2>3. FitsStatus(rec') /\ rec'.phase = rec.phase
    BY <1>1, <2>2, RequestsFit, Zenon
  <2> QED BY <1>1, <1>2, <2>1, <2>3, PhasingMove, Zenon DEF Calling
<1>6. ASSUME NEW d \in Drivers, DriverThrows(d) \/ Crash(d) PROVE Goal
  <2>1. /\ rec' = rec /\ UnlockIfHeld(d) /\ d \in Procs
        /\ \E there \in {"failing", "off"} : Goto(d, there)
    BY <1>6, Zenon DEF DriverThrows, Crash, DriverExits, Procs
  <2>2. CASE lock = d
    <3>1. copy' = Created
      BY <2>1, <2>2, ZenonT(30) DEF UnlockIfHeld, Unlock, Forget
    <3>2. ASSUME NEW q \in Procs PROVE pc'[q] \notin Working
      BY <2>1, <2>2, <3>2, Zenon DEF Goto, Locking, Working
    <3>3. Phasing'
      BY <1>1, <2>1, <3>1, <3>2, ZenonT(30) DEF Phasing, Working, Calling, FitsStatus, pending
    <3> QED BY <1>2, <2>1, <3>3, Zenon
  <2>3. CASE lock # d
    <3>1. copy' = copy /\ event' = event
      BY <2>1, <2>3, Zenon DEF UnlockIfHeld, copyVars
    <3> QED BY <1>1, <1>2, <2>1, <3>1, PhasingMove, Zenon DEF Calling
  <2> QED BY <2>2, <2>3, Zenon
<1>7. ASSUME NEW o \in Operators, OperatorCall(o) PROVE Goal
  <2>1. lock = NoProc /\ rec' = rec /\ o \in Procs
    BY <1>7, ZenonT(30) DEF OperatorCall, Approve, Reconcile, OperatorRefused, OperatorEnters, Procs
  <2>2. ASSUME NEW r, NEW e, e \notin Admissions, Propose(o, r, e), FitsStatus(r), ~pending(r)
        PROVE  Goal
    BY <1>1, <1>2, <2>1, <2>2, PhasingMove, Zenon DEF Propose, Calling
  <2>3. "operator_approved" \notin Admissions /\ "operator_reconciled" \notin Admissions
    BY Zenon DEF Admissions
  <2>4. CASE Approve(o)
    <3> DEFINE r == [rec EXCEPT !.phase = "tool_ready", !.status = "ready"]
    <3>1. Propose(o, r, "operator_approved") /\ r.phase = "tool_ready" /\ r.status = "ready"
      BY <1>1, <2>4, ZenonT(30) DEF Approve, RunRecord
    <3> HIDE DEF r
    <3>2. FitsStatus(r) /\ ~pending(r)
      BY <3>1, Zenon DEF FitsStatus, pending, Pendings
    <3> QED BY <2>2, <2>3, <3>1, <3>2, Zenon
  <2>5. CASE Reconcile(o)
    <3>1. PICK q \in Resolutions(rec) : Propose(o, [q EXCEPT !.control = ""], "operator_reconciled")
      BY <2>5, ZenonT(30) DEF Reconcile
    <3> DEFINE r == [q EXCEPT !.control = ""]
    <3>2. r.status \in {"failed", "ready"} /\ r.phase \in {"abandoned", "model_ready", "tool_gate"}
      BY <1>1, <3>1, ZenonT(30) DEF Resolutions, RunRecord
    <3>3. Propose(o, r, "operator_reconciled")
      BY <3>1, ZenonT(30)
    <3> HIDE DEF r
    <3>4. FitsStatus(r) /\ ~pending(r)
      BY <3>2, Zenon DEF FitsStatus, pending, Pendings
    <3> QED BY <2>2, <2>3, <3>3, <3>4, Zenon
  <2>6. CASE OperatorRefused(o)
    BY <1>1, <1>2, <2>1, <2>6, PhasingMove, Zenon DEF OperatorRefused, Calling
  <2> QED BY <1>7, <2>4, <2>5, <2>6, Zenon DEF OperatorCall
<1>8. ASSUME NEW o \in Operators, OperatorReturns(o) \/ OperatorFails(o) PROVE Goal
  <2>1. pc[o] \in Working /\ copy' = Created /\ rec' = rec /\ o \in Procs /\ Goto(o, "off")
    BY <1>8, ZenonT(30) DEF OperatorReturns, OperatorFails, Unlock, Forget, At, Working, Procs
  <2> QED BY <1>1, <1>2, <2>1, PhasingMove, Zenon DEF Calling
<1>9. ASSUME copy' = copy, event' = event, pc' = pc, FitsStatus(rec'), rec'.phase = rec.phase PROVE Goal
  <2>1. Phasing'
    BY <1>9, Zenon DEF Phasing, FitsStatus, pending
  <2> QED BY <1>2, <1>9, <2>1, Zenon
<1>10. CASE Environment
  <2>1. copy' = copy /\ event' = event /\ pc' = pc
    BY <1>10, Zenon DEF Environment, Control, Resume, ControlCommits, Expire, TokenFires, Issue,
       Revoke, GrantExpires, SetGrant, copyVars
  <2>2. \/ rec' = rec
        \/ \E a \in {"pause", "cancel"} : rec' = StopRequested(rec, a)
        \/ ~pending(rec) /\ rec' = Resumed(rec)
    BY <1>10, Zenon DEF Environment, Control, Resume, ControlCommits, Expire, TokenFires, Issue,
       Revoke, GrantExpires, SetGrant
  <2>3. FitsStatus(rec') /\ rec'.phase = rec.phase
    BY <1>1, <2>2, RequestsFit
  <2> QED BY <1>9, <2>1, <2>3, ZenonT(30) DEF Legal
<1>11. CASE UNCHANGED vars
  BY <1>1, <1>9, <1>11, ZenonT(30) DEF vars, copyVars, Legal
<1>12. ASSUME NEW d \in Drivers, Step(d) \/ StopBeforeDispatch(d) \/ DispatchModel(d) \/ ModelReturns(d)
                  \/ PerformAdmission(d) \/ Effect(d) \/ EffectThrows(d) \/ PerformCompletes(d)
       PROVE  Goal
  <2>1. rec' = rec
    BY <1>12, Zenon DEF Step, StopBeforeDispatch, DispatchModel, ModelReturns, PerformAdmission, Effect,
       EffectThrows, PerformCompletes
  <2> QED BY <1>2, <1>12, <2>1, StepPhasing, CallPhasing, Zenon
<1>13. ASSUME NEW p \in Procs, Save(p) \/ SaveUnconfirmed(p) PROVE Goal
  BY <1>13, SavePhasing, ZenonT(30) DEF Legal
<1>14. ASSUME NEW d \in Drivers, DriverStart(d) \/ DriverStep(d) \/ DriverFault(d) PROVE Goal
  <2>1. d \in Procs
    BY Zenon DEF Procs
  <2> QED BY <1>3, <1>4, <1>5, <1>6, <1>12, <1>13, <1>14, <2>1, Zenon DEF DriverStep, DriverFault
<1>15. ASSUME NEW o \in Operators, OperatorCall(o) \/ OperatorFinish(o) \/ OperatorFault(o)
       PROVE  Goal
  <2>1. o \in Procs
    BY Zenon DEF Procs
  <2> QED BY <1>7, <1>8, <1>13, <1>15, <2>1, Zenon DEF OperatorFinish, OperatorFault
<1> QED
  BY <1>10, <1>11, <1>14, <1>15, ZenonT(30) DEF Next, Legal

-----------------------------------------------------------------------------
(***************************************************************************)
(* The theorems.                                                           *)
(***************************************************************************)
IInv ==
    Locking /\ Records /\ Flags /\ Histories /\ Receipts /\ Cancelling /\ Phasing

\* The inductive invariant holds of a run that was just created.
LEMMA InitIInv == Init => IInv
<1> SUFFICES ASSUME Init PROVE IInv
  BY Zenon
<1>1. Locking
  BY ZenonT(30) DEF Init, Locking, PCs, Working
<1>2. Records
  BY CreatedOK, ZenonT(30) DEF Init, Records
<1>3. Flags /\ Histories
  <2>1. /\ stale = FALSE /\ cancelled = FALSE /\ expired = FALSE
        /\ modelCalls = 0 /\ spent = 0
    BY Zenon DEF Init
  <2>2. Flags
    BY <2>1, Zenon DEF Flags
  <2>3. Histories
    BY <2>1 DEF Histories
  <2> QED
    BY <2>2, <2>3, Zenon
<1>4. Grants /\ \A op \in Ops : effects[op] = 0
  BY ZenonT(30) DEF Init, Grants
<1>5. \A p \in Procs : pc[p] = "off"
  BY ZenonT(30) DEF Init
<1>6. rec.control = ""
  BY ZenonT(30) DEF Init, Created
<1>7. Phasing
  BY <1>5, ZenonT(30) DEF Init, Phasing, FitsStatus, Created, pending, Pendings, Calling
<1>8. Receipts /\ Cancelling
  BY <1>4, <1>5, <1>6, ZenonT(30) DEF Receipts, Cancelling, AcceptedCancelWins, Init
<1> QED
  BY <1>1, <1>2, <1>3, <1>7, <1>8, Zenon DEF IInv

\* The inductive invariant holds in every reachable state.
LEMMA Inductive == Spec => []IInv
<1>1. IInv /\ [Next]_vars => IInv'
  BY LockingStep, RecordsStep, FlagsStep, HistoriesStep, ReceiptsStep, CancellingStep, PhasingStep,
     ZenonT(30)
     DEF IInv
<1> QED
  BY <1>1, InitIInv, PTL DEF Spec

\* GrantAuthority::perform() runs the effect of an operation at most once.
THEOREM EffectOnce == Spec => []EffectAtMostOnce
<1>1. IInv => EffectAtMostOnce
  BY DEF IInv, EffectAtMostOnce, Receipts
<1> QED
  BY <1>1, Inductive, PTL

\* A run whose cancellation was accepted by control() is only ever settled as cancelled.
THEOREM CancelWins == Spec => []AcceptedCancelWins
<1>1. IInv => AcceptedCancelWins
  BY Zenon DEF IInv, Cancelling
<1> QED
  BY <1>1, Inductive, PTL

\* save(), control(), approve(), reconcile() and the failure publication of drive()
\* never rewrite a completed, failed or cancelled record.
THEOREM TerminalStays == Spec => TerminalIsFinal
<1>1. IInv /\ [Next]_vars => [terminal(rec.status) => rec' = rec]_vars
  BY CancellingStep, Zenon DEF IInv
<1> QED
  BY <1>1, Inductive, PTL DEF Spec, TerminalIsFinal

\* No committer withdraws an accepted cancellation or replaces it by a pause.
THEOREM CancelStays == Spec => CancelNotDowngraded
<1>1. IInv /\ [Next]_vars => [rec.control = "cancel" => rec'.control = "cancel"]_vars
  BY CancellingStep, Zenon DEF IInv
<1> QED
  BY <1>1, Inductive, PTL DEF Spec, CancelNotDowngraded

\* Admission: save() commits a pending phase only over a ready run without a pause or
\* cancel, so no step leaves a terminal record, a cancel or a stop behind it.
THEOREM MovesLegal == Spec => StatusMovesLegally
<1>1. IInv /\ [Next]_vars => [(~pending(rec) /\ pending(rec')) => (rec.status = "ready" /\ rec.control = "")]_vars
  BY PhasingStep, ZenonT(30) DEF IInv
<1>2. Spec => AdmittedOnlyWhenReady
  BY <1>1, Inductive, PTL DEF Spec, AdmittedOnlyWhenReady
<1> QED
  BY <1>2, TerminalStays, CancelStays, Zenon DEF StatusMovesLegally

\* The record of a run is typed and within its budgets, and its phase fits its status.
THEOREM RecordsConsistent == Spec => []RecordConsistent
<1>1. IInv => PhaseFitsStatus
  BY Zenon DEF IInv, Phasing, FitsStatus, PhaseFitsStatus
<1>2. IInv => TypeOK
  BY ZenonT(30) DEF IInv, TypeOK, Locking, Records, RecordOK, Flags, Histories, Receipts, Grants
<1>3. IInv => RecordConsistent
  BY <1>1, <1>2, Zenon DEF RecordConsistent
<1> QED
  BY <1>3, Inductive, PTL
=============================================================================
