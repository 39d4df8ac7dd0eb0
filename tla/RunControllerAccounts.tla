------------------------ MODULE RunControllerAccounts -------------------------
(***************************************************************************)
(* Every call of a run is accounted for: work is charged before it is      *)
(* dispatched, and a call whose outcome the record does not carry is       *)
(* flagged.  Accounting is preserved by Next given the invariant of        *)
(* RunControllerProofs.                                                    *)
(***************************************************************************)
EXTENDS RunControllerProofs, FiniteSetTheorems

(***************************************************************************)
(* The account: every call that went out is charged, and flagged unless    *)
(* the record carries its outcome.                                         *)
(***************************************************************************)
Performed == {op \in Ops : effects[op] > 0}

\* Nothing of what the pending phase of r was charged for has gone out.
Unspent(r) ==
    /\ modelCalls + (IF r.phase = "model_pending" THEN 1 ELSE 0) <= r.rounds
    /\ TotalEffects + (IF r.phase = "model_pending" THEN 0 ELSE 1) <= r.tool_calls
    /\ spent + (IF r.phase = "model_pending" THEN CallTokens ELSE 0) <= r.tokens
    /\ r.external_outcome_unknown \/ modelCalls + TotalEffects <= r.recorded

\* r covers what went out; one call of a running record may be without an outcome.
Account(r) ==
    /\ modelCalls <= r.rounds /\ TotalEffects <= r.tool_calls /\ spent <= r.tokens
    /\ \/ r.external_outcome_unknown
       \/ modelCalls + TotalEffects <= r.recorded + (IF r.status = "running" THEN 1 ELSE 0)
    /\ r.phase = "tool_pending" /\ Operation(r) \notin Performed => Unspent(r)

\* Requests that commit behind the back of the holder leave the counters alone.
SameWork(r, q) ==
    /\ r.phase = q.phase /\ r.rounds = q.rounds /\ r.tool_calls = q.tool_calls
    /\ r.tokens = q.tokens /\ r.call_index = q.call_index /\ r.recorded = q.recorded
    /\ q.external_outcome_unknown => r.external_outcome_unknown
    /\ q.status = "running" => r.status = "running"

\* What the place of a process asks of the copy q it works on while r is committed.
Accountable == Calling \cup {"step", "saving"}
Placed(here, e, r, q) ==
    /\ here \in Calling \cup {"step"} => SameWork(r, q)
    /\ here \in Calling \/ (here = "saving" /\ e \in Admissions) => q.status = "running"
UnspentAt(here, e) ==
    here \in {"admitted", "dispatch"} \/ (here = "saving" /\ e \in Admissions)

Accounting ==
    /\ Account(rec)
    /\ \A p \in Procs :
           /\ pc[p] \in Accountable => Account(copy)
           /\ Placed(pc[p], event, rec, copy)
           /\ UnspentAt(pc[p], event) => Unspent(copy)

-----------------------------------------------------------------------------
(***************************************************************************)
(* Counting effects.                                                       *)
(***************************************************************************)

\* A run has finitely many operations, so its effects can be counted.
LEMMA EffectsCounted ==
    IsFiniteSet(Performed) /\ TotalEffects = Cardinality(Performed) /\ TotalEffects \in Nat
<1>1. IsFiniteSet(1 .. MaxRounds) /\ IsFiniteSet(1 .. MaxCalls)
  BY FS_Interval, ConstantsOK
<1>2. IsFiniteSet(Ops)
  BY <1>1, FS_Product, ZenonT(30) DEF Ops
<1>3. IsFiniteSet(Performed)
  BY <1>2, FS_Subset, Zenon DEF Performed
<1> QED
  BY <1>3, FS_CardinalityType, Zenon DEF TotalEffects, Performed

\* The effect of an operation that had none adds one.
LEMMA OneMoreEffect ==
    ASSUME effects \in [Ops -> Nat], NEW op \in Ops, effects[op] = 0,
           effects' = [effects EXCEPT ![op] = @ + 1]
    PROVE  Performed' = Performed \cup {op} /\ TotalEffects' = TotalEffects + 1
<1>1. op \notin Performed
  BY DEF Performed
<1>2. ASSUME NEW o \in Ops PROVE effects'[o] > 0 <=> (effects[o] > 0 \/ o = op)
  BY <1>2
<1>3. Performed' = Performed \cup {op}
  BY <1>2, Zenon DEF Performed
<1>4. Cardinality(Performed \cup {op}) = Cardinality(Performed) + 1
  BY <1>1, EffectsCounted, FS_AddElement, Zenon
<1>5. TotalEffects' = Cardinality(Performed')
  BY Zenon DEF TotalEffects, Performed
<1> QED
  BY <1>3, <1>4, <1>5, EffectsCounted, Zenon

\* An effect outside the operations of the run is not counted.
LEMMA NoOtherEffect ==
    ASSUME effects \in [Ops -> Nat], NEW op, op \notin Ops,
           effects' = [effects EXCEPT ![op] = @ + 1]
    PROVE  Performed' = Performed /\ TotalEffects' = TotalEffects
<1>1. ASSUME NEW o \in Ops PROVE effects'[o] = effects[o]
  BY <1>1, Zenon
<1> QED
  BY <1>1, ZenonT(30) DEF Performed, TotalEffects

-----------------------------------------------------------------------------
(***************************************************************************)
(* What the transformers of records do to an account.                      *)
(***************************************************************************)

\* q has the counters of r, and hides no call that r shows.
Carries(q, r) ==
    /\ q.rounds = r.rounds /\ q.tool_calls = r.tool_calls
    /\ q.tokens = r.tokens /\ q.recorded = r.recorded
    /\ q.phase = "tool_pending" => r.phase = "tool_pending" /\ q.call_index = r.call_index
    /\ r.external_outcome_unknown => q.external_outcome_unknown
    /\ q.external_outcome_unknown \/ (r.status = "running" => q.status = "running")

\* An account is carried over with the counters.
LEMMA AccountCarried ==
    ASSUME Histories, NEW q, NEW r \in RunRecord, Account(r), Carries(q, r)
    PROVE  Account(q) /\ (Unspent(r) /\ q.phase = r.phase => Unspent(q))
<1>1. Operation(q) = Operation(r) \/ q.phase # "tool_pending"
  BY Zenon DEF Carries, Operation
<1>2. Unspent(r) /\ q.phase = r.phase => Unspent(q)
  BY Zenon DEF Carries, Unspent
<1>3. modelCalls <= q.rounds /\ TotalEffects <= q.tool_calls /\ spent <= q.tokens
  BY Zenon DEF Carries, Account
<1>4. \/ q.external_outcome_unknown
      \/ modelCalls + TotalEffects <= q.recorded + (IF q.status = "running" THEN 1 ELSE 0)
  <2>1. modelCalls \in Nat /\ TotalEffects \in Nat /\ r.recorded \in Nat
    BY EffectsCounted, Fields, Zenon DEF Histories
  <2> QED BY <2>1 DEF Carries, Account
<1> QED
  BY <1>1, <1>2, <1>3, <1>4, Zenon DEF Account, Carries

\* What is settled as unknown, or was not running, is carried by any change of the status,
\* the phase or the request.
LEMMA OutcomesCarry ==
    ASSUME NEW r \in RunRecord
    PROVE  /\ \A s : Carries(Unknown(r, s), r)
           /\ \A c : Carries([r EXCEPT !.control = c], r)
           /\ r.status # "running" =>
                  /\ Carries(Failed(r), r) /\ Carries(Gated(r), r) /\ Carries(CallsDone(r), r)
                  /\ Carries(Resumed(r), r)
                  /\ Carries([r EXCEPT !.phase = "tool_ready", !.status = "ready"], r)
<1> USE DEF Carries, RunRecord
<1>1. \A s : Carries(Unknown(r, s), r)
  BY Zenon DEF Unknown
<1>2. \A c : Carries([r EXCEPT !.control = c], r)
  BY Zenon
<1>3. ASSUME r.status # "running"
      PROVE  /\ Carries(Failed(r), r) /\ Carries(Gated(r), r) /\ Carries(CallsDone(r), r)
             /\ Carries(Resumed(r), r)
             /\ Carries([r EXCEPT !.phase = "tool_ready", !.status = "ready"], r)
  BY <1>3, ZenonT(30) DEF Failed, Gated, CallsDone, Resumed
<1> QED BY <1>1, <1>2, <1>3, ZenonT(30)

\* A stop of a pending run says that the outcome is unknown.
LEMMA StopsCarry ==
    ASSUME NEW r \in RunRecord, FitsStatus(r)
    PROVE  /\ \A s : Carries([r EXCEPT !.status = s, !.external_outcome_unknown =
                                   @ \/ pending(r) \/ r.status = "uncertain"], r)
           /\ Carries(FailureOf(r), r)
           /\ Carries(Settled(r), r)
           /\ \A a \in {"pause", "cancel"} : Carries(StopRequested(r, a), r)
<1>1. r.status = "running" => pending(r)
  BY Zenon DEF FitsStatus
<1>2. \A s : Carries([r EXCEPT !.status = s, !.external_outcome_unknown =
                                   @ \/ pending(r) \/ r.status = "uncertain"], r)
  BY <1>1, ZenonT(30) DEF Carries, RunRecord
<1>3. Carries(FailureOf(r), r)
  BY <1>1, ZenonT(30) DEF Carries, RunRecord, FailureOf
<1>4. Carries(Settled(r), r)
  BY Zenon DEF Carries, RunRecord, Settled
<1>5. \A a \in {"pause", "cancel"} : Carries(StopRequested(r, a), r)
  BY ZenonT(30) DEF Carries, RunRecord, StopRequested
<1> QED BY <1>2, <1>3, <1>4, <1>5, ZenonT(30)

\* An operator resolves a run that is not running.
LEMMA ResolutionsCarry ==
    ASSUME NEW r \in RunRecord, r.status # "running", NEW q \in Resolutions(r)
    PROVE  Carries([q EXCEPT !.control = ""], r)
  BY ZenonT(30) DEF Resolutions, RunRecord, Carries

\* An admission charges before anything goes out.
LEMMA AdmissionUnspent ==
    ASSUME Histories, NEW r \in RunRecord, r.status # "running", Account(r)
    PROVE  /\ Unspent(ModelAdmitted(r)) /\ Account(ModelAdmitted(r))
           /\ Unspent(ToolAdmitted(r)) /\ Account(ToolAdmitted(r))
           /\ ModelAdmitted(r).status = "running" /\ ToolAdmitted(r).status = "running"
<1>1. /\ r.rounds \in Int /\ r.tool_calls \in Int /\ r.tokens \in Int /\ r.recorded \in Nat
      /\ modelCalls \in Nat /\ spent \in Int /\ TotalEffects \in Nat /\ CallTokens \in Nat
  BY Fields, EffectsCounted, ConstantsOK DEF Histories
<1> DEFINE m == ModelAdmitted(r)
           t == ToolAdmitted(r)
<1>2. /\ m.rounds = r.rounds + 1 /\ m.tokens = r.tokens + CallTokens /\ m.tool_calls = r.tool_calls
      /\ m.recorded = r.recorded /\ m.external_outcome_unknown = r.external_outcome_unknown
      /\ m.phase = "model_pending" /\ m.status = "running"
  BY ZenonT(30) DEF ModelAdmitted, RunRecord
<1>3. /\ t.rounds = r.rounds /\ t.tokens = r.tokens /\ t.tool_calls = r.tool_calls + 1
      /\ t.recorded = r.recorded /\ t.external_outcome_unknown = r.external_outcome_unknown
      /\ t.phase = "tool_pending" /\ t.status = "running"
  BY ZenonT(30) DEF ToolAdmitted, RunRecord
<1> HIDE DEF m, t
<1>4. Unspent(m) /\ Account(m)
  BY <1>1, <1>2 DEF Account, Unspent
<1>5. Unspent(t) /\ Account(t)
  BY <1>1, <1>3 DEF Account, Unspent
<1> QED BY <1>2, <1>3, <1>4, <1>5, Zenon DEF m, t

\* A refund takes back a charge for which nothing went out.
LEMMA RefundAccount ==
    ASSUME Histories, NEW r \in RunRecord, pending(r), Unspent(r), NEW c, NEW s
    PROVE  Account([Refunded(r) EXCEPT !.control = c, !.status = s])
<1>1. /\ r.rounds \in Int /\ r.tool_calls \in Int /\ r.tokens \in Int /\ r.recorded \in Nat
      /\ modelCalls \in Nat /\ spent \in Int /\ TotalEffects \in Nat /\ CallTokens \in Nat
  BY Fields, EffectsCounted, ConstantsOK DEF Histories
<1> DEFINE q == [Refunded(r) EXCEPT !.control = c, !.status = s]
<1>2. /\ q.recorded = r.recorded /\ q.external_outcome_unknown = r.external_outcome_unknown
      /\ q.phase # "tool_pending"
      /\ r.phase = "model_pending" =>
             q.rounds = r.rounds - 1 /\ q.tokens = r.tokens - CallTokens /\ q.tool_calls = r.tool_calls
      /\ r.phase # "model_pending" =>
             q.rounds = r.rounds /\ q.tokens = r.tokens /\ q.tool_calls = r.tool_calls - 1
  BY ZenonT(30) DEF Refunded, RunRecord
<1> HIDE DEF q
<1>3. Account(q)
  BY <1>1, <1>2 DEF Account, Unspent
<1> QED BY <1>3, Zenon DEF q

\* A reply that is recorded settles the one call without an outcome.
LEMMA RecordedAccount ==
    ASSUME Histories, NEW r \in RunRecord, Account(r), NEW q,
           q.rounds = r.rounds, q.tool_calls = r.tool_calls, q.tokens = r.tokens,
           q.recorded = r.recorded + 1, q.phase # "tool_pending",
           r.external_outcome_unknown => q.external_outcome_unknown
    PROVE  Account(q)
<1>1. r.recorded \in Nat /\ modelCalls \in Nat /\ TotalEffects \in Nat
  BY Fields, EffectsCounted, Zenon DEF Histories
<1> QED BY <1>1 DEF Account

-----------------------------------------------------------------------------
(***************************************************************************)
(* Every step keeps the account.                                           *)
(***************************************************************************)
\* A step of the process that works on the copy.
LEMMA AccountingAlone ==
    ASSUME Locking, NEW p \in Procs, pc[p] \in Working \/ lock = NoProc,
           NEW there, Goto(p, there), Account(rec)',
           there \in Accountable => Account(copy)',
           Placed(there, event', rec', copy'),
           UnspentAt(there, event') => Unspent(copy)'
    PROVE  Accounting'
<1>1. pc'[p] = there
  BY Zenon DEF Goto, Locking
<1>2. ASSUME NEW q \in Procs, q # p PROVE pc'[q] \notin Working
  BY <1>2, Alone, Zenon DEF Goto, Locking
<1>3. Accountable \subseteq Working
  BY Zenon DEF Accountable, Calling, Working
<1>4. ASSUME NEW q \in Procs
      PROVE  /\ pc'[q] \in Accountable => Account(copy)'
             /\ Placed(pc'[q], event', rec', copy')
             /\ UnspentAt(pc'[q], event') => Unspent(copy)'
  <2>1. CASE q = p
    BY <1>1, <2>1
  <2>2. CASE q # p
    BY <1>2, <1>3, <2>2 DEF Placed, UnspentAt, Accountable, Calling
  <2> QED BY <2>1, <2>2
<1> QED BY <1>4 DEF Accounting, Placed, UnspentAt, SameWork

\* A step that sends nothing out leaves the account of a record as it is.
LEMMA AccountFrame ==
    ASSUME UNCHANGED <<effects, callVars>>
    PROVE  /\ Account(rec)' <=> Account(rec')
           /\ Account(copy)' <=> Account(copy')
           /\ Unspent(copy)' <=> Unspent(copy')
<1>1. /\ Performed' = Performed /\ TotalEffects' = TotalEffects
      /\ modelCalls' = modelCalls /\ spent' = spent
  BY Zenon DEF Performed, TotalEffects, callVars
<1> QED BY <1>1, Zenon DEF Account, Unspent, Operation

\* A step of the holder that sends nothing out.
LEMMA AccountingMove ==
    ASSUME Locking, NEW p \in Procs, pc[p] \in Working \/ lock = NoProc,
           NEW there, Goto(p, there), UNCHANGED <<effects, callVars>>,
           Account(rec'), there \in Accountable => Account(copy'),
           Placed(there, event', rec', copy'),
           UnspentAt(there, event') => Unspent(copy')
    PROVE  Accounting'
  BY AccountFrame, AccountingAlone, Zenon

\* A step beside the holder.
LEMMA AccountingBeside ==
    ASSUME Accounting, pc \in [Procs -> PCs], UNCHANGED <<effects, callVars, copy, event>>,
           \A p \in Procs : pc'[p] = pc[p] \/ pc'[p] \notin Accountable,
           Account(rec'), SameWork(rec, copy) => SameWork(rec', copy)
    PROVE  Accounting'
<1>1. ASSUME NEW q \in Procs
      PROVE  /\ pc'[q] \in Accountable => Account(copy)'
             /\ Placed(pc'[q], event', rec', copy')
             /\ UnspentAt(pc'[q], event') => Unspent(copy)'
  <2>1. CASE pc'[q] = pc[q]
    BY <2>1, AccountFrame, Zenon DEF Accounting, Placed
  <2>2. CASE pc'[q] \notin Accountable
    BY <2>2 DEF Accountable, Placed, UnspentAt, Calling
  <2> QED BY <2>1, <2>2, Zenon
<1>2. Account(rec)'
  BY AccountFrame, Zenon
<1> QED BY <1>1, <1>2 DEF Accounting, Placed, UnspentAt, SameWork

\* step() under the lock.
LEMMA StepAccounting ==
    ASSUME Locking, Records, Phasing, Histories, Accounting, NEW d \in Drivers, Step(d)
    PROVE  Accounting'
<1>1. /\ d \in Procs /\ pc[d] = "step" /\ pc[d] \in Working /\ rec' = rec
      /\ UNCHANGED <<effects, callVars>>
      /\ copy \in RunRecord /\ FitsStatus(copy) /\ Account(rec)
  BY ZenonT(30) DEF Step, At, Procs, Working, Phasing, Records, RecordOK, Accounting, grantVars
<1>2. Account(copy) /\ SameWork(rec, copy)
  BY <1>1, Zenon DEF Accounting, Accountable, Placed
<1>3. ASSUME NEW r, NEW e, e \notin Admissions, Propose(d, r, e), Carries(r, copy)
      PROVE  Accounting'
  <2>1. Account(r)
    BY <1>1, <1>2, <1>3, AccountCarried, Zenon
  <2> QED BY <1>1, <1>3, <2>1, AccountingMove DEF Propose, Placed, UnspentAt, Calling
<1>4. ASSUME NEW r, NEW e, Propose(d, r, e), Account(r), Unspent(r), r.status = "running"
      PROVE  Accounting'
  BY <1>1, <1>4, AccountingMove DEF Propose, Placed, UnspentAt, Calling
<1>5. copy.phase \in {"model_ready", "tool_gate", "tool_ready"} => copy.status # "running"
  BY <1>1, Zenon DEF FitsStatus, pending, Pendings
<1>6. CASE StepStop(d)
  <2> DEFINE s == IF Stopping THEN "cancelled" ELSE IF pending(copy) THEN "uncertain" ELSE "paused"
  <2>1. Propose(d, [copy EXCEPT !.status = s, !.external_outcome_unknown =
                                    @ \/ pending(copy) \/ copy.status = "uncertain"], s)
    BY <1>6, Zenon DEF StepStop
  <2>2. s \notin Admissions
    BY Zenon DEF Admissions
  <2> HIDE DEF s
  <2> QED BY <1>1, <1>3, <2>1, <2>2, StopsCarry, ZenonT(30)
<1>7. CASE StepParked(d)
  BY <1>1, <1>7, AccountingMove DEF StepParked, Accountable, Placed, UnspentAt, Calling
<1>8. CASE StepExpired(d)
  <2>1. ~pending(copy) => copy.status # "running"
    BY <1>1, Zenon DEF FitsStatus
  <2>2. "budget_exhausted" \notin Admissions
    BY Zenon DEF Admissions
  <2> QED BY <1>1, <1>3, <1>8, <2>1, <2>2, OutcomesCarry, ZenonT(30) DEF StepExpired
<1>9. CASE StepRecoveredModel(d)
  <2>1. "reconciliation_required" \notin Admissions
    BY Zenon DEF Admissions
  <2> QED BY <1>1, <1>3, <1>9, <2>1, OutcomesCarry, ZenonT(30) DEF StepRecoveredModel
<1>10. CASE StepModelReady(d)
  <2>1. "budget_exhausted" \notin Admissions
    BY Zenon DEF Admissions
  <2> QED
    BY <1>1, <1>2, <1>3, <1>4, <1>5, <1>10, <2>1, OutcomesCarry, AdmissionUnspent, ZenonT(30) DEF StepModelReady
<1>11. CASE StepToolGate(d)
  <2>1. {"tools_completed", "budget_exhausted", "policy_denied", "approval_required"}
            \cap Admissions = {}
    BY Zenon DEF Admissions
  <2> QED BY <1>1, <1>3, <1>5, <1>11, <2>1, OutcomesCarry, ZenonT(30) DEF StepToolGate
<1>12. CASE StepToolReady(d)
  BY <1>1, <1>2, <1>4, <1>5, <1>12, AdmissionUnspent DEF StepToolReady
<1>13. CASE StepRecoveredTool(d)
  <2>1. copy.status = "running"
    <3>1. copy.status \in Statuses
      BY <1>1, Zenon DEF RunRecord
    <3> QED
      BY <1>1, <1>13, <3>1 DEF StepRecoveredTool, GoOn, FitsStatus, pending, Pendings, Statuses,
         terminal, Terminals, Runnable
  <2>2. copy' = copy /\ event' = event /\ Goto(d, "perform")
    BY <1>13, Zenon DEF StepRecoveredTool
  <2> QED BY <1>1, <1>2, <2>1, <2>2, AccountingMove DEF Placed, UnspentAt
<1> QED
  BY <1>6, <1>7, <1>8, <1>9, <1>10, <1>11, <1>12, <1>13 DEF Step

\* stop_before_dispatch() and the tool calls that only change the record.
LEMMA CallAccounting ==
    ASSUME Locking, Records, Phasing, Histories, Accounting, NEW d \in Drivers,
           StopBeforeDispatch(d) \/ PerformAdmission(d) \/ EffectThrows(d) \/ PerformCompletes(d)
    PROVE  Accounting'
<1>1. /\ d \in Procs /\ pc[d] \in Calling /\ pc[d] \in Working /\ rec' = rec
      /\ UNCHANGED <<effects, callVars>> /\ copy \in RunRecord /\ Account(rec)
  BY Zenon DEF StopBeforeDispatch, PerformAdmission, EffectThrows, PerformCompletes, At, Procs, Calling,
     Working, Records, RecordOK, Accounting, grantVars
<1>2. Account(copy) /\ SameWork(rec, copy) /\ copy.status = "running"
  BY <1>1, Zenon DEF Accounting, Accountable, Placed
<1>3. ASSUME NEW r, NEW e, e \notin Admissions, Propose(d, r, e), Account(r)
      PROVE  Accounting'
  BY <1>1, <1>3, AccountingMove DEF Propose, Placed, UnspentAt, Calling
<1>4. ASSUME NEW there, there \in Calling, Goto(d, there), copy' = copy, event' = event,
             there = "dispatch" => Unspent(copy), there # "admitted"
      PROVE  Accounting'
  BY <1>1, <1>2, <1>4, AccountingMove DEF Placed, UnspentAt, Calling
<1>5. {"dispatch_suppressed", "reconciliation_required", "tool_reply_recorded"} \cap Admissions = {}
  BY Zenon DEF Admissions
<1>6. CASE StopBeforeDispatch(d)
  <2>1. Unspent(copy)
    BY <1>6, Zenon DEF StopBeforeDispatch, At, Accounting, UnspentAt, Procs
  <2>2. pending(copy)
    BY <1>6 DEF StopBeforeDispatch, At, Records, Charged, pending, Pendings, Procs
  <2>3. CASE Goto(d, "returned") /\ copy' = rec
    BY <1>1, <2>3, AccountingMove, Zenon DEF Accountable, Placed, UnspentAt, Calling
  <2>4. CASE /\ Goto(d, IF copy.phase = "model_pending" THEN "dispatch" ELSE "perform")
             /\ copy' = copy /\ event' = event
    BY <1>4, <2>1, <2>4, Zenon DEF Calling
  <2>5. ASSUME NEW s, Propose(d, [Refunded(copy) EXCEPT !.control = rec.control, !.status = s],
                              "dispatch_suppressed")
        PROVE  Accounting'
    BY <1>1, <1>3, <1>5, <2>1, <2>2, <2>5, RefundAccount, ZenonT(30)
  <2> QED BY <1>6, <2>3, <2>4, <2>5, ZenonT(30) DEF StopBeforeDispatch
<1>7. ASSUME ToolReply(d) PROVE Accounting'
  <2> DEFINE r == [Observed(copy) EXCEPT !.call_index = @ + 1, !.phase = "tool_gate",
                                         !.status = "ready"]
  <2>1. /\ r.rounds = copy.rounds /\ r.tool_calls = copy.tool_calls /\ r.tokens = copy.tokens
        /\ r.recorded = copy.recorded + 1 /\ r.phase # "tool_pending"
        /\ r.external_outcome_unknown = copy.external_outcome_unknown
    BY <1>1, ZenonT(30) DEF Observed, RunRecord
  <2>2. Propose(d, r, "tool_reply_recorded")
    BY <1>7, Zenon DEF ToolReply
  <2> HIDE DEF r
  <2>3. Account(r)
    BY <1>1, <1>2, <2>1, RecordedAccount, Zenon
  <2> QED BY <1>3, <1>5, <2>2, <2>3
<1>8. ASSUME ToolThrows(d) PROVE Accounting'
  <2>1. Account(Unknown(copy, Otherwise("uncertain")))
    BY <1>1, <1>2, OutcomesCarry, AccountCarried, ZenonT(30)
  <2> QED BY <1>3, <1>5, <1>8, <2>1, Zenon DEF ToolThrows
<1>9. CASE PerformAdmission(d)
  BY <1>4, <1>7, <1>8, <1>9, Zenon DEF PerformAdmission, Calling
<1> QED BY <1>6, <1>7, <1>8, <1>9 DEF EffectThrows, PerformCompletes

\* The model call goes out, at most one of an admission.
LEMMA DispatchAccounting ==
    ASSUME Locking, Records, Histories, Accounting, NEW d \in Drivers, DispatchModel(d)
    PROVE  Accounting'
<1>1. /\ d \in Procs /\ pc[d] = "dispatch" /\ pc[d] \in Working /\ Goto(d, "model_out")
      /\ rec' = rec /\ copy' = copy /\ event' = event /\ effects' = effects
      /\ modelCalls' = modelCalls + 1 /\ spent' = spent + CallTokens
      /\ copy \in RunRecord /\ rec \in RunRecord /\ copy.phase = "model_pending"
  BY Zenon DEF DispatchModel, At, Procs, Working, Records, RecordOK, Charged, copyVars, grantVars
<1>2. Unspent(copy) /\ SameWork(rec, copy) /\ copy.status = "running"
  BY <1>1, Zenon DEF Accounting, Placed, UnspentAt, Calling
<1>3. Performed' = Performed /\ TotalEffects' = TotalEffects
  BY <1>1, Zenon DEF Performed, TotalEffects
<1>4. /\ copy.rounds \in Int /\ copy.tool_calls \in Int /\ copy.tokens \in Int
      /\ copy.recorded \in Nat /\ modelCalls \in Nat /\ spent \in Int /\ TotalEffects \in Nat
      /\ CallTokens \in Nat
  BY <1>1, Fields, EffectsCounted, ConstantsOK DEF Histories
<1>5. Account(copy)'
  BY <1>1, <1>2, <1>3, <1>4 DEF Unspent, Account
<1>6. Account(rec)'
  BY <1>1, <1>2, <1>3, <1>4 DEF Unspent, Account, SameWork
<1>7. Placed("model_out", event', rec', copy') /\ ~UnspentAt("model_out", event')
  BY <1>1, <1>2, Zenon DEF Placed, UnspentAt
<1> QED BY <1>1, <1>5, <1>6, <1>7, AccountingAlone, Zenon

\* The effect runs, the first one of its operation.
LEMMA EffectAccounting ==
    ASSUME Locking, Records, Histories, Receipts, Accounting, NEW d \in Drivers, Effect(d)
    PROVE  Accounting'
<1>1. /\ d \in Procs /\ pc[d] = "effect" /\ pc[d] \in Working /\ Goto(d, "effected")
      /\ rec' = rec /\ copy' = copy /\ event' = event
      /\ effects' = [effects EXCEPT ![Operation(copy)] = @ + 1]
      /\ modelCalls' = modelCalls /\ spent' = spent
      /\ copy \in RunRecord /\ rec \in RunRecord /\ copy.phase = "tool_pending"
  BY Zenon DEF Effect, At, Procs, Working, Records, RecordOK, copyVars, callVars
<1>2. Account(copy) /\ Account(rec) /\ SameWork(rec, copy) /\ copy.status = "running"
  BY <1>1, Zenon DEF Accounting, Placed, Accountable, Calling
<1>3. Operation(rec) = Operation(copy) /\ rec.phase = "tool_pending" /\ rec.status = "running"
  BY <1>1, <1>2 DEF SameWork, Operation
<1>4. effects \in [Ops -> Nat] /\ (Operation(copy) \in Ops => effects[Operation(copy)] = 0)
  BY <1>1 DEF Receipts, Grants
<1>5. Placed("effected", event', rec', copy') /\ ~UnspentAt("effected", event')
  BY <1>1, <1>2, Zenon DEF Placed, UnspentAt
<1>6. /\ copy.rounds \in Int /\ copy.tool_calls \in Int /\ copy.tokens \in Int
      /\ copy.recorded \in Nat /\ modelCalls \in Nat /\ spent \in Int /\ TotalEffects \in Nat
      /\ rec.recorded \in Nat /\ rec.tool_calls \in Int
  BY <1>1, Fields, EffectsCounted DEF Histories
<1>7. CASE Operation(copy) \in Ops
  <2>1. Operation(copy) \notin Performed
    BY <1>4, <1>7 DEF Performed
  <2>2. Unspent(copy) /\ Unspent(rec)
    BY <1>1, <1>2, <1>3, <2>1 DEF Account
  <2>3. TotalEffects' = TotalEffects + 1 /\ Operation(copy) \in Performed'
    BY <1>1, <1>4, <1>7, OneMoreEffect, ZenonT(30)
  <2>4. Operation(copy)' = Operation(copy) /\ Operation(rec)' = Operation(copy)
    BY <1>1, <1>3, Zenon DEF Operation
  <2>5. Account(copy)'
    BY <1>1, <1>2, <1>6, <2>2, <2>3, <2>4 DEF Account, Unspent
  <2>6. Account(rec)'
    BY <1>1, <1>3, <1>6, <2>2, <2>3, <2>4 DEF Account, Unspent
  <2> QED BY <1>1, <1>5, <2>5, <2>6, AccountingAlone
<1>8. CASE Operation(copy) \notin Ops
  <2>1. Performed' = Performed /\ TotalEffects' = TotalEffects
    BY <1>1, <1>4, <1>8, NoOtherEffect, ZenonT(30)
  <2>2. Account(copy)' /\ Account(rec)'
    BY <1>1, <1>2, <2>1 DEF Account, Unspent, Operation
  <2> QED BY <1>1, <1>5, <2>2, AccountingAlone
<1> QED BY <1>7, <1>8, Zenon

\* The model call returns, or does not.
LEMMA ReplyAccounting ==
    ASSUME Locking, Records, Histories, Accounting, NEW d \in Drivers, ModelReturns(d)
    PROVE  Accounting'
<1>1. /\ d \in Procs /\ pc[d] = "model_out" /\ pc[d] \in Working
      /\ rec' = rec /\ effects' = effects /\ modelCalls' = modelCalls
      /\ copy \in RunRecord /\ rec \in RunRecord /\ copy.phase = "model_pending"
  BY ZenonT(30) DEF ModelReturns, At, Procs, Working, Records, RecordOK, Charged, grantVars
<1>2. Account(copy) /\ Account(rec)
  BY <1>1, Zenon DEF Accounting, Accountable, Calling
<1>3. ASSUME NEW r, NEW e, e \notin Admissions, Propose(d, r, e), Account(r), spent' = spent
      PROVE  Accounting'
  BY <1>1, <1>2, <1>3, AccountingMove DEF Propose, Placed, UnspentAt, Calling, callVars
<1>4. {"reconciliation_required", "model_not_completed", "budget_exhausted", "policy_denied",
       "completed", "model_reply_recorded"} \cap Admissions = {}
  BY Zenon DEF Admissions
<1>5. CASE ModelUnknown(d)
  <2>1. Account(Unknown(copy, Otherwise("uncertain")))
    BY <1>1, <1>2, OutcomesCarry, AccountCarried, ZenonT(30)
  <2> QED BY <1>3, <1>4, <1>5, <2>1 DEF ModelUnknown
<1>6. ASSUME NEW s PROVE Account([Observed(copy) EXCEPT !.status = s])
  <2> DEFINE r == [Observed(copy) EXCEPT !.status = s]
  <2>1. /\ r.rounds = copy.rounds /\ r.tool_calls = copy.tool_calls /\ r.tokens = copy.tokens
        /\ r.recorded = copy.recorded + 1 /\ r.phase = copy.phase
        /\ r.external_outcome_unknown = copy.external_outcome_unknown
    BY <1>1, ZenonT(30) DEF Observed, RunRecord
  <2> HIDE DEF r
  <2>2. Account(r)
    BY <1>1, <1>2, <2>1, RecordedAccount
  <2> QED BY <2>2, Zenon DEF r
<1>7. CASE ModelNotCompleted(d)
  BY <1>3, <1>4, <1>6, <1>7 DEF ModelNotCompleted
<1>8. CASE ModelBudgetViolated(d)
  BY <1>3, <1>4, <1>6, <1>8 DEF ModelBudgetViolated, Failed
<1>9. CASE ModelCompleted(d)
  <2>1. PICK used \in 0 .. CallTokens, calls \in Replies :
            LET r == [Observed(copy) EXCEPT !.tokens = @ - CallTokens + used]
            IN /\ spent' = spent - CallTokens + used
               /\ \/ Propose(d, Failed(r), "policy_denied")
                  \/ Propose(d, [r EXCEPT !.status = "completed", !.phase = "completed",
                                          !.pending_calls = <<>>, !.call_index = 0],
                             "completed")
                  \/ Propose(d, [r EXCEPT !.status = "ready", !.phase = "tool_gate",
                                          !.pending_calls = calls, !.call_index = 0],
                             "model_reply_recorded")
    BY <1>9, ZenonT(30) DEF ModelCompleted
  <2> DEFINE r == [Observed(copy) EXCEPT !.tokens = @ - CallTokens + used]
             r1 == Failed(r)
             r2 == [r EXCEPT !.status = "completed", !.phase = "completed",
                             !.pending_calls = <<>>, !.call_index = 0]
             r3 == [r EXCEPT !.status = "ready", !.phase = "tool_gate",
                             !.pending_calls = calls, !.call_index = 0]
             settles(q) == /\ q.rounds = copy.rounds /\ q.tool_calls = copy.tool_calls
                           /\ q.tokens = copy.tokens - CallTokens + used
                           /\ q.recorded = copy.recorded + 1 /\ q.phase # "tool_pending"
                           /\ q.external_outcome_unknown = copy.external_outcome_unknown
  <2>2. settles(r1) /\ settles(r2) /\ settles(r3)
    BY <1>1, ZenonT(30) DEF Observed, Failed, RunRecord
  <2>3. \E q, e : settles(q) /\ Propose(d, q, e) /\ e \notin Admissions
    BY <1>4, <2>1, <2>2, ZenonT(30)
  <2>4. PICK q, e : settles(q) /\ Propose(d, q, e) /\ e \notin Admissions
    BY <2>3, Zenon
  <2>5. copy' = q /\ event' = e /\ Goto(d, "saving")
    BY <2>4, Zenon DEF Propose
  <2>6. Performed' = Performed /\ TotalEffects' = TotalEffects
    BY <1>1 DEF Performed, TotalEffects
  <2>7. /\ copy.tokens \in Int /\ copy.recorded \in Nat /\ modelCalls \in Nat /\ spent \in Int
        /\ TotalEffects \in Nat /\ CallTokens \in Nat /\ used \in Int /\ used <= CallTokens
        /\ spent' = spent - CallTokens + used /\ rec.tokens \in Int
    BY <1>1, <2>1, Fields, EffectsCounted, ConstantsOK DEF Histories
  <2>8. Account(copy)'
    BY <1>1, <1>2, <2>4, <2>5, <2>6, <2>7 DEF Account
  <2>9. Account(rec)'
    BY <1>1, <1>2, <2>6, <2>7 DEF Account, Unspent, Operation
  <2>10. Placed("saving", event', rec', copy') /\ ~UnspentAt("saving", event')
    BY <2>4, <2>5 DEF Placed, UnspentAt, Calling
  <2> QED BY <1>1, <2>5, <2>8, <2>9, <2>10, AccountingAlone
<1> QED BY <1>5, <1>7, <1>8, <1>9 DEF ModelReturns

\* A save, confirmed or not, commits the account of the copy or keeps the committed one.
LEMMA SaveAccounting ==
    ASSUME Locking, Records, Phasing, Histories, Accounting, NEW p \in Procs,
           Save(p) \/ SaveUnconfirmed(p)
    PROVE  Accounting'
<1>1. /\ pc[p] = "saving" /\ pc[p] \in Working /\ UNCHANGED <<effects, callVars>>
      /\ copy \in RunRecord /\ FitsStatus(copy) /\ Account(rec)
  BY ZenonT(30) DEF Save, SaveUnconfirmed, At, Working, Phasing, Records, RecordOK, Accounting, grantVars
<1>2. Account(copy)
  BY <1>1 DEF Accounting, Accountable
<1> DEFINE r == Settled(Rebased)
<1>3. /\ Account(r)
      /\ Admitting => Unspent(r) /\ r.status = "running"
  <2>1. Rebased = copy \/ Rebased = [copy EXCEPT !.control = rec.control]
    BY Zenon DEF Rebased
  <2>2. /\ Rebased \in RunRecord /\ FitsStatus(Rebased) /\ Rebased.phase = copy.phase
        /\ Rebased.status = copy.status
    <3>1. Rebased \in RunRecord
      BY RebasedOK DEF RecordOK
    <3>2. Rebased.status = copy.status
      BY <1>1, <2>1, ZenonT(30) DEF RunRecord
    <3>3. FitsStatus(Rebased) /\ Rebased.phase = copy.phase
      <4>1. \A c : FitsStatus([copy EXCEPT !.control = c]) /\ [copy EXCEPT !.control = c].phase = copy.phase
        BY <1>1, RequestsFit
      <4> QED BY <1>1, <2>1, <4>1, Zenon
    <3> QED BY <3>1, <3>2, <3>3
  <2>3. Account(Rebased) /\ (Unspent(copy) => Unspent(Rebased))
    BY <1>1, <1>2, <2>1, <2>2, OutcomesCarry, AccountCarried, ZenonT(30)
  <2>4. Carries(r, Rebased) /\ r.phase = Rebased.phase
    BY <2>2, StopsCarry, RequestsFit, ZenonT(30)
  <2>5. Account(r) /\ (Unspent(copy) => Unspent(r))
    BY <2>2, <2>3, <2>4, AccountCarried, Zenon
  <2>6. Admitting => Unspent(copy) /\ copy.status = "running"
    BY <1>1, Zenon DEF Admitting, Admissions, Accounting, UnspentAt, Placed
  <2>7. Rebased.status = "running" => r = Rebased
    BY Zenon DEF Settled
  <2> QED BY <2>2, <2>5, <2>6, <2>7
<1> HIDE DEF r
<1>4. SameWork(r, r) /\ {"returned", "off", "failing"} \cap Accountable = {}
  BY Zenon DEF SameWork, Accountable, Calling
<1>5. CASE Save(p)
  <2>1. CASE SaveRefused
    <3>1. Goto(p, "returned") /\ rec' = rec
      BY <1>5, <2>1, Zenon DEF Save
    <3> QED BY <1>1, <1>4, <3>1, AccountingMove, Zenon DEF Placed, UnspentAt, Calling
  <2>2. CASE ~SaveRefused /\ Admitting
    <3>1. Goto(p, "admitted") /\ rec' = r /\ copy' = r
      BY <1>5, <2>2, Zenon DEF Save, r
    <3> QED BY <1>1, <1>3, <1>4, <2>2, <3>1, AccountingMove, Zenon DEF Placed, UnspentAt
  <2>3. CASE ~SaveRefused /\ ~Admitting
    <3>1. Goto(p, "returned") /\ rec' = r
      BY <1>5, <2>3, Zenon DEF Save, r
    <3> QED BY <1>1, <1>3, <1>4, <3>1, AccountingMove DEF Placed, UnspentAt, Calling
  <2> QED BY <2>1, <2>2, <2>3, Zenon
<1>6. CASE SaveUnconfirmed(p)
  <2>1. rec' = r /\ \E there \in {"failing", "off"} : Goto(p, there)
    BY <1>6, Zenon DEF SaveUnconfirmed, r
  <2> QED BY <1>1, <1>3, <1>4, <2>1, AccountingMove, Zenon DEF Placed, UnspentAt, Calling
<1> QED BY <1>5, <1>6

\* Requests from outside, and the calls of operators.
LEMMA RequestAccounting ==
    ASSUME Locking, Records, Phasing, Histories, Accounting,
           Environment \/ \E o \in Operators : OperatorCall(o)
    PROVE  Accounting'
<1>1. rec \in RunRecord /\ copy \in RunRecord /\ FitsStatus(rec) /\ Account(rec)
  BY ZenonT(30) DEF Records, RecordOK, Phasing, Accounting
<1>2. CASE Environment
  <2>1. copy' = copy /\ event' = event /\ pc' = pc /\ UNCHANGED <<effects, callVars>>
    BY <1>2, ZenonT(30) DEF Environment, Control, Resume, ControlCommits, Expire, TokenFires, Issue,
       Revoke, GrantExpires, SetGrant, copyVars, grantVars
  <2>2. \/ rec' = rec
        \/ \E a \in {"pause", "cancel"} : rec' = StopRequested(rec, a)
        \/ rec.status = "paused" /\ rec' = Resumed(rec)
    BY <1>2, ZenonT(30) DEF Environment, Control, Resume, ControlCommits, Expire, TokenFires, Issue,
       Revoke, GrantExpires, SetGrant
  <2>3. CASE rec' = rec
    BY <1>1, <2>1, <2>3, AccountingBeside, Zenon DEF Locking
  <2>4. ASSUME NEW q, Carries(q, rec), q.phase = rec.phase, q.call_index = rec.call_index,
               rec.status = "running" => q.status = "running", rec' = q
        PROVE  Accounting'
    <3>1. Account(q)
      BY <1>1, <2>4, AccountCarried, Zenon
    <3>2. SameWork(rec, copy) => SameWork(q, copy)
      BY <2>4, Zenon DEF SameWork, Carries
    <3> QED BY <2>1, <2>4, <3>1, <3>2, AccountingBeside, Zenon DEF Locking
  <2>5. ASSUME NEW a \in {"pause", "cancel"}
        PROVE  /\ Carries(StopRequested(rec, a), rec) /\ StopRequested(rec, a).phase = rec.phase
               /\ StopRequested(rec, a).call_index = rec.call_index
               /\ rec.status = "running" => StopRequested(rec, a).status = "running"
    <3>1. /\ StopRequested(rec, a).call_index = rec.call_index
          /\ rec.status = "running" => StopRequested(rec, a).status = "running"
      BY <1>1, ZenonT(30) DEF StopRequested, RunRecord
    <3> QED BY <1>1, <3>1, StopsCarry, RequestsFit, ZenonT(30)
  <2>6. rec.status = "paused" => Carries(Resumed(rec), rec)
    BY <1>1, OutcomesCarry, ZenonT(30)
  <2>7. Resumed(rec).phase = rec.phase /\ Resumed(rec).call_index = rec.call_index
    BY <1>1, ZenonT(30) DEF Resumed, RunRecord
  <2> QED BY <2>2, <2>3, <2>4, <2>5, <2>6, <2>7
<1>3. ASSUME NEW o \in Operators, OperatorCall(o) PROVE Accounting'
  <2>1. /\ lock = NoProc /\ rec' = rec /\ o \in Procs /\ UNCHANGED <<effects, callVars>>
    BY <1>3, ZenonT(30) DEF OperatorCall, Approve, Reconcile, OperatorRefused, OperatorEnters, Procs, grantVars
  <2>2. ASSUME NEW r, NEW e \in {"operator_approved", "operator_reconciled"}, Propose(o, r, e),
               Carries(r, rec)
        PROVE  Accounting'
    <3>1. Account(r)
      BY <1>1, <2>2, AccountCarried, Zenon
    <3>2. e \notin Admissions
      BY Zenon DEF Admissions
    <3> QED BY <1>1, <2>1, <2>2, <3>1, <3>2, AccountingMove DEF Propose, Placed, UnspentAt, Calling
  <2>3. CASE Approve(o)
    BY <1>1, <2>2, <2>3, OutcomesCarry, ZenonT(30) DEF Approve
  <2>4. CASE Reconcile(o)
    BY <1>1, <2>2, <2>4, ResolutionsCarry, ZenonT(30) DEF Reconcile
  <2>5. CASE OperatorRefused(o)
    BY <1>1, <2>1, <2>5, AccountingMove, Zenon DEF OperatorRefused, Accountable, Placed, UnspentAt, Calling
  <2> QED BY <1>3, <2>3, <2>4, <2>5, Zenon DEF OperatorCall
<1> QED BY <1>2, <1>3, Zenon

\* Every step keeps the account.
LEMMA AccountingStep ==
    ASSUME Locking, Records, Histories, Receipts, Cancelling, Phasing, Accounting, [Next]_vars
    PROVE  Accounting'
<1>1. rec \in RunRecord /\ FitsStatus(rec) /\ Account(rec)
  BY ZenonT(30) DEF Records, RecordOK, Phasing, Accounting
<1>2. {"off", "loop", "failing", "lock_deadline", "publishing", "parking"} \cap Accountable = {}
      /\ SameWork(rec, rec)
  BY Zenon DEF Accountable, Calling, SameWork
<1>3. ASSUME NEW d \in Drivers, DriverStart(d) \/ StepLockFails(d) \/ DriverParks(d)
                                \/ PublishDeadline(d)
      PROVE  Accounting'
  <2>1. /\ rec' = rec /\ UNCHANGED <<effects, callVars, copy, event>>
        /\ \E there \in {"loop", "failing", "lock_deadline", "off"} : Goto(d, there)
    BY <1>3, Zenon DEF DriverStart, StepLockFails, DriverParks, PublishDeadline, DriverExits, copyVars,
       grantVars
  <2>2. \A p \in Procs : pc'[p] = pc[p] \/ pc'[p] \notin Accountable
    BY <1>2, <2>1, Zenon DEF Goto, Locking
  <2> QED BY <1>1, <2>1, <2>2, AccountingBeside, Zenon DEF Locking
<1>4. ASSUME NEW d \in Drivers, StepBegin(d) \/ PublishBegin(d) PROVE Accounting'
  <2>1. /\ lock = NoProc /\ rec' = rec /\ copy' = rec /\ d \in Procs
        /\ UNCHANGED <<effects, callVars>>
        /\ \E there \in {"step", "publishing"} : Goto(d, there)
    BY <1>4, Zenon DEF StepBegin, PublishBegin, Lock, Procs, grantVars
  <2> QED BY <1>1, <1>2, <2>1, AccountingMove, Zenon DEF Placed, UnspentAt, Calling
<1>5. ASSUME NEW d \in Drivers, StepReturns(d) \/ PublishFailure(d) PROVE Accounting'
  <2>1. /\ pc[d] \in Working /\ d \in Procs /\ UNCHANGED <<effects, callVars>>
        /\ \E there \in {"loop", "parking", "off"} : Goto(d, there)
    BY <1>5, Zenon DEF StepReturns, PublishFailure, DriverExits, At, Working, Procs, grantVars
  <2>2. rec' = rec \/ rec' = FailureOf(rec)
    BY <1>5, Zenon DEF StepReturns, PublishFailure, Cancelling, At, Procs
  <2>3. Account(FailureOf(rec))
    BY <1>1, StopsCarry, AccountCarried, ZenonT(30)
  <2> QED BY <1>1, <1>2, <2>1, <2>2, <2>3, AccountingMove, Zenon DEF Placed, UnspentAt, Calling
<1>6. ASSUME NEW d \in Drivers, DriverThrows(d) \/ Crash(d) PROVE Accounting'
  <2>1. /\ rec' = rec /\ UnlockIfHeld(d) /\ d \in Procs /\ UNCHANGED <<effects, callVars>>
        /\ \E there \in {"failing", "off"} : Goto(d, there)
    BY <1>6, Zenon DEF DriverThrows, Crash, DriverExits, Procs, grantVars
  <2>2. \A p \in Procs : pc'[p] = pc[p] \/ pc'[p] \notin Accountable
    BY <1>2, <2>1, Zenon DEF Goto, Locking
  <2>3. CASE lock = d
    <3>1. ASSUME NEW q \in Procs PROVE pc'[q] \notin Accountable
      BY <1>2, <2>1, <2>2, <2>3, <3>1, Zenon DEF Goto, Locking, Working, Accountable, Calling
    <3>2. Account(rec)'
      BY <1>1, <2>1, AccountFrame, Zenon
    <3> QED BY <3>1, <3>2, ZenonT(30) DEF Accounting, Placed, UnspentAt, Accountable, Calling
  <2>4. CASE lock # d
    <3>1. copy' = copy /\ event' = event
      BY <2>1, <2>4, Zenon DEF UnlockIfHeld, copyVars
    <3> QED BY <1>1, <2>1, <2>2, <3>1, AccountingBeside, Zenon DEF Locking
  <2> QED BY <2>3, <2>4, Zenon
<1>7. ASSUME NEW o \in Operators, OperatorReturns(o) \/ OperatorFails(o) PROVE Accounting'
  <2>1. /\ pc[o] \in Working /\ rec' = rec /\ o \in Procs /\ Goto(o, "off")
        /\ UNCHANGED <<effects, callVars>>
    BY <1>7, Zenon DEF OperatorReturns, OperatorFails, At, Working, Procs, grantVars
  <2> QED BY <1>1, <1>2, <2>1, AccountingMove, Zenon DEF Placed, UnspentAt, Calling
<1>8. CASE UNCHANGED vars
  <2>1. rec' = rec /\ pc' = pc /\ UNCHANGED <<effects, callVars, copy, event>>
    BY <1>8, Zenon DEF vars, copyVars, grantVars, callVars
  <2> QED BY <1>1, <2>1, AccountingBeside, Zenon DEF Locking
<1>9. ASSUME NEW d \in Drivers, DriverStart(d) \/ DriverStep(d) \/ DriverFault(d)
      PROVE  Accounting'
  <2>1. d \in Procs
    BY Zenon DEF Procs
  <2> QED
    BY <1>3, <1>4, <1>5, <1>6, <1>9, <2>1, StepAccounting, CallAccounting, DispatchAccounting,
       EffectAccounting, ReplyAccounting, SaveAccounting
       DEF DriverStep, DriverFault
<1>10. ASSUME NEW o \in Operators, OperatorFinish(o) \/ OperatorFault(o) PROVE Accounting'
  <2>1. o \in Procs
    BY Zenon DEF Procs
  <2> QED BY <1>7, <1>10, <2>1, SaveAccounting, Zenon DEF OperatorFinish, OperatorFault
<1> QED BY <1>8, <1>9, <1>10, RequestAccounting, Zenon DEF Next

-----------------------------------------------------------------------------
(***************************************************************************)
(* The theorem.                                                            *)
(***************************************************************************)
AInv == IInv /\ Accounting

\* Nothing has gone out of a run that was just created.
LEMMA InitAccounting == Init => Accounting
<1> SUFFICES ASSUME Init PROVE Accounting
  BY Zenon
<1>1. modelCalls = 0 /\ spent = 0 /\ rec = Created
  BY ZenonT(30) DEF Init
<1>2. Performed = {}
  <2>1. \A op \in Ops : effects[op] = 0
    BY ZenonT(30) DEF Init
  <2> QED BY <2>1 DEF Performed
<1>3. TotalEffects = 0
  BY <1>2, EffectsCounted, FS_EmptySet, Zenon
<1>4. /\ rec.rounds = 0 /\ rec.tool_calls = 0 /\ rec.tokens = 0 /\ rec.recorded = 0
      /\ rec.status = "ready" /\ rec.phase = "model_ready"
  BY <1>1, Zenon DEF Created
<1>5. Account(rec)
  BY <1>1, <1>3, <1>4 DEF Account
<1>6. \A p \in Procs : pc[p] = "off"
  BY ZenonT(30) DEF Init
<1> QED BY <1>5, <1>6, Zenon DEF Accounting, Accountable, Placed, UnspentAt, Calling

\* The account holds in every reachable state.
LEMMA AccountInductive == Spec => []AInv
<1>1. Accounting /\ IInv /\ [Next]_vars => Accounting'
  BY AccountingStep, ZenonT(30) DEF IInv
<1> QED
  BY <1>1, InitAccounting, Inductive, PTL DEF Spec, AInv

\* Work is charged before it is dispatched and never refunded afterwards, and a run that is
\* not being driven flags every dispatched call whose outcome it does not carry
\* (stop_before_dispatch() and save() in runs.cpp, perform() in grants.cpp).
THEOREM CallsCharged == Spec => []CallsAccounted
<1>1. AInv => CallsAccounted
  <2> SUFFICES ASSUME AInv PROVE CallsAccounted
    BY Zenon
  <2>1. Account(rec) /\ rec \in RunRecord /\ Histories
    BY ZenonT(30) DEF AInv, IInv, Accounting, Records, RecordOK
  <2>2. modelCalls \in Nat /\ TotalEffects \in Nat /\ rec.recorded \in Nat
    BY <2>1, EffectsCounted, Fields, Zenon DEF Histories
  <2> QED
    BY <2>1, <2>2 DEF Account, CallsAccounted, ChargedBeforeDispatch, UnknownOutcomeIsExplicit
<1> QED
  BY <1>1, AccountInductive, PTL
=============================================================================
