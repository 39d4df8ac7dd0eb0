---------------------------- MODULE RunController ----------------------------
(***************************************************************************)
(* One durable backend run (cpp-mcp/src/runs.cpp), the driver processes    *)
(* that step it and publish its failures (run_service.cpp), the operators  *)
(* that approve and reconcile it, the control requests that race with all  *)
(* of them, and the grant receipts that fence its tool effects             *)
(* (grants.cpp).                                                           *)
(*                                                                         *)
(* The committed record is `rec'.  The process that holds the controller   *)
(* lock works on a copy of it and publishes the copy with save(), whose    *)
(* read-merge-compare-and-swap loop takes effect at the instant its swap   *)
(* succeeds and is therefore one action.  The revision number is           *)
(* represented by `stale': whether the copy still carries the committed    *)
(* revision.  A model call and a tool effect are actions of their own, so  *)
(* a control request, an expiry, a cancellation or a crash can fall        *)
(* between any two of: admission, the last check before dispatch, the      *)
(* dispatch, the reply, and the commit of the reply.                       *)
(***************************************************************************)
EXTENDS Integers, Sequences, FiniteSets

CONSTANTS
    Drivers,        \* driver processes (--agent-runner)
    Operators,      \* callers of approve and reconcile
    Tools,          \* call signatures a model reply may propose
    Declared,       \* the signatures whose tool the run declares
    MaxRounds,      \* budget.rounds
    MaxToolCalls,   \* budget.tool_calls
    MaxRepetitions, \* budget.repetitions
    TokenBudget,    \* budget.tokens (budget.cost_micro_usd follows the same code)
    CallTokens,     \* budget.call_tokens
    MaxCalls,       \* bound on the calls of one reply (the code allows 32)
    Faults,         \* whether processes crash and I/O throws
    NoProc

ASSUME ConstantsOK ==
    /\ MaxRounds \in Nat \ {0} /\ MaxToolCalls \in Nat \ {0}
    /\ MaxRepetitions \in Nat \ {0} /\ MaxCalls \in Nat \ {0}
    /\ TokenBudget \in Nat /\ CallTokens \in 1 .. TokenBudget
    /\ Declared \subseteq Tools
    /\ Drivers \cap Operators = {} /\ NoProc \notin Drivers \cup Operators
    /\ Faults \in BOOLEAN

VARIABLES
    rec,         \* the committed run record
    copy,        \* the copy the holder of the controller lock works on
    stale,       \* whether rec was committed to since the copy was read
    event,       \* the event the holder of the controller lock will save
    pc,          \* where each process is
    lock,        \* holder of .controller.lock
    driverLock,  \* holder of .driver.lock
    cancelled,   \* whether the cancellation token of the driver has fired
    expired,     \* whether the clock has passed expires_at_ms
    grant,       \* the grant issued for each operation
    opState,     \* the grant_operation record of each operation
    effects,     \* history: how often the effect of each operation ran
    modelCalls,  \* history: model calls dispatched
    spent        \* history: tokens those calls may have consumed

copyVars == <<copy, stale, event>>
lockVars == <<lock, driverLock, cancelled>>
grantVars == <<grant, opState, effects>>
callVars == <<modelCalls, spent>>
vars == <<rec, copyVars, pc, lockVars, expired, grantVars, callVars>>

Procs == Drivers \cup Operators
Ops == (1 .. MaxRounds) \X (1 .. MaxCalls)
Replies == UNION {[1 .. n -> Tools] : n \in 0 .. MaxCalls}
Terminals == {"completed", "failed", "cancelled"}
Pendings == {"model_pending", "tool_pending"}
Runnable == {"ready", "running"}
Statuses == Terminals \cup Runnable \cup {"awaiting_approval", "paused", "uncertain"}
Phases == Pendings \cup {"model_ready", "tool_gate", "approval_wait", "tool_ready",
                         "completed", "abandoned"}

(***************************************************************************)
(* The record of a run.  `recorded' is a history field: the external calls *)
(* whose outcome the record carries.                                       *)
(***************************************************************************)
RunRecord ==
    [status : Statuses,
     phase : Phases,
     control : {"", "pause", "cancel"},
     external_outcome_unknown : BOOLEAN,
     rounds : 0 .. MaxRounds,
     tool_calls : 0 .. MaxToolCalls,
     repetitions : [Tools -> 0 .. MaxRepetitions],
     tokens : 0 .. TokenBudget,
     pending_calls : Replies,
     call_index : 0 .. MaxCalls,
     recorded : Nat]

Created ==
    [status |-> "ready", phase |-> "model_ready", control |-> "",
     external_outcome_unknown |-> FALSE, rounds |-> 0, tool_calls |-> 0,
     repetitions |-> [t \in Tools |-> 0], tokens |-> 0, pending_calls |-> <<>>,
     call_index |-> 0, recorded |-> 0]

terminal(status) == status \in Terminals
pending(r) == r.phase \in Pendings
Proposed(r) == r.pending_calls[r.call_index + 1]

Operation(r) == <<r.rounds, r.call_index + 1>>

Init ==
    /\ rec = Created
    /\ copy = Created /\ stale = FALSE /\ event = ""
    /\ pc = [p \in Procs |-> "off"]
    /\ lock = NoProc /\ driverLock = NoProc /\ cancelled = FALSE
    /\ expired = FALSE
    /\ grant = [o \in Ops |-> "none"]
    /\ opState = [o \in Ops |-> "absent"]
    /\ effects = [o \in Ops |-> 0]
    /\ modelCalls = 0 /\ spent = 0

-----------------------------------------------------------------------------
(***************************************************************************)
(* The controller lock (a kernel file lock, freed when its holder dies).   *)
(***************************************************************************)
At(p, here) == pc[p] = here
Goto(p, there) == pc' = [pc EXCEPT ![p] = there]

Lock(p) ==
    /\ lock = NoProc
    /\ lock' = p
    /\ copy' = rec
    /\ stale' = FALSE

Forget == copy' = Created /\ stale' = FALSE /\ event' = ""
Unlock == lock' = NoProc /\ Forget
UnlockIfHeld(p) == IF lock = p THEN Unlock ELSE UNCHANGED <<lock, copyVars>>

(***************************************************************************)
(* save(): merge the latest control at the compare-and-swap.               *)
(***************************************************************************)
Propose(p, r, e) ==
    /\ copy' = r
    /\ event' = e
    /\ Goto(p, "saving")

Admitting == event \in {"model_admitted", "tool_admitted"}

\* Mutant: save() without the terminal check.
SaveRefusedIgnoringTerminal ==
    Admitting /\ (rec.status \in {"paused", "uncertain"} \/ rec.control \in {"pause", "cancel"})

SaveRefused ==
    \/ terminal(rec.status)
    \/ /\ Admitting
       /\ \/ rec.status \in {"paused", "uncertain"}
          \/ rec.control \in {"pause", "cancel"}

Rebased == IF stale THEN [copy EXCEPT !.control = rec.control] ELSE copy

\* Mutant: only the pause is merged.
SettledIgnoringCancel(r) ==
    IF r.control = "pause" /\ r.status \in {"ready", "awaiting_approval"}
    THEN [r EXCEPT !.status = "paused"] ELSE r

Settled(r) ==
    IF r.control = "cancel" /\ r.status # "running"
    THEN [r EXCEPT !.status = "cancelled",
                   !.external_outcome_unknown = @ \/ r.status = "uncertain"]
    ELSE IF r.control = "pause" /\ r.status \in {"ready", "awaiting_approval"}
    THEN [r EXCEPT !.status = "paused"]
    ELSE r

Save(p) ==
    /\ At(p, "saving")
    /\ IF SaveRefused
       THEN /\ copy' = rec
            /\ Goto(p, "returned")
            /\ UNCHANGED rec
       ELSE /\ rec' = Settled(Rebased)
            /\ copy' = Settled(Rebased)
            /\ Goto(p, IF Admitting THEN "admitted" ELSE "returned")
    /\ stale' = FALSE
    /\ UNCHANGED <<event, lockVars, expired, grantVars, callVars>>

\* The commit went through but its acknowledgement did not: save() throws.
SaveUnconfirmed(p) ==
    /\ Faults
    /\ At(p, "saving") /\ ~SaveRefused
    /\ rec' = Settled(Rebased)
    /\ Goto(p, IF p \in Drivers THEN "failing" ELSE "off")
    /\ Unlock
    /\ UNCHANGED <<driverLock, cancelled, expired, grantVars, callVars>>

-----------------------------------------------------------------------------

(***************************************************************************)
(* control(): its own read and compare-and-swap, without the controller    *)
(* lock.                                                                   *)
(***************************************************************************)
StopRequested(r, action) ==
    LET c == IF action = "cancel" \/ r.control # "cancel" THEN action ELSE r.control
        unknown == r.status = "uncertain" \/ pending(r)
        stopped == IF c = "cancel" THEN "cancelled"
                   ELSE IF unknown THEN "uncertain" ELSE "paused"
    IN IF r.status = "running"
       THEN [r EXCEPT !.control = c]
       ELSE [r EXCEPT !.control = c, !.status = stopped,
                      !.external_outcome_unknown = @ \/ unknown]

\* Mutant: resume makes an approval wait runnable.
ResumedReady(r) == [r EXCEPT !.control = "", !.status = "ready"]

Resumed(r) ==
    [r EXCEPT !.control = "",
              !.status = IF r.phase = "approval_wait" THEN "awaiting_approval" ELSE "ready"]

ControlCommits(r) ==
    /\ rec' = r
    /\ stale' = (lock # NoProc)
    /\ UNCHANGED <<copy, event, pc, lockVars, expired, grantVars, callVars>>

Control(action) ==
    /\ ~terminal(rec.status)
    /\ ControlCommits(StopRequested(rec, action))

Resume ==
    /\ rec.status = "paused" /\ ~pending(rec)
    /\ ControlCommits(Resumed(rec))

-----------------------------------------------------------------------------
(***************************************************************************)
(* Operators: approve() and reconcile() under the controller lock, and the *)
(* grants they issue and revoke.                                           *)
(***************************************************************************)
OperatorEnters(o) ==
    /\ At(o, "off") /\ lock = NoProc
    /\ lock' = o
    /\ stale' = FALSE
    /\ UNCHANGED <<rec, driverLock, cancelled, expired, grantVars, callVars>>

Approve(o) ==
    /\ rec.status = "awaiting_approval"
    /\ grant[Operation(rec)] \in {"active", "expired"}
    /\ OperatorEnters(o)
    /\ Propose(o, [rec EXCEPT !.phase = "tool_ready", !.status = "ready"], "operator_approved")

Resolutions(r) ==
    {[r EXCEPT !.status = "failed", !.phase = "abandoned"]}
    \cup (IF r.phase = "model_pending"
          THEN {[r EXCEPT !.phase = "model_ready", !.status = "ready"]} ELSE {})
    \cup (IF r.phase = "tool_pending"
          THEN {[r EXCEPT !.phase = "tool_gate", !.status = "ready", !.call_index = @ + 1]}
          ELSE {})

Reconcile(o) ==
    /\ rec.status = "uncertain"
    /\ OperatorEnters(o)
    /\ \E r \in Resolutions(rec) : Propose(o, [r EXCEPT !.control = ""], "operator_reconciled")

\* The same calls on a terminal run, a run in another status, or out of scope.
OperatorRefused(o) ==
    /\ OperatorEnters(o)
    /\ copy' = rec
    /\ Goto(o, "returned")
    /\ UNCHANGED event

OperatorReturns(o) ==
    /\ At(o, "returned")
    /\ Unlock
    /\ Goto(o, "off")
    /\ UNCHANGED <<rec, driverLock, cancelled, expired, grantVars, callVars>>

OperatorFails(o) ==
    /\ Faults
    /\ pc[o] \in {"saving", "returned"}
    /\ Unlock
    /\ Goto(o, "off")
    /\ UNCHANGED <<rec, driverLock, cancelled, expired, grantVars, callVars>>

SetGrant(op, from, to) ==
    /\ grant[op] \in from
    /\ grant' = [grant EXCEPT ![op] = to]
    /\ UNCHANGED <<rec, copyVars, pc, lockVars, expired, opState, effects, callVars>>

Issue(op) ==
    /\ rec.phase = "approval_wait" /\ op = Operation(rec)
    /\ SetGrant(op, {"none"}, "active")

Revoke(op) == SetGrant(op, {"active", "expired"}, "revoked")
GrantExpires(op) == SetGrant(op, {"active"}, "expired")

-----------------------------------------------------------------------------
(***************************************************************************)
(* The driver process: drive() and the loop of drive_impl().               *)
(***************************************************************************)
DriverStart(d) ==
    /\ At(d, "off") /\ driverLock = NoProc
    /\ rec.status \in Runnable
    /\ driverLock' = d
    /\ cancelled' = FALSE
    /\ Goto(d, "loop")
    /\ UNCHANGED <<rec, copyVars, lock, expired, grantVars, callVars>>

\* The monitor thread observed a cancel, an expiry, a stop signal or an error.
TokenFires ==
    /\ driverLock # NoProc /\ ~cancelled
    /\ cancelled' = TRUE
    /\ UNCHANGED <<rec, copyVars, pc, lock, driverLock, expired, grantVars, callVars>>

StepBegin(d) ==
    /\ At(d, "loop") /\ ~cancelled
    /\ Lock(d)
    /\ Goto(d, "step")
    /\ UNCHANGED <<rec, event, driverLock, cancelled, expired, grantVars, callVars>>

\* FileLock checks the token first, and gives up on a lock held by another.
StepLockFails(d) ==
    /\ At(d, "loop")
    /\ \/ cancelled /\ Goto(d, "failing")
       \/ lock # NoProc /\ Goto(d, "lock_deadline")
    /\ UNCHANGED <<rec, copyVars, lockVars, expired, grantVars, callVars>>

StepReturns(d) ==
    /\ At(d, "returned")
    /\ Goto(d, IF copy.status \in Runnable THEN "loop" ELSE "parking")
    /\ Unlock
    /\ UNCHANGED <<rec, driverLock, cancelled, expired, grantVars, callVars>>

DriverExits(d) ==
    /\ Goto(d, "off")
    /\ driverLock' = NoProc

DriverParks(d) ==
    /\ At(d, "parking")
    /\ IF rec.status = "ready" THEN Goto(d, "loop") /\ UNCHANGED driverLock ELSE DriverExits(d)
    /\ UNCHANGED <<rec, copyVars, lock, cancelled, expired, grantVars, callVars>>

\* Storage, artifact, provider-configuration and step-budget exceptions.
DriverThrows(d) ==
    /\ Faults
    /\ pc[d] \in {"loop", "step", "saving", "admitted", "parking"}
    /\ Goto(d, "failing")
    /\ UnlockIfHeld(d)
    /\ UNCHANGED <<rec, driverLock, cancelled, expired, grantVars, callVars>>

PublishBegin(d) ==
    /\ pc[d] \in {"failing", "lock_deadline"}
    /\ Lock(d)
    /\ event' = IF At(d, "failing") THEN "driver_failed" ELSE "lock_deadline"
    /\ Goto(d, "publishing")
    /\ UNCHANGED <<rec, driverLock, cancelled, expired, grantVars, callVars>>

FailureOf(r) ==
    [r EXCEPT !.status = IF r.control = "cancel" THEN "cancelled"
                         ELSE IF pending(r) THEN "uncertain"
                         ELSE IF r.control = "pause" THEN "paused" ELSE "failed",
              !.external_outcome_unknown = @ \/ pending(r)]

\* One compare-and-swap: a control request that got in between wins.
PublishFailure(d) ==
    /\ At(d, "publishing")
    /\ rec' = IF copy.status \in Runnable /\ ~stale THEN FailureOf(copy) ELSE rec
    /\ DriverExits(d)
    /\ Unlock
    /\ UNCHANGED <<cancelled, expired, grantVars, callVars>>

\* The lock deadline passed before the failure could be published.
PublishDeadline(d) ==
    /\ pc[d] \in {"failing", "lock_deadline"} /\ lock # NoProc
    /\ DriverExits(d)
    /\ UNCHANGED <<rec, copyVars, lock, cancelled, expired, grantVars, callVars>>

Crash(d) ==
    /\ Faults
    /\ pc[d] # "off"
    /\ DriverExits(d)
    /\ UnlockIfHeld(d)
    /\ UNCHANGED <<rec, cancelled, expired, grantVars, callVars>>

-----------------------------------------------------------------------------
(***************************************************************************)
(* step(): one disjunct per branch, on the copy read under the lock.       *)
(***************************************************************************)
Stopping == copy.control = "cancel" \/ cancelled
StopBranch == ~terminal(copy.status) /\ (Stopping \/ copy.control = "pause")
GoOn ==
    /\ ~terminal(copy.status) /\ ~StopBranch
    /\ copy.status \notin {"uncertain", "paused"}
    /\ ~expired

StepStop(d) ==
    LET s == IF Stopping THEN "cancelled" ELSE IF pending(copy) THEN "uncertain" ELSE "paused"
    IN /\ StopBranch
       /\ Stopping \/ copy.status # "uncertain"
       /\ Propose(d, [copy EXCEPT !.status = s,
                                  !.external_outcome_unknown =
                                      @ \/ pending(copy) \/ copy.status = "uncertain"],
                  s)

StepParked(d) ==
    /\ \/ terminal(copy.status)
       \/ StopBranch /\ ~Stopping /\ copy.status = "uncertain"
       \/ ~StopBranch /\ copy.status \in {"uncertain", "paused"}
       \/ GoOn /\ copy.phase = "approval_wait"
    /\ Goto(d, "returned")
    /\ UNCHANGED <<copy, event>>

Failed(r) == [r EXCEPT !.status = "failed"]
Unknown(r, s) == [r EXCEPT !.status = s, !.external_outcome_unknown = TRUE]

StepExpired(d) ==
    /\ ~terminal(copy.status) /\ ~StopBranch
    /\ copy.status \notin {"uncertain", "paused"}
    /\ expired
    /\ Propose(d, IF pending(copy) THEN Unknown(copy, "failed") ELSE Failed(copy),
               "budget_exhausted")

StepRecoveredModel(d) ==
    /\ GoOn /\ copy.phase = "model_pending"
    /\ Propose(d, Unknown(copy, "uncertain"), "reconciliation_required")

ModelBudgetExhausted(r) == r.rounds >= MaxRounds \/ r.tokens > TokenBudget - CallTokens

ModelAdmitted(r) ==
    [r EXCEPT !.rounds = @ + 1, !.tokens = @ + CallTokens,
              !.phase = "model_pending", !.status = "running"]

\* The failure disjunct also stands for a context that stays over its limit.
StepModelReady(d) ==
    /\ GoOn /\ copy.phase = "model_ready"
    /\ \/ Propose(d, Failed(copy), "budget_exhausted")
       \/ ~ModelBudgetExhausted(copy) /\ Propose(d, ModelAdmitted(copy), "model_admitted")

ToolBudgetExhausted(r) ==
    r.tool_calls >= MaxToolCalls \/ r.repetitions[Proposed(r)] >= MaxRepetitions

MoreCalls(r) == r.call_index < Len(r.pending_calls)

Gated(r) ==
    [r EXCEPT !.phase = "approval_wait", !.status = "awaiting_approval"]

\* Mutant: the phase is not reset when the calls of a reply are done.
CallsDoneKeepingPhase(r) == r

CallsDone(r) == [r EXCEPT !.phase = "model_ready"]

StepToolGate(d) ==
    /\ GoOn /\ copy.phase = "tool_gate"
    /\ \/ /\ ~MoreCalls(copy)
          /\ Propose(d, CallsDone(copy), "tools_completed")
       \/ /\ MoreCalls(copy) /\ ToolBudgetExhausted(copy)
          /\ Propose(d, Failed(copy), "budget_exhausted")
       \/ /\ MoreCalls(copy) /\ ~ToolBudgetExhausted(copy) /\ Proposed(copy) \notin Declared
          /\ Propose(d, Failed(copy), "policy_denied")
       \/ /\ MoreCalls(copy) /\ ~ToolBudgetExhausted(copy) /\ Proposed(copy) \in Declared
          /\ Propose(d, Gated(copy), "approval_required")

ToolAdmitted(r) ==
    [r EXCEPT !.repetitions[Proposed(r)] = @ + 1, !.tool_calls = @ + 1,
              !.phase = "tool_pending", !.status = "running"]

StepToolReady(d) ==
    /\ GoOn /\ copy.phase = "tool_ready"
    /\ Propose(d, ToolAdmitted(copy), "tool_admitted")

\* Mutant: a recovered tool call passes through the refund of a fresh admission.
StepRecoveredToolAsFresh(d) ==
    /\ GoOn /\ copy.phase = "tool_pending"
    /\ Goto(d, "admitted")
    /\ UNCHANGED <<copy, event>>

StepRecoveredTool(d) ==
    /\ GoOn /\ copy.phase = "tool_pending"
    /\ Goto(d, "perform")
    /\ UNCHANGED <<copy, event>>

Step(d) ==
    /\ At(d, "step")
    /\ \/ StepStop(d)
       \/ StepParked(d)
       \/ StepExpired(d)
       \/ StepRecoveredModel(d)
       \/ StepModelReady(d)
       \/ StepToolGate(d)
       \/ StepToolReady(d)
       \/ StepRecoveredTool(d)
    /\ UNCHANGED <<rec, stale, lockVars, expired, grantVars, callVars>>

-----------------------------------------------------------------------------
(***************************************************************************)
(* stop_before_dispatch(), and the model call.                             *)
(***************************************************************************)
Refunded(r) ==
    IF r.phase = "model_pending"
    THEN [r EXCEPT !.rounds = @ - 1, !.tokens = @ - CallTokens, !.phase = "model_ready"]
    ELSE [r EXCEPT !.tool_calls = @ - 1, !.repetitions[Proposed(r)] = @ - 1,
                   !.phase = "tool_ready"]

LiveStop == rec.control = "cancel" \/ cancelled
SuppressDispatch == LiveStop \/ expired \/ rec.control = "pause"

StopBeforeDispatch(d) ==
    LET s == IF LiveStop THEN "cancelled" ELSE IF expired THEN "failed" ELSE "paused"
    IN /\ At(d, "admitted")
       /\ \/ /\ terminal(rec.status)
             /\ copy' = rec
             /\ Goto(d, "returned")
             /\ UNCHANGED event
          \/ /\ ~terminal(rec.status) /\ ~SuppressDispatch
             /\ Goto(d, IF copy.phase = "model_pending" THEN "dispatch" ELSE "perform")
             /\ UNCHANGED <<copy, event>>
          \/ /\ ~terminal(rec.status) /\ SuppressDispatch
             /\ Propose(d, [Refunded(copy) EXCEPT !.control = rec.control, !.status = s],
                        "dispatch_suppressed")
       /\ UNCHANGED <<rec, stale, lockVars, expired, grantVars, callVars>>

DispatchModel(d) ==
    /\ At(d, "dispatch")
    /\ Goto(d, "model_out")
    /\ modelCalls' = modelCalls + 1
    /\ spent' = spent + CallTokens
    /\ UNCHANGED <<rec, copyVars, lockVars, expired, grantVars>>

Observed(r) == [r EXCEPT !.recorded = @ + 1]
Otherwise(s) == IF LiveStop THEN "cancelled" ELSE s

\* The call threw, or did not complete and its billing is unknown.
ModelUnknown(d) ==
    /\ \E e \in {"reconciliation_required", "model_not_completed"} :
           Propose(d, Unknown(copy, Otherwise("uncertain")), e)
    /\ UNCHANGED spent

ModelNotCompleted(d) ==
    /\ Propose(d, [Observed(copy) EXCEPT !.status = Otherwise("failed")], "model_not_completed")
    /\ UNCHANGED spent

\* Reported usage over the ceiling of the call (a cost over its ceiling fails the run too,
\* after the tokens are settled: the first disjunct of ModelCompleted).
ModelBudgetViolated(d) ==
    /\ Propose(d, Failed(Observed(copy)), "budget_exhausted")
    /\ UNCHANGED spent

\* `used' is the usage the reply reports; without a report the reservation stays.
ModelCompleted(d) ==
    \E used \in 0 .. CallTokens, calls \in Replies :
        LET r == [Observed(copy) EXCEPT !.tokens = @ - CallTokens + used]
        IN /\ spent' = spent - CallTokens + used
           /\ \/ Propose(d, Failed(r), "policy_denied")
              \/ /\ calls = <<>>
                 /\ Propose(d, [r EXCEPT !.status = "completed", !.phase = "completed",
                                         !.pending_calls = <<>>, !.call_index = 0],
                            "completed")
              \/ /\ calls # <<>>
                 /\ Propose(d, [r EXCEPT !.status = "ready", !.phase = "tool_gate",
                                         !.pending_calls = calls, !.call_index = 0],
                            "model_reply_recorded")

ModelReturns(d) ==
    /\ At(d, "model_out")
    /\ \/ ModelUnknown(d)
       \/ ModelNotCompleted(d)
       \/ ModelBudgetViolated(d)
       \/ ModelCompleted(d)
    /\ UNCHANGED <<rec, stale, lockVars, expired, grantVars, modelCalls>>

-----------------------------------------------------------------------------
(***************************************************************************)
(* GrantAuthority::perform() around a tool effect.                         *)
(***************************************************************************)
ToolReply(d) ==
    Propose(d, [Observed(copy) EXCEPT !.call_index = @ + 1, !.phase = "tool_gate",
                                      !.status = "ready"],
            "tool_reply_recorded")

ToolThrows(d) == Propose(d, Unknown(copy, Otherwise("uncertain")), "reconciliation_required")

SetOp(s) == opState' = [opState EXCEPT ![Operation(copy)] = s]

\* Mutant: an unfinished receipt does not stop a second effect.
MayPerformAgain == grant[Operation(copy)] = "active"

MayPerform == opState[Operation(copy)] = "absent" /\ grant[Operation(copy)] = "active"

PerformAdmission(d) ==
    /\ At(d, "perform")
    /\ \/ /\ opState[Operation(copy)] = "completed"     \* replay the receipt
          /\ ToolReply(d)
          /\ UNCHANGED opState
       \/ /\ opState[Operation(copy)] # "completed"
          /\ ~MayPerform \/ Faults
          /\ ToolThrows(d)
          /\ UNCHANGED opState
       \/ /\ opState[Operation(copy)] # "completed"
          /\ MayPerform
          /\ SetOp("admitted")
          /\ Goto(d, "effect")
          /\ UNCHANGED <<copy, event>>
    /\ UNCHANGED <<rec, stale, lockVars, expired, grant, effects, callVars>>

Effect(d) ==
    /\ At(d, "effect")
    /\ effects' = [effects EXCEPT ![Operation(copy)] = @ + 1]
    /\ Goto(d, "effected")
    /\ UNCHANGED <<rec, copyVars, lockVars, expired, grant, opState, callVars>>

\* The effect threw, before or after it ran; recording that may fail as well.
EffectThrows(d) ==
    /\ pc[d] \in {"effect", "effected"}
    /\ ToolThrows(d)
    /\ SetOp("uncertain") \/ (Faults /\ UNCHANGED opState)
    /\ UNCHANGED <<rec, stale, lockVars, expired, grant, effects, callVars>>

\* The completion receipt, whose acknowledgement may be lost.
PerformCompletes(d) ==
    /\ At(d, "effected")
    /\ SetOp("completed")
    /\ ToolReply(d) \/ (Faults /\ ToolThrows(d))
    /\ UNCHANGED <<rec, stale, lockVars, expired, grant, effects, callVars>>

Expire ==
    /\ ~expired
    /\ expired' = TRUE
    /\ UNCHANGED <<rec, copyVars, pc, lockVars, grantVars, callVars>>

-----------------------------------------------------------------------------
DriverStep(d) ==
    \/ StepBegin(d) \/ StepLockFails(d) \/ Step(d) \/ Save(d) \/ StepReturns(d)
    \/ DriverParks(d) \/ PublishBegin(d) \/ PublishFailure(d) \/ PublishDeadline(d)
    \/ StopBeforeDispatch(d) \/ DispatchModel(d) \/ ModelReturns(d)
    \/ PerformAdmission(d) \/ Effect(d) \/ EffectThrows(d) \/ PerformCompletes(d)

DriverFault(d) == DriverThrows(d) \/ SaveUnconfirmed(d) \/ Crash(d)

OperatorCall(o) == Approve(o) \/ Reconcile(o) \/ OperatorRefused(o)
OperatorFinish(o) == Save(o) \/ OperatorReturns(o)
OperatorFault(o) == OperatorFails(o) \/ SaveUnconfirmed(o)

Environment ==
    \/ Control("pause") \/ Control("cancel") \/ Resume
    \/ Expire \/ TokenFires
    \/ \E op \in Ops : Issue(op) \/ Revoke(op) \/ GrantExpires(op)

Next ==
    \/ \E d \in Drivers : DriverStart(d) \/ DriverStep(d) \/ DriverFault(d)
    \/ \E o \in Operators : OperatorCall(o) \/ OperatorFinish(o) \/ OperatorFault(o)
    \/ Environment

Spec == Init /\ [][Next]_vars

(***************************************************************************)
(* The operating system schedules every live process: a driver that is     *)
(* running takes its next step, and an operator call that holds the lock   *)
(* finishes.                                                               *)
(***************************************************************************)
Fairness ==
    /\ \A d \in Drivers : WF_vars(DriverStep(d))
    /\ \A o \in Operators : WF_vars(OperatorFinish(o))

FairSpec == Spec /\ Fairness

-----------------------------------------------------------------------------
(***************************************************************************)
(* Properties.                                                             *)
(***************************************************************************)
Working == {"step", "saving", "admitted", "dispatch", "model_out", "perform",
            "effect", "effected", "returned", "publishing"}
PCs == Working \cup {"off", "loop", "parking", "failing", "lock_deadline"}

\* Every variable has its type: in particular no counter of the record leaves the
\* range its budget allows, through any merge, refund or settlement of save().
TypeOK ==
    /\ rec \in RunRecord
    /\ copy \in RunRecord
    /\ stale \in BOOLEAN
    /\ pc \in [Procs -> PCs]
    /\ lock \in Procs \cup {NoProc}
    /\ driverLock \in Drivers \cup {NoProc}
    /\ cancelled \in BOOLEAN
    /\ expired \in BOOLEAN
    /\ grant \in [Ops -> {"none", "active", "expired", "revoked"}]
    /\ opState \in [Ops -> {"absent", "admitted", "uncertain", "completed"}]
    /\ effects \in [Ops -> Nat]
    /\ modelCalls \in Nat /\ spent \in Int

\* The effect of an operation runs at most once, whatever crashes, lost
\* acknowledgements, revocations and replays surround perform().
EffectAtMostOnce == \A op \in Ops : effects[op] <= 1

\* Work is charged before it is dispatched and never refunded afterwards: model
\* calls and effects that went out are covered by the committed counters, and
\* what the provider may have consumed by the committed token reservation.
TotalEffects == Cardinality({op \in Ops : effects[op] > 0})
ChargedBeforeDispatch ==
    /\ modelCalls <= rec.rounds
    /\ TotalEffects <= rec.tool_calls
    /\ spent <= rec.tokens

\* A run that is not being driven never hides a dispatched call whose outcome
\* it does not carry: external_outcome_unknown is set.
UnknownOutcomeIsExplicit ==
    (rec.status # "running" /\ modelCalls + TotalEffects > rec.recorded)
        => rec.external_outcome_unknown

\* Once cancel is accepted the run is cancelled, or still running towards it: no
\* reply, approval, reconciliation, pause or failure settles it otherwise.
AcceptedCancelWins == rec.control = "cancel" => rec.status \in {"running", "cancelled"}

\* A pending phase is only ever settled as uncertain or terminal, so resume cannot
\* dispatch the same work again; an approval wait is never runnable.
PhaseFitsStatus ==
    /\ pending(rec) => rec.status \notin {"ready", "paused", "awaiting_approval"}
    /\ rec.phase = "approval_wait" => rec.status \notin Runnable

\* The operation identity put up for approval is fresh: no earlier call of the run
\* was admitted under it (identities are derived from the refundable round number).
FreshOperation ==
    rec.status = "awaiting_approval" => opState[Operation(rec)] = "absent"

\* Action property: a terminal record is never rewritten.
TerminalIsFinal == [][terminal(rec.status) => rec' = rec]_vars

\* Action property: an accepted cancellation is never withdrawn or downgraded.
CancelNotDowngraded == [][rec.control = "cancel" => rec'.control = "cancel"]_vars

\* Action property: work is admitted (its pending phase committed) only from a
\* ready run without a pause or cancel request.
AdmittedOnlyWhenReady ==
    [][(~pending(rec) /\ pending(rec')) => (rec.status = "ready" /\ rec.control = "")]_vars

\* Action property: a driver that retires leaves no runnable run behind, whatever
\* was resumed or approved since its last step.
RetiresOnlyWhenParked ==
    [][\A d \in Drivers :
           (pc[d] = "parking" /\ pc'[d] = "off") => rec.status \notin Runnable]_vars

\* What a design note says of failures to acquire a lock: they "do not acquire
\* permission to rewrite another actor's decision", here an operator's approval.
\* step() gives the controller lock one millisecond, and drive() publishes the
\* resulting exception like any other failure of the driver.
LockDeadlineKeepsApproval ==
    [][\A d \in Drivers :
           (pc[d] = "publishing" /\ pc'[d] = "off" /\ event = "lock_deadline"
                /\ rec.phase = "tool_ready")
               => rec' = rec]_vars

\* Liveness: while no process crashes or throws, a driver neither hangs nor spins:
\* the run it drives is parked for input or terminal, or the driver has exited.
DriverSettlesRun ==
    \A d \in Drivers :
        (rec.status \in Runnable /\ pc[d] # "off")
            ~> (rec.status \notin Runnable \/ pc[d] = "off")

\* The record of a run is consistent: its fields are typed, its counters are within
\* their budgets, and its phase fits its status, whoever wrote it last.
RecordConsistent == TypeOK /\ PhaseFitsStatus

\* No call is lost from the account: what was dispatched is charged, and what the record
\* does not carry the outcome of is flagged.
CallsAccounted == ChargedBeforeDispatch /\ UnknownOutcomeIsExplicit

\* Action property: no step leaves a terminal status, takes back an accepted cancel, or
\* admits work of a run that is not ready (save() and control()).
StatusMovesLegally == TerminalIsFinal /\ CancelNotDowngraded /\ AdmittedOnlyWhenReady

\* What a driver owes its run: every tool call is a new operation, it retires only when the
\* run is parked, and as long as it is scheduled it settles the run.
DriverServesRun == []FreshOperation /\ RetiresOnlyWhenParked /\ DriverSettlesRun
=============================================================================
