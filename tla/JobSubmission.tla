----------------------------- MODULE JobSubmission ----------------------------
(*****************************************************************************)
(* Submitting a detached job (job_manager.cpp) to a job store with either    *)
(* backend, the SQLite index or the legacy files. A submission runs under    *)
(* the jobs root's .submission.lock, which the operating system releases     *)
(* when the submitting process dies. Under it the submitter looks for the    *)
(* operation's durable receipt, checks the three capacities, writes the      *)
(* receipt, creates the job directory and its record, spawns the runner,     *)
(* publishes the runner's identity and confirms the receipt. It may crash,   *)
(* or a step may fail, at every point; a client retries the same operation   *)
(* as often as it likes.                                                     *)
(*                                                                           *)
(* The operations of Keyed carry an operation identity (submit_shell,        *)
(* submit_program, submit_research); the others are plain starts             *)
(* (start_shell, start_program), whose job id is fresh and has no receipt.   *)
(*****************************************************************************)
EXTENDS Integers, FiniteSets
CONSTANTS Ops, Keyed, Tasks, TaskOf, Prints, NoPrint, Clients, Nobody,
          MaxActive, MaxPerTask, MaxOperations, MaxCalls

VARIABLES indexed,    \* the backend: SQLite index or legacy files
          bound,      \* fingerprint in the operation's receipt
          confirmed,  \* the receipt says submitted
          folder,     \* the job directory exists
          record,     \* the job record: "absent", "active", "terminal" or "pruned"
          launched,   \* fingerprints of the requests a runner was spawned for
          spawns,     \* how often a runner was spawned for the operation
          identity,   \* runner-owner.json is published
          gate,       \* holder of .submission.lock
          call,       \* what each client is doing
          calls       \* calls made so far

submissionVars == <<indexed, bound, confirmed, folder, record, launched, spawns, identity,
                    gate, call, calls>>

Idle == [at |-> "idle", op |-> CHOOSE op \in Ops : TRUE, print |-> NoPrint, reply |-> "none"]

SubmissionInit ==
    /\ indexed \in BOOLEAN
    /\ bound = [op \in Ops |-> NoPrint]
    /\ confirmed = [op \in Ops |-> FALSE]
    /\ folder = [op \in Ops |-> FALSE]
    /\ record = [op \in Ops |-> "absent"]
    /\ launched = [op \in Ops |-> NoPrint]
    /\ spawns = [op \in Ops |-> 0]
    /\ identity = [op \in Ops |-> FALSE]
    /\ gate = Nobody
    /\ call = [c \in Clients |-> Idle]
    /\ calls = 0

ActiveOf(ops) == {op \in ops : record[op] = "active"}
SameTask(op) == {other \in Keyed : TaskOf[other] = TaskOf[op]}
Receipts == {op \in Keyed : bound[op] # NoPrint}

Respond(c, answer) == /\ call' = [call EXCEPT ![c].at = "done", ![c].reply = answer]
                      /\ gate' = Nobody
Advance(c, at) == /\ call' = [call EXCEPT ![c].at = at]
                  /\ UNCHANGED gate

\* submit, start_shell, start_program: take the submission lock.
Enter(c) ==
    /\ call[c].at \in {"idle", "done"}
    /\ calls < MaxCalls
    /\ gate = Nobody
    /\ \E op \in Ops, print \in Prints :
          /\ op \notin Keyed => spawns[op] = 0 /\ record[op] = "absent" /\ ~folder[op]
          /\ call' = [call EXCEPT ![c] = [at |-> "gated", op |-> op, print |-> print, reply |-> "none"]]
    /\ gate' = c
    /\ calls' = calls + 1
    /\ UNCHANGED <<indexed, bound, confirmed, folder, record, launched, spawns, identity>>

\* The retained answer of an operation that already has a receipt.
Retained(op) == IF record[op] = "pruned" \/ (record[op] # "absent" /\ folder[op]) THEN "known"
                ELSE IF folder[op] THEN "unavailable"
                ELSE IF confirmed[op] THEN "expired" ELSE "unknown"

Replay(c) ==
    LET op == call[c].op IN
    /\ call[c].at = "gated" /\ op \in Keyed /\ bound[op] # NoPrint
    /\ Respond(c, IF bound[op] # call[c].print THEN "conflict" ELSE Retained(op))
    /\ UNCHANGED <<indexed, bound, confirmed, folder, record, launched, spawns, identity, calls>>

\* The legacy admission reads every job directory and fails on one without a status.
Unreadable == \E op \in Ops : folder[op] /\ record[op] = "absent"

Full(op) == \/ op \in Keyed /\ Cardinality(Receipts) >= MaxOperations
            \/ Cardinality(ActiveOf(Ops)) >= MaxActive
            \/ op \in Keyed /\ Cardinality(ActiveOf(SameTask(op))) >= MaxPerTask
            \/ ~indexed /\ Unreadable

\* A mistaken form of Admit: no receipt is written before the launch.
AdmitUnreceipted(c) ==
    LET op == call[c].op IN
    /\ call[c].at = "gated" /\ (op \in Keyed => bound[op] = NoPrint)
    /\ \/ Full(op) /\ Respond(c, "refused")
       \/ ~Full(op) /\ Advance(c, "receipted")
    /\ UNCHANGED <<indexed, bound, confirmed, folder, record, launched, spawns, identity, calls>>
\* operation_count and admit, then the receipt with submitted = false.
Admit(c) ==
    LET op == call[c].op IN
    /\ call[c].at = "gated" /\ (op \in Keyed => bound[op] = NoPrint)
    /\ \/ /\ Full(op)
          /\ Respond(c, "refused")
          /\ UNCHANGED bound
       \/ /\ ~Full(op)
          /\ bound' = IF op \in Keyed THEN [bound EXCEPT ![op] = call[c].print] ELSE bound
          /\ Advance(c, "receipted")
    /\ UNCHANGED <<indexed, confirmed, folder, record, launched, spawns, identity, calls>>

\* create_job: an existing directory is never reused.
CreateFolder(c) ==
    LET op == call[c].op IN
    /\ call[c].at = "receipted"
    /\ \/ /\ folder[op]
          /\ Respond(c, "exists")
          /\ UNCHANGED folder
       \/ /\ ~folder[op]
          /\ folder' = [folder EXCEPT ![op] = TRUE]
          /\ Advance(c, "created")
    /\ UNCHANGED <<indexed, bound, confirmed, record, launched, spawns, identity, calls>>

\* The record is inserted, or an error removes the directory again.
PersistRecord(c) ==
    LET op == call[c].op IN
    /\ call[c].at = "created"
    /\ \/ /\ record' = [record EXCEPT ![op] = "active"]
          /\ Advance(c, "recorded")
          /\ UNCHANGED folder
       \/ /\ folder' = [folder EXCEPT ![op] = FALSE]
          /\ Respond(c, "error")
          /\ UNCHANGED record
    /\ UNCHANGED <<indexed, bound, confirmed, launched, spawns, identity, calls>>

\* spawn_detached, or its failure recorded as a failed job: in the index over an active
\* record only, in the legacy files always, in a directory made anew if need be.
Spawn(c) ==
    LET op == call[c].op IN
    /\ call[c].at = "recorded"
    /\ \/ /\ spawns' = [spawns EXCEPT ![op] = @ + 1]
          /\ launched' = [launched EXCEPT ![op] = call[c].print]
          /\ Advance(c, "spawned")
          /\ UNCHANGED <<folder, record>>
       \/ /\ record' = [record EXCEPT ![op] = IF indexed /\ @ # "active" THEN @ ELSE "terminal"]
          /\ folder' = [folder EXCEPT ![op] = indexed => @]
          /\ Respond(c, "error")
          /\ UNCHANGED <<spawns, launched>>
    /\ UNCHANGED <<indexed, bound, confirmed, identity, calls>>

\* runner-owner.json, in a directory made anew if need be; its failure is reported as an
\* unconfirmed ownership.
PublishIdentity(c) ==
    LET op == call[c].op IN
    /\ call[c].at = "spawned"
    /\ \/ /\ identity' = [identity EXCEPT ![op] = TRUE]
          /\ folder' = [folder EXCEPT ![op] = TRUE]
          /\ Advance(c, "published")
       \/ /\ Respond(c, "unconfirmed")
          /\ UNCHANGED <<identity, folder>>
    /\ UNCHANGED <<indexed, bound, confirmed, record, launched, spawns, calls>>

\* The receipt is rewritten with submitted = true and the call answered.
Confirm(c) ==
    LET op == call[c].op IN
    /\ call[c].at = "published"
    /\ \/ /\ confirmed' = IF op \in Keyed THEN [confirmed EXCEPT ![op] = TRUE] ELSE confirmed
          /\ Respond(c, "accepted")
       \/ /\ op \in Keyed
          /\ Respond(c, "error")
          /\ UNCHANGED confirmed
    /\ UNCHANGED <<indexed, bound, folder, record, launched, spawns, identity, calls>>

\* The submitting process dies; the lock goes with it.
Crash(c) ==
    /\ call[c].at \notin {"idle", "done"}
    /\ call' = [call EXCEPT ![c] = Idle]
    /\ gate' = Nobody
    /\ UNCHANGED <<indexed, bound, confirmed, folder, record, launched, spawns, identity, calls>>

\* The job's life after submission: its record settles (also that of a job
\* whose submitter died before spawning it), its artifacts are
\* pruned; the legacy status lives among the artifacts and goes with them.
Settle(op) ==
    /\ record[op] = "active"
    /\ record' = [record EXCEPT ![op] = "terminal"]
    /\ UNCHANGED <<indexed, bound, confirmed, folder, launched, spawns, identity, gate, call, calls>>
Prune(op) ==
    /\ record[op] = "terminal" /\ folder[op]
    /\ folder' = [folder EXCEPT ![op] = FALSE]
    /\ record' = [record EXCEPT ![op] = IF indexed THEN "pruned" ELSE "absent"]
    /\ UNCHANGED <<indexed, bound, confirmed, launched, spawns, identity, gate, call, calls>>

SubmissionNext ==
    \/ \E c \in Clients : \/ Enter(c) \/ Replay(c) \/ Admit(c) \/ CreateFolder(c)
                          \/ PersistRecord(c) \/ Spawn(c) \/ PublishIdentity(c)
                          \/ Confirm(c) \/ Crash(c)
    \/ \E op \in Ops : Settle(op) \/ Prune(op)

SubmissionSpec == SubmissionInit /\ [][SubmissionNext]_submissionVars

-----------------------------------------------------------------------------
\* However often an operation is retried, and wherever its submitters crash,
\* its runner is spawned at most once.
SpawnedOnce == \A op \in Ops : spawns[op] <= 1

\* What runs under an operation identity is the request its receipt names, and
\* no caller with a different request is told that the operation is its own.
LaunchIsBound ==
    /\ \A op \in Keyed : launched[op] # NoPrint => bound[op] = launched[op]
    /\ \A c \in Clients : call[c].at = "done" /\ call[c].op \in Keyed
          /\ call[c].reply \in {"accepted", "known", "expired", "unknown", "unavailable"}
             => bound[call[c].op] = call[c].print

\* Active jobs, in all and per task, and durable receipts stay within their
\* configured capacities.
CapacityHeld ==
    /\ Cardinality(ActiveOf(Ops)) <= MaxActive
    /\ \A op \in Keyed : Cardinality(ActiveOf(SameTask(op))) <= MaxPerTask
    /\ Cardinality(Receipts) <= MaxOperations

\* submit's two answers for an operation whose job is gone tell the truth:
\* result_expired only if its runner was spawned, and JOB_EXISTS never reaches the
\* caller of an operation identity, whose receipt answers first.
GoneJobsAnswered ==
    /\ \A c \in Clients : call[c].at = "done" /\ call[c].reply = "expired"
                       => spawns[call[c].op] = 1 /\ record[call[c].op] = "absent"
    /\ \A c \in Clients : call[c].at = "done" /\ call[c].op \in Keyed => call[c].reply # "exists"

\* Submitting a job (submit under .submission.lock): whatever the retries, an operation
\* starts one workload, the one its fingerprint names, under the limits on active jobs and
\* receipts, and a job that is gone is reported as gone, never started again.
LaunchedOnce == SpawnedOnce /\ LaunchIsBound /\ CapacityHeld /\ GoneJobsAnswered
===============================================================================
