-------------------------------- MODULE JobLife -------------------------------
(*****************************************************************************)
(* The life of one detached job in the indexed store: its launch, the runner *)
(* process that executes it (job_runner.cpp), and the clients that read its  *)
(* status, reconcile it, and cancel it (jobs.cpp).                           *)
(*                                                                           *)
(* They share the job record (compare-and-swap through the state store) and  *)
(* the files of the job directory: runner-owner.json, heartbeat.json and     *)
(* cancel.requested. Procs are the runner processes; the first is spawned by *)
(* the submitter, any other is a further invocation of the runner on the     *)
(* same request from the command line. Each starts at most one workload      *)
(* process, in a process group of its own, which outlives a runner that is   *)
(* killed. Whether a heartbeat is stale or recent, and when a process dies,  *)
(* is left open.                                                             *)
(*****************************************************************************)
EXTENDS Naturals, FiniteSets
CONSTANTS Procs, Launched, NoProc, Readers

ASSUME LifeConstants == Launched \in Procs /\ NoProc \notin Procs

VARIABLES docker,  \* runtimeMode of the request
          launch,  \* progress of persist_and_spawn
          rec,     \* status, runnerPid and workloadTerminationVerified of the record
          jobOwner, \* runner-owner.json names the launched process
          marker,  \* cancel.requested exists
          beat,    \* the child named by heartbeat.json, or "none" / "empty"
          lock,    \* holder of .runner.lock
          proc,    \* program counter and computed result of each runner process
          work,    \* the workload of each runner process
          view     \* the snapshot each reader acts on

lifeVars == <<docker, launch, rec, jobOwner, marker, beat, lock, proc, work, view>>

terminal_status == {"succeeded", "failed", "cancelled", "timed_out", "interrupted"}
Dormant == {"unborn", "exited", "crashed"}
Live(p) == p # NoProc /\ proc[p].at \notin Dormant
WorkAlive(p) == p \in Procs /\ work[p] = "alive"
Ready == [at |-> "idle", status |-> "queued", pid |-> NoProc, cancels |-> FALSE]

LifeInit == /\ docker \in BOOLEAN
            /\ launch = "recorded"
            /\ rec = [status |-> "queued", pid |-> NoProc, verified |-> TRUE, by |-> NoProc]
            /\ jobOwner = FALSE /\ marker = FALSE /\ beat = NoProc /\ lock = NoProc
            /\ proc = [p \in Procs |-> [at |-> "unborn", result |-> "none"]]
            /\ work = [p \in Procs |-> "none"]
            /\ view = [r \in Readers |-> Ready]

\* write_status: a late writer cannot resurrect a terminal record; only an
\* unverified termination may still replace "cancelled".
write_status(status, pid, verified, by) ==
    rec' = IF /\ rec.status \in terminal_status
              /\ rec.status # status
              /\ ~(rec.status = "cancelled" /\ status = "interrupted" /\ ~verified)
           THEN rec
           ELSE [status |-> status, pid |-> IF pid = NoProc THEN rec.pid ELSE pid,
                 verified |-> rec.verified /\ verified, by |-> by]

Reach(p, at) == proc' = [proc EXCEPT ![p].at = at]
Conclude(p, result) == proc' = [proc EXCEPT ![p] = [at |-> "concluded", result |-> result]]

-----------------------------------------------------------------------------
\* The result of a job that did not get as far as an exit: the marker, or a SIGTERM or SIGINT
\* the runner may have received, makes it a cancelled one.
Stopped == {"cancelled"} \union (IF marker THEN {} ELSE {"failed"})
\* persist_and_spawn after create_job: spawn (or record the failure), then publish
\* runner-owner.json; the submitter may also die at either point.
SpawnRunner ==
    /\ launch = "recorded"
    /\ \/ /\ Reach(Launched, "spawned") /\ launch' = "spawned"
          /\ UNCHANGED rec
       \/ /\ write_status("failed", NoProc, TRUE, NoProc) /\ launch' = "over"
          /\ UNCHANGED proc
       \/ /\ launch' = "over"
          /\ UNCHANGED <<rec, proc>>
    /\ UNCHANGED <<docker, jobOwner, marker, beat, lock, work, view>>
PublishOwner ==
    /\ launch = "spawned" /\ launch' = "over"
    /\ jobOwner' \in BOOLEAN
    /\ UNCHANGED <<docker, rec, marker, beat, lock, proc, work, view>>
\* A second invocation of the runner on the same request.
Invoke(p) ==
    /\ p # Launched /\ proc[p].at = "unborn" /\ launch # "recorded"
    /\ Reach(p, "spawned")
    /\ UNCHANGED <<docker, launch, rec, jobOwner, marker, beat, lock, work, view>>

\* run_job_request: the runner lock, waited for one millisecond.
LockRequest(p) ==
    /\ proc[p].at = "spawned"
    /\ IF lock = NoProc THEN lock' = p /\ Reach(p, "locked")
                        ELSE lock' = lock /\ Reach(p, "exited")
    /\ UNCHANGED <<docker, launch, rec, jobOwner, marker, beat, work, view>>
\* A finished, cancelled or already owned job is left alone.
Examine(p) ==
    /\ proc[p].at = "locked"
    /\ IF rec.status \in terminal_status \/ marker \/ (rec.pid # p /\ Live(rec.pid))
       THEN Reach(p, "exited") /\ lock' = NoProc
       ELSE Reach(p, "examined") /\ UNCHANGED lock
    /\ UNCHANGED <<docker, launch, rec, jobOwner, marker, beat, work, view>>
Queue(p) ==
    /\ proc[p].at = "examined"
    /\ write_status("queued", p, TRUE, NoProc)
    /\ Reach(p, "queued")
    /\ UNCHANGED <<docker, launch, jobOwner, marker, beat, lock, work, view>>
\* RunnerMonitor: the first heartbeat names no child.
StartMonitor(p) ==
    /\ proc[p].at = "queued"
    /\ beat' = NoProc
    /\ Reach(p, "monitored")
    /\ UNCHANGED <<docker, launch, rec, jobOwner, marker, lock, work, view>>
\* The research gate and the scheduler lease, granted, refused or cancelled.
Acquire(p) ==
    /\ proc[p].at = "monitored"
    /\ \/ Reach(p, "leased")
       \/ \E result \in Stopped : Conclude(p, result)
    /\ UNCHANGED <<docker, launch, rec, jobOwner, marker, beat, lock, work, view>>
\* Cancellation is looked at once more before the job is declared running.
Begin(p) ==
    /\ proc[p].at = "leased"
    /\ \/ Conclude(p, "cancelled") /\ UNCHANGED rec
       \/ /\ ~marker
          /\ write_status("running", p, TRUE, NoProc) /\ Reach(p, "running")
    /\ UNCHANGED <<docker, launch, jobOwner, marker, beat, lock, work, view>>
\* The runtime starts the workload, or fails to.
Execute(p) ==
    /\ proc[p].at = "running"
    /\ \/ /\ work' = [work EXCEPT ![p] = "alive"]
          /\ Reach(p, "working")
       \/ /\ \E result \in Stopped : Conclude(p, result)
          /\ UNCHANGED work
    /\ UNCHANGED <<docker, launch, rec, jobOwner, marker, beat, lock, view>>
\* set_child: the heartbeat names the workload from here on.
SetChild(p) ==
    /\ proc[p].at = "working" /\ beat # p
    /\ beat' = p
    /\ UNCHANGED <<docker, launch, rec, jobOwner, marker, lock, proc, work, view>>
\* A mistaken form of Finish: an exit that was not observed is reported as a failure.
FinishUnseen(p) ==
    /\ proc[p].at = "working" /\ beat = p
    /\ Conclude(p, "failed")
    /\ UNCHANGED <<docker, launch, rec, jobOwner, marker, beat, lock, work, view>>
\* The workload ended and was reaped, was stopped (cancellation, timeout), or its
\* exit was not observed, in which case it may still be alive.
Finish(p) ==
    /\ proc[p].at = "working" /\ beat = p
    /\ \/ /\ work' = [work EXCEPT ![p] = "dead"]
          /\ \E result \in Stopped \union {"succeeded"} \union (IF marker THEN {} ELSE {"timed_out"}) :
                Conclude(p, result)
       \/ /\ Conclude(p, "interrupted")
          /\ UNCHANGED work
    /\ UNCHANGED <<docker, launch, rec, jobOwner, marker, beat, lock, view>>
\* persist_terminal, after the monitor is quiet: "cancelled" is not overwritten.
PersistTerminal(p) ==
    /\ proc[p].at = "concluded"
    /\ IF rec.status = "cancelled" THEN UNCHANGED rec
       ELSE write_status(proc[p].result, p, proc[p].result # "interrupted", p)
    /\ Reach(p, "exited") /\ lock' = NoProc
    /\ UNCHANGED <<docker, launch, jobOwner, marker, beat, work, view>>
\* The runner is killed; its workload is not.
RunnerDies(p) ==
    /\ Live(p)
    /\ Reach(p, "crashed")
    /\ lock' = IF lock = p THEN NoProc ELSE lock
    /\ UNCHANGED <<docker, launch, rec, jobOwner, marker, beat, work, view>>
WorkEnds(p) ==
    /\ work[p] = "alive"
    /\ work' = [work EXCEPT ![p] = "dead"]
    /\ UNCHANGED <<docker, launch, rec, jobOwner, marker, beat, lock, proc, view>>

-----------------------------------------------------------------------------
\* get_status, first half: the raw record, completed from runner-owner.json.
LookAt(r, cancels) ==
    /\ view[r].at = "idle"
    /\ view' = [view EXCEPT ![r] =
          [at |-> "looked", status |-> rec.status, cancels |-> cancels,
           pid |-> IF rec.pid # NoProc THEN rec.pid ELSE IF jobOwner THEN Launched ELSE NoProc]]
    /\ UNCHANGED <<docker, launch, rec, jobOwner, marker, beat, lock, proc, work>>

\* cancel goes on to write its marker unless the job is over.
Then(r, status) == view' = [view EXCEPT ![r].at =
    IF view[r].cancels /\ status \notin terminal_status THEN "cancelling" ELSE "idle"]

\* reconcile_cancelled: nothing is written while the runner or the child it named lives.
ReconcileCancelled(r) ==
    /\ view[r].at = "looked"
    /\ view[r].status \in {"cancelled"} \union (IF marker THEN {"queued", "running"} ELSE {})
    /\ LET pending == Live(view[r].pid) \/ WorkAlive(beat) IN
       \/ /\ pending
          /\ Then(r, "cancel_requested") /\ UNCHANGED rec
       \/ /\ ~pending /\ docker
          /\ write_status("interrupted", view[r].pid, FALSE, NoProc) /\ Then(r, "interrupted")
       \/ /\ ~pending /\ ~docker
          /\ IF view[r].status = "cancelled" THEN UNCHANGED rec
             ELSE write_status("cancelled", view[r].pid, TRUE, NoProc)
          /\ Then(r, "cancelled")
    /\ UNCHANGED <<docker, launch, jobOwner, marker, beat, lock, proc, work>>

\* reconcile, second half: a finished job is left alone, and so is one whose runner
\* is alive or whose heartbeat is recent.
ReconcileSettled(r) ==
    /\ view[r].at = "looked" /\ view[r].status # "cancelled"
    /\ view[r].status \in terminal_status \/ ~marker
    /\ Then(r, view[r].status)
    /\ UNCHANGED <<docker, launch, rec, jobOwner, marker, beat, lock, proc, work>>
\* A mistaken form of InterruptOrphan: an unknown runner counts as live.
InterruptKnown(r) ==
    /\ view[r].at = "looked" /\ view[r].status \notin terminal_status /\ ~marker
    /\ view[r].pid # NoProc /\ ~Live(view[r].pid)
    /\ write_status("interrupted", view[r].pid, TRUE, NoProc)
    /\ Then(r, "interrupted")
    /\ UNCHANGED <<docker, launch, jobOwner, marker, beat, lock, proc, work>>
\* interrupt_orphan: the heartbeat is stale and no runner lives.  The child it names is
\* stopped only when the heartbeat is recent enough for its pid to be trusted.
InterruptOrphan(r) ==
    /\ view[r].at = "looked" /\ view[r].status \notin terminal_status /\ ~marker
    /\ ~Live(view[r].pid)
    /\ \E trusted \in BOOLEAN :
          work' = IF trusted /\ WorkAlive(beat) THEN [work EXCEPT ![beat] = "dead"] ELSE work
    /\ write_status("interrupted", view[r].pid, TRUE, NoProc)
    /\ Then(r, "interrupted")
    /\ UNCHANGED <<docker, launch, jobOwner, marker, beat, lock, proc>>

\* cancel: publish the marker, then terminate the runner the snapshot named.
WriteMarker(r) ==
    /\ view[r].at = "cancelling"
    /\ marker' = TRUE
    /\ view' = [view EXCEPT ![r].at = IF view[r].pid = NoProc THEN "idle" ELSE "terminating"]
    /\ UNCHANGED <<docker, launch, rec, jobOwner, beat, lock, proc, work>>
Terminate(r) ==
    /\ view[r].at = "terminating"
    /\ view' = [view EXCEPT ![r].at = "idle"]
    /\ IF Live(view[r].pid)
       THEN Reach(view[r].pid, "crashed") /\ lock' = IF lock = view[r].pid THEN NoProc ELSE lock
       ELSE UNCHANGED <<proc, lock>>
    /\ UNCHANGED <<docker, launch, rec, jobOwner, marker, beat, work>>

RunnerStep(p) == \/ LockRequest(p) \/ Examine(p) \/ Queue(p) \/ StartMonitor(p) \/ Acquire(p)
                 \/ Begin(p) \/ Execute(p) \/ SetChild(p) \/ Finish(p) \/ PersistTerminal(p)
ReaderStep(r) == \/ ReconcileCancelled(r) \/ ReconcileSettled(r) \/ InterruptOrphan(r)
                 \/ WriteMarker(r) \/ Terminate(r)

LifeNext == \/ SpawnRunner \/ PublishOwner
            \/ \E p \in Procs : Invoke(p) \/ RunnerStep(p) \/ RunnerDies(p) \/ WorkEnds(p)
            \/ \E r \in Readers : ReaderStep(r) \/ \E cancels \in BOOLEAN : LookAt(r, cancels)

LifeSpec == LifeInit /\ [][LifeNext]_lifeVars

-----------------------------------------------------------------------------
\* write_status and its callers: a terminal record stands; only the admission that a
\* cancelled workload's termination is unverified may still replace "cancelled".
TerminalStands ==
    [][rec.status \in terminal_status /\ rec'.status # rec.status
       => rec.status = "cancelled" /\ rec'.status = "interrupted" /\ ~rec'.verified]_lifeVars

\* Once the launch identity is published, a reader records an orphan only after the
\* launched runner has really gone (persist_and_spawn: "A cold-starting but live
\* process must not be called orphaned before it has written its first heartbeat").
LiveLaunchNotOrphaned ==
    [][\A r \in Readers :
         view[r].at = "looked" /\ view[r].pid # NoProc /\ view'[r].at # "looked"
         /\ rec.status \notin terminal_status /\ rec'.status \in terminal_status
         => ~Live(view[r].pid)]_lifeVars

\* The runner lock and the check behind it: two invocations of the runner never execute
\* the request at the same time, and none starts its workload once a runner has recorded
\* the job's result.
NotExecutedAgain ==
    /\ \A p, q \in Procs : proc[p].at \in {"queued", "monitored", "leased", "running", "working", "concluded"}
          /\ proc[q].at \in {"queued", "monitored", "leased", "running", "working", "concluded"} => p = q
    /\ rec.by # NoProc => \A p \in Procs : p # rec.by /\ proc[p].at # "exited" /\ proc[p].at # "crashed"
                                           => proc[p].at \in {"unborn", "spawned", "locked"}

\* A record that says the workload ended (succeeded, failed, timed_out) was written by
\* the runner that observed the end: that runner's workload is not alive.
EndedMeansEnded ==
    rec.status \in {"succeeded", "failed", "timed_out"} /\ rec.by # NoProc => ~WorkAlive(rec.by)

\* The record of a job: a workload is not executed again by a second runner, a job is
\* ended only when its workload is, a terminal status stands, and a launch that is still
\* under way is not taken for an orphan.
JobRecordTrue ==
    /\ [](NotExecutedAgain /\ EndedMeansEnded)
    /\ TerminalStands
    /\ LiveLaunchNotOrphaned

\* A job gets a terminal record: its runner finishes, or readers that keep looking find
\* out that it is gone.  The one exception is a cancelled job whose workload outlived
\* its runner, which stays cancel_requested for as long as the workload runs.
JobSettles == <>(rec.status \in terminal_status \/ (marker /\ \E p \in Procs : WorkAlive(p) /\ ~Live(p)))

\* Runners and readers keep taking steps (a workload ends by its timeout), status is
\* read again and again, and the heartbeat of a job nobody runs goes stale.
LifeFairness == /\ \A p \in Procs : WF_lifeVars(RunnerStep(p))
                /\ WF_lifeVars(SpawnRunner)
                /\ \A r \in Readers : /\ WF_lifeVars(ReaderStep(r))
                                      /\ WF_lifeVars(LookAt(r, FALSE))
                                      /\ SF_lifeVars(InterruptOrphan(r))
===============================================================================
