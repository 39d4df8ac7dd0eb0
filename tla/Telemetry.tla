------------------------------- MODULE Telemetry ------------------------------
(*****************************************************************************)
(* What the service writes about itself: the logs of a job, the usage log,   *)
(* the background tasks and the health monitor. They share no state.         *)
(*****************************************************************************)
EXTENDS Integers, Sequences, SequencesExt, FiniteSets

-------------------------------------------------------------------------------
(*****************************************************************************)
(* The log of a detached job (job_logs.cpp): process output is queued by     *)
(* JobLogPump::push and written by one worker thread to a rotating file. A   *)
(* rotation is a sequence of filesystem steps, each of which may fail or be  *)
(* the last one before the runner is killed. Output bytes are numbered in    *)
(* the order the process produced them; a chunk is one byte.                 *)
(*****************************************************************************)
CONSTANTS Produced,   \* bytes the process writes
          Capacity,   \* chunks the queue holds (256)
          Segment,    \* bytes of a segment (maximum_)
          PumpRotations \* rotated segments kept

VARIABLES next,       \* the next byte the process writes
          pumpQueue, stalled, closing, \* queue, queue_failure and closing of JobLogPump::State
          segment,    \* the files: path, path.1 ... path.Rotations
          present,    \* which of them exist
          shifting,   \* the rotation's next index, or NoShift
          written,    \* bytes that reached a file
          performed,  \* a rotation was completed
          broken,     \* failure_ of the sink
          pump        \* the worker: "running", "finished" or "killed"

pumpLogVars == <<next, pumpQueue, stalled, closing, segment, present, shifting, written, performed, broken, pump>>

NoShift == -1
Indices == 0 .. PumpRotations

PumpInit == /\ next = 1
            /\ pumpQueue = <<>> /\ stalled = FALSE /\ closing = FALSE
            /\ segment = [i \in Indices |-> <<>>]
            /\ present = {0}
            /\ shifting = NoShift
            /\ written = 0 /\ performed = FALSE /\ broken = FALSE
            /\ pump = "running"

\* push: a chunk is queued when there is room; a stall of a second gives up for good.
Push == /\ next <= Produced /\ ~closing /\ pump # "killed"
        /\ next' = next + 1
        /\ \/ stalled /\ UNCHANGED <<pumpQueue, stalled>>
           \/ ~stalled /\ Len(pumpQueue) < Capacity /\ pumpQueue' = Append(pumpQueue, next) /\ UNCHANGED stalled
           \/ ~stalled /\ Len(pumpQueue) >= Capacity /\ stalled' = TRUE /\ UNCHANGED pumpQueue
        /\ UNCHANGED <<closing, segment, present, shifting, written, performed, broken, pump>>

\* finish: the process is over; the worker drains the queue.
Close == /\ next > Produced /\ ~closing
         /\ closing' = TRUE
         /\ UNCHANGED <<next, pumpQueue, stalled, segment, present, shifting, written, performed, broken, pump>>

PumpFail == /\ broken' = TRUE
            /\ UNCHANGED <<segment, present, shifting, written, performed>>

\* RotatingSink::write of the chunk at the head of the queue, when the segment has room.
Write == /\ pump = "running" /\ pumpQueue # <<>> /\ shifting = NoShift
         /\ broken \/ Len(segment[0]) < Segment
         /\ pumpQueue' = Tail(pumpQueue)
         /\ \/ broken /\ UNCHANGED <<segment, present, shifting, written, performed, broken>>
            \/ /\ ~broken
               /\ segment' = [segment EXCEPT ![0] = Append(@, Head(pumpQueue))]
               /\ written' = written + 1
               /\ UNCHANGED <<present, shifting, performed, broken>>
            \/ ~broken /\ PumpFail
         /\ UNCHANGED <<next, stalled, closing, pump>>

\* rotate: the oldest segment is removed ...
RemoveOldest ==
    /\ pump = "running" /\ pumpQueue # <<>> /\ shifting = NoShift /\ ~broken
    /\ Len(segment[0]) >= Segment
    /\ \/ /\ segment' = [segment EXCEPT ![PumpRotations] = <<>>]
          /\ present' = present \ {PumpRotations}
          /\ shifting' = PumpRotations
          /\ UNCHANGED <<pumpQueue, written, performed, broken>>
       \/ PumpFail /\ pumpQueue' = Tail(pumpQueue)
    /\ UNCHANGED <<next, stalled, closing, pump>>
\* ... the others move up by one, from the oldest to the youngest ...
Shift ==
    /\ pump = "running" /\ shifting > 0
    /\ \/ /\ shifting' = shifting - 1
          /\ IF shifting - 1 \in present
             THEN /\ segment' = [segment EXCEPT ![shifting] = segment[shifting - 1], ![shifting - 1] = <<>>]
                  /\ present' = (present \union {shifting}) \ {shifting - 1}
             ELSE UNCHANGED <<segment, present>>
          /\ UNCHANGED <<pumpQueue, written, performed, broken>>
       \/ /\ shifting' = NoShift /\ broken' = TRUE /\ pumpQueue' = Tail(pumpQueue)
          /\ UNCHANGED <<segment, present, written, performed>>
    /\ UNCHANGED <<next, stalled, closing, pump>>
\* ... and an empty current segment is opened.
Reopen ==
    /\ pump = "running" /\ shifting = 0
    /\ shifting' = NoShift
    /\ \/ /\ present' = present \union {0} /\ performed' = TRUE
          /\ UNCHANGED <<pumpQueue, broken>>
       \/ /\ broken' = TRUE /\ pumpQueue' = Tail(pumpQueue)
          /\ UNCHANGED <<present, performed>>
    /\ UNCHANGED <<next, stalled, closing, segment, written, pump>>

\* The worker leaves its loop and fills in the result.
Finish == /\ pump = "running" /\ closing /\ pumpQueue = <<>> /\ shifting = NoShift
          /\ pump' = "finished"
          /\ broken' = (broken \/ stalled)
          /\ UNCHANGED <<next, pumpQueue, stalled, closing, segment, present, shifting, written, performed>>
Killed == /\ pump = "running"
          /\ pump' = "killed"
          /\ UNCHANGED <<next, pumpQueue, stalled, closing, segment, present, shifting, written, performed, broken>>

Worker == Write \/ RemoveOldest \/ Shift \/ Reopen \/ Finish
PumpNext == Push \/ Close \/ Worker \/ Killed

\* The log as its readers concatenate it (read_log_tail): oldest segment first.
PumpRetained == FlattenSeq([i \in 1 .. PumpRotations + 1 |-> segment[PumpRotations + 1 - i]])

\* At every moment, also inside a rotation and after a failure or a kill, what is
\* retained is in order, without holes or repetitions, and ends with the last byte
\* written; and it is bounded.
RetainedIsSuffix ==
    /\ Len(PumpRetained) <= written /\ Len(PumpRetained) <= (PumpRotations + 1) * Segment
    /\ \A n \in 1 .. Len(PumpRetained) : PumpRetained[n] = written - Len(PumpRetained) + n
    /\ \A i \in Indices \ present : segment[i] = <<>>

\* A finished log that reports neither truncation nor failure holds every byte.
LossIsReported ==
    pump = "finished" /\ ~performed /\ ~stalled /\ ~broken => Len(PumpRetained) = Produced

\* finish() returns: the worker drains the queue and ends.
PumpEnds == closing ~> pump # "running"
PumpLogFairness == WF_pumpLogVars(Worker)

-------------------------------------------------------------------------------
(*****************************************************************************)
(* Usage telemetry: tool invocations emit a start and one end event, the     *)
(* logger queues events within a count and a byte budget, and one writer     *)
(* thread appends them in batches to a log that is rotated by size. Event n  *)
(* is the n-th one accepted; its charge is Charge. A write and each rename   *)
(* of a rotation can fail; what a failed batch did not write is lost and     *)
(* counted.                                                                  *)
(*****************************************************************************)
CONSTANTS Invocations, Depth, BatchLimit, Charge, Budget, MaxFile, UsageRotations, MaxFailures

VARIABLES call,      \* each invocation: unborn, starting, active, or the end events it emitted
          ends,      \* how many end events each emitted
          usageQueue, \* queue_: event numbers
          resident,  \* resident_bytes_
          enqueued, dropped, failures,
          batch,     \* the events the writer took and has not written
          taken,     \* batch_bytes: the charge of the batch the writer took
          pending,   \* write_buffer_
          files,     \* files[0] is the log, files[i] its i-th rotation
          shift,     \* where a rotation in progress is: 0 when there is none
          lost,      \* events of failed batches (history)
          stopping, writer

usageLogVars == <<call, ends, usageQueue, resident, enqueued, dropped, failures, batch, taken, pending, files,
                  shift, lost, stopping, writer>>

UsageInit ==
         /\ call = [i \in Invocations |-> "unborn"] /\ ends = [i \in Invocations |-> 0]
         /\ usageQueue = <<>> /\ resident = 0 /\ enqueued = 0 /\ dropped = 0 /\ failures = 0
         /\ batch = <<>> /\ taken = 0 /\ pending = <<>>
         /\ files = [i \in 0..UsageRotations |-> <<>>]
         /\ shift = 0 /\ lost = {} /\ stopping = FALSE /\ writer = "waiting"

(* UsageLogger::enqueue.                                                   *)
Admits == ~stopping /\ Len(usageQueue) < Depth /\ Charge <= Budget - resident
enqueue ==
    IF Admits
    THEN /\ enqueued' = enqueued + 1
         /\ usageQueue' = Append(usageQueue, enqueued + 1)
         /\ resident' = resident + Charge
         /\ UNCHANGED dropped
    ELSE dropped' = dropped + 1 /\ UNCHANGED <<enqueued, usageQueue, resident>>

Sink == <<failures, batch, taken, pending, files, shift, lost, stopping, writer>>

(* UsageTelemetry::started queues the event and then registers the call;   *)
(* finished and failed remove it first, so whoever comes second does       *)
(* nothing.                                                                *)
Started(i) ==
    /\ call[i] = "unborn" /\ enqueue
    /\ call' = [call EXCEPT ![i] = "active"]
    /\ UNCHANGED <<ends, Sink>>
Removed(i) == call[i] = "active"
Ended(i) ==
    /\ call[i] \in {"active", "ended"} /\ ends[i] < 2
    /\ call' = [call EXCEPT ![i] = "ended"]
    /\ IF Removed(i) THEN ends' = [ends EXCEPT ![i] = @ + 1] /\ enqueue
       ELSE UNCHANGED <<ends, enqueued, usageQueue, resident, dropped>>
    /\ UNCHANGED Sink

UsageStop == ~stopping /\ stopping' = TRUE
             /\ UNCHANGED <<call, ends, usageQueue, resident, enqueued, dropped, failures, batch, taken, pending, files, shift, lost, writer>>

(* UsageLogger::run: take a batch, or end when told to and nothing is      *)
(* left.                                                                   *)
Batch == SubSeq(usageQueue, 1, IF Len(usageQueue) < BatchLimit THEN Len(usageQueue) ELSE BatchLimit)
TakeBatch ==
    /\ writer = "waiting" /\ (usageQueue # <<>> \/ stopping)
    /\ writer' = IF usageQueue = <<>> THEN "ended" ELSE "appending"
    /\ batch' = Batch /\ usageQueue' = SubSeq(usageQueue, Len(Batch) + 1, Len(usageQueue))
    /\ taken' = Charge * Len(Batch)
    /\ UNCHANGED <<call, ends, resident, enqueued, dropped, failures, pending, files, shift, lost, stopping>>

(* append_batch: an event is buffered unless the file would be full, which *)
(* flushes and rotates first; a large buffer is flushed early.             *)
Full == batch # <<>> /\ Len(files[0]) + Len(pending) + 1 >= MaxFile
BufferLine ==
    /\ writer = "appending" /\ shift = 0 /\ batch # <<>> /\ ~Full
    /\ pending' = Append(pending, Head(batch)) /\ batch' = Tail(batch)
    /\ UNCHANGED <<call, ends, usageQueue, resident, enqueued, dropped, failures, taken, files, shift, lost, stopping, writer>>
Flushed == [files EXCEPT ![0] = @ \o pending]
Flush ==
    /\ writer = "appending" /\ shift = 0 /\ (Full \/ batch = <<>> \/ pending # <<>>)
    /\ files' = IF Full THEN [Flushed EXCEPT ![UsageRotations] = <<>>] ELSE Flushed
    /\ pending' = <<>>
    /\ shift' = IF Full THEN UsageRotations ELSE 0
    /\ writer' = IF batch = <<>> THEN "written" ELSE "appending"
    /\ UNCHANGED <<call, ends, usageQueue, resident, enqueued, dropped, failures, batch, taken, lost, stopping>>
(* A mistaken form of Rotated: the log is copied and goes on growing.      *)
RotatedCopy == [files EXCEPT ![shift] = files[shift - 1]]
(* One rename of a rotation, from the oldest file to the log itself.  The  *)
(* event that did not fit is buffered after the last one.                  *)
Rotated == [files EXCEPT ![shift] = files[shift - 1], ![shift - 1] = <<>>]
Rotate ==
    /\ writer = "appending" /\ shift > 0
    /\ files' = Rotated
    /\ shift' = shift - 1
    /\ IF shift = 1 THEN pending' = <<Head(batch)>> /\ batch' = Tail(batch) ELSE UNCHANGED <<pending, batch>>
    /\ UNCHANGED <<call, ends, usageQueue, resident, enqueued, dropped, failures, taken, lost, stopping, writer>>

(* Any of this fails, a write perhaps after its first events: the rest of  *)
(* the batch is given up.                                                  *)
UsageFail ==
         /\ writer = "appending" /\ failures < MaxFailures
         /\ failures' = failures + 1
         /\ \E k \in 0..Len(pending) :
               /\ files' = [files EXCEPT ![0] = @ \o SubSeq(pending, 1, k)]
               /\ lost' = lost \cup Range(SubSeq(pending, k + 1, Len(pending))) \cup Range(batch)
         /\ pending' = <<>> /\ batch' = <<>> /\ shift' = 0
         /\ writer' = "written"
         /\ UNCHANGED <<call, ends, usageQueue, resident, enqueued, dropped, taken, stopping>>

(* The batch's bytes are released once its events are freed.               *)
Release ==
    /\ writer = "written"
    /\ resident' = resident - taken /\ taken' = 0
    /\ writer' = "waiting"
    /\ UNCHANGED <<call, ends, usageQueue, enqueued, dropped, failures, batch, pending, files, shift, lost, stopping>>

WriterStep == TakeBatch \/ BufferLine \/ Flush \/ Rotate \/ Release

UsageNext ==
         \/ UsageStop
         \/ TakeBatch
         \/ BufferLine
         \/ Flush
         \/ Rotate
         \/ UsageFail
         \/ Release
         \/ \E i \in Invocations : Started(i) \/ Ended(i)

UsageLogFairness == WF_usageLogVars(WriterStep)

UsageRetained == FlattenSeq([i \in 1..UsageRotations + 1 |-> files[UsageRotations + 1 - i]])

(* The log and its rotations hold accepted events in order and once each,  *)
(* also after a rotation that failed half way, and an event the log does   *)
(* not hold was lost with a failed batch, is on its way, or is older than  *)
(* every retained one.                                                     *)
LogIsOrdered ==
    /\ \A i, j \in DOMAIN UsageRetained : i < j => UsageRetained[i] < UsageRetained[j]
    /\ \A e \in 1..enqueued :
          \/ e \in Range(UsageRetained) \cup Range(usageQueue) \cup Range(batch) \cup Range(pending) \cup lost
          \/ \A i \in DOMAIN UsageRetained : e < UsageRetained[i]

(* The bytes charged cover exactly the events queued or in the writer's    *)
(* hands, so the budget neither leaks nor lets more in.                    *)
BudgetExact ==
    /\ resident <= Budget
    /\ Charge * (Len(usageQueue) + Len(batch) + Len(pending)) <= resident
    /\ writer \in {"waiting", "ended"} => resident = Charge * Len(usageQueue)

(* An invocation emits one end event, however its end was noticed.         *)
EndedOnce == \A i \in Invocations : ends[i] <= 1

(* Stopping the logger ends its thread with everything accepted written or *)
(* counted as a failure.                                                   *)
StopDrains == stopping ~> (writer = "ended" /\ usageQueue = <<>> /\ batch = <<>> /\ pending = <<>>)

-------------------------------------------------------------------------------
(*****************************************************************************)
(* The background tasks of a server process: coroutines of one thread that   *)
(* wait, run an action on the worker pool, note its outcome and wait again,  *)
(* until the task is over or the whole set is stopped.                       *)
(*****************************************************************************)
CONSTANTS Tasks, Once

VARIABLES started,   \* started_
          stop,      \* cancel_: the stop has begun
          joined,    \* stop() has returned
          at,        \* each task: unborn, delay, run, over
          action,    \* its action: idle, running, ended well or badly
          note       \* its State: running, succeeded (last_success), failing (consecutive_failures)

taskVars == <<started, stop, joined, at, action, note>>

TaskInit ==
        /\ started = FALSE /\ stop = FALSE /\ joined = FALSE
        /\ at = [t \in Tasks |-> "unborn"]
        /\ action = [t \in Tasks |-> "idle"]
        /\ note = [t \in Tasks |-> [running |-> FALSE, succeeded |-> FALSE, failing |-> FALSE]]

(* periodic, adaptive, once: the thread is started with the first task.    *)
Register(t) ==
    /\ at[t] = "unborn" /\ ~stop
    /\ started' = TRUE
    /\ at' = [at EXCEPT ![t] = "delay"]
    /\ note' = [note EXCEPT ![t].running = TRUE]
    /\ UNCHANGED <<stop, joined, action>>

(* The delay passes and the action is handed to the pool ...               *)
Attempt(t) ==
    /\ at[t] = "delay" /\ ~stop
    /\ at' = [at EXCEPT ![t] = "run"]
    /\ action' = [action EXCEPT ![t] = "running"]
    /\ UNCHANGED <<started, stop, joined, note>>

(* ... which runs it, or refuses it; an action that was told to stop may   *)
(* end with Cancelled.                                                     *)
ActionEnds(t) ==
    /\ action[t] = "running"
    /\ \E outcome \in {"good", "bad"} \cup (IF stop THEN {"cancelled"} ELSE {}) :
          action' = [action EXCEPT ![t] = outcome]
    /\ UNCHANGED <<started, stop, joined, at, note>>

(* The coroutine resumes with the outcome.                                 *)
Settled(t) == CASE action[t] = "good" -> [running |-> TRUE, succeeded |-> TRUE, failing |-> FALSE]
                [] action[t] = "bad" -> [note[t] EXCEPT !.running = TRUE, !.failing = TRUE]
                [] OTHER -> note[t]
Resumes(t) == action[t] \in {"good", "bad", "cancelled"}
Goes(t) == IF action[t] = "cancelled" \/ t \in Once THEN "over" ELSE "delay"
Resume(t) ==
    /\ at[t] = "run" /\ Resumes(t)
    /\ at' = [at EXCEPT ![t] = Goes(t)]
    /\ note' = [note EXCEPT ![t] = [Settled(t) EXCEPT !.running = Goes(t) # "over"]]
    /\ action' = [action EXCEPT ![t] = IF @ = "running" THEN @ ELSE "idle"]
    /\ UNCHANGED <<started, stop, joined>>

(* A delay is cut short by the stop.                                       *)
DelayCancelled(t) ==
    /\ at[t] = "delay" /\ stop
    /\ at' = [at EXCEPT ![t] = "over"]
    /\ note' = [note EXCEPT ![t].running = FALSE]
    /\ UNCHANGED <<started, stop, joined, action>>

(* stop(): cancel, give up the work guard, join the thread, which returns  *)
(* when no coroutine is left.                                              *)
TaskStop ==
        /\ started /\ ~stop
        /\ stop' = TRUE /\ started' = FALSE
        /\ UNCHANGED <<joined, at, action, note>>
Join ==
    /\ stop /\ ~joined
    /\ \A t \in Tasks : at[t] \in {"unborn", "over"}
    /\ joined' = TRUE
    /\ UNCHANGED <<started, stop, at, action, note>>

TaskNext ==
        \/ TaskStop
        \/ Join
        \/ \E t \in Tasks : Register(t) \/ Attempt(t) \/ ActionEnds(t) \/ Resume(t) \/ DelayCancelled(t)

(* Timers fire, actions end, the thread runs what is ready.                *)
TaskFairness ==
    /\ WF_taskVars(Join)
    /\ \A t \in Tasks :
          WF_taskVars(Attempt(t)) /\ WF_taskVars(ActionEnds(t))
          /\ WF_taskVars(Resume(t)) /\ WF_taskVars(DelayCancelled(t))

(* The actions use the object that owns the tasks: when stop() returns     *)
(* none is running or about to.                                            *)
NothingAfterStop == joined => \A t \in Tasks : action[t] # "running" /\ at[t] # "run"

(* healthy(): the task runs and succeeded when it last ran.                *)
Healthy(t) == note[t].running /\ note[t].succeeded /\ ~note[t].failing
(* A task that healthy() calls healthy is still being run.                 *)
HealthyRuns == \A t \in Tasks : Healthy(t) => at[t] \in {"delay", "run"}

(* A repeated task keeps being attempted, whatever its actions' outcomes,  *)
(* until the stop.                                                         *)
KeepsGoing == \A t \in Tasks \ Once : at[t] # "unborn" ~> (at[t] = "run" \/ stop)
(* stop() returns: every task notices it and its action ends.              *)
StopReturns == stop ~> joined

-------------------------------------------------------------------------------
(*****************************************************************************)
(* The operational monitor: readiness is judged from cached samples of the   *)
(* scheduler and of the execution store, each with an age limit, and an      *)
(* incident log records when it changes. Samples can fail; time passes in    *)
(* units; disk sizes are in units too.                                       *)
(*****************************************************************************)
CONSTANTS FreshScheduler, FreshStore, Cooldown, MaxTime, MinimumFree, WarningFree, Sizes, Never

VARIABLES now,
          execution,   \* execution_: the snapshot's time and whether the last probe was ok
          store,       \* store_: ok, its time, the pressure it measured
          probe,       \* BackgroundTasks' note on execution-store-probe: last success, failing
          disk,        \* free and total space
          logged,      \* last_incident_ready_ and last_incident_
          sampled, stored, observed   \* history: last good samples, readiness last looked at

monitorVars == <<now, execution, store, probe, disk, logged, sampled, stored, observed>>

(* disk_warning_free_bytes and disk_pressure.                              *)
Larger(a, b) == IF a > b THEN a ELSE b
Smaller(a, b) == IF a < b THEN a ELSE b
Share(total, parts) == total \div parts + (IF total % parts # 0 THEN 1 ELSE 0)
disk_warning_free_bytes(total) == Larger(MinimumFree, Smaller(WarningFree, Share(total, 10)))
disk_pressure(free, total) ==
    IF total = 0 \/ free > total \/ free < MinimumFree THEN "critical"
    ELSE IF free < disk_warning_free_bytes(total) \/ free < Share(total, 20) THEN "warning"
    ELSE "normal"

MonitorInit ==
           /\ now = 0
           /\ execution = [at |-> Never, ok |-> FALSE]
           /\ store = [at |-> Never, ok |-> FALSE, pressure |-> "critical"]
           /\ probe = [at |-> Never, failing |-> FALSE]
           /\ disk = [free |-> 1, total |-> 1]
           /\ logged = [ready |-> TRUE, at |-> Never]
           /\ sampled = Never /\ stored = Never /\ observed = TRUE

Fresh(when, limit) == when # Never /\ now - when < limit

(* ready().                                                                *)
ready ==
    /\ Fresh(execution.at, FreshScheduler)
    /\ ~probe.failing /\ Fresh(probe.at, FreshStore)
    /\ store.ok /\ Fresh(store.at, FreshStore)

(* scheduler_iteration; record_scheduler_probe_failure leaves the sample   *)
(* and its time alone.                                                     *)
FailedProbe == [execution EXCEPT !.ok = FALSE]
scheduler_iteration ==
    /\ \/ execution' = [at |-> now, ok |-> TRUE] /\ sampled' = now
       \/ execution' = FailedProbe /\ UNCHANGED sampled
    /\ UNCHANGED <<now, store, probe, disk, logged, stored, observed>>

(* probe_store: the directories and the disk are looked at, the sample is  *)
(* kept in any case, and an error is the worker's failure.                 *)
probe_store ==
    \E writable \in BOOLEAN :
        LET ok == writable /\ disk.total # 0 /\ disk.free <= disk.total /\ disk.free >= MinimumFree
        IN  /\ store' = [at |-> now, ok |-> ok, pressure |-> disk_pressure(disk.free, disk.total)]
            /\ probe' = IF ok THEN [at |-> now, failing |-> FALSE] ELSE [probe EXCEPT !.failing = TRUE]
            /\ stored' = IF ok THEN now ELSE Never
            /\ UNCHANGED <<now, execution, disk, logged, sampled, observed>>

(* incident_iteration; the append may fail, and then nothing is noted.     *)
Quiet(delayed) == ready /\ ready = logged.ready /\ ~delayed
Limited == ready = logged.ready /\ logged.at # Never /\ now - logged.at < Cooldown
RecordIncident == logged' = [ready |-> ready, at |-> now] /\ observed' = ready
incident_iteration ==
    /\ \E delayed \in BOOLEAN :
          IF Quiet(delayed) \/ Limited THEN observed' = ready /\ UNCHANGED logged
          ELSE RecordIncident \/ UNCHANGED <<logged, observed>>
    /\ UNCHANGED <<now, execution, store, probe, disk, sampled, stored>>

Tick == now < MaxTime /\ now' = now + 1 /\ UNCHANGED <<execution, store, probe, disk, logged, sampled, stored, observed>>
DiskChanges == \E f, t \in Sizes : disk' = [free |-> f, total |-> t] /\ disk' # disk
               /\ UNCHANGED <<now, execution, store, probe, logged, sampled, stored, observed>>

MonitorNext ==
           \/ scheduler_iteration
           \/ probe_store
           \/ incident_iteration
           \/ Tick
           \/ DiskChanges

(* Readiness rests on samples that were really taken within their limits:  *)
(* failed probes renew neither the scheduler's sample nor the store's, and *)
(* the last look at the store found it good.                               *)
ReadyIsFresh == ready => Fresh(sampled, FreshScheduler) /\ Fresh(stored, FreshStore)

(* A change of readiness that an iteration saw is in the incident log,     *)
(* whatever was logged shortly before.                                     *)
ChangesAreLogged == logged.ready = observed

(* The whole-number thresholds are the rules they stand for: critical      *)
(* below the minimum, a warning below 5 % of any volume, and no lasting    *)
(* warning on a volume that has a tenth and the minimum free.              *)
PressureRule ==
    LET p == disk_pressure(disk.free, disk.total)
    IN  /\ disk.free <= disk.total /\ disk.free >= MinimumFree => p # "critical"
        /\ disk.free <= disk.total /\ disk.free * 20 < disk.total => p # "normal"
        /\ disk.free <= disk.total /\ disk.free >= MinimumFree /\ disk.free * 10 >= disk.total => p = "normal"
===============================================================================
