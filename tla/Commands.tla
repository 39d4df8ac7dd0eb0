------------------------------- MODULE Commands -------------------------------
(*****************************************************************************)
(* Commands: calls that run them under leases and pools (engine.cpp), the    *)
(* call that runs one child process and the reaper of what it leaves         *)
(* (process.cpp, child_reaper.cpp), and the elevated shell. They share no    *)
(* state.                                                                    *)
(*****************************************************************************)
EXTENDS Naturals, FiniteSets

-------------------------------------------------------------------------------
(*****************************************************************************)
(* A tool call of the engine: admission, the execution lease, and the        *)
(* blocking work on bounded pools. The pools refuse work when their queue is *)
(* full, the caller may cancel at any time, and the lease is given back on   *)
(* the control pool, which may itself be full.                               *)
(*****************************************************************************)
CONSTANTS
  ToolCalls,    \* tool calls
  Tool,         \* of each call: "execute" (also search), "wsl" or "files"
  Room,         \* tasks that each pool holds, queued or running
  Leases        \* leases the scheduler can grant at once

VARIABLES
  callAt,       \* where each call is
  pool,         \* the calls whose task each pool has accepted
  running,      \* calls whose command is running
  leased,       \* calls that hold an execution lease
  callCancelled, \* calls that were cancelled
  outcome,      \* what each call was answered with
  draining      \* the operator has paused new work

callVars == <<callAt, pool, running, leased, callCancelled, outcome, draining>>

Pools == {"controls", "commands", "files"}

CallInit ==
      /\ callAt = [c \in ToolCalls |-> "new"]
      /\ pool = [p \in Pools |-> {}]
      /\ running = {} /\ leased = {} /\ callCancelled = {}
      /\ outcome = [c \in ToolCalls |-> "none"]
      /\ draining = FALSE

Full(p) == Cardinality(pool[p]) >= Room[p]

(* The call is answered; a lease it still holds goes with its coroutine.       *)
Answer(c, what) ==
  /\ callAt' = [callAt EXCEPT ![c] = "done"]
  /\ outcome' = [outcome EXCEPT ![c] = what]
  /\ leased' = leased \ {c}

Leaves(c, p) == pool' = [pool EXCEPT ![p] = @ \ {c}]

(* WorkPool::run: refused when the pool is full, else the call waits for it.   *)
Submit(c, p, next, refused) ==
  IF Full(p)
  THEN refused /\ UNCHANGED pool
  ELSE /\ pool' = [pool EXCEPT ![p] = @ \cup {c}]
       /\ callAt' = [callAt EXCEPT ![c] = next]
       /\ UNCHANGED <<leased, outcome>>

(* call_tool: admission, and execute's refusal of heavy work on a full disk.   *)
Enter(c) ==
  /\ callAt[c] = "new"
  /\ \/ draining /\ Answer(c, "denied")
     \/ ~draining /\ Tool[c] = "execute" /\ Answer(c, "denied")
     \/ /\ ~draining
        /\ callAt' = [callAt EXCEPT ![c] = IF Tool[c] = "files" THEN "work" ELSE "poll"]
        /\ UNCHANGED <<outcome, leased>>
  /\ UNCHANGED <<pool, running, callCancelled, draining>>

(* acquire: each poll of the waiter is a task of the control pool.             *)
PollLease(c) ==
  /\ callAt[c] = "poll"
  /\ Submit(c, "controls", "polling", Answer(c, "exhausted"))
  /\ UNCHANGED <<running, callCancelled, draining>>

CanLease == Cardinality(leased) < Leases

Polled(c) ==
  /\ callAt[c] = "polling"
  /\ Leaves(c, "controls")
  /\ \/ c \in callCancelled /\ Answer(c, "cancelled")
     \/ c \notin callCancelled /\ CanLease
          /\ leased' = leased \cup {c}
          /\ callAt' = [callAt EXCEPT ![c] = "work"] /\ UNCHANGED outcome
     \/ c \notin callCancelled /\ ~CanLease
          /\ \/ callAt' = [callAt EXCEPT ![c] = "asleep"] /\ UNCHANGED <<leased, outcome>>
             \/ Answer(c, "queue timeout")
  /\ UNCHANGED <<running, callCancelled, draining>>

(* The delay of acquire: the interval, a hint that something changed, or the   *)
(* caller's cancellation.                                                      *)
WakePoll(c) ==
  /\ callAt[c] = "asleep"
  /\ IF c \in callCancelled THEN Answer(c, "cancelled")
     ELSE callAt' = [callAt EXCEPT ![c] = "poll"] /\ UNCHANGED <<leased, outcome>>
  /\ UNCHANGED <<pool, running, callCancelled, draining>>

(* The command, or the file operation, is a task of its own pool. A failure of *)
(* execute, a refusal included, is kept until the lease is given back.         *)
WorkPool(c) == IF Tool[c] = "files" THEN "files" ELSE "commands"

Kept(c, what) ==
  IF Tool[c] = "execute"
  THEN /\ callAt' = [callAt EXCEPT ![c] = "release"]
       /\ outcome' = [outcome EXCEPT ![c] = what] /\ UNCHANGED leased
  ELSE Answer(c, what)

SubmitWork(c) ==
  /\ callAt[c] = "work"
  /\ Submit(c, WorkPool(c), "queued", Kept(c, "exhausted"))
  /\ UNCHANGED <<running, callCancelled, draining>>

StartWork(c) ==
  /\ callAt[c] = "queued"
  /\ IF c \in callCancelled
     THEN Kept(c, "cancelled") /\ Leaves(c, WorkPool(c)) /\ UNCHANGED running
     ELSE /\ running' = running \cup {c}
          /\ callAt' = [callAt EXCEPT ![c] = "running"] /\ UNCHANGED <<pool, leased, outcome>>
  /\ UNCHANGED <<callCancelled, draining>>

(* The process ends, or is ended by the cancellation; run resumes its caller   *)
(* only now.                                                                   *)
WorkEnds(c) ==
  /\ callAt[c] = "running"
  /\ running' = running \ {c}
  /\ Leaves(c, WorkPool(c))
  /\ \E what \in {"output", "failure"} : Kept(c, what)
  /\ UNCHANGED <<callCancelled, draining>>

(* lease.release() on the control pool, without the caller's cancellation.     *)
SubmitRelease(c) ==
  /\ callAt[c] = "release"
  /\ Submit(c, "controls", "releasing", Answer(c, "exhausted"))
  /\ UNCHANGED <<running, callCancelled, draining>>

Released(c) ==
  /\ callAt[c] = "releasing"
  /\ Leaves(c, "controls")
  /\ Answer(c, outcome[c])
  /\ UNCHANGED <<running, callCancelled, draining>>

Cancels(c) ==
  /\ callAt[c] # "done" /\ c \notin callCancelled
  /\ callCancelled' = callCancelled \cup {c}
  /\ UNCHANGED <<callAt, pool, running, leased, outcome, draining>>

Drain == ~draining /\ draining' = TRUE
         /\ UNCHANGED <<callAt, pool, running, leased, callCancelled, outcome>>

Step(c) ==
  \/ Enter(c) \/ PollLease(c) \/ Polled(c) \/ WakePoll(c) \/ SubmitWork(c) \/ StartWork(c)
  \/ WorkEnds(c) \/ SubmitRelease(c) \/ Released(c)

CallNext == Drain \/ \E c \in ToolCalls : Step(c) \/ Cancels(c)

CallFairness == \A c \in ToolCalls : WF_callVars(Step(c))

(* A command runs only under its lease, from its start to its end, whatever is *)
(* cancelled meanwhile: the caller is not resumed before the process has ended,*)
(* so the lease is never given back under a running command (execute, search). *)
CommandsAreLeased == \A c \in running : Tool[c] # "files" => c \in leased

(* A call that has been answered holds nothing: no lease, no place in a pool   *)
(* and no running command, also when a pool was full on the way out.           *)
AnsweredHoldsNothing ==
  \A c \in ToolCalls : callAt[c] = "done" =>
    c \notin leased \cup running \cup UNION {pool[p] : p \in Pools}

(* Every call is answered, whether it is cancelled while it waits for a lease, *)
(* refused by a full pool on its way in or out, or waits behind the holders.   *)
EveryCallAnswered == \A c \in ToolCalls : (callAt[c] # "new") ~> (callAt[c] = "done")

-------------------------------------------------------------------------------
(*****************************************************************************)
(* Running a program on a POSIX host: a reap slot is reserved before the     *)
(* launch, the call polls the child and its pipes, cancellation or the       *)
(* timeout escalates from SIGTERM to SIGKILL, and a child the call cannot    *)
(* wait for is left to the reaper thread, with its slot.                     *)
(*                                                                           *)
(* A child may ignore SIGTERM, and may leave a descendant that holds its     *)
(* pipes. The passing of a limit (timeout, graces, the second given to pipes *)
(* after an exit) is an event of its own.                                    *)
(*****************************************************************************)
CONSTANTS RunCalls, Slots, None

VARIABLES runAt,     \* where each call is
          slot,      \* children_: free, reserved, or the call whose child is deferred there
          deferred,  \* deferred_
          held,      \* the slot of each call
          child,     \* none, alive, zombie, reaped
          piped,     \* some process still holds the write end of its pipes
          signal,    \* none, term, kill: the strongest signal its group was sent
          forced,    \* why the call decided to end it: none, cancelled, timeout
          exit,      \* what waitpid told the call: none, code0, other
          runCancelled, \* the caller's token
          reaper     \* the reaper thread: idle (waiting for a notification) or sweeping

processVars == <<runAt, slot, deferred, held, child, piped, signal, forced, exit, runCancelled, reaper>>

Free == "free"
Reserved == "reserved"

RunInit ==
       /\ runAt = [c \in RunCalls |-> "idle"]
       /\ slot = [s \in Slots |-> Free] /\ deferred = 0
       /\ held = [c \in RunCalls |-> None]
       /\ child = [c \in RunCalls |-> "none"]
       /\ piped = [c \in RunCalls |-> FALSE]
       /\ signal = [c \in RunCalls |-> "none"]
       /\ forced = [c \in RunCalls |-> "none"]
       /\ exit = [c \in RunCalls |-> "none"]
       /\ runCancelled = [c \in RunCalls |-> FALSE]
       /\ reaper = "idle"

Freed(s) == IF s # None /\ slot[s] = Reserved THEN [slot EXCEPT ![s] = Free] ELSE slot

(* reserve_posix_reap_slot, refused when every slot is in use.             *)
Reserve(c) ==
    /\ runAt[c] = "idle"
    /\ \/ \E s \in Slots :
             /\ slot[s] = Free
             /\ \A r \in Slots : slot[r] = Free => s <= r
             /\ slot' = [slot EXCEPT ![s] = Reserved]
             /\ held' = [held EXCEPT ![c] = s]
             /\ runAt' = [runAt EXCEPT ![c] = "reserved"]
       \/ /\ \A s \in Slots : slot[s] # Free
          /\ runAt' = [runAt EXCEPT ![c] = "failed"]
          /\ UNCHANGED <<slot, held>>
    /\ UNCHANGED <<deferred, child, piped, signal, forced, exit, runCancelled, reaper>>

(* spawn_posix; a failure gives the slot back.                             *)
LaunchChild(c) ==
         /\ runAt[c] = "reserved"
         /\ \/ /\ child' = [child EXCEPT ![c] = "alive"]
               /\ piped' = [piped EXCEPT ![c] = TRUE]
               /\ runAt' = [runAt EXCEPT ![c] = "polling"]
               /\ UNCHANGED <<slot, held>>
            \/ /\ slot' = Freed(held[c])
               /\ held' = [held EXCEPT ![c] = None]
               /\ runAt' = [runAt EXCEPT ![c] = "failed"]
               /\ UNCHANGED <<child, piped>>
         /\ UNCHANGED <<deferred, signal, forced, exit, runCancelled, reaper>>

(* The child and its group.                                                *)
Exits(c) ==
    /\ child[c] = "alive"
    /\ child' = [child EXCEPT ![c] = "zombie"]
    /\ \E leaves \in BOOLEAN : piped' = [piped EXCEPT ![c] = leaves /\ signal[c] # "kill"]
    /\ UNCHANGED <<runAt, slot, deferred, held, signal, forced, exit, runCancelled, reaper>>
Cancel(c) ==
    /\ runAt[c] = "polling" /\ ~runCancelled[c]
    /\ runCancelled' = [runCancelled EXCEPT ![c] = TRUE]
    /\ UNCHANGED <<runAt, slot, deferred, held, child, piped, signal, forced, exit, reaper>>

(* run_native's loop: waitpid ...                                          *)
WaitPid(c) ==
    /\ runAt[c] = "polling" /\ exit[c] = "none" /\ child[c] = "zombie"
    /\ child' = [child EXCEPT ![c] = "reaped"]
    /\ \E e \in {"code0", "other"} :
          /\ signal[c] = "kill" => e = "other"
          /\ exit' = [exit EXCEPT ![c] = e]
    /\ UNCHANGED <<runAt, slot, deferred, held, piped, signal, forced, runCancelled, reaper>>

(* ... the request to end, once, unless the exit was seen first ...        *)
Force(c) ==
    /\ runAt[c] = "polling" /\ exit[c] = "none" /\ forced[c] = "none"
    /\ forced' = [forced EXCEPT ![c] = IF runCancelled[c] THEN "cancelled" ELSE "timeout"]
    /\ signal' = [signal EXCEPT ![c] = "term"]
    /\ UNCHANGED <<runAt, slot, deferred, held, child, piped, exit, runCancelled, reaper>>
Kill(c) ==
    /\ runAt[c] = "polling" /\ forced[c] # "none" /\ signal[c] = "term"
    /\ signal' = [signal EXCEPT ![c] = "kill"]
    /\ piped' = [piped EXCEPT ![c] = FALSE]
    /\ UNCHANGED <<runAt, slot, deferred, held, child, forced, exit, runCancelled, reaper>>

(* A mistaken form of Leave: an exit that was seen spares the group.       *)
LeaveExited(c) ==
    /\ runAt[c] = "polling"
    /\ exit[c] # "none" \/ (forced[c] # "none" /\ signal[c] = "kill")
    /\ runAt' = [runAt EXCEPT ![c] = "leaving"]
    /\ UNCHANGED <<slot, deferred, held, child, piped, signal, forced, exit, runCancelled, reaper>>
(* ... and the end: the exit was seen and the pipes are closed or had      *)
(* their second, or the grace is over without an exit.  A group that was   *)
(* told to end is killed before the call leaves it.                        *)
Leave(c) ==
    /\ runAt[c] = "polling"
    /\ \/ exit[c] # "none"
       \/ exit[c] = "none" /\ forced[c] # "none" /\ signal[c] = "kill"
    /\ runAt' = [runAt EXCEPT ![c] = "leaving"]
    /\ signal' = [signal EXCEPT ![c] = IF forced[c] # "none" \/ exit[c] = "none" THEN "kill" ELSE @]
    /\ piped' = [piped EXCEPT ![c] = @ /\ signal'[c] # "kill"]
    /\ UNCHANGED <<slot, deferred, held, child, forced, exit, runCancelled, reaper>>

(* The scope exits: a child not reaped is killed, waited for once, and     *)
(* left to the reaper together with the slot.                              *)
Hands(c) == exit[c] = "none" /\ child[c] = "alive"
HandOver(c) ==
    /\ runAt[c] = "leaving"
    /\ runAt' = [runAt EXCEPT ![c] = "done"]
    /\ IF Hands(c)
       THEN /\ slot' = [slot EXCEPT ![held[c]] = c]
            /\ deferred' = deferred + 1
            /\ reaper' = "sweeping"
            /\ UNCHANGED child
       ELSE /\ slot' = Freed(held[c])
            /\ child' = [child EXCEPT ![c] = "reaped"]
            /\ UNCHANGED <<deferred, reaper>>
    /\ UNCHANGED <<held, piped, signal, forced, exit, runCancelled>>

(* ChildReaper: a sweep, and the wait with or without a time limit.        *)
Swept == {s \in Slots : slot[s] \in RunCalls /\ child[slot[s]] = "zombie"}
Sweep ==
    /\ reaper = "sweeping"
    /\ slot' = [s \in Slots |-> IF s \in Swept THEN Free ELSE slot[s]]
    /\ child' = [c \in RunCalls |-> IF \E s \in Swept : slot[s] = c THEN "reaped" ELSE child[c]]
    /\ deferred' = deferred - Cardinality(Swept)
    /\ reaper' = IF deferred' > 0 THEN "sweeping" ELSE "idle"
    /\ UNCHANGED <<runAt, held, piped, signal, forced, exit, runCancelled>>

RunNext ==
       \/ Sweep
       \/ \E c \in RunCalls :
             \/ Reserve(c) \/ LaunchChild(c) \/ Exits(c) \/ Cancel(c) \/ WaitPid(c)
             \/ Force(c) \/ Kill(c) \/ Leave(c) \/ HandOver(c)

(* Calls are polled, every limit passes, a killed child exits; the reaper  *)
(* thread runs.  A child need not exit on its own.                         *)
ProcessFairness ==
    /\ WF_processVars(Sweep)
    /\ \A c \in RunCalls :
          /\ WF_processVars(Reserve(c)) /\ WF_processVars(LaunchChild(c)) /\ WF_processVars(WaitPid(c))
          /\ WF_processVars(Force(c)) /\ WF_processVars(Kill(c))
          /\ WF_processVars(Leave(c)) /\ WF_processVars(HandOver(c))
          /\ WF_processVars(signal[c] = "kill" /\ Exits(c))

(* A slot belongs to one call or one unreaped child, and deferred_ counts  *)
(* the latter: the reaper neither sleeps over a child nor spins on none.   *)
SlotsAccounted ==
    /\ deferred = Cardinality({s \in Slots : slot[s] \in RunCalls})
    /\ deferred > 0 => reaper = "sweeping"
    /\ \A s \in Slots : slot[s] \in RunCalls => child[slot[s]] \in {"alive", "zombie"}
    /\ \A c, d \in RunCalls : c # d /\ runAt[c] \in {"reserved", "polling", "leaving"}
                              /\ runAt[d] \in {"reserved", "polling", "leaving"} => held[c] # held[d]

(* No call leaves behind a process it was asked to end: when a cancelled   *)
(* or timed-out call is over its whole group has been killed.              *)
NothingSurvivesTheCall == \A c \in RunCalls : runAt[c] = "done" /\ forced[c] # "none" => signal[c] = "kill"

(* Every child that ends, or that the call ends, is reaped, and the call   *)
(* itself ends: no zombie remains.                                         *)
EveryChildReaped == \A c \in RunCalls : (child[c] # "none") ~> (child[c] = "reaped" /\ runAt[c] = "done")
(* A slot of the reaper's table is free again in the end, whether its call *)
(* reaped the child or left it to the reaper.                              *)
SlotsComeBack == \A s \in Slots : (slot[s] # Free) ~> (slot[s] = Free)

-------------------------------------------------------------------------------
(*****************************************************************************)
(* A shell command run by an elevated worker process: the request, the       *)
(* cancellation and the result are files of one private directory. The       *)
(* worker tries the configured PowerShell and then the fallback. Either      *)
(* process may be slow, and the worker may die without a result.             *)
(*****************************************************************************)
CONSTANT Candidates    \* shells that are configured, 1 or 2

VARIABLES
  files,        \* files of the request directory; {"gone"} once it is removed
  parent,       \* where elevated_shell is
  worker,       \* where the worker is
  candidate,    \* the shell the worker tries
  command,      \* the command: not started, running, ended or killed
  started,      \* how often the command was started
  wanted,       \* the caller has cancelled, or the time is over: "no", "cancel", "time"
  stopped,      \* the reason for which cancel.json was written
  heard,        \* the worker's token is cancelled
  answer        \* what the caller was told

elevatedVars ==
  <<files, parent, worker, candidate, command, started, wanted, stopped, heard, answer>>

ShellInit ==
       /\ files = {} /\ parent = "write" /\ worker = "none" /\ candidate = 1
       /\ command = "none" /\ started = 0 /\ wanted = "no" /\ stopped = "no" /\ heard = FALSE
       /\ answer = "none"

(* The caller cancels, or the timeout and its allowance pass.                  *)
Wants(why) ==
  /\ wanted = "no" /\ wanted' = why
  /\ UNCHANGED <<files, parent, worker, candidate, command, started, stopped, heard, answer>>

(* elevated_shell: the request, then the launch, which the user may refuse.    *)
WriteRequest ==
  /\ parent = "write"
  /\ files' = {"request"} /\ parent' = "launch"
  /\ UNCHANGED <<worker, candidate, command, started, wanted, stopped, heard, answer>>

Ends(what, removed) ==
  /\ parent' = "done" /\ answer' = what
  /\ files' = IF removed THEN {"gone"} ELSE files

ShellLaunch ==
       /\ parent = "launch"
       /\ \/ wanted = "cancel" /\ Ends("cancelled", FALSE) /\ UNCHANGED worker
          \/ wanted # "cancel" /\ Ends("refused", TRUE) /\ UNCHANGED worker
          \/ wanted # "cancel" /\ Ends("no handle", FALSE) /\ UNCHANGED worker
          \/ /\ wanted # "cancel" /\ parent' = "wait" /\ worker' = "reading"
             /\ UNCHANGED <<files, answer>>
       /\ UNCHANGED <<candidate, command, started, wanted, stopped, heard>>

(* The wait loop: one request to stop, then a grace period for the worker.     *)
RequestStop ==
  /\ parent = "wait" /\ worker # "exited" /\ wanted # "no" /\ stopped = "no"
  /\ files' = files \cup {"cancel"} /\ stopped' = wanted
  /\ UNCHANGED <<parent, worker, candidate, command, started, wanted, heard, answer>>

GiveUp ==
  /\ parent = "wait" /\ worker # "exited" /\ stopped # "no"
  /\ Ends("pending", FALSE)
  /\ UNCHANGED <<worker, candidate, command, started, wanted, stopped, heard>>

(* The worker has ended. Its result is success only if nobody stopped it.      *)
Verdict ==
  IF stopped = "cancel" THEN "cancelled"
  ELSE IF stopped = "time" THEN "timed out"
  ELSE IF "ok" \in files THEN "output" ELSE "failed"

Collect ==
  /\ parent = "wait" /\ worker = "exited"
  /\ Ends(IF files \cap {"ok", "error"} = {} THEN "failed" ELSE Verdict, TRUE)
  /\ UNCHANGED <<worker, candidate, command, started, wanted, stopped, heard>>

-----------------------------------------------------------------------------
(* elevated_shell_worker, and the thread that watches for cancel.json.         *)
ReadRequest ==
  /\ worker = "reading"
  /\ worker' = "trying"
  /\ UNCHANGED <<files, parent, candidate, command, started, wanted, stopped, heard, answer>>

Watch ==
  /\ worker \in {"trying", "running"} /\ "cancel" \in files /\ ~heard
  /\ heard' = TRUE
  /\ UNCHANGED <<files, parent, worker, candidate, command, started, wanted, stopped, answer>>

(* The next shell is tried only when this one could not be launched at all.    *)
TriesNext(why) == why = "missing" /\ candidate < Candidates

Reported(result) == worker' = "exiting" /\ files' = files \cup {result}

TryShell ==
  /\ worker = "trying"
  /\ \/ /\ ~heard
        /\ worker' = "running" /\ command' = "running" /\ started' = started + 1
        /\ UNCHANGED <<files, candidate>>
     \/ /\ IF TriesNext("missing") /\ ~heard
           THEN candidate' = candidate + 1 /\ UNCHANGED <<worker, files>>
           ELSE Reported("error") /\ UNCHANGED candidate
        /\ UNCHANGED <<command, started>>
  /\ UNCHANGED <<parent, wanted, stopped, heard, answer>>

CommandEnds ==
  /\ worker = "running"
  /\ \/ /\ ~heard /\ command' = "ended" /\ Reported("ok") /\ UNCHANGED candidate
     \/ /\ ~heard /\ command' = "ended"
        /\ IF TriesNext("exit code") THEN candidate' = candidate + 1 /\ worker' = "trying" /\ UNCHANGED files
           ELSE Reported("error") /\ UNCHANGED candidate
     \/ /\ heard /\ command' = "killed" /\ Reported("error") /\ UNCHANGED candidate
  /\ UNCHANGED <<parent, started, wanted, stopped, heard, answer>>

WorkerExits ==
  /\ worker = "exiting"
  /\ worker' = "exited"
  /\ UNCHANGED <<files, parent, candidate, command, started, wanted, stopped, heard, answer>>

(* The worker dies; its job object ends the command with it.                   *)
WorkerDies ==
  /\ worker \in {"reading", "trying", "running"}
  /\ worker' = "exited"
  /\ command' = IF command = "running" THEN "killed" ELSE command
  /\ UNCHANGED <<files, parent, candidate, started, wanted, stopped, heard, answer>>

ParentStep == WriteRequest \/ ShellLaunch \/ RequestStop \/ GiveUp \/ Collect
WorkerStep == ReadRequest \/ Watch \/ TryShell \/ CommandEnds \/ WorkerExits

ShellNext ==
       \/ ParentStep \/ WorkerStep \/ WorkerDies
       \/ \E why \in {"cancel", "time"} : Wants(why)

(* The command itself need not end: only the timeout or the caller bounds it.  *)
ElevatedFairness ==
  /\ WF_elevatedVars(ParentStep)
  /\ WF_elevatedVars(\E why \in {"cancel", "time"} : Wants(why))

(* The command is run at most once: the fallback shell is for a shell that is  *)
(* missing, never for a command that failed, was cancelled or ran out of time. *)
CommandOnce == started <= 1

(* Success is never reported for a command that was not run to its end, and a  *)
(* stop that was requested is never answered with success, even if the worker  *)
(* finished the command meanwhile.                                             *)
SuccessIsReal == answer = "output" => command = "ended" /\ stopped = "no" /\ started = 1

(* The directory is removed only when no worker can still use it: a worker that*)
(* outlives the grace period keeps its request and the request to cancel.      *)
DirectoryOutlivesWorker ==
  files = {"gone"} => worker \in {"none", "exited"} /\ command # "running"

(* Every call returns, even if the worker ignores the request to stop.         *)
CallReturns == (parent = "launch") ~> (parent = "done")
===============================================================================
