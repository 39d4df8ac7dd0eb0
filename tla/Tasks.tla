--------------------------------- MODULE Tasks --------------------------------
(*****************************************************************************)
(* Tasks: the answers of the task extension (tasks.cpp) and the records      *)
(* clients keep under a task (indexed_jobs.cpp). They use different tables   *)
(* and share no state.                                                       *)
(*****************************************************************************)
EXTENDS Naturals, Sequences

-------------------------------------------------------------------------------
(*****************************************************************************)
(* MCP tasks over runs and jobs (tasks.cpp). A tool reply that starts        *)
(* durable work is bound to a task of the calling principal; tasks/get       *)
(* derives the task's state from the work, and stores the first terminal     *)
(* answer in the binding, by compare-and-swap, so that it never changes      *)
(* again. tasks/cancel and tasks/update pass commands on to the work.        *)
(*                                                                           *)
(* One piece of work, whose own status moves as runs.cpp and jobs.cpp allow: *)
(* in particular a cancelled job may still become interrupted.               *)
(*****************************************************************************)
CONSTANTS Principals, NoPrincipal, Calls, Caller

ASSUME TaskConstants == NoPrincipal \notin Principals /\ Caller \in [Calls -> Principals]

VARIABLES taskWork,  \* status of the underlying run or job
          binding,   \* the mcp_task record: owner, revision, terminal_result
          taskCall   \* each call: where it is, the binding it read, the state it read, its answer

taskVars == <<taskWork, binding, taskCall>>

Over == {"succeeded", "failed", "interrupted", "cancelled"}
Inputs == {"awaiting_approval", "paused", "uncertain"}
\* detail(): the task status reported for a state of the work.
Answer(state) == IF state \in Over THEN [status |-> IF state = "cancelled" THEN "cancelled" ELSE "completed",
                                         of |-> state]
                 ELSE [status |-> IF state \in Inputs THEN "input_required" ELSE "working", of |-> state]
Nothing == [status |-> "none", of |-> "none"]

ServiceInit == /\ taskWork = "running"
               /\ binding = [owner |-> NoPrincipal, revision |-> 0, result |-> Nothing]
               /\ taskCall = [c \in Calls |-> [at |-> "idle", seen |-> 0, state |-> "none",
                                               answer |-> Nothing]]

Set(c, at, answer) == taskCall' = [taskCall EXCEPT ![c].at = at, ![c].answer = answer]

\* augment: bind the work to the caller's principal.  A call that finds it bound already,
\* or loses the insertion, goes on as tasks/get does.
Augment(c) ==
    /\ taskCall[c].at = "idle" /\ binding.owner = NoPrincipal
    /\ binding' = [binding EXCEPT !.owner = Caller[c], !.revision = 1]
    /\ Set(c, "bound", Nothing)
    /\ UNCHANGED taskWork
\* detail: the binding must be the caller's; a stored terminal answer is returned as it is.
ReadBinding(c) ==
    /\ taskCall[c].at \in {"idle", "bound"} /\ binding.owner # NoPrincipal
    /\ \/ /\ binding.owner # Caller[c]
          /\ Set(c, "refused", Nothing)
       \/ /\ binding.owner = Caller[c] /\ binding.result # Nothing
          /\ Set(c, "answered", binding.result)
       \/ /\ binding.owner = Caller[c] /\ binding.result = Nothing
          /\ taskCall' = [taskCall EXCEPT ![c].at = "reading", ![c].seen = binding.revision]
    /\ UNCHANGED <<taskWork, binding>>
ReadWork(c) ==
    /\ taskCall[c].at = "reading"
    /\ taskCall' = [taskCall EXCEPT ![c].at = "derived", ![c].state = taskWork]
    /\ UNCHANGED <<taskWork, binding>>
\* A mistaken form of StoreAnswer: the loser of the race returns its own answer.
StoreOwn(c) ==
    /\ taskCall[c].at = "derived"
    /\ Set(c, "answered", Answer(taskCall[c].state))
    /\ binding' = IF taskCall[c].state \in Over /\ binding.revision = taskCall[c].seen
                  THEN [binding EXCEPT !.revision = @ + 1, !.result = Answer(taskCall[c].state)] ELSE binding
    /\ UNCHANGED taskWork
\* A terminal answer is stored; whoever loses the race returns the stored one.
StoreAnswer(c) ==
    /\ taskCall[c].at = "derived"
    /\ LET mine == Answer(taskCall[c].state) IN
       \/ /\ taskCall[c].state \notin Over
          /\ Set(c, "answered", mine) /\ UNCHANGED binding
       \/ /\ taskCall[c].state \in Over /\ binding.revision = taskCall[c].seen
          /\ binding' = [binding EXCEPT !.revision = @ + 1, !.result = mine]
          /\ Set(c, "answered", mine)
       \/ /\ taskCall[c].state \in Over
          /\ IF binding.result # Nothing THEN Set(c, "answered", binding.result)
                                         ELSE Set(c, "failed", Nothing)
          /\ UNCHANGED binding
    /\ UNCHANGED taskWork
\* tasks/cancel, and a declined input request, of an unfinished task.
CancelWork(c) ==
    /\ taskCall[c].at = "answered" /\ taskCall[c].answer.of \notin Over /\ binding.result = Nothing
    /\ taskWork' = IF taskWork \in Over THEN taskWork ELSE "cancelled"
    /\ Set(c, "idle", taskCall[c].answer)
    /\ UNCHANGED binding
\* tasks/update: an accepted answer to an input request still listed resumes the run.
Update(c) ==
    /\ taskCall[c].at = "answered" /\ taskCall[c].answer.status = "input_required"
    /\ taskWork' = IF taskWork = taskCall[c].answer.of THEN "running" ELSE taskWork
    /\ Set(c, "idle", taskCall[c].answer)
    /\ UNCHANGED binding
\* The client asks again.
Again(c) == /\ taskCall[c].at = "answered"
            /\ Set(c, "idle", taskCall[c].answer)
            /\ UNCHANGED <<taskWork, binding>>
\* The work goes on by itself.
Progress == /\ \/ taskWork = "running" /\ taskWork' \in Inputs \union Over
               \/ taskWork = "cancelled" /\ taskWork' = "interrupted"
            /\ UNCHANGED <<binding, taskCall>>

ServiceNext == \/ \E c \in Calls : \/ Augment(c) \/ ReadBinding(c) \/ ReadWork(c) \/ StoreAnswer(c)
                                   \/ CancelWork(c) \/ Update(c) \/ Again(c)
               \/ Progress

\* All terminal answers ever given for a task are the same one, also to calls that race
\* while the work's own status still moves.
TerminalAnswerUnique ==
    \A c, d \in Calls : taskCall[c].answer.of \in Over /\ taskCall[d].answer.of \in Over
                        => taskCall[c].answer = taskCall[d].answer
\* A terminal answer is not taken back by a later answer to the same call.
TerminalAnswerFinal ==
    [][\A c \in Calls : taskCall[c].answer.of \in Over /\ taskCall'[c].at = "answered"
                        => taskCall'[c].answer = taskCall[c].answer]_taskVars
\* A task answers its own principal only.
AnswersOwner == \A c \in Calls : taskCall[c].answer # Nothing => binding.owner = Caller[c]

-------------------------------------------------------------------------------
(*****************************************************************************)
(* Task checkpoints (storage.cpp task_put, indexed_jobs.cpp                  *)
(* indexed_task_put): a client writes a task's state against the revision it *)
(* last saw. A put whose answer was lost is retried unchanged and must be    *)
(* recognised. Puts of one task root run under its .submission.lock; the     *)
(* SQLite record is followed by a mirror file.                               *)
(*****************************************************************************)
CONSTANTS Writers, States, NoState, MaxRevision, NoWriter

ASSUME WriterConstants == NoWriter \notin Writers

VARIABLES revisions, \* the accepted states, in order
          mirror,    \* revision of the mirror file
          holder,    \* who holds the lock
          put        \* each writer's current put and what became of it

recordVars == <<revisions, mirror, holder, put>>

RecordsInit == /\ revisions = <<>> /\ mirror = 0 /\ holder = NoWriter
               /\ put = [w \in Writers |-> [at |-> "idle", expected |-> 0, state |-> NoState]]

Revision == Len(revisions)
Move(w, at) == put' = [put EXCEPT ![w].at = at]

\* A new put against the revision the writer read, or a retry of the last one.
Propose(w) ==
    /\ put[w].at \in {"idle", "accepted", "replayed", "conflict"} /\ Revision < MaxRevision
    /\ \E state \in States, expected \in 0 .. Revision :
          put' = [put EXCEPT ![w] = [at |-> "asking", expected |-> expected, state |-> state]]
    /\ UNCHANGED <<revisions, mirror, holder>>
Retry(w) == /\ put[w].at = "lost"
            /\ Move(w, "asking")
            /\ UNCHANGED <<revisions, mirror, holder>>
Lock(w) == /\ put[w].at = "asking" /\ holder = NoWriter
           /\ holder' = w /\ Move(w, "locked")
           /\ UNCHANGED <<revisions, mirror>>
\* The decision under the lock.
Decide(w) ==
    /\ put[w].at = "locked"
    /\ \/ /\ Revision = put[w].expected + 1 /\ revisions[Revision] = put[w].state
          /\ Move(w, "replayed") /\ holder' = NoWriter /\ UNCHANGED revisions
       \/ /\ ~(Revision = put[w].expected + 1 /\ revisions[Revision] = put[w].state)
          /\ Revision # put[w].expected
          /\ Move(w, "conflict") /\ holder' = NoWriter /\ UNCHANGED revisions
       \/ /\ Revision = put[w].expected
          /\ revisions' = Append(revisions, put[w].state)
          /\ Move(w, "applied") /\ UNCHANGED holder
    /\ UNCHANGED mirror
\* The mirror is written before the lock is given up.
Mirror(w) == /\ put[w].at = "applied"
             /\ mirror' = put[w].expected + 1
             /\ Move(w, "accepted") /\ holder' = NoWriter
             /\ UNCHANGED revisions
\* The process dies, or the answer is lost; the client knows only that it must retry.
Lose(w) == /\ put[w].at \in {"asking", "locked", "applied", "accepted"}
           /\ Move(w, "lost")
           /\ holder' = IF holder = w THEN NoWriter ELSE holder
           /\ UNCHANGED <<revisions, mirror>>

RecordsNext == \E w \in Writers : Propose(w) \/ Retry(w) \/ Lock(w) \/ Decide(w) \/ Mirror(w) \/ Lose(w)

\* A put that was answered with success, at once or as a replay, is the revision right
\* after the one it expected, whatever others did meanwhile.
AcceptedIsRecorded ==
    \A w \in Writers : put[w].at \in {"accepted", "replayed", "applied"}
        => put[w].expected < Revision /\ revisions[put[w].expected + 1] = put[w].state
\* Two different puts never both succeed against the same revision.
NoLostUpdate ==
    \A v, w \in Writers : put[v].at = "accepted" /\ put[w].at = "accepted" /\ v # w
        => put[v].expected # put[w].expected
\* The mirror never runs ahead of the record or goes back.
MirrorFollows == [][mirror <= mirror' /\ mirror' <= Len(revisions')]_recordVars

-------------------------------------------------------------------------------
TasksSpec == /\ ServiceInit /\ [][ServiceNext]_taskVars
             /\ RecordsInit /\ [][RecordsNext]_recordVars

\* Tasks: the terminal answers of a task agree and are final, and only its owner gets
\* one; an update that was accepted is recorded, no update is lost, and the mirror
\* follows the record.
TasksSound ==
    /\ [](TerminalAnswerUnique /\ AnswersOwner /\ AcceptedIsRecorded /\ NoLostUpdate)
    /\ TerminalAnswerFinal
    /\ MirrorFollows
===============================================================================
