------------------------------- MODULE AsyncCore ------------------------------
(*****************************************************************************)
(* What concurrent code is built from: the cancellation token with its       *)
(* callbacks and sleepers, and the bounded worker pool. The pool subscribes  *)
(* to tokens like any other user.                                            *)
(*****************************************************************************)
EXTENDS Naturals, Sequences, FiniteSets

-------------------------------------------------------------------------------
(*****************************************************************************)
(* Cancellation tokens (common.cpp). A token may have a parent; it counts as *)
(* cancelled when it or an ancestor is. subscribe walks from the token to    *)
(* its root, registering a callback at each token not yet cancelled; cancel  *)
(* takes a token's list and notifies it; reset withdraws a callback and      *)
(* waits for it if it is running. wait_for sleeps on the token's own         *)
(* condition and subscribes at its parent to be woken from there.            *)
(*                                                                           *)
(* A token Child, its parent Parent, any number of subscribers, and one      *)
(* thread in wait_for on Child, whose wake-up callback is the subscription   *)
(* Wake. Waiting without a time limit stands for a limit far away.           *)
(*****************************************************************************)
CONSTANTS Subs, Wake

VARIABLES flag,     \* cancelled_ of each token
          entries,  \* callbacks_ of each token
          todo,     \* callbacks each notifying thread still has to visit
          sub,      \* each subscription
          mutex,    \* Child's mutex is held by the waiting thread
          waiter    \* the thread in wait_for

cancelVars == <<flag, entries, todo, sub, mutex, waiter>>

Tokens == {"Child", "Parent"}
All == Subs \union {Wake}
\* The tokens a subscription visits, and the threads that may notify it.
Walk(s) == IF s = Wake THEN <<"Parent">> ELSE <<"Child", "Parent">>
Actors == Tokens \union All
Cancelled == flag["Child"] \/ flag["Parent"]

TokenInit == /\ flag = [t \in Tokens |-> FALSE]
             /\ entries = [t \in Tokens |-> {}]
             /\ todo = [h \in Actors |-> {}]
             /\ sub = [s \in All |-> [at |-> "new", left |-> Walk(s), notify |-> FALSE, early |-> FALSE,
                                      has |-> TRUE, by |-> "none", fired |-> 0]]
             /\ mutex = FALSE
             /\ waiter = "start"

\* Taking a token's mutex: only the waiting thread ever keeps Child's.
Unlocked(t) == t = "Parent" \/ ~mutex

\* subscribe at the next token of the walk; Wake subscribes when wait_for begins.
Subscribe(s) ==
    /\ sub[s].left # <<>> /\ (s = Wake => waiter = "subscribing")
    /\ LET t == Head(sub[s].left) IN
       /\ Unlocked(t)
       /\ entries' = IF flag[t] THEN entries ELSE [entries EXCEPT ![t] = @ \union {s}]
       /\ sub' = [sub EXCEPT ![s].left = Tail(@), ![s].at = "walking",
                             ![s].notify = @ \/ flag[t],
                             ![s].early = @ \/ (sub[s].at = "new" /\ \E n \in 1 .. Len(Walk(s)) : flag[Walk(s)[n]])]
    /\ UNCHANGED <<flag, todo, mutex, waiter>>
\* At the end of the walk the subscriber notifies itself if a token was cancelled.
Subscribed(s) ==
    /\ sub[s].at = "walking" /\ sub[s].left = <<>>
    /\ IF sub[s].notify
       THEN todo' = [todo EXCEPT ![s] = {s}] /\ sub' = [sub EXCEPT ![s].at = "notifying"]
       ELSE sub' = [sub EXCEPT ![s].at = "armed"] /\ UNCHANGED todo
    /\ UNCHANGED <<flag, entries, mutex, waiter>>
SelfNotified(s) ==
    /\ sub[s].at = "notifying" /\ todo[s] = {}
    /\ sub' = [sub EXCEPT ![s].at = "armed"]
    /\ UNCHANGED <<flag, entries, todo, mutex, waiter>>

\* cancel: the flag and the list change hands under the mutex; sleepers are woken.
Cancel(t) ==
    /\ ~flag[t] /\ Unlocked(t)
    /\ flag' = [flag EXCEPT ![t] = TRUE]
    /\ todo' = [todo EXCEPT ![t] = entries[t]]
    /\ entries' = [entries EXCEPT ![t] = {}]
    /\ waiter' = IF t = "Child" /\ waiter = "asleep" THEN "woken" ELSE waiter
    /\ UNCHANGED <<sub, mutex>>
\* A mistaken form of Notify: the function is not taken out of the callback.
NotifyKeeping(h, s) ==
    /\ s \in todo[h] /\ sub[s].by = "none"
    /\ IF sub[s].has THEN sub' = [sub EXCEPT ![s].by = h] /\ UNCHANGED todo
       ELSE todo' = [todo EXCEPT ![h] = @ \ {s}] /\ UNCHANGED sub
    /\ UNCHANGED <<flag, entries, mutex, waiter>>
\* Callback::notify: under the callback's mutex the function is taken and run.
Notify(h, s) ==
    /\ s \in todo[h] /\ sub[s].by = "none"
    /\ IF sub[s].has
       THEN sub' = [sub EXCEPT ![s].has = FALSE, ![s].by = h] /\ UNCHANGED todo
       ELSE todo' = [todo EXCEPT ![h] = @ \ {s}] /\ UNCHANGED sub
    /\ UNCHANGED <<flag, entries, mutex, waiter>>
\* The function has run.  The wake-up callback first passes through Child's mutex, then
\* notifies its condition.
Called(h, s) ==
    /\ s \in todo[h] /\ sub[s].by = h
    /\ s = Wake => ~mutex
    /\ sub' = [sub EXCEPT ![s].by = "none", ![s].fired = @ + 1]
    /\ todo' = [todo EXCEPT ![h] = @ \ {s}]
    /\ waiter' = IF s = Wake /\ waiter = "asleep" THEN "woken" ELSE waiter
    /\ UNCHANGED <<flag, entries, mutex>>
\* Subscription::reset.
Reset(s) ==
    /\ sub[s].at = "armed" /\ sub[s].by = "none"
    /\ s = Wake => waiter = "done"
    /\ sub' = [sub EXCEPT ![s].at = "reset", ![s].has = FALSE]
    /\ UNCHANGED <<flag, entries, todo, mutex, waiter>>

\* wait_for: subscribe at the parent, then test and sleep under the mutex.
StartWait == /\ waiter = "start" /\ waiter' = "subscribing"
             /\ UNCHANGED <<flag, entries, todo, sub, mutex>>
LockToTest == /\ ~mutex
              /\ (waiter = "subscribing" /\ sub[Wake].at = "armed") \/ waiter = "woken"
              /\ mutex' = TRUE
              /\ waiter' = IF Cancelled THEN "leaving" ELSE "sleepy"
              /\ UNCHANGED <<flag, entries, todo, sub>>
Sleep == /\ waiter = "sleepy" /\ waiter' = "asleep" /\ mutex' = FALSE
         /\ UNCHANGED <<flag, entries, todo, sub>>
LeaveWait == /\ waiter = "leaving" /\ waiter' = "done" /\ mutex' = FALSE
             /\ UNCHANGED <<flag, entries, todo, sub>>

SubStep(s) == Subscribe(s) \/ Subscribed(s) \/ SelfNotified(s)
Notifying(h) == \E s \in All : Notify(h, s) \/ Called(h, s)
TokenWaiting == StartWait \/ LockToTest \/ Sleep \/ LeaveWait
TokenNext == \/ \E s \in All : SubStep(s) \/ Reset(s)
             \/ \E t \in Tokens : Cancel(t)
             \/ \E h \in Actors : Notifying(h)
             \/ TokenWaiting
TokenSpec == TokenInit /\ [][TokenNext]_cancelVars

\* "The callback runs at most once, including parent cancellation.  Reset waits for a
\* running callback ...  Already-cancelled tokens invoke it before returning."
CallbackContract ==
    \A s \in All : /\ sub[s].fired + (IF sub[s].by # "none" THEN 1 ELSE 0) <= 1
                   /\ sub[s].at = "reset" => sub[s].by = "none"
                   /\ sub[s].at = "armed" /\ sub[s].early => sub[s].fired = 1
\* A callback that is not withdrawn runs once a token above it is cancelled.
CancelDelivered == \A s \in Subs : (flag["Child"] /\ sub[s].at = "armed") ~> (sub[s].fired = 1 \/ sub[s].at = "reset")
\* The sleeper is not left asleep by a cancellation, of its own token or of the parent.
WaiterWoken == Cancelled ~> (waiter \in {"start", "done"})
CancelFairness == /\ \A s \in All : WF_cancelVars(SubStep(s))
                  /\ \A h \in Actors : WF_cancelVars(Notifying(h))
                  /\ WF_cancelVars(TokenWaiting)

-------------------------------------------------------------------------------
(*****************************************************************************)
(* The bounded worker pool (async.hpp, async.cpp) that blocking work of the  *)
(* coroutines runs on. enqueue admits a task to a bounded queue and starts a *)
(* further thread only when the queued tasks outnumber the idle ones; the    *)
(* destructor lets the workers drain the queue. run_until races the work's   *)
(* completion with a timer and a cancellation: the first one takes the       *)
(* call's only continuation.                                                 *)
(*                                                                           *)
(* The calls of Timed use run_until, the others run. The condition variable  *)
(* is modelled with its signals: a notification reaches a worker that waits, *)
(* or nobody. The first thread of a pool can always be started; a later one  *)
(* may fail to.                                                              *)
(*****************************************************************************)
CONSTANTS Tasks, Timed, Workers, PoolCapacity

VARIABLES queue,      \* queue_
          worker,     \* each worker thread: not started, waiting, ... or busy with a task
          poolStopping,   \* stopping_
          poolCancelled,  \* tasks whose token is cancelled
          late,       \* tasks whose deadline has passed
          race,       \* who took the continuation of each call: "open" until somebody does
          ran,        \* tasks whose work was started
          resumed     \* how often each caller was resumed

workersVars == <<queue, worker, poolStopping, poolCancelled, late, race, ran, resumed>>

PoolWaiting == {w \in Workers : worker[w] \in {"waiting", "signalled"}}
Started == {w \in Workers : worker[w] # "none"}

WorkersInit == /\ queue = <<>>
               /\ worker = [w \in Workers |-> "none"]
               /\ poolStopping = FALSE /\ poolCancelled = {} /\ late = {} /\ ran = {}
               /\ race = [t \in Tasks |-> "new"]
               /\ resumed = [t \in Tasks |-> 0]

\* Race::complete, and the completion of run: the continuation is taken once.
Complete(t, by) == race' = [race EXCEPT ![t] = IF @ = "open" THEN by ELSE @]

\* enqueue.  A thread that cannot be started leaves the task to the existing workers.
Enqueue(t) ==
    /\ race[t] = "new" /\ t \notin poolCancelled \union late
    /\ \/ /\ poolStopping \/ Len(queue) >= PoolCapacity
          /\ race' = [race EXCEPT ![t] = "full"]
          /\ UNCHANGED <<queue, worker>>
       \/ /\ ~poolStopping /\ Len(queue) < PoolCapacity
          /\ LET wanted == Len(queue) + 1 > Cardinality(PoolWaiting) /\ Started # Workers
                 grow == {w \in Workers \ Started : wanted /\ \A v \in Workers \ Started : w <= v}
                 Signal(pool) == LET sleeping == {w \in Workers : pool[w] = "waiting"} IN
                     {[pool EXCEPT ![w] = "signalled"] : w \in sleeping} \union (IF sleeping = {} THEN {pool} ELSE {})
             IN \/ /\ worker' \in Signal([w \in Workers |-> IF w \in grow THEN "looking" ELSE worker[w]])
                   /\ queue' = Append(queue, t) /\ race' = [race EXCEPT ![t] = "open"]
                \/ /\ wanted /\ Started # {}
                   /\ worker' \in Signal(worker)
                   /\ queue' = Append(queue, t) /\ race' = [race EXCEPT ![t] = "open"]
    /\ UNCHANGED <<poolStopping, poolCancelled, late, ran, resumed>>

\* A mistaken form of Take: a stopping pool leaves its queue behind.
TakeOrLeave(w) ==
    /\ worker[w] \in {"looking", "signalled"}
    /\ IF queue # <<>> /\ ~poolStopping THEN worker' = [worker EXCEPT ![w] = Head(queue)] /\ queue' = Tail(queue)
       ELSE worker' = [worker EXCEPT ![w] = IF poolStopping THEN "gone" ELSE "waiting"] /\ UNCHANGED queue
    /\ UNCHANGED <<poolStopping, poolCancelled, late, race, ran, resumed>>
\* worker(): take the next task, wait for one, or leave once the pool stops.
Take(w) ==
    /\ worker[w] \in {"looking", "signalled"}
    /\ IF queue # <<>> THEN worker' = [worker EXCEPT ![w] = Head(queue)] /\ queue' = Tail(queue)
       ELSE worker' = [worker EXCEPT ![w] = IF poolStopping THEN "gone" ELSE "waiting"] /\ UNCHANGED queue
    /\ UNCHANGED <<poolStopping, poolCancelled, late, race, ran, resumed>>
\* The task itself: not started for a cancelled or overdue call; then its completion.
Begin(w) ==
    /\ worker[w] \in Tasks /\ worker[w] \notin ran
    /\ IF worker[w] \in poolCancelled \/ (worker[w] \in Timed /\ worker[w] \in late)
       THEN /\ Complete(worker[w], "refused")
            /\ worker' = [worker EXCEPT ![w] = "looking"]
            /\ UNCHANGED ran
       ELSE ran' = ran \union {worker[w]} /\ UNCHANGED <<race, worker>>
    /\ UNCHANGED <<queue, poolStopping, poolCancelled, late, resumed>>
Done(w) ==
    /\ worker[w] \in ran
    /\ Complete(worker[w], "value")
    /\ worker' = [worker EXCEPT ![w] = "looking"]
    /\ UNCHANGED <<queue, poolStopping, poolCancelled, late, ran, resumed>>

\* The timer and the cancellation callback of run_until.
Deadline(t) == /\ t \in Timed /\ t \notin late
               /\ late' = late \union {t}
               /\ Complete(t, "timer")
               /\ UNCHANGED <<queue, worker, poolStopping, poolCancelled, ran, resumed>>
CancelCall(t) == /\ t \notin poolCancelled
                 /\ poolCancelled' = poolCancelled \union {t}
                 /\ IF t \in Timed THEN Complete(t, "cancel") ELSE UNCHANGED race
                 /\ UNCHANGED <<queue, worker, poolStopping, late, ran, resumed>>
\* The executor resumes the caller with the continuation's result.
Resume(t) == /\ race[t] \notin {"new", "open", "resumed"}
             /\ resumed' = [resumed EXCEPT ![t] = @ + 1]
             /\ race' = [race EXCEPT ![t] = "resumed"]
             /\ UNCHANGED <<queue, worker, poolStopping, poolCancelled, late, ran>>
\* ~WorkPool.
Stop == /\ ~poolStopping
        /\ poolStopping' = TRUE
        /\ worker' = [w \in Workers |-> IF worker[w] = "waiting" THEN "signalled" ELSE worker[w]]
        /\ UNCHANGED <<queue, poolCancelled, late, race, ran, resumed>>

WorkerStep(w) == Take(w) \/ Begin(w) \/ Done(w)
WorkersNext == \/ \E t \in Tasks : Enqueue(t) \/ Deadline(t) \/ CancelCall(t) \/ Resume(t)
               \/ \E w \in Workers : WorkerStep(w)
               \/ Stop
WorkersSpec == WorkersInit /\ [][WorkersNext]_workersVars

\* A caller is resumed at most once, whatever combination of completion, timer,
\* cancellation and refusal happens.
ResumedOnce == \A t \in Tasks : resumed[t] <= 1
\* Every admitted call is resumed, also while the pool shuts down: its task is taken by
\* a worker although threads are started lazily.
AdmittedResumes == \A t \in Tasks : (race[t] = "open") ~> (race[t] = "resumed")
\* Every admitted task leaves the queue even when its caller has long gone.
QueueDrains == (queue # <<>>) ~> (queue = <<>>)
PoolFairness == /\ \A w \in Workers : WF_workersVars(WorkerStep(w))
                /\ \A t \in Tasks : WF_workersVars(Resume(t))

\* Together: a callback runs at most once and a caller is resumed at most once.
CallbacksOnce == CallbackContract /\ ResumedOnce
===============================================================================
