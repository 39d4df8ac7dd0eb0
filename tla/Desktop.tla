-------------------------------- MODULE Desktop -------------------------------
(*****************************************************************************)
(* Use of the interactive desktop: the actions (computer_use.cpp) and the    *)
(* pipe between the service and the desktop worker that performs them        *)
(* (computer_broker.cpp).                                                    *)
(*****************************************************************************)
EXTENDS Naturals, Sequences, SequencesExt, FiniteSets, Functions

-------------------------------------------------------------------------------
(*****************************************************************************)
(* ComputerUse::perform (computer_use.cpp): input into the interactive       *)
(* desktop. An action names the observation it was decided on, holds the     *)
(* session's input lease, consumes the observation before its first event    *)
(* and ends with a capture that becomes the next observation.                *)
(*                                                                           *)
(* Clicks, drags, chords and key sequences all press and release: an input   *)
(* action is a sequence of sets of keys and buttons that are to be down      *)
(* together; one that holds nothing is a wait. Pointer moves and wheel       *)
(* events hold nothing and are not told apart from a press. A timed key      *)
(* sequence compares the window's title between events, the others only its  *)
(* bounds. Windows change by themselves, and another may come to the front   *)
(* at any time. A process may die with keys down: its lease is abandoned,    *)
(* the keys stay down.                                                       *)
(*****************************************************************************)
CONSTANTS Processes, Windows, Modifiers, Denied, Scripts, MaxObservations, MaxCalls, MaxChanges, InputMaxDeaths

VARIABLES obs,      \* each process's observations: id -> window and look
          act,      \* the action of each process
          lease,    \* the holder of the session's input mutex
          down,     \* the keys and buttons that are down
          look,     \* title and bounds of each window
          front,    \* the foreground window
          issued,   \* observation ids issued; also the order of creation
          calls, changes, inputDeaths,
          used,     \* history: for each id the actions that sent input with it
          latest,   \* history: for each process and window the id issued last when it sent input there
          stuck     \* history: keys left down by a process that died

inputVars == <<obs, act, lease, down, look, front, issued, calls, changes, inputDeaths, used, latest, stuck>>
desktop == <<look, front, changes>>

InputNobody == "nobody"
CallIds == 1 .. MaxCalls
Fresh == [bounds |-> 0, title |-> 0]
Idle(result) == [pc |-> "idle", id |-> 0, win |-> InputNobody, look |-> Fresh, timed |-> FALSE, script |-> <<>>, seg |-> 1,
                 held |-> <<>>, attempted |-> FALSE, image |-> Fresh, result |-> result]
Without(table, ids) == Restrict(table, DOMAIN table \ ids)
OfWindow(p, w) == {i \in DOMAIN obs[p] : obs[p][i].win = w}

InputInit == /\ obs = [p \in Processes |-> <<>>] /\ act = [p \in Processes |-> Idle("none")]
             /\ lease = InputNobody /\ down = {} /\ look = [w \in Windows |-> Fresh] /\ front \in Windows
             /\ issued = 0 /\ calls = 0 /\ changes = 0 /\ inputDeaths = 0
             /\ used = [i \in CallIds |-> 0] /\ latest = [p \in Processes |-> [w \in Windows |-> 0]] /\ stuck = {}

\* The lease and require_unheld_input.
Start(p, id, w, input) ==
    /\ act[p].pc = "idle" /\ calls < MaxCalls /\ calls' = calls + 1
    /\ IF lease = InputNobody /\ down \intersect Modifiers = {}
       THEN /\ lease' = p
            /\ act' = [act EXCEPT ![p] = [Idle("none") EXCEPT !.pc = IF id = 0 THEN "observe" ELSE "check",
                                                             !.id = id, !.win = w, !.timed = input.timed, !.script = input.keys]]
       ELSE UNCHANGED lease /\ act' = [act EXCEPT ![p] = Idle("error")]
    /\ UNCHANGED <<obs, down, desktop, issued, inputDeaths, used, latest, stuck>>
\* An observation older than 180 seconds is dropped before an action looks for its own.
Expire(p, id) ==
    /\ id \in DOMAIN obs[p] /\ obs' = [obs EXCEPT ![p] = Without(@, {id})]
    /\ UNCHANGED <<act, lease, down, desktop, issued, calls, inputDeaths, used, latest, stuck>>

\* observe: bring the window to the front; its older observations are dropped.
Observe(p) ==
    /\ act[p].pc = "observe" /\ front' = act[p].win
    /\ act' = [act EXCEPT ![p].pc = "resolve"]
    /\ obs' = [obs EXCEPT ![p] = Without(@, OfWindow(p, act[p].win))]
    /\ UNCHANGED <<lease, down, look, issued, calls, changes, inputDeaths, used, latest, stuck>>
\* ensure_current.
Current(o, title) == /\ front = o.win /\ look[o.win].bounds = o.look.bounds
                     /\ title => look[o.win].title = o.look.title
\* key_chord, for every segment of the action.
Allowed(script) == \A n \in DOMAIN script : \A d \in Denied : ~(d \subseteq script[n])
\* A mistaken form of Consumed: the observation is left to its expiry.
ConsumedLater(p) == {}
\* The named observation and every other one of its window.
Consumed(p) == {act[p].id} \union OfWindow(p, obs[p][act[p].id].win)
\* Everything is validated, then the observation is consumed, before the first event.
Consume(p) ==
    /\ act[p].pc = "check" /\ act[p].id \in DOMAIN obs[p]
    /\ Current(obs[p][act[p].id], TRUE) /\ Allowed(act[p].script)
    /\ LET o == obs[p][act[p].id] IN
       act' = [act EXCEPT ![p].pc = "acting", ![p].win = o.win, ![p].look = o.look]
    /\ obs' = [obs EXCEPT ![p] = Without(@, Consumed(p))]
    /\ UNCHANGED <<lease, down, desktop, issued, calls, inputDeaths, used, latest, stuck>>

Segment(a) == IF a.seg <= Len(a.script) THEN a.script[a.seg] ELSE {}
Removed(a) == {n \in DOMAIN a.held : a.held[n] \notin Segment(a)}
\* Removed keys are released before new ones are pressed.
PressesNow(a) == Removed(a) = {}
\* send_input: an event that is not accepted was attempted all the same.
Sent(p) == /\ used' = [used EXCEPT ![act[p].id] = IF act[p].attempted THEN @ ELSE @ + 1]
           /\ latest' = [latest EXCEPT ![p][act[p].win] = issued]
Press(p, key) ==
    /\ act[p].pc = "acting" /\ PressesNow(act[p]) /\ Current(act[p], act[p].timed)
    /\ key \in Segment(act[p]) \ ToSet(act[p].held)
    /\ down' = down \union {key} /\ Sent(p)
    /\ act' = [act EXCEPT ![p].held = Append(@, key), ![p].attempted = TRUE]
    /\ UNCHANGED <<obs, lease, desktop, issued, calls, inputDeaths, stuck>>
\* Keys the next segment does not have are released from the last one pressed on.
Release(p) ==
    /\ act[p].pc = "acting" /\ Removed(act[p]) # {}
    /\ LET n == CHOOSE n \in Removed(act[p]) : \A m \in Removed(act[p]) : m <= n IN
       /\ down' = down \ {act[p].held[n]}
       /\ act' = [act EXCEPT ![p].held = RemoveAt(@, n)]
    /\ UNCHANGED <<obs, lease, desktop, issued, calls, inputDeaths, used, latest, stuck>>
\* The segment has lasted; after the last one everything is released.
Hold(p) ==
    /\ act[p].pc = "acting" /\ Removed(act[p]) = {} /\ Segment(act[p]) = ToSet(act[p].held)
    /\ IF act[p].seg > Len(act[p].script) THEN act' = [act EXCEPT ![p].pc = "resolve"]
       ELSE Current(act[p], act[p].timed) /\ act' = [act EXCEPT ![p].seg = @ + 1]
    /\ UNCHANGED <<obs, lease, down, desktop, issued, calls, inputDeaths, used, latest, stuck>>

\* The window is resolved, captured, and must still look the same.
Resolve(p) ==
    /\ act[p].pc = "resolve" /\ front = act[p].win
    /\ act' = [act EXCEPT ![p].pc = "capture", ![p].look = look[act[p].win]]
    /\ UNCHANGED <<obs, lease, down, desktop, issued, calls, inputDeaths, used, latest, stuck>>
Capture(p) ==
    /\ act[p].pc = "capture"
    /\ act' = [act EXCEPT ![p].pc = "finish", ![p].image = look[act[p].win]]
    /\ UNCHANGED <<obs, lease, down, desktop, issued, calls, inputDeaths, used, latest, stuck>>
Unchanged(a) == Current(a, TRUE)
\* The oldest observations make room for the new one.
Kept(table) == Without(table, {i \in DOMAIN table : Cardinality({j \in DOMAIN table : j > i}) >= MaxObservations - 1})
Finish(p) ==
    /\ act[p].pc = "finish" /\ Unchanged(act[p]) /\ issued' = issued + 1
    /\ obs' = [obs EXCEPT ![p] = [i \in DOMAIN Kept(@) \union {issued + 1} |->
                  IF i = issued + 1 THEN [win |-> act[p].win, look |-> act[p].look, image |-> act[p].image] ELSE @[i]]]
    /\ act' = [act EXCEPT ![p] = Idle("ok")] /\ lease' = InputNobody
    /\ UNCHANGED <<down, desktop, calls, inputDeaths, used, latest, stuck>>

Outcome(a, attempted) == IF attempted THEN "unknown" ELSE "error"
\* The scope guard releases whatever the action holds.
Freed(a) == ToSet(a.held)
\* A check fails, the call is cancelled or its time is over; or an event is not accepted.
Throw(p) ==
    /\ act[p].pc # "idle" /\ lease' = InputNobody /\ down' = down \ Freed(act[p])
    /\ \/ act' = [act EXCEPT ![p] = Idle(Outcome(act[p], act[p].attempted))] /\ UNCHANGED <<used, latest>>
       \/ /\ act[p].pc = "acting" /\ Segment(act[p]) # {} /\ Sent(p)
          /\ act' = [act EXCEPT ![p] = Idle(Outcome(act[p], TRUE))]
    /\ UNCHANGED <<obs, desktop, issued, calls, inputDeaths, stuck>>
\* The process dies: the mutex is abandoned and its observations are gone.
Die(p) ==
    /\ act[p].pc # "idle" /\ inputDeaths < InputMaxDeaths /\ inputDeaths' = inputDeaths + 1
    /\ lease' = InputNobody /\ stuck' = stuck \union ToSet(act[p].held)
    /\ act' = [act EXCEPT ![p] = Idle("none")] /\ obs' = [obs EXCEPT ![p] = <<>>]
    /\ UNCHANGED <<down, desktop, issued, calls, used, latest>>
\* The desktop: a window changes its look, or another one comes to the front.
Change(w) ==
    /\ changes < MaxChanges /\ changes' = changes + 1
    /\ \/ look' = [look EXCEPT ![w].bounds = @ + 1] /\ UNCHANGED front
       \/ look' = [look EXCEPT ![w].title = @ + 1] /\ UNCHANGED front
       \/ front # w /\ front' = w /\ UNCHANGED look
    /\ UNCHANGED <<obs, act, lease, down, issued, calls, inputDeaths, used, latest, stuck>>

InputNext == \/ \E p \in Processes :
                   \/ \E w \in Windows : Start(p, 0, w, [timed |-> FALSE, keys |-> <<>>])
                   \/ \E id \in 1 .. issued, s \in Scripts : Start(p, id, InputNobody, s)
                   \/ \E id \in 1 .. issued : Expire(p, id)
                   \/ Observe(p) \/ Consume(p) \/ Release(p) \/ Hold(p)
                   \/ \E k \in UNION UNION {Range(s.keys) : s \in Scripts} : Press(p, k)
                   \/ Resolve(p) \/ Capture(p) \/ Finish(p) \/ Throw(p) \/ Die(p)
             \/ \E w \in Windows : Change(w)

\* An observation authorizes input of one action at most, and once a process has sent input
\* to a window it has no observation of it from before: errors cannot replay an input.
DecidedOnFreshImage ==
    /\ \A i \in CallIds : used[i] <= 1
    /\ \A p \in Processes : \A i \in DOMAIN obs[p] : i > latest[p][obs[p][i].win]
\* Keys are down only while the action that pressed them runs, however it ends.
ReleasedAtRest == (lease = InputNobody) => down \subseteq stuck
\* The keys down together never form a refused shortcut, not even on the way from one
\* segment to the next.
NoDeniedChord == (stuck = {}) => \A d \in Denied : ~(d \subseteq down)
\* An action that fails without the outcome-unknown error has sent nothing.
PlainErrorMeansNoInput ==
    [][\A p \in Processes : (act[p].pc # "idle" /\ act'[p].result = "error") =>
          ~act[p].attempted /\ used' = used]_inputVars
\* What an observation says of its window is what its image shows.
ObservationMatchesImage == \A p \in Processes : \A i \in DOMAIN obs[p] : obs[p][i].look = obs[p][i].image

-------------------------------------------------------------------------------
(*****************************************************************************)
(* computer_broker.cpp: calls of the service reach the desktop worker over a *)
(* local pipe with a single instance. A call writes its request, a second    *)
(* thread of it passes a cancellation on, and the call keeps reading: the    *)
(* reply says that held input was released. The worker watches its client    *)
(* while it acts, writes the reply and waits for the acknowledgement before  *)
(* it disconnects, which discards what is unread.                            *)
(*                                                                           *)
(* Input itself is modelled above: here perform either sends some (an        *)
(* effect) or is refused. A deadline of 30 seconds, the client's or the      *)
(* worker's, may pass at any moment of a call.                               *)
(*****************************************************************************)
CONSTANTS Calls, BrokerMaxDeaths

VARIABLES client,     \* where each call is
          kind,       \* "perform" or "windows"
          open,       \* calls whose handle is open
          cancelled,  \* calls whose token is cancelled
          told,       \* calls whose cancellation thread has written
          got,        \* the reply each call has read
          result,     \* what the call returns
          conn,       \* the client the pipe's instance belongs to
          inbox,      \* messages to the worker
          reply,      \* the reply in the pipe
          worker,     \* where the worker is
          watching,   \* its watcher thread runs
          token,      \* the action's cancellation
          made,       \* the reply it will write
          late,       \* the connection's deadline has passed
          brokerDeaths,
          effects     \* history: how often each call's input was sent

brokerVars == <<client, kind, open, cancelled, told, got, result, conn, inbox, reply,
                worker, watching, token, made, late, brokerDeaths, effects>>
callVars == <<client, kind, open, cancelled, told, got, result>>
workVars == <<worker, watching, token, made, late>>

BrokerNobody == "nobody"
NoReply == [for |-> BrokerNobody, says |-> "none"]

BrokerInit == /\ client = [c \in Calls |-> "idle"] /\ kind = [c \in Calls |-> "windows"] /\ open = {}
              /\ cancelled = {} /\ told = {} /\ got = [c \in Calls |-> NoReply]
              /\ result = [c \in Calls |-> "none"] /\ conn = BrokerNobody /\ inbox = <<>> /\ reply = NoReply
              /\ worker = "listening" /\ watching = FALSE /\ token = FALSE /\ made = NoReply
              /\ late = FALSE /\ brokerDeaths = 0 /\ effects = [c \in Calls |-> 0]

Ends(c, says) == /\ client' = [client EXCEPT ![c] = "done"] /\ open' = open \ {c}
                 /\ result' = [result EXCEPT ![c] = says]
Send(c, message) == inbox' = IF conn = c THEN Append(inbox, message) ELSE inbox

\* computer_broker_call: the instance is free, or the worker is busy, away or another program.
Connect(c, k) ==
    /\ client[c] = "idle" /\ c \notin cancelled /\ conn = BrokerNobody /\ worker # "down"
    /\ client' = [client EXCEPT ![c] = "connected"] /\ kind' = [kind EXCEPT ![c] = k]
    /\ open' = open \union {c} /\ conn' = c
    /\ UNCHANGED <<cancelled, told, got, result, inbox, reply, workVars, brokerDeaths, effects>>
Unavailable(c) ==
    /\ client[c] \in {"idle", "connected"} /\ Ends(c, "unavailable")
    /\ UNCHANGED <<kind, cancelled, told, got, conn, inbox, reply, workVars, brokerDeaths, effects>>
Request(c) ==
    /\ client[c] = "connected" /\ c \notin cancelled /\ conn = c
    /\ Send(c, "request") /\ client' = [client EXCEPT ![c] = "waiting"]
    /\ UNCHANGED <<kind, open, cancelled, told, got, result, conn, reply, workVars, brokerDeaths, effects>>
\* cancellation_writer: one message.
TellCancel(c) ==
    /\ client[c] = "waiting" /\ c \in cancelled /\ c \notin told /\ conn = c
    /\ told' = told \union {c} /\ Send(c, "cancel")
    /\ UNCHANGED <<client, kind, open, cancelled, got, result, conn, reply, workVars, brokerDeaths, effects>>
ReadReply(c) ==
    /\ client[c] = "waiting" /\ conn = c /\ reply # NoReply
    /\ got' = [got EXCEPT ![c] = reply] /\ reply' = NoReply
    /\ client' = [client EXCEPT ![c] = "acking"]
    /\ UNCHANGED <<kind, open, cancelled, told, result, conn, inbox, workVars, brokerDeaths, effects>>
\* An exception once the call is connected: input may have been sent.
Lost(c) == IF kind[c] = "perform" THEN "unknown" ELSE "error"
Acknowledge(c) ==
    /\ client[c] = "acking" /\ conn = c /\ Send(c, "received")
    /\ Ends(c, IF c \in cancelled THEN Lost(c) ELSE got[c].says)
    /\ UNCHANGED <<kind, cancelled, told, got, conn, reply, workVars, brokerDeaths, effects>>
\* The pipe is closed, the time is over or the token stops the write.
Fail(c) ==
    /\ client[c] \in {"connected", "waiting", "acking"} /\ Ends(c, Lost(c))
    /\ UNCHANGED <<kind, cancelled, told, got, conn, inbox, reply, workVars, brokerDeaths, effects>>
CancelCall(c) ==
    /\ client[c] # "done" /\ cancelled' = cancelled \union {c}
    /\ UNCHANGED <<client, kind, open, told, got, result, conn, inbox, reply, workVars, brokerDeaths, effects>>

\* DisconnectNamedPipe.
Disconnected == conn' = BrokerNobody /\ inbox' = <<>> /\ reply' = NoReply
Retired == /\ Disconnected /\ worker' = "listening" /\ late' = FALSE /\ watching' = FALSE
           /\ token' = FALSE /\ made' = NoReply
Reads == <<callVars, brokerDeaths, effects>>
\* run_computer_broker: a client that has gone, or is not the service, is retired.
Accept ==
    /\ worker = "listening" /\ conn # BrokerNobody
    /\ \/ conn \in open /\ worker' = "reading" /\ UNCHANGED <<conn, inbox, reply, watching, token, made, late>>
       \/ Retired
    /\ UNCHANGED Reads
ReadRequest ==
    /\ worker = "reading"
    /\ \/ /\ inbox # <<>> /\ ~late /\ inbox' = Tail(inbox)
          /\ worker' = "acting" /\ watching' = TRUE /\ UNCHANGED <<conn, reply, token, made, late>>
       \/ ((inbox = <<>> /\ conn \notin open) \/ late) /\ Retired
    /\ UNCHANGED Reads
\* The watcher: the client closed, the deadline, or one control message.
Watch ==
    /\ worker \in {"acting", "holding"} /\ watching
    /\ \/ /\ (conn \notin open /\ inbox = <<>>) \/ late
          /\ token' = TRUE /\ watching' = FALSE /\ UNCHANGED inbox
       \/ /\ inbox # <<>> /\ inbox' = Tail(inbox)
          /\ token' = (token \/ Head(inbox) = "cancel") /\ watching' = FALSE
    /\ UNCHANGED <<conn, reply, worker, made, late, Reads>>
Replies(says) == worker' = "replying" /\ watching' = FALSE /\ made' = [for |-> conn, says |-> says]
\* The operation: refused, or windows, or the input of perform and its end.
Answer ==
    /\ worker = "acting"
    /\ \/ Replies("error")
       \/ kind[conn] = "windows" /\ ~token /\ Replies("ok")
    /\ UNCHANGED <<conn, inbox, reply, token, late, Reads>>
Perform ==
    /\ worker = "acting" /\ kind[conn] = "perform" /\ ~token
    /\ effects' = [effects EXCEPT ![conn] = @ + 1] /\ worker' = "holding"
    /\ UNCHANGED <<callVars, conn, inbox, reply, watching, token, made, late, brokerDeaths>>
Performed ==
    /\ worker = "holding"
    /\ (Replies("unknown") \/ (~token /\ Replies("ok")))
    /\ UNCHANGED <<conn, inbox, reply, token, late, Reads>>
WriteReply ==
    /\ worker = "replying"
    /\ \/ /\ conn \in open /\ ~late /\ reply' = made /\ worker' = "acking"
          /\ UNCHANGED <<conn, inbox, watching, token, made, late>>
       \/ (conn \notin open \/ late) /\ Retired
    /\ UNCHANGED Reads
\* The acknowledgement; anything else, a late cancellation too, ends the connection as well.
ReadAck ==
    /\ worker = "acking" /\ (inbox # <<>> \/ conn \notin open \/ late) /\ Retired
    /\ UNCHANGED Reads
\* The worker's 30 seconds for a connection are over.
Deadline ==
    /\ worker \notin {"listening", "down"} /\ ~late /\ late' = TRUE
    /\ UNCHANGED <<conn, inbox, reply, worker, watching, token, made, Reads>>
WorkerDies ==
    /\ worker # "down" /\ brokerDeaths < BrokerMaxDeaths /\ brokerDeaths' = brokerDeaths + 1
    /\ Disconnected /\ worker' = "down" /\ late' = FALSE /\ watching' = FALSE /\ token' = FALSE /\ made' = NoReply
    /\ UNCHANGED <<callVars, effects>>
WorkerStarts == /\ worker = "down" /\ worker' = "listening"
                /\ UNCHANGED <<conn, inbox, reply, watching, token, made, late, Reads>>

WorkerStep == Accept \/ ReadRequest \/ Answer \/ Perform \/ Performed \/ WriteReply \/ ReadAck
BrokerNext == \/ \E c \in Calls : \/ \E k \in {"perform", "windows"} : Connect(c, k)
                                  \/ Unavailable(c) \/ Request(c) \/ TellCancel(c) \/ ReadReply(c)
                                  \/ Acknowledge(c) \/ Fail(c) \/ CancelCall(c)
              \/ WorkerStep \/ Watch \/ Deadline \/ WorkerDies \/ WorkerStarts

\* The input of a call is sent at most once, whatever is lost: no connection replays it.
PerformedOnce == \A c \in Calls : effects[c] <= 1
\* A reply is given to the call that asked for it, never to the next one on the pipe; and a
\* perform that succeeds was performed.
ReplyIsOwn == \A c \in Calls : /\ got[c] # NoReply => got[c].for = c
                               /\ (kind[c] = "perform" /\ result[c] = "ok") => effects[c] = 1
\* A perform that fails with anything but the outcome-unknown error has sent nothing, and
\* never will: its request cannot still be on the way.
PlainErrorIsFinal ==
    [][\A c \in Calls : (result'[c] \in {"error", "unavailable"} /\ kind[c] = "perform") => effects'[c] = 0]_brokerVars
\* The reply of a call that waits for it, uncancelled and within the deadline, is not thrown
\* away by the worker's disconnection.
ReplyNotDiscarded ==
    [][\A c \in Calls : (made.for = c /\ client[c] = "waiting" /\ c \notin cancelled /\ ~late /\ worker' = "listening"
                           /\ c \in open) => got'[c] # NoReply]_brokerVars
\* The worker always comes back to its pipe, also from a client that neither reads nor closes.
WorkerReturns == (worker \notin {"listening", "down"}) ~> (worker \in {"listening", "down"})
BrokerFairness == WF_brokerVars(WorkerStep) /\ WF_brokerVars(Watch) /\ WF_brokerVars(Deadline)
===============================================================================
