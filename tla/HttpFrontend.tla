----------------------------- MODULE HttpFrontend -----------------------------
(*****************************************************************************)
(* The HTTP frontend (server.cpp): one connection with its requests, and the *)
(* server with all its connections. The second sees of a connection only     *)
(* whether it works on a request.                                            *)
(*****************************************************************************)
EXTENDS Naturals, FiniteSets

-------------------------------------------------------------------------------
(*****************************************************************************)
(* One persistent HTTP connection (HttpServer::Impl::Session of server.cpp). *)
(* On one strand run the session's loop, the read-ahead that notices a       *)
(* disconnect while a request is handled and buffers pipelined input, the    *)
(* watchdog of the response deadline, and the completion of the tool call. A *)
(* timer that expired before it was cancelled still calls its handler.       *)
(*                                                                           *)
(* A request is its number on the connection. Input is counted in requests:  *)
(* those the peer sent and nobody read, and those in the buffer of Buffer    *)
(* places.                                                                   *)
(*****************************************************************************)
CONSTANTS MaxRequests, Buffer

VARIABLES n,          \* the request the session works on or waits for
          at,         \* where the session's loop is
          flags,      \* response_started, completed, disconnected, keep_alive, failure
          open,       \* the socket is open
          cause,      \* why close(true) was called first
          peer,       \* the peer: how many requests it sent unread, whether it hung up
          buffer,     \* pipelined requests in the session's buffer
          ahead,      \* the read-ahead: "none", "reading", "stopping" or "done"
          eofSeen,    \* the read-ahead consumed the peer's end of stream
          dogs,       \* response watchdogs by request: "armed", or "due" once expired
          overdue,    \* requests whose response deadline has passed
          tool,       \* the tool call of the current request
          wrote,      \* responses started for the current request
          cancelled   \* requests whose cancellation token is cancelled

sessionVars == <<n, at, flags, open, cause, peer, buffer, ahead, eofSeen, dogs, overdue, tool, wrote, cancelled>>

Fresh == [started |-> FALSE, completed |-> FALSE, disconnected |-> FALSE, keep |-> FALSE, failure |-> FALSE]
NoDog == [r \in {} |-> "armed"]

SessionInit == /\ n = 1 /\ at = "idle" /\ flags = Fresh /\ open = TRUE /\ cause = "none"
               /\ peer = [sent |-> 0, unread |-> 0, gone |-> FALSE]
               /\ buffer = 0 /\ ahead = "none" /\ eofSeen = FALSE
               /\ dogs = NoDog /\ overdue = {} /\ tool = "none" /\ wrote = 0 /\ cancelled = {}

\* close(true), in which f are the flags of the step.
Drop(f, why) == /\ flags' = [f EXCEPT !.disconnected = @ \/ ~f.completed]
                /\ cancelled' = cancelled \union {n}
                /\ open' = FALSE
                /\ cause' = IF cause = "none" THEN why ELSE cause
Quiet(f) == flags' = f /\ UNCHANGED <<cancelled, open, cause>>

\* The handlers around dispatch: a failure is answered unless a response has started.
Failed(f) == [f EXCEPT !.failure = ~f.started /\ ~f.disconnected]

\* The peer sends a request, or shuts the connection down.
PeerSends == /\ ~peer.gone /\ peer.sent < MaxRequests
             /\ peer' = [peer EXCEPT !.sent = @ + 1, !.unread = @ + 1]
             /\ UNCHANGED <<n, at, flags, open, cause, buffer, ahead, eofSeen, dogs, overdue, tool, wrote, cancelled>>
PeerLeaves == /\ ~peer.gone
              /\ peer' = [peer EXCEPT !.gone = TRUE]
              /\ UNCHANGED <<n, at, flags, open, cause, buffer, ahead, eofSeen, dogs, overdue, tool, wrote, cancelled>>

\* run: read and parse a request; a probe has no read-ahead, a malformed one a failure.
ReadRequest ==
    /\ at = "idle" /\ open /\ buffer + peer.unread > 0
    /\ IF buffer > 0 THEN buffer' = buffer - 1 /\ UNCHANGED peer
       ELSE peer' = [peer EXCEPT !.unread = @ - 1] /\ UNCHANGED buffer
    /\ wrote' = 0
    /\ \E keep \in BOOLEAN :
         \/ /\ flags' = [Fresh EXCEPT !.keep = keep] /\ at' = "dispatch"
            /\ ahead' = "reading" /\ dogs' = [r \in DOMAIN dogs \union {n} |-> IF r = n THEN "armed" ELSE dogs[r]]
         \/ /\ flags' = [Fresh EXCEPT !.keep = keep] /\ at' = "send" /\ UNCHANGED <<ahead, dogs>>
         \/ flags' = [Fresh EXCEPT !.failure = TRUE] /\ at' = "stop" /\ UNCHANGED <<ahead, dogs>>
    /\ UNCHANGED <<n, open, cause, eofSeen, overdue, tool, cancelled>>
\* The read fails, or the idle timeout expires.
IdleEnds == /\ at = "idle" /\ ~(open /\ buffer > 0)
            /\ at' = "closed" /\ open' = FALSE /\ cancelled' = cancelled \union {n}
            /\ UNCHANGED <<n, flags, cause, peer, buffer, ahead, eofSeen, dogs, overdue, tool, wrote>>

\* dispatch: a ready reply, a tool call with or without event stream, or an exception.
Dispatch ==
    /\ at = "dispatch"
    /\ \/ at' = "send" /\ UNCHANGED <<tool, flags>>
       \/ at' \in {"await", "grace"} /\ tool' = "running" /\ UNCHANGED flags
       \/ at' = "stop" /\ flags' = Failed(flags) /\ UNCHANGED tool
    /\ UNCHANGED <<n, open, cause, peer, buffer, ahead, eofSeen, dogs, overdue, wrote, cancelled>>
ToolEnds == /\ tool = "running" /\ tool' = "ended"
            /\ UNCHANGED <<n, at, flags, open, cause, peer, buffer, ahead, eofSeen, dogs, overdue, wrote, cancelled>>
\* tool_response: the result in time for an ordinary reply.
Result == /\ at \in {"await", "grace"} /\ tool = "ended"
          /\ at' = IF flags.disconnected THEN "stop" ELSE "send"
          /\ UNCHANGED <<n, flags, open, cause, peer, buffer, ahead, eofSeen, dogs, overdue, tool, wrote, cancelled>>
\* The event stream's header once the grace period is over.
StartStream == /\ at = "grace" /\ tool = "running"
               /\ wrote' = wrote + 1
               /\ IF open THEN at' = "stream" /\ Quiet([flags EXCEPT !.started = TRUE])
                  ELSE at' = "stop" /\ Drop([flags EXCEPT !.started = TRUE], "write")
               /\ UNCHANGED <<n, peer, buffer, ahead, eofSeen, dogs, overdue, tool>>
\* A heartbeat on a closed socket throws; the final event may fail to be encoded.
Stream ==
    /\ at = "stream" /\ at' = "stop"
    /\ \/ ~open /\ n \notin cancelled /\ tool = "running" /\ Drop(flags, "write")
       \/ tool = "ended" /\ flags.disconnected /\ Quiet(flags)
       \/ tool = "ended" /\ ~flags.disconnected /\ open /\ Quiet([flags EXCEPT !.completed = TRUE])
       \/ tool = "ended" /\ ~flags.disconnected /\ Drop(flags, "write")
       \/ tool = "ended" /\ ~flags.disconnected /\ Quiet(Failed(flags))
    /\ UNCHANGED <<n, peer, buffer, ahead, eofSeen, dogs, overdue, tool, wrote>>
\* send: refused by a budget before it starts, written, or failed on the way.
Send ==
    /\ at = "send" /\ at' = "stop"
    /\ \/ Quiet([Failed(flags) EXCEPT !.keep = FALSE]) /\ UNCHANGED wrote
       \/ open /\ Quiet([flags EXCEPT !.started = TRUE, !.completed = TRUE]) /\ wrote' = wrote + 1
       \/ Drop([flags EXCEPT !.started = TRUE], "write") /\ wrote' = wrote + 1
    /\ UNCHANGED <<n, peer, buffer, ahead, eofSeen, dogs, overdue, tool>>

\* stop_read_ahead: emit the cancellation, then wait until the read-ahead is done.
StopReadAhead == /\ at = "stop"
                 /\ \/ ahead = "reading" /\ ahead' = "stopping" /\ UNCHANGED at
                    \/ ahead \in {"none", "done"} /\ ahead' = "none" /\ at' = "failing"
                 /\ UNCHANGED <<n, flags, open, cause, peer, buffer, eofSeen, dogs, overdue, tool, wrote, cancelled>>
\* Cancel the watchdog (an expired one stays queued), then send the failure.
FailureReply == flags.failure /\ ~flags.started /\ open
ReplyFailure ==
    /\ at = "failing" /\ at' = "finish"
    /\ dogs' = [r \in {q \in DOMAIN dogs : dogs[q] = "due"} |-> dogs[r]]
    /\ IF FailureReply
       THEN /\ wrote' = wrote + 1
            /\ flags' \in {[flags EXCEPT !.started = TRUE, !.completed = TRUE],
                           [flags EXCEPT !.started = TRUE, !.disconnected = TRUE]}
       ELSE UNCHANGED <<wrote, flags>>
    /\ UNCHANGED <<n, open, cause, peer, buffer, ahead, eofSeen, overdue, tool, cancelled>>
\* The end of the loop's body: the next request, or close().
Reuse == flags.completed /\ flags.keep /\ ~flags.disconnected /\ n < MaxRequests
Finish ==
    /\ at = "finish"
    /\ cancelled' = cancelled \union {n}
    /\ tool' = "none"
    /\ IF Reuse /\ open THEN at' = "idle" /\ n' = n + 1 /\ flags' = Fresh /\ UNCHANGED open
       ELSE at' = "closed" /\ open' = FALSE /\ UNCHANGED <<n, flags>>
    /\ UNCHANGED <<cause, peer, buffer, ahead, eofSeen, dogs, overdue, wrote>>

\* monitor_disconnect.
AheadReads ==
    /\ ahead = "reading" /\ open
    /\ \/ /\ buffer = Buffer /\ Drop(flags, "overflow")
          /\ ahead' = "done" /\ UNCHANGED <<buffer, peer, eofSeen>>
       \/ /\ buffer < Buffer /\ peer.unread > 0
          /\ buffer' = buffer + 1 /\ peer' = [peer EXCEPT !.unread = @ - 1]
          /\ UNCHANGED <<ahead, eofSeen>> /\ Quiet(flags)
       \/ /\ buffer < Buffer /\ peer.unread = 0 /\ peer.gone
          /\ eofSeen' = TRUE /\ Drop(flags, "peer")
          /\ ahead' = "done" /\ UNCHANGED <<buffer, peer>>
    /\ UNCHANGED <<n, at, dogs, overdue, tool, wrote>>
\* The read completes although it was asked to stop: with input, with the end of the
\* stream, or aborted.
StoppedEof == Drop(flags, "peer")
AheadStops ==
    /\ ahead = "stopping" \/ (ahead = "reading" /\ ~open)
    /\ ahead' = "done"
    /\ \/ Quiet(flags) /\ UNCHANGED <<buffer, peer, eofSeen>>
       \/ /\ open /\ buffer < Buffer /\ peer.unread > 0
          /\ buffer' = buffer + 1 /\ peer' = [peer EXCEPT !.unread = @ - 1]
          /\ UNCHANGED eofSeen /\ Quiet(flags)
       \/ /\ open /\ buffer < Buffer /\ peer.unread = 0 /\ peer.gone
          /\ eofSeen' = TRUE /\ StoppedEof /\ UNCHANGED <<buffer, peer>>
    /\ UNCHANGED <<n, at, dogs, overdue, tool, wrote>>

\* The deadline passes; its handler runs later, unless it was cancelled before.
Expire(r) == /\ r \in DOMAIN dogs /\ dogs[r] = "armed"
             /\ dogs' = [dogs EXCEPT ![r] = "due"]
             /\ overdue' = overdue \union {r}
             /\ UNCHANGED <<n, at, flags, open, cause, peer, buffer, ahead, eofSeen, tool, wrote, cancelled>>
\* A mistaken form of Bites: the request the watchdog was armed for is not compared.
BitesAny(r) == at # "closed" /\ ~flags.completed
Bites(r) == at # "closed" /\ ~flags.completed /\ r = n
Watchdog(r) == /\ r \in DOMAIN dogs /\ dogs[r] = "due"
               /\ dogs' = [q \in DOMAIN dogs \ {r} |-> dogs[q]]
               /\ IF Bites(r) THEN Drop(flags, "deadline") ELSE Quiet(flags)
               /\ UNCHANGED <<n, at, peer, buffer, ahead, eofSeen, overdue, tool, wrote>>

SessionStep == \/ ReadRequest \/ Dispatch \/ Result \/ StartStream \/ Stream \/ Send
               \/ StopReadAhead \/ ReplyFailure \/ Finish
SessionNext == \/ PeerSends \/ PeerLeaves \/ SessionStep \/ IdleEnds \/ ToolEnds \/ AheadReads \/ AheadStops
               \/ \E r \in DOMAIN dogs : Expire(r) \/ Watchdog(r)

SessionSpec == SessionInit /\ [][SessionNext]_sessionVars

\* run, tool_response: a request is answered at most once, also when the stream, the
\* encoder or a budget fails after the response has started.
OneResponse == wrote <= 1
\* stop_read_ahead: the loop never reads the next request while the read-ahead of the
\* last one is still reading the same socket.
ReadersExclusive == at = "idle" => ahead = "none"
\* begin_response_budget: the watchdog of an earlier request, expired but not yet run
\* when it was cancelled, never closes the connection under a later one.
DeadlineIsOwn == cause = "deadline" => n \in overdue
\* monitor_disconnect: an end of stream that the read-ahead consumed is never left
\* unnoticed on a connection that waits for its next request.
NoStrandedSocket == at = "idle" => ~eofSeen
SessionSound == OneResponse /\ ReadersExclusive /\ DeadlineIsOwn /\ NoStrandedSocket
\* Every request that was read is finished, and its token cancelled, provided the tool
\* calls end.
RequestEnds == at \notin {"idle", "closed"} ~> at \in {"idle", "closed"}
SessionFairness == WF_sessionVars(SessionStep) /\ WF_sessionVars(ToolEnds) /\ WF_sessionVars(AheadStops)

-------------------------------------------------------------------------------
(*****************************************************************************)
(* The HTTP listener (HttpServer::Impl of server.cpp) with the registry of   *)
(* active requests (RequestRegistry of gateway.cpp): connections are         *)
(* accepted up to a limit, each works on requests that a notification on     *)
(* another connection can cancel by name, and stop() ends them all while the *)
(* acceptor may be handing over one more.                                    *)
(*                                                                           *)
(* Two I/O threads run the acceptor and the stop handler, so their steps     *)
(* interleave; the steps of one connection are serialised by its strand.     *)
(*****************************************************************************)
CONSTANTS Connections, Limit, Ids, MaxCalls, NoId

VARIABLES stopped,    \* stopped
          stopping,   \* the handler stop() posts: "none", "posted" or "done"
          listening,  \* the acceptor's loop has not ended
          accepted,   \* sockets accept() returned that are not in the session map yet
          sessions,   \* the session map
          session,    \* each connection's loop
          closing,    \* connections on whose strand the handler dispatched close(true)
          token,      \* "fresh" or "cancelled" for the connection's current request
          registry,   \* entries_: the registered requests
          calls       \* requests started so far

serverVars == <<stopped, stopping, listening, accepted, sessions, session, closing, token, registry, calls>>

ServerInit == /\ stopped = FALSE /\ stopping = "none" /\ listening = TRUE
              /\ accepted = {} /\ sessions = {} /\ closing = {} /\ calls = 0
              /\ session = [c \in Connections |-> "none"]
              /\ token = [c \in Connections |-> "fresh"]
              /\ registry = [c \in Connections |-> NoId]

Accepted(c) == /\ listening /\ session[c] = "none" /\ accepted = {}
               /\ accepted' = {c}
               /\ UNCHANGED <<stopped, stopping, listening, sessions, session, closing, token, registry, calls>>
\* Under sessions_mutex: the limit, then the insertion.
AcceptAdmits(c) == Cardinality(sessions) < Limit
Insert(c) == /\ c \in accepted
             /\ accepted' = {}
             /\ IF AcceptAdmits(c)
                THEN sessions' = sessions \union {c} /\ session' = [session EXCEPT ![c] = "spawned"]
                ELSE session' = [session EXCEPT ![c] = "gone"] /\ UNCHANGED sessions
             /\ UNCHANGED <<stopped, stopping, listening, closing, token, registry, calls>>
\* accept() ends when the listener is cancelled or at its test of stopped.
AcceptorEnds == /\ listening /\ accepted = {} /\ stopped
                /\ listening' = FALSE
                /\ UNCHANGED <<stopped, stopping, accepted, sessions, session, closing, token, registry, calls>>

\* run: the loop's condition with the reset of the request's state.
KeepsRunning(c) == ~stopped
Loop(c) == /\ session[c] = "spawned" \/ session[c] = "between"
           /\ IF KeepsRunning(c)
              THEN session' = [session EXCEPT ![c] = "reading"] /\ token' = [token EXCEPT ![c] = "fresh"]
              ELSE session' = [session EXCEPT ![c] = "closed"] /\ token' = [token EXCEPT ![c] = "cancelled"]
           /\ UNCHANGED <<stopped, stopping, listening, accepted, sessions, closing, registry, calls>>
\* A tool call: register_request, the backend's work, the end of its Guard.
StartCall(c, id) == /\ session[c] = "reading" /\ calls < MaxCalls
                    /\ calls' = calls + 1
                    /\ session' = [session EXCEPT ![c] = "working"]
                    /\ registry' = [registry EXCEPT ![c] = id]
                    /\ UNCHANGED <<stopped, stopping, listening, accepted, sessions, closing, token>>
EndCall(c) == /\ session[c] = "working"
              /\ registry' = [registry EXCEPT ![c] = NoId]
              /\ session' = [session EXCEPT ![c] = "between"]
              /\ UNCHANGED <<stopped, stopping, listening, accepted, sessions, closing, token, calls>>
\* The peer leaves, or the handler's close(true) runs on the strand.
CloseSession(c) == /\ session[c] = "reading"
                   /\ session' = [session EXCEPT ![c] = "closed"]
                   /\ token' = [token EXCEPT ![c] = "cancelled"]
                   /\ UNCHANGED <<stopped, stopping, listening, accepted, sessions, closing, registry, calls>>
RunClose(c) == /\ c \in closing
               /\ closing' = closing \ {c}
               /\ token' = [token EXCEPT ![c] = "cancelled"]
               /\ session' = [session EXCEPT ![c] = IF @ = "reading" THEN "closed" ELSE @]
               /\ UNCHANGED <<stopped, stopping, listening, accepted, sessions, registry, calls>>
\* ~Session, once nothing refers to it.
Destroy(c) == /\ session[c] = "closed" /\ c \notin closing
              /\ sessions' = sessions \ {c}
              /\ session' = [session EXCEPT ![c] = "gone"]
              /\ UNCHANGED <<stopped, stopping, listening, accepted, closing, token, registry, calls>>

\* RequestRegistry::cancel for a notification that names id.
CancelNamed(id) == /\ \E c \in Connections : registry[c] = id /\ token[c] = "fresh"
                   /\ token' = [c \in Connections |-> IF registry[c] = id THEN "cancelled" ELSE token[c]]
                   /\ UNCHANGED <<stopped, stopping, listening, accepted, sessions, session, closing, registry, calls>>

\* stop(): cancel_all, then the posted handler.
StopServer == /\ ~stopped
              /\ stopped' = TRUE /\ stopping' = "posted"
              /\ token' = [c \in Connections |-> IF registry[c] # NoId THEN "cancelled" ELSE token[c]]
              /\ UNCHANGED <<listening, accepted, sessions, session, closing, registry, calls>>
StopHandler == /\ stopping = "posted"
               /\ stopping' = "done"
               /\ closing' = {c \in sessions : session[c] # "gone"}
               /\ UNCHANGED <<stopped, listening, accepted, sessions, session, token, registry, calls>>

Internal(c) == Insert(c) \/ Loop(c) \/ EndCall(c) \/ RunClose(c) \/ Destroy(c)
ServerNext == \/ AcceptorEnds \/ StopServer \/ StopHandler
              \/ \E c \in Connections : Accepted(c) \/ Internal(c) \/ CloseSession(c) \/ (\E id \in Ids : StartCall(c, id))
              \/ \E id \in Ids : CancelNamed(id)

ServerSpec == ServerInit /\ [][ServerNext]_serverVars

\* accept, ~Session: never more connections than the limit.
SessionsBounded == Cardinality(sessions) <= Limit
\* stop: once its handler ran, every request still worked on has been cancelled, or the
\* close that cancels it is queued, also for a connection accepted at the same moment.
StopReachesAll == stopping = "done" =>
    \A c \in Connections : session[c] \in {"reading", "working"} => token[c] = "cancelled" \/ c \in closing
ServerSound == SessionsBounded /\ StopReachesAll
\* stop joins its threads: every connection ends after stop(), provided cancelled tool
\* calls end.
StopEnds == stopped ~> (~listening /\ sessions = {} /\ \A c \in Connections : registry[c] = NoId)
ServerFairness == /\ WF_serverVars(AcceptorEnds) /\ WF_serverVars(StopHandler)
                  /\ \A c \in Connections : WF_serverVars(Internal(c))

\* The frontend as a whole: a request is answered once, by its own handler and within its
\* own deadline, the two readers of a socket never overlap, the connections keep to the
\* limit and a stop reaches all of them.
OneResponseEach == SessionSound /\ ServerSound
===============================================================================
