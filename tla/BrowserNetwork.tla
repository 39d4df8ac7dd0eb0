---------------------------- MODULE BrowserNetwork ----------------------------
(*****************************************************************************)
(* What connects the service with its browser and the browser with the       *)
(* world: the protocol connection to the page and the proxy its traffic goes *)
(* through. They share no state.                                             *)
(*****************************************************************************)
EXTENDS Naturals, Sequences, FiniteSets

-------------------------------------------------------------------------------
(*****************************************************************************)
(* The DevTools connection (browser_protocol.cpp) and the resource           *)
(* interception above it (drain_resources and the event handler of           *)
(* browser.cpp). A call writes its command and reads messages until its      *)
(* reply is there; an event that arrives meanwhile runs the handler, which   *)
(* acknowledges paused requests with a batch of its own: a nested reading    *)
(* loop on the same socket. The renderer answers a command only when no      *)
(* request it needs is paused.                                               *)
(*****************************************************************************)
CONSTANTS Requests,      \* requests the page makes
          MaxCommands,   \* calls of the session
          BatchLimit,    \* acknowledgements of one batch
          DrainLimit,    \* acknowledgements of one drain
          QueueLimit     \* intercepted requests that may wait
ASSUME WireConstants == /\ BatchLimit \in Nat \ {0} /\ DrainLimit \in Nat \ {0}
                        /\ "command" \notin Requests

VARIABLES stack,      \* the batches that are being read, outermost first
          sequence,   \* ids given out
          active,     \* active
          replies,    \* replies received and not collected
          channel,    \* messages on their way to the client
          pending,    \* commands the browser has not answered
          paused,     \* requests the renderer waits for
          fresh,      \* requests the page has not made yet
          intercepted,\* intercepted_resources
          draining,   \* draining_resources
          processed,  \* acknowledgements of this drain
          acked,      \* acknowledgements the browser got, per request
          connected, finished

protocolVars == <<stack, sequence, active, replies, channel, pending, paused, fresh, intercepted,
                  draining, processed, acked, connected, finished>>

WireInit == /\ stack = <<>> /\ sequence = 0 /\ active = {} /\ replies = {} /\ channel = <<>>
            /\ pending = {} /\ paused = {} /\ fresh = Requests /\ intercepted = <<>> /\ draining = FALSE
            /\ processed = 0 /\ acked = [r \in Requests |-> 0] /\ connected = TRUE /\ finished = 0

Top == stack[Len(stack)]
Min2(a, b) == IF a < b THEN a ELSE b

\* batch: the ids are active before the commands are written.
Batch(frames, held, acks) ==
    LET count == IF acks = <<>> THEN 1 ELSE Len(acks)
        ids == sequence + 1 .. sequence + count
    IN /\ sequence' = sequence + count /\ active' = held \union ids
       /\ stack' = Append(frames, [first |-> sequence + 1, count |-> count, got |-> 0, drain |-> acks # <<>>])
       /\ pending' = pending \union
             {[id |-> i, ack |-> IF acks = <<>> THEN "command" ELSE acks[i - sequence]] : i \in ids}
\* The connection is closed and the stack of calls unwinds.
Closed == /\ connected' = FALSE /\ stack' = <<>> /\ active' = {} /\ replies' = {} /\ draining' = FALSE
          /\ finished' = IF stack = <<>> THEN finished ELSE finished + 1

Call == /\ connected /\ stack = <<>> /\ finished < MaxCommands
        /\ Batch(<<>>, {}, <<>>)
        /\ UNCHANGED <<replies, channel, paused, fresh, intercepted, draining, processed, acked, connected, finished>>

\* drain_resources: one batch after another until nothing is queued.
Drain(frames, held, waiting, done) ==
    LET take == Min2(Min2(Len(waiting), BatchLimit), DrainLimit - done)
    IN /\ intercepted' = SubSeq(waiting, take + 1, Len(waiting))
       /\ processed' = done + take /\ draining' = TRUE
       /\ Batch(frames, held, SubSeq(waiting, 1, take))

Enters == ~draining
\* One message: a reply is stored for the batch it belongs to, an event runs the handler.
Receive ==
    /\ connected /\ stack # <<>> /\ channel # <<>>
    /\ Top.first + Top.got \notin replies
    /\ channel' = Tail(channel)
    /\ LET m == Head(channel)
       IN IF m.kind = "reply"
          THEN /\ IF m.id \in active /\ m.id \notin replies
                  THEN replies' = replies \union {m.id} /\ UNCHANGED <<stack, active, draining, connected, finished>>
                  ELSE Closed
               /\ UNCHANGED <<sequence, pending, intercepted, processed>>
          ELSE IF Len(intercepted) >= QueueLimit
          THEN Closed /\ UNCHANGED <<sequence, pending, intercepted, processed>>
          ELSE IF Enters
          THEN Drain(stack, active, Append(intercepted, m.request), 0) /\ UNCHANGED <<replies, connected, finished>>
          ELSE /\ intercepted' = Append(intercepted, m.request)
               /\ UNCHANGED <<stack, sequence, active, replies, pending, draining, processed, connected, finished>>
    /\ UNCHANGED <<paused, fresh, acked>>
\* A mistaken form of Collect: one batch is a whole drain, and the flag stays set.
CollectOnce ==
    /\ connected /\ stack # <<>>
    /\ LET id == Top.first + Top.got
           last == Top.got + 1 = Top.count
       IN /\ id \in replies /\ replies' = replies \ {id} /\ active' = active \ {id}
          /\ stack' = IF last THEN SubSeq(stack, 1, Len(stack) - 1) ELSE [stack EXCEPT ![Len(stack)].got = @ + 1]
          /\ finished' = IF last /\ ~Top.drain THEN finished + 1 ELSE finished
    /\ UNCHANGED <<connected, sequence, pending, intercepted, draining, processed, channel, paused, fresh, acked>>
\* The next reply of the innermost batch; its last one ends the batch.
Collect ==
    /\ connected /\ stack # <<>>
    /\ LET id == Top.first + Top.got
           rest == SubSeq(stack, 1, Len(stack) - 1)
           last == Top.got + 1 = Top.count
       IN /\ id \in replies
          /\ IF last /\ Top.drain /\ intercepted # <<>> /\ processed >= DrainLimit
             THEN Closed /\ UNCHANGED <<sequence, pending, intercepted, processed>>
             ELSE /\ replies' = replies \ {id}
                  /\ UNCHANGED connected
                  /\ IF last /\ Top.drain /\ intercepted # <<>>
                     THEN Drain(rest, active \ {id}, intercepted, processed) /\ UNCHANGED finished
                     ELSE /\ stack' = IF last THEN rest ELSE [stack EXCEPT ![Len(stack)].got = @ + 1]
                          /\ active' = active \ {id}
                          /\ draining' = (draining /\ ~(last /\ Top.drain))
                          /\ finished' = IF last /\ ~Top.drain THEN finished + 1 ELSE finished
                          /\ UNCHANGED <<sequence, pending, intercepted, processed>>
    /\ UNCHANGED <<channel, paused, fresh, acked>>
\* operation: the deadline or the cancellation closes the socket.
Interrupt == /\ connected /\ stack # <<>> /\ Closed
           /\ UNCHANGED <<sequence, channel, pending, paused, fresh, intercepted, processed, acked>>

\* The browser: a request is paused; a command is answered; a request is gone by itself.
Pause(r) == /\ r \in fresh /\ fresh' = fresh \ {r} /\ paused' = paused \union {r}
            /\ channel' = Append(channel, [kind |-> "event", request |-> r])
            /\ UNCHANGED <<stack, sequence, active, replies, pending, intercepted, draining, processed, acked, connected, finished>>
Answer(c) == /\ c \in pending /\ pending' = pending \ {c}
             /\ c.ack = "command" => paused = {}
             /\ channel' = Append(channel, [kind |-> "reply", id |-> c.id])
             /\ paused' = paused \ {c.ack}
             /\ acked' = IF c.ack = "command" THEN acked ELSE [acked EXCEPT ![c.ack] = @ + 1]
             /\ UNCHANGED <<stack, sequence, active, replies, fresh, intercepted, draining, processed, connected, finished>>

WireNext == \/ Call \/ Receive \/ Collect \/ Interrupt
            \/ \E r \in Requests : Pause(r)
            \/ \E c \in pending : Answer(c)

\* Handlers never nest: at most the call and one batch of acknowledgements read the socket.
DepthBounded == Len(stack) <= 2 /\ Cardinality(active) <= 1 + BatchLimit
\* A paused request is acknowledged at most once although batches interleave with events.
AckedOnce == \A r \in Requests : acked[r] <= 1
\* Between two calls nothing is left over: no queued request, no uncollected reply, no id in
\* use, and the flag that forbids draining is off.
NothingLeftOver == stack = <<>> /\ connected => intercepted = <<>> /\ replies = {} /\ active = {} /\ ~draining
\* A call completes although its reply waits for the requests that are paused during it.
CallCompletes == (stack # <<>>) ~> (stack = <<>>)
ProtocolFairness == /\ WF_protocolVars(Receive) /\ WF_protocolVars(Collect)
                    /\ WF_protocolVars(\E c \in pending : Answer(c))

-------------------------------------------------------------------------------
(*****************************************************************************)
(* The filtering proxy of a browser session (browser_proxy.cpp). One thread  *)
(* runs every connection's coroutine, its one or two pumps and its deadline; *)
(* a connection object lives until the last of them lets go of it, and only  *)
(* then gives its place back.                                                *)
(*****************************************************************************)
CONSTANTS Connections, ConnectionLimit, ByteLimit
ASSUME ProxyConstants == IsFiniteSet(Connections) /\ ConnectionLimit \in Nat /\ ByteLimit \in Nat

VARIABLES conn,        \* each connection: where run() is, its pumps, its deadline, its sockets
          live,        \* active
          bytes,       \* bytes
          forwarded,   \* chunks written to a peer
          refusals     \* denied

proxyVars == <<conn, live, bytes, forwarded, refusals>>

ProxyInit == /\ conn = [c \in Connections |-> [at |-> "none", pumps |-> {}, timer |-> FALSE, open |-> FALSE]]
             /\ live = 0 /\ bytes = 0 /\ forwarded = 0 /\ refusals = 0

\* The accept loop; run() sets the deadline before it reads.
Admits == live < ConnectionLimit /\ bytes < ByteLimit
Accept(c) ==
    /\ conn[c].at = "none"
    /\ IF Admits
       THEN /\ conn' = [conn EXCEPT ![c] = [at |-> "head", pumps |-> {}, timer |-> TRUE, open |-> TRUE]]
            /\ live' = live + 1 /\ UNCHANGED refusals
       ELSE /\ conn' = [conn EXCEPT ![c].at = "gone"] /\ refusals' = refusals + 1 /\ UNCHANGED live
    /\ UNCHANGED <<bytes, forwarded>>

\* close(): the sockets and the deadline, once.
Shut(k) == [k EXCEPT !.open = FALSE, !.timer = FALSE]
Deny(c) == /\ conn' = [conn EXCEPT ![c] = [Shut(conn[c]) EXCEPT !.at = "over"]]
           /\ refusals' = refusals + 1
           /\ UNCHANGED <<live, forwarded>>
\* run(): the request, the resolved addresses and the connected peer are each judged.
Proceed(c) ==
    /\ conn[c].at \in {"head", "resolve", "connect"}
    /\ \/ Deny(c) /\ UNCHANGED bytes
       \/ /\ conn[c].open /\ conn[c].at \in {"head", "resolve"}
          /\ conn' = [conn EXCEPT ![c].at = IF @ = "head" THEN "resolve" ELSE "connect"]
          /\ UNCHANGED <<live, bytes, forwarded, refusals>>
       \/ /\ conn[c].open /\ conn[c].at = "connect"    \* a tunnel: run() itself is one pump
          /\ conn' = [conn EXCEPT ![c].at = "over", ![c].pumps = {"down", "up"}]
          /\ UNCHANGED <<live, bytes, forwarded, refusals>>
       \/ /\ conn[c].open /\ conn[c].at = "connect"    \* a plain request: its body is counted
          /\ bytes' = bytes + 1
          /\ IF bytes + 1 > ByteLimit THEN Deny(c)
             ELSE /\ conn' = [conn EXCEPT ![c].at = "over", ![c].pumps = {"down"}]
                  /\ forwarded' = forwarded + 1 /\ UNCHANGED <<live, refusals>>
\* copy(): a chunk is counted before it is written; the end of a pump closes both sockets.
Counts(c, p) == bytes + 1 <= ByteLimit
Pump(c, p) ==
    /\ p \in conn[c].pumps
    /\ \/ /\ conn[c].open
          /\ bytes' = bytes + 1
          /\ IF Counts(c, p) THEN forwarded' = forwarded + 1 /\ UNCHANGED conn
             ELSE conn' = [conn EXCEPT ![c] = [Shut(conn[c]) EXCEPT !.pumps = @ \ {p}]] /\ UNCHANGED forwarded
       \/ /\ conn' = [conn EXCEPT ![c] = [Shut(conn[c]) EXCEPT !.pumps = @ \ {p}]]
          /\ UNCHANGED <<bytes, forwarded>>
    /\ UNCHANGED <<live, refusals>>
Overdue(c) == /\ conn[c].timer
              /\ conn' = [conn EXCEPT ![c] = Shut(conn[c])]
              /\ UNCHANGED <<live, bytes, forwarded, refusals>>
\* ~Connection, when nothing refers to it any more.
Destroy(c) == /\ conn[c].at = "over" /\ conn[c].pumps = {} /\ ~conn[c].timer
              /\ conn' = [conn EXCEPT ![c].at = "gone"] /\ live' = live - 1
              /\ UNCHANGED <<bytes, forwarded, refusals>>

ProxyNext == \E c \in Connections : \/ Accept(c) \/ Proceed(c) \/ Overdue(c) \/ Destroy(c)
                                    \/ \E p \in {"down", "up"} : Pump(c, p)

\* The counter that admits connections is the number of connection objects that exist.
PlacesExact == /\ live = Cardinality({c \in Connections : conn[c].at \notin {"none", "gone"}})
               /\ live <= ConnectionLimit
\* What is forwarded stays within the session's byte budget although all connections share it.
ForwardedWithinBudget == forwarded <= ByteLimit
\* Every admitted connection gives its place back, also one whose peers stay silent.
PlaceReturned == \A c \in Connections : (conn[c].at = "head") ~> (conn[c].at = "gone")
ProxyFairness == \A c \in Connections :
    /\ WF_proxyVars(Overdue(c)) /\ WF_proxyVars(Destroy(c))
    /\ WF_proxyVars(~conn[c].open /\ Proceed(c))
    /\ \A p \in {"down", "up"} : WF_proxyVars(~conn[c].open /\ Pump(c, p))

-------------------------------------------------------------------------------
\* The connection and the proxy move independently.
NetworkInit == WireInit /\ ProxyInit
NetworkNext == \/ WireNext /\ UNCHANGED proxyVars
               \/ ProxyNext /\ UNCHANGED protocolVars
NetworkSpec == NetworkInit /\ [][NetworkNext]_<<protocolVars, proxyVars>>

\* The browser's connections: reading loops nest no deeper than a call and one batch of
\* acknowledgements, a paused request is acknowledged at most once, and nothing is left over
\* when a call returns; the proxy counts the places of its connections exactly and forwards
\* no more than its budget.
NetworkSound == /\ DepthBounded /\ AckedOnce /\ NothingLeftOver
                /\ PlacesExact /\ ForwardedWithinBudget
===============================================================================
