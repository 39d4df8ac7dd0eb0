--------------------------- MODULE StateTransport ----------------------------
(***************************************************************************)
(* The pool of idle HTTP handles one StateClient shares between its        *)
(* threads (cpp-mcp/src/state_transport.cpp), with the retry of            *)
(* StateClient::rpc that retires it (state_coordinator.cpp).  The pool     *)
(* mutex makes each block that holds it one action; the transfer and the   *)
(* verification of its reply run outside it.                               *)
(***************************************************************************)
EXTENDS Integers, FiniteSets

CONSTANTS
    Threads,   \* threads that share the client
    Peers,     \* coordinator processes (port, generation, instance, pid)
    Handles,   \* HTTP handles, each with at most one connection
    PoolSize,  \* size of the array of idle handles: 4
    MaxEpoch,  \* bound on the pool epoch
    None

VARIABLES
    idle,     \* the array of idle handles, None for an empty slot
    peer,     \* Pool::peer
    epoch,    \* Pool::epoch
    pc,       \* ready, transfer, reply or failed
    attempt,  \* the Attempt of each thread
    origin    \* of each handle: the peer and pool epoch its connection was opened for,
              \* and whether the reply of its last transfer was verified

poolVars == <<idle, peer, epoch, pc, attempt, origin>>

Slots == 1 .. PoolSize
Empty == [s \in Slots |-> None]
NoAttempt == [handle |-> None, peer |-> None, epoch |-> 0, ok |-> FALSE, accepted |-> FALSE]

NoOrigin == [peer |-> None, epoch |-> 0, proven |-> FALSE]

InUse == {idle[s] : s \in Slots} \cup {attempt[t].handle : t \in Threads}

\* What is known of the handles after a step; of one that was closed, nothing.
OriginsFollow(known) == origin' = [h \in Handles |-> IF h \in InUse' THEN known[h] ELSE NoOrigin]

\* curl_easy_init: any handle that is not in use.
Fresh == CHOOSE h \in Handles : h \notin InUse

\* post: the handles that stay idle when the pool is asked for peer p.
StillIdle(p) == IF p = peer THEN idle ELSE Empty

\* post: the first idle handle is borrowed, and a new one made only if there is none.
Borrow(t, p, kept, h) ==
    /\ \/ \E s \in Slots :
            /\ h = kept[s] /\ h # None /\ \A x \in 1 .. s - 1 : kept[x] = None
            /\ idle' = [kept EXCEPT ![s] = None]
       \/ kept = Empty /\ h = Fresh /\ h \notin InUse /\ idle' = kept
    /\ attempt' = [attempt EXCEPT ![t] =
            [handle |-> h, peer |-> p, epoch |-> epoch', ok |-> FALSE, accepted |-> FALSE]]
    /\ OriginsFollow(IF kept = Empty
                     THEN [origin EXCEPT ![h] = [peer |-> p, epoch |-> epoch', proven |-> FALSE]]
                     ELSE [origin EXCEPT ![h].proven = FALSE])

\* post, up to the transfer: a change of peer starts a new epoch.
Post(t, p) ==
    /\ pc[t] = "ready"
    /\ IF p = peer THEN UNCHANGED <<peer, epoch>>
                   ELSE epoch < MaxEpoch /\ peer' = p /\ epoch' = epoch + 1
    /\ \E h \in Handles : Borrow(t, p, StillIdle(p), h)
    /\ pc' = [pc EXCEPT ![t] = "transfer"]

\* The transfer ends with an HTTP status.
Reply(t, ok) ==
    /\ pc[t] = "transfer"
    /\ attempt' = [attempt EXCEPT ![t].ok = ok]
    /\ pc' = [pc EXCEPT ![t] = "reply"]
    /\ UNCHANGED <<idle, peer, epoch, origin>>

\* exchange verifies nonce, generation and MAC, opens the reply, and says so.
Verified(t) ==
    /\ pc[t] = "reply" /\ attempt[t].ok /\ ~attempt[t].accepted
    /\ attempt' = [attempt EXCEPT ![t].accepted = TRUE]
    /\ origin' = [origin EXCEPT ![attempt[t].handle].proven = TRUE]
    /\ UNCHANGED <<idle, peer, epoch, pc>>

\* Mutant: only the peer is compared, so an attempt from before a retry may return.
ReturnsToPeer(a) == a.accepted /\ a.ok /\ a.peer = peer

Returns(a) == a.accepted /\ a.ok /\ a.epoch = epoch /\ a.peer = peer

\* The handle moves into the first free slot, and is closed if there is none.
Store(h) ==
    IF \E s \in Slots : idle[s] = None
    THEN \E s \in Slots : /\ idle[s] = None /\ \A x \in 1 .. s - 1 : idle[x] # None
                          /\ idle' = [idle EXCEPT ![s] = h]
    ELSE UNCHANGED idle

\* ~Attempt: the handle goes back to the pool or is closed; rpc then returns or, after
\* an exception or an IPC error in a verified reply, enters its handler.
Finish(t) ==
    /\ pc[t] \in {"transfer", "reply"}
    /\ IF Returns(attempt[t]) THEN Store(attempt[t].handle) ELSE UNCHANGED idle
    /\ attempt' = [attempt EXCEPT ![t] = NoAttempt]
    /\ \E next \in {"ready", "failed"} :
        /\ next = "ready" => attempt[t].accepted
        /\ pc' = [pc EXCEPT ![t] = next]
    /\ OriginsFollow(origin)
    /\ UNCHANGED <<peer, epoch>>

\* discard_idle, before the second attempt of rpc.
DiscardIdle(t) ==
    /\ pc[t] = "failed" /\ epoch < MaxEpoch
    /\ idle' = Empty
    /\ epoch' = epoch + 1
    /\ pc' = [pc EXCEPT ![t] = "ready"]
    /\ UNCHANGED <<peer, attempt>>
    /\ OriginsFollow(origin)

\* The second attempt failed too: rpc throws.
GiveUp(t) ==
    /\ pc[t] = "failed"
    /\ pc' = [pc EXCEPT ![t] = "ready"]
    /\ UNCHANGED <<idle, peer, epoch, attempt, origin>>

PoolInit ==
    /\ idle = Empty
    /\ peer = None
    /\ epoch = 0
    /\ pc = [t \in Threads |-> "ready"]
    /\ attempt = [t \in Threads |-> NoAttempt]
    /\ origin = [h \in Handles |-> NoOrigin]

PoolNext ==
    \E t \in Threads :
        \/ \E p \in Peers : Post(t, p)
        \/ \E ok \in BOOLEAN : Reply(t, ok)
        \/ Verified(t) \/ Finish(t) \/ DiscardIdle(t) \/ GiveUp(t)

PoolSpec == PoolInit /\ [][PoolNext]_poolVars
------------------------------------------------------------------------------
\* A borrowed handle has one owner: no handle is idle twice, borrowed twice, or idle
\* while a transfer uses it.
ExclusiveHandles ==
    /\ \A s, x \in Slots : s # x /\ idle[s] # None => idle[s] # idle[x]
    /\ \A t, u \in Threads : t # u /\ attempt[t].handle # None => attempt[t].handle # attempt[u].handle
    /\ \A s \in Slots, t \in Threads : idle[s] # None => idle[s] # attempt[t].handle

\* An idle connection belongs to the current peer and was opened since the last retry
\* or change of peer: an attempt that was in flight then cannot repopulate the pool,
\* even when the pool has since returned to its peer.
IdleCurrent ==
    \A s \in Slots : idle[s] # None => origin[idle[s]].peer = peer /\ origin[idle[s]].epoch = epoch

\* A connection is idle only if the reply of its last transfer was verified.
IdleVerified == \A s \in Slots : idle[s] # None => origin[idle[s]].proven

\* The connections of a client (~Attempt and post): a handle has one user at a time, and an
\* idle one is a verified connection to the current peer.
ConnectionsSound == ExclusiveHandles /\ IdleCurrent /\ IdleVerified
=============================================================================
