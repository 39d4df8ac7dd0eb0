---------------------------- MODULE RequestNonces ----------------------------
(***************************************************************************)
(* The replay window of the state coordinator (Coordinator::handle in      *)
(* cpp-mcp/src/state_coordinator.cpp).  A request carries a nonce and the  *)
(* monotonic time its sender read.  The coordinator remembers a nonce for  *)
(* Retention after it was received, and forgets it so that the set stays   *)
(* bounded; a request that is delivered again must then be too old to be   *)
(* accepted.  Times are in seconds; the code counts milliseconds.          *)
(***************************************************************************)
EXTENDS Integers, Sequences, FiniteSets

CONSTANTS
    Requests,   \* requests, each with a nonce of its own
    Window,     \* how long after its stamp a request is accepted: 30
    Skew,       \* how far ahead of the coordinator's clock a stamp may be: 1
    Retention,  \* how long a nonce is remembered: 31
    Capacity,   \* nonces remembered at most: 16384
    MaxTime     \* bound on the clock

ASSUME NonceConstants ==
    /\ Window \in Nat /\ Skew \in Nat /\ Capacity \in Nat /\ MaxTime \in Nat
    /\ Retention = Window + Skew

VARIABLES
    now,          \* monotonic_ms of the coordinator
    stamp,        \* issued_steady_ms of each request, -1 before it is sent
    nonces,       \* nonces_
    expirations,  \* expirations_: records of a nonce and the time it expires
    dispatched    \* history: how often each request was dispatched

vars == <<now, stamp, nonces, expirations, dispatched>>

Tick ==
    /\ now < MaxTime
    /\ now' = now + 1
    /\ UNCHANGED <<stamp, nonces, expirations, dispatched>>

\* exchange: a client stamps a request with its own clock, which may run ahead.
Stamp(r) ==
    /\ stamp[r] = -1
    /\ \E t \in 0 .. now + Skew + 1 : stamp' = [stamp EXCEPT ![r] = t]
    /\ UNCHANGED <<now, nonces, expirations, dispatched>>

\* The first n entries of the queue are the ones the purging loop drops.
Expired(n) ==
    /\ \A j \in 1 .. n : expirations[j].at < now
    /\ n < Len(expirations) => expirations[n + 1].at >= now

\* The nonces and the queue without those entries.
Kept(n) == nonces \ {expirations[j].nonce : j \in 1 .. n}
Queue(n) == SubSeq(expirations, n + 1, Len(expirations))

Acceptable(r, n) ==
    /\ stamp[r] <= now + Skew
    /\ now <= stamp[r] + Window
    /\ Cardinality(Kept(n)) < Capacity
    /\ r \notin Kept(n)

\* Mutant: a nonce is remembered only for as long as a punctual request is accepted.
RememberBriefly(r, n) ==
    /\ nonces' = Kept(n) \cup {r}
    /\ expirations' = Append(Queue(n), [nonce |-> r, at |-> now + Window])

Remember(r, n) ==
    /\ nonces' = Kept(n) \cup {r}
    /\ expirations' = Append(Queue(n), [nonce |-> r, at |-> now + Retention])

\* A request arrives, for the first time or again: expired nonces are dropped, and
\* the request is dispatched or rejected.
Handle(r) ==
    /\ stamp[r] # -1
    /\ \E n \in 0 .. Len(expirations) :
        /\ Expired(n)
        /\ IF Acceptable(r, n)
           THEN Remember(r, n) /\ dispatched' = [dispatched EXCEPT ![r] = @ + 1]
           ELSE nonces' = Kept(n) /\ expirations' = Queue(n) /\ UNCHANGED dispatched
    /\ UNCHANGED <<now, stamp>>

Init ==
    /\ now = 0
    /\ stamp = [r \in Requests |-> -1]
    /\ nonces = {}
    /\ expirations = << >>
    /\ dispatched = [r \in Requests |-> 0]

Next == Tick \/ \E r \in Requests : Stamp(r) \/ Handle(r)

Spec == Init /\ [][Next]_vars
------------------------------------------------------------------------------
\* No request is dispatched twice, however often and however late it is delivered:
\* a nonce is forgotten only when its request can no longer be accepted.
DispatchedOnce == \A r \in Requests : dispatched[r] <= 1

\* The set and the queue hold the same nonces, each once, and stay within the bound,
\* so that forgetting one never leaves the other behind.
QueueMatchesNonces ==
    /\ nonces = {expirations[j].nonce : j \in 1 .. Len(expirations)}
    /\ Cardinality(nonces) = Len(expirations)
    /\ Len(expirations) <= Capacity
=============================================================================
