--------------------------- MODULE ServicesProofs ----------------------------
(***************************************************************************)
(* Services of the server, which share no state.  At the coordinator no    *)
(* request is dispatched twice, whatever the window, the skew, the capacity *)
(* and the number of requests, because the retention of a nonce is the window *)
(* and the skew together.  At its client the connection pool is sound for  *)
(* every number of threads, peers, handles and slots.  The answers about a *)
(* task agree for any number of calls, and no accepted state of a record is *)
(* lost for any number of writers.  Cancellation runs a callback once for any *)
(* number of subscribers, and the worker pool resumes a caller once for any *)
(* number of tasks and workers.                                            *)
(***************************************************************************)
EXTENDS RequestNonces, StateTransport, Tasks, AsyncCore, TLAPS

(***************************************************************************)
(* RequestNonces                                                           *)
(***************************************************************************)

Entries == [nonce : Requests, at : Nat]

NonceType ==
    /\ now \in Nat
    /\ stamp \in [Requests -> Int]
    /\ nonces \subseteq Requests
    /\ expirations \in Seq(Entries)
    /\ dispatched \in [Requests -> Nat]

\* The entry of a nonce outlives the acceptance of its request.
Outlives(e) == stamp[e.nonce] # -1 /\ stamp[e.nonce] + Window <= e.at

\* A request that was dispatched is remembered or too old.
NonceInv ==
    /\ NonceType
    /\ \A j \in 1 .. Len(expirations) : Outlives(expirations[j])
    /\ \A r \in Requests :
        /\ dispatched[r] <= 1
        /\ dispatched[r] = 1 => stamp[r] # -1 /\ (r \in nonces \/ now > stamp[r] + Window)

\* Dropping a prefix of the queue keeps the entries after it.
LEMMA Dropped ==
    ASSUME NEW S, NEW s \in Seq(S), NEW n \in 0 .. Len(s)
    PROVE  /\ SubSeq(s, n + 1, Len(s)) \in Seq(S)
           /\ Len(SubSeq(s, n + 1, Len(s))) = Len(s) - n
           /\ \A j \in 1 .. Len(s) - n : SubSeq(s, n + 1, Len(s))[j] = s[n + j]
OBVIOUS

\* What is dropped from the set of nonces can no longer be accepted.
LEMMA DroppedTooOld ==
    ASSUME NonceInv, NEW n \in 0 .. Len(expirations), Expired(n), NEW r \in nonces \ Kept(n)
    PROVE  now > stamp[r] + Window
<1>1. PICK j \in 1 .. n : r = expirations[j].nonce
  BY Zenon DEF Kept
<1>2. j \in 1 .. Len(expirations) /\ expirations[j] \in Entries
  BY DEF NonceInv, NonceType
<1>3. /\ expirations[j].at < now /\ stamp[r] + Window <= expirations[j].at
      /\ expirations[j].at \in Nat /\ stamp[r] \in Int /\ now \in Nat /\ Window \in Nat
  BY <1>1, <1>2, NonceConstants, Zenon DEF NonceInv, NonceType, Outlives, Expired, Entries
<1> QED BY <1>3

\* Handling a request, with the expiry of old nonces first, keeps the nonce invariant.
LEMMA HandleNonceInv ==
    ASSUME NonceInv, NEW r \in Requests, Handle(r)
    PROVE  NonceInv'
<1>1. PICK n \in 0 .. Len(expirations) :
        /\ Expired(n)
        /\ IF Acceptable(r, n)
           THEN Remember(r, n) /\ dispatched' = [dispatched EXCEPT ![r] = @ + 1]
           ELSE nonces' = Kept(n) /\ expirations' = Queue(n) /\ UNCHANGED dispatched
  BY Zenon DEF Handle
<1>2. /\ now' = now /\ stamp' = stamp /\ stamp[r] # -1
      /\ now \in Nat /\ stamp[r] \in Int /\ Window \in Nat /\ Skew \in Nat /\ Retention = Window + Skew
  BY NonceConstants, Zenon DEF Handle, NonceInv, NonceType
<1>3. /\ Queue(n) \in Seq(Entries)
      /\ \A j \in 1 .. Len(Queue(n)) : Outlives(Queue(n)[j])
  <2>1. expirations \in Seq(Entries) /\ Len(expirations) \in Nat
    BY DEF NonceInv, NonceType
  <2>2. /\ Queue(n) \in Seq(Entries) /\ Len(Queue(n)) = Len(expirations) - n
        /\ \A j \in 1 .. Len(expirations) - n : Queue(n)[j] = expirations[n + j]
    BY <2>1, Dropped, Zenon DEF Queue
  <2>3. \A j \in 1 .. Len(expirations) - n : n + j \in 1 .. Len(expirations)
    BY <2>1
  <2> QED BY <2>2, <2>3, Zenon DEF NonceInv
<1>4. Kept(n) \subseteq nonces /\ nonces \subseteq Requests
  BY Zenon DEF Kept, NonceInv, NonceType
<1>5. \A q \in Requests : dispatched[q] = 1 => q \in Kept(n) \/ now > stamp[q] + Window
  BY <1>1, DroppedTooOld, Zenon DEF NonceInv
<1>6. CASE Acceptable(r, n)
  <2> DEFINE e == [nonce |-> r, at |-> now + Retention]
  <2>1. /\ nonces' = Kept(n) \cup {r} /\ expirations' = Append(Queue(n), e)
        /\ dispatched' = [dispatched EXCEPT ![r] = @ + 1]
    BY <1>1, <1>6, Zenon DEF Remember
  <2>2. stamp[r] <= now + Skew /\ now <= stamp[r] + Window /\ r \notin Kept(n)
    BY <1>6, Zenon DEF Acceptable
  <2>3. e \in Entries /\ e.nonce = r /\ e.at = now + Retention
    BY <1>2 DEF Entries
  <2>4. stamp[r] + Window <= now + Retention
    BY <1>2, <2>2
  <2>5. Outlives(e)
    BY <1>2, <2>3, <2>4, Zenon DEF Outlives
  <2> HIDE DEF e
  <2>6. dispatched[r] \in Nat /\ dispatched[r] <= 1 /\ dispatched[r] # 1
    <3>1. dispatched[r] # 1
      BY <1>2, <1>5, <2>2
    <3> QED BY <3>1, Zenon DEF NonceInv, NonceType
  <2>7. NonceType'
    BY <1>2, <1>3, <1>4, <2>1, <2>3 DEF NonceInv, NonceType
  <2>8. \A j \in 1 .. Len(expirations') : Outlives(expirations'[j])
    <3>1. /\ Len(expirations') = Len(Queue(n)) + 1 /\ Len(Queue(n)) \in Nat
          /\ \A j \in 1 .. Len(Queue(n)) : expirations'[j] = Queue(n)[j]
          /\ expirations'[Len(Queue(n)) + 1] = e
      BY <1>3, <2>1, <2>3
    <3> QED BY <1>3, <2>5, <3>1
  <2>9. \A q \in Requests :
            /\ dispatched'[q] <= 1
            /\ dispatched'[q] = 1 => stamp[q] # -1 /\ (q \in nonces' \/ now > stamp[q] + Window)
    <3>1. dispatched'[r] = 1
      BY <2>1, <2>6 DEF NonceInv, NonceType
    <3>2. \A q \in Requests : q # r => dispatched'[q] = dispatched[q]
      BY <2>1, Zenon DEF NonceInv, NonceType
    <3> QED BY <1>2, <1>5, <2>1, <3>1, <3>2 DEF NonceInv
  <2> QED BY <1>2, <2>7, <2>8, <2>9, Zenon DEF NonceInv, Outlives
<1>7. CASE ~Acceptable(r, n)
  <2>1. nonces' = Kept(n) /\ expirations' = Queue(n) /\ dispatched' = dispatched
    BY <1>1, <1>7, Zenon
  <2>2. NonceType'
    BY <1>2, <1>3, <1>4, <2>1, Zenon DEF NonceInv, NonceType
  <2> QED BY <1>2, <1>3, <1>5, <2>1, <2>2, Zenon DEF NonceInv, Outlives
<1> QED BY <1>6, <1>7, Zenon

\* The passing of time and the handling of requests keep the nonce invariant.
LEMMA NonceInductive == NonceInv /\ [Next]_vars => NonceInv'
<1> SUFFICES ASSUME NonceInv, [Next]_vars PROVE NonceInv'
  BY Zenon
<1>1. CASE Tick
  <2>1. /\ now' = now + 1 /\ now \in Nat /\ Window \in Nat
        /\ stamp' = stamp /\ nonces' = nonces /\ expirations' = expirations /\ dispatched' = dispatched
    BY <1>1, NonceConstants, Zenon DEF Tick, NonceInv, NonceType
  <2>2. \A r \in Requests : stamp[r] \in Int
    BY Zenon DEF NonceInv, NonceType
  <2> QED BY <2>1, <2>2 DEF NonceInv, NonceType, Outlives
<1>2. ASSUME NEW r \in Requests, Stamp(r) PROVE NonceInv'
  <2>1. PICK t \in 0 .. now + Skew + 1 : stamp' = [stamp EXCEPT ![r] = t]
    BY <1>2, Zenon DEF Stamp
  <2>2. /\ stamp[r] = -1 /\ now' = now /\ nonces' = nonces /\ expirations' = expirations
        /\ dispatched' = dispatched /\ now \in Nat /\ Skew \in Nat
    BY <1>2, NonceConstants, Zenon DEF Stamp, NonceInv, NonceType
  <2>3. t \in Int /\ \A q \in Requests : q # r => stamp'[q] = stamp[q]
    BY <2>1, <2>2 DEF NonceInv, NonceType
  <2>4. NonceType'
    BY <2>1, <2>2, <2>3, Zenon DEF NonceInv, NonceType
  <2>5. \A j \in 1 .. Len(expirations) : Outlives(expirations[j])'
    <3>1. \A j \in 1 .. Len(expirations) : expirations[j] \in Entries
      BY DEF NonceInv, NonceType
    <3>2. \A j \in 1 .. Len(expirations) : expirations[j].nonce \in Requests /\ expirations[j].nonce # r
      BY <2>2, <3>1, Zenon DEF NonceInv, Outlives, Entries
    <3> QED BY <2>2, <2>3, <3>2, Zenon DEF NonceInv, Outlives
  <2>6. dispatched[r] # 1
    BY <2>2, Zenon DEF NonceInv
  <2> QED BY <2>2, <2>3, <2>4, <2>5, <2>6, Zenon DEF NonceInv
<1>3. ASSUME NEW r \in Requests, Handle(r) PROVE NonceInv'
  BY <1>3, HandleNonceInv, Zenon
<1>4. CASE UNCHANGED vars
  BY <1>4, Zenon DEF vars, NonceInv, NonceType, Outlives
<1> QED BY <1>1, <1>2, <1>3, <1>4, Zenon DEF Next

\* The coordinator dispatches no request twice (Coordinator::handle): it forgets a
\* nonce only when the age check rejects the request anyway.
THEOREM ReplaysRejected == Spec => []DispatchedOnce
<1>1. Init => NonceInv
  BY DEF Init, NonceInv, NonceType
<1>2. NonceInv => DispatchedOnce
  BY Zenon DEF NonceInv, DispatchedOnce
<1> QED BY <1>1, <1>2, NonceInductive, PTL DEF Spec

------------------------------------------------------------------------------
(***************************************************************************)
(* StateTransport                                                          *)
(***************************************************************************)

Attempts ==
    [handle : Handles \cup {None}, peer : Peers \cup {None}, epoch : Nat,
     ok : BOOLEAN, accepted : BOOLEAN]
Origin == [peer : Peers \cup {None}, epoch : Nat, proven : BOOLEAN]

PoolTyped ==
    /\ idle \in [Slots -> Handles \cup {None}]
    /\ epoch \in Nat
    /\ peer \in Peers \cup {None}
    /\ pc \in [Threads -> {"ready", "transfer", "reply", "failed"}]
    /\ attempt \in [Threads -> Attempts]
    /\ origin \in [Handles -> Origin]

\* A borrowed connection was opened for the peer and in the epoch of the attempt that
\* borrowed it, and the attempt is accepted only after its reply was verified.
BorrowedKnown ==
    \A t \in Threads : attempt[t].handle # None =>
        /\ origin[attempt[t].handle].peer = attempt[t].peer
        /\ origin[attempt[t].handle].epoch = attempt[t].epoch
        /\ attempt[t].accepted => origin[attempt[t].handle].proven

PoolInv == PoolTyped /\ ConnectionsSound /\ BorrowedKnown

\* What is known of a handle in use survives a step.
LEMMA OriginsKept ==
    ASSUME NEW known \in [Handles -> Origin], OriginsFollow(known)
    PROVE  /\ origin' \in [Handles -> Origin]
           /\ \A s \in Slots : idle'[s] \in Handles => origin'[idle'[s]] = known[idle'[s]]
           /\ \A t \in Threads : attempt'[t].handle \in Handles =>
                  origin'[attempt'[t].handle] = known[attempt'[t].handle]
<1>1. NoOrigin \in Origin
  BY Zenon DEF NoOrigin, Origin
<1>2. \A h \in Handles : h \in InUse' => origin'[h] = known[h]
  BY Zenon DEF OriginsFollow
<1>3. \A s \in Slots : idle'[s] \in InUse'
  BY Zenon DEF InUse
<1>4. \A t \in Threads : attempt'[t].handle \in InUse'
  BY Zenon DEF InUse
<1> QED BY <1>1, <1>2, <1>3, <1>4, Zenon DEF OriginsFollow

\* post() borrows an idle connection of the current peer.
LEMMA BorrowIdle ==
    ASSUME PoolInv, NEW t \in Threads, NEW p \in Peers, NEW s \in Slots, pc[t] = "ready",
           pc' = [pc EXCEPT ![t] = "transfer"],
           p = peer, peer' = peer, epoch' = epoch, idle[s] # None,
           idle' = [idle EXCEPT ![s] = None],
           attempt' = [attempt EXCEPT ![t] = [handle |-> idle[s], peer |-> p, epoch |-> epoch',
                                              ok |-> FALSE, accepted |-> FALSE]],
           OriginsFollow([origin EXCEPT ![idle[s]].proven = FALSE])
    PROVE  PoolInv'
<1> DEFINE h == idle[s]
           known == [origin EXCEPT ![h].proven = FALSE]
<1>1. h \in Handles /\ h # None
  BY Zenon DEF PoolInv, PoolTyped
<1>2. /\ known \in [Handles -> Origin]
      /\ \A x \in Handles : x # h => known[x] = origin[x]
      /\ known[h].peer = origin[h].peer /\ known[h].epoch = origin[h].epoch
  BY <1>1, Zenon DEF PoolInv, PoolTyped, Origin
<1> HIDE DEF known
<1>3. /\ origin' \in [Handles -> Origin]
      /\ \A x \in Slots : idle'[x] \in Handles => origin'[idle'[x]] = known[idle'[x]]
      /\ \A u \in Threads : attempt'[u].handle \in Handles =>
             origin'[attempt'[u].handle] = known[attempt'[u].handle]
  BY <1>2, OriginsKept, Zenon DEF known
<1>4. [handle |-> h, peer |-> p, epoch |-> epoch', ok |-> FALSE, accepted |-> FALSE] \in Attempts
  BY <1>1, Zenon DEF Attempts, PoolInv, PoolTyped
<1>5. PoolTyped'
  BY <1>3, <1>4, Zenon DEF PoolInv, PoolTyped
<1>6. /\ attempt'[t].handle = h /\ attempt'[t].peer = p /\ attempt'[t].epoch = epoch
      /\ attempt'[t].accepted = FALSE
      /\ \A u \in Threads : u # t => attempt'[u] = attempt[u]
      /\ idle'[s] = None /\ \A x \in Slots : x # s => idle'[x] = idle[x] /\ (idle[x] # None => idle[x] # h)
      /\ \A u \in Threads : attempt[u].handle # h
  BY <1>1, Zenon DEF PoolInv, PoolTyped, ConnectionsSound, ExclusiveHandles
<1>7. ExclusiveHandles'
  BY <1>1, <1>6 DEF PoolInv, ConnectionsSound, ExclusiveHandles
<1>8. \A x \in Slots : idle'[x] # None => idle'[x] \in Handles /\ origin'[idle'[x]] = origin[idle[x]]
                                           /\ idle'[x] = idle[x]
  BY <1>2, <1>3, <1>6 DEF PoolInv, PoolTyped
<1>9. IdleCurrent' /\ IdleVerified'
  BY <1>8 DEF PoolInv, ConnectionsSound, IdleCurrent, IdleVerified
<1>10. BorrowedKnown'
  <2>1. ASSUME NEW u \in Threads, u # t, attempt'[u].handle # None
        PROVE  attempt'[u] = attempt[u] /\ origin'[attempt'[u].handle] = origin[attempt[u].handle]
    <3>1. attempt[u].handle \in Handles /\ attempt[u].handle # h
      BY <1>6, <2>1, Zenon DEF PoolInv, PoolTyped, Attempts
    <3> QED BY <1>2, <1>3, <1>6, <2>1, <3>1
  <2>2. origin'[h].peer = p /\ origin'[h].epoch = epoch
    BY <1>1, <1>2, <1>3, <1>6 DEF PoolInv, ConnectionsSound, IdleCurrent
  <2> QED BY <1>6, <2>1, <2>2 DEF PoolInv, BorrowedKnown
<1> QED BY <1>5, <1>7, <1>9, <1>10, Zenon DEF PoolInv, ConnectionsSound

\* post() opens a new connection when nothing is idle for the peer.
LEMMA BorrowNew ==
    ASSUME PoolInv, NEW t \in Threads, NEW p \in Peers, NEW h \in Handles, h \notin InUse,
           pc' = [pc EXCEPT ![t] = "transfer"],
           peer' = p, epoch' \in Nat, idle' = Empty,
           attempt' = [attempt EXCEPT ![t] = [handle |-> h, peer |-> p, epoch |-> epoch',
                                              ok |-> FALSE, accepted |-> FALSE]],
           OriginsFollow([origin EXCEPT ![h] = [peer |-> p, epoch |-> epoch', proven |-> FALSE]])
    PROVE  PoolInv'
<1> DEFINE known == [origin EXCEPT ![h] = [peer |-> p, epoch |-> epoch', proven |-> FALSE]]
<1>1. \A s \in Slots : idle'[s] = None
  BY Zenon DEF Empty
<1>2. /\ known \in [Handles -> Origin]
      /\ \A x \in Handles : x # h => known[x] = origin[x]
      /\ known[h].peer = p /\ known[h].epoch = epoch'
  BY Zenon DEF PoolInv, PoolTyped, Origin
<1> HIDE DEF known
<1>3. /\ origin' \in [Handles -> Origin]
      /\ \A u \in Threads : attempt'[u].handle \in Handles =>
             origin'[attempt'[u].handle] = known[attempt'[u].handle]
  BY <1>2, OriginsKept, Zenon DEF known
<1>4. [handle |-> h, peer |-> p, epoch |-> epoch', ok |-> FALSE, accepted |-> FALSE] \in Attempts
  BY Zenon DEF Attempts
<1>5. PoolTyped'
  BY <1>3, <1>4, Zenon DEF PoolInv, PoolTyped, Empty
<1>6. /\ attempt'[t].handle = h /\ attempt'[t].peer = p /\ attempt'[t].epoch = epoch'
      /\ attempt'[t].accepted = FALSE
      /\ \A u \in Threads : u # t => attempt'[u] = attempt[u]
      /\ \A u \in Threads : attempt[u].handle # h
  BY Zenon DEF PoolInv, PoolTyped, InUse
<1>7. ExclusiveHandles'
  BY <1>1, <1>6 DEF PoolInv, ConnectionsSound, ExclusiveHandles
<1>8. IdleCurrent' /\ IdleVerified'
  BY <1>1, Zenon DEF IdleCurrent, IdleVerified
<1>9. BorrowedKnown'
  <2>1. ASSUME NEW u \in Threads, u # t, attempt'[u].handle # None
        PROVE  attempt'[u] = attempt[u] /\ origin'[attempt'[u].handle] = origin[attempt[u].handle]
    <3>1. attempt[u].handle \in Handles /\ attempt[u].handle # h
      BY <1>6, <2>1, Zenon DEF PoolInv, PoolTyped, Attempts
    <3> QED BY <1>2, <1>3, <1>6, <2>1, <3>1
  <2>2. origin'[h].peer = p /\ origin'[h].epoch = epoch'
    BY <1>2, <1>3, <1>6
  <2> QED BY <1>6, <2>1, <2>2 DEF PoolInv, BorrowedKnown
<1> QED BY <1>5, <1>7, <1>8, <1>9, Zenon DEF PoolInv, ConnectionsSound

\* ~Attempt: a handle is stored only when it is verified and of the current peer and epoch.
LEMMA FinishSound ==
    ASSUME PoolInv, NEW t \in Threads, Finish(t)
    PROVE  PoolInv'
<1> DEFINE h == attempt[t].handle
<1>1. /\ attempt' = [attempt EXCEPT ![t] = NoAttempt] /\ peer' = peer /\ epoch' = epoch
      /\ OriginsFollow(origin) /\ pc' \in [Threads -> {"ready", "transfer", "reply", "failed"}]
  BY Zenon DEF Finish, PoolInv, PoolTyped
<1>2. NoAttempt \in Attempts /\ NoAttempt.handle = None
  BY Zenon DEF NoAttempt, Attempts
<1>3. /\ origin \in [Handles -> Origin] /\ attempt[t] \in Attempts
      /\ idle \in [Slots -> Handles \cup {None}]
  BY Zenon DEF PoolInv, PoolTyped
<1>4. /\ origin' \in [Handles -> Origin]
      /\ \A s \in Slots : idle'[s] \in Handles => origin'[idle'[s]] = origin[idle'[s]]
      /\ \A u \in Threads : attempt'[u].handle \in Handles =>
             origin'[attempt'[u].handle] = origin[attempt'[u].handle]
  BY <1>1, <1>3, OriginsKept, Zenon
<1>5. \/ idle' = idle
      \/ \E s \in Slots : idle[s] = None /\ idle' = [idle EXCEPT ![s] = h] /\ Returns(attempt[t])
  BY Zenon DEF Finish, Store
<1>6. idle' \in [Slots -> Handles \cup {None}]
  BY <1>3, <1>5, Zenon DEF Attempts
<1>7. PoolTyped'
  BY <1>1, <1>2, <1>4, <1>6, Zenon DEF PoolInv, PoolTyped
<1>8. \A u \in Threads : attempt'[u] = IF u = t THEN NoAttempt ELSE attempt[u]
  BY <1>1, Zenon DEF PoolInv, PoolTyped
<1>9. BorrowedKnown'
  <2>1. ASSUME NEW u \in Threads, attempt'[u].handle # None
        PROVE  attempt'[u] = attempt[u] /\ origin'[attempt'[u].handle] = origin[attempt[u].handle]
    BY <1>2, <1>4, <1>8, <2>1 DEF PoolInv, PoolTyped, Attempts
  <2> QED BY <2>1 DEF PoolInv, BorrowedKnown
<1>10. CASE idle' = idle
  <2>1. ExclusiveHandles'
    BY <1>2, <1>8, <1>10 DEF PoolInv, ConnectionsSound, ExclusiveHandles
  <2>2. \A s \in Slots : idle'[s] # None => origin'[idle'[s]] = origin[idle[s]]
    BY <1>3, <1>4, <1>10, Zenon
  <2>3. IdleCurrent' /\ IdleVerified'
    BY <1>1, <1>10, <2>2 DEF PoolInv, ConnectionsSound, IdleCurrent, IdleVerified
  <2> QED BY <1>7, <1>9, <2>1, <2>3, Zenon DEF PoolInv, ConnectionsSound
<1>11. ASSUME NEW s \in Slots, idle[s] = None, idle' = [idle EXCEPT ![s] = h], Returns(attempt[t])
       PROVE  PoolInv'
  <2>1. \A x \in Slots : idle'[x] = IF x = s THEN h ELSE idle[x]
    BY <1>3, <1>11, Zenon
  <2>2. ExclusiveHandles'
    <3>1. \A x \in Slots : idle[x] # None => idle[x] # h
      BY Zenon DEF PoolInv, ConnectionsSound, ExclusiveHandles
    <3>2. \A u \in Threads : u # t /\ h # None => attempt[u].handle # h
      BY Zenon DEF PoolInv, ConnectionsSound, ExclusiveHandles
    <3> QED BY <1>2, <1>8, <2>1, <3>1, <3>2 DEF PoolInv, ConnectionsSound, ExclusiveHandles
  <2>3. \A x \in Slots : idle'[x] # None => origin'[idle'[x]] = origin[idle'[x]]
    BY <1>4, <1>6, Zenon
  <2>4. h # None => origin[h].peer = peer /\ origin[h].epoch = epoch /\ origin[h].proven
    BY <1>11, Zenon DEF Returns, PoolInv, BorrowedKnown
  <2>5. IdleCurrent' /\ IdleVerified'
    BY <1>1, <2>1, <2>3, <2>4 DEF PoolInv, ConnectionsSound, IdleCurrent, IdleVerified
  <2> QED BY <1>7, <1>9, <2>2, <2>5, Zenon DEF PoolInv, ConnectionsSound
<1> QED BY <1>5, <1>10, <1>11, Zenon

\* post(): the first idle handle of the peer, or a new one.
LEMMA PostSound ==
    ASSUME PoolInv, NEW t \in Threads, NEW p \in Peers, Post(t, p)
    PROVE  PoolInv'
<1>1. PICK h \in Handles : Borrow(t, p, StillIdle(p), h)
  BY Zenon DEF Post
<1>2. /\ pc[t] = "ready" /\ pc' = [pc EXCEPT ![t] = "transfer"]
      /\ peer' = p /\ epoch' \in Nat /\ (p = peer => epoch' = epoch)
  BY DEF Post, PoolInv, PoolTyped
<1>3. attempt' = [attempt EXCEPT ![t] = [handle |-> h, peer |-> p, epoch |-> epoch',
                                         ok |-> FALSE, accepted |-> FALSE]]
  BY <1>1, Zenon DEF Borrow
<1>4. ASSUME NEW s \in Slots, h = StillIdle(p)[s], h # None, idle' = [StillIdle(p) EXCEPT ![s] = None]
      PROVE  PoolInv'
  <2>1. p = peer /\ StillIdle(p) = idle /\ StillIdle(p) # Empty
    BY <1>4, Zenon DEF StillIdle, Empty
  <2>2. OriginsFollow([origin EXCEPT ![h].proven = FALSE])
    BY <1>1, <2>1, Zenon DEF Borrow
  <2> QED BY <1>2, <1>3, <1>4, <2>1, <2>2, BorrowIdle, Zenon
<1>5. CASE StillIdle(p) = Empty /\ h \notin InUse /\ idle' = StillIdle(p)
  <2>1. OriginsFollow([origin EXCEPT ![h] = [peer |-> p, epoch |-> epoch', proven |-> FALSE]])
    BY <1>1, <1>5, Zenon DEF Borrow
  <2> QED BY <1>2, <1>3, <1>5, <2>1, BorrowNew, Zenon
<1> QED BY <1>1, <1>4, <1>5, Zenon DEF Borrow

\* The steps of exchange() and rpc() that leave the pool alone, and discard_idle().
LEMMA OtherSound ==
    ASSUME PoolInv, NEW t \in Threads,
           (\E ok \in BOOLEAN : Reply(t, ok)) \/ Verified(t) \/ DiscardIdle(t) \/ GiveUp(t)
    PROVE  PoolInv'
<1>1. CASE \E ok \in BOOLEAN : Reply(t, ok)
  <2>1. PICK ok \in BOOLEAN : Reply(t, ok)
    BY <1>1, Zenon
  <2>2. /\ idle' = idle /\ peer' = peer /\ epoch' = epoch /\ origin' = origin
        /\ attempt' = [attempt EXCEPT ![t].ok = ok]
        /\ pc' \in [Threads -> {"ready", "transfer", "reply", "failed"}]
    BY <2>1, Zenon DEF Reply, PoolInv, PoolTyped
  <2>3. /\ attempt' \in [Threads -> Attempts]
        /\ \A u \in Threads :
               /\ attempt'[u].handle = attempt[u].handle
               /\ attempt'[u].peer = attempt[u].peer
               /\ attempt'[u].epoch = attempt[u].epoch
               /\ attempt'[u].accepted = attempt[u].accepted
    BY <2>2 DEF PoolInv, PoolTyped, Attempts
  <2>4. PoolTyped'
    BY <2>2, <2>3, Zenon DEF PoolInv, PoolTyped
  <2>5. ConnectionsSound'
    BY <2>2, <2>3 DEF PoolInv, ConnectionsSound, ExclusiveHandles, IdleCurrent, IdleVerified
  <2>6. BorrowedKnown'
    BY <2>2, <2>3 DEF PoolInv, BorrowedKnown
  <2> QED BY <2>4, <2>5, <2>6, Zenon DEF PoolInv
<1>2. CASE Verified(t)
  <2> DEFINE h == attempt[t].handle
  <2>1. /\ idle' = idle /\ peer' = peer /\ epoch' = epoch /\ pc' = pc
        /\ attempt' = [attempt EXCEPT ![t].accepted = TRUE]
        /\ origin' = [origin EXCEPT ![h].proven = TRUE]
    BY <1>2, Zenon DEF Verified
  <2>2. /\ attempt' \in [Threads -> Attempts]
        /\ \A u \in Threads :
               /\ attempt'[u].handle = attempt[u].handle
               /\ attempt'[u].peer = attempt[u].peer
               /\ attempt'[u].epoch = attempt[u].epoch
               /\ u # t => attempt'[u].accepted = attempt[u].accepted
    BY <2>1, ZenonT(30) DEF PoolInv, PoolTyped, Attempts
  <2>3. /\ origin' \in [Handles -> Origin]
        /\ \A x \in Handles :
               /\ origin'[x].peer = origin[x].peer
               /\ origin'[x].epoch = origin[x].epoch
               /\ x = h \/ origin[x].proven => origin'[x].proven
    BY <2>1, ZenonT(30) DEF PoolInv, PoolTyped, Origin
  <2>4. PoolTyped'
    BY <2>1, <2>2, <2>3, Zenon DEF PoolInv, PoolTyped
  <2>5. ConnectionsSound'
    BY <2>1, <2>2, <2>3 DEF PoolInv, PoolTyped, ConnectionsSound, ExclusiveHandles, IdleCurrent, IdleVerified
  <2>6. BorrowedKnown'
    <3>1. \A u \in Threads : attempt[u].handle # None => attempt[u].handle \in Handles
      BY Zenon DEF PoolInv, PoolTyped, Attempts
    <3> QED BY <2>2, <2>3, <3>1 DEF PoolInv, BorrowedKnown
  <2> QED BY <2>4, <2>5, <2>6, Zenon DEF PoolInv
<1>3. CASE DiscardIdle(t)
  <2>1. /\ idle' = Empty /\ peer' = peer /\ epoch' \in Nat /\ attempt' = attempt
        /\ OriginsFollow(origin) /\ pc' \in [Threads -> {"ready", "transfer", "reply", "failed"}]
    BY <1>3 DEF DiscardIdle, PoolInv, PoolTyped
  <2>2. /\ origin' \in [Handles -> Origin]
        /\ \A u \in Threads : attempt'[u].handle \in Handles =>
               origin'[attempt'[u].handle] = origin[attempt'[u].handle]
    BY <2>1, OriginsKept, Zenon DEF PoolInv, PoolTyped
  <2>3. PoolTyped' /\ \A s \in Slots : idle'[s] = None
    BY <2>1, <2>2, Zenon DEF PoolInv, PoolTyped, Empty
  <2>4. ConnectionsSound'
    BY <2>1, <2>3, Zenon DEF PoolInv, ConnectionsSound, ExclusiveHandles, IdleCurrent, IdleVerified
  <2>5. BorrowedKnown'
    BY <2>1, <2>2 DEF PoolInv, PoolTyped, Attempts, BorrowedKnown
  <2> QED BY <2>3, <2>4, <2>5, Zenon DEF PoolInv
<1>4. CASE GiveUp(t)
  BY <1>4, ZenonT(30) DEF GiveUp, PoolInv, PoolTyped, ConnectionsSound, ExclusiveHandles, IdleCurrent, IdleVerified,
     BorrowedKnown
<1> QED BY <1>1, <1>2, <1>3, <1>4, Zenon

\* The pool never lends a handle to two threads, and what lies idle in it is a connection to
\* the current peer, opened since the last retry and left by a verified reply.
THEOREM ConnectionsKept == PoolSpec => []ConnectionsSound
<1>1. PoolInit => PoolInv
  <2> SUFFICES ASSUME PoolInit PROVE PoolInv
    BY Zenon
  <2>1. NoAttempt \in Attempts /\ NoAttempt.handle = None /\ NoOrigin \in Origin
    BY Zenon DEF NoAttempt, NoOrigin, Attempts, Origin
  <2>2. (\A s \in Slots : idle[s] = None) /\ (\A t \in Threads : attempt[t].handle = None)
    BY <2>1, Zenon DEF PoolInit, Empty
  <2>3. PoolTyped
    BY <2>1, Zenon DEF PoolInit, PoolTyped, Empty
  <2> QED
    BY <2>2, <2>3, Zenon DEF PoolInv, ConnectionsSound, ExclusiveHandles, IdleCurrent, IdleVerified,
       BorrowedKnown
<1>2. PoolInv /\ [PoolNext]_poolVars => PoolInv'
  <2> SUFFICES ASSUME PoolInv, [PoolNext]_poolVars PROVE PoolInv'
    BY Zenon
  <2>1. CASE PoolNext
    BY <2>1, PostSound, FinishSound, OtherSound, Zenon DEF PoolNext
  <2>2. CASE UNCHANGED poolVars
    BY <2>2, Zenon DEF poolVars, PoolInv, PoolTyped, ConnectionsSound, ExclusiveHandles, IdleCurrent, IdleVerified,
       BorrowedKnown
  <2> QED BY <2>1, <2>2, Zenon
<1>3. PoolInv => ConnectionsSound
  BY Zenon DEF PoolInv
<1> QED
  BY <1>1, <1>2, <1>3, PTL DEF PoolSpec

(***************************************************************************)
(* Tasks                                                                   *)
(***************************************************************************)

\* The states of the work, and the answers derived from them.
WorkStates == Over \cup Inputs \cup {"running"}
Answers == [status : {"none", "working", "input_required", "completed", "cancelled"},
            of : WorkStates \cup {"none"}]

TaskCalls == [at : {"idle", "bound", "refused", "answered", "reading", "derived", "failed"},
              seen : 0 .. 2, state : WorkStates \cup {"none"}, answer : Answers]

TaskType ==
    /\ taskWork \in WorkStates
    /\ binding \in [owner : Principals \cup {NoPrincipal}, revision : 0 .. 2, result : Answers]
    /\ taskCall \in [Calls -> TaskCalls]

\* The binding is made once, by revision 1, and given its one terminal answer by
\* revision 2.
BindingSteps ==
    /\ binding.revision = 0 <=> binding.owner = NoPrincipal
    /\ binding.revision = 2 <=> binding.result # Nothing
    /\ binding.result # Nothing => binding.result.of \in Over

\* A call that reads or has read the work saw the binding unanswered, and holds no
\* terminal answer; a terminal answer is the stored one.
CallsFollow ==
    \A c \in Calls :
        /\ taskCall[c].at \in {"reading", "derived"} =>
              taskCall[c].seen = 1 /\ binding.owner = Caller[c] /\ taskCall[c].answer.of \notin Over
        /\ taskCall[c].at = "derived" => taskCall[c].state \in WorkStates
        /\ taskCall[c].at = "bound" => binding.owner # NoPrincipal
        /\ taskCall[c].answer.of \in Over => taskCall[c].answer = binding.result
        /\ taskCall[c].answer # Nothing => binding.owner = Caller[c]

TaskInv == TaskType /\ BindingSteps /\ CallsFollow

Puts == [at : {"idle", "asking", "locked", "applied", "accepted", "replayed", "conflict", "lost"},
         expected : Nat, state : States \cup {NoState}]

RecordType ==
    /\ revisions \in Seq(States) /\ mirror \in Nat
    /\ holder \in Writers \cup {NoWriter}
    /\ put \in [Writers -> Puts]

\* The lock is held from the decision to the mirror.
PutHolds ==
    \A w \in Writers :
        /\ put[w].at \in {"locked", "applied"} => holder = w
        /\ put[w].at = "applied" => Revision = put[w].expected + 1
        /\ put[w].at \notin {"idle"} => put[w].state \in States

\* An applied or accepted put made the revision after the one it expected: no two made
\* the same.
PutsDiffer ==
    \A v, w \in Writers :
        put[v].at \in {"applied", "accepted"} /\ put[w].at \in {"applied", "accepted"} /\ v # w
        => put[v].expected # put[w].expected

RecordInv == RecordType /\ PutHolds /\ PutsDiffer /\ AcceptedIsRecorded /\ mirror <= Revision

\* An answer says what it was derived from.
LEMMA AnswerOf ==
    ASSUME NEW state \in WorkStates
    PROVE  Answer(state) \in Answers /\ Answer(state).of = state
BY Zenon DEF Answer, Answers, WorkStates, Over, Inputs

\* No answer is not an answer of work that is over.
LEMMA NothingOf == Nothing \in Answers /\ Nothing.of \notin Over
BY Zenon DEF Nothing, Answers, Over

\* The initial state satisfies the invariant of the task service.
LEMMA ServiceInitHolds == ServiceInit => TaskInv
<1>1. SUFFICES ASSUME ServiceInit PROVE TaskInv
  BY Zenon
<1>2. TaskType
  BY <1>1, NothingOf DEF ServiceInit, TaskType, TaskCalls, WorkStates
<1>3. BindingSteps /\ CallsFollow
  BY <1>1, NothingOf DEF ServiceInit, BindingSteps, CallsFollow
<1>4. QED
  BY <1>2, <1>3, Zenon DEF TaskInv

\* What Set does to the calls.
LEMMA SetCall ==
    ASSUME TaskInv, NEW c \in Calls, NEW answer \in Answers,
           NEW at \in {"idle", "bound", "refused", "answered", "failed"}, Set(c, at, answer)
    PROVE  /\ taskCall' \in [Calls -> TaskCalls]
           /\ taskCall'[c].at = at /\ taskCall'[c].answer = answer
           /\ \A d \in Calls : d # c => taskCall'[d] = taskCall[d]
BY ZenonT(30) DEF TaskInv, TaskType, TaskCalls, Set

\* A call that ends or goes on with an answer that is not terminal, or with the stored one.
LEMMA CallSet ==
    ASSUME TaskInv, NEW c \in Calls, NEW answer \in Answers,
           NEW at \in {"idle", "bound", "refused", "answered", "failed"}, Set(c, at, answer),
           UNCHANGED binding, taskWork' \in WorkStates,
           at = "bound" => binding.owner # NoPrincipal,
           answer.of \in Over => answer = binding.result,
           answer # Nothing => binding.owner = Caller[c]
    PROVE  TaskInv'
<1>1. /\ taskCall' \in [Calls -> TaskCalls]
      /\ taskCall'[c].at = at /\ taskCall'[c].answer = answer
      /\ \A d \in Calls : d # c => taskCall'[d] = taskCall[d]
  BY SetCall
<1>2. TaskType' /\ BindingSteps'
  BY <1>1, Zenon DEF TaskInv, TaskType, BindingSteps
<1>3. CallsFollow'
  BY <1>1 DEF TaskInv, CallsFollow
<1>4. QED
  BY <1>2, <1>3, Zenon DEF TaskInv

\* Binding a task to its principal keeps the invariant.
LEMMA AugmentStep ==
    ASSUME TaskInv, NEW c \in Calls, Augment(c)
    PROVE  TaskInv'
<1>1. /\ taskCall' \in [Calls -> TaskCalls]
      /\ taskCall'[c].at = "bound" /\ taskCall'[c].answer = Nothing
      /\ \A d \in Calls : d # c => taskCall'[d] = taskCall[d]
  BY SetCall, NothingOf, Zenon DEF Augment
<1>2. Caller[c] \in Principals /\ Caller[c] # NoPrincipal
  BY TaskConstants, Zenon
<1>3. /\ binding' \in [owner : Principals \cup {NoPrincipal}, revision : 0 .. 2, result : Answers]
      /\ binding'.owner = Caller[c] /\ binding'.revision = 1 /\ binding'.result = binding.result
  <2>1. binding' = [owner |-> Caller[c], revision |-> 1, result |-> binding.result]
    BY Zenon DEF TaskInv, TaskType, Augment
  <2>2. QED
    BY <1>2, <2>1 DEF TaskInv, TaskType
<1>4. binding.result = Nothing
  BY DEF TaskInv, TaskType, BindingSteps, Augment
<1>5. TaskType'
  BY <1>1, <1>3, Zenon DEF TaskInv, TaskType, Augment
<1>6. BindingSteps'
  BY <1>2, <1>3, <1>4 DEF BindingSteps
<1>7. CallsFollow'
  <2>1. \A d \in Calls : taskCall[d].answer = Nothing /\ taskCall[d].at \notin {"reading", "derived"}
    <3>1. \A d \in Calls : Caller[d] # NoPrincipal
      BY TaskConstants, Zenon
    <3>2. QED
      BY <3>1, Zenon DEF TaskInv, CallsFollow, Augment
  <2>2. QED
    BY <1>1, <1>2, <1>3, <2>1, NothingOf, Zenon DEF CallsFollow
<1>8. QED
  BY <1>5, <1>6, <1>7, Zenon DEF TaskInv

\* Reading the binding keeps the invariant: a stored answer is returned as it is.
LEMMA ReadBindingStep ==
    ASSUME TaskInv, NEW c \in Calls, ReadBinding(c)
    PROVE  TaskInv'
<1>1. UNCHANGED <<taskWork, binding>> /\ binding.result \in Answers /\ taskWork \in WorkStates
  BY Zenon DEF TaskInv, TaskType, ReadBinding
<1>2. CASE Set(c, "refused", Nothing)
  BY <1>1, <1>2, NothingOf, CallSet, Zenon
<1>3. CASE binding.owner = Caller[c] /\ Set(c, "answered", binding.result)
  BY <1>1, <1>3, CallSet, Zenon
<1>4. CASE /\ binding.owner = Caller[c] /\ binding.result = Nothing
           /\ taskCall' = [taskCall EXCEPT ![c].at = "reading", ![c].seen = binding.revision]
  <2>1. binding.revision = 1
    BY <1>4 DEF TaskInv, TaskType, BindingSteps, ReadBinding
  <2>2. /\ taskCall' \in [Calls -> TaskCalls]
        /\ taskCall'[c].at = "reading" /\ taskCall'[c].seen = 1
        /\ taskCall'[c].answer = taskCall[c].answer
        /\ \A d \in Calls : d # c => taskCall'[d] = taskCall[d]
    BY <1>4, <2>1, ZenonT(30) DEF TaskInv, TaskType, TaskCalls
  <2>3. TaskType' /\ BindingSteps'
    BY <1>1, <2>2, Zenon DEF TaskInv, TaskType, BindingSteps
  <2>4. taskCall[c].answer.of \notin Over
    BY <1>4, NothingOf, Zenon DEF TaskInv, CallsFollow
  <2>5. CallsFollow'
    BY <1>1, <1>4, <2>2, <2>4 DEF TaskInv, CallsFollow
  <2>6. QED
    BY <2>3, <2>5, Zenon DEF TaskInv
<1>5. QED
  BY <1>2, <1>3, <1>4, Zenon DEF ReadBinding

\* Reading the work behind a task keeps the invariant.
LEMMA ReadWorkStep ==
    ASSUME TaskInv, NEW c \in Calls, ReadWork(c)
    PROVE  TaskInv'
<1>1. /\ taskCall' \in [Calls -> TaskCalls]
      /\ taskCall'[c].at = "derived" /\ taskCall'[c].state = taskWork
      /\ taskCall'[c].answer = taskCall[c].answer /\ taskCall'[c].seen = taskCall[c].seen
      /\ \A d \in Calls : d # c => taskCall'[d] = taskCall[d]
  BY Zenon DEF TaskInv, TaskType, TaskCalls, ReadWork
<1>2. UNCHANGED <<taskWork, binding>> /\ taskCall[c].at = "reading"
  BY Zenon DEF ReadWork
<1>3. TaskType' /\ BindingSteps'
  BY <1>1, <1>2, Zenon DEF TaskInv, TaskType, BindingSteps
<1>4. CallsFollow'
  BY <1>1, <1>2 DEF TaskInv, TaskType, CallsFollow
<1>5. QED
  BY <1>3, <1>4, Zenon DEF TaskInv

\* The first terminal answer is stored while no call holds one; every later one is it.
LEMMA StoreAnswerStep ==
    ASSUME TaskInv, NEW c \in Calls, StoreAnswer(c)
    PROVE  TaskInv'
<1> DEFINE state == taskCall[c].state
           mine == Answer(state)
<1>1. /\ state \in WorkStates /\ binding.owner = Caller[c] /\ taskCall[c].seen = 1
      /\ taskWork \in WorkStates /\ binding.result \in Answers
      /\ taskWork' = taskWork
  BY Zenon DEF TaskInv, TaskType, CallsFollow, StoreAnswer
<1>2. mine \in Answers /\ mine.of = state
  BY <1>1, AnswerOf, Zenon
<1>3. \/ state \notin Over /\ Set(c, "answered", mine) /\ UNCHANGED binding
      \/ /\ state \in Over /\ binding.revision = taskCall[c].seen
         /\ binding' = [binding EXCEPT !.revision = @ + 1, !.result = mine]
         /\ Set(c, "answered", mine)
      \/ binding.result # Nothing /\ Set(c, "answered", binding.result) /\ UNCHANGED binding
      \/ Set(c, "failed", Nothing) /\ UNCHANGED binding
  BY Zenon DEF StoreAnswer
<1> HIDE DEF state, mine
<1>4. CASE state \notin Over /\ Set(c, "answered", mine) /\ UNCHANGED binding
  BY <1>1, <1>2, <1>4, CallSet, Zenon
<1>5. CASE binding.result # Nothing /\ Set(c, "answered", binding.result) /\ UNCHANGED binding
  BY <1>1, <1>5, CallSet, Zenon
<1>6. CASE Set(c, "failed", Nothing) /\ UNCHANGED binding
  BY <1>1, <1>6, NothingOf, CallSet, Zenon
<1>7. CASE /\ state \in Over /\ binding.revision = taskCall[c].seen
           /\ binding' = [binding EXCEPT !.revision = @ + 1, !.result = mine]
           /\ Set(c, "answered", mine)
  <2>1. /\ taskCall' \in [Calls -> TaskCalls]
        /\ taskCall'[c].at = "answered" /\ taskCall'[c].answer = mine
        /\ \A d \in Calls : d # c => taskCall'[d] = taskCall[d]
    BY <1>2, <1>7, SetCall, Zenon
  <2>2. binding.revision = 1 /\ binding.result = Nothing
    BY <1>1, <1>7 DEF TaskInv, TaskType, BindingSteps
  <2>3. /\ binding' \in [owner : Principals \cup {NoPrincipal}, revision : 0 .. 2, result : Answers]
        /\ binding'.owner = binding.owner /\ binding'.revision = 2 /\ binding'.result = mine
    <3>1. binding' = [owner |-> binding.owner, revision |-> 2, result |-> mine]
      <4>1. binding' = [binding EXCEPT !.revision = binding.revision + 1, !.result = mine]
        BY <1>7, Zenon
      <4>2. binding.revision + 1 = 2
        BY <2>2
      <4>3. binding' = [binding EXCEPT !.revision = 2, !.result = mine]
        BY <4>1, <4>2, Zenon
      <4>4. QED
        BY <4>3, Zenon DEF TaskInv, TaskType
    <3>2. QED
      BY <1>2, <3>1 DEF TaskInv, TaskType
  <2>4. TaskType'
    BY <1>1, <2>1, <2>3, Zenon DEF TaskInv, TaskType
  <2>5. BindingSteps'
    BY <1>2, <1>7, <2>2, <2>3, NothingOf DEF TaskInv, BindingSteps
  <2>6. \A d \in Calls : taskCall[d].answer.of \notin Over
    BY <2>2, NothingOf, Zenon DEF TaskInv, CallsFollow
  <2>7. CallsFollow'
    BY <1>1, <2>1, <2>3, <2>6, ZenonT(30) DEF TaskInv, CallsFollow
  <2>8. QED
    BY <2>4, <2>5, <2>7, Zenon DEF TaskInv
<1>8. QED
  BY <1>3, <1>4, <1>5, <1>6, <1>7, Zenon

\* A client that goes on keeps its answer.
LEMMA GoesOnStep ==
    ASSUME TaskInv, NEW c \in Calls, CancelWork(c) \/ Update(c) \/ Again(c)
    PROVE  TaskInv'
<1>1. Set(c, "idle", taskCall[c].answer) /\ UNCHANGED binding
  BY Zenon DEF CancelWork, Update, Again
<1>2. taskWork' \in WorkStates
  BY Zenon DEF TaskInv, TaskType, WorkStates, Over, CancelWork, Update, Again
<1>3. /\ taskCall[c].answer \in Answers
      /\ taskCall[c].answer.of \in Over => taskCall[c].answer = binding.result
      /\ taskCall[c].answer # Nothing => binding.owner = Caller[c]
  BY Zenon DEF TaskInv, TaskType, TaskCalls, CallsFollow
<1>4. QED
  BY <1>1, <1>2, <1>3, CallSet, ZenonT(30)

\* Every step of the task service keeps its invariant.
LEMMA ServiceInductive == TaskInv /\ [ServiceNext]_taskVars => TaskInv'
<1>1. SUFFICES ASSUME TaskInv, [ServiceNext]_taskVars PROVE TaskInv'
  BY Zenon
<1>2. CASE Progress
  <2>1. taskWork' \in WorkStates /\ UNCHANGED <<binding, taskCall>>
    BY <1>2, Zenon DEF Progress, WorkStates, Over
  <2>2. QED
    BY <1>1, <2>1, Zenon DEF TaskInv, TaskType, BindingSteps, CallsFollow
<1>3. CASE \E c \in Calls : Augment(c) \/ ReadBinding(c) \/ ReadWork(c) \/ StoreAnswer(c)
  BY <1>1, <1>3, AugmentStep, ReadBindingStep, ReadWorkStep, StoreAnswerStep, Zenon
<1>4. CASE \E c \in Calls : CancelWork(c) \/ Update(c) \/ Again(c)
  BY <1>1, <1>4, GoesOnStep, Zenon
<1>5. CASE UNCHANGED taskVars
  BY <1>1, <1>5, Zenon DEF taskVars, TaskInv, TaskType, BindingSteps, CallsFollow
<1>6. QED
  BY <1>1, <1>2, <1>3, <1>4, <1>5, Zenon DEF ServiceNext

\* A call that holds a terminal answer is given no other.
LEMMA AnswerStands ==
    ASSUME TaskInv, [ServiceNext]_taskVars, NEW c \in Calls,
           taskCall[c].answer.of \in Over, taskCall'[c].at = "answered"
    PROVE  taskCall'[c].answer = taskCall[c].answer
<1>1. taskCall[c].answer = binding.result /\ binding.result # Nothing
  BY NothingOf, ZenonT(30) DEF TaskInv, CallsFollow
<1>2. taskCall[c].at # "derived"
  BY Zenon DEF TaskInv, CallsFollow
<1>3. taskCall \in [Calls -> TaskCalls]
  BY Zenon DEF TaskInv, TaskType
<1>4. CASE \E d \in Calls : ReadBinding(d)
  BY <1>1, <1>3, <1>4 DEF ReadBinding, Set, TaskCalls
<1>5. CASE \E d \in Calls : StoreAnswer(d)
  <2>1. PICK d \in Calls : StoreAnswer(d)
    BY <1>5, Zenon
  <2>2. d # c
    BY <1>2, <2>1, Zenon DEF StoreAnswer
  <2>3. \E at, answer : Set(d, at, answer)
    BY <2>1, Zenon DEF StoreAnswer
  <2>4. QED
    BY <1>3, <2>2, <2>3, Zenon DEF Set
<1>6. CASE \E d \in Calls : Augment(d) \/ ReadWork(d) \/ CancelWork(d) \/ Update(d) \/ Again(d)
  BY <1>3, <1>6 DEF Augment, ReadWork, CancelWork, Update, Again, Set, TaskCalls
<1>7. CASE Progress \/ UNCHANGED taskVars
  BY <1>7, Zenon DEF Progress, taskVars
<1>8. QED
  BY <1>4, <1>5, <1>6, <1>7, ZenonT(30) DEF ServiceNext

\* The initial state satisfies the invariant of the record store.
LEMMA RecordsInitHolds == RecordsInit => RecordInv
<1>1. SUFFICES ASSUME RecordsInit PROVE RecordInv
  BY Zenon
<1>2. revisions \in Seq(States) /\ Revision = 0 /\ mirror = 0
  BY <1>1 DEF RecordsInit, Revision
<1>3. RecordType
  BY <1>1, <1>2 DEF RecordsInit, RecordType, Puts
<1>4. PutHolds /\ PutsDiffer /\ AcceptedIsRecorded
  BY <1>1, Zenon DEF RecordsInit, PutHolds, PutsDiffer, AcceptedIsRecorded
<1>5. QED
  BY <1>2, <1>3, <1>4 DEF RecordInv

\* A writer that moves to a place where it has made no revision: the record stays.
LEMMA PutMoves ==
    ASSUME RecordInv, NEW w \in Writers, NEW p \in Puts, put' = [put EXCEPT ![w] = p],
           UNCHANGED <<revisions, mirror>>, holder' \in Writers \cup {NoWriter},
           p.at # "applied", p.at # "idle" => p.state \in States,
           p.at = "locked" => holder' = w,
           holder' = holder \/ holder = w \/ holder = NoWriter,
           p.at \in {"accepted", "replayed"} =>
              p.expected < Revision /\ revisions[p.expected + 1] = p.state,
           p.at # "accepted"
    PROVE  RecordInv'
<1>1. /\ put' \in [Writers -> Puts] /\ put'[w] = p
      /\ \A v \in Writers : v # w => put'[v] = put[v]
  BY Zenon DEF RecordInv, RecordType
<1>2. Revision' = Revision /\ mirror' <= Revision'
  BY Zenon DEF RecordInv, Revision
<1>3. RecordType'
  BY <1>1, Zenon DEF RecordInv, RecordType
<1>4. PutHolds'
  BY <1>1, <1>2, WriterConstants DEF RecordInv, PutHolds
<1>5. PutsDiffer'
  BY <1>1 DEF RecordInv, PutsDiffer
<1>6. AcceptedIsRecorded'
  BY <1>1, <1>2, Zenon DEF RecordInv, AcceptedIsRecorded
<1>7. QED
  BY <1>2, <1>3, <1>4, <1>5, <1>6, Zenon DEF RecordInv

\* Move keeps what the put asks for.
LEMMA MoveIs ==
    ASSUME RecordInv, NEW w \in Writers,
           NEW at \in {"asking", "locked", "replayed", "conflict", "applied", "accepted", "lost"},
           Move(w, at)
    PROVE  \E p \in Puts : /\ put' = [put EXCEPT ![w] = p]
                           /\ p.at = at /\ p.expected = put[w].expected /\ p.state = put[w].state
<1>1. put[w] \in Puts
  BY Zenon DEF RecordInv, RecordType
<1> DEFINE p == [put[w] EXCEPT !.at = at]
<1>2. p \in Puts /\ p.at = at /\ p.expected = put[w].expected /\ p.state = put[w].state
  BY <1>1, Zenon DEF Puts
<1>3. put' = [put EXCEPT ![w] = p]
  BY Zenon DEF Move
<1>4. QED
  BY <1>2, <1>3, Zenon

\* Asking for a put keeps the invariant.
LEMMA ProposeStep ==
    ASSUME RecordInv, NEW w \in Writers, Propose(w)
    PROVE  RecordInv'
<1>1. PICK state \in States, expected \in 0 .. Revision :
          put' = [put EXCEPT ![w] = [at |-> "asking", expected |-> expected, state |-> state]]
  BY Zenon DEF Propose
<1>2. Revision \in Nat
  BY DEF RecordInv, RecordType, Revision
<1> DEFINE p == [at |-> "asking", expected |-> expected, state |-> state]
<1>3. p \in Puts /\ p.at = "asking" /\ p.state \in States
  BY <1>2 DEF Puts
<1>4. put' = [put EXCEPT ![w] = p]
  BY <1>1, Zenon
<1> HIDE DEF p
<1>5. UNCHANGED <<revisions, mirror, holder>> /\ holder \in Writers \cup {NoWriter}
  BY Zenon DEF Propose, RecordInv, RecordType
<1>6. QED
  BY <1>3, <1>4, <1>5, PutMoves, Zenon

\* A retry, the lock, and a lost answer.
LEMMA WaitStep ==
    ASSUME RecordInv, NEW w \in Writers, Retry(w) \/ Lock(w) \/ Lose(w)
    PROVE  RecordInv'
<1>1. PICK at \in {"asking", "locked", "lost"} : Move(w, at) /\ (at = "locked" => holder' = w)
  BY Zenon DEF Retry, Lock, Lose
<1>2. PICK p \in Puts : /\ put' = [put EXCEPT ![w] = p]
                       /\ p.at = at /\ p.expected = put[w].expected /\ p.state = put[w].state
  BY <1>1, MoveIs
<1>3. put[w].state \in States
  BY Zenon DEF RecordInv, PutHolds, Retry, Lock, Lose
<1>4. /\ UNCHANGED <<revisions, mirror>> /\ holder' \in Writers \cup {NoWriter}
      /\ holder' = holder \/ holder = w \/ holder = NoWriter
  BY Zenon DEF Retry, Lock, Lose, RecordInv, RecordType
<1>5. QED
  BY <1>1, <1>2, <1>3, <1>4, PutMoves, Zenon

\* The decision: a put that made its revision is recognised, one against another
\* revision is refused, and one against the latest makes the next.
LEMMA DecideStep ==
    ASSUME RecordInv, NEW w \in Writers, Decide(w)
    PROVE  RecordInv'
<1>1. /\ put[w].state \in States /\ holder = w /\ put[w] \in Puts /\ Revision \in Nat
      /\ mirror' = mirror
  BY DEF RecordInv, RecordType, PutHolds, Decide, Revision
<1>2. CASE /\ Revision = put[w].expected + 1 /\ revisions[Revision] = put[w].state
           /\ Move(w, "replayed") /\ holder' = NoWriter /\ UNCHANGED revisions
  <2>1. PICK p \in Puts : /\ put' = [put EXCEPT ![w] = p]
                         /\ p.at = "replayed" /\ p.expected = put[w].expected /\ p.state = put[w].state
    BY <1>2, MoveIs, ZenonT(30)
  <2>2. p.expected < Revision /\ revisions[p.expected + 1] = p.state
    BY <1>1, <1>2, <2>1 DEF Puts
  <2>3. QED
    BY <1>1, <1>2, <2>1, <2>2, PutMoves, Zenon
<1>3. CASE Move(w, "conflict") /\ holder' = NoWriter /\ UNCHANGED revisions
  <2>1. PICK p \in Puts : /\ put' = [put EXCEPT ![w] = p]
                         /\ p.at = "conflict" /\ p.expected = put[w].expected /\ p.state = put[w].state
    BY <1>3, MoveIs
  <2>2. QED
    BY <1>1, <1>3, <2>1, PutMoves, Zenon
<1>4. CASE /\ Revision = put[w].expected
           /\ revisions' = Append(revisions, put[w].state)
           /\ Move(w, "applied") /\ UNCHANGED holder
  <2>1. PICK p \in Puts : /\ put' = [put EXCEPT ![w] = p]
                         /\ p.at = "applied" /\ p.expected = put[w].expected /\ p.state = put[w].state
    BY <1>4, MoveIs
  <2>2. /\ put' \in [Writers -> Puts] /\ put'[w] = p
        /\ \A v \in Writers : v # w => put'[v] = put[v]
    BY <2>1, Zenon DEF RecordInv, RecordType
  <2>3. /\ revisions' \in Seq(States) /\ Revision' = Revision + 1
        /\ revisions'[Revision + 1] = put[w].state
        /\ \A i \in 1 .. Revision : revisions'[i] = revisions[i]
    BY <1>1, <1>4 DEF RecordInv, RecordType, Revision
  <2>4. RecordType' /\ mirror' <= Revision'
    BY <1>1, <1>4, <2>2, <2>3 DEF RecordInv, RecordType
  <2>5. \A v \in Writers : v # w => put[v].at \notin {"locked", "applied"}
    BY <1>1, Zenon DEF RecordInv, PutHolds
  <2>6. PutHolds'
    BY <1>1, <1>4, <2>1, <2>2, <2>3, <2>5, ZenonT(30) DEF RecordInv, PutHolds
  <2>7. AcceptedIsRecorded'
    <3>1. SUFFICES ASSUME NEW v \in Writers, put'[v].at \in {"accepted", "replayed", "applied"}
                   PROVE  put'[v].expected < Revision' /\ revisions'[put'[v].expected + 1] = put'[v].state
      BY ZenonT(30) DEF AcceptedIsRecorded
    <3>2. CASE v = w
      <4>1. put'[v].expected = Revision /\ put'[v].state = put[w].state
        BY <1>4, <2>1, <2>2, <3>2, Zenon
      <4>2. QED
        BY <1>1, <2>3, <4>1
    <3>3. CASE v # w
      <4>1. put'[v] = put[v] /\ put[v].expected \in Nat
        BY <2>2, <3>3, Zenon DEF RecordInv, RecordType, Puts
      <4>2. put[v].expected < Revision /\ revisions[put[v].expected + 1] = put[v].state
        BY <3>1, <4>1, Zenon DEF RecordInv, AcceptedIsRecorded
      <4>3. QED
        BY <1>1, <2>3, <4>1, <4>2
    <3>4. QED
      BY <3>2, <3>3, ZenonT(30)
  <2>8. PutsDiffer'
    BY <1>1, <1>4, <2>1, <2>2 DEF RecordInv, RecordType, PutsDiffer, AcceptedIsRecorded, Puts
  <2>9. QED
    BY <2>4, <2>6, <2>7, <2>8, Zenon DEF RecordInv
<1>5. QED
  BY <1>2, <1>3, <1>4, Zenon DEF Decide

\* The mirror is written by the holder of the lock, at the latest revision.
LEMMA MirrorStep ==
    ASSUME RecordInv, NEW w \in Writers, Mirror(w)
    PROVE  RecordInv' /\ mirror' = Revision
<1>1. /\ put[w].state \in States /\ holder = w /\ put[w] \in Puts
      /\ Revision \in Nat /\ Revision = put[w].expected + 1
  BY DEF RecordInv, RecordType, PutHolds, Mirror, Revision
<1>2. UNCHANGED <<revisions, Revision>> /\ holder' = NoWriter /\ mirror' = Revision
  BY <1>1, Zenon DEF Mirror, Revision
<1>3. PICK p \in Puts : /\ put' = [put EXCEPT ![w] = p]
                       /\ p.at = "accepted" /\ p.expected = put[w].expected /\ p.state = put[w].state
  BY MoveIs DEF Mirror
<1>4. /\ put' \in [Writers -> Puts] /\ put'[w] = p
      /\ \A v \in Writers : v # w => put'[v] = put[v]
  BY <1>3, Zenon DEF RecordInv, RecordType
<1>5. RecordType' /\ mirror' <= Revision'
  BY <1>1, <1>2, <1>4 DEF RecordInv, RecordType
<1>6. put[w].at = "applied" /\ \A v \in Writers : v # w => put[v].at \notin {"locked", "applied"}
  BY <1>1, Zenon DEF RecordInv, PutHolds, Mirror
<1>7. PutHolds'
  BY <1>1, <1>2, <1>3, <1>4, <1>6, Zenon DEF RecordInv, PutHolds
<1>8. PutsDiffer'
  BY <1>3, <1>4, <1>6 DEF RecordInv, PutsDiffer
<1>9. AcceptedIsRecorded'
  BY <1>2, <1>3, <1>4, <1>6, ZenonT(30) DEF RecordInv, AcceptedIsRecorded
<1>10. QED
  BY <1>2, <1>5, <1>7, <1>8, <1>9, Zenon DEF RecordInv

\* Every step of the record store keeps its invariant.
LEMMA RecordsInductive ==
    ASSUME RecordInv, [RecordsNext]_recordVars
    PROVE  RecordInv' /\ mirror <= mirror'
<1>1. mirror \in Nat /\ mirror <= Revision
  BY Zenon DEF RecordInv, RecordType
<1>2. CASE \E w \in Writers : Propose(w)
  <2>1. RecordInv'
    BY <1>2, ProposeStep, Zenon
  <2>2. mirror' = mirror
    BY <1>2, Zenon DEF Propose
  <2>3. QED
    BY <1>1, <2>1, <2>2
<1>3. CASE \E w \in Writers : Retry(w) \/ Lock(w) \/ Lose(w)
  BY <1>1, <1>3, WaitStep DEF Retry, Lock, Lose
<1>4. CASE \E w \in Writers : Decide(w)
  <2>1. RecordInv'
    BY <1>4, DecideStep, Zenon
  <2>2. mirror' = mirror
    BY <1>4, Zenon DEF Decide
  <2>3. QED
    BY <1>1, <2>1, <2>2
<1>5. CASE \E w \in Writers : Mirror(w)
  BY <1>1, <1>5, MirrorStep, Zenon
<1>6. CASE UNCHANGED recordVars
  <2>1. UNCHANGED <<revisions, mirror, holder, put>> /\ Revision' = Revision
    BY <1>6, Zenon DEF recordVars, Revision
  <2>2. RecordType' /\ PutHolds'
    BY <2>1, Zenon DEF RecordInv, RecordType, PutHolds
  <2>3. PutsDiffer' /\ AcceptedIsRecorded'
    BY <2>1, Zenon DEF RecordInv, PutsDiffer, AcceptedIsRecorded
  <2>4. QED
    BY <1>1, <2>1, <2>2, <2>3 DEF RecordInv
<1>7. QED
  BY <1>2, <1>3, <1>4, <1>5, <1>6, Zenon DEF RecordsNext

\* The task extension and the task checkpoints keep their promises (tasks.cpp,
\* indexed_jobs.cpp), for any principals, calls, writers and states.
THEOREM TasksAreSound == TasksSpec => TasksSound
<1>1. ServiceInit => TaskInv
  BY ServiceInitHolds, Zenon
<1>2. TaskInv /\ [ServiceNext]_taskVars => TaskInv'
  BY ServiceInductive, Zenon
<1>3. RecordsInit => RecordInv
  BY RecordsInitHolds, Zenon
<1>4. RecordInv /\ [RecordsNext]_recordVars => RecordInv'
  BY RecordsInductive, Zenon
<1>5. TaskInv => TerminalAnswerUnique /\ AnswersOwner
  BY ZenonT(30) DEF TaskInv, CallsFollow, TerminalAnswerUnique, AnswersOwner
<1>6. RecordInv => AcceptedIsRecorded /\ NoLostUpdate
  BY Zenon DEF RecordInv, PutsDiffer, NoLostUpdate
<1>7. TaskInv /\ [ServiceNext]_taskVars =>
        [\A c \in Calls : taskCall[c].answer.of \in Over /\ taskCall'[c].at = "answered"
                          => taskCall'[c].answer = taskCall[c].answer]_taskVars
  BY AnswerStands, Zenon
<1>8. RecordInv /\ RecordInv' /\ [RecordsNext]_recordVars =>
        [mirror <= mirror' /\ mirror' <= Len(revisions')]_recordVars
  BY RecordsInductive, Zenon DEF RecordInv, Revision
<1>9. QED
  BY <1>1, <1>2, <1>3, <1>4, <1>5, <1>6, <1>7, <1>8, PTL
     DEF TasksSpec, TasksSound, TerminalAnswerFinal, MirrorFollows

--------------------------------------------------------------------------------
(*****************************************************************************)
(* Cancellation tokens. A callback's function is taken once: it is there,    *)
(* running, finished or withdrawn. A subscriber that found a token cancelled *)
(* when it began still has a cancelled token ahead of it, or remembers one,  *)
(* or is running the callback itself, or has seen it run.                    *)
(*****************************************************************************)
\* Subscribers are named apart from tokens, and "none" is nobody.
NamedApart == All \cap {"Child", "Parent", "none"} = {}

Walks == {<<"Child", "Parent">>, <<"Parent">>, <<>>}
Flagged(w) == \E i \in 1 .. Len(w) : flag[w[i]]
Subscriptions ==
    [at : {"new", "walking", "notifying", "armed", "reset"}, left : Walks, notify : BOOLEAN, early : BOOLEAN,
     has : BOOLEAN, by : Actors \cup {"none"}, fired : {0, 1}]
TokenTyped == /\ flag \in [Tokens -> BOOLEAN]
              /\ sub \in [All -> Subscriptions]
              /\ todo \in [Actors -> SUBSET All]
              /\ entries \in [Tokens -> SUBSET All]

\* The function of a callback: still there, running, or gone because it ran or was withdrawn.
TakenOnce(s) ==
    /\ sub[s].has => sub[s].fired = 0 /\ sub[s].by = "none" /\ sub[s].at # "reset"
    /\ sub[s].by # "none" => sub[s].fired = 0 /\ sub[s].at # "reset"
    /\ ~sub[s].has /\ sub[s].by = "none" /\ sub[s].at # "reset" => sub[s].fired = 1
\* Where a subscription is on its walk.
OnWalk(s) ==
    /\ sub[s].at = "new" => sub[s].left = Walk(s) /\ ~sub[s].early
    /\ sub[s].at \in {"notifying", "armed", "reset"} => sub[s].left = <<>>
\* An early cancellation is not lost on the walk.
EarlySeen(s) ==
    /\ sub[s].at = "walking" /\ sub[s].early => sub[s].notify \/ Flagged(sub[s].left)
    /\ sub[s].at = "notifying" => s \in todo[s] \/ sub[s].fired = 1
    /\ sub[s].at = "armed" /\ sub[s].early => sub[s].fired = 1

TokenInv == TokenTyped /\ \A s \in All : TakenOnce(s) /\ OnWalk(s) /\ EarlySeen(s)

\* What the walk of a subscription still has to visit.
LEMMA WalkFacts ==
    ASSUME NEW w \in Walks, w # <<>>
    PROVE  /\ Head(w) \in Tokens /\ Tail(w) \in Walks
           /\ Flagged(w) => flag[Head(w)] \/ Flagged(Tail(w))
<1>1. CASE w = <<"Child", "Parent">>
  BY <1>1 DEF Walks, Tokens, Flagged
<1>2. CASE w = <<"Parent">>
  BY <1>2 DEF Walks, Tokens, Flagged
<1> QED BY <1>1, <1>2, Zenon DEF Walks

\* A step that leaves a subscription alone and takes no flag back keeps what is known of it.
LEMMA Untouched ==
    ASSUME TokenInv, NEW s \in All, sub'[s] = sub[s], flag' \in [Tokens -> BOOLEAN],
           \A t \in Tokens : flag[t] => flag'[t], s \in todo[s] => s \in todo'[s]
    PROVE  (TakenOnce(s) /\ OnWalk(s) /\ EarlySeen(s))'
<1>1. TakenOnce(s)' /\ OnWalk(s)'
  BY ZenonT(30) DEF TokenInv, TakenOnce, OnWalk, Walk
<1>2. Flagged(sub[s].left) => Flagged(sub[s].left)'
  <2>1. sub[s].left \in Walks
    BY ZenonT(30) DEF TokenInv, TokenTyped, Subscriptions
  <2>2. \A w \in Walks : \A i \in 1 .. Len(w) : w[i] \in Tokens
    BY DEF Walks, Tokens
  <2> QED BY <2>1, <2>2, ZenonT(30) DEF Flagged
<1>3. EarlySeen(s)'
  BY <1>2, Zenon DEF TokenInv, EarlySeen
<1> QED BY <1>1, <1>3, ZenonT(30)

\* Nobody has subscribed yet.
LEMMA TokenStarts == TokenInit /\ NamedApart => TokenInv
  BY DEF TokenInit, NamedApart, TokenInv, TokenTyped, Subscriptions, Walks, Walk, Tokens, Actors, TakenOnce, OnWalk,
         EarlySeen

\* subscribe visits one token.
LEMMA SubscribeStep ==
    ASSUME TokenInv, NEW s \in All, Subscribe(s)
    PROVE  TokenInv'
<1> DEFINE w == sub[s].left
           met == flag[Head(w)]
           early == sub[s].early \/ (sub[s].at = "new" /\ Flagged(Walk(s)))
<1>1. /\ sub \in [All -> Subscriptions] /\ flag \in [Tokens -> BOOLEAN] /\ todo \in [Actors -> SUBSET All]
      /\ sub[s] \in Subscriptions /\ w \in Walks
  BY Zenon DEF TokenInv, TokenTyped, Subscriptions
<1>2. UNCHANGED <<flag, todo>> /\ w # <<>>
  BY Zenon DEF Subscribe
<1>3. Head(w) \in Tokens /\ Tail(w) \in Walks /\ (Flagged(w) => met \/ Flagged(Tail(w)))
  BY <1>1, <1>2, WalkFacts, ZenonT(30)
<1>4. early \in BOOLEAN /\ met \in BOOLEAN
  BY <1>1, <1>3, ZenonT(30) DEF Flagged, Subscriptions
<1>5. sub' = [sub EXCEPT ![s] = [sub[s] EXCEPT !.left = Tail(w), !.at = "walking",
                                               !.notify = sub[s].notify \/ met, !.early = early]]
  BY <1>1, ZenonT(30) DEF Subscribe, Flagged, Subscriptions
<1>6. /\ sub' \in [All -> Subscriptions] /\ sub'[s].left = Tail(w) /\ sub'[s].at = "walking"
      /\ sub'[s].notify = (sub[s].notify \/ met) /\ sub'[s].early = early
      /\ sub'[s].has = sub[s].has /\ sub'[s].by = sub[s].by /\ sub'[s].fired = sub[s].fired
      /\ \A r \in All \ {s} : sub'[r] = sub[r]
  <2> HIDE DEF early, met
  <2> QED BY <1>1, <1>3, <1>4, <1>5, ZenonT(30) DEF Subscriptions
<1>7. sub[s].at \in {"new", "walking"}
  BY <1>1, <1>2, ZenonT(30) DEF TokenInv, OnWalk, Subscriptions
<1>8. sub'[s].early => sub'[s].notify \/ Flagged(Tail(w))
  BY <1>3, <1>6, <1>7, ZenonT(30) DEF TokenInv, OnWalk, EarlySeen
<1>9. TakenOnce(s)' /\ OnWalk(s)'
  BY <1>6, <1>7, ZenonT(30) DEF TokenInv, TakenOnce, OnWalk
<1>10. EarlySeen(s)'
  BY <1>2, <1>6, <1>8, ZenonT(30) DEF EarlySeen, Flagged
<1>11. \A r \in All \ {s} : (TakenOnce(r) /\ OnWalk(r) /\ EarlySeen(r))'
  BY <1>1, <1>2, <1>6, Untouched, ZenonT(30)
<1>12. entries' \in [Tokens -> SUBSET All]
  BY <1>3, Zenon DEF Subscribe, TokenInv, TokenTyped
<1> QED BY <1>1, <1>2, <1>6, <1>9, <1>10, <1>11, <1>12, ZenonT(30) DEF TokenInv, TokenTyped

\* The walk is over: the subscriber notifies itself, or is armed.
LEMMA SubscribedStep ==
    ASSUME TokenInv, NEW s \in All, Subscribed(s) \/ SelfNotified(s)
    PROVE  TokenInv'
<1>1. /\ sub \in [All -> Subscriptions] /\ flag \in [Tokens -> BOOLEAN] /\ todo \in [Actors -> SUBSET All]
      /\ sub[s] \in Subscriptions /\ s \in Actors
  BY Zenon DEF TokenInv, TokenTyped, Actors
<1>2. PICK goal \in {"notifying", "armed"} :
      /\ sub' = [sub EXCEPT ![s].at = goal] /\ UNCHANGED flag
      /\ todo' = IF sub[s].at = "walking" /\ goal = "notifying" THEN [todo EXCEPT ![s] = {s}] ELSE todo
      /\ goal = "notifying" => sub[s].at = "walking"
      /\ sub[s].at = "walking" => sub[s].left = <<>> /\ (sub[s].notify <=> goal = "notifying")
      /\ sub[s].at = "notifying" => todo[s] = {}
      /\ sub[s].at \in {"walking", "notifying"}
  BY Zenon DEF Subscribed, SelfNotified
<1>3. /\ sub' \in [All -> Subscriptions] /\ sub'[s] = [sub[s] EXCEPT !.at = goal]
      /\ \A r \in All \ {s} : sub'[r] = sub[r]
  BY <1>1, <1>2, Zenon DEF Subscriptions
<1>4. /\ sub'[s].at = goal /\ sub'[s].left = sub[s].left /\ sub'[s].early = sub[s].early
      /\ sub'[s].has = sub[s].has /\ sub'[s].by = sub[s].by /\ sub'[s].fired = sub[s].fired
  BY <1>1, <1>3 DEF Subscriptions
<1>5. todo' \in [Actors -> SUBSET All] /\ (goal = "notifying" => s \in todo'[s])
      /\ \A r \in All \ {s} : todo'[r] = todo[r]
  BY <1>1, <1>2, Zenon DEF Actors
<1>6. TakenOnce(s)' /\ OnWalk(s)'
  BY <1>2, <1>4 DEF TokenInv, TakenOnce, OnWalk
<1>7. EarlySeen(s)'
  <2>1. CASE goal = "notifying"
    BY <1>4, <1>5, <2>1, ZenonT(30) DEF EarlySeen
  <2>2. CASE goal = "armed" /\ sub[s].at = "walking"
    <3>1. ~Flagged(<<>>)
      BY DEF Flagged
    <3> QED BY <1>2, <1>4, <2>2, <3>1 DEF TokenInv, EarlySeen
  <2>3. CASE goal = "armed" /\ sub[s].at = "notifying"
    BY <1>2, <1>4, <2>3 DEF TokenInv, EarlySeen
  <2> QED BY <1>2, <2>1, <2>2, <2>3, Zenon
<1>8. \A r \in All \ {s} : (TakenOnce(r) /\ OnWalk(r) /\ EarlySeen(r))'
  BY <1>1, <1>2, <1>3, <1>5, Untouched
<1>9. UNCHANGED entries
  BY Zenon DEF Subscribed, SelfNotified
<1> QED BY <1>1, <1>2, <1>3, <1>5, <1>6, <1>7, <1>8, <1>9 DEF TokenInv, TokenTyped

\* A cancellation takes a token's list; it touches no subscription.
LEMMA CancelStep ==
    ASSUME NamedApart, TokenInv, NEW t \in Tokens, Cancel(t)
    PROVE  TokenInv'
<1>1. flag \in [Tokens -> BOOLEAN] /\ todo \in [Actors -> SUBSET All] /\ entries \in [Tokens -> SUBSET All]
  BY Zenon DEF TokenInv, TokenTyped
<1>2. /\ flag' = [flag EXCEPT ![t] = TRUE] /\ UNCHANGED sub
      /\ todo' = [todo EXCEPT ![t] = entries[t]] /\ entries' = [entries EXCEPT ![t] = {}]
  BY Zenon DEF Cancel
<1>3. flag' \in [Tokens -> BOOLEAN] /\ (\A u \in Tokens : flag[u] => flag'[u])
  BY <1>1, <1>2, Zenon
<1>4. todo' \in [Actors -> SUBSET All] /\ entries' \in [Tokens -> SUBSET All]
  BY <1>1, <1>2, ZenonT(30)
<1>5. \A s \in All : todo'[s] = todo[s]
  BY <1>1, <1>2, Zenon DEF NamedApart, Tokens, Actors
<1>6. \A s \in All : (TakenOnce(s) /\ OnWalk(s) /\ EarlySeen(s))'
  BY <1>2, <1>3, <1>5, Untouched, ZenonT(30)
<1> QED BY <1>2, <1>3, <1>4, <1>6, ZenonT(30) DEF TokenInv, TokenTyped

\* A callback's function is taken, has run, or is withdrawn.
LEMMA CallbackStep ==
    ASSUME NamedApart, TokenInv, NEW s \in All,
           Reset(s) \/ \E h \in Actors : Notify(h, s) \/ Called(h, s)
    PROVE  TokenInv'
<1>1. /\ sub \in [All -> Subscriptions] /\ flag \in [Tokens -> BOOLEAN] /\ todo \in [Actors -> SUBSET All]
      /\ sub[s] \in Subscriptions /\ UNCHANGED <<flag, entries>>
  BY Zenon DEF TokenInv, TokenTyped, Reset, Notify, Called
<1>2. TakenOnce(s) /\ OnWalk(s) /\ EarlySeen(s)
  BY Zenon DEF TokenInv
<1> DEFINE others == \A r \in All \ {s} : sub'[r] = sub[r] /\ (r \in todo[r] => r \in todo'[r])
           own == TakenOnce(s)' /\ OnWalk(s)' /\ EarlySeen(s)'
           typed == sub' \in [All -> Subscriptions] /\ todo' \in [Actors -> SUBSET All]
<1>3. ASSUME Reset(s)
      PROVE  own /\ others /\ typed
  <2>1. /\ sub' = [sub EXCEPT ![s] = [sub[s] EXCEPT !.at = "reset", !.has = FALSE]] /\ UNCHANGED todo
        /\ sub[s].at = "armed" /\ sub[s].by = "none"
    BY <1>1, <1>3, ZenonT(30) DEF Reset, Subscriptions
  <2>2. /\ typed /\ others /\ sub'[s].at = "reset" /\ sub'[s].has = FALSE /\ sub'[s].left = sub[s].left
        /\ sub'[s].by = sub[s].by /\ sub'[s].fired = sub[s].fired /\ sub'[s].early = sub[s].early
    BY <1>1, <2>1, ZenonT(30) DEF Subscriptions
  <2>3. own
    BY <1>2, <2>1, <2>2 DEF TakenOnce, OnWalk, EarlySeen
  <2> QED BY <2>2, <2>3, ZenonT(30)
<1>4. ASSUME NEW h \in Actors, Notify(h, s)
      PROVE  own /\ others /\ typed
  <2>1. CASE sub[s].has
    <3>1. sub' = [sub EXCEPT ![s] = [sub[s] EXCEPT !.has = FALSE, !.by = h]] /\ UNCHANGED todo /\ h # "none"
      BY <1>1, <1>4, <2>1 DEF Notify, Subscriptions, NamedApart, Actors, Tokens
    <3>2. /\ typed /\ others /\ sub'[s].at = sub[s].at /\ sub'[s].has = FALSE /\ sub'[s].left = sub[s].left
          /\ sub'[s].by = h /\ sub'[s].fired = sub[s].fired /\ sub'[s].early = sub[s].early
          /\ sub'[s].notify = sub[s].notify
      BY <1>1, <1>4, <3>1, ZenonT(30) DEF Subscriptions
    <3>3. own
      BY <1>1, <1>2, <2>1, <3>1, <3>2 DEF TakenOnce, OnWalk, EarlySeen, Flagged, Walk
    <3> QED BY <3>2, <3>3, ZenonT(30)
  <2>2. CASE ~sub[s].has
    <3>1. UNCHANGED sub /\ todo' = [todo EXCEPT ![h] = @ \ {s}] /\ sub[s].by = "none"
      BY <1>4, <2>2, Zenon DEF Notify
    <3>2. typed /\ others
      BY <1>1, <3>1, ZenonT(30) DEF Actors
    <3>3. sub[s].at # "reset" => sub[s].fired = 1
      BY <1>2, <2>2, <3>1, ZenonT(30) DEF TakenOnce
    <3>4. own
      BY <1>1, <1>2, <3>1, <3>3, ZenonT(30) DEF TakenOnce, OnWalk, EarlySeen, Flagged, Walk
    <3> QED BY <3>2, <3>4, ZenonT(30)
  <2> QED BY <2>1, <2>2, ZenonT(30)
<1>5. ASSUME NEW h \in Actors, Called(h, s)
      PROVE  own /\ others /\ typed
  <2>1. sub[s].by # "none"
    BY <1>5, Zenon DEF Called, NamedApart, Actors, Tokens
  <2>2. sub[s].fired = 0 /\ ~sub[s].has /\ sub[s].at # "reset"
    BY <1>2, <2>1, ZenonT(30) DEF TakenOnce
  <2>3. /\ sub' \in [All -> Subscriptions] /\ \A r \in All \ {s} : sub'[r] = sub[r]
        /\ sub'[s].at = sub[s].at /\ sub'[s].has = sub[s].has /\ sub'[s].left = sub[s].left
        /\ sub'[s].by = "none" /\ sub'[s].fired = 1 /\ sub'[s].early = sub[s].early
        /\ sub'[s].notify = sub[s].notify
    <3>1. sub' = [sub EXCEPT ![s] = [sub[s] EXCEPT !.by = "none", !.fired = 1]]
      BY <1>1, <1>5, <2>2 DEF Called, Subscriptions
    <3> QED BY <1>1, <3>1, ZenonT(30) DEF Subscriptions
  <2>4. todo' \in [Actors -> SUBSET All] /\ \A r \in All \ {s} : r \in todo[r] => r \in todo'[r]
    BY <1>1, <1>5, Zenon DEF Called, Actors
  <2>5. own
    BY <1>1, <1>2, <2>2, <2>3, ZenonT(30) DEF TakenOnce, OnWalk, EarlySeen, Flagged, Walk
  <2> QED BY <2>3, <2>4, <2>5, ZenonT(30)
<1>6. own /\ others /\ typed
  BY <1>3, <1>4, <1>5, ZenonT(30)
<1>7. \A r \in All \ {s} : (TakenOnce(r) /\ OnWalk(r) /\ EarlySeen(r))'
  BY <1>1, <1>6, Untouched, ZenonT(30)
<1> QED BY <1>1, <1>6, <1>7, ZenonT(30) DEF TokenInv, TokenTyped

\* A callback runs at most once whichever of its tokens is cancelled and whoever notifies
\* it, reset returns only when it is not running, and a subscription to a token that was
\* already cancelled has run it before it returns: for any number of subscribers.
THEOREM CallbacksKept ==
    ASSUME NamedApart
    PROVE  TokenSpec => []CallbackContract
<1>1. TokenInit => TokenInv
  BY TokenStarts, Zenon
<1>2. TokenInv /\ [TokenNext]_cancelVars => TokenInv'
  <2>1. SUFFICES ASSUME TokenInv, [TokenNext]_cancelVars PROVE TokenInv'
    BY Zenon
  <2>2. CASE UNCHANGED <<flag, entries, todo, sub>>
    BY <2>1, <2>2, ZenonT(30) DEF TokenInv, TokenTyped, TakenOnce, OnWalk, EarlySeen, Flagged
  <2>3. CASE TokenWaiting \/ UNCHANGED cancelVars
    BY <2>2, <2>3, ZenonT(30) DEF TokenWaiting, StartWait, LockToTest, Sleep, LeaveWait, cancelVars
  <2> QED BY <2>1, <2>3, SubscribeStep, SubscribedStep, CancelStep, CallbackStep, ZenonT(30) DEF TokenNext, SubStep, Notifying
<1>3. TokenInv => CallbackContract
  <2>1. ASSUME TokenInv, NEW s \in All
        PROVE  sub[s].fired \in {0, 1} /\ TakenOnce(s) /\ EarlySeen(s)
    BY <2>1 DEF TokenInv, TokenTyped, Subscriptions
  <2> QED BY <2>1 DEF CallbackContract, TakenOnce, EarlySeen
<1> QED BY <1>1, <1>2, <1>3, PTL DEF TokenSpec

--------------------------------------------------------------------------------
(*****************************************************************************)
(* The worker pool. A caller's continuation is taken out of the race once,   *)
(* and a caller that was resumed has no continuation left.                   *)
(*****************************************************************************)
RaceTyped == /\ race \in [Tasks -> {"new", "open", "full", "refused", "value", "timer", "cancel", "resumed"}]
             /\ resumed \in [Tasks -> {0, 1}]
             /\ \A t \in Tasks : resumed[t] = 1 => race[t] = "resumed"

\* A caller is resumed at most once, whatever combination of completion, timer,
\* cancellation and refusal happens.
THEOREM CallersResumed == WorkersSpec => []ResumedOnce
<1>1. WorkersInit => RaceTyped
  BY DEF WorkersInit, RaceTyped
<1>2. RaceTyped /\ [WorkersNext]_workersVars => RaceTyped'
  <2>1. SUFFICES ASSUME RaceTyped, [WorkersNext]_workersVars PROVE RaceTyped'
    BY Zenon
  <2>2. ASSUME UNCHANGED <<race, resumed>> PROVE RaceTyped'
    BY <2>1, <2>2, Zenon DEF RaceTyped
  <2>3. ASSUME NEW t, NEW by \in {"refused", "value", "timer", "cancel"}, Complete(t, by), UNCHANGED resumed
        PROVE  RaceTyped'
    BY <2>1, <2>3, ZenonT(30) DEF Complete, RaceTyped
  <2>4. ASSUME NEW t \in Tasks, Enqueue(t) PROVE RaceTyped'
    <3>1. /\ race' \in {[race EXCEPT ![t] = "full"], [race EXCEPT ![t] = "open"]} /\ UNCHANGED resumed
          /\ race[t] = "new"
      BY <2>4, ZenonT(30) DEF Enqueue
    <3> QED BY <2>1, <3>1 DEF RaceTyped
  <2>5. ASSUME NEW t \in Tasks, Deadline(t) \/ CancelCall(t) PROVE RaceTyped'
    BY <2>2, <2>3, <2>5 DEF Deadline, CancelCall
  <2>6. ASSUME NEW t \in Tasks, Resume(t) PROVE RaceTyped'
    BY <2>1, <2>6 DEF Resume, RaceTyped
  <2>7. ASSUME NEW k \in Workers, WorkerStep(k) PROVE RaceTyped'
    BY <2>2, <2>3, <2>7, Zenon DEF WorkerStep, Take, Begin, Done
  <2>8. CASE Stop \/ UNCHANGED workersVars
    BY <2>2, <2>8, Zenon DEF Stop, workersVars
  <2> QED BY <2>1, <2>4, <2>5, <2>6, <2>7, <2>8, Zenon DEF WorkersNext
<1>3. RaceTyped => ResumedOnce
  BY DEF RaceTyped, ResumedOnce
<1> QED BY <1>1, <1>2, <1>3, PTL DEF WorkersSpec

\* Whatever the interleaving of cancellations, notifications, timers, workers and the stop
\* of the pool, no callback runs and no caller is resumed twice.
THEOREM RunOnce ==
    ASSUME NamedApart
    PROVE  TokenSpec /\ WorkersSpec => []CallbacksOnce
<1>1. CallbackContract /\ ResumedOnce => CallbacksOnce
  BY Zenon DEF CallbacksOnce
<1> QED BY <1>1, CallbacksKept, CallersResumed, PTL
==============================================================================
