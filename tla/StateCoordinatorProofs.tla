----------------------- MODULE StateCoordinatorProofs ------------------------
(***************************************************************************)
(* The state store, its coordinator and its clients implement the batch    *)
(* ledger, and keep one event per revision, for any number of clients,     *)
(* records, batches, coordinator restarts and calls.                       *)
(*                                                                         *)
(* The argument rests on Doomed: a batch that was refused once can never   *)
(* commit, because a revision never returns to an earlier value, a receipt *)
(* is never replaced and the receipt count never falls.                    *)
(***************************************************************************)
EXTENDS StateCoordinator, TLAPS

\* A call in progress, and one that was left uncertain, has a batch.
Pending == \A c \in Clients : pc[c] # "idle" \/ retained[c] => intent[c] # NoIntent

\* A receipt names its own batch, and a batch never expects a revision that is yet to come.
Receipts == \A b \in Batches : receipts[b] # NoIntent => receipts[b].batch = b

Behind(i) == \A k \in DOMAIN i.expects : i.expects[k] <= revision[k]

Expected ==
    /\ \A m \in requests : Behind(m.intent)
    /\ \A c \in Clients : intent[c] # NoIntent => Behind(intent[c])

\* A batch with this content is not committed and cannot be.
Doomed(i) ==
    \/ receipts[i.batch] # NoIntent /\ receipts[i.batch] # i
    \/ /\ receipts[i.batch] = NoIntent
       /\ \/ batchCount >= MaxReceipts
          \/ \E k \in DOMAIN i.expects : i.expects[k] >= MaxRevision
          \/ \E k \in DOMAIN i.expects : i.expects[k] < revision[k]

Truthful(i, code) ==
    /\ code \in Done => receipts[i.batch] = i
    /\ code \in Refused => Doomed(i)

\* A request belongs to a call of its client, a reply to the call in progress, and
\* what is on its way or was returned is the truth.
Messages ==
    /\ \A m \in requests :
        /\ m.nonce[2] <= calls[m.client]
        /\ m.nonce[2] = calls[m.client] => m.intent = intent[m.client]
    /\ \A r \in replies : pc[r.client] = "exchange" /\ Truthful(intent[r.client], r.code)
    /\ \A o \in outcomes : Truthful(o.intent, o.code)

\* The events of a run and the revisions of its record grow together.
Logged ==
    /\ \A k \in Keys :
        /\ revision[k] = Len(events[k])
        /\ \A n \in 1 .. Len(events[k]) :
            /\ receipts[events[k][n]] # NoIntent
            /\ k \in DOMAIN receipts[events[k][n]].expects
            /\ receipts[events[k][n]].expects[k] = n - 1
    /\ \A b \in Batches : receipts[b] # NoIntent =>
        \A k \in DOMAIN receipts[b].expects : \E n \in 1 .. Len(events[k]) : events[k][n] = b

LInv == TypeOK /\ Pending /\ Receipts /\ Expected /\ Messages /\ Logged
------------------------------------------------------------------------------
(* Batches.                                                                *)

\* The parts of a batch.
LEMMA IntentParts ==
    ASSUME NEW i \in Intents
    PROVE  /\ i.batch \in Batches
           /\ DOMAIN i.expects \subseteq Keys
           /\ \A k \in DOMAIN i.expects : i.expects[k] \in 0 .. MaxRevision
           /\ i = [batch |-> i.batch, expects |-> i.expects]
BY DEF Intents, Expectations

\* A batch built from revisions is a batch.
LEMMA BuiltBatch ==
    ASSUME NEW b \in Batches, NEW S \in SUBSET Keys \ {{}}, revision \in [Keys -> 0 .. MaxRevision]
    PROVE  [batch |-> b, expects |-> [k \in S |-> revision[k]]] \in Intents
<1>1. [k \in S |-> revision[k]] \in [S -> 0 .. MaxRevision]
  BY Zenon
<1>2. [k \in S |-> revision[k]] \in Expectations
  BY <1>1, Zenon DEF Expectations
<1> QED BY <1>2, Zenon DEF Intents

\* What a caller submits is a batch that expects no revision yet to come.
LEMMA SubmittedBatch ==
    ASSUME TypeOK, Pending, Expected, NEW c \in Clients, NEW i \in Submitted(c)
    PROVE  i \in Intents /\ Behind(i)
<1> DEFINE Built(b) == {[batch |-> b, expects |-> [k \in S |-> revision[k]]] : S \in SUBSET Keys \ {{}}}
<1>1. ASSUME NEW b \in Batches, i \in Built(b)
      PROVE  i \in Intents /\ Behind(i)
  <2>1. PICK S \in SUBSET Keys \ {{}} : i = [batch |-> b, expects |-> [k \in S |-> revision[k]]]
    BY <1>1, Zenon
  <2>2. revision \in [Keys -> 0 .. MaxRevision] /\ MaxRevision \in Nat
    BY StateConstants, Zenon DEF TypeOK
  <2>3. i \in Intents
    BY <2>1, <2>2, BuiltBatch, Zenon
  <2>4. i.expects = [k \in S |-> revision[k]]
    BY <2>1, Zenon
  <2> QED BY <2>2, <2>3, <2>4 DEF Behind
<1>2. CASE retained[c] /\ i = intent[c]
  BY <1>2, Zenon DEF TypeOK, Pending, Expected
<1>3. CASE retained[c] /\ i \in Built(intent[c].batch)
  <2>1. intent[c] \in Intents
    BY <1>3, Zenon DEF TypeOK, Pending
  <2> QED BY <2>1, <1>1, <1>3, IntentParts, Zenon
<1>4. CASE i \in UNION {Built(b) : b \in Fresh}
  BY <1>4, <1>1, Zenon DEF Fresh
<1> QED BY <1>2, <1>3, <1>4, Zenon DEF Submitted
------------------------------------------------------------------------------
(* The transaction.                                                        *)

\* The checks that a batch passes before it commits.
LEMMA Admitted ==
    ASSUME TypeOK, NEW i \in Intents, Applied(i) = "applied"
    PROVE  /\ receipts[i.batch] = NoIntent
           /\ batchCount < MaxReceipts
           /\ \A k \in DOMAIN i.expects : i.expects[k] < MaxRevision /\ revision[k] = i.expects[k]
<1>1. receipts[i.batch] = NoIntent /\ ~(batchCount >= MaxReceipts)
  BY Zenon DEF Applied
<1>2. /\ ~ \E k \in DOMAIN i.expects : i.expects[k] >= MaxRevision
      /\ ~ \E k \in DOMAIN i.expects : revision[k] # i.expects[k]
  BY <1>1, Zenon DEF Applied
<1>3. /\ batchCount \in Nat /\ MaxReceipts \in Nat /\ MaxRevision \in Nat
      /\ \A k \in DOMAIN i.expects : i.expects[k] \in Nat
  BY StateConstants, IntentParts DEF TypeOK
<1> QED BY <1>1, <1>2, <1>3

\* Such a batch is not doomed.
LEMMA AdmittedNotDoomed ==
    ASSUME TypeOK, NEW i \in Intents, Applied(i) = "applied"
    PROVE  ~Doomed(i)
<1>1. /\ batchCount \in Nat /\ MaxReceipts \in Nat /\ MaxRevision \in Nat
      /\ \A k \in DOMAIN i.expects : i.expects[k] \in Nat
  BY StateConstants, IntentParts DEF TypeOK
<1> QED BY <1>1, Admitted DEF Doomed

\* A batch that is refused is doomed, and one that is replayed is committed.
LEMMA AppliedTruthful ==
    ASSUME TypeOK, NEW i \in Intents, Behind(i), Applied(i) # "applied"
    PROVE  Truthful(i, Applied(i)) /\ Applied(i) \in Done \cup Refused
<1>1. /\ batchCount \in Nat /\ MaxReceipts \in Nat /\ MaxRevision \in Nat
      /\ \A k \in DOMAIN i.expects : i.expects[k] \in Nat /\ revision[k] \in Nat
  BY StateConstants, IntentParts DEF TypeOK
<1>2. CASE receipts[i.batch] # NoIntent
  BY <1>2, Zenon DEF Applied, Truthful, Doomed, Done, Refused
<1>3. CASE receipts[i.batch] = NoIntent /\ batchCount >= MaxReceipts
  BY <1>3, Zenon DEF Applied, Truthful, Doomed, Done, Refused
<1>4. CASE /\ receipts[i.batch] = NoIntent /\ ~(batchCount >= MaxReceipts)
           /\ \E k \in DOMAIN i.expects : i.expects[k] >= MaxRevision
  BY <1>4, Zenon DEF Applied, Truthful, Doomed, Done, Refused
<1>5. CASE /\ receipts[i.batch] = NoIntent /\ ~(batchCount >= MaxReceipts)
           /\ ~ \E k \in DOMAIN i.expects : i.expects[k] >= MaxRevision
           /\ \E k \in DOMAIN i.expects : revision[k] # i.expects[k]
  <2>1. \E k \in DOMAIN i.expects : i.expects[k] < revision[k]
    BY <1>1, <1>5 DEF Behind
  <2>2. Doomed(i)
    BY <1>5, <2>1, Zenon DEF Doomed
  <2>3. Applied(i) = "STATE_REVISION_CONFLICT"
    BY <1>5, Zenon DEF Applied
  <2> QED BY <2>2, <2>3, Zenon DEF Truthful, Done, Refused
<1> QED BY <1>2, <1>3, <1>4, <1>5, Zenon DEF Applied

\* What a transaction may do to the tables.
Grows(i) ==
    /\ revision' \in [Keys -> 0 .. MaxRevision]
    /\ receipts' \in [Batches -> Intents \cup {NoIntent}]
    /\ batchCount' \in 0 .. MaxReceipts
    /\ events' \in [Keys -> Seq(Batches)]
    /\ \A k \in Keys : revision[k] <= revision'[k]
    /\ batchCount <= batchCount'
    /\ \A b \in Batches :
        \/ receipts'[b] = receipts[b]
        \/ receipts[b] = NoIntent /\ b = i.batch /\ receipts'[b] = i /\ ~Doomed(i)

\* A transaction commits its batch as a whole, or changes nothing.
LEMMA TransactionGrows ==
    ASSUME TypeOK, NEW i \in Intents, ApplyOnce(i)
    PROVE  Grows(i)
<1>1. CASE Applied(i) = "applied"
  <2> Commit(i)
    BY <1>1, Zenon DEF ApplyOnce
  <2>1. /\ i.batch \in Batches /\ DOMAIN i.expects \subseteq Keys
        /\ batchCount < MaxReceipts /\ receipts[i.batch] = NoIntent
        /\ \A k \in DOMAIN i.expects : revision[k] < MaxRevision
    BY <1>1, IntentParts, Admitted, Zenon
  <2>2. /\ revision \in [Keys -> 0 .. MaxRevision] /\ batchCount \in 0 .. MaxReceipts
        /\ receipts \in [Batches -> Intents \cup {NoIntent}] /\ events \in [Keys -> Seq(Batches)]
        /\ MaxReceipts \in Nat /\ MaxRevision \in Nat
    BY StateConstants, Zenon DEF TypeOK
  <2>3. /\ revision' \in [Keys -> 0 .. MaxRevision]
        /\ \A k \in Keys : revision[k] <= revision'[k]
    BY <2>1, <2>2 DEF Commit
  <2>4. batchCount' \in 0 .. MaxReceipts /\ batchCount <= batchCount'
    BY <2>1, <2>2 DEF Commit
  <2>5. events' \in [Keys -> Seq(Batches)]
    BY <2>1, <2>2 DEF Commit
  <2>6. /\ receipts' \in [Batches -> Intents \cup {NoIntent}]
        /\ \A b \in Batches : receipts'[b] = IF b = i.batch THEN i ELSE receipts[b]
    BY <2>1, <2>2, Zenon DEF Commit
  <2>7. ~Doomed(i)
    BY <1>1, AdmittedNotDoomed, Zenon
  <2>8. \A b \in Batches :
            \/ receipts'[b] = receipts[b]
            \/ receipts[b] = NoIntent /\ b = i.batch /\ receipts'[b] = i /\ ~Doomed(i)
    BY <2>1, <2>6, <2>7, Zenon
  <2> QED BY <2>3, <2>4, <2>5, <2>6, <2>8, Zenon DEF Grows
<1>2. CASE Applied(i) # "applied"
  <2>1. UNCHANGED dbVars
    BY <1>2, Zenon DEF ApplyOnce
  <2>2. revision' = revision /\ receipts' = receipts /\ batchCount' = batchCount /\ events' = events
    BY <2>1, Zenon DEF dbVars
  <2>3. \A k \in Keys : revision[k] <= revision[k]
    BY StateConstants DEF TypeOK
  <2>4. batchCount <= batchCount
    BY StateConstants DEF TypeOK
  <2> QED BY <2>2, <2>3, <2>4, Zenon DEF Grows, TypeOK
<1> QED BY <1>1, <1>2, Zenon

\* A doomed batch stays doomed, and a committed one stays committed.
LEMMA TruthStays ==
    ASSUME TypeOK, NEW i \in Intents, Grows(i), NEW j \in Intents, NEW code, Truthful(j, code)
    PROVE  Truthful(j, code)'
<1>1. /\ batchCount \in Nat /\ MaxReceipts \in Nat /\ MaxRevision \in Nat /\ batchCount' \in Nat
      /\ j.batch \in Batches /\ i.batch \in Batches
      /\ \A k \in DOMAIN j.expects :
            /\ k \in Keys /\ j.expects[k] \in Nat
            /\ revision[k] \in Nat /\ revision'[k] \in Nat
  BY StateConstants, IntentParts DEF TypeOK, Grows
<1>2. NoIntent # i /\ NoIntent # j
  BY NoIntentIsNone, Zenon
<1>3. code \in Done => receipts'[j.batch] = j
  BY <1>1, <1>2, Zenon DEF Truthful, Grows
<1>4. ASSUME Doomed(j)
      PROVE  Doomed(j)'
  <2>1. CASE receipts[j.batch] # NoIntent
    BY <1>1, <1>4, <2>1, Zenon DEF Doomed, Grows
  <2>2. CASE receipts[j.batch] = NoIntent /\ receipts'[j.batch] # NoIntent
    <3>1. receipts'[j.batch] = i /\ ~Doomed(i)
      BY <1>1, <2>2, Zenon DEF Grows
    <3>2. i # j
      BY <1>4, <3>1, Zenon
    <3> QED BY <2>2, <3>1, <3>2, Zenon DEF Doomed
  <2>3. CASE receipts[j.batch] = NoIntent /\ receipts'[j.batch] = NoIntent
    <3>1. \/ batchCount >= MaxReceipts
          \/ \E k \in DOMAIN j.expects : j.expects[k] >= MaxRevision
          \/ \E k \in DOMAIN j.expects : j.expects[k] < revision[k]
      BY <1>4, <2>3, Zenon DEF Doomed
    <3>2. batchCount' >= batchCount /\ \A k \in DOMAIN j.expects : revision[k] <= revision'[k]
      BY <1>1, Zenon DEF Grows
    <3>3. \/ batchCount' >= MaxReceipts
          \/ \E k \in DOMAIN j.expects : j.expects[k] >= MaxRevision
          \/ \E k \in DOMAIN j.expects : j.expects[k] < revision'[k]
      BY <1>1, <3>1, <3>2
    <3> QED BY <2>3, <3>3, Zenon DEF Doomed
  <2> QED BY <2>1, <2>2, <2>3, Zenon
<1> QED BY <1>3, <1>4, Zenon DEF Truthful

\* A transaction keeps the events of each run in step with the revisions.
LEMMA TransactionLogged ==
    ASSUME TypeOK, Logged, NEW i \in Intents, ApplyOnce(i)
    PROVE  Logged'
<1>1. CASE Applied(i) = "applied"
  <2> Commit(i)
    BY <1>1, Zenon DEF ApplyOnce
  <2>1. /\ i.batch \in Batches /\ DOMAIN i.expects \subseteq Keys /\ i # NoIntent
        /\ receipts[i.batch] = NoIntent
        /\ \A k \in DOMAIN i.expects : revision[k] = i.expects[k]
    BY <1>1, IntentParts, Admitted, NoIntentIsNone, Zenon
  <2>2. /\ revision \in [Keys -> Nat] /\ events \in [Keys -> Seq(Batches)]
        /\ receipts \in [Batches -> Intents \cup {NoIntent}]
    BY StateConstants DEF TypeOK
  <2>3. \A b \in Batches : receipts'[b] = IF b = i.batch THEN i ELSE receipts[b]
    BY <2>1, <2>2, Zenon DEF Commit
  <2>4. ASSUME NEW k \in Keys
        PROVE  /\ revision'[k] = Len(events'[k])
               /\ \A n \in 1 .. Len(events'[k]) :
                    /\ receipts'[events'[k][n]] # NoIntent
                    /\ k \in DOMAIN receipts'[events'[k][n]].expects
                    /\ receipts'[events'[k][n]].expects[k] = n - 1
    <3>1. /\ events[k] \in Seq(Batches) /\ Len(events[k]) \in Nat /\ revision[k] = Len(events[k])
          /\ \A n \in 1 .. Len(events[k]) :
                /\ events[k][n] \in Batches
                /\ receipts[events[k][n]] # NoIntent
                /\ k \in DOMAIN receipts[events[k][n]].expects
                /\ receipts[events[k][n]].expects[k] = n - 1
      BY <2>2 DEF Logged
    <3>2. \A n \in 1 .. Len(events[k]) : receipts'[events[k][n]] = receipts[events[k][n]]
      BY <2>1, <2>3, <3>1, Zenon
    <3>3. CASE k \in DOMAIN i.expects
      <4>1. events'[k] = Append(events[k], i.batch) /\ revision'[k] = revision[k] + 1
        BY <3>3, Zenon DEF Commit
      <4>2. /\ Len(events'[k]) = Len(events[k]) + 1
            /\ events'[k][Len(events[k]) + 1] = i.batch
            /\ \A n \in 1 .. Len(events[k]) : events'[k][n] = events[k][n]
        BY <4>1, <3>1, <2>1
      <4>3. i.expects[k] = Len(events[k])
        BY <3>3, <3>1, <2>1, Zenon
      <4>4. revision'[k] = Len(events'[k])
        BY <3>1, <4>1, <4>2, Zenon
      <4>5. receipts'[i.batch] = i
        BY <2>1, <2>3, Zenon
      <4>6. ASSUME NEW n \in 1 .. Len(events'[k])
            PROVE  /\ receipts'[events'[k][n]] # NoIntent
                   /\ k \in DOMAIN receipts'[events'[k][n]].expects
                   /\ receipts'[events'[k][n]].expects[k] = n - 1
        <5>1. CASE n \in 1 .. Len(events[k])
          BY <5>1, <4>2, <3>1, <3>2, ZenonT(30)
        <5>2. CASE n = Len(events[k]) + 1
          <6>1. receipts'[events'[k][n]] = i /\ n - 1 = Len(events[k])
            BY <5>2, <4>2, <4>5, <3>1
          <6> QED BY <6>1, <4>3, <3>3, <2>1, Zenon
        <5> QED BY <5>1, <5>2, <4>2, <3>1
      <4> QED BY <4>4, <4>6, Zenon
    <3>4. CASE k \notin DOMAIN i.expects
      <4>1. events'[k] = events[k] /\ revision'[k] = revision[k]
        BY <3>4, Zenon DEF Commit
      <4> QED BY <4>1, <3>1, <3>2, ZenonT(30)
    <3> QED BY <3>3, <3>4, Zenon
  <2>5. ASSUME NEW b \in Batches, receipts'[b] # NoIntent, NEW k \in DOMAIN receipts'[b].expects
        PROVE  \E n \in 1 .. Len(events'[k]) : events'[k][n] = b
    <3>1. CASE b = i.batch
      <4>1. k \in DOMAIN i.expects
        BY <2>3, <2>5, <3>1, Zenon
      <4>2. events'[k] = Append(events[k], b) /\ events[k] \in Seq(Batches) /\ Len(events[k]) \in Nat
        BY <4>1, <3>1, <2>1, <2>2 DEF Commit
      <4>3. Len(events'[k]) = Len(events[k]) + 1 /\ events'[k][Len(events[k]) + 1] = b
        BY <4>2
      <4> QED BY <4>2, <4>3
    <3>2. CASE b # i.batch
      <4>1. receipts[b] \in Intents /\ k \in DOMAIN receipts[b].expects /\ receipts[b] # NoIntent
        BY <2>2, <2>3, <2>5, <3>2, Zenon
      <4>2. PICK n \in 1 .. Len(events[k]) : events[k][n] = b
        BY <4>1, Zenon DEF Logged
      <4>3. k \in Keys /\ events[k] \in Seq(Batches) /\ Len(events[k]) \in Nat
        BY <4>1, <2>2, IntentParts
      <4>4. CASE k \in DOMAIN i.expects
        <5>1. events'[k] = Append(events[k], i.batch)
          BY <4>4, <4>3, Zenon DEF Commit
        <5>2. Len(events'[k]) = Len(events[k]) + 1 /\ events'[k][n] = events[k][n]
          BY <5>1, <4>2, <4>3, <2>1
        <5> QED BY <5>2, <4>2, <4>3
      <4>5. CASE k \notin DOMAIN i.expects
        BY <4>2, <4>3, <4>5, Zenon DEF Commit
      <4> QED BY <4>4, <4>5, Zenon
    <3> QED BY <3>1, <3>2, Zenon
  <2> QED BY <2>4, <2>5, Zenon DEF Logged
<1>2. CASE Applied(i) # "applied"
  <2>1. receipts' = receipts /\ events' = events /\ revision' = revision
    BY <1>2, Zenon DEF ApplyOnce, dbVars
  <2> QED BY <2>1 DEF Logged
<1> QED BY <1>1, <1>2, Zenon
------------------------------------------------------------------------------
(* The coordinator.                                                        *)

\* A transaction that is rolled back changes nothing.
LEMMA RolledBack ==
    ASSUME TypeOK, Logged, NEW i \in Intents, UNCHANGED dbVars
    PROVE  Grows(i) /\ Logged'
<1>1. revision' = revision /\ receipts' = receipts /\ batchCount' = batchCount /\ events' = events
  BY Zenon DEF dbVars
<1>2. (\A k \in Keys : revision[k] <= revision[k]) /\ batchCount <= batchCount
  BY StateConstants DEF TypeOK
<1>3. Grows(i)
  BY <1>1, <1>2, Zenon DEF Grows, TypeOK
<1> QED BY <1>1, <1>3 DEF Logged

\* The actor answers every request truthfully.
LEMMA ActorTruthful ==
    ASSUME TypeOK, Logged, NEW m \in requests, Behind(m.intent), Reject(m) \/ Dispatch(m)
    PROVE  /\ Grows(m.intent) /\ Logged'
           /\ nonces' \subseteq Nonces
           /\ \E code \in Done \cup Refused \cup Transient : Answer(m, code) /\ Truthful(m.intent, code)'
<1>1. m.intent \in Intents /\ m.nonce \in Nonces /\ nonces \subseteq Nonces
  BY Zenon DEF TypeOK
<1>2. \A code \in Transient : Truthful(m.intent, code)'
  BY Zenon DEF Truthful, Transient, Done, Refused
<1>3. CASE Reject(m)
  <2>1. UNCHANGED dbVars /\ nonces' = nonces /\ Answer(m, "STATE_IPC_REPLAY_OR_EXPIRY")
    BY <1>3, Zenon DEF Reject
  <2>2. Grows(m.intent) /\ Logged'
    BY <2>1, <1>1, RolledBack, Zenon
  <2>3. "STATE_IPC_REPLAY_OR_EXPIRY" \in Transient
    BY Zenon DEF Transient
  <2> QED BY <1>1, <1>2, <2>1, <2>2, <2>3, Zenon
<1>4. CASE /\ nonces' = nonces \cup {m.nonce}
           /\ UNCHANGED dbVars /\ Answer(m, "STATE_IPC_OPERATION_FAILED")
  <2>1. Grows(m.intent) /\ Logged'
    BY <1>4, <1>1, RolledBack, Zenon
  <2>2. "STATE_IPC_OPERATION_FAILED" \in Transient
    BY Zenon DEF Transient
  <2> QED BY <1>1, <1>2, <1>4, <2>1, <2>2, Zenon
<1>5. CASE /\ nonces' = nonces \cup {m.nonce}
           /\ ApplyOnce(m.intent) /\ Answer(m, Applied(m.intent))
  <2>1. Grows(m.intent) /\ Logged'
    BY <1>5, <1>1, TransactionGrows, TransactionLogged, Zenon
  <2>2. CASE Applied(m.intent) = "applied"
    <3>1. receipts'[m.intent.batch] = m.intent
      <4>1. Commit(m.intent)
        BY <1>5, <2>2, Zenon DEF ApplyOnce
      <4>2. m.intent.batch \in Batches /\ receipts \in [Batches -> Intents \cup {NoIntent}]
        BY <1>1, IntentParts, Zenon DEF TypeOK
      <4> QED BY <4>1, <4>2, Zenon DEF Commit
    <3>2. Truthful(m.intent, "applied")' /\ "applied" \in Done
      BY <3>1, Zenon DEF Truthful, Done, Refused
    <3> QED BY <1>1, <1>5, <2>1, <2>2, <3>2, Zenon
  <2>3. CASE Applied(m.intent) # "applied"
    <3>1. Truthful(m.intent, Applied(m.intent)) /\ Applied(m.intent) \in Done \cup Refused
      BY <1>1, <2>3, AppliedTruthful, Zenon
    <3> DEFINE code == Applied(m.intent)
    <3> HIDE DEF code
    <3>2. Truthful(m.intent, code)
      BY <3>1, Zenon DEF code
    <3>3. UNCHANGED dbVars
      BY <1>5, <2>3, Zenon DEF ApplyOnce
    <3>4. receipts' = receipts /\ revision' = revision /\ batchCount' = batchCount
      BY <3>3, Zenon DEF dbVars
    <3>5. \A c \in Done \cup Refused : Truthful(m.intent, c) => Truthful(m.intent, c)'
      BY <3>4, Zenon DEF Truthful, Doomed
    <3> QED BY <1>1, <1>5, <2>1, <3>1, <3>5, Zenon
  <2> QED BY <2>2, <2>3, Zenon
<1> QED BY <1>3, <1>4, <1>5, Zenon DEF Dispatch

\* Whatever request the coordinator handles, the invariant is kept.
LEMMA HandleStep ==
    ASSUME LInv, Handle
    PROVE  LInv'
<1> USE DEF LInv
<1>1. PICK m \in requests : Reject(m) \/ Dispatch(m)
  BY Zenon DEF Handle
<1> DEFINE i == m.intent
<1>2. /\ i \in Intents /\ Behind(i) /\ m.client \in Clients
      /\ m \in [nonce : Nonces, client : Clients, intent : Intents]
  BY <1>1, Zenon DEF TypeOK, Expected
<1>3. /\ UNCHANGED <<serverVars, requests, clientVars>>
      /\ generation' = generation /\ coordinator' = coordinator /\ endpoint' = endpoint
      /\ pc' = pc /\ intent' = intent /\ attempt' = attempt /\ calls' = calls
      /\ retained' = retained /\ outcomes' = outcomes /\ requests' = requests
  BY Zenon DEF Handle, serverVars, clientVars
<1>4. /\ Grows(i) /\ Logged' /\ nonces' \subseteq Nonces
      /\ \E code \in Done \cup Refused \cup Transient : Answer(m, code) /\ Truthful(i, code)'
  BY <1>1, <1>2, ActorTruthful, Zenon
<1> HIDE DEF i
<1>5. PICK code \in Done \cup Refused \cup Transient : Answer(m, code) /\ Truthful(i, code)'
  BY <1>4, Zenon
<1>6. \A r \in replies' :
            \/ r \in replies
            \/ /\ r = [nonce |-> m.nonce, client |-> m.client, code |-> code]
               /\ pc[m.client] = "exchange" /\ Nonce(m.client) = m.nonce
  BY <1>5, Zenon DEF Answer
<1>7. replies' \subseteq [nonce : Nonces, client : Clients, code : Done \cup Refused \cup Transient]
  BY <1>2, <1>6 DEF TypeOK
<1>8. TypeOK'
  BY <1>3, <1>4, <1>7, Zenon DEF TypeOK, Grows
<1>9. Pending'
  BY <1>3, Zenon DEF Pending
<1>10. Receipts'
  BY <1>2, <1>4, Zenon DEF Receipts, Grows
<1>11. ASSUME NEW j \in Intents, Behind(j)
       PROVE  Behind(j)'
  <2>1. \A k \in DOMAIN j.expects :
            /\ k \in Keys /\ j.expects[k] \in Nat
            /\ revision[k] \in Nat /\ revision'[k] \in Nat
            /\ revision[k] <= revision'[k]
    BY <1>4, <1>8, <1>11, IntentParts, StateConstants DEF TypeOK, Grows
  <2> QED BY <1>11, <2>1 DEF Behind
<1>12. Expected'
  BY <1>3, <1>11, Zenon DEF Expected, TypeOK
<1>13. \A j \in Intents, c \in Done \cup Refused \cup Transient \cup Uncertain :
            Truthful(j, c) => Truthful(j, c)'
  BY <1>2, <1>4, TruthStays, Zenon
<1>14. \A o \in outcomes' : Truthful(o.intent, o.code)'
  BY <1>3, <1>13, Zenon DEF Messages, TypeOK
<1>15. \A q \in requests' :
            /\ q.nonce[2] <= calls'[q.client]
            /\ q.nonce[2] = calls'[q.client] => q.intent = intent'[q.client]
  BY <1>3, Zenon DEF Messages
<1>16. ASSUME NEW r \in replies'
       PROVE  pc'[r.client] = "exchange" /\ Truthful(intent[r.client], r.code)'
  <2>1. CASE r \in replies
    <3>1. /\ pc[r.client] = "exchange" /\ Truthful(intent[r.client], r.code)
          /\ r.client \in Clients /\ r.code \in Done \cup Refused \cup Transient
      BY <2>1, Zenon DEF Messages, TypeOK
    <3>2. intent[r.client] \in Intents
      BY <3>1, Zenon DEF Pending, TypeOK
    <3>3. Truthful(intent[r.client], r.code)'
      BY <1>3, <1>13, <3>1, <3>2, Zenon DEF Truthful, Doomed
    <3> QED BY <1>3, <3>1, <3>3, Zenon
  <2>2. CASE /\ r = [nonce |-> m.nonce, client |-> m.client, code |-> code]
             /\ pc[m.client] = "exchange" /\ Nonce(m.client) = m.nonce
    <3>1. intent[r.client] = i /\ r.client = m.client /\ r.code = code
      BY <1>1, <2>2 DEF Messages, Nonce, i
    <3>2. intent'[r.client] = i
      BY <1>3, <3>1, Zenon
    <3> QED BY <1>3, <1>5, <2>2, <3>1, <3>2, Zenon DEF Truthful, Doomed
  <2> QED BY <1>6, <2>1, <2>2, Zenon
<1>17. Messages'
  BY <1>14, <1>15, <1>16, Zenon DEF Messages
<1> QED BY <1>4, <1>8, <1>9, <1>10, <1>12, <1>17, Zenon
------------------------------------------------------------------------------
(* The clients.                                                            *)

\* Outside the actor the tables do not change, so neither does what is true of them.
LEMMA TablesKept ==
    ASSUME TypeOK, UNCHANGED dbVars
    PROVE  /\ revision' = revision /\ receipts' = receipts /\ batchCount' = batchCount /\ events' = events
           /\ Logged => Logged'
           /\ Receipts => Receipts'
           /\ \A i \in Intents : Behind(i) => Behind(i)'
           /\ \A i \in Intents, code \in Done \cup Refused \cup Transient \cup Uncertain :
                Truthful(i, code) => Truthful(i, code)'
<1>1. revision' = revision /\ receipts' = receipts /\ batchCount' = batchCount /\ events' = events
  BY Zenon DEF dbVars
<1> QED BY <1>1 DEF Logged, Receipts, Behind, Truthful, Doomed

\* The process that opens, publishes or dies touches no call.
LEMMA ServerStep ==
    ASSUME LInv, Open \/ Publish \/ Die
    PROVE  LInv'
<1> USE DEF LInv
<1>1. UNCHANGED dbVars /\ UNCHANGED clientVars /\ UNCHANGED replies
  BY Zenon DEF Open, Publish, Die
<1>2. /\ pc' = pc /\ intent' = intent /\ attempt' = attempt /\ calls' = calls
      /\ retained' = retained /\ outcomes' = outcomes /\ replies' = replies
  BY <1>1, Zenon DEF clientVars
<1>3. requests' \subseteq requests /\ nonces' \subseteq nonces
  BY Zenon DEF Open, Publish, Die
<1>4. /\ generation' \in 0 .. MaxGeneration
      /\ coordinator' \in {Down, generation'} /\ endpoint' \in 0 .. generation'
  <2>1. /\ generation \in 0 .. MaxGeneration /\ coordinator \in {Down, generation}
        /\ endpoint \in 0 .. generation /\ MaxGeneration \in Nat
    BY StateConstants, Zenon DEF TypeOK
  <2> QED BY <2>1 DEF Open, Publish, Die, Down
<1>5. TypeOK'
  BY <1>1, <1>2, <1>3, <1>4, TablesKept, Zenon DEF TypeOK
<1>6. Pending'
  BY <1>2, Zenon DEF Pending
<1>7. Receipts' /\ Logged'
  BY <1>1, TablesKept, Zenon
<1>8. Expected'
  BY <1>1, <1>2, <1>3, TablesKept, Zenon DEF Expected, TypeOK
<1>9. Messages'
  <2>1. \A m \in requests' :
            /\ m.nonce[2] <= calls'[m.client]
            /\ m.nonce[2] = calls'[m.client] => m.intent = intent'[m.client]
    BY <1>2, <1>3, Zenon DEF Messages
  <2>2. \A r \in replies' : pc'[r.client] = "exchange" /\ Truthful(intent[r.client], r.code)'
    BY <1>1, <1>2, TablesKept DEF Messages, Truthful, Doomed
  <2>3. \A o \in outcomes' : Truthful(o.intent, o.code)'
    BY <1>1, <1>2, TablesKept, Zenon DEF Messages, TypeOK
  <2> QED BY <2>1, <2>2, <2>3, Zenon DEF Messages
<1> QED BY <1>5, <1>6, <1>7, <1>8, <1>9, Zenon

\* A new call is numbered after every request and reply there is.
LEMMA CallStep ==
    ASSUME LInv, NEW c \in Clients, Call(c)
    PROVE  LInv'
<1> USE DEF LInv
<1>1. PICK i \in Submitted(c) : intent' = [intent EXCEPT ![c] = i]
  BY Zenon DEF Call
<1>2. i \in Intents /\ Behind(i) /\ i # NoIntent
  BY SubmittedBatch, NoIntentIsNone, Zenon
<1>3. /\ UNCHANGED dbVars /\ UNCHANGED serverVars
      /\ nonces' = nonces /\ requests' = requests /\ replies' = replies
      /\ retained' = retained /\ outcomes' = outcomes
      /\ pc[c] = "idle" /\ pc' = [pc EXCEPT ![c] = "ensure"]
      /\ calls' = [calls EXCEPT ![c] = @ + 1] /\ attempt' = [attempt EXCEPT ![c] = 0]
  BY Zenon DEF Call
<1>4. TypeOK'
  BY <1>1, <1>2, <1>3, TablesKept DEF TypeOK, serverVars
<1>5. Pending'
  BY <1>1, <1>2, <1>3, Zenon DEF Pending, TypeOK
<1>6. Receipts' /\ Logged'
  BY <1>3, TablesKept, Zenon
<1>7. Expected'
  <2>1. \A m \in requests' : Behind(m.intent)'
    BY <1>3, TablesKept, Zenon DEF Expected, TypeOK
  <2>2. ASSUME NEW d \in Clients, intent'[d] # NoIntent
        PROVE  Behind(intent[d])'
    <3>1. CASE d = c
      <4>1. intent'[d] = i
        BY <1>1, <3>1, Zenon DEF TypeOK
      <4> QED BY <4>1, <1>2, <1>3, TablesKept, Zenon DEF Behind
    <3>2. CASE d # c
      <4>1. intent'[d] = intent[d] /\ intent[d] \in Intents /\ Behind(intent[d])
        BY <1>1, <2>2, <3>2, Zenon DEF TypeOK, Expected
      <4> QED BY <4>1, <1>3, TablesKept, Zenon DEF Behind
    <3> QED BY <3>1, <3>2, Zenon
  <2> QED BY <2>1, <2>2, Zenon DEF Expected
<1>8. Messages'
  <2>1. ASSUME NEW m \in requests'
        PROVE  /\ m.nonce[2] <= calls'[m.client]
               /\ m.nonce[2] = calls'[m.client] => m.intent = intent'[m.client]
    <3>1. /\ m.nonce[2] <= calls[m.client] /\ m.nonce[2] \in Nat /\ calls[m.client] \in Nat
          /\ m.nonce[2] = calls[m.client] => m.intent = intent[m.client]
          /\ m.client \in Clients
      BY <1>3, Zenon DEF Messages, TypeOK, Nonces
    <3>2. CASE m.client = c
      <4>1. calls'[m.client] = calls[m.client] + 1
        BY <1>3, <3>2, Zenon DEF TypeOK
      <4> QED BY <4>1, <3>1
    <3>3. CASE m.client # c
      <4>1. calls'[m.client] = calls[m.client] /\ intent'[m.client] = intent[m.client]
        BY <1>1, <1>3, <3>1, <3>3 DEF TypeOK
      <4> QED BY <4>1, <3>1, Zenon
    <3> QED BY <3>2, <3>3, Zenon
  <2>2. ASSUME NEW r \in replies'
        PROVE  pc'[r.client] = "exchange" /\ Truthful(intent[r.client], r.code)'
    <3>1. /\ pc[r.client] = "exchange" /\ Truthful(intent[r.client], r.code)
          /\ r.client \in Clients /\ r.client # c
      BY <1>3, Zenon DEF Messages, TypeOK
    <3>2. pc'[r.client] = "exchange" /\ intent'[r.client] = intent[r.client]
      BY <1>1, <1>3, <3>1, Zenon DEF TypeOK
    <3> QED BY <1>3, <3>1, <3>2, TablesKept, Zenon DEF Truthful, Doomed
  <2>3. \A o \in outcomes' : Truthful(o.intent, o.code)'
    BY <1>3, TablesKept, Zenon DEF Messages, TypeOK
  <2> QED BY <2>1, <2>2, <2>3, Zenon DEF Messages
<1> QED BY <1>4, <1>5, <1>6, <1>7, <1>8, Zenon

\* What the steps of a call in progress have in common.
InCall(c) ==
    /\ UNCHANGED <<dbVars, serverVars, nonces, intent, calls>>
    /\ pc[c] # "idle"
    /\ \E v \in {"idle", "ensure", "exchange"} : pc' = [pc EXCEPT ![c] = v]
    /\ \E a \in {0, 1} : attempt' = [attempt EXCEPT ![c] = a]
    /\ \E d \in BOOLEAN : retained' = [retained EXCEPT ![c] = d]
    /\ requests' \subseteq requests \cup {[nonce |-> Nonce(c), client |-> c, intent |-> intent[c]]}
    /\ replies' \subseteq {r \in replies : r.client # c}
    /\ \A o \in outcomes' :
        \/ o \in outcomes
        \/ \E code \in Done \cup Refused \cup Uncertain :
                o = [intent |-> intent[c], code |-> code] /\ Truthful(intent[c], code)

\* So it is by every step of a client inside rpc.
LEMMA InCallStep ==
    ASSUME LInv, NEW c \in Clients, InCall(c)
    PROVE  LInv'
<1> USE DEF LInv
<1>1. UNCHANGED dbVars /\ UNCHANGED serverVars /\ nonces' = nonces /\ intent' = intent /\ calls' = calls
  BY ZenonT(30) DEF InCall
<1>2. intent[c] \in Intents /\ Behind(intent[c]) /\ Nonce(c) \in Nonces /\ intent[c] # NoIntent
  BY NoIntentIsNone, Zenon DEF InCall, Pending, TypeOK, Expected, Nonce, Nonces
<1> DEFINE q == [nonce |-> Nonce(c), client |-> c, intent |-> intent[c]]
<1>3. requests' \subseteq requests \cup {q}
  BY Zenon DEF InCall
<1>4. q \in [nonce : Nonces, client : Clients, intent : Intents] /\ q.nonce = Nonce(c)
      /\ q.client = c /\ q.intent = intent[c]
  BY <1>2, Zenon
<1> HIDE DEF q
<1>5. TypeOK'
  <2>1. pc' \in [Clients -> {"idle", "ensure", "exchange"}] /\ attempt' \in [Clients -> {0, 1}]
    BY DEF InCall, TypeOK
  <2>2. retained' \in [Clients -> BOOLEAN]
    BY Zenon DEF InCall, TypeOK
  <2>3. outcomes' \subseteq [intent : Intents, code : Done \cup Refused \cup Uncertain]
    BY <1>2 DEF InCall, TypeOK
  <2>4. replies' \subseteq replies /\ requests' \subseteq [nonce : Nonces, client : Clients, intent : Intents]
    BY <1>3, <1>4, Zenon DEF InCall, TypeOK
  <2> QED BY <1>1, <2>1, <2>2, <2>3, <2>4, TablesKept DEF TypeOK, serverVars
<1>6. Pending'
  <2>1. \A d \in Clients : d # c => pc'[d] = pc[d]
    BY Zenon DEF InCall, TypeOK
  <2>2. \A d \in Clients : d # c => retained'[d] = retained[d]
    BY Zenon DEF InCall, TypeOK
  <2> QED BY <1>1, <1>2, <2>1, <2>2, Zenon DEF Pending
<1>7. Receipts' /\ Logged'
  BY <1>1, TablesKept, Zenon
<1>8. Expected'
  <2>1. \A m \in requests' : m.intent \in Intents /\ Behind(m.intent)
    BY <1>2, <1>3, <1>4, Zenon DEF Expected, TypeOK
  <2>2. \A d \in Clients : intent[d] # NoIntent => intent[d] \in Intents /\ Behind(intent[d])
    BY Zenon DEF Expected, TypeOK
  <2>3. revision' = revision
    BY <1>1, TablesKept, Zenon
  <2> QED BY <1>1, <2>1, <2>2, <2>3, Zenon DEF Expected, Behind
<1>9. Messages'
  <2>1. \A m \in requests' :
            /\ m.nonce[2] <= calls'[m.client]
            /\ m.nonce[2] = calls'[m.client] => m.intent = intent'[m.client]
    <3>1. q.nonce[2] = calls[c] /\ calls[c] \in Nat
      BY <1>4 DEF Nonce, TypeOK
    <3> QED BY <1>1, <1>3, <1>4, <3>1 DEF Messages
  <2>2. ASSUME NEW r \in replies'
        PROVE  pc'[r.client] = "exchange" /\ Truthful(intent[r.client], r.code)'
    <3>1. r \in replies /\ r.client # c /\ r.client \in Clients
      BY DEF InCall, TypeOK
    <3>2. pc[r.client] = "exchange" /\ Truthful(intent[r.client], r.code)
      BY <3>1, Zenon DEF Messages
    <3>3. pc'[r.client] = "exchange"
      BY <3>1, <3>2, ZenonT(30) DEF InCall, TypeOK
    <3> QED BY <1>1, <3>2, <3>3, TablesKept, ZenonT(30) DEF Truthful, Doomed
  <2>3. ASSUME NEW o \in outcomes'
        PROVE  Truthful(o.intent, o.code)'
    <3>1. \/ o \in outcomes
          \/ \E code \in Done \cup Refused \cup Uncertain :
                o = [intent |-> intent[c], code |-> code] /\ Truthful(intent[c], code)
      BY Zenon DEF InCall
    <3>2. Truthful(o.intent, o.code)
      <4>1. CASE o \in outcomes
        BY <4>1, Zenon DEF Messages
      <4>2. ASSUME NEW code, o = [intent |-> intent[c], code |-> code], Truthful(intent[c], code)
            PROVE  Truthful(o.intent, o.code)
        <5>1. o.intent = intent[c] /\ o.code = code
          BY <4>2, Zenon
        <5> QED BY <4>2, <5>1, Zenon
      <4> QED BY <3>1, <4>1, <4>2, Zenon
    <3> QED BY <1>1, <3>2, TablesKept, ZenonT(30) DEF Truthful, Doomed
  <2> QED BY <2>1, <2>2, <2>3, Zenon DEF Messages
<1> QED BY <1>5, <1>6, <1>7, <1>8, <1>9, Zenon

\* A truthful answer is returned, or another attempt is made, within the call.
LEMMA StepInCall ==
    ASSUME LInv, NEW c \in Clients, Step(c)
    PROVE  InCall(c)
<1> USE DEF LInv
<1>1. /\ pc \in [Clients -> {"idle", "ensure", "exchange"}] /\ attempt \in [Clients -> {0, 1}]
      /\ retained \in [Clients -> BOOLEAN]
  BY Zenon DEF TypeOK
<1>2. \A code \in Uncertain : Truthful(intent[c], code)
  BY Zenon DEF Truthful, Uncertain, Done, Refused
<1>3. attempt = [attempt EXCEPT ![c] = attempt[c]] /\ attempt[c] \in {0, 1}
  BY <1>1, Zenon
<1>4. retained = [retained EXCEPT ![c] = retained[c]] /\ retained[c] \in BOOLEAN
  BY <1>1, Zenon
<1>5. ASSUME NEW code \in Done \cup Refused \cup Uncertain, Return(c, code), Truthful(intent[c], code)
      PROVE  /\ \E v \in {"idle", "ensure", "exchange"} : pc' = [pc EXCEPT ![c] = v]
             /\ \E d \in BOOLEAN : retained' = [retained EXCEPT ![c] = d]
             /\ \A o \in outcomes' :
                    \/ o \in outcomes
                    \/ \E x \in Done \cup Refused \cup Uncertain :
                            o = [intent |-> intent[c], code |-> x] /\ Truthful(intent[c], x)
  <2>1. \E d \in BOOLEAN : retained' = [retained EXCEPT ![c] = d]
    <3>1. (code \in Uncertain) \in BOOLEAN
      OBVIOUS
    <3>2. retained' = [retained EXCEPT ![c] = code \in Uncertain]
      BY <1>5, Zenon DEF Return
    <3> QED BY <3>1, <3>2, Zenon
  <2>2. pc' = [pc EXCEPT ![c] = "idle"] /\ outcomes' = outcomes \cup {[intent |-> intent[c], code |-> code]}
    BY <1>5, Zenon DEF Return
  <2> QED BY <1>5, <2>1, <2>2, Zenon
<1>6. ASSUME TryAgain(c)
      PROVE  /\ \E v \in {"idle", "ensure", "exchange"} : pc' = [pc EXCEPT ![c] = v]
             /\ \E a \in {0, 1} : attempt' = [attempt EXCEPT ![c] = a]
             /\ \E d \in BOOLEAN : retained' = [retained EXCEPT ![c] = d]
             /\ \A o \in outcomes' :
                    \/ o \in outcomes
                    \/ \E x \in Done \cup Refused \cup Uncertain :
                            o = [intent |-> intent[c], code |-> x] /\ Truthful(intent[c], x)
  <2>1. CASE attempt[c] = 1
    <3>1. Return(c, "STATE_IPC_OUTCOME_UNCONFIRMED") /\ attempt' = attempt
      BY <1>6, <2>1, Zenon DEF TryAgain
    <3>2. "STATE_IPC_OUTCOME_UNCONFIRMED" \in Uncertain
      BY Zenon DEF Uncertain
    <3> HIDE DEF Return
    <3> QED BY <1>2, <1>3, <1>5, <3>1, <3>2, Zenon
  <2>2. CASE attempt[c] # 1
    BY <1>4, <1>6, <2>2, Zenon DEF TryAgain
  <2> QED BY <2>1, <2>2, Zenon
<1>7. CASE Send(c)
  <2>1. \A r \in replies : r.client # c
    BY <1>7, Zenon DEF Send, Messages
  <2> QED BY <1>3, <1>4, <1>7, <2>1, Zenon DEF Send, InCall
<1>8. CASE EnsureFails(c)
  <2>1. \A r \in replies : r.client # c
    BY <1>8, Zenon DEF EnsureFails, Messages
  <2>2. "STATE_COORDINATOR_ABSENT" \in Uncertain /\ Return(c, "STATE_COORDINATOR_ABSENT")
    BY <1>8, Zenon DEF EnsureFails, Uncertain
  <2> QED BY <1>2, <1>3, <1>5, <1>8, <2>1, <2>2 DEF EnsureFails, InCall
<1>9. CASE Receive(c)
  <2>1. PICK r \in replies :
            /\ r.client = c
            /\ IF r.code \in Transient THEN TryAgain(c) ELSE Return(c, r.code) /\ UNCHANGED attempt
    BY <1>9, Zenon DEF Receive
  <2>2. Truthful(intent[c], r.code) /\ r.code \in Done \cup Refused \cup Transient
    BY <2>1, Zenon DEF Messages, TypeOK
  <2>3. /\ UNCHANGED <<dbVars, serverVars, nonces, requests, intent, calls>> /\ pc[c] # "idle"
        /\ replies' = {x \in replies : x.client # c}
    BY <1>9, Zenon DEF Receive, Closed
  <2>4. CASE r.code \in Transient
    BY <1>6, <2>1, <2>3, <2>4, ZenonT(30) DEF InCall
  <2>5. CASE r.code \notin Transient
    BY <1>3, <1>5, <2>1, <2>2, <2>3, <2>5 DEF InCall
  <2> QED BY <2>4, <2>5, Zenon
<1>10. CASE TransferFails(c)
  <2>1. /\ UNCHANGED <<dbVars, serverVars, nonces, requests, intent, calls>> /\ pc[c] # "idle"
        /\ TryAgain(c) /\ replies' = {x \in replies : x.client # c}
    BY <1>10, Zenon DEF TransferFails, Closed
  <2> QED BY <1>6, <2>1, Zenon DEF InCall
<1>11. CASE CancelTransfer(c)
  <2>1. "Cancelled" \in Uncertain /\ Return(c, "Cancelled")
    BY <1>11, Zenon DEF CancelTransfer, Uncertain
  <2> QED BY <1>2, <1>3, <1>5, <1>11, <2>1, Zenon DEF CancelTransfer, Closed, InCall
<1> QED BY <1>7, <1>8, <1>9, <1>10, <1>11, Zenon DEF Step
------------------------------------------------------------------------------
(* The theorems.                                                           *)

\* An empty store satisfies the invariant.
LEMMA InitLInv == Init => LInv
<1> SUFFICES ASSUME Init PROVE LInv
  BY Zenon
<1>1. TypeOK
  <2>1. retained \in [Clients -> BOOLEAN]
    BY Zenon DEF Init
  <2>2. /\ revision \in [Keys -> 0 .. MaxRevision] /\ batchCount \in 0 .. MaxReceipts
        /\ generation \in 0 .. MaxGeneration /\ coordinator \in {Down, generation}
        /\ endpoint \in 0 .. generation
    BY StateConstants DEF Init, Down
  <2> QED BY <2>1, <2>2 DEF Init, TypeOK
<1>2. Pending /\ Receipts /\ Expected /\ Messages
  <2>1. \A c \in Clients : ~retained[c]
    BY Zenon DEF Init
  <2>2. \A c \in Clients : pc[c] = "idle" /\ intent[c] = NoIntent
    BY Zenon DEF Init
  <2> QED BY <2>1, <2>2, Zenon DEF Init, Pending, Receipts, Expected, Messages
<1>3. Logged
  <2>1. \A k \in Keys : events[k] = << >> /\ revision[k] = 0
    BY Zenon DEF Init
  <2>2. \A b \in Batches : receipts[b] = NoIntent
    BY Zenon DEF Init
  <2> QED BY <2>1, <2>2 DEF Logged
<1> QED BY <1>1, <1>2, <1>3, Zenon DEF LInv

\* Every step keeps the invariant.
LEMMA Inductive == LInv /\ [Next]_vars => LInv'
<1> SUFFICES ASSUME LInv, [Next]_vars PROVE LInv'
  BY Zenon
<1>1. CASE Open \/ Publish \/ Die
  BY <1>1, ServerStep, Zenon
<1>2. CASE Handle
  BY <1>2, HandleStep, Zenon
<1>3. ASSUME NEW c \in Clients, Call(c) PROVE LInv'
  BY <1>3, CallStep, Zenon
<1>4. ASSUME NEW c \in Clients, Step(c) PROVE LInv'
  BY <1>4, StepInCall, InCallStep, Zenon
<1>5. CASE UNCHANGED vars
  <2>1. /\ revision' = revision /\ receipts' = receipts /\ batchCount' = batchCount /\ events' = events
        /\ generation' = generation /\ coordinator' = coordinator /\ endpoint' = endpoint
        /\ nonces' = nonces /\ requests' = requests /\ replies' = replies /\ pc' = pc
        /\ intent' = intent /\ attempt' = attempt /\ calls' = calls /\ retained' = retained
        /\ outcomes' = outcomes
    BY <1>5, Zenon DEF vars, dbVars, serverVars, clientVars
  <2>2. TypeOK'
    BY <2>1, Zenon DEF LInv, TypeOK
  <2>3. Pending' /\ Receipts'
    BY <2>1, Zenon DEF LInv, Pending, Receipts
  <2>4. Expected' /\ Messages'
    BY <2>1, Zenon DEF LInv, Expected, Behind, Messages, Truthful, Doomed, Nonce
  <2>5. Logged'
    BY <2>1, Zenon DEF LInv, Logged
  <2> QED BY <2>2, <2>3, <2>4, <2>5, Zenon DEF LInv
<1> QED BY <1>1, <1>2, <1>3, <1>4, <1>5, Zenon DEF Next

\* The invariant holds in every reachable state.
LEMMA Invariance == Spec => []LInv
BY InitLInv, Inductive, PTL DEF Spec

\* The state keeps its type: a revision, the receipt count and the generation stay
\* within their limits (apply_impl, SqliteStore).
THEOREM StateTypeCorrect == Spec => []TypeOK
<1>1. LInv => TypeOK
  BY Zenon DEF LInv
<1> QED BY <1>1, Invariance, PTL

\* Every revision is one event and no batch is applied twice (apply_impl), for any
\* number of clients, records, batches and restarts.
THEOREM RevisionsMatchEvents == Spec => []OneRevisionOneEvent
<1>1. LInv => OneRevisionOneEvent
  <2> SUFFICES ASSUME LInv, NEW k \in Keys
               PROVE  /\ revision[k] = Len(events[k])
                      /\ \A m, n \in 1 .. Len(events[k]) : events[k][m] = events[k][n] => m = n
    BY Zenon DEF OneRevisionOneEvent
  <2>1. revision[k] = Len(events[k])
    BY Zenon DEF LInv, Logged
  <2>2. ASSUME NEW m \in 1 .. Len(events[k]), NEW n \in 1 .. Len(events[k]), events[k][m] = events[k][n]
        PROVE  m = n
    <3>1. receipts[events[k][m]].expects[k] = m - 1 /\ receipts[events[k][n]].expects[k] = n - 1
      BY Zenon DEF LInv, Logged
    <3>2. m - 1 = n - 1
      BY <2>2, <3>1, Zenon
    <3> QED BY <3>2
  <2> QED BY <2>1, <2>2, Zenon
<1> QED BY <1>1, Invariance, PTL

\* A batch is applied to all of its records or to none (apply_impl).
THEOREM BatchesAtomic == Spec => []AllOrNothing
<1>1. LInv => AllOrNothing
  <2> SUFFICES ASSUME LInv, NEW b \in Batches, NEW k \in Keys
               PROVE  (\E n \in 1 .. Len(events[k]) : events[k][n] = b)
                        <=> receipts[b] # NoIntent /\ k \in DOMAIN receipts[b].expects
    BY Zenon DEF AllOrNothing
  <2> QED BY DEF LInv, Logged
<1> QED BY <1>1, Invariance, PTL

\* No update is lost: each revision was built from the one before it (apply_impl).
THEOREM UpdatesKept == Spec => []NoLostUpdate
<1>1. LInv => NoLostUpdate
  BY Zenon DEF LInv, Logged, NoLostUpdate
<1> QED BY <1>1, Invariance, PTL

\* However often a batch is sent, delayed or replayed, updates are exact: one event for
\* every revision, each built from the revision before it (apply_impl).
THEOREM ExactUpdates == Spec => []UpdatesExact
<1>1. OneRevisionOneEvent /\ NoLostUpdate => UpdatesExact
  BY Zenon DEF UpdatesExact
<1> QED BY <1>1, RevisionsMatchEvents, UpdatesKept, PTL

\* Every step of the system is a step of the ledger or leaves the ledger alone.
LEMMA LedgerStep ==
    ASSUME LInv, [Next]_vars
    PROVE  [Ledger!Next]_(Ledger!vars)
<1> DEFINE told == {<<o.intent, Verdict(o.code)>> : o \in outcomes}
<1>1. ASSUME UNCHANGED dbVars, outcomes' = outcomes
      PROVE  UNCHANGED Ledger!vars
  BY <1>1, Zenon DEF Ledger!vars, dbVars
<1>2. CASE Handle
  <2>1. PICK m \in requests : Reject(m) \/ Dispatch(m)
    BY <1>2, Zenon DEF Handle
  <2>2. outcomes' = outcomes
    BY <1>2, Zenon DEF Handle, clientVars
  <2>3. CASE UNCHANGED dbVars
    BY <1>1, <2>2, <2>3, Zenon
  <2>4. CASE Applied(m.intent) = "applied" /\ Commit(m.intent)
    <3> DEFINE i == m.intent
    <3>1. i \in Intents
      BY <2>1, Zenon DEF LInv, TypeOK
    <3>2. ~Doomed(i) /\ receipts[i.batch] = NoIntent
          /\ \A k \in DOMAIN i.expects : revision[k] = i.expects[k]
      BY <2>4, <3>1, Admitted, AdmittedNotDoomed, Zenon DEF LInv
    <3>3. \A o \in outcomes : o.intent = i => o.code \notin Refused
      BY <3>2, Zenon DEF LInv, Messages, Truthful
    <3>4. \A code : Verdict(code) = "refused" => code \in Refused
      BY Zenon DEF Verdict
    <3>5. <<i, "refused">> \notin told
      BY <3>3, <3>4, Zenon
    <3>6. Ledger!Commit(i)
      BY <2>2, <2>4, <3>2, <3>5, Zenon DEF Ledger!Commit, Commit
    <3> QED BY <3>1, <3>6, Zenon DEF Ledger!Next
  <2> QED BY <2>1, <2>3, <2>4, Zenon DEF Reject, Dispatch, ApplyOnce
<1>3. ASSUME NEW c \in Clients, Step(c)
      PROVE  [Ledger!Next]_(Ledger!vars)
  <2>1. intent[c] \in Intents /\ UNCHANGED dbVars
    <3>1. InCall(c)
      BY <1>3, StepInCall, Zenon
    <3> QED BY <3>1, Zenon DEF InCall, LInv, Pending, TypeOK
  <2>2. CASE outcomes' = outcomes
    BY <1>1, <2>1, <2>2, Zenon
  <2>3. ASSUME NEW code \in Done \cup Refused \cup Uncertain, Truthful(intent[c], code),
               outcomes' = outcomes \cup {[intent |-> intent[c], code |-> code]}
        PROVE  Ledger!Next
    <3> DEFINE i == intent[c]
               v == Verdict(code)
    <3>1. /\ v \in {"done", "refused", "unknown"}
          /\ v = "done" => code \in Done
          /\ v = "refused" => code \in Refused
      BY Zenon DEF Verdict
    <3>2. v = "done" => receipts[i.batch] = i
      BY <2>3, <3>1, ZenonT(30) DEF Truthful
    <3>3. v = "refused" => receipts[i.batch] # i
      BY <2>1, <2>3, <3>1, NoIntentIsNone, Zenon DEF Truthful, Doomed
    <3>4. told' = told \cup {<<i, v>>}
      <4>1. told' = {<<o.intent, Verdict(o.code)>> : o \in outcomes'}
        BY Zenon DEF Verdict, Done, Refused
      <4>2. [intent |-> i, code |-> code].intent = i /\ [intent |-> i, code |-> code].code = code
        BY Zenon
      <4> QED BY <2>3, <4>1, <4>2, ZenonT(30)
    <3>5. Ledger!Tell(i, v)
      BY <2>1, <3>2, <3>3, <3>4, Zenon DEF Ledger!Tell, dbVars
    <3> QED BY <2>1, <3>1, <3>5, Zenon DEF Ledger!Next
  <2>4. \/ outcomes' = outcomes
        \/ \E code \in Done \cup Refused \cup Uncertain :
                /\ Truthful(intent[c], code)
                /\ outcomes' = outcomes \cup {[intent |-> intent[c], code |-> code]}
    <3>1. \A code \in Uncertain : Truthful(intent[c], code)
      BY Zenon DEF Truthful, Uncertain, Done, Refused
    <3>2. ASSUME TryAgain(c)
          PROVE  \/ outcomes' = outcomes
                 \/ outcomes' = outcomes \cup {[intent |-> intent[c], code |-> "STATE_IPC_OUTCOME_UNCONFIRMED"]}
      BY <3>2, Zenon DEF TryAgain, Return
    <3>3. CASE Send(c)
      BY <3>3, Zenon DEF Send
    <3>4. CASE EnsureFails(c)
      BY <3>1, <3>4, Zenon DEF EnsureFails, Return, Uncertain
    <3>5. CASE TransferFails(c)
      BY <3>1, <3>2, <3>5, Zenon DEF TransferFails, Uncertain
    <3>6. CASE CancelTransfer(c)
      BY <3>1, <3>6, Zenon DEF CancelTransfer, Return, Uncertain
    <3>7. CASE Receive(c)
      <4>1. PICK r \in replies :
                /\ r.client = c
                /\ IF r.code \in Transient THEN TryAgain(c) ELSE Return(c, r.code) /\ UNCHANGED attempt
        BY <3>7, Zenon DEF Receive
      <4>2. Truthful(intent[c], r.code) /\ r.code \in Done \cup Refused \cup Transient
        BY <4>1, Zenon DEF LInv, Messages, TypeOK
      <4>3. CASE r.code \in Transient
        BY <3>1, <3>2, <4>1, <4>3, Zenon DEF Uncertain
      <4>4. CASE r.code \notin Transient
        BY <4>1, <4>2, <4>4, Zenon DEF Return
      <4> QED BY <4>3, <4>4, Zenon
    <3> QED BY <1>3, <3>3, <3>4, <3>5, <3>6, <3>7 DEF Step
  <2> QED BY <2>2, <2>3, <2>4, Zenon
<1>4. ASSUME NEW c \in Clients, Call(c)
      PROVE  UNCHANGED Ledger!vars
  BY <1>1, <1>4, Zenon DEF Call
<1>5. CASE Open \/ Publish \/ Die
  BY <1>1, <1>5, Zenon DEF Open, Publish, Die, clientVars
<1>6. CASE UNCHANGED vars
  BY <1>1, <1>6, Zenon DEF vars, clientVars
<1> QED BY <1>2, <1>3, <1>4, <1>5, <1>6, Zenon DEF Next

\* What apply_once returns agrees with what is, and ever will be, committed: the
\* store, its coordinator and its clients implement the ledger.
THEOREM LedgerImplemented == Spec => ImplementsLedger
<1>1. Init => Ledger!Init
  BY Zenon DEF Init, Ledger!Init
<1>2. LInv /\ [Next]_vars => [Ledger!Next]_(Ledger!vars)
  BY LedgerStep, Zenon
<1> QED BY <1>1, <1>2, Invariance, PTL DEF Spec, ImplementsLedger, Ledger!Spec
=============================================================================
