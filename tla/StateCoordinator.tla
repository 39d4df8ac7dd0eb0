-------------------------- MODULE StateCoordinator ---------------------------
(***************************************************************************)
(* The durable state store (cpp-mcp/src/state_store.cpp), the coordinator  *)
(* process that owns its writer lock, and the clients that reach it over   *)
(* authenticated loopback HTTP (state_coordinator.cpp).                    *)
(*                                                                         *)
(* A record is its revision; a batch is its identity and the revision it   *)
(* expects of each record it changes, and appends one event to the run of  *)
(* each.  Request messages stay in the network until the coordinator they  *)
(* were sent to dies, so they can be delayed, reordered and delivered      *)
(* twice (the HTTP library resends a request on a connection it finds      *)
(* closed); a message that is never delivered is lost.  A reply exists     *)
(* only while its caller still waits for it.                               *)
(***************************************************************************)
EXTENDS Integers, Sequences, FiniteSets

CONSTANTS
    Clients,        \* threads that call apply_once through a StateClient
    Keys,           \* records (kind and id)
    Batches,        \* batch identities
    MaxRevision,    \* max_safe_integer, for a revision
    MaxGeneration,  \* max_safe_integer, for a writer generation
    MaxReceipts,    \* the receipt capacity, 1000000
    MaxCalls,       \* bound on the apply_once calls of each client
    NoIntent        \* no batch

ASSUME StateConstants ==
    /\ MaxRevision \in Nat /\ MaxGeneration \in Nat /\ MaxReceipts \in Nat
    /\ MaxCalls \in [Clients -> Nat]

\* Generations start at 1; 0 stands for no coordinator process.
Down == 0

Expectations == UNION {[S -> 0 .. MaxRevision] : S \in SUBSET Keys \ {{}}}

\* The content of a batch, which its fingerprint identifies.
Intents == [batch : Batches, expects : Expectations]

ASSUME NoIntentIsNone == NoIntent \notin Intents

VARIABLES
    revision,    \* records: the revision of each key, 0 when absent
    receipts,    \* batches: the intent each identity committed, or NoIntent
    batchCount,  \* control.batch_count
    events,      \* events: the batches that appended to the run of each key
    generation,  \* control.generation
    coordinator, \* the generation the live coordinator opened, or Down
    endpoint,    \* the generation in coordinator.json, 0 when there is no file
    nonces,      \* nonces_ of the live coordinator
    requests,    \* request messages that may still reach the live coordinator
    replies,     \* replies on their way to clients that wait for them
    pc,          \* idle, ensure or exchange
    intent,      \* the batch of the call in progress, or of the last one
    attempt,     \* the loop variable of rpc
    calls,       \* calls made by each client
    retained,    \* whether the last call ended without a certain answer
    outcomes     \* history: what every call returned

dbVars == <<revision, receipts, batchCount, events>>
serverVars == <<generation, coordinator, endpoint>>
clientVars == <<pc, intent, attempt, calls, retained, outcomes>>
vars == <<dbVars, serverVars, nonces, requests, replies, clientVars>>

Done == {"applied", "replayed"}
Refused == {"STATE_BATCH_ID_CONFLICT", "STATE_BATCH_RECEIPT_CAPACITY",
            "STATE_REVISION_EXHAUSTED", "STATE_REVISION_CONFLICT"}
\* Replies the client answers with its second attempt.
Transient == {"STATE_IPC_REPLAY_OR_EXPIRY", "STATE_IPC_OPERATION_FAILED"}
Uncertain == {"STATE_IPC_OUTCOME_UNCONFIRMED", "STATE_COORDINATOR_ABSENT", "Cancelled"}

\* uuid() in exchange: one nonce for every attempt of every call.
Nonces == Clients \X Nat \X {0, 1}
Nonce(c) == <<c, calls[c], attempt[c]>>
------------------------------------------------------------------------------
(* apply_impl: the transaction a batch runs in, as what it returns and the *)
(* state it commits.  A throw rolls the transaction back.                  *)

\* Mutant: the receipt of the batch is not looked up.
AppliedAfresh(i) ==
    IF batchCount >= MaxReceipts THEN "STATE_BATCH_RECEIPT_CAPACITY"
    ELSE IF \E k \in DOMAIN i.expects : i.expects[k] >= MaxRevision THEN "STATE_REVISION_EXHAUSTED"
    ELSE IF \E k \in DOMAIN i.expects : revision[k] # i.expects[k] THEN "STATE_REVISION_CONFLICT"
    ELSE "applied"

\* Mutant: a record that has moved on since it was read is no conflict.
AppliedUnconditionally(i) ==
    IF receipts[i.batch] # NoIntent
    THEN IF receipts[i.batch] = i THEN "replayed" ELSE "STATE_BATCH_ID_CONFLICT"
    ELSE IF batchCount >= MaxReceipts THEN "STATE_BATCH_RECEIPT_CAPACITY"
    ELSE IF \E k \in DOMAIN i.expects : i.expects[k] >= MaxRevision THEN "STATE_REVISION_EXHAUSTED"
    ELSE "applied"

Applied(i) ==
    IF receipts[i.batch] # NoIntent
    THEN IF receipts[i.batch] = i THEN "replayed" ELSE "STATE_BATCH_ID_CONFLICT"
    ELSE IF batchCount >= MaxReceipts THEN "STATE_BATCH_RECEIPT_CAPACITY"
    ELSE IF \E k \in DOMAIN i.expects : i.expects[k] >= MaxRevision THEN "STATE_REVISION_EXHAUSTED"
    ELSE IF \E k \in DOMAIN i.expects : revision[k] # i.expects[k] THEN "STATE_REVISION_CONFLICT"
    ELSE "applied"

Commit(i) ==
    /\ revision' = [k \in Keys |-> IF k \in DOMAIN i.expects THEN revision[k] + 1 ELSE revision[k]]
    /\ events' = [k \in Keys |-> IF k \in DOMAIN i.expects THEN Append(events[k], i.batch) ELSE events[k]]
    /\ receipts' = [receipts EXCEPT ![i.batch] = i]
    /\ batchCount' = batchCount + 1

\* Mutant: the records that do not conflict are written although another one does.
ApplyInPart(i) ==
    LET fit == {k \in DOMAIN i.expects : revision[k] = i.expects[k]}
    IN  CASE Applied(i) = "applied" -> Commit(i)
          [] Applied(i) = "STATE_REVISION_CONFLICT" ->
                /\ revision' = [k \in Keys |-> IF k \in fit THEN revision[k] + 1 ELSE revision[k]]
                /\ events' = [k \in Keys |-> IF k \in fit THEN Append(events[k], i.batch) ELSE events[k]]
                /\ UNCHANGED <<receipts, batchCount>>
          [] OTHER -> UNCHANGED dbVars

ApplyOnce(i) == IF Applied(i) = "applied" THEN Commit(i) ELSE UNCHANGED dbVars
------------------------------------------------------------------------------
(* The coordinator process.                                                *)

\* The store is opened: the writer lock is free, and the generation is fenced.
Open ==
    /\ coordinator = Down
    /\ generation < MaxGeneration
    /\ generation' = generation + 1
    /\ coordinator' = generation + 1
    /\ UNCHANGED <<dbVars, endpoint, nonces, requests, replies, clientVars>>

\* The HTTP server listens, and the endpoint is published.
Publish ==
    /\ coordinator # Down
    /\ endpoint # coordinator
    /\ endpoint' = coordinator
    /\ UNCHANGED <<dbVars, generation, coordinator, nonces, requests, replies, clientVars>>

\* The process stops or dies: its connections, its nonces and its key go with it.
Die ==
    /\ coordinator # Down
    /\ coordinator' = Down
    /\ nonces' = {}
    /\ requests' = {}
    /\ UNCHANGED <<dbVars, generation, endpoint, replies, clientVars>>

\* A reply reaches its caller only if the caller still waits on that transfer.
Answer(m, code) ==
    replies' = IF pc[m.client] = "exchange" /\ Nonce(m.client) = m.nonce
               THEN replies \cup {[nonce |-> m.nonce, client |-> m.client, code |-> code]}
               ELSE replies

\* handle: the actor rejects a nonce it knows, or one it finds expired or has no room for.
Reject(m) ==
    /\ Answer(m, "STATE_IPC_REPLAY_OR_EXPIRY")
    /\ UNCHANGED <<dbVars, nonces>>

\* handle: a new nonce is recorded, then the operation runs or fails without a STATE_ error.
Dispatch(m) ==
    /\ m.nonce \notin nonces
    /\ nonces' = nonces \cup {m.nonce}
    /\ \/ ApplyOnce(m.intent) /\ Answer(m, Applied(m.intent))
       \/ UNCHANGED dbVars /\ Answer(m, "STATE_IPC_OPERATION_FAILED")

Handle ==
    /\ coordinator # Down
    /\ \E m \in requests : Reject(m) \/ Dispatch(m)
    /\ UNCHANGED <<serverVars, requests, clientVars>>
------------------------------------------------------------------------------
(* The clients.                                                            *)

Fresh == {b \in Batches : \A c \in Clients : intent[c] = NoIntent \/ intent[c].batch # b}
           \ {o.intent.batch : o \in outcomes}

\* The batch a caller submits, built from the revisions it reads: a new identity, the
\* retained batch again, or other content under the retained identity (an identity
\* derived from the operation).  The read may be old by the time the batch is sent.
Submitted(c) ==
    LET Built(b) == {[batch |-> b, expects |-> [k \in S |-> revision[k]]] : S \in SUBSET Keys \ {{}}}
    IN  IF retained[c] THEN {intent[c]} \cup Built(intent[c].batch)
                            \cup UNION {Built(b) : b \in Fresh}
                       ELSE UNION {Built(b) : b \in Fresh}

Call(c) ==
    /\ pc[c] = "idle"
    /\ calls[c] < MaxCalls[c]
    /\ \E i \in Submitted(c) : intent' = [intent EXCEPT ![c] = i]
    /\ pc' = [pc EXCEPT ![c] = "ensure"]
    /\ calls' = [calls EXCEPT ![c] = @ + 1]
    /\ attempt' = [attempt EXCEPT ![c] = 0]
    /\ UNCHANGED <<dbVars, serverVars, nonces, requests, replies, retained, outcomes>>

Return(c, code) ==
    /\ outcomes' = outcomes \cup {[intent |-> intent[c], code |-> code]}
    /\ retained' = [retained EXCEPT ![c] = code \in Uncertain]
    /\ pc' = [pc EXCEPT ![c] = "idle"]

\* ensure() finds the running coordinator, and exchange() posts the request to it.
Send(c) ==
    /\ pc[c] = "ensure"
    /\ coordinator # Down /\ endpoint = coordinator
    /\ requests' = requests \cup {[nonce |-> Nonce(c), client |-> c, intent |-> intent[c]]}
    /\ pc' = [pc EXCEPT ![c] = "exchange"]
    /\ UNCHANGED <<dbVars, serverVars, nonces, replies, intent, attempt, calls, retained, outcomes>>

\* ensure() throws: no coordinator, or none that starts in time.
EnsureFails(c) ==
    /\ pc[c] = "ensure"
    /\ coordinator = Down \/ endpoint # coordinator
    /\ Return(c, "STATE_COORDINATOR_ABSENT")
    /\ UNCHANGED <<dbVars, serverVars, nonces, requests, replies, intent, attempt, calls>>

\* The transfer of an attempt is over, whatever is still on its way back.
Closed(c) == replies' = {r \in replies : r.client # c}

\* The handler of a transfer, IPC or fencing error: one more attempt, then uncertainty.
\* Mutant: the second attempt is made again and again.
TryForever(c) ==
    /\ attempt' = [attempt EXCEPT ![c] = 1]
    /\ pc' = [pc EXCEPT ![c] = "ensure"]
    /\ UNCHANGED <<retained, outcomes>>

TryAgain(c) ==
    IF attempt[c] = 1
    THEN Return(c, "STATE_IPC_OUTCOME_UNCONFIRMED") /\ UNCHANGED attempt
    ELSE /\ attempt' = [attempt EXCEPT ![c] = 1]
         /\ pc' = [pc EXCEPT ![c] = "ensure"]
         /\ UNCHANGED <<retained, outcomes>>

\* A verified reply arrives.
Receive(c) ==
    /\ pc[c] = "exchange"
    /\ \E r \in replies :
        /\ r.client = c /\ r.nonce = Nonce(c)
        /\ IF r.code \in Transient THEN TryAgain(c) ELSE Return(c, r.code) /\ UNCHANGED attempt
    /\ Closed(c)
    /\ UNCHANGED <<dbVars, serverVars, nonces, requests, intent, calls>>

\* The transfer fails or times out, or what comes back cannot be verified.
TransferFails(c) ==
    /\ pc[c] = "exchange"
    /\ TryAgain(c)
    /\ Closed(c)
    /\ UNCHANGED <<dbVars, serverVars, nonces, requests, intent, calls>>

\* The cancellation token of the caller fires during the transfer.
CancelTransfer(c) ==
    /\ pc[c] = "exchange"
    /\ Return(c, "Cancelled")
    /\ Closed(c)
    /\ UNCHANGED <<dbVars, serverVars, nonces, requests, intent, attempt, calls>>
------------------------------------------------------------------------------
Init ==
    /\ revision = [k \in Keys |-> 0]
    /\ receipts = [b \in Batches |-> NoIntent]
    /\ batchCount = 0
    /\ events = [k \in Keys |-> << >>]
    /\ generation = 0
    /\ coordinator = Down
    /\ endpoint = 0
    /\ nonces = {} /\ requests = {} /\ replies = {}
    /\ pc = [c \in Clients |-> "idle"]
    /\ intent = [c \in Clients |-> NoIntent]
    /\ attempt = [c \in Clients |-> 0]
    /\ calls = [c \in Clients |-> 0]
    /\ retained = [c \in Clients |-> FALSE]
    /\ outcomes = {}

Step(c) == Send(c) \/ EnsureFails(c) \/ Receive(c) \/ TransferFails(c) \/ CancelTransfer(c)

Next ==
    \/ Open \/ Publish \/ Die \/ Handle
    \/ \E c \in Clients : Call(c) \/ Step(c)

Spec == Init /\ [][Next]_vars

\* A client thread runs on: a transfer ends by a reply or by its timeout.
FairSpec == Spec /\ \A c \in Clients : WF_vars(Step(c))
------------------------------------------------------------------------------
(* Properties.                                                             *)

\* The state has its type; in particular no record passes the last revision (apply_impl).
TypeOK ==
    /\ revision \in [Keys -> 0 .. MaxRevision]
    /\ receipts \in [Batches -> Intents \cup {NoIntent}]
    /\ batchCount \in 0 .. MaxReceipts
    /\ events \in [Keys -> Seq(Batches)]
    /\ generation \in 0 .. MaxGeneration
    /\ coordinator \in {Down, generation}
    /\ endpoint \in 0 .. generation
    /\ nonces \subseteq Nonces
    /\ requests \subseteq [nonce : Nonces, client : Clients, intent : Intents]
    /\ replies \subseteq [nonce : Nonces, client : Clients,
                           code : Done \cup Refused \cup Transient]
    /\ pc \in [Clients -> {"idle", "ensure", "exchange"}]
    /\ intent \in [Clients -> Intents \cup {NoIntent}]
    /\ attempt \in [Clients -> {0, 1}]
    /\ calls \in [Clients -> Nat]
    /\ retained \in [Clients -> BOOLEAN]
    /\ outcomes \subseteq [intent : Intents, code : Done \cup Refused \cup Uncertain]

\* Every revision of a record is one event of its run, and no batch appears twice
\* there, however often its request was sent, delayed or delivered (apply_impl;
\* docs/STATE_COORDINATOR_TRANSPORT_PERFORMANCE.md: "Exactly one revision and one
\* event must remain").
OneRevisionOneEvent ==
    \A k \in Keys :
        /\ revision[k] = Len(events[k])
        /\ \A m, n \in 1 .. Len(events[k]) : events[k][m] = events[k][n] => m = n

\* A batch with a receipt changed every record it names, and one without a receipt
\* changed none: the receipt, the records and the events are one transaction.
AllOrNothing ==
    \A b \in Batches, k \in Keys :
        (\E n \in 1 .. Len(events[k]) : events[k][n] = b)
            <=> receipts[b] # NoIntent /\ k \in DOMAIN receipts[b].expects

\* The batch that wrote revision n of a record was built from revision n - 1 of it:
\* no client overwrites an update it has not read.
NoLostUpdate ==
    \A k \in Keys : \A n \in 1 .. Len(events[k]) :
        receipts[events[k][n]].expects[k] = n - 1

\* Updates are exact: one event for every revision, each built from the one before.
UpdatesExact == OneRevisionOneEvent /\ NoLostUpdate

\* batch_count, which the capacity check of apply_impl reads instead of counting
\* rows, is the number of receipts, across restarts and replays.
ReceiptsCounted == batchCount = Cardinality({b \in Batches : receipts[b] # NoIntent})

Verdict(code) == CASE code \in Done -> "done" [] code \in Refused -> "refused" [] OTHER -> "unknown"

Ledger == INSTANCE BatchLedger WITH
    committed <- receipts,
    told <- {<<o.intent, Verdict(o.code)>> : o \in outcomes}

\* The store, the coordinator and the clients together implement the ledger: what
\* apply_once returns agrees with what is and ever will be committed.
ImplementsLedger == Ledger!Spec

\* Every call of apply_once returns: rpc makes two attempts and no more.
EveryCallReturns == \A c \in Clients : pc[c] # "idle" ~> pc[c] = "idle"
=============================================================================
