-------------------------------- MODULE Leases --------------------------------
(*****************************************************************************)
(* Leases of the scheduler as other processes see them: the files that count *)
(* reserved resources, and the hints that wake waiters. They share no state. *)
(*****************************************************************************)
EXTENDS Naturals, FiniteSets, FiniteSetsExt

-------------------------------------------------------------------------------
(*****************************************************************************)
(* Requests that declare resources (memory, GPU or disk bytes; one dimension *)
(* here) on top of an execution slot: the sum of the live reservations is    *)
(* taken slot by slot under a gate file, a slot file is claimed with the     *)
(* reservation in it, and the lease is entered in the state index, which a   *)
(* status page reconciles with the slot files. Each request is its own       *)
(* process and may die anywhere. A claim file is taken in one step here;     *)
(* SlotClaims models one in detail.                                          *)
(*****************************************************************************)
CONSTANTS Requests, Cost, Count, Available, None

Slots == 0 .. Count - 1

VARIABLES slot,      \* the owner each slot file names
          gate,      \* the owner of .resource-claim.json
          scan,      \* the next slot a request has to add up, and the sum so far
          index,     \* of each slot, its resource_lease record
          read,      \* the revision of that record a request has read
          tries,     \* compare-and-set conflicts a request may still retry
          audit,     \* the record the status page is about to give up, if any
          at

leaseVars == <<slot, gate, scan, index, read, tries, audit, at>>

Unscanned == [next |-> 0, used |-> 0]

LeaseInit ==
         /\ slot = [s \in Slots |-> None] /\ gate = None
         /\ scan = [r \in Requests |-> Unscanned]
         /\ index = [s \in Slots |-> [owner |-> None, status |-> "none", revision |-> 0]]
         /\ read = [r \in Requests |-> 0]
         /\ tries = [r \in Requests |-> 2]
         /\ audit = None
         /\ at = [r \in Requests |-> "waiting"]

Alive(r) == r # None /\ at[r] # "dead"
Moves(r, place) == at' = [at EXCEPT ![r] = place]
SlotOf(r) == CHOOSE s \in Slots : slot[s] = r
Holds(r) == \E s \in Slots : slot[s] = r

(* claim_slots begins: the gate, whose owner may have died.                *)
GateFree(r) == ~Alive(gate)
EnterGate(r) ==
    /\ at[r] = "waiting" /\ GateFree(r)
    /\ gate' = r
    /\ Moves(r, "scanning")
    /\ UNCHANGED <<slot, scan, index, read, tries, audit>>

(* One slot file of the scan: a dead owner's is removed, a live one's      *)
(* reservation counts.                                                     *)
Scan(r) ==
    /\ at[r] = "scanning" /\ scan[r].next < Count
    /\ LET s == scan[r].next
       IN  /\ scan' = [scan EXCEPT ![r] = [next |-> s + 1,
                                           used |-> @.used + IF Alive(slot[s]) THEN Cost[slot[s]] ELSE 0]]
           /\ slot' = [slot EXCEPT ![s] = IF Alive(@) THEN @ ELSE None]
    /\ UNCHANGED <<gate, index, read, tries, audit, at>>

Fits(r) == scan[r].used <= Available /\ Cost[r] <= Available - scan[r].used

(* The decision and the claim of a slot, with the gate still held; the     *)
(* gate goes when claim_slots returns, with a slot or without.             *)
Claim(r) ==
    /\ at[r] = "scanning" /\ scan[r].next = Count
    /\ gate' = IF gate = r THEN None ELSE gate
    /\ \/ /\ Fits(r)
          /\ \E s \in Slots : /\ ~Alive(slot[s]) /\ \A t \in Slots : t > s => Alive(slot[t])
                             /\ slot' = [slot EXCEPT ![s] = r]
          /\ Moves(r, "claimed")
       \/ /\ ~Fits(r) \/ \A s \in Slots : Alive(slot[s])
          /\ Moves(r, "waiting") /\ UNCHANGED slot
    /\ scan' = [scan EXCEPT ![r] = Unscanned]
    /\ UNCHANGED <<index, read, tries, audit>>

(* index_leases reads the record of the slot ...                           *)
IndexRead(r) ==
    /\ at[r] \in {"claimed", "released"}
    /\ LET s == IF at[r] = "claimed" THEN SlotOf(r)
                ELSE CHOOSE t \in Slots : index[t].owner = r
       IN  IF at[r] = "released" /\ \A t \in Slots : index[t].owner # r
           THEN Moves(r, "gone") /\ UNCHANGED read
           ELSE /\ read' = [read EXCEPT ![r] = index[s].revision]
                /\ Moves(r, IF at[r] = "claimed" THEN "indexing" ELSE "unindexing")
    /\ UNCHANGED <<slot, gate, scan, index, tries, audit>>

Entry(s, r, status) == index' = [index EXCEPT ![s] = [owner |-> r, status |-> status,
                                                      revision |-> @.revision + 1]]
Conflict(s, r) == index[s].revision # read[r]

(* ... and applies the new one at that revision.  Only a conflict is tried *)
(* again, twice; otherwise the slot is given back and the request fails.   *)
Enter(r) ==
    /\ at[r] = "indexing"
    /\ LET s == SlotOf(r)
       IN  \/ ~Conflict(s, r) /\ Entry(s, r, "active") /\ Moves(r, "holding") /\ UNCHANGED <<slot, tries>>
           \/ /\ Conflict(s, r) /\ tries[r] > 0
              /\ tries' = [tries EXCEPT ![r] = @ - 1] /\ Moves(r, "claimed") /\ UNCHANGED <<slot, index>>
           \/ /\ Conflict(s, r) => tries[r] = 0
              /\ slot' = [slot EXCEPT ![s] = None] /\ Moves(r, "gone") /\ UNCHANGED <<index, tries>>
    /\ read' = [read EXCEPT ![r] = 0]
    /\ UNCHANGED <<gate, scan, audit>>

(* ExecutionLease::release: the file first, then the record, if it is      *)
(* still this lease's; a failure there is only counted.                    *)
Release(r) ==
    /\ at[r] = "holding"
    /\ slot' = [s \in Slots |-> IF slot[s] = r THEN None ELSE slot[s]]
    /\ Moves(r, "released")
    /\ UNCHANGED <<gate, scan, index, read, tries, audit>>

Unindex(r) ==
    /\ at[r] = "unindexing"
    /\ \/ /\ \E s \in Slots : index[s].owner = r /\ ~Conflict(s, r) /\ Entry(s, r, "released")
          /\ Moves(r, "gone") /\ UNCHANGED tries
       \/ /\ \A s \in Slots : index[s].owner = r => Conflict(s, r)
          /\ tries[r] > 0
          /\ tries' = [tries EXCEPT ![r] = @ - 1] /\ Moves(r, "released") /\ UNCHANGED index
       \/ Moves(r, "gone") /\ UNCHANGED <<index, tries>>
    /\ read' = [read EXCEPT ![r] = 0]
    /\ UNCHANGED <<slot, gate, scan, audit>>

(* reconcile_lease_index: an active record whose file names another owner  *)
(* or a dead one is given up, at the revision that was listed.             *)
Lost(s) == index[s].status = "active" /\ (slot[s] # index[s].owner \/ ~Alive(slot[s]))
List ==
    /\ audit = None
    /\ \E s \in Slots : Lost(s) /\ audit' = [slot |-> s, was |-> index[s]]
    /\ UNCHANGED <<slot, gate, scan, index, read, tries, at>>
(* A mistaken form of Reconcile: the record is written at any revision.    *)
ReconcileBlindly ==
    /\ audit # None
    /\ Entry(audit.slot, audit.was.owner, "owner_lost")
    /\ audit' = None
    /\ UNCHANGED <<slot, gate, scan, read, tries, at>>
Reconcile ==
    /\ audit # None
    /\ IF index[audit.slot].revision = audit.was.revision
       THEN Entry(audit.slot, audit.was.owner, "owner_lost")
       ELSE UNCHANGED index
    /\ audit' = None
    /\ UNCHANGED <<slot, gate, scan, read, tries, at>>

Die(r) ==
    /\ at[r] \notin {"dead", "gone", "waiting"}
    /\ Moves(r, "dead")
    /\ scan' = [scan EXCEPT ![r] = Unscanned]
    /\ read' = [read EXCEPT ![r] = 0] /\ tries' = [tries EXCEPT ![r] = 0]
    /\ UNCHANGED <<slot, gate, index, audit>>

LeaseNext ==
         \/ \E r \in Requests : EnterGate(r) \/ Scan(r) \/ Claim(r)
         \/ \E r \in Requests : IndexRead(r) \/ Enter(r) \/ Release(r) \/ Unindex(r)
         \/ List
         \/ Reconcile
         \/ \E r \in Requests : Die(r)

ReservedNow == MapThenSumSet(LAMBDA r : Cost[r], {r \in Requests : Alive(r) /\ Holds(r)})

(* The reservations of the live requests that hold a slot never exceed the *)
(* configured capacity, although the sum was taken slot by slot while      *)
(* leases were released and owners died.                                   *)
WithinAvailable == ReservedNow <= Available

(* The index shows a lease as active for as long as its work may run: a    *)
(* late release of the slot's previous owner, or a status page that read   *)
(* the previous record, never overwrites it.                               *)
LiveLeaseIndexed ==
    \A r \in Requests : at[r] = "holding" =>
        index[SlotOf(r)].owner = r /\ index[SlotOf(r)].status = "active"

-------------------------------------------------------------------------------
(*****************************************************************************)
(* The wake-up hints between the waiters of the scheduler. Each process has  *)
(* a hub with a current token; whoever changes the shared state swaps in a   *)
(* new token and cancels the old one, and touches a file that the hub of     *)
(* every process watches. A waiter takes the token before it looks at the    *)
(* state and then waits for that token, or for its poll interval.            *)
(*****************************************************************************)
CONSTANTS Processes, MaxChanges, MaxTokens

VARIABLES state,     \* how often the shared files have changed
          current,   \* of each hub: its current token
          done,      \* of each hub: the tokens that are cancelled
          event,     \* of each hub: the watch on the file has something to read
          holding,   \* of each hub and notifier: the token it swapped out
          signal,    \* how far each process's signal() is
          failed,    \* a hint could not be given
          waiter

hintVars == <<state, current, done, event, holding, signal, failed, waiter>>

Notifiers == {"caller", "watcher"}
NoToken == 0

HintInit ==
        /\ state = 0
        /\ current = [p \in Processes |-> 1] /\ done = [p \in Processes |-> {}]
        /\ event = [p \in Processes |-> FALSE]
        /\ holding = [p \in Processes |-> [n \in Notifiers |-> NoToken]]
        /\ signal = [p \in Processes |-> "idle"]
        /\ failed = FALSE
        /\ waiter = [p \in Processes |-> [at |-> "begin", token |-> NoToken, seen |-> 0]]

(* notify: the new token is in place before the old one is cancelled.      *)
Swap(p, n) ==
    /\ holding[p][n] = NoToken /\ current[p] < MaxTokens
    /\ holding' = [holding EXCEPT ![p][n] = current[p]]
    /\ current' = [current EXCEPT ![p] = @ + 1]
CancelOld(p, n) ==
    /\ holding[p][n] # NoToken
    /\ done' = [done EXCEPT ![p] = @ \cup {holding[p][n]}]
    /\ holding' = [holding EXCEPT ![p][n] = NoToken]

(* A lease is released or a ticket removed, and signal() follows; without  *)
(* memory for a new token the local hint is lost and counted.              *)
Change(p) ==
    /\ signal[p] = "idle" /\ state < MaxChanges
    /\ state' = state + 1
    /\ signal' = [signal EXCEPT ![p] = "notify"]
    /\ UNCHANGED <<current, done, event, holding, failed, waiter>>
SignalSwaps(p) ==
    /\ signal[p] = "notify"
    /\ \/ Swap(p, "caller") /\ signal' = [signal EXCEPT ![p] = "cancel"] /\ UNCHANGED failed
       \/ failed' = TRUE /\ signal' = [signal EXCEPT ![p] = "write"] /\ UNCHANGED <<current, holding>>
    /\ UNCHANGED <<state, done, event, waiter>>
SignalCancels(p) ==
    /\ signal[p] = "cancel"
    /\ CancelOld(p, "caller")
    /\ signal' = [signal EXCEPT ![p] = "write"]
    /\ UNCHANGED <<state, current, event, failed, waiter>>
SignalWrites(p) ==
    /\ signal[p] = "write"
    /\ \/ event' = [q \in Processes |-> TRUE] /\ UNCHANGED failed
       \/ failed' = TRUE /\ UNCHANGED event
    /\ signal' = [signal EXCEPT ![p] = "idle"]
    /\ UNCHANGED <<state, current, done, holding, waiter>>

(* The hub's thread: one read takes all the events there are.              *)
WatcherReads(p) ==
    /\ event[p]
    /\ Swap(p, "watcher")
    /\ event' = [event EXCEPT ![p] = FALSE]
    /\ UNCHANGED <<state, done, signal, failed, waiter>>
WatcherCancels(p) ==
    /\ CancelOld(p, "watcher")
    /\ UNCHANGED <<state, current, event, signal, failed, waiter>>

(* ExecutionScheduler::acquire: the token, then the poll, then the wait.   *)
TakeToken(p) ==
    /\ waiter[p].at = "begin"
    /\ waiter' = [waiter EXCEPT ![p].at = "poll", ![p].token = current[p]]
    /\ UNCHANGED <<state, current, done, event, holding, signal, failed>>
Poll(p) ==
    /\ waiter[p].at = "poll"
    /\ waiter' = [waiter EXCEPT ![p].at = "waiting", ![p].seen = state]
    /\ UNCHANGED <<state, current, done, event, holding, signal, failed>>
WakeUp(p) ==
    /\ waiter[p].at = "waiting"
    /\ waiter[p].token \in done[p]
    /\ waiter' = [waiter EXCEPT ![p].at = "begin", ![p].token = NoToken]
    /\ UNCHANGED <<state, current, done, event, holding, signal, failed>>

(* The poll interval ends: after a lost hint this is what is left.         *)
Interval(p) ==
    /\ waiter[p].at = "waiting" /\ waiter[p].token \notin done[p]
    /\ waiter' = [waiter EXCEPT ![p].at = "begin", ![p].token = NoToken]
    /\ UNCHANGED <<state, current, done, event, holding, signal, failed>>

HintNext ==
        \/ \E p \in Processes : Change(p)
        \/ \E p \in Processes : SignalSwaps(p) \/ SignalCancels(p) \/ SignalWrites(p)
        \/ \E p \in Processes : WatcherReads(p) \/ WatcherCancels(p)
        \/ \E p \in Processes : TakeToken(p) \/ Poll(p) \/ WakeUp(p)
        \/ \E p \in Processes : Interval(p)

(* No hint is lost in between: a waiter that waits although the state has  *)
(* changed since it looked holds a cancelled token, or a token that is     *)
(* about to be cancelled, or the hint is still on its way to its hub --    *)
(* unless giving a hint failed.                                            *)
NoLostHint ==
    \A p \in Processes :
        waiter[p].at = "waiting" /\ waiter[p].seen # state /\ ~failed =>
            \/ waiter[p].token \in done[p]
            \/ \E n \in Notifiers : holding[p][n] = waiter[p].token
            \/ event[p]
            \/ \E q \in Processes : signal[q] # "idle"
===============================================================================
