------------------------------- MODULE Research -------------------------------
(*****************************************************************************)
(* Research: a run over sources, the cache of fetched documents and the      *)
(* transfers that fetch them. They share no state here: a run sees of a      *)
(* fetch only its outcome.                                                   *)
(*****************************************************************************)
EXTENDS Naturals, Sequences, SequencesExt, FiniteSets, FiniteSetsExt

-------------------------------------------------------------------------------
(*****************************************************************************)
(* A research job (ResearchService::run of research.cpp): the candidates it  *)
(* collects, the documents it judges and the two-file checkpoint that        *)
(* research_evidence reads while the job runs and after it has died.         *)
(*                                                                           *)
(* A URL is a number; Identity gives the source it names, and Allowed are    *)
(* the ones the plan's domains and the document filter accept. What a        *)
(* retrieved document is worth is an input, as are the links it offers.      *)
(*****************************************************************************)
CONSTANTS Identity,       \* source_identity_url, as a sequence indexed by URL
          Allowed, Targets, BatchLimit, MaxCandidates, MaxRecords,
          Contents,       \* digests of document texts
          MaxOffers       \* URLs offered to enqueue

VARIABLES at, then,       \* the step of run(), and the one after a checkpoint
          phase, stop,    \* ledger fields of the same names
          cand, rec,      \* candidates and their records
          position, batch, initial,
          target,         \* target_sources of the plan
          sources, excluded,
          studyOver, spent, \* the deadline has passed; the byte budget is exhausted
          offers,         \* URLs offered so far
          collected,      \* what a reader that follows next_offset was given
          disk            \* ledger.json, the two candidate slots and the documents

researchVars == <<at, then, phase, stop, cand, rec, position, batch, initial, target,
                  sources, excluded, studyOver, spent, offers, collected, disk>>

StudyUrls == DOMAIN Identity
NoLedger == [slot |-> 0, snap |-> 0, phase |-> "none", sources |-> <<>>, excluded |-> {}]
NoSlot == [snap |-> 0, records |-> <<>>]

StudyInit == /\ at = "checkpoint" /\ then = "seed" /\ phase = "discovering" /\ stop = "none"
             /\ cand = <<>> /\ rec = <<>> /\ position = 0 /\ batch = <<>> /\ initial = {}
             /\ target \in Targets
             /\ sources = <<>> /\ excluded = {} /\ studyOver = FALSE /\ spent = FALSE /\ offers = 0 /\ collected = <<>>
             /\ disk = [ledger |-> NoLedger, slots |-> <<NoSlot, NoSlot>>, files |-> {}, snaps |-> 0]

\* A mistaken form of Slot: one slot is enough.
SlotOne == 1
\* checkpoint: the slot the ledger on disk does not name is written first, then the ledger.
Slot == 1 - disk.ledger.slot
WriteCandidates ==
    /\ at = "checkpoint"
    /\ disk' = [disk EXCEPT !.slots[Slot + 1] = [snap |-> disk.snaps + 1, records |-> rec],
                            !.snaps = @ + 1]
    /\ at' = "ledger"
    /\ UNCHANGED <<then, phase, stop, cand, rec, position, batch, initial, target, sources, excluded, studyOver, spent, offers, collected>>
WriteLedger ==
    /\ at = "ledger"
    /\ disk' = [disk EXCEPT !.ledger = [slot |-> Slot, snap |-> disk.snaps, phase |-> phase,
                                        sources |-> sources, excluded |-> excluded]]
    /\ at' = then
    /\ UNCHANGED <<then, phase, stop, cand, rec, position, batch, initial, target, sources, excluded, studyOver, spent, offers, collected>>
Checkpoint(next) == at' = "checkpoint" /\ then' = next

\* enqueue: one record per source; a record that was not enqueued may be upgraded.
Upgrades(r) == r.decision = "not_enqueued"
Enqueue(url, rejected) ==
    LET known == {i \in DOMAIN rec : rec[i].identity = Identity[url]}
        eligible == ~rejected /\ url \in Allowed /\ Len(cand) < MaxCandidates
        upgraded == {i \in known : eligible /\ Upgrades(rec[i])}
        added == known = {} /\ Len(rec) < MaxRecords
    IN /\ rec' = IF added
                 THEN Append(rec, [identity |-> Identity[url], source |-> 0,
                                   decision |-> IF eligible THEN "queued" ELSE "not_enqueued"])
                 ELSE [i \in DOMAIN rec |-> IF i \in upgraded THEN [rec[i] EXCEPT !.decision = "queued"] ELSE rec[i]]
       /\ cand' = IF (added /\ eligible) \/ upgraded # {} THEN Append(cand, url) ELSE cand
\* The plan's URLs, then the discovered ones.
Offer(url) == /\ at \in {"seed", "found"} /\ offers < MaxOffers /\ offers' = offers + 1
              /\ Enqueue(url, FALSE)
              /\ UNCHANGED <<at, then, phase, stop, position, batch, initial, target, sources, excluded, studyOver, spent, collected, disk>>
Discover == /\ at = "seed" /\ at' = "found"
            /\ UNCHANGED <<then, phase, stop, cand, rec, position, batch, initial, target, sources, excluded, studyOver, spent, offers, collected, disk>>
Retrieve == /\ at = "found"
            /\ initial' = ToSet(cand) /\ phase' = "retrieving" /\ Checkpoint("loop")
            /\ UNCHANGED <<stop, cand, rec, position, batch, target, sources, excluded, studyOver, spent, offers, collected, disk>>

\* The loop: a batch is never larger than what the target still needs.
Count == CHOOSE n \in {BatchLimit, Len(cand) - position, target - Len(sources)} :
            \A k \in {BatchLimit, Len(cand) - position, target - Len(sources)} : n <= k
More == position < Len(cand) /\ Len(sources) < target /\ ~studyOver /\ ~spent
Fetch == /\ at = "loop" /\ More
         /\ batch' = SubSeq(cand, position + 1, position + Count) /\ position' = position + Count
         /\ at' = "document"
         /\ UNCHANGED <<then, phase, stop, cand, rec, initial, target, sources, excluded, studyOver, spent, offers, collected, disk>>

\* The identity after redirects, and the text, must both be new.
Duplicate(final, text) == \E i \in DOMAIN sources : sources[i].identity = final \/ sources[i].text = text
\* Excluded documents are retained too.
Kept(id, accepted) == {id}
\* A document is judged, recorded and then written; writing it may fail.
Judge(final, text, good) ==
    /\ at = "document" /\ batch # <<>>
    /\ LET id == Len(sources) + Cardinality(excluded) + 1
           accepted == good /\ ~Duplicate(final, text)
           mine == CHOOSE i \in DOMAIN rec : rec[i].identity = Identity[Head(batch)]
       IN /\ sources' = IF accepted THEN Append(sources, [id |-> id, identity |-> final, text |-> text]) ELSE sources
          /\ excluded' = IF accepted THEN excluded ELSE excluded \union {id}
          /\ rec' = [rec EXCEPT ![mine].decision = IF accepted THEN "accepted" ELSE "excluded", ![mine].source = id]
          /\ \/ disk' = [disk EXCEPT !.files = @ \union Kept(id, accepted)] /\ at' = "expand"
             \/ UNCHANGED disk /\ at' = "catch"
    /\ UNCHANGED <<then, phase, stop, cand, position, batch, initial, target, studyOver, spent, offers, collected>>
\* Only a document of the initial candidates offers its links.
Expand(url, rejected) ==
    /\ at = "expand" /\ Head(batch) \in initial /\ offers < MaxOffers /\ offers' = offers + 1
    /\ Enqueue(url, rejected)
    /\ UNCHANGED <<at, then, phase, stop, position, batch, initial, target, sources, excluded, studyOver, spent, collected, disk>>
NextDocument ==
    /\ at = "expand"
    /\ batch' = Tail(batch)
    /\ IF Tail(batch) = <<>> THEN Checkpoint("loop") ELSE at' = "document" /\ UNCHANGED then
    /\ UNCHANGED <<phase, stop, cand, rec, position, initial, target, sources, excluded, studyOver, spent, offers, collected, disk>>

StopReason == CASE Len(sources) >= target -> "target_reached"
                [] studyOver -> "time_budget"
                [] spent -> "byte_budget"
                [] OTHER -> "candidate_exhaustion"
StudyComplete == /\ at = "loop" /\ ~More
                 /\ phase' = "completed" /\ stop' = StopReason /\ Checkpoint("done")
                 /\ UNCHANGED <<cand, rec, position, batch, initial, target, sources, excluded, studyOver, spent, offers, collected, disk>>

\* Anything that throws inside the try; then one more checkpoint, which may throw too.
StudyThrows == /\ at \in {"seed", "found", "document", "loop"} \/ (at \in {"checkpoint", "ledger"} /\ then \notin {"seed", "thrown"})
               /\ at' = "catch"
               /\ UNCHANGED <<then, phase, stop, cand, rec, position, batch, initial, target, sources, excluded, studyOver, spent, offers, collected, disk>>
Catch == /\ at = "catch"
         /\ phase' \in {"cancelled", "failed"} /\ Checkpoint("thrown")
         /\ UNCHANGED <<stop, cand, rec, position, batch, initial, target, sources, excluded, studyOver, spent, offers, collected, disk>>
\* The first and the last checkpoint are outside the try; the worker may die anywhere.
Dies == /\ at \notin {"done", "thrown"}
        /\ at' = "thrown"
        /\ UNCHANGED <<then, phase, stop, cand, rec, position, batch, initial, target, sources, excluded, studyOver, spent, offers, collected, disk>>
StudyOverdue == /\ ~studyOver /\ at \notin {"done", "thrown"} /\ studyOver' = TRUE
                /\ UNCHANGED <<at, then, phase, stop, cand, rec, position, batch, initial, target, sources, excluded, spent, offers, collected, disk>>
Spend == /\ ~spent /\ at = "document" /\ spent' = TRUE
         /\ UNCHANGED <<at, then, phase, stop, cand, rec, position, batch, initial, target, sources, excluded, studyOver, offers, collected, disk>>

\* research_evidence: a page ends at its limit or at the size budget, and names the next offset.
Page(from, count) == SubSeq(disk.ledger.sources, from + 1, from + count)
ReadPage == /\ at # "ledger" /\ disk.ledger.phase # "none"     \* under the ledger's lock
            /\ \E count \in 1..(Len(disk.ledger.sources) - Len(collected)) :
                  collected' = collected \o Page(Len(collected), count)
            /\ UNCHANGED <<at, then, phase, stop, cand, rec, position, batch, initial, target, sources, excluded, studyOver, spent, offers, disk>>

StudyNext == \/ ReadPage \/ WriteCandidates \/ WriteLedger \/ Discover \/ Retrieve \/ Fetch \/ NextDocument
             \/ StudyComplete \/ StudyThrows \/ Catch \/ Dies \/ StudyOverdue \/ Spend
             \/ \E url \in StudyUrls : Offer(url) \/ \E rejected \in BOOLEAN : Expand(url, rejected)
             \/ \E final \in ToSet(Identity), text \in Contents, good \in BOOLEAN : Judge(final, text, good)

\* No source is fetched twice, however often and under whichever URLs it is offered.
FetchedOnce == \A i, j \in DOMAIN cand : i # j => Identity[cand[i]] # Identity[cand[j]]
\* The sources counted towards the target are pairwise distinct in identity and in text.
CoverageIsDistinct ==
    \A i, j \in DOMAIN sources :
        i # j => sources[i].identity # sources[j].identity /\ sources[i].text # sources[j].text
\* The target is never overshot: the shortfall is an unsigned difference.
TargetBounded == Len(sources) <= target
\* At every moment, also after a death between the two writes, the slot the ledger names is
\* the snapshot that belongs to it; its decisions are the ledger's sources and exclusions.
EvidenceConsistent ==
    LET l == disk.ledger
        s == disk.slots[l.slot + 1]
        Decided(decision) == {s.records[i].source : i \in {k \in DOMAIN s.records : s.records[k].decision = decision}}
    IN l.phase # "none" =>
          /\ s.snap = l.snap
          /\ Decided("accepted") = {l.sources[i].id : i \in DOMAIN l.sources} /\ Decided("excluded") = l.excluded
\* Every judged document of a ledger can be read in full; only a run that failed while it
\* wrote one may name one that is missing, the last.
DocumentsKept ==
    LET l == disk.ledger
        missing == ({l.sources[i].id : i \in DOMAIN l.sources} \union l.excluded) \ disk.files
    IN missing # {} => /\ l.phase \in {"failed", "cancelled"}
                       /\ missing = {Len(l.sources) + Cardinality(l.excluded)}
\* Paging through the sources while the run goes on gives each source once, in order.
PagesFollow == collected = SubSeq(disk.ledger.sources, 1, Len(collected))
\* A completed run says it ran out of candidates only when every queued one was judged, and
\* that it reached its target only when it did.
StopReasonTrue ==
    /\ stop = "candidate_exhaustion" => \A i \in DOMAIN rec : rec[i].decision # "queued"
    /\ (stop = "target_reached") = (stop # "none" /\ Len(sources) = target)

-------------------------------------------------------------------------------
(*****************************************************************************)
(* The document cache of research.cpp: documents() answers from it, asks the *)
(* server whether its entry still holds, or fetches; store_cache keeps the   *)
(* directory within its quota. Several processes share the directory;        *)
(* readers take no lock. A document is a version number, which is also its   *)
(* size; the server replaces it by the next.                                 *)
(*****************************************************************************)
CONSTANTS Processes, CacheUrls, Versions, \* versions a document goes through
          Quota, Ages,                 \* values of max_age_seconds
          Transfer,                    \* the longest a transfer takes
          MaxTime, MaxCalls

VARIABLES clock,
          server,   \* the version of each document
          cache,    \* the entry of each URL: version, validation, when the server had it, write time
          lock,     \* the holder of .quota.lock
          proc,     \* each process's call of documents()
          calls,    \* calls made
          fresh     \* the answer given from the cache in this step

cacheVars == <<clock, server, cache, lock, proc, calls, fresh>>

Unlocked == "nobody"
NoEntry == [version |-> 0, validated |-> 0, had |-> 0, written |-> 0]
Idle == [at |-> "idle", url |-> 0, age |-> 0, old |-> NoEntry, sent |-> 0, got |-> NoEntry,
         others |-> 0, tried |-> {}]
NothingFresh == [age |-> 0, had |-> 0]

CacheInit == /\ clock = 1 /\ server = [u \in CacheUrls |-> 1] /\ cache = [u \in CacheUrls |-> NoEntry]
             /\ lock = Unlocked /\ proc = [p \in Processes |-> Idle] /\ calls = 0 /\ fresh = NothingFresh

Step(p, call) == proc' = [proc EXCEPT ![p] = call]

\* documents: the origin's robots policy is fetched once per service; only an allowed URL goes on.
Begin(p, u, age) ==
    /\ proc[p].at = "idle" /\ calls < MaxCalls /\ calls' = calls + 1
    /\ \E allowed \in BOOLEAN :
          Step(p, [Idle EXCEPT !.at = IF allowed THEN "look" ELSE "idle", !.url = IF allowed THEN u ELSE 0,
                               !.age = IF allowed THEN age ELSE 0])
    /\ fresh' = NothingFresh /\ UNCHANGED <<clock, server, cache, lock>>

Fresh(e, age) == age > 0 /\ clock - e.validated <= age
\* cached: a fresh entry answers; an older one makes the request conditional.
Look(p) ==
    /\ proc[p].at = "look"
    /\ LET e == cache[proc[p].url]
       IN IF e.version # 0 /\ Fresh(e, proc[p].age)
          THEN Step(p, Idle) /\ fresh' = [age |-> proc[p].age, had |-> e.had]
          ELSE Step(p, [proc[p] EXCEPT !.at = "sent", !.old = e, !.sent = clock]) /\ fresh' = NothingFresh
    /\ UNCHANGED <<clock, server, cache, lock, calls>>
\* The server answers with its version, or that the entry's version is still its own.
Serve(p) ==
    /\ proc[p].at = "sent"
    /\ Step(p, [proc[p] EXCEPT !.at = "served",
                               !.got = [version |-> server[proc[p].url], validated |-> 0, had |-> clock, written |-> 0]])
    /\ fresh' = NothingFresh /\ UNCHANGED <<clock, server, cache, lock, calls>>
\* The reply is complete: its time becomes the document's validation.
Validated(p, e) == [e EXCEPT !.validated = clock]
CacheComplete(p) ==
         /\ proc[p].at = "served"
         /\ Step(p, [proc[p] EXCEPT !.at = "store",
                       !.got = Validated(p, IF proc[p].got.version = proc[p].old.version
                                            THEN [proc[p].old EXCEPT !.had = proc[p].got.had] ELSE proc[p].got)])
         /\ fresh' = NothingFresh /\ UNCHANGED <<clock, server, cache, lock, calls>>
\* The transfer fails, the document cannot be extracted, or its lock is not to be had.
Unstored(p) == /\ proc[p].at \in {"sent", "served", "store"}
               /\ Step(p, Idle) /\ fresh' = NothingFresh /\ UNCHANGED <<clock, server, cache, lock, calls>>

\* store_cache: the other entries' sizes are added up under the lock.
Locked(p) == lock = Unlocked
Lock(p) == /\ proc[p].at = "store" /\ Locked(p)
           /\ lock' = p
           /\ Step(p, [proc[p] EXCEPT !.at = "evict",
                          !.others = MapThenSumSet(LAMBDA u : cache[u].version, CacheUrls \ {proc[p].url})])
           /\ fresh' = NothingFresh /\ UNCHANGED <<clock, server, cache, calls>>
CacheFits(p) == proc[p].others + proc[p].got.version <= Quota
\* The oldest other entry is removed first; one that cannot be removed is passed over.
Evict(p) ==
    /\ proc[p].at = "evict" /\ ~CacheFits(p)
    /\ LET left == {u \in CacheUrls \ ({proc[p].url} \union proc[p].tried) : cache[u].version # 0}
           oldest == {u \in left : \A v \in left : cache[u].written <= cache[v].written}
       IN \/ /\ left = {} /\ lock' = Unlocked /\ Step(p, Idle) /\ UNCHANGED cache
          \/ \E u \in oldest :
                /\ UNCHANGED lock
                /\ \/ /\ cache' = [cache EXCEPT ![u] = NoEntry]
                      /\ Step(p, [proc[p] EXCEPT !.tried = @ \union {u}, !.others = @ - cache[u].version])
                   \/ UNCHANGED cache /\ Step(p, [proc[p] EXCEPT !.tried = @ \union {u}])
    /\ fresh' = NothingFresh /\ UNCHANGED <<clock, server, calls>>
Publish(p) ==
    /\ proc[p].at = "evict" /\ CacheFits(p)
    /\ cache' = [cache EXCEPT ![proc[p].url] = [proc[p].got EXCEPT !.written = clock]]
    /\ lock' = Unlocked /\ Step(p, Idle) /\ fresh' = NothingFresh
    /\ UNCHANGED <<clock, server, calls>>

\* The server replaces a document; time passes, though no transfer takes too long.
Replace(u) == /\ server[u] < Versions /\ server' = [server EXCEPT ![u] = @ + 1]
              /\ fresh' = NothingFresh /\ UNCHANGED <<clock, cache, lock, proc, calls>>
Tick == /\ clock < MaxTime
        /\ \A p \in Processes : proc[p].at \in {"sent", "served"} => clock < proc[p].sent + Transfer
        /\ clock' = clock + 1 /\ fresh' = NothingFresh
        /\ UNCHANGED <<server, cache, lock, proc, calls>>

CacheNext == \/ \E p \in Processes : \/ \E u \in CacheUrls, age \in Ages : Begin(p, u, age)
                                     \/ Look(p) \/ Serve(p) \/ CacheComplete(p) \/ Unstored(p)
                                     \/ Lock(p) \/ Evict(p) \/ Publish(p)
             \/ \E u \in CacheUrls : Replace(u)
             \/ Tick

\* The cached documents never exceed the quota although processes store concurrently.
QuotaHeld == MapThenSumSet(LAMBDA u : cache[u].version, CacheUrls) <= Quota
\* An answer from the cache is what the server had no longer ago than the allowed age and one
\* transfer, however long its writer waited before it stored it.
FreshIsRecent == fresh.had # 0 => clock - fresh.had <= fresh.age + Transfer

-------------------------------------------------------------------------------
(*****************************************************************************)
(* Transport::get (web_transport.cpp): a set of requests fetched by one      *)
(* thread over concurrent transfers, with a limit per origin, one retry,     *)
(* bounded redirects, a cooldown of origins that say they are busy, and a    *)
(* byte budget that all transfers share. A body is the sequence of the       *)
(* attempts its chunks came from.                                            *)
(*****************************************************************************)
CONSTANTS Requests, Origins, Home,     \* the origin each request names
          Concurrency, PerOrigin, MaxBytes, MaxBody, MaxRedirects

VARIABLES pc,         \* the loop: its top, the scan of the pending items, the transfers
          scan,       \* the index of the scan
          pending, active,
          item,       \* each request's item
          answers,    \* results written, per request
          cool,       \* origins in cooldown
          total, exhausted,
          transferOver \* the deadline has passed

transferVars == <<pc, scan, pending, active, item, answers, cool, total, exhausted, transferOver>>

NewItem(r) == [origin |-> Home[r], headers |-> TRUE, retries |-> 0, redirects |-> 0, attempts |-> 0,
               ready |-> TRUE, failed |-> FALSE, body |-> <<>>]
TransferInit == /\ pc = "top" /\ scan = 1 /\ pending = SetToSeq(Requests) /\ active = {}
                /\ item = [r \in Requests |-> NewItem(r)] /\ answers = [r \in Requests |-> 0]
                /\ cool = {} /\ total = 0 /\ exhausted = FALSE /\ transferOver = FALSE

Ended == transferOver \/ exhausted \/ total >= MaxBytes
\* The deadline and the budget answer whatever is still pending or under way.
Unanswered == ToSet(pending) \union active
Top == /\ pc = "top"
       /\ IF pending = <<>> /\ active = {}
          THEN pc' = "returned" /\ UNCHANGED <<scan, pending, active, answers>>
          ELSE IF Ended
          THEN /\ pc' = "returned" /\ pending' = <<>> /\ active' = {} /\ UNCHANGED scan
               /\ answers' = [r \in Requests |-> IF r \in Unanswered THEN answers[r] + 1 ELSE answers[r]]
          ELSE pc' = "scan" /\ scan' = 1 /\ UNCHANGED <<pending, active, answers>>
       /\ UNCHANGED <<item, cool, total, exhausted, transferOver>>

\* The scan: an item that must wait is passed over; one whose origin cools down is answered.
InFlight(o) == Cardinality({r \in active : item[r].origin = o})
Scan ==
    /\ pc = "scan"
    /\ IF scan > Len(pending) \/ Cardinality(active) >= Concurrency
       THEN pc' = "perform" /\ UNCHANGED <<scan, pending, active, item, answers>>
       ELSE LET r == pending[scan]
                o == item[r].origin
            IN /\ IF ~item[r].ready \/ InFlight(o) >= PerOrigin
                  THEN scan' = scan + 1 /\ UNCHANGED <<pending, active, item, answers>>
                  ELSE /\ pending' = RemoveAt(pending, scan) /\ UNCHANGED scan
                       /\ IF o \in cool
                          THEN answers' = [answers EXCEPT ![r] = @ + 1] /\ UNCHANGED <<active, item>>
                          ELSE /\ active' = active \union {r} /\ UNCHANGED answers
                               /\ item' = [item EXCEPT ![r].attempts = @ + 1]
               /\ UNCHANGED pc
    /\ UNCHANGED <<cool, total, exhausted, transferOver>>

\* write: the shared budget, then the body's limit; a refused chunk fails the transfer.
TransferFits(r) == ~exhausted /\ total + 1 <= MaxBytes
Write(r) ==
    /\ pc = "perform" /\ r \in active /\ ~item[r].failed
    /\ IF ~TransferFits(r)
       THEN exhausted' = TRUE /\ item' = [item EXCEPT ![r].failed = TRUE] /\ UNCHANGED total
       ELSE IF Len(item[r].body) >= MaxBody
       THEN item' = [item EXCEPT ![r].failed = TRUE] /\ UNCHANGED <<exhausted, total>>
       ELSE /\ item' = [item EXCEPT ![r].body = Append(@, item[r].attempts)]
            /\ total' = total + 1 /\ UNCHANGED exhausted
    /\ UNCHANGED <<pc, scan, pending, active, answers, cool, transferOver>>

\* A transient failure is retried once, from an empty body.
Retried(i) == [i EXCEPT !.retries = @ + 1, !.ready = FALSE, !.body = <<>>]
Redirected(i, o) == [i EXCEPT !.redirects = @ + 1, !.origin = o, !.body = <<>>,
                              !.headers = @ /\ o = i.origin]
MayRetry(r) == ~exhausted /\ ~item[r].failed /\ item[r].retries = 0 /\ ~transferOver /\ total < MaxBytes
\* A transfer is done: its answer, a retry or a redirect.
Answer(r) == answers' = [answers EXCEPT ![r] = @ + 1] /\ UNCHANGED <<pending, item>>
Done(r, outcome, o) ==
    /\ pc = "perform" /\ r \in active /\ active' = active \ {r}
    /\ outcome \in {"ok", "limited", "redirect"} => ~item[r].failed
    /\ cool' = IF outcome = "limited" THEN cool \union {item[r].origin} ELSE cool
    /\ IF outcome = "transient" /\ MayRetry(r)
       THEN item' = [item EXCEPT ![r] = Retried(@)] /\ pending' = Append(pending, r) /\ UNCHANGED answers
       ELSE IF outcome = "redirect" /\ item[r].redirects < MaxRedirects
       THEN item' = [item EXCEPT ![r] = Redirected(@, o)] /\ pending' = Append(pending, r) /\ UNCHANGED answers
       ELSE Answer(r)
    /\ UNCHANGED <<pc, scan, total, exhausted, transferOver>>
Loop == pc = "perform" /\ pc' = "top" /\ UNCHANGED <<scan, pending, active, item, answers, cool, total, exhausted, transferOver>>

\* A cancellation, or a transfer that cannot be set up.
TransferThrows == /\ pc \in {"top", "scan"} /\ pc' = "thrown" /\ active' = {}
                  /\ UNCHANGED <<scan, pending, item, answers, cool, total, exhausted, transferOver>>
\* Time: the deadline, the end of a cooldown, of the pause before a retry.
TransferOverdue == /\ ~transferOver /\ transferOver' = TRUE
                   /\ UNCHANGED <<pc, scan, pending, active, item, answers, cool, total, exhausted>>
Cooled(o) == /\ o \in cool /\ cool' = cool \ {o}
             /\ UNCHANGED <<pc, scan, pending, active, item, answers, total, exhausted, transferOver>>
Ready(r) == /\ ~item[r].ready /\ item' = [item EXCEPT ![r].ready = TRUE]
            /\ UNCHANGED <<pc, scan, pending, active, answers, cool, total, exhausted, transferOver>>

LoopStep == Top \/ Scan \/ Loop
Outcomes == {"ok", "limited", "redirect", "transient", "error"}
TransferNext == \/ LoopStep \/ TransferThrows \/ TransferOverdue
                \/ \E o \in Origins : Cooled(o)
                \/ \E r \in Requests : \/ Write(r) \/ Ready(r)
                                       \/ \E outcome \in Outcomes, o \in Origins :
                                             (outcome = "redirect" \/ o = item[r].origin) /\ Done(r, outcome, o)

\* No more transfers than allowed run at once, in all and at one origin, although redirects
\* move requests between origins while they are under way.
ConcurrencyBounded == /\ Cardinality(active) <= Concurrency
                      /\ \A o \in Origins : Cardinality({r \in active : item[r].origin = o}) <= PerOrigin
\* Every request has exactly one answer when get returns, however the loop ended.
AnsweredOnce == /\ \A r \in Requests : answers[r] <= 1
                /\ pc = "returned" => \A r \in Requests : answers[r] = 1
\* The transfers together never take more than the byte budget: what is left of it is an
\* unsigned difference.
BytesWithinBudget == total <= MaxBytes
\* A body consists of one attempt's bytes, also after a retry or a redirect.
BodyOfOneAttempt == \A r \in Requests : \A i \in DOMAIN item[r].body : item[r].body[i] = item[r].attempts
\* A request's conditional headers are sent to no origin but its own.
HeadersStayHome == \A r \in active : item[r].headers => item[r].origin = Home[r]
\* A request is tried at most once more than it was redirected, and once for the start.
AttemptsBounded == \A r \in Requests : item[r].attempts <= MaxRedirects + 2
\* get returns although a server may never finish its answer.
GetReturns == <>(pc \in {"returned", "thrown"})
TransferFairness == WF_transferVars(LoopStep) /\ WF_transferVars(TransferOverdue)
===============================================================================
