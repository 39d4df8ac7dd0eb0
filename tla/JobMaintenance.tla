---------------------------- MODULE JobMaintenance ----------------------------
(*****************************************************************************)
(* Maintenance of the job stores (jobs_maintenance.cpp): the passes over the *)
(* indexed store, the sweep over the legacy store and the legacy quota. They *)
(* run on different stores and share no state.                               *)
(*****************************************************************************)
EXTENDS Integers, Sequences, SequencesExt, FiniteSets, FiniteSetsExt

-------------------------------------------------------------------------------
(*****************************************************************************)
(* Maintenance of the indexed job store (jobs_maintenance.cpp): passes over  *)
(* pages of job records measure each job's directory, delete the artifacts   *)
(* of jobs that are expired or in the way of the quota, and keep a usage     *)
(* record per job and a meter over all of them.                              *)
(*                                                                           *)
(* A pass first writes a durable intent to prune, then has the filesystem    *)
(* worker delete the directory, and commits all usage records, the meter and *)
(* the completed prunings in one transaction at its end. It may die          *)
(* anywhere, the worker's answer may be lost or its deletion may stop half-  *)
(* way, and the job records may change under it. Passes exclude each other   *)
(* by .maintenance.lock. Job ids are numbers, in index order.                *)
(*****************************************************************************)
CONSTANTS Jobs, PageSize, MaxSize, MaxBytes, MaxTerminal, MaxFaults

VARIABLES job,      \* record: status, producer alive, prune state
          disk,     \* bytes of the job directory, 0 when it is gone
          mirror,   \* status.json in it: "active", "terminal" or "missing"
          expired,  \* jobs past their retention time
          usage,    \* committed usage records
          meter,    \* committed totals and the page cursor
          pass,     \* the running pass
          faults   \* records changed under a pass, lost answers and deaths so far

retentionVars == <<job, disk, mirror, expired, usage, meter, pass, faults>>

NoPass == [on |-> FALSE, quota |-> FALSE, todo |-> {}, page |-> {}, dirty |-> {},
           bytes |-> 0, retained |-> 0, seen |-> [j \in Jobs |-> [bytes |-> 0, kind |-> "unknown"]],
           sampled |-> {}, pruned |-> {}]

RetentionInit == /\ job = [j \in Jobs |-> [status |-> "active", alive |-> TRUE, prune |-> "none"]]
                 /\ disk = [j \in Jobs |-> 1]
                 /\ mirror = [j \in Jobs |-> "active"]
                 /\ expired = {}
                 /\ usage = [j \in Jobs |-> [bytes |-> 0, kind |-> "unknown"]]
                 /\ meter = [bytes |-> 0, retained |-> 0, after |-> 0]
                 /\ pass = NoPass
                 /\ faults = 0

\* A job leaves the candidate index when it is pruned and charged with nothing.
Candidates == {j \in Jobs : job[j].prune # "completed" \/ usage[j].bytes # 0}
Following == {j \in Candidates : j > meter.after}
Page == {j \in Following : Cardinality({k \in Following : k < j}) < PageSize}

Begin(quota) ==
    /\ ~pass.on
    /\ pass' = [NoPass EXCEPT !.on = TRUE, !.quota = quota, !.todo = Page, !.page = Page,
                              !.bytes = meter.bytes, !.retained = meter.retained]
    /\ UNCHANGED <<job, disk, mirror, expired, usage, meter, faults>>

Current == Min(pass.todo)
RetentionPressure == pass.bytes > MaxBytes \/ pass.retained > MaxTerminal
Removable(j) == /\ job[j].status = "done" /\ ~job[j].alive
                /\ j \in expired \/ (pass.quota /\ RetentionPressure) \/ job[j].prune = "pending"

\* An error over one job leaves the totals as they were and goes on to the next.
Skip(j) == pass' = [pass EXCEPT !.todo = @ \ {j}]
Fault == faults < MaxFaults /\ faults' = faults + 1

\* The durable intent, refused when the record changed since it was listed.
Intend ==
    /\ pass.on /\ pass.todo # {}
    /\ Removable(Current) /\ job[Current].prune = "none"
    /\ IF Current \in pass.dirty
       THEN Skip(Current) /\ UNCHANGED job
       ELSE job' = [job EXCEPT ![Current].prune = "pending"] /\ UNCHANGED pass
    /\ UNCHANGED <<disk, mirror, expired, usage, meter, faults>>

\* job_filesystem_operation: only an agreed terminal status.json, or its absence after an
\* earlier intent, lets the directory go.
Deletes(j) == /\ Removable(j) /\ disk[j] # 0
              /\ mirror[j] = "terminal" \/ (mirror[j] = "missing" /\ job[j].prune = "pending")
Kind(j, exists) == IF ~exists THEN "absent" ELSE IF job[j].status = "active" THEN "active" ELSE "retained"
\* A mistaken form of Charge: the previous charge stays.
ChargeAgain(j, observed) ==
    [pass EXCEPT !.todo = @ \ {j}, !.bytes = @ + observed,
                 !.seen[j] = [bytes |-> observed, kind |-> Kind(j, observed # 0)],
                 !.sampled = @ \union {j},
                 !.pruned = IF observed = 0 /\ job[j].prune = "pending" THEN @ \union {j} ELSE @]
Charge(j, observed) ==
    LET kind == Kind(j, observed # 0) IN
    [pass EXCEPT !.todo = @ \ {j},
                 !.bytes = @ - usage[j].bytes + observed,
                 !.retained = @ - (IF usage[j].kind = "retained" THEN 1 ELSE 0)
                                + (IF kind = "retained" THEN 1 ELSE 0),
                 !.seen[j] = [bytes |-> observed, kind |-> kind],
                 !.sampled = @ \union {j},
                 !.pruned = IF observed = 0 /\ job[j].prune = "pending" THEN @ \union {j} ELSE @]
Inspect ==
    /\ pass.on /\ pass.todo # {}
    /\ ~(Removable(Current) /\ job[Current].prune = "none")
    /\ LET j == Current IN
       \/ /\ ~Deletes(j)
          /\ \/ pass' = Charge(j, disk[j]) /\ UNCHANGED faults
             \/ Fault /\ Skip(j)
          /\ UNCHANGED <<disk, mirror>>
       \/ /\ Deletes(j)
          /\ \/ disk' = [disk EXCEPT ![j] = 0] /\ pass' = Charge(j, 0) /\ UNCHANGED faults
             \/ Fault /\ Skip(j) /\ \E left \in {0, 1} : disk' = [disk EXCEPT ![j] = left]
          /\ mirror' = [mirror EXCEPT ![j] = "missing"]
    /\ UNCHANGED <<job, expired, usage, meter>>

\* One transaction for every charge, the totals, the cursor and the completed prunings;
\* it conflicts when a pruned job's record changed under the pass.
Commit ==
    /\ pass.on /\ pass.todo = {}
    /\ pass' = NoPass
    /\ IF pass.pruned \intersect pass.dirty # {}
       THEN UNCHANGED <<job, usage, meter>>
       ELSE /\ usage' = [j \in Jobs |-> IF j \in pass.sampled THEN pass.seen[j] ELSE usage[j]]
            /\ meter' = [bytes |-> pass.bytes, retained |-> pass.retained,
                         after |-> IF Following \subseteq pass.page THEN 0 ELSE Max(pass.page)]
            /\ job' = [j \in Jobs |-> IF j \in pass.pruned THEN [job[j] EXCEPT !.prune = "completed"]
                                                           ELSE job[j]]
    /\ UNCHANGED <<disk, mirror, expired, faults>>
Abandon ==
    /\ pass.on /\ Fault
    /\ pass' = NoPass
    /\ UNCHANGED <<job, disk, mirror, expired, usage, meter>>

-----------------------------------------------------------------------------
\* The job's own side: output grows, the job ends (its status.json mirror may be lost
\* with the writer), its runner exits, its record is rewritten, its retention runs out.
Grow(j) == /\ job[j].status = "active" /\ disk[j] < MaxSize
           /\ disk' = [disk EXCEPT ![j] = @ + 1]
           /\ UNCHANGED <<job, mirror, expired, usage, meter, pass, faults>>
End(j) == /\ job[j].status = "active"
          /\ \E status \in {"done", "held"} : job' = [job EXCEPT ![j].status = status]
          /\ mirror' \in {mirror, [mirror EXCEPT ![j] = "terminal"]}
          /\ pass' = [pass EXCEPT !.dirty = IF pass.on THEN @ \union {j} ELSE @]
          /\ UNCHANGED <<disk, expired, usage, meter, faults>>
Exit(j) == /\ job[j].alive /\ job[j].status = "done"
           /\ job' = [job EXCEPT ![j].alive = FALSE]
           /\ UNCHANGED <<disk, mirror, expired, usage, meter, pass, faults>>
Touch(j) == /\ pass.on /\ j \notin pass.dirty /\ Fault
            /\ pass' = [pass EXCEPT !.dirty = @ \union {j}]
            /\ UNCHANGED <<job, disk, mirror, expired, usage, meter>>
Expire(j) == /\ j \notin expired /\ ~job[j].alive
             /\ expired' = expired \union {j}
             /\ UNCHANGED <<job, disk, mirror, usage, meter, pass, faults>>

RetentionNext == \/ \E quota \in BOOLEAN : Begin(quota)
                 \/ Intend \/ Inspect \/ Commit \/ Abandon
                 \/ \E j \in Jobs : Grow(j) \/ End(j) \/ Exit(j) \/ Touch(j) \/ Expire(j)

-----------------------------------------------------------------------------
\* The aggregate meter is the sum of the committed charges, whatever failed on the way:
\* "Lost acknowledgements cannot count a charge twice".
MeterExact == /\ meter.bytes = MapThenSumSet(LAMBDA j : usage[j].bytes, Jobs)
              /\ meter.retained = Cardinality({j \in Jobs : usage[j].kind = "retained"})

\* No artifacts disappear without a durable intent, and none are reported pruned while
\* they are still there.
DeletionsRecorded == \A j \in Jobs : /\ disk[j] = 0 => job[j].prune # "none"
                                     /\ job[j].prune = "completed" => disk[j] = 0

\* Artifacts are deleted only of a job that ended with its workload accounted for and
\* whose runner is gone.
LiveArtifactsKept ==
    [][\A j \in Jobs : disk'[j] < disk[j] => job[j].status = "done" /\ ~job[j].alive]_retentionVars

\* A pruning that was begun is completed by later passes, provided status.json agrees
\* that the job is over.
PruneCompletes ==
    \A j \in Jobs : (job[j].prune = "pending" /\ mirror[j] # "active") ~> (job[j].prune = "completed")

\* Maintenance runs periodically and its passes end.
RetentionFairness == /\ WF_retentionVars(Begin(FALSE)) /\ WF_retentionVars(Intend)
                     /\ WF_retentionVars(Inspect) /\ WF_retentionVars(Commit)

-------------------------------------------------------------------------------
(*****************************************************************************)
(* Maintenance of the legacy job store (jobs_maintenance.cpp). A sweep walks *)
(* a sorted in-memory list of job ids in batches, keeping a cursor between   *)
(* calls, while submissions insert ids, the quota enforcer and the sweep     *)
(* itself delete some, and an hourly refresh replaces the list. The list,    *)
(* the cursor and the cycle are guarded by one mutex; the work on a batch is *)
(* done outside it.                                                          *)
(*****************************************************************************)
CONSTANTS Ids,       \* job ids: numbers, in directory order
          Start,     \* ids present at first
          Batch,     \* jobs of one call
          Nothing    \* no rediscovery under way

VARIABLES born,      \* ids ever given to a job; a receipt keeps them from being reused
          folders,   \* job directories on disk
          ids,       \* the sorted list
          cursor,    \* next position
          cycle,     \* ids present when the running cycle began; {} between cycles
          batch,     \* ids the sweep is working on
          visited,   \* ids handed out in the running cycle
          found,     \* what an hourly rediscovery has listed
          evicting   \* jobs the quota enforcer has deleted but not yet noted

sweepVars == <<born, folders, ids, cursor, cycle, batch, visited, found, evicting>>

Sorted(set) == SetToSortSeq(set, <)

SweepInit == /\ born = Start
             /\ folders = Start
             /\ ids = Sorted(Start)
             /\ cursor = 0
             /\ cycle = {} /\ batch = {} /\ visited = {} /\ evicting = {} /\ found = Nothing

\* create_job: the id enters the list in order; the cursor moves with it.
Create(id) ==
    /\ id \in Ids \ born
    /\ born' = born \union {id}
    /\ folders' = folders \union {id}
    /\ ids' = Sorted(Range(ids) \union {id})
    /\ cursor' = IF Cardinality({k \in Range(ids) : k < id}) < cursor THEN cursor + 1 ELSE cursor
    /\ UNCHANGED <<cycle, batch, visited, found, evicting>>

\* reconcile_maintenance, under the mutex: the next batch; the last one ends the cycle.
From == IF cursor >= Len(ids) THEN 0 ELSE cursor
To == From + Min({Batch, Len(ids) - From})
TakeBatch ==
    /\ batch = {} /\ ids # <<>>
    /\ batch' = Range(SubSeq(ids, From + 1, To))
    /\ LET began == IF visited = {} THEN Range(ids) ELSE cycle
       IN cycle' = IF To >= Len(ids) THEN {} ELSE began
    /\ visited' = IF To >= Len(ids) THEN {} ELSE visited \union batch'
    /\ cursor' = IF To >= Len(ids) THEN 0 ELSE To
    /\ UNCHANGED <<born, folders, ids, found, evicting>>

\* note_deleted: the list forgets the ids, the cursor those that were before it.
NoteDeleted(deleted) ==
    LET before == Cardinality({n \in 1 .. Min({cursor, Len(ids)}) : ids[n] \in deleted})
    IN /\ ids' = SelectSeq(ids, LAMBDA id : id \notin deleted)
       /\ cursor' = Min({cursor - before, Len(ids')})

\* The rest of reconcile_maintenance: expired jobs of the batch are removed and noted.
FinishBatch ==
    /\ batch # {}
    /\ \E gone \in SUBSET (batch \intersect folders) :
          folders' = folders \ gone /\ NoteDeleted(gone)
    /\ batch' = {}
    /\ UNCHANGED <<born, cycle, visited, found, evicting>>

\* enforce_store_quota: directories are removed first and noted afterwards.
Evict(id) == /\ id \in folders
             /\ folders' = folders \ {id}
             /\ evicting' = evicting \union {id}
             /\ UNCHANGED <<born, ids, cursor, cycle, batch, visited, found>>
NoteEvicted == /\ evicting # {}
               /\ NoteDeleted(evicting)
               /\ evicting' = {}
               /\ UNCHANGED <<born, folders, cycle, batch, visited, found>>

\* ensure_index: the directory is listed outside the mutex; ids that raced the listing
\* and exist are merged in, and the sweep starts over.
Discover == /\ found = Nothing
            /\ found' = folders
            /\ UNCHANGED <<born, folders, ids, cursor, cycle, batch, visited, evicting>>
Merge == /\ found # Nothing
         /\ ids' = Sorted(found \union (Range(ids) \intersect folders))
         /\ cursor' = 0
         /\ cycle' = {} /\ visited' = {} /\ found' = Nothing
         /\ UNCHANGED <<born, folders, batch, evicting>>

SweepNext == \/ \E id \in Ids : Create(id) \/ Evict(id)
             \/ TakeBatch \/ FinishBatch \/ NoteEvicted \/ Discover \/ Merge

\* No job is passed over: when a cycle ends, every job that was there when it began, and
\* still is, has been handed out.
CycleCoversAll ==
    [][TakeBatch /\ To >= Len(ids) =>
       (IF visited = {} THEN Range(ids) ELSE cycle) \intersect folders \subseteq visited \union batch']_sweepVars
\* The list stays sorted and holds every existing job directory.
ListKnowsAll == /\ folders \subseteq Range(ids)
                /\ \A n \in 1 .. Len(ids) - 1 : ids[n] < ids[n + 1]

-------------------------------------------------------------------------------
(*****************************************************************************)
(* What the legacy quota enforcer deletes (jobs_maintenance.cpp,             *)
(* enforce_store_quota), as a function of the sampled job directories and    *)
(* the two limits, compared with what it is meant to achieve. The sampled    *)
(* directories are built up one at a time, so that a run visits every set of *)
(* them within its bounds. Arithmetic is unsigned and exact here: the bounds *)
(* are far from 2^64.                                                        *)
(*****************************************************************************)
CONSTANTS MaxJobs, Sizes, Times, ByteLimits, JobLimits

VARIABLES sampled,  \* entries [id, bytes, terminal, completed]
          limits    \* job_store_max_bytes and job_store_max_terminal_jobs, 0 for none

quotaVars == <<sampled, limits>>

QuotaInit == sampled = {} /\ limits = [bytes |-> 0, jobs |-> 0]
Sample == /\ Cardinality(sampled) < MaxJobs
          /\ \E bytes \in Sizes, terminal \in BOOLEAN, completed \in Times :
                sampled' = sampled \union {[id |-> Cardinality(sampled) + 1, bytes |-> bytes,
                                            terminal |-> terminal, completed |-> completed]}
          /\ UNCHANGED limits
Configure == /\ sampled = {}
             /\ \E bytes \in ByteLimits, jobs \in JobLimits : limits' = [bytes |-> bytes, jobs |-> jobs]
             /\ UNCHANGED sampled
QuotaNext == Sample \/ Configure

-----------------------------------------------------------------------------
\* The eviction order: oldest completion first, then the id.
Before(a, b) == a.completed < b.completed \/ (a.completed = b.completed /\ a.id < b.id)
TotalBytes(set) == MapThenSumSet(LAMBDA e : e.bytes, set)
Done == {e \in sampled : e.terminal}
Active == TotalBytes(sampled \ Done)

QuotaPressure(set) == \/ limits.bytes # 0 /\ TotalBytes(set) > limits.bytes
                      \/ limits.jobs # 0 /\ Cardinality({e \in set : e.terminal}) > limits.jobs

\* Nine tenths of the byte limit, computed without overflow.
LowWater == (limits.bytes \div 10) * 9 + ((limits.bytes % 10) * 9) \div 10
TargetBytes == IF Active >= limits.bytes THEN TotalBytes(Done)
               ELSE (IF Active < LowWater THEN LowWater ELSE limits.bytes) - Active
Enough(left) == /\ limits.bytes = 0 \/ TotalBytes(left) <= TargetBytes
                /\ limits.jobs = 0 \/ Cardinality(left) <= (limits.jobs * 9) \div 10

\* The loop over the terminal jobs, oldest first, until the targets are met.
Kept == FoldLeft(LAMBDA left, e : IF Enough(left) THEN left ELSE left \ {e},
                 Done, SetToSortSeq(Done, Before))
Evicted == IF QuotaPressure(sampled) THEN Done \ Kept ELSE {}

-----------------------------------------------------------------------------
\* README: pressure limits "evict the oldest terminal jobs toward a low-water mark
\* without deleting active jobs".  The evicted jobs are terminal and the oldest; no job
\* goes once the targets are met; and the pressure is gone afterwards unless the active
\* jobs alone exceed the byte limit.
EvictionSound ==
    /\ \A e \in Evicted : /\ e.terminal
                          /\ \A d \in Done : Before(d, e) => d \in Evicted
                          /\ (\A d \in Evicted : d = e \/ Before(d, e)) => ~Enough((Done \ Evicted) \union {e})
    /\ QuotaPressure(sampled \ Evicted) => limits.bytes # 0 /\ Active >= limits.bytes
===============================================================================
