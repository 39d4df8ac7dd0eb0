------------------------------ MODULE StateFiles ------------------------------
(*****************************************************************************)
(* The state store as data: its tables, counters and listings, its           *)
(* snapshots, and the migration of the legacy files into it. Each is checked *)
(* on a store of its own.                                                    *)
(*****************************************************************************)
EXTENDS Integers, Sequences, SequencesExt, FiniteSets, FiniteSetsExt

-------------------------------------------------------------------------------
(*****************************************************************************)
(* The derived tables of the SQLite state store: the counts that triggers    *)
(* keep per kind, owner and status, the queue of jobs that maintenance still *)
(* has to visit, and the paged reads over both while writers go on.          *)
(*****************************************************************************)
CONSTANTS
  Ids,          \* job identifiers, integers: their order is the order of a page
  Principals,   \* owners of records
  PageLimit,    \* records of one page
  PageBytes,    \* payload bytes of one page
  Owner,        \* the owner of each job
  Size,         \* the payload size of each job's record
  Absent        \* no record

VARIABLES
  records,      \* by kind and id
  counts,       \* the table counts, its rows of kind job: by owner or "*", status or "*"
  candidates,   \* job_maintenance_candidates: the owner queued for a job, or Absent
  reading       \* one listing in progress

indexVars == <<records, counts, candidates, reading>>

Kinds == {"job", "job_usage"}
JobStatuses == {"running", "succeeded"}

(* A job carries the flag artifacts_pruned, which only a finished one may have,*)
(* and a usage record the flag compacted.                                      *)
Records(kind, id) ==
  IF kind = "job"
  THEN {r \in [principal : {Owner[id]}, status : JobStatuses, flag : BOOLEAN] :
          r.flag => r.status = "succeeded"}
  ELSE {r \in [principal : Principals, status : {"present", "absent"}, flag : BOOLEAN] :
          r.flag <=> r.status = "absent"}

(* A job whose artifacts are gone, and a usage record that charges nothing.    *)
pruned(r) == r # Absent /\ r.status = "succeeded" /\ r.flag
missing(r) == r # Absent /\ r.status = "absent" /\ r.flag

Settled(rows, i) ==
  /\ pruned(rows["job"][i])
  /\ missing(rows["job_usage"][i])
  /\ rows["job"][i].principal = rows["job_usage"][i].principal

(* The rows of counts that a record is counted in.                             *)
Rows(r) ==
  IF r = Absent THEN {} ELSE {"*", r.principal} \X {"*", r.status}

(* The triggers records_insert and records_update.                             *)
Recount(n, old, new) ==
  [row \in DOMAIN n |->
     n[row] - (IF row \in Rows(old) THEN 1 ELSE 0)
            + (IF row \in Rows(new) THEN 1 ELSE 0)]

(* The triggers job_maintenance_insert and job_maintenance_update: whichever of*)
(* the two records is written, its job is queued again.                        *)
Requeue(queue, rows, i) ==
  [queue EXCEPT ![i] = IF rows["job"][i] = Absent THEN @ ELSE rows["job"][i].principal]

settle_maintenance_candidate(queue, rows, i) ==
  IF Settled(rows, i) THEN [queue EXCEPT ![i] = Absent] ELSE queue

(* One mutation of a batch, inside its transaction.                            *)
Write(s, change) ==
  LET rows  == [s.records EXCEPT ![change.kind][change.id] = change.record]
      queue == Requeue(s.candidates, rows, change.id)
  IN [records    |-> rows,
      counts     |-> Recount(s.counts, s.records["job"][change.id],
                             rows["job"][change.id]),
      candidates |-> settle_maintenance_candidate(queue, rows, change.id)]

(* The store refuses to change the owner of a record.                          *)
OwnerKept(change) ==
  LET old == records[change.kind][change.id]
  IN old # Absent => old.principal = change.record.principal

Changes(kind, id) == [kind : {kind}, id : {id}, record : Records(kind, id)]

(* One record is written, or a job with its usage in either order.             *)
Batches(id) ==
  LET jobs == Changes("job", id)
      uses == Changes("job_usage", id)
  IN {<<c>> : c \in jobs \cup uses} \cup (jobs \X uses) \cup (uses \X jobs)

Idle == [on |-> FALSE, principal |-> "*", queue |-> FALSE, after |-> 0, got |-> <<>>,
         steady |-> {}, dry |-> FALSE]

IndexInit ==
       /\ records = [k \in Kinds |-> [i \in Ids |-> Absent]]
       /\ counts = [row \in (Principals \cup {"*"}) \X (JobStatuses \cup {"*"}) |-> 0]
       /\ candidates = [i \in Ids |-> Absent]
       /\ reading = Idle

(* The jobs a listing asks for: of one owner or of all, queued or any.         *)
Matching(rows, queue, q) ==
  {i \in Ids :
     /\ rows["job"][i] # Absent
     /\ q.principal = "*" \/ rows["job"][i].principal = q.principal
     /\ q.queue => queue[i] = rows["job"][i].principal}

(* apply: the changes of a batch in their order, all or none of them.          *)
Apply ==
  \E batch \in UNION {Batches(i) : i \in Ids} :
    /\ \A n \in 1..Len(batch) : OwnerKept(batch[n])
    /\ LET s == FoldLeft(Write, [records |-> records, counts |-> counts,
                                 candidates |-> candidates], batch)
       IN /\ records' = s.records
          /\ counts' = s.counts
          /\ candidates' = s.candidates
          /\ reading' = [reading EXCEPT !.steady =
                           @ \cap Matching(s.records, s.candidates, reading)]

(* The first page of a listing is asked for. Queued jobs are listed by owner.  *)
StartList ==
  /\ ~reading.on
  /\ \E p \in Principals \cup {"*"}, q \in BOOLEAN :
       /\ q => p # "*"
       /\ LET r == [Idle EXCEPT !.on = TRUE, !.principal = p, !.queue = q]
          IN reading' = [r EXCEPT !.steady = Matching(records, candidates, r)]
  /\ UNCHANGED <<records, counts, candidates>>

(* A row that the page still takes: the first one however large it is.         *)
Takes(page, size) ==
  Len(page.ids) < PageLimit /\ (page.ids = <<>> \/ size <= PageBytes - page.bytes)

(* The rows of the page, in the order of their ids, and whether more follow.   *)
Page(wanted) ==
  LET Take(page, i) ==
        LET size == Size[i]
        IN IF ~page.more /\ Takes(page, size)
           THEN [page EXCEPT !.ids = Append(@, i), !.bytes = @ + size]
           ELSE [page EXCEPT !.more = TRUE]
  IN FoldLeft(Take, [ids |-> <<>>, bytes |-> 0, more |-> FALSE],
              SetToSortSeq(wanted, LAMBDA a, b : a < b))

(* list: one page after the cursor, and the next cursor when it is not the last*)
list ==
  /\ reading.on /\ ~reading.dry
  /\ LET wanted == {i \in Matching(records, candidates, reading) : i > reading.after}
         page   == Page(wanted)
     IN reading' = [reading EXCEPT !.got = @ \o page.ids,
                                   !.after = IF page.ids = <<>> THEN @ ELSE Last(page.ids),
                                   !.dry = ~page.more]
  /\ UNCHANGED <<records, counts, candidates>>

EndList ==
  /\ reading.dry
  /\ reading' = Idle
  /\ UNCHANGED <<records, counts, candidates>>

IndexNext == Apply \/ StartList \/ list \/ EndList

(* count_matching: the statuses asked for, one query each, up to the limit.    *)
count_matching(p, statuses, limit) ==
  LET Rest(n, s) ==
        n + Min({limit - n, Cardinality({i \in Ids :
                   records["job"][i] # Absent /\ records["job"][i].principal = p
                     /\ records["job"][i].status = s})})
  IN FoldSet(LAMBDA s, n : Rest(n, s), 0, statuses)

(* The counts that admission relies on are exact after any batch, however its  *)
(* changes move records between statuses, and a bounded count over several     *)
(* statuses is the true number of jobs cut at its limit (triggers              *)
(* records_insert and records_update, count_matching).                         *)
CountsExact ==
  /\ \A row \in DOMAIN counts :
       counts[row] = Cardinality({i \in Ids : row \in Rows(records["job"][i])})
  /\ \A p \in Principals, statuses \in SUBSET JobStatuses, limit \in 1..Cardinality(Ids) :
       count_matching(p, statuses, limit) =
         Min({limit, Cardinality({i \in Ids : records["job"][i] # Absent
                /\ records["job"][i].principal = p
                /\ records["job"][i].status \in statuses})})

(* Maintenance never forgets a job and is never offered a finished one: a job  *)
(* is queued exactly while its artifacts are not pruned or its usage is not yet*)
(* compacted, in whatever order the two records are written                    *)
(* (settle_maintenance_candidate after the requeueing triggers).               *)
QueueExact ==
  \A i \in Ids :
    candidates[i] # Absent <=> records["job"][i] # Absent /\ ~Settled(records, i)

(* A listing that has reached its last page has returned, once and in order,   *)
(* every job that matched from its first page to its last, while other batches *)
(* were applied between the pages (list: the cursor and the byte bound).       *)
ListingComplete ==
  /\ reading.dry => reading.steady \subseteq Range(reading.got)
  /\ \A m, n \in 1..Len(reading.got) : m < n => reading.got[m] < reading.got[n]

-------------------------------------------------------------------------------
(*****************************************************************************)
(* Private snapshots of the state store and their restoration, step by step: *)
(* the process may stop between any two steps, another process may try to    *)
(* open the new directory as a writable store, and the files of a finished   *)
(* snapshot may change while it is being restored.                           *)
(*****************************************************************************)
CONSTANTS
  MaxVersion,   \* states of the live store
  MaxDamage,    \* changes to the files of a snapshot from outside
  None

Copy == "snapshot"
Restored == "restored"
Dirs == {Copy, Restored}

VARIABLES
  live,         \* the content of the live store
  dir,          \* the files of each directory
  lock,         \* who holds .writer.lock of each directory
  task,         \* the snapshot or restoration in progress
  opened,       \* the directories a writer has opened
  damage        \* changes made to the snapshot from outside

snapshotVars == <<live, dir, lock, task, opened, damage>>

(* Contents are numbers; a copy that mixes two of them is Mixed.               *)
Mixed == -1
NoFiles == [made |-> FALSE, fence |-> FALSE, database |-> None, pages |-> 0,
            hash |-> None, stamp |-> None]

Resting == [at |-> "idle", to |-> None, expected |-> None]

SnapshotInit ==
          /\ live = 1
          /\ dir = [d \in Dirs |-> NoFiles]
          /\ lock = [d \in Dirs |-> None]
          /\ task = Resting
          /\ opened = {}
          /\ damage = 0

(* What is being copied: the live store, or the snapshot opened read-only.     *)
Content == IF task.to = Copy THEN live ELSE dir[Copy].database

(* An error or a stop leaves the files as they are and releases the lock.      *)
Abandons == 
  /\ task' = Resting
  /\ lock' = [d \in Dirs |-> IF lock[d] = "snapshot" THEN None ELSE lock[d]]

LiveChanges ==
  /\ live < MaxVersion
  /\ task.to # Copy                       \* private_snapshot holds the store's mutex
  /\ live' = live + 1
  /\ UNCHANGED <<dir, lock, task, opened, damage>>

(* private_snapshot is asked for a destination that does not exist yet.        *)
BeginSnapshot ==
  /\ task = Resting
  /\ ~dir[Copy].made
  /\ dir' = [dir EXCEPT ![Copy].made = TRUE]
  /\ task' = [Resting EXCEPT !.at = "lock", !.to = Copy]
  /\ UNCHANGED <<live, lock, opened, damage>>

(* restore_state_snapshot verifies the manifest and the hash of the database   *)
(* before private_snapshot creates the destination.                            *)
BeginRestore ==
  /\ task = Resting
  /\ dir[Copy].hash # None /\ dir[Copy].database = dir[Copy].hash
  /\ ~dir[Restored].made
  /\ dir' = [dir EXCEPT ![Restored].made = TRUE]
  /\ task' = [at |-> "lock", to |-> Restored, expected |-> dir[Copy].hash]
  /\ UNCHANGED <<live, lock, opened, damage>>

TakeLock ==
  /\ task.at = "lock"
  /\ IF lock[task.to] = None
     THEN /\ lock' = [lock EXCEPT ![task.to] = "snapshot"]
          /\ task' = [task EXCEPT !.at = "fence"]
     ELSE Abandons
  /\ UNCHANGED <<live, dir, opened, damage>>

(* recovery-fenced.json is written before the database file exists.            *)
Fence ==
  /\ task.at = "fence"
  /\ dir' = [dir EXCEPT ![task.to].fence = TRUE]
  /\ task' = [task EXCEPT !.at = "create"]
  /\ UNCHANGED <<live, lock, opened, damage>>

(* The database is created exclusively: an existing one ends the snapshot.     *)
CreateDatabase ==
  /\ task.at = "create"
  /\ IF dir[task.to].database = None
     THEN /\ dir' = [dir EXCEPT ![task.to].database = 0]
          /\ task' = [task EXCEPT !.at = "copy"]
          /\ UNCHANGED lock
     ELSE Abandons /\ UNCHANGED dir
  /\ UNCHANGED <<live, opened, damage>>

(* sqlite3_backup_step: the pages of a first half, then of a second one.       *)
CopyPages ==
  /\ task.at = "copy"
  /\ LET t == task.to
         now == IF dir[t].pages = 0 THEN Content
                ELSE IF dir[t].database = Content THEN Content ELSE Mixed
     IN /\ dir' = [dir EXCEPT ![t].database = now, ![t].pages = @ + 1]
        /\ task' = [task EXCEPT !.at = IF dir[t].pages = 1 THEN "manifest" ELSE "copy"]
  /\ UNCHANGED <<live, lock, opened, damage>>

(* The manifest names the hash of the finished database; the lock is released. *)
Manifest ==
  /\ task.at = "manifest"
  /\ dir' = [dir EXCEPT ![task.to].hash = dir[task.to].database]
  /\ lock' = [lock EXCEPT ![task.to] = None]
  /\ task' = IF task.to = Copy THEN Resting ELSE [task EXCEPT !.at = "compare"]
  /\ UNCHANGED <<live, opened, damage>>

(* A mistaken form of Unchanged: the hash is not taken again.                  *)
UnchangedAssumed == TRUE
(* The restored manifest is stamped only if the snapshot still has its hash.   *)
Unchanged == dir[Copy].database = task.expected

Stamp ==
  /\ task.at = "compare"
  /\ dir' = IF Unchanged THEN [dir EXCEPT ![Restored].stamp = task.expected] ELSE dir
  /\ task' = Resting
  /\ UNCHANGED <<live, lock, opened, damage>>

Stops ==
  /\ task # Resting
  /\ Abandons
  /\ UNCHANGED <<live, dir, opened, damage>>

(* The files of a finished snapshot are changed by someone else.               *)
Damaged ==
  /\ damage < MaxDamage
  /\ dir[Copy].hash # None
  /\ damage' = damage + 1
  /\ dir' = [dir EXCEPT ![Copy].database = MaxVersion + damage + 1]
  /\ UNCHANGED <<live, lock, task, opened>>

(* A writer locks the directory, refuses it when it is fenced, and otherwise   *)
(* opens the database, creating it when it is missing (SqliteStore).           *)
OpenWritable(d) ==
  /\ dir[d].made /\ lock[d] = None
  /\ lock' = [lock EXCEPT ![d] = "writer"]
  /\ UNCHANGED <<live, dir, task, opened, damage>>

WriterOpens(d) ==
  /\ lock[d] = "writer" /\ d \notin opened
  /\ ~dir[d].fence
  /\ opened' = opened \cup {d}
  /\ dir' = [dir EXCEPT ![d].database = IF @ = None THEN 0 ELSE @]
  /\ UNCHANGED <<live, lock, task, damage>>

WriterCloses(d) ==
  /\ lock[d] = "writer"
  /\ d \in opened \/ dir[d].fence
  /\ lock' = [lock EXCEPT ![d] = None]
  /\ UNCHANGED <<live, dir, task, opened, damage>>

SnapshotNext ==
          \/ LiveChanges \/ BeginSnapshot \/ BeginRestore \/ TakeLock \/ Fence \/ CreateDatabase
          \/ CopyPages \/ Manifest \/ Stamp \/ Stops \/ Damaged
          \/ \E d \in Dirs : OpenWritable(d) \/ WriterOpens(d) \/ WriterCloses(d)

(* Copied state never becomes a store that replays effects: a directory that a *)
(* writer has opened holds no page of another store, whatever step the snapshot*)
(* or the restoration stopped at (fence before database, exclusive creation).  *)
NeverReplayed == \A d \in opened : dir[d].database \in {None, 0}

(* A manifest vouches for a complete copy: the database it names is one state  *)
(* of the store, never a partial or a mixed one, and a restored directory that *)
(* is stamped with a snapshot's hash holds exactly that snapshot, even if the  *)
(* snapshot's files were changed while it was being copied.                    *)
ManifestVouches ==
  /\ dir[Copy].hash # None => dir[Copy].hash \in 1..MaxVersion
  /\ dir[Restored].stamp # None =>
       dir[Restored].database = dir[Restored].stamp /\ dir[Restored].hash = dir[Restored].stamp

-------------------------------------------------------------------------------
(*****************************************************************************)
(* The guarded migration of file-based job and checkpoint state into the     *)
(* indexed store (migrate_legacy_state of indexed_jobs.cpp) beside a         *)
(* frontend of the legacy backend (engine.cpp), the filesystem worker that   *)
(* writes its checkpoints, and the runners of its jobs.                      *)
(*                                                                           *)
(* There is one checkpoint, of MaxRevision revisions, and the jobs of Jobs.  *)
(* The worker and a runner outlive a frontend that dies.                     *)
(*****************************************************************************)
CONSTANTS Jobs, MaxRevision

VARIABLES layout,     \* layout.json exists: the legacy backend is fenced
          jobs,       \* the status.json of each job
          revision,   \* the revision of the checkpoint's file
          acked,      \* the last revision a client was told is saved
          index,      \* the imported records: job statuses and the checkpoint's revision
          frontend,   \* "down", "built" (constructed) or "serving" (attached)
          gate,       \* who holds run/.frontend.lock
          submit,     \* the frontend is past the check of a submission
          put,        \* the checkpoint write: "waiting" for the lock ("orphan" without its frontend), "written"
          migration   \* where migrate_legacy_state is

migrationVars == <<layout, jobs, revision, acked, index, frontend, gate, submit, put, migration>>

Terminal == "succeeded"
\* migrate_legacy_state holds both .submission.lock files from here on.
Locked == {"check", "import jobs", "import tasks", "publish"}

MigrationInit == /\ layout = FALSE
                 /\ jobs = [j \in Jobs |-> "none"]
                 /\ revision = 0 /\ acked = 0
                 /\ index = [jobs |-> [j \in Jobs |-> "none"], revision |-> 0]
                 /\ frontend = "down" /\ gate = "free" /\ submit = FALSE /\ put = "none"
                 /\ migration = "idle"

\* Engine::Engine refuses a fenced layout; Engine::attach takes the frontend lock.
Construct == /\ frontend = "down" /\ ~layout
             /\ frontend' = "built"
             /\ UNCHANGED <<layout, jobs, revision, acked, index, gate, submit, put, migration>>
Attach == /\ frontend = "built" /\ gate = "free"
          /\ frontend' = "serving" /\ gate' = "frontend"
          /\ UNCHANGED <<layout, jobs, revision, acked, index, submit, put, migration>>
FrontendEnds == /\ frontend # "down"
                /\ frontend' = "down" /\ submit' = FALSE
                /\ gate' = IF gate = "frontend" THEN "free" ELSE gate
                /\ put' = IF put \in {"waiting", "orphan"} THEN "orphan" ELSE "none"
                /\ UNCHANGED <<layout, jobs, revision, acked, index, migration>>

\* start_shell, submit: the check before, and create_job's under, the submission lock.
CheckSubmit == /\ frontend = "serving" /\ ~submit /\ ~layout
               /\ submit' = TRUE
               /\ UNCHANGED <<layout, jobs, revision, acked, index, frontend, gate, put, migration>>
CreateJob(j) == /\ submit /\ migration \notin Locked /\ jobs[j] = "none"
                /\ submit' = FALSE
                /\ jobs' = IF layout THEN jobs ELSE [jobs EXCEPT ![j] = "running"]
                /\ UNCHANGED <<layout, revision, acked, index, frontend, gate, put, migration>>
RunnerEnds(j) == /\ jobs[j] = "running"
                 /\ jobs' = [jobs EXCEPT ![j] = Terminal]
                 /\ UNCHANGED <<layout, revision, acked, index, frontend, gate, submit, put, migration>>

\* devbox_task_put: the check, the worker's task_put under the lock, the reply.
CheckPut == /\ frontend = "serving" /\ put = "none" /\ ~layout
            /\ put' = "waiting"
            /\ UNCHANGED <<layout, jobs, revision, acked, index, frontend, gate, submit, migration>>
TaskPut == /\ put \in {"waiting", "orphan"} /\ migration \notin Locked /\ revision < MaxRevision
           /\ revision' = revision + 1
           /\ put' = IF put = "waiting" THEN "written" ELSE "none"
           /\ UNCHANGED <<layout, jobs, acked, index, frontend, gate, submit, migration>>
ReplyPut == /\ put = "written"
            /\ put' = "none"
            /\ acked' = revision
            /\ UNCHANGED <<layout, jobs, revision, index, frontend, gate, submit, migration>>

\* migrate_legacy_state: the frontend lock, then the two submission locks.
StartMigration == /\ migration = "idle" /\ gate = "free"
                  /\ gate' = "migration" /\ migration' = "gated"
                  /\ UNCHANGED <<layout, jobs, revision, acked, index, frontend, submit, put>>
LockStores == /\ migration = "gated" /\ migration' = "check"
              /\ UNCHANGED <<layout, jobs, revision, acked, index, frontend, gate, submit, put>>
EndMigration == migration' = "idle" /\ gate' = "free"
\* A finished migration is replayed; an active job refuses the migration.
Refuses == \E j \in Jobs : jobs[j] \notin {"none", Terminal}
Inspect == /\ migration = "check"
           /\ IF layout \/ Refuses THEN EndMigration
              ELSE migration' = "import jobs" /\ UNCHANGED gate
           /\ UNCHANGED <<layout, jobs, revision, acked, index, frontend, submit, put>>
\* import_records: a record that is already there with another content is a conflict.
ImportJobs == /\ migration = "import jobs"
              /\ IF \E j \in Jobs : index.jobs[j] \notin {"none", jobs[j]}
                 THEN EndMigration /\ UNCHANGED index
                 ELSE index' = [index EXCEPT !.jobs = jobs] /\ migration' = "import tasks" /\ UNCHANGED gate
              /\ UNCHANGED <<layout, jobs, revision, acked, frontend, submit, put>>
ImportTasks == /\ migration = "import tasks"
               /\ IF index.revision \notin {0, revision}
                  THEN EndMigration /\ UNCHANGED index
                  ELSE index' = [index EXCEPT !.revision = revision] /\ migration' = "publish" /\ UNCHANGED gate
               /\ UNCHANGED <<layout, jobs, revision, acked, frontend, submit, put>>
Publish == /\ migration = "publish"
           /\ layout' = TRUE /\ EndMigration
           /\ UNCHANGED <<jobs, revision, acked, index, frontend, submit, put>>
\* The process dies, or ends with an error such as a frontend recorded as alive.
MigrationDies == /\ migration # "idle" /\ EndMigration
                 /\ UNCHANGED <<layout, jobs, revision, acked, index, frontend, submit, put>>

MigrationNext == \/ Construct \/ Attach \/ FrontendEnds \/ CheckSubmit \/ CheckPut \/ TaskPut \/ ReplyPut
                 \/ \E j \in Jobs : CreateJob(j) \/ RunnerEnds(j)
                 \/ StartMigration \/ LockStores \/ Inspect \/ ImportJobs \/ ImportTasks \/ Publish \/ MigrationDies

\* migrate_legacy_state: once the layout is published the index has every job with the
\* status its runner left, and no runner still writes the files.
JobsMigrated == layout => index.jobs = jobs
\* A checkpoint revision a client was told is saved is in the index once the layout is
\* published, although a worker may outlive its frontend and write the old file later.
AckedCheckpointMigrated == layout => acked <= index.revision
===============================================================================
