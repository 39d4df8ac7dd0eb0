---------------------------- MODULE FilePublication ---------------------------
(*****************************************************************************)
(* How files are replaced: resumable uploads into artifacts (artifacts.cpp)  *)
(* and the atomic write every tool uses (storage.cpp). An upload publishes   *)
(* through a staging file of its own.                                        *)
(*****************************************************************************)
EXTENDS Naturals, Sequences, SequencesExt, FiniteSets, FiniteSetsExt

-------------------------------------------------------------------------------
(*****************************************************************************)
(* Resumable uploads (artifacts.cpp) and the publication of their chunks     *)
(* (publish_chunks of storage.cpp). An upload reserves quota when it begins, *)
(* stores one file and one record per chunk, publishes the whole by renaming *)
(* a stage over the destination if that still has the version the client     *)
(* named, and gives its quota back after its files are gone.                 *)
(*                                                                           *)
(* All uploads name one destination. Its content is the upload that wrote    *)
(* it. chunk, finalize and cancel hold the upload's lock, so an upload has   *)
(* one call in progress, which a crash may end between any two of its        *)
(* durable effects.                                                          *)
(*****************************************************************************)
CONSTANTS Uploads, Missing, Chunks, Expected, MaxActive, MaxBytes, UploadNobody

VARIABLES upload,     \* the "upload" records
          quota,      \* the "artifact_quota" record
          files,      \* the chunk files of each upload
          dest,       \* the destination: Missing or the upload whose bytes it has
          target,     \* who holds the destination's stripe lock
          step,       \* how far the call of each upload has come
          published   \* how often each upload replaced the destination

uploadVars == <<upload, quota, files, dest, target, step, published>>

Idle == [at |-> "idle", reconciling |-> FALSE]
At(u, where) == step' = [step EXCEPT ![u].at = where]
Return(u) == step' = [step EXCEPT ![u] = Idle]
Status(u, status) == upload' = [upload EXCEPT ![u].status = status]

UploadInit == /\ upload = [u \in Uploads |-> [status |-> "none", chunks |-> 0, held |-> FALSE]]
              /\ quota = [active |-> 0, bytes |-> 0]
              /\ files = [u \in Uploads |-> {}]
              /\ dest = Missing /\ target = UploadNobody
              /\ step = [u \in Uploads |-> Idle]
              /\ published = [u \in Uploads |-> 0]

\* begin, under the admission lock: the upload and the quota are one state batch.
BeginUpload(u) ==
    /\ upload[u].status = "none"
    /\ quota.active < MaxActive /\ quota.bytes + Chunks[u] <= MaxBytes
    /\ upload' = [upload EXCEPT ![u] = [status |-> "receiving", chunks |-> 0, held |-> TRUE]]
    /\ quota' = [active |-> quota.active + 1, bytes |-> quota.bytes + Chunks[u]]
    /\ UNCHANGED <<files, dest, target, step, published>>

\* chunk: the immutable file, then the chunk's record with the advanced offset.
StoreChunk(u) ==
    /\ step[u] = Idle /\ upload[u].status = "receiving" /\ upload[u].chunks < Chunks[u]
    /\ files' = [files EXCEPT ![u] = @ \union {upload[u].chunks}]
    /\ At(u, "commit")
    /\ UNCHANGED <<upload, quota, dest, target, published>>
CommitChunk(u) ==
    /\ step[u].at = "commit"
    /\ upload' = [upload EXCEPT ![u].chunks = @ + 1]
    /\ Return(u)
    /\ UNCHANGED <<quota, files, dest, target, published>>

\* finalize up to publish_chunks.
Finalize(u) ==
    /\ step[u] = Idle
    /\ \/ /\ upload[u].status = "completed" \/ (upload[u].status = "finalizing" /\ dest = u)
          /\ Status(u, "completed") /\ At(u, "clean")
       \/ /\ upload[u].status = "receiving" /\ upload[u].chunks = Chunks[u]
          /\ Status(u, "finalizing") /\ At(u, "publish")
       \/ /\ upload[u].status = "finalizing" /\ dest # u
          /\ step' = [step EXCEPT ![u] = [at |-> "publish", reconciling |-> TRUE]]
          /\ UNCHANGED upload
    /\ UNCHANGED <<quota, files, dest, target, published>>

\* publish_chunks: check the version under the stripe lock, copy the chunks to the stage.
Stage(u) == /\ step[u].at = "publish" /\ target = UploadNobody /\ dest = Expected[u]
            /\ 0 .. (Chunks[u] - 1) \subseteq files[u]
            /\ target' = u /\ At(u, "staged")
            /\ UNCHANGED <<upload, quota, files, dest, published>>
\* A version conflict, a lost chunk, a cancellation or an I/O error before the
\* replacement: only a first finalize goes back to receiving.
FailBefore(u) ==
    /\ step[u].at \in {"publish", "staged"}
    /\ IF step[u].reconciling THEN UNCHANGED upload ELSE Status(u, "receiving")
    /\ target' = IF target = u THEN UploadNobody ELSE target
    /\ Return(u)
    /\ UNCHANGED <<quota, files, dest, published>>
\* replace_staged: rename, then the directory's fsync; either may fail.
Replace(u) ==
    /\ step[u].at = "staged"
    /\ \/ dest' = u /\ published' = [published EXCEPT ![u] = @ + 1] /\ At(u, "replaced") /\ UNCHANGED target
       \/ target' = UploadNobody /\ Return(u) /\ UNCHANGED <<dest, published>>
    /\ UNCHANGED <<upload, quota, files>>
\* A mistaken form of FailAttempted: every error reopens the upload.
FailReopens(u) == Status(u, "receiving")
\* An error once the publication was attempted leaves the upload finalizing.
FailAttempted(u) == UNCHANGED upload
Synced(u) ==
    /\ step[u].at = "replaced"
    /\ target' = UploadNobody
    /\ \/ Status(u, "completed") /\ At(u, "clean")
       \/ FailAttempted(u) /\ Return(u)
    /\ UNCHANGED <<quota, files, dest, published>>

CancelUpload(u) ==
    /\ step[u] = Idle /\ upload[u].status \in {"receiving", "cancelled"}
    /\ Status(u, "cancelled") /\ At(u, "clean")
    /\ UNCHANGED <<quota, files, dest, target, published>>

\* finish: remove the chunk files one after the other, the last of which may have no
\* record; a file that cannot be removed keeps the reservation.
Removed(u) == 0 .. upload[u].chunks
Clean(u) ==
    /\ step[u].at = "clean"
    /\ \/ ~upload[u].held /\ Return(u) /\ UNCHANGED files
       \/ upload[u].held /\ files' = [files EXCEPT ![u] = @ \ Removed(u)] /\ At(u, "release")
       \/ /\ upload[u].held
          /\ \E k \in files[u] : files' = [files EXCEPT ![u] = {i \in @ : i >= k}]
          /\ Return(u)
    /\ UNCHANGED <<upload, quota, dest, target, published>>
Release(u) ==
    /\ step[u].at = "release"
    /\ quota' = [active |-> quota.active - 1, bytes |-> quota.bytes - Chunks[u]]
    /\ upload' = [upload EXCEPT ![u].held = FALSE]
    /\ Return(u)
    /\ UNCHANGED <<files, dest, target, published>>

\* The process of the call dies: its locks go with it.
CrashUpload(u) == /\ step[u] # Idle
                  /\ Return(u)
                  /\ target' = IF target = u THEN UploadNobody ELSE target
                  /\ UNCHANGED <<upload, quota, files, dest, published>>

UploadNext == \E u \in Uploads :
          \/ BeginUpload(u) \/ StoreChunk(u) \/ CommitChunk(u) \/ Finalize(u) \/ Stage(u) \/ FailBefore(u)
          \/ Replace(u) \/ Synced(u) \/ CancelUpload(u) \/ Clean(u) \/ Release(u) \/ CrashUpload(u)

\* finalize, finish: the quota record is exactly what the uploads that hold a
\* reservation account for, through crashes and failed clean-ups.
QuotaExact ==
    LET held == {u \in Uploads : upload[u].held}
    IN quota = [active |-> Cardinality(held), bytes |-> MapThenSumSet(LAMBDA u : Chunks[u], held)]
\* finish: "Keep the reservation until cleanup is confirmed" - no chunk file outlives
\* the reservation, not even one whose record was never written.
HeldUntilClean == \A u \in Uploads : ~upload[u].held => files[u] = {}
\* finalize, cancel: an upload that reports cancelled never changed the destination,
\* and one that reports completed did, exactly once.
OutcomeTrue == \A u \in Uploads :
    /\ upload[u].status = "cancelled" => published[u] = 0
    /\ upload[u].status = "completed" => published[u] = 1
\* publish_chunks: the destination is only ever replaced from the version the client
\* named, by an upload all of whose chunks are recorded.
ReplacesNamedVersion == [][dest' # dest =>
    /\ dest = Expected[dest']
    /\ upload[dest'].chunks = Chunks[dest']]_uploadVars

-------------------------------------------------------------------------------
(*****************************************************************************)
(* Atomic file writes (atomic_write and write_large of storage.cpp): a       *)
(* request replaces the file or appends to it, on condition of the file's    *)
(* version (its digest) or its length, and a request repeated after a lost   *)
(* reply is recognised in the file's content.                                *)
(*                                                                           *)
(* A file is Absent or its sequence of bytes, and its digest is that value.  *)
(* A request names its payload, whether it appends, and the version          *)
(* (Unstated for none) and the offset (Unstated for none) it expects. The    *)
(* requests are issued by several processes, repeated MaxTries times.        *)
(*****************************************************************************)
CONSTANTS Requests, Request, Absent, Unstated, WriteNobody, Capacity, MaxTries

VARIABLES file,      \* the target
          lock,      \* the holder of the target's stripe lock
          write,     \* the progress of each request
          applied,   \* how often each request replaced the target
          tries      \* how often each request was issued

fileVars == <<file, lock, write, applied, tries>>

NotRunning == {"idle", "written", "replayed", "conflict", "refused", "verified", "unverified"}
Running == {r \in Requests : write[r].at \notin NotRunning}
Bytes(f) == IF f = Absent THEN <<>> ELSE f
Moves(r, where) == write' = [write EXCEPT ![r].at = where]

WriteInit == /\ file = Absent /\ lock = WriteNobody
             /\ write = [r \in Requests |-> [at |-> "idle", previous |-> Absent]]
             /\ applied = [r \in Requests |-> 0] /\ tries = [r \in Requests |-> 0]

\* The semaphore that bounds the writers of a process.
Issue(r) == /\ write[r].at \in NotRunning /\ tries[r] < MaxTries
            /\ tries' = [tries EXCEPT ![r] = @ + 1]
            /\ Moves(r, IF Cardinality(Running) < Capacity THEN "wait" ELSE "refused")
            /\ UNCHANGED <<file, lock, applied>>

\* append_replayed: the bytes after the expected offset are the payload, and those
\* before it the expected version.
append_replayed(r) ==
    LET q == Request[r]  n == Len(q.payload) IN
    /\ q.offset # Unstated /\ file # Absent
    /\ Len(file) = q.offset + n
    /\ q.version = Absent => q.offset = 0
    /\ q.version \notin {Unstated, Absent} => SubSeq(file, 1, q.offset) = q.version
    /\ SubSeq(file, q.offset + 1, Len(file)) = q.payload

Expects(r) == LET q == Request[r] IN
    /\ q.version # Unstated => file = q.version
    /\ q.offset # Unstated => Len(Bytes(file)) = q.offset
Replays(r) == \/ Request[r].append /\ append_replayed(r)
              \/ ~Request[r].append /\ file = Request[r].payload

\* Under the lock: read the version, test the preconditions, recognise a replay.
Examine(r) ==
    /\ write[r].at = "wait" /\ lock = WriteNobody
    /\ IF Expects(r)
       THEN write' = [write EXCEPT ![r].at = "stage", ![r].previous = file] /\ lock' = r
       ELSE Moves(r, IF Replays(r) THEN "replayed" ELSE "conflict") /\ UNCHANGED lock
    /\ UNCHANGED <<file, applied, tries>>

Staged(r) == (IF Request[r].append THEN Bytes(write[r].previous) ELSE <<>>) \o Request[r].payload
\* The stage is complete and synced: compare the target's version once more.
Compare(r) == /\ write[r].at = "stage"
              /\ IF file = write[r].previous THEN Moves(r, "replace") /\ UNCHANGED lock
                 ELSE Moves(r, "conflict") /\ lock' = IF lock = r THEN WriteNobody ELSE lock
              /\ UNCHANGED <<file, applied, tries>>
\* replace_staged; the lock is released when atomic_write returns.
Rename(r) == /\ write[r].at = "replace"
             /\ file' = Staged(r)
             /\ applied' = [applied EXCEPT ![r] = @ + 1]
             /\ Moves(r, IF Request[r].large THEN "verify" ELSE "written")
             /\ lock' = IF lock = r THEN WriteNobody ELSE lock
             /\ UNCHANGED tries
\* write_large reads its payload back after the lock is gone.
Verify(r) == /\ write[r].at = "verify"
             /\ Moves(r, IF file = Staged(r) THEN "verified" ELSE "unverified")
             /\ UNCHANGED <<file, lock, applied, tries>>
\* The process dies, or its reply is lost: the client does not learn the outcome.
Lost(r) == /\ write[r].at \notin {"idle"}
           /\ Moves(r, "idle")
           /\ lock' = IF lock = r THEN WriteNobody ELSE lock
           /\ UNCHANGED <<file, applied, tries>>

WriteNext == \E r \in Requests :
         Issue(r) \/ Examine(r) \/ Compare(r) \/ Rename(r) \/ Verify(r) \/ Lost(r)

\* atomic_write: a request that names the version it expects is applied at most once,
\* however often it is repeated and whatever the other writers do in between.
AppliedOnce == \A r \in Requests : Request[r].version # Unstated => applied[r] <= 1
\* atomic_write: a writer that appends never drops bytes another writer put there
\* between its reading of the target and its rename.
AppendKeepsFile == [][\A r \in Requests :
    (applied'[r] # applied[r] /\ Request[r].append) => IsPrefix(Bytes(file), Bytes(file'))]_fileVars
\* atomic_write: a request whose reply is "replayed" has been applied.
ReplayWasApplied == [][\A r \in Requests :
    (write'[r].at = "replayed" /\ write[r].at = "wait") => applied[r] >= 1]_fileVars
===============================================================================
