------------------------------ MODULE MCServices ------------------------------
(*****************************************************************************)
(* The server's services, small: the nonces of the state coordinator and the *)
(* connections of its clients, the tables and files that hold state, jobs    *)
(* and their retention, tasks, artifacts, tokens, the waits of a call and    *)
(* research. They share no state: one moves while the others have not begun, *)
(* and every state of each is reached.                                       *)
(*****************************************************************************)
EXTENDS RequestNonces, StateTransport, JobSubmission, Tasks, Gateway, TLC
CONSTANTS r1, r2, r3, none, absent, unstated
VARIABLES part,    \* the component that moves
          records, counts, candidates, reading,
          live, dir, snapLock, task, snapOpened, damage,
          layout, jobs, revision, acked, index, frontend, moveGate, submit, movePut,
          migration,
          keepJob, keepDisk, keepMirror, keepExpired, usage, meter, pass, faults,
          born, folders, sweepIds, cursor, cycle, sweepBatch, visited, found, evicting,
          sampled, limits,
          upload, quota, files, dest, uploadTarget, step, published,
          file, fileLock, write, applied, tries,
          workerCall, op, length, worker, workerIds, workerSeen, says, output, killed,
          workerFile, temp, result, workerCalls,
          input, textPending, capture, limit, finished,
          waitClock, waitFile, fileWait, waitSeen, waitJob, jobWait,
          studyAt, then, phase, stop, cand, rec, position, studyBatch, initial,
          studyTarget, sources, excluded, studyOver, spent, offers, collected, studyDisk,
          cacheClock, server, cache, cacheLock, proc, cacheCalls, fresh,
          webPc, scan, webPending, active, item, answers, cool, total, exhausted,
          transferOver

\* The task of every operation; the caller of every task call.
OneTask == [x \in {"a", "b", "c"} |-> "t"]
Callers == (1 :> "a") @@ (2 :> "a") @@ (3 :> "b")

\* Of the uploads one replaces the version another publishes.
UploadChunks == [x \in {"a", "b", "c"} |-> IF x = "b" THEN 1 ELSE 2]
UploadExpects == [x \in {"a", "b", "c"} |-> IF x = "b" THEN "a" ELSE "missing"]

\* Two appends in turn, one whose payload is too large to keep, and a replacement.
FileRequest(payload, append, version, offset, large) ==
    [payload |-> payload, append |-> append, version |-> version, offset |-> offset, large |-> large]
FileRequests == [first |-> FileRequest(<<"x">>, TRUE, absent, 0, FALSE),
                 second |-> FileRequest(<<"y">>, TRUE, <<"x">>, 1, FALSE),
                 large |-> FileRequest(<<"w">>, TRUE, unstated, unstated, TRUE),
                 third |-> FileRequest(<<"z">>, FALSE, <<"x", "y">>, unstated, FALSE)]

Tables == INSTANCE StateFiles WITH
    Ids <- {1, 2}, Principals <- {"p"}, PageLimit <- 2, PageBytes <- 2,
    Owner <- <<"p", "p">>, Size <- <<1, 2>>, Absent <- none, MaxVersion <- 2,
    MaxDamage <- 2, None <- none, Jobs <- {"j1", "j2"}, MaxRevision <- 2,
    lock <- snapLock, opened <- snapOpened, gate <- moveGate, put <- movePut
Upkeep == INSTANCE JobMaintenance WITH
    Jobs <- {1, 2}, PageSize <- 1, MaxSize <- 1, MaxBytes <- 2, MaxTerminal <- 1,
    MaxFaults <- 1, Ids <- 1 .. 3, Start <- {2}, Batch <- 1, Nothing <- none,
    MaxJobs <- 3, Sizes <- {3, 7}, Times <- {0, 1}, ByteLimits <- {0, 9, 12},
    JobLimits <- {0, 2}, job <- keepJob, disk <- keepDisk, mirror <- keepMirror,
    expired <- keepExpired, ids <- sweepIds, batch <- sweepBatch
Publication == INSTANCE FilePublication WITH
    Uploads <- {"a", "b", "c"}, Missing <- "missing", UploadNobody <- "nobody",
    Chunks <- UploadChunks, Expected <- UploadExpects, MaxActive <- 2, MaxBytes <- 4,
    Requests <- {"first", "second", "third", "large"}, Request <- FileRequests,
    Absent <- absent, Unstated <- unstated, WriteNobody <- "nobody", Capacity <- 2,
    MaxTries <- 2, target <- uploadTarget, lock <- fileLock
FileTools == INSTANCE FileCalls WITH
    Ids <- {"a", "b"}, MaxOutput <- 2, MaxReply <- 3, MaxCalls <- 2,
    Bytes <- {37, 165, 195, 240}, MaxInput <- 4, Limits <- {0, 1, 2}, Deadline <- 3,
    Stable <- 2, Poll <- 2, MaxTime <- 6, Statuses <- <<"queued", "running", "ended">>,
    call <- workerCall, ids <- workerIds, calls <- workerCalls, pending <- textPending,
    clock <- waitClock, job <- waitJob
Web == INSTANCE Research WITH
    Identity <- <<1, 1, 2>>, Allowed <- {2, 3}, Targets <- {1, 2}, BatchLimit <- 2,
    MaxCandidates <- 2, MaxRecords <- 2, Contents <- {1, 2}, MaxOffers <- 2,
    Processes <- {"p1", "p2"}, CacheUrls <- {1, 2}, Versions <- 2, Quota <- 3,
    Ages <- {1}, Transfer <- 1, MaxTime <- 4, MaxCalls <- 2, Requests <- {"r1", "r2"},
    Origins <- {"a", "b"}, Home <- [x \in {"r1", "r2"} |-> "a"], Concurrency <- 2,
    PerOrigin <- 1, MaxBytes <- 2, MaxBody <- 2, MaxRedirects <- 1, at <- studyAt,
    batch <- studyBatch, target <- studyTarget, disk <- studyDisk, clock <- cacheClock,
    lock <- cacheLock, calls <- cacheCalls, pc <- webPc, pending <- webPending

indexVars == <<records, counts, candidates, reading>>
snapVars == <<live, dir, snapLock, task, snapOpened, damage>>
moveVars == <<layout, jobs, revision, acked, index, frontend, moveGate, submit, movePut,
              migration>>
keepVars == <<keepJob, keepDisk, keepMirror, keepExpired, usage, meter, pass, faults>>
sweepVars == <<born, folders, sweepIds, cursor, cycle, sweepBatch, visited, found,
               evicting>>
quotaVars == <<sampled, limits>>
uploadVars == <<upload, quota, files, dest, uploadTarget, step, published>>
fileVars == <<file, fileLock, write, applied, tries>>
workerVars == <<workerCall, op, length, worker, workerIds, workerSeen, says, output,
                killed, workerFile, temp, result, workerCalls>>
textVars == <<input, textPending, capture, limit, finished>>
waitVars == <<waitClock, waitFile, fileWait, waitSeen, waitJob, jobWait>>
studyVars == <<studyAt, then, phase, stop, cand, rec, position, studyBatch, initial,
               studyTarget, sources, excluded, studyOver, spent, offers, collected,
               studyDisk>>
cacheVars == <<cacheClock, server, cache, cacheLock, proc, cacheCalls, fresh>>
webVars == <<webPc, scan, webPending, active, item, answers, cool, total, exhausted,
             transferOver>>

Parts == {"nonce", "pool", "index", "snap", "move", "submit", "keep", "sweep", "quota",
          "task", "record", "upload", "file", "worker", "text", "token", "rpc", "wait",
          "study", "cache", "web"}

ServicesInit ==
    /\ part \in Parts
    /\ Init
    /\ PoolInit
    /\ Tables!IndexInit
    /\ Tables!SnapshotInit
    /\ Tables!MigrationInit
    /\ SubmissionInit /\ (part # "submit" => indexed)
    /\ Upkeep!RetentionInit
    /\ Upkeep!SweepInit
    /\ Upkeep!QuotaInit
    /\ ServiceInit
    /\ RecordsInit
    /\ Publication!UploadInit
    /\ Publication!WriteInit
    /\ FileTools!WorkerInit
    /\ FileTools!TextInit /\ (part # "text" => limit = 0)
    /\ TokensInit
    /\ DispatchInit
    /\ FileTools!WaitInit
    /\ Web!StudyInit /\ (part # "study" => studyTarget = 1)
    /\ Web!CacheInit
    /\ Web!TransferInit

\* Every component but the one that moves stands still.
Still(moving) ==
    /\ UNCHANGED part
    /\ moving # "nonce" => UNCHANGED vars
    /\ moving # "pool" => UNCHANGED poolVars
    /\ moving # "index" => UNCHANGED indexVars
    /\ moving # "snap" => UNCHANGED snapVars
    /\ moving # "move" => UNCHANGED moveVars
    /\ moving # "submit" => UNCHANGED submissionVars
    /\ moving # "keep" => UNCHANGED keepVars
    /\ moving # "sweep" => UNCHANGED sweepVars
    /\ moving # "quota" => UNCHANGED quotaVars
    /\ moving # "task" => UNCHANGED taskVars
    /\ moving # "record" => UNCHANGED recordVars
    /\ moving # "upload" => UNCHANGED uploadVars
    /\ moving # "file" => UNCHANGED fileVars
    /\ moving # "worker" => UNCHANGED workerVars
    /\ moving # "text" => UNCHANGED textVars
    /\ moving # "token" => UNCHANGED oauthVars
    /\ moving # "rpc" => UNCHANGED dispatchVars
    /\ moving # "wait" => UNCHANGED waitVars
    /\ moving # "study" => UNCHANGED studyVars
    /\ moving # "cache" => UNCHANGED cacheVars
    /\ moving # "web" => UNCHANGED webVars

ServicesNext ==
    \/ part = "nonce" /\ Next /\ Still("nonce")
    \/ part = "pool" /\ PoolNext /\ Still("pool")
    \/ part = "index" /\ Tables!IndexNext /\ Still("index")
    \/ part = "snap" /\ Tables!SnapshotNext /\ Still("snap")
    \/ part = "move" /\ Tables!MigrationNext /\ Still("move")
    \/ part = "submit" /\ SubmissionNext /\ Still("submit")
    \/ part = "keep" /\ Upkeep!RetentionNext /\ Still("keep")
    \/ part = "sweep" /\ Upkeep!SweepNext /\ Still("sweep")
    \/ part = "quota" /\ Upkeep!QuotaNext /\ Still("quota")
    \/ part = "task" /\ ServiceNext /\ Still("task")
    \/ part = "record" /\ RecordsNext /\ Still("record")
    \/ part = "upload" /\ Publication!UploadNext /\ Still("upload")
    \/ part = "file" /\ Publication!WriteNext /\ Still("file")
    \/ part = "worker" /\ FileTools!WorkerNext /\ Still("worker")
    \/ part = "text" /\ FileTools!TextNext /\ Still("text")
    \/ part = "token" /\ TokensNext /\ Still("token")
    \/ part = "rpc" /\ DispatchNext /\ Still("rpc")
    \/ part = "wait" /\ FileTools!WaitNext /\ Still("wait")
    \/ part = "study" /\ Web!StudyNext /\ Still("study")
    \/ part = "cache" /\ Web!CacheNext /\ Still("cache")
    \/ part = "web" /\ Web!TransferNext /\ Still("web")

allVars == <<part, vars, poolVars, indexVars, snapVars, moveVars, submissionVars, keepVars,
                sweepVars, quotaVars, taskVars, recordVars, uploadVars, fileVars,
                workerVars, textVars, oauthVars, dispatchVars, waitVars, studyVars,
                cacheVars, webVars>>

ServicesSpec == ServicesInit /\ [][ServicesNext]_allVars

\* The state root: the counters and the queue agree with the records and a listing by
\* pages misses none; a snapshot that is installed is one its manifest vouches for, and
\* no batch is applied twice through it; every legacy job and every acknowledged
\* checkpoint is migrated.
StateKept ==
    /\ part = "index" => Tables!CountsExact /\ Tables!QueueExact /\ Tables!ListingComplete
    /\ part = "snap" => Tables!NeverReplayed /\ Tables!ManifestVouches
    /\ part = "move" => Tables!JobsMigrated /\ Tables!AckedCheckpointMigrated

\* Maintenance of jobs: the meter equals the bytes on disk between passes, deleted jobs
\* leave their record and live ones keep their artifacts; the sweep knows every legacy
\* job and a cycle visits each; eviction takes the oldest ended jobs and stops at the
\* limits.
MaintenanceSound ==
    /\ [](/\ part = "keep" => Upkeep!MeterExact /\ Upkeep!DeletionsRecorded
          /\ part = "sweep" => Upkeep!ListKnowsAll
          /\ part = "quota" => Upkeep!EvictionSound)
    /\ Upkeep!LiveArtifactsKept
    /\ Upkeep!CycleCoversAll

\* Files: the upload quota is what the open uploads hold and is held until their bytes
\* are gone, the outcome reported is what happened, and only the version named is
\* replaced; a request is applied once, an append keeps the file, and a replay is
\* answered only if applied.
FilesSound ==
    /\ [](/\ part = "upload" =>
                 /\ Publication!QuotaExact
                 /\ Publication!HeldUntilClean
                 /\ Publication!OutcomeTrue
          /\ part = "file" => Publication!AppliedOnce)
    /\ Publication!ReplacesNamedVersion
    /\ Publication!AppendKeepsFile
    /\ Publication!ReplayWasApplied

\* What a call is answered: a wait says met only for what was observed and answers in
\* time; the worker of a filesystem operation leaves the file whole, writes nothing once
\* its call is answered and replies with the whole value within the bound; text does not
\* depend on how the output was cut into chunks, and both codecs agree.
RepliesTrue ==
    /\ [](/\ part = "wait" =>
                 /\ FileTools!MetWasObserved
                 /\ FileTools!AnswersInTime
                 /\ FileTools!AnswerExplained
          /\ part = "worker" =>
                 /\ FileTools!FileWhole
                 /\ FileTools!ValueIsWhole
                 /\ FileTools!ReplyBounded
          /\ part = "text" =>
                 /\ FileTools!ChunksDoNotMatter
                 /\ FileTools!SliceNeedsNoRest
                 /\ FileTools!CodecsAgree)
    /\ FileTools!NoLateWrite

\* Research: a source is fetched once per run, coverage counts distinct sources, evidence
\* and documents agree, pages follow one another and the reason given for stopping is
\* true; the cache keeps its quota and returns nothing older than asked for; transfers
\* keep to their limits, are answered once, with the body of one attempt, and carry
\* headers to no other origin.
EvidenceSound ==
    /\ part = "study" =>
           /\ Web!FetchedOnce
           /\ Web!CoverageIsDistinct
           /\ Web!TargetBounded
           /\ Web!EvidenceConsistent
           /\ Web!DocumentsKept
           /\ Web!PagesFollow
           /\ Web!StopReasonTrue
    /\ part = "cache" => Web!QuotaHeld /\ Web!FreshIsRecent
    /\ part = "web" =>
           /\ Web!ConcurrencyBounded
           /\ Web!AnsweredOnce
           /\ Web!BytesWithinBudget
           /\ Web!BodyOfOneAttempt
           /\ Web!HeadersStayHome
           /\ Web!AttemptsBounded
===============================================================================
