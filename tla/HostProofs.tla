----------------------------- MODULE HostProofs ------------------------------
(***************************************************************************)
(* Proofs about the processes that drive work: the drivers of a run and the *)
(* runner of a job, for any number of each and of the readers beside them. *)
(* A driver at work is the recorded owner because every writer of the owner *)
(* file holds the launch lock, a request spawns only when nobody is at work, *)
(* and nobody can start to work before that request has written its record *)
(* and let go of the lock.  The record of a job is true because only the   *)
(* runner that holds the runner lock executes the workload, and whoever else *)
(* ends the job has first seen that no workload of it can be alive.        *)
(***************************************************************************)
EXTENDS RunLaunch, JobLife, TLAPS

(***************************************************************************)
(* RunLaunch                                                               *)
(***************************************************************************)

Bound == Working \cup {"parking"}

\* A driver that works, or may go back to work, is the recorded owner.
Owning == \A d \in Drivers : pc[d] \in Bound => owner = Record(d)

\* While a request has spawned a driver and not recorded it, nobody works.
Recording ==
    \A c \in Requests :
        req[c] = "record" => spawned[c] \in Drivers /\ \A d \in Drivers : pc[d] \notin Bound

\* What the driver that holds the lock knows of the status.
Current ==
    \A d \in Drivers :
        /\ pc[d] = "stepping" => status = "running"
        /\ pc[d] = "publishing" /\ fresh => Runnable

LaunchInv == TypeOK /\ Owning /\ Recording /\ Current

\* A ready run nobody drives satisfies the invariant.
LEMMA InitHolds == Init => LaunchInv
<1>1. SUFFICES ASSUME Init PROVE LaunchInv
  BY Zenon
<1>2. TypeOK
  <2>1. PICK c \in Requests : req = [r \in Requests |-> IF r = c THEN "launch" ELSE "idle"]
    BY <1>1, Zenon DEF Init
  <2>2. req \in [Requests -> {"idle", "launch", "locked", "owner", "record", "recover"}]
    BY <2>1, Zenon
  <2>3. fresh \in BOOLEAN
    BY <1>1, Zenon DEF Init
  <2>4. \A r \in Requests : req[r] \notin {"locked", "owner", "record"}
    BY <2>1, Zenon
  <2>5. QED
    BY <1>1, <2>2, <2>3, <2>4, LaunchConstants DEF Init, TypeOK, Holding
<1>3. Owning /\ Recording /\ Current
  BY <1>1, Zenon DEF Init, Owning, Recording, Current, Bound, Working
<1>4. QED
  BY <1>2, <1>3, Zenon DEF LaunchInv

\* A pause changes the status only, and drivers at work reread it.
LEMMA PauseStep ==
    ASSUME LaunchInv, NEW c \in Requests, Pause(c)
    PROVE  LaunchInv'
<1>1. TypeOK'
  <2>1. commands' \in 0 .. MaxCommands
    BY LaunchConstants DEF LaunchInv, TypeOK, Pause, Command
  <2>2. fresh' \in BOOLEAN
    BY Zenon DEF Pause, Command
  <2>3. UNCHANGED <<spawned, pc, owner, launchLock, driverLock>>
    BY Zenon DEF Pause, Command
  <2>4. req' \in [Requests -> {"idle", "launch", "locked", "owner", "record", "recover"}]
    BY Zenon DEF LaunchInv, TypeOK, Pause
  <2>5. \A r \in Requests : launchLock' = r <=> req'[r] \in {"locked", "owner", "record"}
    BY <2>3, Zenon DEF LaunchInv, TypeOK, Pause
  <2>6. status' \in {"ready", "running", "parked", "terminal"}
    BY Zenon DEF Pause, Command
  <2>7. QED
    BY <2>1, <2>2, <2>3, <2>4, <2>5, <2>6, Zenon DEF LaunchInv, TypeOK, Holding
<1>2. Owning'
  BY LaunchConstants, Zenon DEF LaunchInv, TypeOK, Owning, Recording, Bound, Working, Holding, Record, Pause, Command
<1>3. Recording'
  BY LaunchConstants, Zenon DEF LaunchInv, TypeOK, Owning, Recording, Bound, Working, Holding, Record, Pause, Command
<1>4. Current'
  BY LaunchConstants, Zenon DEF LaunchInv, TypeOK, Current, Runnable, Holding, Pause, Command
<1>5. QED
  BY <1>1, <1>2, <1>3, <1>4, Zenon DEF LaunchInv

\* So does a cancel.
LEMMA CancelStep ==
    ASSUME LaunchInv, NEW c \in Requests, Cancel(c)
    PROVE  LaunchInv'
<1>1. TypeOK'
  <2>1. commands' \in 0 .. MaxCommands
    BY LaunchConstants DEF LaunchInv, TypeOK, Cancel, Command
  <2>2. fresh' \in BOOLEAN
    BY Zenon DEF Cancel, Command
  <2>3. UNCHANGED <<spawned, pc, owner, launchLock, driverLock>>
    BY Zenon DEF Cancel, Command
  <2>4. req' \in [Requests -> {"idle", "launch", "locked", "owner", "record", "recover"}]
    BY Zenon DEF LaunchInv, TypeOK, Cancel
  <2>5. \A r \in Requests : launchLock' = r <=> req'[r] \in {"locked", "owner", "record"}
    BY <2>3, Zenon DEF LaunchInv, TypeOK, Cancel
  <2>6. status' \in {"ready", "running", "parked", "terminal"}
    BY Zenon DEF Cancel, Command
  <2>7. QED
    BY <2>1, <2>2, <2>3, <2>4, <2>5, <2>6, Zenon DEF LaunchInv, TypeOK, Holding
<1>2. Owning'
  BY LaunchConstants, Zenon DEF LaunchInv, TypeOK, Owning, Recording, Bound, Working, Holding, Record, Cancel, Command
<1>3. Recording'
  BY LaunchConstants, Zenon DEF LaunchInv, TypeOK, Owning, Recording, Bound, Working, Holding, Record, Cancel, Command
<1>4. Current'
  BY LaunchConstants, Zenon DEF LaunchInv, TypeOK, Current, Runnable, Holding, Cancel, Command
<1>5. QED
  BY <1>1, <1>2, <1>3, <1>4, Zenon DEF LaunchInv

\* So does a resume, which also leaves a request to be launched.
LEMMA ResumeStep ==
    ASSUME LaunchInv, NEW c \in Requests, Resume(c)
    PROVE  LaunchInv'
<1>1. TypeOK'
  <2>1. commands' \in 0 .. MaxCommands
    BY LaunchConstants DEF LaunchInv, TypeOK, Resume, Command
  <2>2. fresh' \in BOOLEAN
    BY Zenon DEF Resume, Command
  <2>3. UNCHANGED <<spawned, pc, owner, launchLock, driverLock>>
    BY Zenon DEF Resume, Command
  <2>4. req' \in [Requests -> {"idle", "launch", "locked", "owner", "record", "recover"}]
    BY Zenon DEF LaunchInv, TypeOK, Resume, At
  <2>5. \A r \in Requests : launchLock' = r <=> req'[r] \in {"locked", "owner", "record"}
    BY <2>3, Zenon DEF LaunchInv, TypeOK, Resume, At
  <2>6. status' \in {"ready", "running", "parked", "terminal"}
    BY Zenon DEF Resume, Command
  <2>7. QED
    BY <2>1, <2>2, <2>3, <2>4, <2>5, <2>6, Zenon DEF LaunchInv, TypeOK, Holding
<1>2. Owning'
  BY LaunchConstants, Zenon DEF LaunchInv, TypeOK, Owning, Recording, Bound, Working, Holding, Record, Resume, Command, At
<1>3. Recording'
  BY LaunchConstants DEF LaunchInv, TypeOK, Owning, Recording, Bound, Working, Holding, Record, Resume, Command, At
<1>4. Current'
  BY LaunchConstants, Zenon DEF LaunchInv, TypeOK, Current, Runnable, Holding, Resume, Command, At
<1>5. QED
  BY <1>1, <1>2, <1>3, <1>4, Zenon DEF LaunchInv

\* Taking the launch lock disturbs no driver.
LEMMA LaunchStep ==
    ASSUME LaunchInv, NEW c \in Requests, Launch(c)
    PROVE  LaunchInv'
<1>1. TypeOK'
  BY LaunchConstants DEF LaunchInv, TypeOK, Holding, Record, Launch, At
<1>2. Owning'
  BY LaunchConstants, Zenon DEF LaunchInv, TypeOK, Owning, Recording, Bound, Working, Holding, Record, Launch, At
<1>3. Recording'
  BY LaunchConstants DEF LaunchInv, TypeOK, Owning, Recording, Bound, Working, Holding, Record, Launch, At
<1>4. Current'
  BY LaunchConstants, Zenon DEF LaunchInv, TypeOK, Current, Runnable, Holding, Launch, At
<1>5. QED
  BY <1>1, <1>2, <1>3, <1>4, Zenon DEF LaunchInv

\* A request that gives up waiting for the lock leaves everything as it is.
LEMMA LaunchTimeoutStep ==
    ASSUME LaunchInv, NEW c \in Requests, LaunchTimeout(c)
    PROVE  LaunchInv'
<1>1. TypeOK'
  BY LaunchConstants, Zenon DEF LaunchInv, TypeOK, Holding, Record, LaunchTimeout, At
<1>2. Owning'
  BY LaunchConstants, Zenon DEF LaunchInv, TypeOK, Owning, Recording, Bound, Working, Holding, Record, LaunchTimeout, At
<1>3. Recording'
  BY LaunchConstants DEF LaunchInv, TypeOK, Owning, Recording, Bound, Working, Holding, Record, LaunchTimeout, At
<1>4. Current'
  BY LaunchConstants, Zenon DEF LaunchInv, TypeOK, Current, Runnable, Holding, LaunchTimeout, At
<1>5. QED
  BY <1>1, <1>2, <1>3, <1>4, Zenon DEF LaunchInv

\* The second look at the status, under the lock, changes no driver.
LEMMA RereadStep ==
    ASSUME LaunchInv, NEW c \in Requests, Reread(c)
    PROVE  LaunchInv'
<1>1. TypeOK'
  BY LaunchConstants DEF LaunchInv, TypeOK, Holding, Record, Reread, At
<1>2. Owning'
  BY LaunchConstants, Zenon DEF LaunchInv, TypeOK, Owning, Recording, Bound, Working, Holding, Record, Reread, At
<1>3. Recording'
  BY LaunchConstants DEF LaunchInv, TypeOK, Owning, Recording, Bound, Working, Holding, Record, Reread, At
<1>4. Current'
  BY LaunchConstants, Zenon DEF LaunchInv, TypeOK, Current, Runnable, Holding, Reread, At
<1>5. QED
  BY <1>1, <1>2, <1>3, <1>4, Zenon DEF LaunchInv

\* Answering with the recorded driver changes no record.
LEMMA ReplayStep ==
    ASSUME LaunchInv, NEW c \in Requests, Replay(c)
    PROVE  LaunchInv'
<1>1. TypeOK'
  BY LaunchConstants DEF LaunchInv, TypeOK, Holding, Record, Replay, At, Owned, Alive
<1>2. Owning'
  BY LaunchConstants, Zenon DEF LaunchInv, TypeOK, Owning, Recording, Bound, Working, Holding, Record, Replay, At, Owned, Alive
<1>3. Recording'
  BY LaunchConstants DEF LaunchInv, TypeOK, Owning, Recording, Bound, Working, Holding, Record, Replay, At, Owned, Alive
<1>4. Current'
  BY LaunchConstants, Zenon DEF LaunchInv, TypeOK, Current, Runnable, Holding, Replay, At, Owned, Alive
<1>5. QED
  BY <1>1, <1>2, <1>3, <1>4, Zenon DEF LaunchInv

\* A driver is spawned only when nobody is at work.
LEMMA SpawnStep ==
    ASSUME LaunchInv, NEW c \in Requests, Spawn(c)
    PROVE  LaunchInv'
<1>1. TypeOK'
  BY LaunchConstants DEF LaunchInv, TypeOK, Holding, Record, Spawn, At, Go, Owned, Alive
<1>2. Owning'
  BY LaunchConstants DEF LaunchInv, TypeOK, Owning, Recording, Bound, Working, Holding, Record, Spawn, At, Go, Owned, Alive
<1>3. Recording'
  <2>1. \A d \in Drivers : pc[d] \notin Bound
    <3>1. SUFFICES ASSUME NEW d \in Drivers, pc[d] \in Bound PROVE FALSE
      BY Zenon
    <3>2. owner = [pid |-> d, retiring |-> FALSE]
      BY <3>1, Zenon DEF LaunchInv, Owning, Record
    <3>3. owner \in [pid : Drivers, retiring : BOOLEAN]
      BY <3>2, Zenon
    <3>4. owner # None /\ ~owner.retiring /\ owner.pid = d
      BY <3>2, <3>3, LaunchConstants, Zenon
    <3>5. QED
      BY <3>1, <3>4, Zenon DEF Spawn, Owned, Alive, Bound, Working
  <2>2. PICK e \in Drivers : pc' = [pc EXCEPT ![e] = "waiting"] /\ spawned' = [spawned EXCEPT ![c] = e]
    BY Zenon DEF Spawn, Go
  <2>3. \A d \in Drivers : pc'[d] \notin Bound
    BY <2>1, <2>2, Zenon DEF LaunchInv, TypeOK, Bound, Working
  <2>4. \A r \in Requests : req'[r] = "record" => r = c
    BY LaunchConstants, Zenon DEF LaunchInv, TypeOK, Spawn, At
  <2>5. spawned'[c] \in Drivers
    BY <2>2, Zenon DEF LaunchInv, TypeOK
  <2>6. QED
    BY <2>3, <2>4, <2>5, Zenon DEF Recording
<1>4. Current'
  BY LaunchConstants DEF LaunchInv, TypeOK, Current, Runnable, Holding, Spawn, At, Go, Owned, Alive
<1>5. QED
  BY <1>1, <1>2, <1>3, <1>4, Zenon DEF LaunchInv

\* The record of a spawned driver replaces no driver at work.
LEMMA WriteOwnerStep ==
    ASSUME LaunchInv, NEW c \in Requests, WriteOwner(c)
    PROVE  LaunchInv'
<1>1. TypeOK'
  <2>1. owner' \in [pid : Drivers, retiring : BOOLEAN]
    BY Zenon DEF LaunchInv, Recording, Record, WriteOwner
  <2>2. QED
    BY <2>1, LaunchConstants DEF LaunchInv, TypeOK, Holding, WriteOwner, At
<1>2. Owning'
  BY LaunchConstants, Zenon DEF LaunchInv, TypeOK, Owning, Recording, Bound, Working, Holding, Record, WriteOwner, At
<1>3. Recording'
  BY LaunchConstants DEF LaunchInv, TypeOK, Owning, Recording, Bound, Working, Holding, Record, WriteOwner, At
<1>4. Current'
  BY LaunchConstants, Zenon DEF LaunchInv, TypeOK, Current, Runnable, Holding, WriteOwner, At
<1>5. QED
  BY <1>1, <1>2, <1>3, <1>4, Zenon DEF LaunchInv

\* A front end that restarts forgets its requests and their locks.
LEMMA RestartStep ==
    ASSUME LaunchInv, NEW c \in Requests, Restart(c)
    PROVE  LaunchInv'
<1>1. TypeOK'
  BY LaunchConstants DEF LaunchInv, TypeOK, Holding, Record, Restart
<1>2. Owning'
  BY LaunchConstants, Zenon DEF LaunchInv, TypeOK, Owning, Recording, Bound, Working, Holding, Record, Restart
<1>3. Recording'
  BY LaunchConstants, Zenon DEF LaunchInv, TypeOK, Owning, Recording, Bound, Working, Holding, Record, Restart
<1>4. Current'
  BY LaunchConstants, Zenon DEF LaunchInv, TypeOK, Current, Runnable, Holding, Restart
<1>5. QED
  BY <1>1, <1>2, <1>3, <1>4, Zenon DEF LaunchInv

\* Recovery after a restart only asks for a launch.
LEMMA RecoverStep ==
    ASSUME LaunchInv, NEW c \in Requests, Recover(c)
    PROVE  LaunchInv'
<1>1. TypeOK'
  BY LaunchConstants DEF LaunchInv, TypeOK, Holding, Record, Recover, At
<1>2. Owning'
  BY LaunchConstants, Zenon DEF LaunchInv, TypeOK, Owning, Recording, Bound, Working, Holding, Record, Recover, At
<1>3. Recording'
  BY LaunchConstants DEF LaunchInv, TypeOK, Owning, Recording, Bound, Working, Holding, Record, Recover, At
<1>4. Current'
  BY LaunchConstants, Zenon DEF LaunchInv, TypeOK, Current, Runnable, Holding, Recover, At
<1>5. QED
  BY <1>1, <1>2, <1>3, <1>4, Zenon DEF LaunchInv

\* A driver that takes the run lock is not at work yet.
LEMMA EnterStep ==
    ASSUME LaunchInv, NEW d \in Drivers, Enter(d)
    PROVE  LaunchInv'
<1>1. TypeOK'
  BY LaunchConstants DEF LaunchInv, TypeOK, Holding, Record, Enter, Go
<1>2. Owning'
  BY LaunchConstants DEF LaunchInv, TypeOK, Owning, Recording, Bound, Working, Holding, Record, Enter, Go
<1>3. Recording'
  BY LaunchConstants DEF LaunchInv, TypeOK, Owning, Recording, Bound, Working, Holding, Record, Enter, Go
<1>4. Current'
  BY LaunchConstants, Zenon DEF LaunchInv, TypeOK, Current, Runnable, Holding, Enter, Go
<1>5. QED
  BY <1>1, <1>2, <1>3, <1>4, Zenon DEF LaunchInv

\* A driver that cannot have the lock leaves.
LEMMA EnterTimeoutStep ==
    ASSUME LaunchInv, NEW d \in Drivers, EnterTimeout(d)
    PROVE  LaunchInv'
<1>1. TypeOK'
  BY LaunchConstants DEF LaunchInv, TypeOK, Holding, Record, EnterTimeout, Go
<1>2. Owning'
  BY LaunchConstants DEF LaunchInv, TypeOK, Owning, Recording, Bound, Working, Holding, Record, EnterTimeout, Go
<1>3. Recording'
  BY LaunchConstants DEF LaunchInv, TypeOK, Owning, Recording, Bound, Working, Holding, Record, EnterTimeout, Go
<1>4. Current'
  BY LaunchConstants, Zenon DEF LaunchInv, TypeOK, Current, Runnable, Holding, EnterTimeout, Go
<1>5. QED
  BY <1>1, <1>2, <1>3, <1>4, Zenon DEF LaunchInv

\* The first look at the status keeps the invariant.
LEMMA LookStep ==
    ASSUME LaunchInv, NEW d \in Drivers, Look(d)
    PROVE  LaunchInv'
<1>1. TypeOK'
  BY LaunchConstants DEF LaunchInv, TypeOK, Holding, Record, Look, Go
<1>2. Owning'
  BY LaunchConstants DEF LaunchInv, TypeOK, Owning, Recording, Bound, Working, Holding, Record, Look, Go
<1>3. Recording'
  BY LaunchConstants DEF LaunchInv, TypeOK, Owning, Recording, Bound, Working, Holding, Record, Look, Go
<1>4. Current'
  BY LaunchConstants, Zenon DEF LaunchInv, TypeOK, Current, Runnable, Holding, Look, Go
<1>5. QED
  BY <1>1, <1>2, <1>3, <1>4, Zenon DEF LaunchInv

\* A driver starts to work when it has found or written its own record.
LEMMA OwnStep ==
    ASSUME LaunchInv, NEW d \in Drivers, Own(d)
    PROVE  LaunchInv'
<1>1. TypeOK'
  BY LaunchConstants DEF LaunchInv, TypeOK, Holding, Record, Own, Go
<1>2. Owning'
  BY LaunchConstants, ZenonT(30) DEF LaunchInv, TypeOK, Owning, Recording, Bound, Working, Holding, Record, Own, Go
<1>3. Recording'
  BY LaunchConstants DEF LaunchInv, TypeOK, Owning, Recording, Bound, Working, Holding, Record, Own, Go
<1>4. Current'
  BY LaunchConstants DEF LaunchInv, TypeOK, Current, Runnable, Holding, Own, Go
<1>5. QED
  BY <1>1, <1>2, <1>3, <1>4, Zenon DEF LaunchInv

\* The owner begins a step.
LEMMA StepBeginStep ==
    ASSUME LaunchInv, NEW d \in Drivers, StepBegin(d)
    PROVE  LaunchInv'
<1>1. TypeOK'
  BY LaunchConstants DEF LaunchInv, TypeOK, Holding, Record, StepBegin, Go
<1>2. Owning'
  BY LaunchConstants DEF LaunchInv, TypeOK, Owning, Recording, Bound, Working, Holding, Record, StepBegin, Go
<1>3. Recording'
  BY LaunchConstants, Zenon DEF LaunchInv, TypeOK, Owning, Recording, Bound, Working, Holding, Record, StepBegin, Go
<1>4. Current'
  BY LaunchConstants DEF LaunchInv, TypeOK, Current, Runnable, Holding, StepBegin, Go
<1>5. QED
  BY <1>1, <1>2, <1>3, <1>4, Zenon DEF LaunchInv

\* The owner ends a step with any status.
LEMMA StepEndStep ==
    ASSUME LaunchInv, NEW d \in Drivers, StepEnd(d)
    PROVE  LaunchInv'
<1>1. TypeOK'
  BY LaunchConstants DEF LaunchInv, TypeOK, Holding, Record, StepEnd, Go
<1>2. Owning'
  BY LaunchConstants DEF LaunchInv, TypeOK, Owning, Recording, Bound, Working, Holding, Record, StepEnd, Go
<1>3. Recording'
  BY LaunchConstants, Zenon DEF LaunchInv, TypeOK, Owning, Recording, Bound, Working, Holding, Record, StepEnd, Go
<1>4. Current'
  BY LaunchConstants DEF LaunchInv, TypeOK, Current, Runnable, Holding, StepEnd, Go
<1>5. QED
  BY <1>1, <1>2, <1>3, <1>4, Zenon DEF LaunchInv

\* A driver that parks looks again and may go back to work as the owner.
LEMMA RecheckStep ==
    ASSUME LaunchInv, NEW d \in Drivers, Recheck(d)
    PROVE  LaunchInv'
<1>1. TypeOK'
  BY LaunchConstants DEF LaunchInv, TypeOK, Holding, Record, Recheck, Go
<1>2. Owning'
  BY LaunchConstants DEF LaunchInv, TypeOK, Owning, Recording, Bound, Working, Holding, Record, Recheck, Go
<1>3. Recording'
  BY LaunchConstants, Zenon DEF LaunchInv, TypeOK, Owning, Recording, Bound, Working, Holding, Record, Recheck, Go
<1>4. Current'
  BY LaunchConstants DEF LaunchInv, TypeOK, Current, Runnable, Holding, Recheck, Go
<1>5. QED
  BY <1>1, <1>2, <1>3, <1>4, Zenon DEF LaunchInv

\* A driver that retires says so in the record and stops working.
LEMMA RetireStep ==
    ASSUME LaunchInv, NEW d \in Drivers, Retire(d)
    PROVE  LaunchInv'
<1>1. TypeOK'
  BY LaunchConstants DEF LaunchInv, TypeOK, Holding, Record, Retire, Go
<1>2. Owning'
  BY LaunchConstants DEF LaunchInv, TypeOK, Owning, Recording, Bound, Working, Holding, Record, Retire, Go
<1>3. Recording'
  BY LaunchConstants DEF LaunchInv, TypeOK, Owning, Recording, Bound, Working, Holding, Record, Retire, Go
<1>4. Current'
  BY LaunchConstants, Zenon DEF LaunchInv, TypeOK, Current, Runnable, Holding, Retire, Go
<1>5. QED
  BY <1>1, <1>2, <1>3, <1>4, Zenon DEF LaunchInv

\* A driver whose step threw stops working.
LEMMA ThrowStep ==
    ASSUME LaunchInv, NEW d \in Drivers, Throw(d)
    PROVE  LaunchInv'
<1>1. TypeOK'
  BY LaunchConstants DEF LaunchInv, TypeOK, Holding, Record, Throw, Go
<1>2. Owning'
  BY LaunchConstants, Zenon DEF LaunchInv, TypeOK, Owning, Recording, Bound, Working, Holding, Record, Throw, Go
<1>3. Recording'
  BY LaunchConstants DEF LaunchInv, TypeOK, Owning, Recording, Bound, Working, Holding, Record, Throw, Go
<1>4. Current'
  BY LaunchConstants, Zenon DEF LaunchInv, TypeOK, Current, Runnable, Holding, Throw, Go
<1>5. QED
  BY <1>1, <1>2, <1>3, <1>4, Zenon DEF LaunchInv

\* It then reads the run whose failure it may publish.
LEMMA FailureReadStep ==
    ASSUME LaunchInv, NEW d \in Drivers, FailureRead(d)
    PROVE  LaunchInv'
<1>1. TypeOK'
  BY LaunchConstants, ZenonT(30) DEF LaunchInv, TypeOK, Holding, Record, FailureRead, Go
<1>2. Owning'
  BY LaunchConstants DEF LaunchInv, TypeOK, Owning, Recording, Bound, Working, Holding, Record, FailureRead, Go
<1>3. Recording'
  BY LaunchConstants DEF LaunchInv, TypeOK, Owning, Recording, Bound, Working, Holding, Record, FailureRead, Go
<1>4. Current'
  BY LaunchConstants DEF LaunchInv, TypeOK, Current, Runnable, Holding, FailureRead, Go
<1>5. QED
  BY <1>1, <1>2, <1>3, <1>4, Zenon DEF LaunchInv

\* It publishes the failure only over the status it has read.
LEMMA PublishStep ==
    ASSUME LaunchInv, NEW d \in Drivers, Publish(d)
    PROVE  LaunchInv'
<1>1. TypeOK'
  BY LaunchConstants DEF LaunchInv, TypeOK, Holding, Record, Publish, Go
<1>2. Owning'
  BY LaunchConstants DEF LaunchInv, TypeOK, Owning, Recording, Bound, Working, Holding, Record, Publish, Go
<1>3. Recording'
  BY LaunchConstants DEF LaunchInv, TypeOK, Owning, Recording, Bound, Working, Holding, Record, Publish, Go
<1>4. Current'
  BY LaunchConstants DEF LaunchInv, TypeOK, Current, Runnable, Holding, Publish, Go
<1>5. QED
  BY <1>1, <1>2, <1>3, <1>4, Zenon DEF LaunchInv

\* It lets go of the run lock.
LEMMA ReleaseStep ==
    ASSUME LaunchInv, NEW d \in Drivers, Release(d)
    PROVE  LaunchInv'
<1>1. TypeOK'
  BY LaunchConstants DEF LaunchInv, TypeOK, Holding, Record, Release, Go
<1>2. Owning'
  BY LaunchConstants DEF LaunchInv, TypeOK, Owning, Recording, Bound, Working, Holding, Record, Release, Go
<1>3. Recording'
  BY LaunchConstants DEF LaunchInv, TypeOK, Owning, Recording, Bound, Working, Holding, Record, Release, Go
<1>4. Current'
  BY LaunchConstants, Zenon DEF LaunchInv, TypeOK, Current, Runnable, Holding, Release, Go
<1>5. QED
  BY <1>1, <1>2, <1>3, <1>4, Zenon DEF LaunchInv

\* It exits.
LEMMA ExitStep ==
    ASSUME LaunchInv, NEW d \in Drivers, Exit(d)
    PROVE  LaunchInv'
<1>1. TypeOK'
  BY LaunchConstants DEF LaunchInv, TypeOK, Holding, Record, Exit, Go
<1>2. Owning'
  BY LaunchConstants DEF LaunchInv, TypeOK, Owning, Recording, Bound, Working, Holding, Record, Exit, Go
<1>3. Recording'
  BY LaunchConstants DEF LaunchInv, TypeOK, Owning, Recording, Bound, Working, Holding, Record, Exit, Go
<1>4. Current'
  BY LaunchConstants, Zenon DEF LaunchInv, TypeOK, Current, Runnable, Holding, Exit, Go
<1>5. QED
  BY <1>1, <1>2, <1>3, <1>4, Zenon DEF LaunchInv

\* A driver that dies at any point is no longer at work.
LEMMA CrashStep ==
    ASSUME LaunchInv, NEW d \in Drivers, Crash(d)
    PROVE  LaunchInv'
<1>1. TypeOK'
  BY LaunchConstants DEF LaunchInv, TypeOK, Holding, Record, Crash, Go, Alive
<1>2. Owning'
  BY LaunchConstants DEF LaunchInv, TypeOK, Owning, Recording, Bound, Working, Holding, Record, Crash, Go, Alive
<1>3. Recording'
  BY LaunchConstants DEF LaunchInv, TypeOK, Owning, Recording, Bound, Working, Holding, Record, Crash, Go, Alive
<1>4. Current'
  BY LaunchConstants, Zenon DEF LaunchInv, TypeOK, Current, Runnable, Holding, Crash, Go, Alive
<1>5. QED
  BY <1>1, <1>2, <1>3, <1>4, Zenon DEF LaunchInv
\* Every step keeps the invariant.
LEMMA Inductive == LaunchInv /\ [Next]_vars => LaunchInv'
<1>1. SUFFICES ASSUME LaunchInv, [Next]_vars PROVE LaunchInv'
  BY Zenon
<1>2. CASE UNCHANGED vars
  BY <1>1, <1>2, ZenonT(30) DEF vars, LaunchInv, TypeOK, Owning, Recording, Current, Runnable, Record
<1>3. ASSUME NEW c \in Requests, Pause(c) \/ Cancel(c) \/ Resume(c) \/ Serve(c) \/ LaunchTimeout(c) \/ Restart(c)
      PROVE  LaunchInv'
  BY <1>1, <1>3, PauseStep, CancelStep, ResumeStep, LaunchStep, LaunchTimeoutStep, RereadStep,
     ReplayStep, SpawnStep, WriteOwnerStep, RestartStep, RecoverStep, Zenon DEF Serve
<1>4. ASSUME NEW d \in Drivers, Drive(d) \/ EnterTimeout(d) \/ Throw(d) \/ Crash(d)
      PROVE  LaunchInv'
  BY <1>1, <1>4, EnterStep, EnterTimeoutStep, LookStep, OwnStep, StepBeginStep, StepEndStep,
     RecheckStep, RetireStep, ThrowStep, FailureReadStep, PublishStep, ReleaseStep, ExitStep,
     CrashStep, Zenon DEF Drive
<1>5. QED
  BY <1>1, <1>2, <1>3, <1>4, Zenon DEF Next

\* The inductive invariant holds in every behaviour of the launch protocol.
THEOREM LaunchInvariant == Spec => []LaunchInv
<1>1. QED
  BY InitHolds, Inductive, PTL DEF Spec

\* For any number of requests and drivers and any faults, a driver that dispatches
\* steps is the recorded owner and not retiring.
THEOREM WorkersOwned == Spec => []WorkerOwned
<1>1. LaunchInv => WorkerOwned
  BY Zenon DEF LaunchInv, Owning, WorkerOwned, Bound
<1>2. QED
  BY <1>1, LaunchInvariant, PTL

\* The step formula of DecisionsStand.
Stands ==
    /\ status = "terminal" => status' = "terminal"
    /\ status = "parked" /\ status' # "parked" => commands' = commands + 1

\* Every step lets terminal statuses and operator decisions stand.
LEMMA StepStands == LaunchInv /\ [Next]_vars => Stands
<1>1. SUFFICES ASSUME LaunchInv, [Next]_vars PROVE Stands
  BY Zenon
<1>2. CASE status' = status
  BY <1>2, Zenon DEF Stands
<1>3. ASSUME NEW c \in Requests, Pause(c) \/ Cancel(c) \/ Resume(c)
      PROVE  Stands
  BY <1>3, Zenon DEF Stands, Pause, Cancel, Resume, Command
<1>4. ASSUME NEW d \in Drivers, StepBegin(d) \/ StepEnd(d) \/ Publish(d)
      PROVE  Stands
  <2>1. pc[d] = "stepping" => status = "running"
    BY <1>1, Zenon DEF LaunchInv, Current
  <2>2. pc[d] = "publishing" /\ fresh => Runnable
    BY <1>1, Zenon DEF LaunchInv, Current
  <2>3. CASE StepBegin(d)
    BY <2>3, Zenon DEF StepBegin, Runnable, Stands
  <2>4. CASE StepEnd(d)
    BY <2>1, <2>4, Zenon DEF StepEnd, Stands
  <2>5. CASE Publish(d)
    BY <2>2, <2>5, Zenon DEF Publish, Runnable, Stands
  <2>6. QED
    BY <1>4, <2>3, <2>4, <2>5, Zenon
<1>5. ASSUME NEW c \in Requests, Serve(c) \/ LaunchTimeout(c) \/ Restart(c)
      PROVE  status' = status
  BY <1>5, Zenon DEF Serve, Launch, Reread, Replay, Spawn, WriteOwner, Recover, LaunchTimeout, Restart
<1>6. ASSUME NEW d \in Drivers, Drive(d) \/ EnterTimeout(d) \/ Throw(d) \/ Crash(d)
      PROVE  status' = status \/ StepBegin(d) \/ StepEnd(d) \/ Publish(d)
  BY <1>6, Zenon DEF Drive, Enter, Look, Own, Recheck, Retire, FailureRead, Release, Exit, EnterTimeout, Throw, Crash
<1>7. CASE UNCHANGED vars
  BY <1>2, <1>7, Zenon DEF vars
<1>8. QED
  BY <1>1, <1>2, <1>3, <1>4, <1>5, <1>6, <1>7, Zenon DEF Next

\* For any number of requests and drivers and any faults, a decision of the operator
\* is only replaced by a later one.
THEOREM DecisionsKept == Spec => DecisionsStand
<1>1. LaunchInv /\ [Next]_vars => [Stands]_vars
  BY StepStands, Zenon
<1>2. Spec => [][Stands]_vars
  BY <1>1, LaunchInvariant, PTL DEF Spec
<1>3. QED
  BY <1>2, Zenon DEF DecisionsStand, Stands

(***************************************************************************)
(* JobLife                                                                 *)
(***************************************************************************)

\* Where a runner is while it holds the runner lock, and where it is before it has
\* begun to execute the request.
Holds == {"locked", "examined", "queued", "monitored", "leased", "running", "working", "concluded"}
Unexecuted == {"unborn", "spawned", "locked", "examined", "queued", "monitored", "leased", "running"}
RunnerAt == Holds \cup Dormant \cup {"spawned"}
RecordStatus == terminal_status \cup {"queued", "running"}
AnyProc == Procs \cup {NoProc}

LifeType ==
    /\ docker \in BOOLEAN /\ launch \in {"recorded", "spawned", "over"}
    /\ rec \in [status : RecordStatus, pid : AnyProc, verified : BOOLEAN, by : AnyProc]
    /\ jobOwner \in BOOLEAN /\ marker \in BOOLEAN /\ beat \in AnyProc /\ lock \in AnyProc
    /\ proc \in [Procs -> [at : RunnerAt, result : terminal_status \cup {"none"}]]
    /\ work \in [Procs -> {"none", "alive", "dead"}]
    /\ view \in [Readers -> [at : {"idle", "looked", "cancelling", "terminating"},
                             status : RecordStatus, pid : AnyProc, cancels : BOOLEAN]]

\* The runner lock belongs to the one runner that is past it.
LockHeld == \A p \in Procs : proc[p].at \in Holds => lock = p

\* Nothing runs before the launch.
LaunchFirst == launch = "recorded" => rec.by = NoProc /\ \A p \in Procs : proc[p].at = "unborn"

\* A workload exists from Execute on, and a runner that reached a result other than
\* "interrupted" saw it end.
Workloads ==
    \A p \in Procs :
        /\ proc[p].at \in Unexecuted => work[p] = "none"
        /\ proc[p].at = "concluded" => /\ proc[p].result \in terminal_status
                                       /\ proc[p].result # "interrupted" => work[p] # "alive"

\* A record written by a runner at its end is terminal; that runner is gone, and no
\* other is past the check of the record.
Recorded ==
    rec.by # NoProc =>
        /\ rec.status \in terminal_status
        /\ proc[rec.by].at \in {"exited", "crashed"}
        /\ \A p \in Procs : proc[p].at \in {"unborn", "spawned", "locked", "exited", "crashed"}
        /\ rec.status \in {"succeeded", "failed", "timed_out"} => work[rec.by] # "alive"

LifeInv == LifeType /\ LockHeld /\ LaunchFirst /\ Workloads /\ Recorded


\* The initial state satisfies the invariant.
LEMMA LifeInitHolds == LifeInit => LifeInv
<1>1. SUFFICES ASSUME LifeInit PROVE LifeInv
  BY Zenon
<1>2. docker \in BOOLEAN /\ jobOwner \in BOOLEAN /\ marker \in BOOLEAN
  BY <1>1, Zenon DEF LifeInit
<1>3. rec \in [status : RecordStatus, pid : AnyProc, verified : BOOLEAN, by : AnyProc]
  BY <1>1, Zenon DEF LifeInit, RecordStatus, AnyProc
<1>4. proc \in [Procs -> [at : RunnerAt, result : terminal_status \cup {"none"}]]
  BY <1>1, Zenon DEF LifeInit, RunnerAt, Dormant
<1>5. view \in [Readers -> [at : {"idle", "looked", "cancelling", "terminating"},
                            status : RecordStatus, pid : AnyProc, cancels : BOOLEAN]]
  BY <1>1, Zenon DEF LifeInit, Ready, RecordStatus, AnyProc
<1>6. LifeType
  BY <1>1, <1>2, <1>3, <1>4, <1>5, Zenon DEF LifeInit, LifeType, AnyProc
<1>7. LockHeld /\ LaunchFirst /\ Workloads /\ Recorded
  BY <1>1, Zenon DEF LifeInit, LockHeld, LaunchFirst, Workloads, Recorded, Holds
<1>8. QED
  BY <1>6, <1>7, Zenon DEF LifeInv

\* What write_status may do to the record: nothing, or the record it was asked for.
LEMMA WriteStatus ==
    ASSUME LifeType, NEW outcome \in RecordStatus, NEW pid \in AnyProc, NEW verified \in BOOLEAN,
           NEW by \in AnyProc, write_status(outcome, pid, verified, by)
    PROVE  /\ rec' \in [status : RecordStatus, pid : AnyProc, verified : BOOLEAN, by : AnyProc]
           /\ rec' = rec \/ (rec'.status = outcome /\ rec'.by = by)
           /\ rec.status \in terminal_status /\ rec'.status # rec.status
                => rec.status = "cancelled" /\ rec'.status = "interrupted" /\ ~rec'.verified
<1>1. rec.verified \in BOOLEAN /\ rec.pid \in AnyProc
  BY Zenon DEF LifeType
<1>2. (rec.verified /\ verified) \in BOOLEAN
  BY <1>1, Zenon
<1> DEFINE written == [status |-> outcome, pid |-> IF pid = NoProc THEN rec.pid ELSE pid,
                       verified |-> rec.verified /\ verified, by |-> by]
<1>3. written \in [status : RecordStatus, pid : AnyProc, verified : BOOLEAN, by : AnyProc]
  BY <1>1, <1>2, Zenon
<1>4. rec' = rec \/ rec' = written
  BY Zenon DEF write_status
<1>5. written.status = outcome /\ written.by = by
  BY Zenon
<1>6. written.verified = (rec.verified /\ verified)
  BY Zenon
<1>7. rec.status \in terminal_status /\ rec'.status # rec.status
        => rec.status = "cancelled" /\ outcome = "interrupted" /\ ~verified /\ rec' = written
  <2>1. CASE rec' = rec
    BY <2>1, Zenon
  <2>2. CASE rec' # rec
    BY <2>2, <1>5, <1>4, Zenon DEF write_status
  <2>3. QED
    BY <2>1, <2>2, Zenon
<1> HIDE DEF written
<1>8. QED
  BY <1>3, <1>4, <1>5, <1>6, <1>7, Zenon DEF LifeType

\* A runner that moves leaves the others where they are.
LEMMA ReachOne ==
    ASSUME LifeType, NEW p \in Procs, NEW at \in RunnerAt, Reach(p, at)
    PROVE  /\ proc' \in [Procs -> [at : RunnerAt, result : terminal_status \cup {"none"}]]
           /\ proc'[p].at = at
           /\ \A q \in Procs : q # p => proc'[q] = proc[q]
BY DEF LifeType, Reach

\* A runner that concludes has the result it concluded with, and the others stay where they are.
LEMMA ConcludeOne ==
    ASSUME LifeType, NEW p \in Procs, NEW result \in terminal_status, Conclude(p, result)
    PROVE  /\ proc' \in [Procs -> [at : RunnerAt, result : terminal_status \cup {"none"}]]
           /\ proc'[p].at = "concluded" /\ proc'[p].result = result
           /\ \A q \in Procs : q # p => proc'[q] = proc[q]
BY Zenon DEF LifeType, Conclude, RunnerAt, Holds

\* A step in which one runner moves, once something was launched: it holds the lock
\* while it is past it, has a workload only from Execute on, and does not begin to
\* execute once a result is recorded.
LEMMA RunnerMoves ==
    ASSUME LifeInv, LifeType', NEW p \in Procs,
           launch # "recorded", launch' = launch,
           rec' = rec \/ rec'.by = NoProc,
           \A q \in Procs : q # p => proc'[q] = proc[q] /\ work'[q] = work[q],
           lock' = lock \/ (lock = p /\ lock' = NoProc) \/ (lock = NoProc /\ lock' = p),
           proc'[p].at \in Holds => lock' = p,
           proc'[p].at \in Unexecuted => work'[p] = "none",
           proc'[p].at = "concluded" => /\ proc'[p].result \in terminal_status
                                        /\ proc'[p].result # "interrupted" => work'[p] # "alive",
           rec.by # NoProc => proc'[p].at \in {"unborn", "spawned", "locked", "exited", "crashed"},
           rec.by = p => proc'[p].at \in {"exited", "crashed"} /\ work'[p] = work[p]
    PROVE  LifeInv'
<1>1. LockHeld'
  BY LifeConstants DEF LifeInv, LockHeld
<1>2. LaunchFirst'
  BY Zenon DEF LaunchFirst
<1>3. Workloads'
  BY Zenon DEF LifeInv, Workloads
<1>4. Recorded'
  <2>1. CASE rec'.by = NoProc
    BY <2>1, Zenon DEF Recorded
  <2>2. CASE rec' = rec /\ rec.by # NoProc
    <3>1. rec.by \in Procs
      BY <2>2, Zenon DEF LifeInv, LifeType, AnyProc
    <3>2. proc'[rec.by].at \in {"exited", "crashed"} /\ work'[rec.by] = work[rec.by]
      BY <2>2, <3>1, Zenon DEF LifeInv, Recorded
    <3>3. \A q \in Procs : proc'[q].at \in {"unborn", "spawned", "locked", "exited", "crashed"}
      BY <2>2, Zenon DEF LifeInv, Recorded
    <3>4. QED
      BY <2>2, <3>2, <3>3, Zenon DEF LifeInv, Recorded
  <2>3. QED
    BY <2>1, <2>2, Zenon
<1>5. QED
  BY <1>1, <1>2, <1>3, <1>4, Zenon DEF LifeInv

\* A step that moves no runner: workloads may end, and no runner's result is recorded.
LEMMA NoRunnerMoves ==
    ASSUME LifeInv, LifeType', UNCHANGED <<proc, lock>>,
           launch' = launch \/ launch' = "over",
           rec' = rec \/ rec'.by = NoProc,
           \A q \in Procs : work'[q] = work[q] \/ (work[q] = "alive" /\ work'[q] = "dead")
    PROVE  LifeInv'
<1>1. LockHeld' /\ LaunchFirst'
  BY Zenon DEF LifeInv, LockHeld, LaunchFirst
<1>2. Workloads'
  BY Zenon DEF LifeInv, Workloads
<1>3. Recorded'
  <2>1. CASE rec'.by = NoProc
    BY <2>1, Zenon DEF Recorded
  <2>2. CASE rec' = rec /\ rec.by # NoProc
    <3>1. rec.by \in Procs
      BY <2>2, Zenon DEF LifeInv, LifeType, AnyProc
    <3>2. QED
      BY <2>2, <3>1, Zenon DEF LifeInv, Recorded
  <2>3. QED
    BY <2>1, <2>2, Zenon
<1>4. QED
  BY <1>1, <1>2, <1>3, Zenon DEF LifeInv

\* Nothing has a place before the launch, so a runner that has moved was launched.
LEMMA WasLaunched ==
    ASSUME LifeInv, NEW p \in Procs, proc[p].at # "unborn"
    PROVE  launch # "recorded"
BY Zenon DEF LifeInv, LaunchFirst

\* A runner past the check of the record: no runner has recorded a result.
LEMMA NoResultYet ==
    ASSUME LifeInv, NEW p \in Procs, proc[p].at \in Holds \ {"locked"}
    PROVE  rec.by = NoProc /\ lock = p
BY Zenon DEF LifeInv, Recorded, LockHeld, Holds

\* The launch of the runner, its failure or the death of the submitter keeps the invariant.
LEMMA SpawnRunnerStep ==
    ASSUME LifeInv, SpawnRunner
    PROVE  LifeInv'
<1>1. CASE Reach(Launched, "spawned") /\ launch' = "spawned" /\ UNCHANGED rec
  <2>1. /\ proc' \in [Procs -> [at : RunnerAt, result : terminal_status \cup {"none"}]]
        /\ proc'[Launched].at = "spawned"
        /\ \A q \in Procs : q # Launched => proc'[q] = proc[q]
    <3>1. "spawned" \in RunnerAt
      BY Zenon DEF RunnerAt
    <3>2. QED
      BY <1>1, <3>1, LifeConstants, ReachOne, Zenon DEF LifeInv
  <2>2. LifeType'
    BY <1>1, <2>1, Zenon DEF LifeInv, LifeType, SpawnRunner
  <2>3. rec.by = NoProc /\ \A p \in Procs : proc[p].at = "unborn"
    BY Zenon DEF LifeInv, LaunchFirst, SpawnRunner
  <2>4. LockHeld' /\ LaunchFirst'
    BY <1>1, <2>1, <2>3, Zenon DEF LockHeld, LaunchFirst, Holds
  <2>5. Workloads'
    BY <1>1, <2>1, <2>3, Zenon DEF LifeInv, Workloads, SpawnRunner, Unexecuted
  <2>6. Recorded'
    BY <1>1, <2>3, Zenon DEF Recorded
  <2>7. QED
    BY <2>2, <2>4, <2>5, <2>6, Zenon DEF LifeInv
<1>2. CASE write_status("failed", NoProc, TRUE, NoProc) /\ launch' = "over" /\ UNCHANGED proc
  <2>1. "failed" \in RecordStatus /\ NoProc \in AnyProc /\ TRUE \in BOOLEAN
    BY Zenon DEF RecordStatus, terminal_status, AnyProc
  <2>2. /\ rec' \in [status : RecordStatus, pid : AnyProc, verified : BOOLEAN, by : AnyProc]
        /\ rec' = rec \/ rec'.by = NoProc
    BY <1>2, <2>1, WriteStatus, Zenon DEF LifeInv
  <2>3. LifeType'
    BY <1>2, <2>2, Zenon DEF LifeInv, LifeType, SpawnRunner
  <2>4. UNCHANGED <<lock, work>>
    BY Zenon DEF SpawnRunner
  <2>5. QED
    BY <1>2, <2>2, <2>3, <2>4, NoRunnerMoves, Zenon
<1>3. CASE launch' = "over" /\ UNCHANGED <<rec, proc>>
  <2>1. LifeType' /\ UNCHANGED <<lock, work>>
    BY <1>3, Zenon DEF LifeInv, LifeType, SpawnRunner
  <2>2. QED
    BY <1>3, <2>1, NoRunnerMoves, Zenon
<1>4. QED
  BY <1>1, <1>2, <1>3, Zenon DEF SpawnRunner

\* Publishing the owner of the launched runner keeps the invariant.
LEMMA PublishOwnerStep ==
    ASSUME LifeInv, PublishOwner
    PROVE  LifeInv'
<1>1. LifeType' /\ UNCHANGED <<rec, proc, lock, work>> /\ launch' = "over"
  BY Zenon DEF LifeInv, LifeType, PublishOwner
<1>2. QED
  BY <1>1, NoRunnerMoves, Zenon

\* Every place a runner reaches is one of its places.
LEMMA Places ==
    /\ {"spawned", "locked", "exited", "examined", "queued", "monitored", "leased",
        "running", "working", "crashed"} \subseteq RunnerAt
    /\ Stopped \subseteq terminal_status
    /\ {"queued", "running", "failed", "interrupted", "cancelled"} \subseteq RecordStatus
    /\ NoProc \in AnyProc /\ Procs \subseteq AnyProc
    /\ terminal_status \subseteq RecordStatus
BY Zenon DEF RunnerAt, Holds, Dormant, Stopped, terminal_status, RecordStatus, AnyProc

\* A further invocation of the runner program keeps the invariant.
LEMMA InvokeStep ==
    ASSUME LifeInv, NEW p \in Procs, Invoke(p)
    PROVE  LifeInv'
<1>1. /\ proc' \in [Procs -> [at : RunnerAt, result : terminal_status \cup {"none"}]]
      /\ proc'[p].at = "spawned"
      /\ \A q \in Procs : q # p => proc'[q] = proc[q]
  BY Places, ReachOne, Zenon DEF LifeInv, Invoke
<1>2. LifeType'
  BY <1>1, Zenon DEF LifeInv, LifeType, Invoke
<1>3. work[p] = "none" /\ rec.by # p
  BY LifeConstants, Zenon DEF LifeInv, Workloads, Recorded, Invoke, Unexecuted
<1>4. QED
  BY <1>1, <1>2, <1>3, RunnerMoves, Zenon DEF Invoke, Holds

\* Taking the runner lock keeps the invariant.
LEMMA LockRequestStep ==
    ASSUME LifeInv, NEW p \in Procs, LockRequest(p)
    PROVE  LifeInv'
<1>1. PICK at \in {"locked", "exited"} :
          /\ Reach(p, at)
          /\ at = "locked" => lock = NoProc /\ lock' = p
          /\ at = "exited" => lock' = lock
  BY Zenon DEF LockRequest
<1>2. /\ proc' \in [Procs -> [at : RunnerAt, result : terminal_status \cup {"none"}]]
      /\ proc'[p].at = at
      /\ \A q \in Procs : q # p => proc'[q] = proc[q]
  BY <1>1, Places, ReachOne, Zenon DEF LifeInv
<1>3. LifeType'
  BY <1>1, <1>2 DEF LifeInv, LifeType, LockRequest, AnyProc
<1>4. work[p] = "none" /\ rec.by # p /\ launch # "recorded"
  BY LifeConstants, WasLaunched, Zenon DEF LifeInv, Workloads, Recorded, LockRequest, Unexecuted
<1>5. UNCHANGED <<launch, rec, work>>
  BY Zenon DEF LockRequest
<1>6. QED
  BY <1>1, <1>2, <1>3, <1>4, <1>5, RunnerMoves, Zenon DEF Holds

\* A runner that goes on past the check has found no recorded result.
LEMMA ExamineStep ==
    ASSUME LifeInv, NEW p \in Procs, Examine(p)
    PROVE  LifeInv'
<1>1. PICK at \in {"examined", "exited"} :
          /\ Reach(p, at)
          /\ at = "examined" => lock' = lock /\ rec.status \notin terminal_status
          /\ at = "exited" => lock' = NoProc
  BY Zenon DEF Examine
<1>2. /\ proc' \in [Procs -> [at : RunnerAt, result : terminal_status \cup {"none"}]]
      /\ proc'[p].at = at
      /\ \A q \in Procs : q # p => proc'[q] = proc[q]
  BY <1>1, Places, ReachOne, Zenon DEF LifeInv
<1>3. LifeType'
  BY <1>1, <1>2 DEF LifeInv, LifeType, Examine, AnyProc
<1>4. work[p] = "none" /\ rec.by # p /\ launch # "recorded" /\ lock = p
  BY LifeConstants, WasLaunched, Zenon DEF LifeInv, Workloads, Recorded, LockHeld, Examine, Unexecuted, Holds
<1>5. at = "examined" => rec.by = NoProc
  BY <1>1, Zenon DEF LifeInv, Recorded
<1>6. UNCHANGED <<launch, rec, work>>
  BY Zenon DEF Examine
<1>7. QED
  BY <1>1, <1>2, <1>3, <1>4, <1>5, <1>6, RunnerMoves, Zenon DEF Holds

\* The runner that found the record live goes on to queue.
LEMMA QueueStep ==
    ASSUME LifeInv, NEW p \in Procs, Queue(p)
    PROVE  LifeInv'
<1>1. /\ proc' \in [Procs -> [at : RunnerAt, result : terminal_status \cup {"none"}]]
      /\ proc'[p].at = "queued"
      /\ \A q \in Procs : q # p => proc'[q] = proc[q]
  BY Places, ReachOne, Zenon DEF LifeInv, Queue
<1>2. /\ rec' \in [status : RecordStatus, pid : AnyProc, verified : BOOLEAN, by : AnyProc]
      /\ rec' = rec \/ rec'.by = NoProc
  BY Places, WriteStatus, Zenon DEF LifeInv, Queue
<1>3. LifeType'
  BY <1>1, <1>2, Zenon DEF LifeInv, LifeType, Queue
<1>4. rec.by = NoProc /\ lock = p /\ launch # "recorded"
  BY NoResultYet, WasLaunched, Zenon DEF Queue, Holds
<1>5. work[p] = "none" /\ UNCHANGED <<launch, lock, work>>
  BY Zenon DEF LifeInv, Workloads, Queue, Unexecuted
<1>6. QED
  BY <1>1, <1>2, <1>3, <1>4, <1>5, LifeConstants, RunnerMoves, Zenon

\* Starting the monitor keeps the invariant.
LEMMA StartMonitorStep ==
    ASSUME LifeInv, NEW p \in Procs, StartMonitor(p)
    PROVE  LifeInv'
<1>1. /\ proc' \in [Procs -> [at : RunnerAt, result : terminal_status \cup {"none"}]]
      /\ proc'[p].at = "monitored"
      /\ \A q \in Procs : q # p => proc'[q] = proc[q]
  BY Places, ReachOne, Zenon DEF LifeInv, StartMonitor
<1>2. LifeType'
  BY <1>1, Zenon DEF LifeInv, LifeType, StartMonitor, AnyProc
<1>3. rec.by = NoProc /\ lock = p /\ launch # "recorded"
  BY NoResultYet, WasLaunched, Zenon DEF StartMonitor, Holds
<1>4. work[p] = "none" /\ UNCHANGED <<launch, lock, rec, work>>
  BY Zenon DEF LifeInv, Workloads, StartMonitor, Unexecuted
<1>5. QED
  BY <1>1, <1>2, <1>3, <1>4, LifeConstants, RunnerMoves, Zenon

\* Taking the resource lease, or concluding without it, keeps the invariant.
LEMMA AcquireStep ==
    ASSUME LifeInv, NEW p \in Procs, Acquire(p)
    PROVE  LifeInv'
<1>1. /\ proc' \in [Procs -> [at : RunnerAt, result : terminal_status \cup {"none"}]]
      /\ proc'[p].at \in {"leased", "concluded"}
      /\ proc'[p].at = "concluded" => proc'[p].result \in terminal_status
      /\ \A q \in Procs : q # p => proc'[q] = proc[q]
  <2>1. CASE Reach(p, "leased")
    BY <2>1, Places, ReachOne, Zenon DEF LifeInv
  <2>2. CASE \E result \in Stopped : Conclude(p, result)
    BY <2>2, Places, ConcludeOne, Zenon DEF LifeInv
  <2>3. QED
    BY <2>1, <2>2, Zenon DEF Acquire
<1>2. LifeType'
  BY <1>1, Zenon DEF LifeInv, LifeType, Acquire
<1>3. rec.by = NoProc /\ lock = p /\ launch # "recorded"
  BY NoResultYet, WasLaunched, Zenon DEF Acquire, Holds
<1>4. work[p] = "none" /\ UNCHANGED <<launch, lock, rec, work>>
  BY Zenon DEF LifeInv, Workloads, Acquire, Unexecuted
<1>5. QED
  BY <1>1, <1>2, <1>3, <1>4, LifeConstants, RunnerMoves, Zenon

\* Recording "running" keeps the invariant: the writer holds the lock, so no runner has recorded an end.
LEMMA BeginStep ==
    ASSUME LifeInv, NEW p \in Procs, Begin(p)
    PROVE  LifeInv'
<1>1. /\ proc' \in [Procs -> [at : RunnerAt, result : terminal_status \cup {"none"}]]
      /\ proc'[p].at \in {"running", "concluded"}
      /\ proc'[p].at = "concluded" => proc'[p].result \in terminal_status
      /\ \A q \in Procs : q # p => proc'[q] = proc[q]
  <2>1. CASE Reach(p, "running")
    BY <2>1, Places, ReachOne, Zenon DEF LifeInv
  <2>2. CASE Conclude(p, "cancelled")
    BY <2>2, ConcludeOne, Zenon DEF LifeInv, terminal_status
  <2>3. QED
    BY <2>1, <2>2, Zenon DEF Begin
<1>2. /\ rec' \in [status : RecordStatus, pid : AnyProc, verified : BOOLEAN, by : AnyProc]
      /\ rec' = rec \/ rec'.by = NoProc
  <2>1. CASE UNCHANGED rec
    BY <2>1, Zenon DEF LifeInv, LifeType
  <2>2. CASE write_status("running", p, TRUE, NoProc)
    BY <2>2, Places, WriteStatus, Zenon DEF LifeInv
  <2>3. QED
    BY <2>1, <2>2, Zenon DEF Begin
<1>3. LifeType'
  BY <1>1, <1>2, Zenon DEF LifeInv, LifeType, Begin
<1>4. rec.by = NoProc /\ lock = p /\ launch # "recorded"
  BY NoResultYet, WasLaunched, Zenon DEF Begin, Holds
<1>5. work[p] = "none" /\ UNCHANGED <<launch, lock, work>>
  BY Zenon DEF LifeInv, Workloads, Begin, Unexecuted
<1>6. QED
  BY <1>1, <1>2, <1>3, <1>4, <1>5, LifeConstants, RunnerMoves, Zenon

\* Starting the workload keeps the invariant.
LEMMA ExecuteStep ==
    ASSUME LifeInv, NEW p \in Procs, Execute(p)
    PROVE  LifeInv'
<1>1. /\ proc' \in [Procs -> [at : RunnerAt, result : terminal_status \cup {"none"}]]
      /\ \/ proc'[p].at = "working"
         \/ proc'[p].at = "concluded" /\ proc'[p].result \in terminal_status /\ work' = work
      /\ \A q \in Procs : q # p => proc'[q] = proc[q]
  <2>1. CASE Reach(p, "working")
    BY <2>1, Places, ReachOne, Zenon DEF LifeInv
  <2>2. CASE (\E result \in Stopped : Conclude(p, result)) /\ UNCHANGED work
    BY <2>2, Places, ConcludeOne, Zenon DEF LifeInv
  <2>3. QED
    BY <2>1, <2>2, Zenon DEF Execute
<1>2. /\ work' \in [Procs -> {"none", "alive", "dead"}]
      /\ \A q \in Procs : q # p => work'[q] = work[q]
  BY Zenon DEF LifeInv, LifeType, Execute
<1>3. LifeType'
  BY <1>1, <1>2, Zenon DEF LifeInv, LifeType, Execute
<1>4. rec.by = NoProc /\ lock = p /\ launch # "recorded"
  BY NoResultYet, WasLaunched, Zenon DEF Execute, Holds
<1>5. work[p] = "none" /\ UNCHANGED <<launch, lock, rec>>
  BY Zenon DEF LifeInv, Workloads, Execute, Unexecuted
<1>6. QED
  BY <1>1, <1>2, <1>3, <1>4, <1>5, LifeConstants, RunnerMoves, Zenon DEF Unexecuted

\* Naming the child in the heartbeat keeps the invariant.
LEMMA SetChildStep ==
    ASSUME LifeInv, NEW p \in Procs, SetChild(p)
    PROVE  LifeInv'
<1>1. LifeType' /\ UNCHANGED <<launch, rec, lock, proc, work>>
  BY Zenon DEF LifeInv, LifeType, SetChild, AnyProc
<1>2. QED
  BY <1>1, NoRunnerMoves, Zenon

\* The end of a runner: the record it writes says what became of its workload.
LEMMA FinishStep ==
    ASSUME LifeInv, NEW p \in Procs, Finish(p)
    PROVE  LifeInv'
<1>1. PICK result \in terminal_status :
          /\ Conclude(p, result)
          /\ \/ work' = [work EXCEPT ![p] = "dead"]
             \/ result = "interrupted" /\ work' = work
  BY Places, Zenon DEF Finish, terminal_status
<1>2. /\ proc' \in [Procs -> [at : RunnerAt, result : terminal_status \cup {"none"}]]
      /\ proc'[p].at = "concluded" /\ proc'[p].result = result
      /\ \A q \in Procs : q # p => proc'[q] = proc[q]
  BY <1>1, ConcludeOne, Zenon DEF LifeInv
<1>3. /\ work' \in [Procs -> {"none", "alive", "dead"}]
      /\ result # "interrupted" => work'[p] = "dead"
      /\ \A q \in Procs : q # p => work'[q] = work[q]
  BY <1>1, Zenon DEF LifeInv, LifeType
<1>4. LifeType'
  BY <1>2, <1>3, Zenon DEF LifeInv, LifeType, Finish
<1>5. rec.by = NoProc /\ lock = p /\ launch # "recorded" /\ UNCHANGED <<launch, lock, rec>>
  BY NoResultYet, WasLaunched, Zenon DEF Finish, Holds
<1>6. QED
  BY <1>2, <1>3, <1>4, <1>5, LifeConstants, RunnerMoves, ZenonT(30) DEF Unexecuted

\* A runner killed by the system or by cancel.
LEMMA Killed ==
    ASSUME LifeInv, LifeType', NEW p \in Procs, Live(p), Reach(p, "crashed"),
           lock' = (IF lock = p THEN NoProc ELSE lock), UNCHANGED <<launch, rec, work>>
    PROVE  LifeInv'
<1>1. /\ proc'[p].at = "crashed"
      /\ \A q \in Procs : q # p => proc'[q] = proc[q]
  BY Places, ReachOne, Zenon DEF LifeInv
<1>2. rec.by # p /\ launch # "recorded"
  BY WasLaunched, Zenon DEF LifeInv, Recorded, Live, Dormant
<1>3. QED
  BY <1>1, <1>2, RunnerMoves, Zenon DEF Holds, Unexecuted

\* The death of a runner keeps the invariant: what was recorded before stays true.
LEMMA RunnerDiesStep ==
    ASSUME LifeInv, NEW p \in Procs, RunnerDies(p)
    PROVE  LifeInv'
<1>1. proc' \in [Procs -> [at : RunnerAt, result : terminal_status \cup {"none"}]]
  BY Places, ReachOne, Zenon DEF LifeInv, RunnerDies
<1>2. LifeType'
  BY <1>1, Zenon DEF LifeInv, LifeType, RunnerDies, AnyProc
<1>3. QED
  BY <1>2, Killed, Zenon DEF RunnerDies

\* The end of a workload keeps the invariant.
LEMMA WorkEndsStep ==
    ASSUME LifeInv, NEW p \in Procs, WorkEnds(p)
    PROVE  LifeInv'
<1>1. LifeType' /\ UNCHANGED <<launch, rec, lock, proc>>
  BY Zenon DEF LifeInv, LifeType, WorkEnds
<1>2. \A q \in Procs : work'[q] = work[q] \/ (work[q] = "alive" /\ work'[q] = "dead")
  BY Zenon DEF LifeInv, LifeType, WorkEnds
<1>3. QED
  BY <1>1, <1>2, NoRunnerMoves, Zenon

\* The runner records its result while it holds the lock: no other runner is past it,
\* and the workload of a runner that does not say "interrupted" has ended.
LEMMA PersistTerminalStep ==
    ASSUME LifeInv, NEW p \in Procs, PersistTerminal(p)
    PROVE  LifeInv'
<1>1. /\ proc' \in [Procs -> [at : RunnerAt, result : terminal_status \cup {"none"}]]
      /\ proc'[p].at = "exited"
      /\ \A q \in Procs : q # p => proc'[q] = proc[q]
  BY Places, ReachOne, Zenon DEF LifeInv, PersistTerminal
<1>2. proc[p].result \in terminal_status /\ lock = p /\ rec.by = NoProc /\ launch # "recorded"
  BY NoResultYet, WasLaunched, Zenon DEF LifeInv, Workloads, PersistTerminal, Holds
<1>3. /\ rec' \in [status : RecordStatus, pid : AnyProc, verified : BOOLEAN, by : AnyProc]
      /\ rec' = rec \/ (rec'.status = proc[p].result /\ rec'.by = p)
  <2>1. CASE UNCHANGED rec
    BY <2>1, Zenon DEF LifeInv, LifeType
  <2>2. CASE write_status(proc[p].result, p, proc[p].result # "interrupted", p)
    <3>1. (proc[p].result # "interrupted") \in BOOLEAN
      BY Zenon
    <3>2. QED
      BY <2>2, <3>1, <1>2, Places, WriteStatus, Zenon DEF LifeInv
  <2>3. QED
    BY <2>1, <2>2, Zenon DEF PersistTerminal
<1>4. LifeType'
  BY <1>1, <1>3, Zenon DEF LifeInv, LifeType, PersistTerminal, AnyProc
<1>5. UNCHANGED <<launch, work>>
  BY Zenon DEF PersistTerminal
<1>6. \A q \in Procs : q # p => proc[q].at \notin Holds
  BY <1>2, Zenon DEF LifeInv, LockHeld
<1>7. LockHeld' /\ LaunchFirst'
  BY <1>1, <1>2, <1>5, <1>6, Zenon DEF LockHeld, LaunchFirst, Holds
<1>8. Workloads'
  BY <1>1, <1>5, Zenon DEF LifeInv, Workloads, Unexecuted
<1>9. Recorded'
  <2>1. CASE rec' = rec
    BY <2>1, <1>2, Zenon DEF Recorded
  <2>2. CASE rec'.status = proc[p].result /\ rec'.by = p
    <3>1. \A q \in Procs : proc'[q].at \in {"unborn", "spawned", "locked", "exited", "crashed"}
      BY <1>1, <1>6 DEF LifeInv, LifeType, RunnerAt, Dormant
    <3>2. proc[p].result \in {"succeeded", "failed", "timed_out"} => work[p] # "alive"
      BY Zenon DEF LifeInv, Workloads, PersistTerminal
    <3>3. QED
      BY <2>2, <3>1, <3>2, <1>1, <1>2, <1>5, Zenon DEF Recorded
  <2>3. QED
    BY <2>1, <2>2, <1>3, Zenon
<1>10. QED
  BY <1>4, <1>7, <1>8, <1>9, Zenon DEF LifeInv

\* What a reader's step leaves of the readers.
LEMMA ThenViews ==
    ASSUME LifeType, NEW r \in Readers, NEW outcome, Then(r, outcome)
    PROVE  view' \in [Readers -> [at : {"idle", "looked", "cancelling", "terminating"},
                                  status : RecordStatus, pid : AnyProc, cancels : BOOLEAN]]
<1>1. PICK at \in {"cancelling", "idle"} : view' = [view EXCEPT ![r].at = at]
  BY Zenon DEF Then
<1>2. QED
  BY <1>1 DEF LifeType

\* A reader that looks at the record changes only its view.
LEMMA LookAtStep ==
    ASSUME LifeInv, NEW r \in Readers, NEW cancels \in BOOLEAN, LookAt(r, cancels)
    PROVE  LifeInv'
<1> DEFINE pid == IF rec.pid # NoProc THEN rec.pid ELSE IF jobOwner THEN Launched ELSE NoProc
           seen == [at |-> "looked", status |-> rec.status, cancels |-> cancels, pid |-> pid]
<1>1. pid \in AnyProc /\ rec.status \in RecordStatus
  BY LifeConstants, Zenon DEF LifeInv, LifeType, AnyProc
<1>2. view' = [view EXCEPT ![r] = seen]
  BY Zenon DEF LookAt
<1> HIDE DEF pid
<1>3. seen \in [at : {"idle", "looked", "cancelling", "terminating"},
                status : RecordStatus, pid : AnyProc, cancels : BOOLEAN]
  BY <1>1, Zenon
<1> HIDE DEF seen
<1>4. view' \in [Readers -> [at : {"idle", "looked", "cancelling", "terminating"},
                             status : RecordStatus, pid : AnyProc, cancels : BOOLEAN]]
  BY <1>2, <1>3, Zenon DEF LifeInv, LifeType
<1>5. UNCHANGED <<docker, launch, rec, jobOwner, marker, beat, lock, proc, work>>
  BY Zenon DEF LookAt
<1>6. LifeType'
  BY <1>4, <1>5, Zenon DEF LifeInv, LifeType
<1>7. QED
  BY <1>5, <1>6, NoRunnerMoves, Zenon

\* The records a reconciling reader may write.
LEMMA ReaderWrites ==
    ASSUME LifeInv, NEW r \in Readers, NEW outcome \in {"cancelled", "interrupted"},
           NEW verified \in BOOLEAN, write_status(outcome, view[r].pid, verified, NoProc)
    PROVE  /\ rec' \in [status : RecordStatus, pid : AnyProc, verified : BOOLEAN, by : AnyProc]
           /\ rec' = rec \/ rec'.by = NoProc
<1>1. view[r].pid \in AnyProc
  BY Zenon DEF LifeInv, LifeType
<1>2. QED
  BY <1>1, Places, WriteStatus DEF LifeInv

\* A reader that sees a cancelled job, and records it when nothing lives, keeps the invariant.
LEMMA ReconcileCancelledStep ==
    ASSUME LifeInv, NEW r \in Readers, ReconcileCancelled(r)
    PROVE  LifeInv'
<1>1. /\ rec' \in [status : RecordStatus, pid : AnyProc, verified : BOOLEAN, by : AnyProc]
      /\ rec' = rec \/ rec'.by = NoProc
  <2>1. CASE UNCHANGED rec
    BY <2>1, Zenon DEF LifeInv, LifeType
  <2>2. CASE write_status("interrupted", view[r].pid, FALSE, NoProc)
    BY <2>2, ReaderWrites, Zenon
  <2>3. CASE write_status("cancelled", view[r].pid, TRUE, NoProc)
    BY <2>3, ReaderWrites, Zenon
  <2>4. QED
    BY <2>1, <2>2, <2>3, Zenon DEF ReconcileCancelled
<1>2. view' \in [Readers -> [at : {"idle", "looked", "cancelling", "terminating"},
                             status : RecordStatus, pid : AnyProc, cancels : BOOLEAN]]
  <2>1. \E outcome \in {"cancel_requested", "interrupted", "cancelled"} : Then(r, outcome)
    BY Zenon DEF ReconcileCancelled
  <2>2. QED
    BY <2>1, ThenViews, Zenon DEF LifeInv
<1>3. UNCHANGED <<docker, launch, jobOwner, marker, beat, lock, proc, work>>
  BY Zenon DEF ReconcileCancelled
<1>4. LifeType'
  BY <1>1, <1>2, <1>3, Zenon DEF LifeInv, LifeType
<1>5. QED
  BY <1>1, <1>3, <1>4, NoRunnerMoves, Zenon

\* A reader that finds the job settled keeps the invariant.
LEMMA ReconcileSettledStep ==
    ASSUME LifeInv, NEW r \in Readers, ReconcileSettled(r)
    PROVE  LifeInv'
<1>1. view' \in [Readers -> [at : {"idle", "looked", "cancelling", "terminating"},
                             status : RecordStatus, pid : AnyProc, cancels : BOOLEAN]]
  BY ThenViews, Zenon DEF LifeInv, ReconcileSettled
<1>2. UNCHANGED <<docker, launch, rec, jobOwner, marker, beat, lock, proc, work>>
  BY Zenon DEF ReconcileSettled
<1>3. LifeType'
  BY <1>1, <1>2, Zenon DEF LifeInv, LifeType
<1>4. QED
  BY <1>2, <1>3, NoRunnerMoves, Zenon

\* A reader that records an orphan as interrupted keeps the invariant.
LEMMA InterruptOrphanStep ==
    ASSUME LifeInv, NEW r \in Readers, InterruptOrphan(r)
    PROVE  LifeInv'
<1>1. /\ rec' \in [status : RecordStatus, pid : AnyProc, verified : BOOLEAN, by : AnyProc]
      /\ rec' = rec \/ rec'.by = NoProc
  BY ReaderWrites, Zenon DEF InterruptOrphan
<1>2. view' \in [Readers -> [at : {"idle", "looked", "cancelling", "terminating"},
                             status : RecordStatus, pid : AnyProc, cancels : BOOLEAN]]
  BY ThenViews, Zenon DEF LifeInv, InterruptOrphan
<1>3. work' = work \/ (WorkAlive(beat) /\ work' = [work EXCEPT ![beat] = "dead"])
  BY Zenon DEF InterruptOrphan
<1>4. /\ work' \in [Procs -> {"none", "alive", "dead"}]
      /\ \A q \in Procs : work'[q] = work[q] \/ (work[q] = "alive" /\ work'[q] = "dead")
  BY <1>3, Zenon DEF LifeInv, LifeType, WorkAlive
<1>5. UNCHANGED <<docker, launch, jobOwner, marker, beat, lock, proc>>
  BY Zenon DEF InterruptOrphan
<1>6. LifeType'
  BY <1>1, <1>2, <1>4, <1>5, Zenon DEF LifeInv, LifeType
<1>7. QED
  BY <1>1, <1>4, <1>5, <1>6, NoRunnerMoves, Zenon

\* Writing the cancellation marker keeps the invariant.
LEMMA WriteMarkerStep ==
    ASSUME LifeInv, NEW r \in Readers, WriteMarker(r)
    PROVE  LifeInv'
<1>1. marker' \in BOOLEAN
  BY Zenon DEF WriteMarker
<1>2. PICK at \in {"idle", "terminating"} : view' = [view EXCEPT ![r].at = at]
  BY Zenon DEF WriteMarker
<1>3. UNCHANGED <<docker, launch, rec, jobOwner, beat, lock, proc, work>>
  BY Zenon DEF WriteMarker
<1>4. LifeType'
  BY <1>1, <1>2, <1>3 DEF LifeInv, LifeType
<1>5. QED
  BY <1>3, <1>4, NoRunnerMoves, Zenon

\* Terminating the workload of a cancelled job keeps the invariant.
LEMMA TerminateStep ==
    ASSUME LifeInv, NEW r \in Readers, Terminate(r)
    PROVE  LifeInv'
<1>1. view' \in [Readers -> [at : {"idle", "looked", "cancelling", "terminating"},
                             status : RecordStatus, pid : AnyProc, cancels : BOOLEAN]]
  BY DEF LifeInv, LifeType, Terminate
<1>2. UNCHANGED <<docker, launch, rec, jobOwner, marker, beat, work>>
  BY Zenon DEF Terminate
<1>3. CASE Live(view[r].pid)
  <2>1. view[r].pid \in Procs
    BY <1>3, Zenon DEF LifeInv, LifeType, AnyProc, Live
  <2>2. Reach(view[r].pid, "crashed") /\ lock' = (IF lock = view[r].pid THEN NoProc ELSE lock)
    BY <1>3, Zenon DEF Terminate
  <2>3. proc' \in [Procs -> [at : RunnerAt, result : terminal_status \cup {"none"}]]
    BY <2>1, <2>2, Places, ReachOne, Zenon DEF LifeInv
  <2>4. LifeType'
    BY <1>1, <1>2, <2>2, <2>3, Zenon DEF LifeInv, LifeType, AnyProc
  <2>5. QED
    BY <1>2, <1>3, <2>1, <2>2, <2>4, Killed, Zenon
<1>4. CASE ~Live(view[r].pid)
  <2>1. UNCHANGED <<proc, lock>>
    BY <1>4, Zenon DEF Terminate
  <2>2. LifeType'
    BY <1>1, <1>2, <2>1, Zenon DEF LifeInv, LifeType
  <2>3. QED
    BY <1>2, <2>1, <2>2, NoRunnerMoves, Zenon
<1>5. QED
  BY <1>3, <1>4, Zenon

\* Every step preserves the invariant.
LEMMA LifeInductive == LifeInv /\ [LifeNext]_lifeVars => LifeInv'
<1>1. SUFFICES ASSUME LifeInv, [LifeNext]_lifeVars PROVE LifeInv'
  BY Zenon
<1>2. CASE SpawnRunner \/ PublishOwner
  BY <1>1, <1>2, SpawnRunnerStep, PublishOwnerStep, Zenon
<1>3. CASE \E p \in Procs : Invoke(p) \/ RunnerStep(p) \/ RunnerDies(p) \/ WorkEnds(p)
  <2>1. PICK p \in Procs : Invoke(p) \/ RunnerStep(p) \/ RunnerDies(p) \/ WorkEnds(p)
    BY <1>3, Zenon
  <2>2. CASE RunnerStep(p)
    BY <1>1, <2>2, LockRequestStep, ExamineStep, QueueStep, StartMonitorStep, AcquireStep,
       BeginStep, ExecuteStep, SetChildStep, FinishStep, PersistTerminalStep, Zenon DEF RunnerStep
  <2>3. QED
    BY <1>1, <2>1, <2>2, InvokeStep, RunnerDiesStep, WorkEndsStep, Zenon
<1>4. CASE \E r \in Readers : ReaderStep(r) \/ \E cancels \in BOOLEAN : LookAt(r, cancels)
  <2>1. PICK r \in Readers : ReaderStep(r) \/ \E cancels \in BOOLEAN : LookAt(r, cancels)
    BY <1>4, Zenon
  <2>2. CASE ReaderStep(r)
    BY <1>1, <2>2, ReconcileCancelledStep, ReconcileSettledStep, InterruptOrphanStep,
       WriteMarkerStep, TerminateStep, Zenon DEF ReaderStep
  <2>3. CASE \E cancels \in BOOLEAN : LookAt(r, cancels)
    BY <1>1, <2>3, LookAtStep, Zenon
  <2>4. QED
    BY <2>1, <2>2, <2>3, Zenon
<1>5. CASE UNCHANGED lifeVars
  <2>1. UNCHANGED <<docker, launch, rec, jobOwner, marker, beat, lock, proc, work, view>>
    BY <1>5, Zenon DEF lifeVars
  <2>2. LifeType'
    BY <1>1, <2>1, Zenon DEF LifeInv, LifeType
  <2>3. QED
    BY <1>1, <2>1, <2>2, NoRunnerMoves, Zenon
<1>6. QED
  BY <1>1, <1>2, <1>3, <1>4, <1>5, Zenon DEF LifeNext

\* The invariant gives what is promised of a job's record.
LEMMA LifeInvSound == LifeInv => NotExecutedAgain /\ EndedMeansEnded
<1>1. SUFFICES ASSUME LifeInv PROVE NotExecutedAgain /\ EndedMeansEnded
  BY Zenon
<1>2. NotExecutedAgain
  <2>1. \A p, q \in Procs : proc[p].at \in {"queued", "monitored", "leased", "running", "working", "concluded"}
          /\ proc[q].at \in {"queued", "monitored", "leased", "running", "working", "concluded"} => p = q
    BY <1>1, Zenon DEF LifeInv, LockHeld, Holds
  <2>2. rec.by # NoProc => \A p \in Procs : proc[p].at \in {"unborn", "spawned", "locked", "exited", "crashed"}
    BY <1>1, Zenon DEF LifeInv, Recorded
  <2>3. QED
    BY <2>1, <2>2, Zenon DEF NotExecutedAgain
<1>3. EndedMeansEnded
  BY <1>1, Zenon DEF LifeInv, Recorded, EndedMeansEnded, WorkAlive
<1>4. QED
  BY <1>2, <1>3, Zenon

\* A terminal record is replaced only by the admission that a cancelled workload's
\* termination is unverified.
LEMMA RecordStands ==
    ASSUME LifeInv, [LifeNext]_lifeVars, rec.status \in terminal_status, rec'.status # rec.status
    PROVE  rec.status = "cancelled" /\ rec'.status = "interrupted" /\ ~rec'.verified
<1>1. PICK outcome \in RecordStatus, pid \in AnyProc, verified \in BOOLEAN, by \in AnyProc :
          write_status(outcome, pid, verified, by)
  <2>1. rec' # rec
    BY Zenon
  <2>2. CASE SpawnRunner
    <3>1. write_status("failed", NoProc, TRUE, NoProc)
      BY <2>1, <2>2, ZenonT(30) DEF SpawnRunner
    <3>2. QED
      BY <3>1, Places, Zenon
  <2>3. CASE \E p \in Procs : Invoke(p) \/ RunnerStep(p) \/ RunnerDies(p) \/ WorkEnds(p)
    <3>1. PICK p \in Procs : Queue(p) \/ Begin(p) \/ PersistTerminal(p)
      BY <2>1, <2>3, Zenon DEF Invoke, RunnerStep, RunnerDies, WorkEnds, LockRequest, Examine,
         StartMonitor, Acquire, Execute, SetChild, Finish
    <3>2. CASE Queue(p)
      BY <3>2, Places, Zenon DEF Queue
    <3>3. CASE Begin(p)
      BY <3>3, <2>1, Places, Zenon DEF Begin
    <3>4. CASE PersistTerminal(p)
      <4>1. write_status(proc[p].result, p, proc[p].result # "interrupted", p)
        BY <3>4, <2>1, ZenonT(30) DEF PersistTerminal
      <4>2. proc[p].result \in RecordStatus
        BY <3>4, Places, Zenon DEF LifeInv, Workloads, PersistTerminal
      <4>3. (proc[p].result # "interrupted") \in BOOLEAN /\ p \in AnyProc
        BY Places, Zenon
      <4>4. QED
        BY <4>1, <4>2, <4>3, Zenon
    <3>5. QED
      BY <3>1, <3>2, <3>3, <3>4, Zenon
  <2>4. CASE \E r \in Readers : ReaderStep(r) \/ \E cancels \in BOOLEAN : LookAt(r, cancels)
    <3>1. PICK r \in Readers : ReconcileCancelled(r) \/ InterruptOrphan(r)
      BY <2>1, <2>4, Zenon DEF ReaderStep, ReconcileSettled, WriteMarker, Terminate, LookAt
    <3>2. view[r].pid \in AnyProc
      BY Zenon DEF LifeInv, LifeType
    <3>3. \/ write_status("interrupted", view[r].pid, FALSE, NoProc)
          \/ write_status("cancelled", view[r].pid, TRUE, NoProc)
          \/ write_status("interrupted", view[r].pid, TRUE, NoProc)
      BY <3>1, <2>1, Zenon DEF ReconcileCancelled, InterruptOrphan
    <3>4. QED
      BY <3>2, <3>3, Places, Zenon
  <2>5. QED
    BY <2>1, <2>2, <2>3, <2>4, Zenon DEF LifeNext, lifeVars, PublishOwner
<1>2. QED
  BY <1>1, WriteStatus, Zenon DEF LifeInv

\* A reader that ends a job whose runner it knows has seen that runner gone.
LEMMA OrphanIsGone ==
    ASSUME LifeInv, [LifeNext]_lifeVars, NEW r \in Readers,
           view[r].at = "looked", view'[r].at # "looked",
           rec.status \notin terminal_status, rec'.status \in terminal_status
    PROVE  ~Live(view[r].pid)
<1>1. view' # view /\ rec' # rec
  BY Zenon
<1>2. PICK s \in Readers : ReaderStep(s) \/ \E cancels \in BOOLEAN : LookAt(s, cancels)
  BY <1>1, Zenon DEF LifeNext, lifeVars, SpawnRunner, PublishOwner, Invoke, RunnerStep, RunnerDies,
     WorkEnds, LockRequest, Examine, Queue, StartMonitor, Acquire, Begin, Execute, SetChild,
     Finish, PersistTerminal
<1>3. ReconcileCancelled(s) \/ InterruptOrphan(s)
  BY <1>1, <1>2, Zenon DEF ReaderStep, ReconcileSettled, WriteMarker, Terminate, LookAt
<1>4. \E outcome : Then(s, outcome)
  BY <1>3, Zenon DEF ReconcileCancelled, InterruptOrphan
<1>5. s = r
  BY <1>4, Zenon DEF Then, LifeInv, LifeType
<1>6. ~Live(view[s].pid)
  BY <1>1, <1>3, Zenon DEF ReconcileCancelled, InterruptOrphan
<1>7. QED
  BY <1>5, <1>6, Zenon

\* The record of a job is true: NotExecutedAgain and EndedMeansEnded in every state,
\* TerminalStands and LiveLaunchNotOrphaned in every step of job_runner.cpp and jobs.cpp.
THEOREM JobRecordIsTrue == LifeSpec => JobRecordTrue
<1>1. LifeInit => LifeInv
  BY LifeInitHolds, Zenon
<1>2. LifeInv /\ [LifeNext]_lifeVars => LifeInv'
  BY LifeInductive, Zenon
<1>3. LifeInv => NotExecutedAgain /\ EndedMeansEnded
  BY LifeInvSound, Zenon
<1>4. LifeInv /\ [LifeNext]_lifeVars =>
        [rec.status \in terminal_status /\ rec'.status # rec.status
           => rec.status = "cancelled" /\ rec'.status = "interrupted" /\ ~rec'.verified]_lifeVars
  BY RecordStands, Zenon
<1>5. LifeInv /\ [LifeNext]_lifeVars =>
        [\A r \in Readers :
           view[r].at = "looked" /\ view[r].pid # NoProc /\ view'[r].at # "looked"
           /\ rec.status \notin terminal_status /\ rec'.status \in terminal_status
           => ~Live(view[r].pid)]_lifeVars
  BY OrphanIsGone, Zenon
<1>6. QED
  BY <1>1, <1>2, <1>3, <1>4, <1>5, PTL
     DEF LifeSpec, JobRecordTrue, TerminalStands, LiveLaunchNotOrphaned
==============================================================================
