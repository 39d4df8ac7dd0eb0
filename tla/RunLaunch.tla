------------------------------ MODULE RunLaunch ------------------------------
(***************************************************************************)
(* Launching and retiring the driver process of one run (RunService in     *)
(* cpp-mcp/src/run_service.cpp): requests to the front end that start a    *)
(* driver, the driver processes, the launch and driver locks, the owner    *)
(* file, and recovery after a restart of the front end.  What a step of    *)
(* the controller does is in RunController; here it only moves the status. *)
(* A run that awaits approval, is paused or is uncertain is "parked".      *)
(***************************************************************************)
EXTENDS Integers

CONSTANTS
    Requests,     \* threads of the front end that serve run requests
    Drivers,      \* driver processes, each spawned at most once
    Commands,     \* the operator commands issued: a subset of {"pause", "cancel"}
    Faults,       \* a subset of {"crash", "restart", "timeout", "failure"}
    MaxCommands,  \* bound on the commands that change the status, and on restarts
    None

ASSUME LaunchConstants ==
    /\ MaxCommands \in Nat
    /\ None \notin Requests /\ None \notin Drivers
    /\ Requests \cap Drivers = {}
    /\ None \notin [pid : Drivers, retiring : BOOLEAN]

VARIABLES
    status,      \* ready, running, parked or terminal
    commands,    \* commands and restarts so far
    req,         \* where each request is
    spawned,     \* the driver each request spawned and has not recorded
    pc,          \* where each driver is
    fresh,       \* the failed driver's read of the run is still current
    owner,       \* driver-owner.json
    launchLock,  \* holder of .launch.lock
    driverLock   \* holder of .driver.lock

vars == <<status, commands, req, spawned, pc, fresh, owner, launchLock, driverLock>>

Runnable == status \in {"ready", "running"}
Alive(d) == pc[d] \notin {"none", "gone"}
Working == {"loop", "stepping"}
Holding == {"entered", "owning", "loop", "stepping", "parking", "retiring", "failing",
            "publishing", "leaving"}
Record(d) == [pid |-> d, retiring |-> FALSE]
Go(d, place) == pc' = [pc EXCEPT ![d] = place]
At(c, place) == req' = [req EXCEPT ![c] = place]
-----------------------------------------------------------------------------
(* The operator.  A command commits first and takes the launch lock later. *)

Command(to) ==
    /\ commands < MaxCommands
    /\ commands' = commands + 1
    /\ status' = to
    /\ fresh' = FALSE
    /\ UNCHANGED <<spawned, pc, owner, launchLock, driverLock>>

\* A ready run is paused at once; a running one only parks at the end of its step.
Pause(c) ==
    /\ "pause" \in Commands /\ req[c] = "idle" /\ status = "ready"
    /\ Command("parked") /\ UNCHANGED req

Cancel(c) ==
    /\ "cancel" \in Commands /\ req[c] = "idle" /\ status \in {"ready", "parked"}
    /\ Command("terminal") /\ UNCHANGED req

\* resume, approve or reconcile makes a parked run ready and starts a driver.
Resume(c) ==
    /\ req[c] = "idle" /\ status = "parked"
    /\ Command("ready") /\ At(c, "launch")
-----------------------------------------------------------------------------
(* start_driver *)

Launch(c) ==
    /\ req[c] = "launch" /\ launchLock = None
    /\ launchLock' = c
    /\ At(c, "locked")
    /\ UNCHANGED <<status, commands, spawned, pc, fresh, owner, driverLock>>

LaunchTimeout(c) ==
    /\ "timeout" \in Faults /\ req[c] = "launch" /\ launchLock # None
    /\ At(c, "idle")
    /\ UNCHANGED <<status, commands, spawned, pc, fresh, owner, launchLock, driverLock>>

\* The status is read again under the lock.
Reread(c) ==
    /\ req[c] = "locked"
    /\ IF Runnable THEN At(c, "owner") /\ UNCHANGED launchLock
                   ELSE At(c, "idle") /\ launchLock' = None
    /\ UNCHANGED <<status, commands, spawned, pc, fresh, owner, driverLock>>

\* The recorded owner is alive and has not said that it is about to leave.
Owned == owner # None /\ ~owner.retiring /\ Alive(owner.pid)

Replay(c) ==
    /\ req[c] = "owner" /\ Owned
    /\ At(c, "idle")
    /\ launchLock' = None
    /\ UNCHANGED <<status, commands, spawned, pc, fresh, owner, driverLock>>

Spawn(c) ==
    /\ req[c] = "owner" /\ ~Owned
    /\ \E d \in Drivers :
        /\ pc[d] = "none"
        /\ Go(d, "waiting")
        /\ spawned' = [spawned EXCEPT ![c] = d]
    /\ At(c, "record")
    /\ UNCHANGED <<status, commands, fresh, owner, launchLock, driverLock>>

WriteOwner(c) ==
    /\ req[c] = "record"
    /\ owner' = Record(spawned[c])
    /\ spawned' = [spawned EXCEPT ![c] = None]
    /\ At(c, "idle")
    /\ launchLock' = None
    /\ UNCHANGED <<status, commands, pc, fresh, driverLock>>

\* The front end dies, and with it its requests and their locks; the next one runs
\* recover, which calls start_driver for a run that is ready or running.
Restart(c) ==
    /\ "restart" \in Faults /\ commands < MaxCommands
    /\ commands' = commands + 1
    /\ req' = [r \in Requests |-> IF r = c THEN "recover" ELSE "idle"]
    /\ spawned' = [r \in Requests |-> None]
    /\ launchLock' = IF launchLock \in Requests THEN None ELSE launchLock
    /\ UNCHANGED <<status, pc, fresh, owner, driverLock>>

Recover(c) ==
    /\ req[c] = "recover"
    /\ At(c, IF Runnable THEN "launch" ELSE "idle")
    /\ UNCHANGED <<status, commands, spawned, pc, fresh, owner, launchLock, driverLock>>
-----------------------------------------------------------------------------
(* drive and drive_impl *)

Enter(d) ==
    /\ pc[d] = "waiting" /\ driverLock = None
    /\ driverLock' = d
    /\ Go(d, "entered")
    /\ UNCHANGED <<status, commands, req, spawned, fresh, owner, launchLock>>

\* A contender leaves without touching the run.
EnterTimeout(d) ==
    /\ "timeout" \in Faults /\ pc[d] = "waiting" /\ driverLock # None
    /\ Go(d, "exiting")
    /\ UNCHANGED <<status, commands, req, spawned, fresh, owner, launchLock, driverLock>>

\* A run that is not runnable any more is left alone, and so is the owner file.
Look(d) ==
    /\ pc[d] = "entered"
    /\ Go(d, IF Runnable THEN "owning" ELSE "leaving")
    /\ UNCHANGED <<status, commands, req, spawned, fresh, owner, launchLock, driverLock>>

\* Mutant: the driver relies on the record its launcher writes.
OwnUnrecorded(d) ==
    /\ pc[d] = "owning" /\ launchLock = None
    /\ Go(d, "loop")
    /\ UNCHANGED <<status, commands, req, spawned, fresh, owner, launchLock, driverLock>>

\* The driver records itself under the launch lock.
Own(d) ==
    /\ pc[d] = "owning" /\ launchLock = None
    /\ owner' = Record(d)
    /\ Go(d, "loop")
    /\ UNCHANGED <<status, commands, req, spawned, fresh, launchLock, driverLock>>

\* controller.step: a runnable run is dispatched, any other returned as it is.
StepBegin(d) ==
    /\ pc[d] = "loop"
    /\ IF Runnable THEN status' = "running" /\ Go(d, "stepping")
                   ELSE Go(d, "parking") /\ UNCHANGED status
    /\ UNCHANGED <<commands, req, spawned, fresh, owner, launchLock, driverLock>>

StepEnd(d) ==
    /\ pc[d] = "stepping"
    /\ \E to \in {"ready", "parked", "terminal"} :
        /\ status' = to
        /\ Go(d, IF to = "ready" THEN "loop" ELSE "parking")
    /\ UNCHANGED <<commands, req, spawned, fresh, owner, launchLock, driverLock>>

\* A driver about to retire reads the run again under the launch lock.
Recheck(d) ==
    /\ pc[d] = "parking" /\ launchLock = None
    /\ IF status = "ready" THEN Go(d, "loop") /\ UNCHANGED launchLock
                           ELSE Go(d, "retiring") /\ launchLock' = d
    /\ UNCHANGED <<status, commands, req, spawned, fresh, owner, driverLock>>

Retire(d) ==
    /\ pc[d] = "retiring"
    /\ owner' = [pid |-> d, retiring |-> TRUE]
    /\ launchLock' = None
    /\ Go(d, "leaving")
    /\ UNCHANGED <<status, commands, req, spawned, fresh, driverLock>>

\* An exception in drive_impl: a step that throws, the step budget, or a launch lock
\* that was not free in time.
Throw(d) ==
    /\ \/ "failure" \in Faults /\ pc[d] \in {"owning", "loop", "stepping"}
       \/ "timeout" \in Faults /\ pc[d] \in {"owning", "parking"} /\ launchLock # None
    /\ Go(d, "failing")
    /\ UNCHANGED <<status, commands, req, spawned, fresh, owner, launchLock, driverLock>>

\* The handler in drive reads the run under the controller lock, which an approval may
\* hold for too long, and leaves if the run is not runnable.
FailureRead(d) ==
    /\ pc[d] = "failing"
    /\ \/ Runnable /\ Go(d, "publishing") /\ fresh' = TRUE
       \/ (~Runnable \/ "timeout" \in Faults) /\ Go(d, "leaving") /\ UNCHANGED fresh
    /\ UNCHANGED <<status, commands, req, spawned, owner, launchLock, driverLock>>

\* Mutant: the failure overwrites whatever the operator has committed since the read.
PublishBlindly(d) ==
    /\ pc[d] = "publishing"
    /\ status' \in {"parked", "terminal"}
    /\ Go(d, "leaving")
    /\ UNCHANGED <<commands, req, spawned, fresh, owner, launchLock, driverLock>>

\* The failure is published by compare-and-swap; a conflict is swallowed.
Publish(d) ==
    /\ pc[d] = "publishing"
    /\ IF fresh THEN status' \in {"parked", "terminal"} ELSE UNCHANGED status
    /\ Go(d, "leaving")
    /\ UNCHANGED <<commands, req, spawned, fresh, owner, launchLock, driverLock>>

\* drive returns and its lock is released; the process ends a little later.
Release(d) ==
    /\ pc[d] = "leaving"
    /\ driverLock' = None
    /\ Go(d, "exiting")
    /\ UNCHANGED <<status, commands, req, spawned, fresh, owner, launchLock>>

Exit(d) ==
    /\ pc[d] = "exiting"
    /\ Go(d, "gone")
    /\ UNCHANGED <<status, commands, req, spawned, fresh, owner, launchLock, driverLock>>

\* A driver is killed; the system releases its locks.
Crash(d) ==
    /\ "crash" \in Faults /\ Alive(d)
    /\ Go(d, "gone")
    /\ launchLock' = IF launchLock = d THEN None ELSE launchLock
    /\ driverLock' = IF driverLock = d THEN None ELSE driverLock
    /\ UNCHANGED <<status, commands, req, spawned, fresh, owner>>
-----------------------------------------------------------------------------
\* create has committed the run, and starts its driver.
Init ==
    /\ status = "ready"
    /\ commands = 0
    /\ \E c \in Requests : req = [r \in Requests |-> IF r = c THEN "launch" ELSE "idle"]
    /\ spawned = [r \in Requests |-> None]
    /\ pc = [d \in Drivers |-> "none"]
    /\ fresh = FALSE
    /\ owner = None
    /\ launchLock = None
    /\ driverLock = None

\* What a request does once it has committed its command, until it is answered.
Serve(c) == Launch(c) \/ Reread(c) \/ Replay(c) \/ Spawn(c) \/ WriteOwner(c) \/ Recover(c)

\* What a driver that is not disturbed does.
Drive(d) ==
    \/ Enter(d) \/ Look(d) \/ Own(d) \/ StepBegin(d) \/ StepEnd(d) \/ Recheck(d) \/ Retire(d)
    \/ FailureRead(d) \/ Publish(d) \/ Release(d) \/ Exit(d)

Next ==
    \/ \E c \in Requests :
        Pause(c) \/ Cancel(c) \/ Resume(c) \/ Serve(c) \/ LaunchTimeout(c) \/ Restart(c)
    \/ \E d \in Drivers : Drive(d) \/ EnterTimeout(d) \/ Throw(d) \/ Crash(d)

Spec == Init /\ [][Next]_vars

\* Threads and processes that can run do run.  Nothing is assumed of the operator,
\* and nothing makes a fault happen.
FairSpec ==
    /\ Spec
    /\ \A c \in Requests : WF_vars(Serve(c))
    /\ \A d \in Drivers : WF_vars(Drive(d))
------------------------------------------------------------------------------
\* Types, and the locks: each is held by exactly the request or driver that is between
\* taking and releasing it, also after a crash or a restart.
TypeOK ==
    /\ status \in {"ready", "running", "parked", "terminal"}
    /\ commands \in 0 .. MaxCommands
    /\ req \in [Requests -> {"idle", "launch", "locked", "owner", "record", "recover"}]
    /\ spawned \in [Requests -> Drivers \cup {None}]
    /\ pc \in [Drivers -> {"none", "waiting", "entered", "owning", "loop", "stepping", "parking",
                           "retiring", "failing", "publishing", "leaving", "exiting", "gone"}]
    /\ fresh \in BOOLEAN
    /\ owner \in [pid : Drivers, retiring : BOOLEAN] \cup {None}
    /\ launchLock \in Requests \cup Drivers \cup {None}
    /\ driverLock \in Drivers \cup {None}
    /\ \A c \in Requests : launchLock = c <=> req[c] \in {"locked", "owner", "record"}
    /\ \A d \in Drivers : launchLock = d <=> pc[d] = "retiring"
    /\ \A d \in Drivers : driverLock = d <=> pc[d] \in Holding

\* A driver that dispatches steps is the recorded owner and not retiring, whatever
\* crashed between spawning a driver and recording it: start_driver answers with it
\* and spawns no second one.
WorkerOwned ==
    \A d \in Drivers : pc[d] \in Working => owner = Record(d)

\* A decision of the operator stands: a terminal run stays terminal and a parked one is
\* left only by a command, although a failing driver publishes what it made of an
\* earlier read of the run.
DecisionsStand ==
    [][/\ status = "terminal" => status' = "terminal"
       /\ status = "parked" /\ status' # "parked" => commands' = commands + 1]_vars

\* A run that is ready is taken up by a driver, or leaves that state: the operator who
\* resumed or approved it need not ask again.
Driven == status = "ready" ~> (status # "ready" \/ \E d \in Drivers : pc[d] \in Working)
=============================================================================
