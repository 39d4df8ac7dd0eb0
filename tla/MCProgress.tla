------------------------------ MODULE MCProgress ------------------------------
(*****************************************************************************)
(* What must happen in the end, small: every component that waits for        *)
(* something, with the byte budget of ByteBudget. They share no state: one   *)
(* moves while the others have not begun, and every state of each is         *)
(* reached. The words of the budget have three bits.                         *)
(*****************************************************************************)
EXTENDS ByteBudget, AsyncCore, HttpFrontend, TLC
CONSTANTS t1, t2, none
VARIABLES part,    \* the component that moves
          queueSlot, queueQueue, queueAhead, head, queueLock, gate, plan, offset, aged, queuePc,
          file, claimPc, attempt,
          status, commands, req, spawned, driverPc, driverFresh, driverOwner,
          launchLock, driverLock, disturbed,
          docker, launch, rec, lifeOwner, marker, beat, lifeLock, proc, work, view,
          job, pruneDisk, mirror, expired, usage, meter, pass, pruneFaults,
          next, pumpQueue, stalled, logClosing, segment, present, shifting, written,
          performed, broken, pump,
          selected, desired, journal, mode, named, request, front, durable, frontendSup,
          settled, trouble, frontendCrashes, requests,
          runAt, processSlot, deferred, held, child, piped, signal, forced, exit,
          runCancelled, reaper,
          call, ends, usageQueue, resident, enqueued, dropped, failures, batch, taken,
          usagePending, usageFiles, shift, usageLost, usageStopping, writer,
          backStarted, stop, joined, backAt, action, note,
          now, execution, store, probe, healthDisk, logged, sampled, stored, observed,
          callAt, pool, running, leased, callCancelled, outcome, callDraining,
          shellFiles, parent, shellWorker, candidate, command, shellStarted, wanted,
          shellStopped, heard, answer,
          stack, sequence, wireActive, replies, channel, wirePending, paused, wireFresh,
          wireQueue, wireDraining, processed, acked, connected, finished,
          proxyConn, proxyLive, proxyBytes, forwarded, refusals,
          webPc, scan, webPending, webActive, item, answers, cool, total, exhausted,
          transferOver,
          client, kind, brokerOpen, brokerCancelled, told, got, result, brokerConn,
          inbox, reply, brokerWorker, watching, brokerToken, made, brokerLate,
          brokerDeaths, effects,
          companionSup, pos, step, ready, entry, health, sideLive, sick, record,
          companionCrashes, sideFaults, sideLost

\* Light work beside heavy work of weight two.
WorkKinds == ("b1" :> "background") @@ ("i1" :> "interactive") @@ ("i2" :> "interactive")
WorkClasses == ("b1" :> "heavy") @@ ("i1" :> "light") @@ ("i2" :> "light")
Twos == ("heavy" :> 2) @@ ("io-heavy" :> 2)

\* A call of each kind; one place in each pool.
Tools == ("a" :> "execute") @@ ("b" :> "wsl") @@ ("d" :> "files")
Rooms == [controls |-> 1, commands |-> 1, files |-> 1]

Queues == INSTANCE Scheduler WITH
    Waiters <- {"b1", "i1", "i2"}, Kind <- WorkKinds, Class <- WorkClasses, Total <- 3,
    Reserved <- 1, Watch <- 1, Capacity <- Twos, Weight <- Twos, Pressures <- {FALSE},
    Faults <- {}, None <- none, slot <- queueSlot, queue <- queueQueue,
    ahead <- queueAhead, lock <- queueLock, pc <- queuePc
Claims == INSTANCE SlotClaims WITH
    Procs <- {"p1", "p2", "p3"}, Faults <- {"crash", "write"}, None <- none,
    pc <- claimPc
Driving == INSTANCE MCRunLaunch WITH
    Requests <- {"c1", "c2"}, Drivers <- {"d1", "d2", "d3"},
    Commands <- {"pause", "cancel"}, Faults <- {}, MaxCommands <- 2, None <- none,
    pc <- driverPc, fresh <- driverFresh, owner <- driverOwner
Life == INSTANCE JobLife WITH
    Procs <- {"p1"}, Launched <- "p1", NoProc <- "none", Readers <- {"r1"},
    jobOwner <- lifeOwner, lock <- lifeLock
\* What this run leaves out of the module is none.
Upkeep == INSTANCE JobMaintenance WITH
    Jobs <- {1}, PageSize <- 1, MaxSize <- 1, MaxBytes <- 2, MaxTerminal <- 1,
    MaxFaults <- 1, disk <- pruneDisk, faults <- pruneFaults,
    Ids <- none, Start <- none, Batch <- none, Nothing <- none, born <- none,
    folders <- none, ids <- none, cursor <- none, cycle <- none, batch <- none,
    visited <- none, found <- none, evicting <- none, MaxJobs <- none, Sizes <- none,
    Times <- none, ByteLimits <- none, JobLimits <- none, sampled <- none,
    limits <- none
Record == INSTANCE Telemetry WITH
    Produced <- 7, Capacity <- 2, Segment <- 2, PumpRotations <- 2,
    Invocations <- {"i1", "i2"}, Depth <- 3, BatchLimit <- 2, Charge <- 2, Budget <- 7,
    MaxFile <- 3, UsageRotations <- 2, MaxFailures <- 1, Tasks <- {"t1", "t2"},
    Once <- {"t2"}, FreshScheduler <- 2, FreshStore <- 3, Cooldown <- 2, MaxTime <- 3,
    MinimumFree <- 2, WarningFree <- 3, Sizes <- {1, 3, 61}, Never <- none,
    closing <- logClosing, pending <- usagePending, files <- usageFiles,
    lost <- usageLost, stopping <- usageStopping, started <- backStarted, at <- backAt,
    disk <- healthDisk
Keeper == INSTANCE Supervision WITH
    Versions <- {"v1", "v2"}, First <- "v1", Launches <- 1 .. 6, MaxRequests <- 1,
    MaxTrouble <- 2, FrontendMaxCrashes <- 0, None <- none, Count <- 2, Required <- {1},
    Slow <- {}, Processes <- 1 .. 5, CompanionMaxCrashes <- 1, MaxFaults <- 1,
    live <- sideLive, faults <- sideFaults, lost <- sideLost
Running == INSTANCE Commands WITH
    RunCalls <- {"c1", "c2"}, Slots <- {1}, None <- none, ToolCalls <- {"a", "b", "d"},
    Tool <- Tools, Room <- Rooms, Leases <- 1, Candidates <- 2, slot <- processSlot,
    draining <- callDraining, files <- shellFiles, worker <- shellWorker,
    started <- shellStarted, stopped <- shellStopped
Net == INSTANCE BrowserNetwork WITH
    Requests <- {"a", "b", "c"}, MaxCommands <- 2, BatchLimit <- 2, DrainLimit <- 2,
    QueueLimit <- 2, Connections <- {"a", "b", "c"}, ConnectionLimit <- 2,
    ByteLimit <- 2, active <- wireActive, pending <- wirePending, fresh <- wireFresh,
    intercepted <- wireQueue, draining <- wireDraining, conn <- proxyConn, live <- proxyLive,
    bytes <- proxyBytes
\* What this run leaves out of the module is none.
Web == INSTANCE Research WITH
    Requests <- {"r1", "r2"}, Origins <- {"a", "b"},
    Home <- [x \in {"r1", "r2"} |-> "a"], Concurrency <- 2, PerOrigin <- 1,
    MaxBytes <- 2, MaxBody <- 2, MaxRedirects <- 0, pc <- webPc, pending <- webPending,
    active <- webActive,
    Identity <- none, Allowed <- none, Targets <- none, BatchLimit <- none,
    MaxCandidates <- none, MaxRecords <- none, Contents <- none, MaxOffers <- none,
    at <- none, then <- none, phase <- none, stop <- none, cand <- none, rec <- none,
    position <- none, batch <- none, initial <- none, target <- none, sources <- none,
    excluded <- none, studyOver <- none, spent <- none, offers <- none,
    collected <- none, disk <- none, Processes <- none, CacheUrls <- none,
    Versions <- none, Quota <- none, Ages <- none, Transfer <- none, MaxTime <- none,
    MaxCalls <- none, clock <- none, server <- none, cache <- none, lock <- none,
    proc <- none, calls <- none, fresh <- none
\* What this run leaves out of the module is none.
Screen == INSTANCE Desktop WITH
    Calls <- {"c1"}, BrokerMaxDeaths <- 1, open <- brokerOpen,
    cancelled <- brokerCancelled, conn <- brokerConn, worker <- brokerWorker,
    token <- brokerToken, late <- brokerLate,
    Processes <- none, Windows <- none, Modifiers <- none, Denied <- none,
    Scripts <- none, MaxObservations <- none, MaxCalls <- none, MaxChanges <- none,
    InputMaxDeaths <- none, obs <- none, act <- none, lease <- none, down <- none,
    look <- none, front <- none, issued <- none, calls <- none, changes <- none,
    inputDeaths <- none, used <- none, latest <- none, stuck <- none

queueVars == <<queueSlot, queueQueue, queueAhead, head, queueLock, gate, plan, offset, aged, queuePc>>
claimVars == <<file, claimPc, attempt>>
driverVars == <<status, commands, req, spawned, driverPc, driverFresh, driverOwner,
                launchLock, driverLock, disturbed>>
lifeVars == <<docker, launch, rec, lifeOwner, marker, beat, lifeLock, proc, work, view>>
pruneVars == <<job, pruneDisk, mirror, expired, usage, meter, pass, pruneFaults>>
logVars == <<next, pumpQueue, stalled, logClosing, segment, present, shifting, written,
             performed, broken, pump>>
superVars == <<selected, desired, journal, mode, named, request, front, durable,
               frontendSup, settled, trouble, frontendCrashes, requests>>
processVars == <<runAt, processSlot, deferred, held, child, piped, signal, forced, exit,
                 runCancelled, reaper>>
usageVars == <<call, ends, usageQueue, resident, enqueued, dropped, failures, batch,
               taken, usagePending, usageFiles, shift, usageLost, usageStopping, writer>>
backVars == <<backStarted, stop, joined, backAt, action, note>>
healthVars == <<now, execution, store, probe, healthDisk, logged, sampled, stored,
                observed>>
callVars == <<callAt, pool, running, leased, callCancelled, outcome, callDraining>>
shellVars == <<shellFiles, parent, shellWorker, candidate, command, shellStarted,
               wanted, shellStopped, heard, answer>>
wireVars == <<stack, sequence, wireActive, replies, channel, wirePending, paused,
              wireFresh, wireQueue, wireDraining, processed, acked, connected, finished>>
proxyVars == <<proxyConn, proxyLive, proxyBytes, forwarded, refusals>>
webVars == <<webPc, scan, webPending, webActive, item, answers, cool, total, exhausted,
             transferOver>>
brokerVars == <<client, kind, brokerOpen, brokerCancelled, told, got, result,
                brokerConn, inbox, reply, brokerWorker, watching, brokerToken, made,
                brokerLate, brokerDeaths, effects>>
sideVars == <<companionSup, pos, step, ready, entry, health, sideLive, sick, record,
              companionCrashes, sideFaults, sideLost>>

Parts == {"budget", "queue", "claim", "driver", "life", "prune", "log", "cancel",
          "pool", "session", "server", "super", "process", "usage", "back", "health",
          "call", "shell", "wire", "proxy", "web", "broker", "side"}

ProgressInit ==
    /\ part \in Parts
    /\ Init
    /\ Queues!Init
    /\ Claims!Init
    /\ Driving!LaunchInit /\ (part # "driver" => req["c1"] = "launch")
    /\ Life!LifeInit /\ (part # "life" => docker)
    /\ Upkeep!RetentionInit
    /\ Record!PumpInit
    /\ TokenInit
    /\ WorkersInit
    /\ SessionInit
    /\ ServerInit
    /\ Keeper!FrontendInit
    /\ Running!RunInit
    /\ Record!UsageInit
    /\ Record!TaskInit
    /\ Record!MonitorInit
    /\ Running!CallInit
    /\ Running!ShellInit
    /\ Net!WireInit
    /\ Net!ProxyInit
    /\ Web!TransferInit
    /\ Screen!BrokerInit
    /\ Keeper!CompanionInit

\* Every component but the one that moves stands still.
Still(moving) ==
    /\ UNCHANGED part
    /\ moving # "budget" => UNCHANGED vars
    /\ moving # "queue" => UNCHANGED queueVars
    /\ moving # "claim" => UNCHANGED claimVars
    /\ moving # "driver" => UNCHANGED driverVars
    /\ moving # "life" => UNCHANGED lifeVars
    /\ moving # "prune" => UNCHANGED pruneVars
    /\ moving # "log" => UNCHANGED logVars
    /\ moving # "cancel" => UNCHANGED cancelVars
    /\ moving # "pool" => UNCHANGED workersVars
    /\ moving # "session" => UNCHANGED sessionVars
    /\ moving # "server" => UNCHANGED serverVars
    /\ moving # "super" => UNCHANGED superVars
    /\ moving # "process" => UNCHANGED processVars
    /\ moving # "usage" => UNCHANGED usageVars
    /\ moving # "back" => UNCHANGED backVars
    /\ moving # "health" => UNCHANGED healthVars
    /\ moving # "call" => UNCHANGED callVars
    /\ moving # "shell" => UNCHANGED shellVars
    /\ moving # "wire" => UNCHANGED wireVars
    /\ moving # "proxy" => UNCHANGED proxyVars
    /\ moving # "web" => UNCHANGED webVars
    /\ moving # "broker" => UNCHANGED brokerVars
    /\ moving # "side" => UNCHANGED sideVars

ProgressNext ==
    \/ part = "budget" /\ Next /\ Still("budget")
    \/ part = "queue" /\ Queues!Next /\ Still("queue")
    \/ part = "claim" /\ Claims!Next /\ Still("claim")
    \/ part = "driver" /\ Driving!LaunchNext /\ Still("driver")
    \/ part = "life" /\ Life!LifeNext /\ Still("life")
    \/ part = "prune" /\ Upkeep!RetentionNext /\ Still("prune")
    \/ part = "log" /\ Record!PumpNext /\ Still("log")
    \/ part = "cancel" /\ TokenNext /\ Still("cancel")
    \/ part = "pool" /\ WorkersNext /\ Still("pool")
    \/ part = "session" /\ SessionNext /\ Still("session")
    \/ part = "server" /\ ServerNext /\ Still("server")
    \/ part = "super" /\ Keeper!FrontendNext /\ Still("super")
    \/ part = "process" /\ Running!RunNext /\ Still("process")
    \/ part = "usage" /\ Record!UsageNext /\ Still("usage")
    \/ part = "back" /\ Record!TaskNext /\ Still("back")
    \/ part = "health" /\ Record!MonitorNext /\ Still("health")
    \/ part = "call" /\ Running!CallNext /\ Still("call")
    \/ part = "shell" /\ Running!ShellNext /\ Still("shell")
    \/ part = "wire" /\ Net!WireNext /\ Still("wire")
    \/ part = "proxy" /\ Net!ProxyNext /\ Still("proxy")
    \/ part = "web" /\ Web!TransferNext /\ Still("web")
    \/ part = "broker" /\ Screen!BrokerNext /\ Still("broker")
    \/ part = "side" /\ Keeper!CompanionNext /\ Still("side")

allVars == <<part, vars, queueVars, claimVars, driverVars, lifeVars, pruneVars, logVars,
                cancelVars, workersVars, sessionVars, serverVars, superVars, processVars,
                usageVars, backVars, healthVars, callVars, shellVars, wireVars,
                proxyVars, webVars, brokerVars, sideVars>>

ProgressSpec == ProgressInit /\ [][ProgressNext]_allVars

\* What each component is scheduled to do, while it is the one that moves.  Its progress is
\* stated under this fairness, and needs none of the others.
queueFair ==
    /\ \A w \in {"b1", "i1", "i2"} : WF_queueVars(part = "queue" /\ Queues!Step(w))
    /\ \A w \in {"b1", "i1", "i2"} : WF_queueVars(part = "queue" /\ Queues!Age(w))
claimFair ==
    /\ WF_claimVars(part = "claim" /\ Claims!Age)
    /\ \A p \in {"p1", "p2", "p3"} : WF_claimVars(part = "claim" /\ Claims!Step(p))
driverFair ==
    /\ \A c \in {"c1", "c2"} : WF_driverVars(part = "driver" /\ Driving!Serve(c) /\ UNCHANGED disturbed)
    /\ \A d \in {"d1", "d2", "d3"} : WF_driverVars(part = "driver" /\ Driving!Drive(d) /\ UNCHANGED disturbed)
lifeFair ==
    /\ WF_lifeVars(part = "life" /\ Life!RunnerStep("p1"))
    /\ WF_lifeVars(part = "life" /\ Life!SpawnRunner)
    /\ WF_lifeVars(part = "life" /\ Life!ReaderStep("r1"))
    /\ WF_lifeVars(part = "life" /\ Life!LookAt("r1", FALSE))
    /\ SF_lifeVars(part = "life" /\ Life!InterruptOrphan("r1"))
pruneFair ==
    /\ WF_pruneVars(part = "prune" /\ Upkeep!Begin(FALSE))
    /\ WF_pruneVars(part = "prune" /\ Upkeep!Intend)
    /\ WF_pruneVars(part = "prune" /\ Upkeep!Inspect)
    /\ WF_pruneVars(part = "prune" /\ Upkeep!Commit)
logFair == WF_logVars(part = "log" /\ Record!Worker)
cancelFair ==
    /\ \A s \in {"s1", "w"} : WF_cancelVars(part = "cancel" /\ SubStep(s))
    /\ \A h \in Actors : WF_cancelVars(part = "cancel" /\ Notifying(h))
    /\ WF_cancelVars(part = "cancel" /\ TokenWaiting)
poolFair ==
    /\ \A w \in {1, 2} : WF_workersVars(part = "pool" /\ WorkerStep(w))
    /\ \A t \in {"a", "b"} : WF_workersVars(part = "pool" /\ Resume(t))
sessionFair ==
    /\ WF_sessionVars(part = "session" /\ SessionStep)
    /\ WF_sessionVars(part = "session" /\ ToolEnds)
    /\ WF_sessionVars(part = "session" /\ AheadStops)
serverFair ==
    /\ WF_serverVars(part = "server" /\ AcceptorEnds)
    /\ WF_serverVars(part = "server" /\ StopHandler)
    /\ \A c \in {"c1", "c2"} : WF_serverVars(part = "server" /\ Internal(c))
superFair ==
    /\ WF_superVars(part = "super" /\ Keeper!Steps)
    /\ WF_superVars(part = "super" /\ Keeper!DurableEnds)
    /\ \A g \in 1 .. 6 : WF_superVars(part = "super" /\ Keeper!EndWork(g))
    /\ \A g \in 1 .. 6 : WF_superVars(part = "super" /\ Keeper!Refresh(g))
processFair ==
    /\ WF_processVars(part = "process" /\ Running!Sweep)
    /\ \A c \in {"c1", "c2"} : WF_processVars(part = "process" /\ Running!Reserve(c))
    /\ \A c \in {"c1", "c2"} : WF_processVars(part = "process" /\ Running!LaunchChild(c))
    /\ \A c \in {"c1", "c2"} : WF_processVars(part = "process" /\ Running!WaitPid(c))
    /\ \A c \in {"c1", "c2"} : WF_processVars(part = "process" /\ Running!Force(c))
    /\ \A c \in {"c1", "c2"} : WF_processVars(part = "process" /\ Running!Kill(c))
    /\ \A c \in {"c1", "c2"} : WF_processVars(part = "process" /\ Running!Leave(c))
    /\ \A c \in {"c1", "c2"} : WF_processVars(part = "process" /\ Running!HandOver(c))
    /\ \A c \in {"c1", "c2"} : WF_processVars(part = "process" /\ signal[c] = "kill" /\ Running!Exits(c))
usageFair == WF_usageVars(part = "usage" /\ Record!WriterStep)
backFair ==
    /\ WF_backVars(part = "back" /\ Record!Join)
    /\ \A t \in {"t1", "t2"} : WF_backVars(part = "back" /\ Record!Attempt(t))
    /\ \A t \in {"t1", "t2"} : WF_backVars(part = "back" /\ Record!ActionEnds(t))
    /\ \A t \in {"t1", "t2"} : WF_backVars(part = "back" /\ Record!Resume(t))
    /\ \A t \in {"t1", "t2"} : WF_backVars(part = "back" /\ Record!DelayCancelled(t))
callFair == \A c \in {"a", "b", "d"} : WF_callVars(part = "call" /\ Running!Step(c))
shellFair ==
    /\ WF_shellVars(part = "shell" /\ Running!ParentStep)
    /\ WF_shellVars(part = "shell" /\ \E why \in {"cancel", "time"} : Running!Wants(why))
wireFair ==
    /\ WF_wireVars(part = "wire" /\ Net!Receive)
    /\ WF_wireVars(part = "wire" /\ Net!Collect)
    /\ WF_wireVars(part = "wire" /\ \E c \in wirePending : Net!Answer(c))
proxyFair ==
    /\ \A c \in {"a", "b", "c"} : WF_proxyVars(part = "proxy" /\ Net!Overdue(c))
    /\ \A c \in {"a", "b", "c"} : WF_proxyVars(part = "proxy" /\ Net!Destroy(c))
    /\ \A c \in {"a", "b", "c"} : WF_proxyVars(part = "proxy" /\ ~proxyConn[c].open /\ Net!Proceed(c))
    /\ \A c \in {"a", "b", "c"}, p \in {"down", "up"} : WF_proxyVars(part = "proxy" /\ ~proxyConn[c].open /\ Net!Pump(c, p))
webFair ==
    /\ WF_webVars(part = "web" /\ Web!LoopStep)
    /\ WF_webVars(part = "web" /\ Web!TransferOverdue)
brokerFair ==
    /\ WF_brokerVars(part = "broker" /\ Screen!WorkerStep)
    /\ WF_brokerVars(part = "broker" /\ Screen!Watch)
    /\ WF_brokerVars(part = "broker" /\ Screen!Deadline)
sideFair ==
    /\ WF_sideVars(part = "side" /\ Keeper!Boot)
    /\ WF_sideVars(part = "side" /\ Keeper!TickStep)

\* What the service records of itself: the retained log is a suffix of the output and a
\* loss is reported; usage is written in order, within its budget, each end once; nothing
\* runs after the background tasks are joined and healthy ones go on; readiness rests on
\* fresh samples and every change of it is logged.
RecordsTrue ==
    /\ part = "log" => Record!RetainedIsSuffix /\ Record!LossIsReported
    /\ part = "usage" => Record!LogIsOrdered /\ Record!BudgetExact /\ Record!EndedOnce
    /\ part = "back" => Record!NothingAfterStop /\ Record!HealthyRuns
    /\ part = "health" =>
           /\ Record!ReadyIsFresh
           /\ Record!ChangesAreLogged
           /\ Record!PressureRule

\* Commands: one runs only under its lease and a call that is answered holds nothing; a
\* child has a slot until it is reaped, and nothing it started survives its call unseen;
\* the elevated command runs once, success means that it did, and its directory outlives
\* it.
CommandsSound ==
    /\ part = "call" => Running!CommandsAreLeased /\ Running!AnsweredHoldsNothing
    /\ part = "process" => Running!SlotsAccounted /\ Running!NothingSurvivesTheCall
    /\ part = "shell" =>
           /\ Running!CommandOnce
           /\ Running!SuccessIsReal
           /\ Running!DirectoryOutlivesWorker

\* Whoever calls gets an answer: a request ends, a tool call is answered, the elevated
\* call returns, a browser command completes, a transfer returns, the desktop worker
\* returns, an admitted coroutine is resumed, and stopping the server, the background
\* tasks and the usage log ends, as does the pump of a job's output.
CallsAnswered ==
    /\ (part = "session" /\ sessionFair => RequestEnds)
    /\ (part = "call" /\ callFair => Running!EveryCallAnswered)
    /\ (part = "shell" /\ shellFair => Running!CallReturns)
    /\ (part = "wire" /\ wireFair => Net!CallCompletes)
    /\ (part = "web" /\ webFair => Web!GetReturns)
    /\ (part = "broker" /\ brokerFair => Screen!WorkerReturns)
    /\ (part = "pool" /\ poolFair => AdmittedResumes)
    /\ (part = "server" /\ serverFair => StopEnds)
    /\ (part = "back" /\ backFair => Record!StopReturns)
    /\ (part = "usage" /\ usageFair => Record!StopDrains)
    /\ (part = "log" /\ logFair => Record!PumpEnds)

\* Whoever waits is served: background work is admitted, a stale claim is reclaimed, a
\* cancellation is delivered and wakes the sleeper, the pool's queue drains, a child's
\* slot and a proxy connection's place come back.
WaitersServed ==
    /\ (part = "queue" /\ queueFair => Queues!BackgroundAdmitted)
    /\ (part = "claim" /\ claimFair => Claims!StaleReclaimed)
    /\ (part = "cancel" /\ cancelFair => CancelDelivered)
    /\ (part = "cancel" /\ cancelFair => WaiterWoken)
    /\ (part = "pool" /\ poolFair => QueueDrains)
    /\ (part = "process" /\ processFair => Running!SlotsComeBack)
    /\ (part = "process" /\ processFair => Running!EveryChildReaped)
    /\ (part = "proxy" /\ proxyFair => Net!PlaceReturned)

\* What was begun is settled: a ready run is driven unless disturbed, a job reaches a
\* terminal status, an intended deletion completes, admission reopens after an update, a
\* sick companion is replaced, and a periodic task runs again.
WorkSettles ==
    /\ (part = "driver" /\ driverFair => Driving!DrivenUndisturbed)
    /\ (part = "life" /\ lifeFair => Life!JobSettles)
    /\ (part = "prune" /\ pruneFair => Upkeep!PruneCompletes)
    /\ (part = "super" /\ superFair => Keeper!AdmissionReopens)
    /\ (part = "side" /\ sideFair => Keeper!SickReplaced)
    /\ (part = "back" /\ backFair => Record!KeepsGoing)
===============================================================================
