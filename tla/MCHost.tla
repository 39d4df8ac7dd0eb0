-------------------------------- MODULE MCHost --------------------------------
(*****************************************************************************)
(* The processes of the host and what they are started from, small: the      *)
(* drivers of a run, the runner of a job, the supervisor with its frontends, *)
(* the installation of the native runtime, the offline bundle, the installer *)
(* and the use of the desktop. They share no state: one moves while the      *)
(* others have not begun, and every state of each is reached.                *)
(*****************************************************************************)
EXTENDS RunLaunch, JobLife, TLC
CONSTANTS c1, c2, d1, d2, d3, d4, none
VARIABLES part,    \* the component that moves
          selected, desired, journal, mode, named, request, superFront, durable,
          frontendSup, settled, trouble, frontendCrashes, requests,
          companionSup, pos, step, ready, entry, health, live, sick, record,
          companionCrashes, faults, lost,
          box, running, retired, doomed, copied, created, control,
          source, nativeRebuilt, dest, stage, temp, nativeHash, ins, started,
          pkg, bundleChanges, packing, took, payload, manifest, image, damaged, setup,
          scratch, input, installs, given,
          setupPc, options, plan, tools, repo, env, hasEnv, deps, candidate, setupHash,
          staged, server, runs, setupRebuilt, asked, torn,
          obs, act, lease, down, look, inputFront, issued, calls, inputChanges,
          inputDeaths, used, latest, stuck,
          client, kind, open, cancelled, told, got, result, conn, inbox, reply, worker,
          watching, token, made, late, brokerDeaths, effects

\* The installer's flags: a full run, one that only prepares, and a dry run.
InstallFlags == {[start |-> TRUE, dry |-> FALSE, packages |-> TRUE],
                 [start |-> FALSE, dry |-> FALSE, packages |-> FALSE],
                 [start |-> TRUE, dry |-> TRUE, packages |-> FALSE]}

\* An action with no keys, a timed one, one with a repeated key, and the denied chord.
InputScripts == {[timed |-> FALSE, keys |-> <<>>],
                 [timed |-> TRUE, keys |-> <<{"ALT"}, {"TAB"}>>],
                 [timed |-> FALSE, keys |-> <<{"A"}, {}, {"A"}>>],
                 [timed |-> FALSE, keys |-> <<{"ALT", "TAB"}>>]}

Keeper == INSTANCE Supervision WITH
    Versions <- {"v1", "v2"}, First <- "v1", Launches <- 1 .. 5, MaxRequests <- 1,
    MaxTrouble <- 2, FrontendMaxCrashes <- 1, None <- none, Count <- 2, Required <- {1},
    Slow <- {}, Processes <- 1 .. 5, CompanionMaxCrashes <- 1, MaxFaults <- 1,
    front <- superFront
Cycle == INSTANCE Lifecycle WITH
    MaxContainers <- 4, AutoStart <- TRUE
Install == INSTANCE Installers WITH
    Installers <- {"i1", "i2"}, NativeBuilds <- {1, 2}, Qualified <- {1},
    NativeMaxBuilds <- 2, Names <- <<"devbox-mcp", "build-manifest.json">>,
    Contents <- {1, 2, 3}, MaxPayload <- 3, MaxChanges <- 2, MaxInstalls <- 2,
    SetupBuilds <- {1, 2}, Cpp <- {1}, MaxRuns <- 2, SetupMaxBuilds <- 1,
    Flags <- InstallFlags, changes <- bundleChanges, pc <- setupPc
Screen == INSTANCE Desktop WITH
    Processes <- {"p1", "p2"}, Windows <- {"w1", "w2"}, Modifiers <- {"ALT"},
    Denied <- {{"ALT", "TAB"}}, Scripts <- InputScripts, MaxObservations <- 2,
    MaxCalls <- 3, MaxChanges <- 1, InputMaxDeaths <- 1, Calls <- {"c1", "c2"},
    BrokerMaxDeaths <- 0, front <- inputFront, changes <- inputChanges

superVars == <<selected, desired, journal, mode, named, request, superFront, durable,
               frontendSup, settled, trouble, frontendCrashes, requests>>
sideVars == <<companionSup, pos, step, ready, entry, health, live, sick, record,
              companionCrashes, faults, lost>>
cycleVars == <<box, running, retired, doomed, copied, created, control>>
nativeVars == <<source, nativeRebuilt, dest, stage, temp, nativeHash, ins, started>>
bundleVars == <<pkg, bundleChanges, packing, took, payload, manifest, image, damaged,
                setup, scratch, input, installs, given>>
setupVars == <<setupPc, options, plan, tools, repo, env, hasEnv, deps, candidate,
               setupHash, staged, server, runs, setupRebuilt, asked, torn>>
inputVars == <<obs, act, lease, down, look, inputFront, issued, calls, inputChanges,
               inputDeaths, used, latest, stuck>>
brokerVars == <<client, kind, open, cancelled, told, got, result, conn, inbox, reply,
                worker, watching, token, made, late, brokerDeaths, effects>>

Parts == {"driver", "life", "super", "side", "cycle", "native", "bundle", "setup",
          "input", "broker"}

HostInit ==
    /\ part \in Parts
    /\ Init /\ (part # "driver" => req[c1] = "launch")
    /\ LifeInit /\ (part # "life" => docker)
    /\ Keeper!FrontendInit
    /\ Keeper!CompanionInit
    /\ Cycle!Init
    /\ Install!NativeInit /\ (part # "native" => source = 1)
    /\ Install!BundleInit
    /\ Install!SetupInit /\ (part # "setup" => (tools /\ repo = "absent" /\ candidate = 1 /\ staged = 1))
    /\ Screen!InputInit /\ (part # "input" => inputFront = "w1")
    /\ Screen!BrokerInit

\* Every component but the one that moves stands still.
Still(moving) ==
    /\ UNCHANGED part
    /\ moving # "driver" => UNCHANGED vars
    /\ moving # "life" => UNCHANGED lifeVars
    /\ moving # "super" => UNCHANGED superVars
    /\ moving # "side" => UNCHANGED sideVars
    /\ moving # "cycle" => UNCHANGED cycleVars
    /\ moving # "native" => UNCHANGED nativeVars
    /\ moving # "bundle" => UNCHANGED bundleVars
    /\ moving # "setup" => UNCHANGED setupVars
    /\ moving # "input" => UNCHANGED inputVars
    /\ moving # "broker" => UNCHANGED brokerVars

HostNext ==
    \/ part = "driver" /\ Next /\ Still("driver")
    \/ part = "life" /\ LifeNext /\ Still("life")
    \/ part = "super" /\ Keeper!FrontendNext /\ Still("super")
    \/ part = "side" /\ Keeper!CompanionNext /\ Still("side")
    \/ part = "cycle" /\ Cycle!Next /\ Still("cycle")
    \/ part = "native" /\ Install!NativeNext /\ Still("native")
    \/ part = "bundle" /\ Install!BundleNext /\ Still("bundle")
    \/ part = "setup" /\ Install!SetupNext /\ Still("setup")
    \/ part = "input" /\ Screen!InputNext /\ Still("input")
    \/ part = "broker" /\ Screen!BrokerNext /\ Still("broker")

allVars == <<part, vars, lifeVars, superVars, sideVars, cycleVars, nativeVars, bundleVars,
                setupVars, inputVars, brokerVars>>

HostSpec == HostInit /\ [][HostNext]_allVars

\* Supervision: the selected version is settled by its journal whatever crashes, and a
\* frontend that serves is not interrupted by an update that fails; companions are
\* started in their order and each has one process.
ServiceKept ==
    /\ [](/\ part = "super" => Keeper!SelectionIsSettled
          /\ part = "side" => Keeper!OrderKept /\ Keeper!OneProcess)
    /\ Keeper!ServingNotInterrupted

\* Installation: the published runtime is the one that was verified, nothing is left
\* behind and a destination is not overwritten; what a bundle hands over is what its
\* manifest names; the guided installer runs what it planned, holds its requests until
\* the checkout is there, stages the runtime it was asked for, and a dry run changes
\* nothing; the containers of the runtime lifecycle are neither lost nor removed while
\* they serve.
InstalledAsVerified ==
    /\ [](/\ part = "native" => Install!PublishedIsVerified /\ Install!LeavesNothing
          /\ part = "bundle" =>
                 /\ Install!GivenAsHashed
                 /\ Install!WithinDeclared
                 /\ Install!ScratchRemoved
                 /\ Install!RoundTrip
          /\ part = "setup" =>
                 /\ Install!RequestsHold
                 /\ Install!StagedIsRuntime
                 /\ Install!ReadyWhenDone
                 /\ Install!PlanIsRun
          /\ part = "cycle" =>
                 /\ Cycle!TmpNotLost
                 /\ Cycle!FailureRestores
                 /\ Cycle!ServingNotDoomed)
    /\ Install!DestinationKept
    /\ Install!AuthHasUrl
    /\ Install!DryRunChangesNothing

\* The desktop: an action is decided on an image of the window it names that is fresh,
\* keys are released when nothing runs, a denied chord is never down, a plain error means
\* that nothing was entered; through the pipe a call is performed once, its reply is its
\* own, and a plain error is final.
DesktopSound ==
    /\ [](/\ part = "input" =>
                 /\ Screen!DecidedOnFreshImage
                 /\ Screen!ReleasedAtRest
                 /\ Screen!NoDeniedChord
                 /\ Screen!ObservationMatchesImage
          /\ part = "broker" => Screen!PerformedOnce /\ Screen!ReplyIsOwn)
    /\ Screen!PlainErrorMeansNoInput
    /\ Screen!PlainErrorIsFinal
    /\ Screen!ReplyNotDiscarded
===============================================================================
