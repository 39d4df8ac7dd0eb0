------------------------------ MODULE Installers ------------------------------
(*****************************************************************************)
(* Installation: init of the native runtime (management.cpp), the offline    *)
(* bundle (bundle.cpp) and the guided installer (setup.cpp, setup-tui). They *)
(* share no state.                                                           *)
(*****************************************************************************)
EXTENDS Naturals, Sequences, SequencesExt, FiniteSets, FiniteSetsExt

-------------------------------------------------------------------------------
(*****************************************************************************)
(* The native installation: the default route of devbox-setup (setup.cpp),   *)
(* which runs "manage init" of management.cpp. init prepares everything in a *)
(* private staging directory beside the destination and publishes it with    *)
(* one rename.                                                               *)
(*                                                                           *)
(* Installers run concurrently for one destination. The source binary may be *)
(* rebuilt while it is copied, the user may create the destination or put a  *)
(* file there, and an installer may die anywhere. A binary is its build,     *)
(* which also stands for its hash; the builds of Qualified pass the release  *)
(* qualification.                                                            *)
(*****************************************************************************)
CONSTANTS Installers, NativeBuilds, Qualified,
          NativeMaxBuilds \* how often the source is rebuilt

VARIABLES source,    \* the build at the --binary path
          nativeRebuilt, \* rebuilds so far
          dest,      \* the destination: of kind "absent", "empty", "user" (a user's file) or "installation"
          stage,     \* each installer's .devbox-init directory
          temp,      \* installers whose private environment directory exists
          nativeHash, \* the hash each installer took of the source
          ins,       \* where each installer is
          started    \* the builds "manage start" was run from

installVars == <<source, nativeRebuilt, dest, stage, temp, nativeHash, ins, started>>

NativeNone == 0
Directory(kind) == [kind |-> kind, binary |-> NativeNone, proven |-> FALSE, config |-> NativeNone]
NoStage == Directory("absent")
Vacant == dest.kind \in {"absent", "empty"}

NativeInit == /\ source \in NativeBuilds /\ nativeRebuilt = 0
              /\ dest = Directory("absent") /\ stage = [i \in Installers |-> NoStage]
              /\ temp = {} /\ nativeHash = [i \in Installers |-> NativeNone]
              /\ ins = [i \in Installers |-> "idle"] /\ started = {}

At(i, here, there) == ins[i] = here /\ ins' = [ins EXCEPT ![i] = there]

\* run: the operator's values go into a private temporary directory.
Prepare(i) == /\ At(i, "idle", "begin") /\ temp' = temp \union {i}
              /\ UNCHANGED <<source, nativeRebuilt, dest, stage, nativeHash, started>>

\* An error: the scope guards of init and of run remove what the installer made.
Fail(i) == /\ ins' = [ins EXCEPT ![i] = "failed"] /\ temp' = temp \ {i}
           /\ stage' = [stage EXCEPT ![i] = NoStage]

\* init: a new or empty destination; the staging directory and the configuration's values.
Begin(i) ==
    /\ ins[i] = "begin"
    /\ IF ~Vacant THEN Fail(i)
       ELSE /\ At(i, "begin", "hash") /\ stage' = [stage EXCEPT ![i].kind = "installation"] /\ UNCHANGED temp
    /\ UNCHANGED <<source, nativeRebuilt, dest, nativeHash, started>>
\* prepare_candidate: the hash of the source names the release's directory.
Hash(i) == /\ At(i, "hash", "copy") /\ nativeHash' = [nativeHash EXCEPT ![i] = source]
           /\ UNCHANGED <<source, nativeRebuilt, dest, stage, temp, started>>
\* A mistaken form of Copy: the copy is not hashed again.
CopyUnchecked(i) ==
    /\ At(i, "copy", "qualify") /\ stage' = [stage EXCEPT ![i].binary = source]
    /\ UNCHANGED <<source, nativeRebuilt, dest, temp, nativeHash, started>>
\* The copy must have the hash that was taken before it.
NativeCopy(i) ==
          /\ ins[i] = "copy"
          /\ IF source # nativeHash[i] THEN Fail(i)
             ELSE At(i, "copy", "qualify") /\ stage' = [stage EXCEPT ![i].binary = source] /\ UNCHANGED temp
          /\ UNCHANGED <<source, nativeRebuilt, dest, nativeHash, started>>
\* qualify_managed_binary works on the private copy; its verdict is written beside it.
Qualify(i) ==
    /\ ins[i] = "qualify"
    /\ IF stage[i].binary \notin Qualified THEN Fail(i)
       ELSE At(i, "qualify", "configure") /\ stage' = [stage EXCEPT ![i].proven = TRUE] /\ UNCHANGED temp
    /\ UNCHANGED <<source, nativeRebuilt, dest, nativeHash, started>>
\* The bundled files and the configuration, which names the release.
NativeConfigure(i) == /\ At(i, "configure", "clear") /\ stage' = [stage EXCEPT ![i].config = nativeHash[i]]
                      /\ UNCHANGED <<source, nativeRebuilt, dest, temp, nativeHash, started>>
\* A destination that exists by now must be empty, and is removed.
Clear(i) ==
    /\ ins[i] = "clear"
    /\ IF Vacant
       THEN At(i, "clear", "check") /\ dest' = Directory("absent") /\ UNCHANGED <<stage, temp>>
       ELSE Fail(i) /\ UNCHANGED dest
    /\ UNCHANGED <<source, nativeRebuilt, nativeHash, started>>
\* publish_managed_directory: nothing may be at the destination.
Check(i) ==
    /\ ins[i] = "check"
    /\ IF dest.kind = "absent" THEN At(i, "check", "rename") /\ UNCHANGED <<stage, temp>> ELSE Fail(i)
    /\ UNCHANGED <<source, nativeRebuilt, dest, nativeHash, started>>
\* The rename takes the place of an empty directory at most.
Rename(i) ==
    /\ ins[i] = "rename"
    /\ IF Vacant
       THEN /\ At(i, "rename", "start") /\ dest' = stage[i]
            /\ stage' = [stage EXCEPT ![i] = NoStage] /\ UNCHANGED temp
       ELSE Fail(i) /\ UNCHANGED dest
    /\ UNCHANGED <<source, nativeRebuilt, nativeHash, started>>
\* run: with --no-start the work is done; otherwise the installed binary is hashed and started.
NativeStart(i) ==
          /\ ins[i] = "start"
          /\ \/ At(i, "start", "done") /\ temp' = temp \ {i} /\ UNCHANGED <<stage, started>>
             \/ /\ dest.binary = dest.config /\ At(i, "start", "done") /\ temp' = temp \ {i}
                /\ started' = started \union {dest.binary} /\ UNCHANGED stage
             \/ Fail(i) /\ UNCHANGED started
          /\ UNCHANGED <<source, nativeRebuilt, dest, nativeHash>>

\* Any of these steps may fail, and the process may die at any of them.
Throws(i) == /\ ins[i] \in {"begin", "hash", "copy", "qualify", "configure", "clear", "check", "rename"} /\ Fail(i)
             /\ UNCHANGED <<source, nativeRebuilt, dest, nativeHash, started>>
NativeDie(i) == /\ ins[i] \notin {"idle", "done", "failed", "dead"} /\ ins' = [ins EXCEPT ![i] = "dead"]
                /\ UNCHANGED <<source, nativeRebuilt, dest, stage, temp, nativeHash, started>>

\* The source is rebuilt; the user makes the destination's directory or puts a file there.
NativeRebuild(b) == /\ b # source /\ nativeRebuilt < NativeMaxBuilds /\ source' = b /\ nativeRebuilt' = nativeRebuilt + 1
                    /\ UNCHANGED <<dest, stage, temp, nativeHash, ins, started>>
UserWrites == /\ \/ dest.kind = "absent" /\ dest' = Directory("empty")
                 \/ Vacant /\ dest' = Directory("user")
              /\ UNCHANGED <<source, nativeRebuilt, stage, temp, nativeHash, ins, started>>

NativeNext == \/ \E i \in Installers : \/ Prepare(i) \/ Begin(i) \/ Hash(i) \/ NativeCopy(i) \/ Qualify(i) \/ NativeConfigure(i)
                                       \/ Clear(i) \/ Check(i) \/ Rename(i) \/ NativeStart(i) \/ Throws(i) \/ NativeDie(i)
              \/ \E b \in NativeBuilds : NativeRebuild(b)
              \/ UserWrites

\* What is published at the destination is complete, and the binary it names is the one that
\* passed the qualification, although the source may change under the installer.
PublishedIsVerified == dest.kind = "installation" => /\ dest.proven /\ dest.binary \in Qualified
                                                     /\ dest.config = dest.binary
\* A user's file or an installation at the destination is never removed or replaced, neither
\* by the check of an installer that came before it nor by its rename.
DestinationKept == [][~Vacant => dest' = dest]_installVars
\* An installer that ends, well or not, leaves no staging directory and no copy of the
\* operator's values behind.
LeavesNothing == \A i \in Installers : ins[i] \in {"done", "failed"} => stage[i] = NoStage /\ i \notin temp

-------------------------------------------------------------------------------
(*****************************************************************************)
(* The self-contained offline installer: bundle.cpp packs a package's files  *)
(* behind the installer's own executable and extracts them again,            *)
(* offline_main.cpp runs the extraction and hands the files to init.         *)
(*                                                                           *)
(* A file is its content, stored as Size(c) cells that all carry c; a hash   *)
(* is the content or the cells it is taken of. The executable with its       *)
(* payload is a sequence: one stub cell, the payload's cells and a trailer   *)
(* that holds the payload's length. The package may change while it is       *)
(* packed, the finished file may be damaged on its way, and the extraction   *)
(* may fail or die anywhere.                                                 *)
(*****************************************************************************)
CONSTANTS Names,        \* the package's files, in the order they are packed; the runtime comes first
          Contents,     \* contents of a file
          MaxPayload,   \* maximum_payload
          MaxChanges, MaxInstalls

VARIABLES pkg,        \* the content of each file of the package
          changes,    \* changes of the package so far
          packing,    \* where pack and attach are
          took,       \* the content the current file was hashed with
          payload,    \* the cells written so far
          manifest,   \* its entries
          image,      \* the finished executable
          damaged,    \* it was damaged
          setup,      \* where the installer is
          scratch,    \* the scratch directory: the cells of each file made, in order
          input,      \* the read position in the executable
          installs,   \* extractions so far
          given       \* what was handed to init: the cells of each file

bundleVars == <<pkg, changes, packing, took, payload, manifest, image, damaged, setup, scratch, input, installs, given>>
packVars == <<pkg, changes, packing, took, payload, manifest, image>>
bundleSetupVars == <<setup, scratch, input, installs, given>>

Size(c) == 1 + c \div 3
Cells(c) == [k \in 1 .. Size(c) |-> c]
Stub == 0
Trailer(n) == 100 + n
Files == 1 .. Len(Names)
BundleNone == [exists |-> FALSE, files |-> <<>>]

BundleInit == /\ pkg \in [Files -> {1}] /\ changes = 0 /\ packing = "identify" /\ took = 0
              /\ payload = <<>> /\ manifest = <<>> /\ image = <<>> /\ damaged = FALSE
              /\ setup = "idle" /\ scratch = BundleNone /\ input = 0 /\ installs = 0 /\ given = BundleNone

Compressed(entries) == MapThenSumSet(LAMBDA k : entries[k].compressed, DOMAIN entries)
Expanded(entries) == MapThenSumSet(LAMBDA k : entries[k].bytes, DOMAIN entries)

\* pack: the qualified build's binaries are in the package as its manifest says.
Identify == /\ packing = "identify"
            /\ packing' = IF pkg[1] = 1 THEN "hash" ELSE "failed"
            /\ UNCHANGED <<pkg, changes, took, payload, manifest, image, damaged, bundleSetupVars>>
Current == Len(manifest) + 1
HashFile == /\ packing = "hash" /\ Current \in Files
            /\ took' = pkg[Current] /\ packing' = "compress"
            /\ UNCHANGED <<pkg, changes, payload, manifest, image, damaged, bundleSetupVars>>
\* compress_file appends the stream to the payload.
Compress == /\ packing = "compress"
            /\ payload' = payload \o Cells(pkg[Current]) /\ packing' = "recheck"
            /\ UNCHANGED <<pkg, changes, took, manifest, image, damaged, bundleSetupVars>>
Entry == [name |-> Names[Current], bytes |-> Size(took), compressed |-> Len(payload) - Compressed(manifest),
          offset |-> Compressed(manifest), sha |-> took]
\* A file that changed meanwhile, or too much of it, ends the packing.
Recheck == /\ packing = "recheck"
           /\ IF pkg[Current] # took \/ Compressed(Append(manifest, Entry)) > MaxPayload
                 \/ Expanded(Append(manifest, Entry)) > MaxPayload
              THEN packing' = "failed" /\ UNCHANGED manifest
              ELSE packing' = "hash" /\ manifest' = Append(manifest, Entry)
           /\ UNCHANGED <<pkg, changes, took, payload, image, damaged, bundleSetupVars>>

\* validate: the entries follow one another and stay within the limits.
Valid(entries) ==
    /\ entries # <<>> /\ \A j, k \in DOMAIN entries : j # k => entries[j].name # entries[k].name
    /\ \A k \in DOMAIN entries : LET before == SubSeq(entries, 1, k - 1) IN
          /\ entries[k].bytes <= MaxPayload - Expanded(before)
          /\ entries[k].compressed \in 1 .. (MaxPayload - Compressed(before))
          /\ entries[k].offset = Compressed(before)
\* attach: the stub, the payload and the trailer.
Attached == <<Stub>> \o payload \o <<Trailer(Len(payload))>>
Attach == /\ packing = "hash" /\ Current \notin Files
          /\ IF Valid(manifest) THEN packing' = "attached" /\ image' = Attached
             ELSE packing' = "failed" /\ UNCHANGED image
          /\ UNCHANGED <<pkg, changes, took, payload, manifest, damaged, bundleSetupVars>>

\* The executable loses or changes a cell.
Damage == /\ packing = "attached" /\ ~damaged /\ setup = "idle" /\ damaged' = TRUE
          /\ \E k \in DOMAIN image : \/ image' = RemoveAt(image, k)
                                     \/ \E c \in Contents \ {image[k]} : image' = [image EXCEPT ![k] = c]
          /\ UNCHANGED <<pkg, changes, packing, took, payload, manifest, bundleSetupVars>>
Change(f, c) == /\ pkg[f] # c /\ changes < MaxChanges /\ packing \notin {"attached", "failed"}
                /\ pkg' = [pkg EXCEPT ![f] = c] /\ changes' = changes + 1
                /\ UNCHANGED <<packing, took, payload, manifest, image, damaged, bundleSetupVars>>

\* payload_offset and region_hash: the region of the payload, if the trailer and its hash are right.
Expected == Compressed(manifest)
Begins == Len(image) - 1 - Expected
Region == SubSeq(image, Begins + 1, Begins + Expected)
TrailerRight == Len(image) > Expected /\ Last(image) = Trailer(Expected)
Ends(where) == setup' = where
\* run: the manifest, the trailer and the payload are checked before anything is made.
Open == /\ packing = "attached" /\ setup = "idle" /\ installs < MaxInstalls /\ installs' = installs + 1
        /\ IF Valid(manifest) /\ TrailerRight /\ Region = payload /\ ~scratch.exists
           THEN Ends("expand") /\ scratch' = [exists |-> TRUE, files |-> <<>>] /\ input' = Begins
           ELSE Ends("mismatch") /\ UNCHANGED <<scratch, input>>
        /\ UNCHANGED <<packVars, damaged, given>>

\* The scope guards of extract and of run remove the directory.
Rollback == scratch' = BundleNone

Made == Len(scratch.files)
NextFile == /\ setup = "expand" /\ Made < Len(manifest)
            /\ scratch' = [scratch EXCEPT !.files = Append(@, <<>>)] /\ Ends("inflate")
            /\ UNCHANGED <<packVars, damaged, input, installs, given>>
\* expand_file counts before it writes.
Fits == 1 <= manifest[Made].bytes - Len(scratch.files[Made])
StreamEnd == Begins + manifest[Made].offset + manifest[Made].compressed
Inflate == /\ setup = "inflate" /\ input < StreamEnd
           /\ IF ~Fits THEN Ends("mismatch") /\ Rollback /\ UNCHANGED input
              ELSE /\ scratch' = [scratch EXCEPT !.files[Made] = Append(@, image[input + 1])]
                   /\ input' = input + 1 /\ UNCHANGED setup
           /\ UNCHANGED <<packVars, damaged, installs, given>>
\* The length and the hash of the file.
Whole == scratch.files[Made] = Cells(manifest[Made].sha)
CloseFile == /\ setup = "inflate" /\ input = StreamEnd
             /\ IF Whole THEN Ends("expand") /\ UNCHANGED scratch ELSE Ends("mismatch") /\ Rollback
             /\ UNCHANGED <<packVars, damaged, input, installs, given>>
\* Every file is there: init gets the directory and the runtime's identity.
HandOver == /\ setup = "expand" /\ Made = Len(manifest)
            /\ given' = scratch /\ Ends("init")
            /\ UNCHANGED <<packVars, damaged, scratch, input, installs>>
\* init and the start end, well or not; a write may fail before that; the process may die.
Finish == /\ setup = "init" /\ Ends("done") /\ Rollback
          /\ UNCHANGED <<packVars, damaged, input, installs, given>>
WriteFails == /\ setup \in {"expand", "inflate"} /\ Ends("failed") /\ Rollback
              /\ UNCHANGED <<packVars, damaged, input, installs, given>>
BundleDie == /\ setup \in {"expand", "inflate", "init"} /\ Ends("dead")
             /\ UNCHANGED <<packVars, damaged, scratch, input, installs, given>>
\* The next installer takes a scratch directory of its own; a dead one's stays where it is.
Again == /\ setup \in {"done", "failed", "mismatch", "dead"} /\ Ends("idle")
         /\ scratch' = BundleNone /\ given' = BundleNone /\ input' = 0
         /\ UNCHANGED <<packVars, damaged, installs>>

BundleNext == \/ Identify \/ HashFile \/ Compress \/ Recheck \/ Attach \/ Damage
              \/ \E f \in Files, c \in Contents : Change(f, c)
              \/ Open \/ NextFile \/ Inflate \/ CloseFile \/ HandOver \/ Finish \/ WriteFails \/ BundleDie \/ Again

\* What init is given is, file for file, what the manifest's hashes name: neither a change
\* during the packing, undone before the second hash, nor damage of the executable gets through.
GivenAsHashed == given.exists => /\ Len(given.files) = Len(manifest)
                                 /\ \A k \in DOMAIN manifest : given.files[k] = Cells(manifest[k].sha)
\* The extraction writes no more than the manifest declares, even of a stream that is longer.
WithinDeclared == /\ \A k \in DOMAIN scratch.files : Len(scratch.files[k]) <= manifest[k].bytes
                  /\ MapThenSumSet(LAMBDA k : Len(scratch.files[k]), DOMAIN scratch.files) <= MaxPayload
\* An extraction that fails, and an installer that ends, leave no scratch directory.
ScratchRemoved == setup \in {"done", "failed", "mismatch"} => ~scratch.exists
\* What was packed from a package that did not change, and was not damaged, can be extracted:
\* packing, attaching and locating the payload agree on every offset.
RoundTrip == (changes = 0 /\ ~damaged) => setup # "mismatch" /\ packing # "failed"

-------------------------------------------------------------------------------
(*****************************************************************************)
(* The source-checkout route of devbox-setup (setup.cpp) and the guided      *)
(* installer that runs it (setup-tui/src/main.cpp). A run finds or clones    *)
(* the checkout, writes .env, installs the dependencies, stages the native   *)
(* runtime and starts the server. Runs with different options follow one     *)
(* another; any of them may fail or die at any step.                         *)
(*                                                                           *)
(* .env is a sequence of lines; three of its keys are modelled: RUNTIME,     *)
(* which has a default, AUTH, and URL, which AUTH requires. An executable is *)
(* its build, which also stands for its hash; Cpp are the builds that are    *)
(* C++ runtimes. The candidate may be rebuilt while it is staged.            *)
(*****************************************************************************)
CONSTANTS SetupBuilds, Cpp, MaxRuns, SetupMaxBuilds,
          Flags   \* the choices of --no-start, --dry-run and --skip-system-packages

VARIABLES pc,          \* where the installer is
          options,     \* its options
          plan,        \* the plan the guided installer shows, if it runs one
          tools,       \* Node.js, npm and Git are there
          repo,        \* the checkout: "absent", "foreign", "cloned", "pinned" or "existing"
          env,         \* the lines of .env
          hasEnv,      \* .env exists
          deps,        \* the dependencies are installed
          candidate,   \* the build beside the installer
          setupHash,   \* the hash of the candidate that build_runtime took
          staged,      \* the build at bin/native
          server,      \* the build the server was started from
          runs, setupRebuilt,
          asked,       \* history: the last value a run that wrote .env was asked for, for each key
          torn         \* history: a write of .env was cut short

setupSetupVars == <<pc, options, plan, tools, repo, env, hasEnv, deps, candidate, setupHash, staged, server, runs, setupRebuilt, asked, torn>>
disk == <<tools, repo, env, hasEnv, deps, staged, server>>

SetupNone == "-"
NoBuild == 0
Keys == {"RUNTIME", "AUTH", "URL"}
Values == [runtime : {SetupNone, "host"}, auth : {SetupNone, "none", "oauth"}, url : {SetupNone, "u"}]
Example == <<[key |-> "RUNTIME", value |-> "auto"], [key |-> "URL", value |-> ""]>>
Nothing == [values |-> [runtime |-> SetupNone, auth |-> SetupNone, url |-> SetupNone],
            flags |-> [start |-> FALSE, dry |-> FALSE, packages |-> FALSE]]
IsRepo == repo \in {"cloned", "pinned", "existing"}

SetupInit == /\ pc = "idle" /\ options = Nothing /\ plan = Nothing
             /\ tools \in BOOLEAN /\ repo \in {"absent", "foreign", "existing"} /\ hasEnv = FALSE /\ env = <<>>
             /\ deps = FALSE /\ candidate \in SetupBuilds \union {NoBuild} /\ setupHash = NoBuild
             /\ staged \in Cpp \union {NoBuild} /\ server = NoBuild /\ runs = 0 /\ setupRebuilt = 0
             /\ asked = [k \in Keys |-> SetupNone] /\ torn = FALSE

\* set_env_value, get_env_value: the first line of a key counts.
LinesOf(content, key) == {n \in DOMAIN content : content[n].key = key}
FirstOf(content, key) == CHOOSE n \in LinesOf(content, key) : \A m \in LinesOf(content, key) : n <= m
SetEnv(content, key, value) ==
    IF LinesOf(content, key) = {} THEN Append(content, [key |-> key, value |-> value])
    ELSE [content EXCEPT ![FirstOf(content, key)].value = value]
GetEnv(content, key) == IF LinesOf(content, key) = {} THEN "" ELSE content[FirstOf(content, key)].value
SetIf(content, key, value) == IF value = SetupNone THEN content ELSE SetEnv(content, key, value)

Word(w, present) == IF present THEN {w} ELSE {}
\* build_bootstrap_args: the command line of a plan.
Arguments(p) ==
    [values |-> [p.values EXCEPT !.url = IF p.values.url = "" THEN SetupNone ELSE @],
     words |-> Word("--skip-system-packages", ~p.flags.packages) \union Word("--no-start", ~p.flags.start)
               \union Word("--dry-run", p.flags.dry)]
\* parse_options.
Parse(line) == [values |-> line.values,
                flags |-> [start |-> "--no-start" \notin line.words, dry |-> "--dry-run" \in line.words,
                           packages |-> "--skip-system-packages" \notin line.words]]

\* interactive_setup: an authentication mode requires a URL; the plan is shown before it is applied.
Guide(values, flags) ==
    /\ pc = "idle" /\ runs < MaxRuns /\ values.runtime # SetupNone /\ values.auth # SetupNone
    /\ (values.url = SetupNone) = (values.auth = "none")
    /\ plan' = [values |-> [values EXCEPT !.url = IF @ = SetupNone THEN "" ELSE @], flags |-> flags] /\ pc' = "confirm"
    /\ UNCHANGED <<options, disk, candidate, setupHash, runs, setupRebuilt, asked, torn>>
Confirm ==
    /\ pc = "confirm"
    /\ \/ pc' = "idle" /\ plan' = Nothing /\ UNCHANGED <<options, runs>>
       \/ pc' = "tools" /\ options' = Parse(Arguments(plan)) /\ runs' = runs + 1 /\ UNCHANGED plan
    /\ UNCHANGED <<disk, candidate, setupHash, setupRebuilt, asked, torn>>
\* devbox-setup on its own.
Run(values, flags) ==
    /\ pc = "idle" /\ runs < MaxRuns /\ runs' = runs + 1
    /\ options' = [values |-> values, flags |-> flags] /\ plan' = Nothing /\ pc' = "tools"
    /\ UNCHANGED <<disk, candidate, setupHash, setupRebuilt, asked, torn>>

Ended(outcome) == pc' = outcome
\* prerequisites and verify_tools.
Tools ==
    /\ pc = "tools"
    /\ \/ tools /\ Ended("locate") /\ UNCHANGED tools
       \/ ~tools /\ options.flags.dry /\ Ended("locate") /\ UNCHANGED tools
       \/ /\ ~tools /\ ~options.flags.dry /\ options.flags.packages /\ tools' = TRUE /\ Ended("locate")
       \/ ~tools /\ ~options.flags.dry /\ ~options.flags.packages /\ Ended("failed") /\ UNCHANGED tools
    /\ UNCHANGED <<options, plan, repo, env, hasEnv, deps, staged, server, candidate, setupHash, runs, setupRebuilt, asked, torn>>
\* locate_repo: a checkout is used as it is, a new one is cloned and moved to the installer's revision.
Locate ==
    /\ pc = "locate"
    /\ \/ IsRepo /\ Ended("configure") /\ UNCHANGED repo
       \/ repo = "foreign" /\ Ended("failed") /\ UNCHANGED repo
       \/ repo = "absent" /\ options.flags.dry /\ Ended("done") /\ UNCHANGED repo
       \/ repo = "absent" /\ ~options.flags.dry /\ repo' = "cloned" /\ Ended("pin")
    /\ UNCHANGED <<options, plan, tools, env, hasEnv, deps, staged, server, candidate, setupHash, runs, setupRebuilt, asked, torn>>
Pin == /\ pc = "pin" /\ repo' = "pinned" /\ Ended("configure")
       /\ UNCHANGED <<options, plan, tools, env, hasEnv, deps, staged, server, candidate, setupHash, runs, setupRebuilt, asked, torn>>

\* The recommended runtime is for a new .env only.
Runtime(content) ==
    IF ~hasEnv \/ options.values.runtime # SetupNone
    THEN SetEnv(content, "RUNTIME", IF options.values.runtime = SetupNone THEN "docker" ELSE options.values.runtime)
    ELSE content
Written == SetIf(SetIf(Runtime(IF hasEnv THEN env ELSE Example), "AUTH", options.values.auth), "URL", options.values.url)
Complete(content) == options.values.auth \in {SetupNone, "none"} \/ GetEnv(content, "URL") # ""
\* prepare_files.
SetupConfigure ==
         /\ pc = "configure"
         /\ \/ ~Complete(Written) /\ Ended("failed") /\ UNCHANGED <<env, hasEnv, asked>>
            \/ Complete(Written) /\ options.flags.dry /\ Ended("deps") /\ UNCHANGED <<env, hasEnv, asked>>
            \/ /\ Complete(Written) /\ ~options.flags.dry /\ Ended("deps")
               /\ env' = Written /\ hasEnv' = TRUE
               /\ asked' = [k \in Keys |->
                               LET v == CASE k = "RUNTIME" -> options.values.runtime
                                          [] k = "AUTH" -> options.values.auth [] OTHER -> options.values.url
                               IN IF v = SetupNone THEN asked[k] ELSE v]
         /\ UNCHANGED <<options, plan, tools, repo, deps, staged, server, candidate, setupHash, runs, setupRebuilt, torn>>
\* write_file truncates first: a process that dies in it leaves a part of the lines.
DieWriting ==
    /\ pc = "configure" /\ Complete(Written) /\ ~options.flags.dry
    /\ \E n \in 0 .. (Len(Written) - 1) : env' = SubSeq(Written, 1, n)
    /\ hasEnv' = TRUE /\ torn' = TRUE /\ Ended("failed")
    /\ UNCHANGED <<options, plan, tools, repo, deps, staged, server, candidate, setupHash, runs, setupRebuilt, asked>>

\* The dependencies; the link to the global command may fail without harm.
Dependencies ==
    /\ pc = "deps" /\ Ended("find") /\ deps' = (deps \/ ~options.flags.dry)
    /\ UNCHANGED <<options, plan, tools, repo, env, hasEnv, staged, server, candidate, setupHash, runs, setupRebuilt, asked, torn>>

Skips == options.flags.dry
\* build_runtime: the candidate beside the installer, the staged runtime, or a fresh build; it
\* must report itself as a C++ runtime with its own hash.
Find ==
    /\ pc = "find"
    /\ \/ Skips /\ Ended("start") /\ UNCHANGED <<setupHash, candidate>>
       \/ /\ ~Skips /\ candidate = NoBuild /\ staged # NoBuild /\ Ended("start") /\ UNCHANGED <<setupHash, candidate>>
       \/ /\ ~Skips /\ candidate = NoBuild /\ staged = NoBuild /\ UNCHANGED <<setupHash, pc>> /\ candidate' \in Cpp
       \/ /\ ~Skips /\ candidate # NoBuild /\ UNCHANGED candidate
          /\ IF candidate \in Cpp THEN Ended("copy") /\ setupHash' = candidate ELSE Ended("failed") /\ UNCHANGED setupHash
    /\ UNCHANGED <<options, plan, tools, repo, env, hasEnv, deps, staged, server, runs, setupRebuilt, asked, torn>>
Copied == candidate = setupHash
\* The copy beside the destination is hashed before it takes the destination's place.
SetupCopy ==
         /\ pc = "copy"
         /\ IF Copied THEN staged' = candidate /\ Ended("start") ELSE UNCHANGED staged /\ Ended("failed")
         /\ UNCHANGED <<options, plan, tools, repo, env, hasEnv, deps, candidate, setupHash, server, runs, setupRebuilt, asked, torn>>
\* The server is started and must answer its health check; the guardian may fail without harm.
SetupStart ==
         /\ pc = "start"
         /\ \/ (~options.flags.start \/ options.flags.dry) /\ Ended("done") /\ UNCHANGED server
            \/ /\ options.flags.start /\ ~options.flags.dry
               /\ server' = staged /\ (Ended("done") \/ Ended("failed"))
         /\ UNCHANGED <<options, plan, tools, repo, env, hasEnv, deps, staged, candidate, setupHash, runs, setupRebuilt, asked, torn>>
\* A command fails, or the process dies.
Fails == /\ pc \in {"tools", "locate", "pin", "configure", "deps", "find", "copy", "start"}
         /\ Ended("failed")
         /\ UNCHANGED <<options, plan, disk, candidate, setupHash, runs, setupRebuilt, asked, torn>>
Leave == /\ pc \in {"done", "failed"} /\ pc' = "idle" /\ options' = Nothing /\ plan' = Nothing /\ setupHash' = NoBuild
         /\ UNCHANGED <<disk, candidate, runs, setupRebuilt, asked, torn>>
SetupRebuild(b) == /\ candidate \notin {NoBuild, b} /\ setupRebuilt < SetupMaxBuilds /\ pc # "idle"
                   /\ candidate' = b /\ setupRebuilt' = setupRebuilt + 1
                   /\ UNCHANGED <<pc, options, plan, disk, setupHash, runs, asked, torn>>

SetupNext == \/ \E values \in Values, flags \in Flags : Guide(values, flags) \/ Run(values, flags)
             \/ Confirm \/ Tools \/ Locate \/ Pin \/ SetupConfigure \/ DieWriting \/ Dependencies
             \/ Find \/ SetupCopy \/ SetupStart \/ Fails \/ Leave
             \/ \E b \in SetupBuilds : SetupRebuild(b)

\* What a run was asked for stays in .env through later runs that do not name it: no default
\* and no other option takes its place (unless a write was cut short).
RequestsHold == ~torn => \A k \in Keys : asked[k] # SetupNone => GetEnv(env, k) = asked[k]
\* A run that is asked for an authentication mode writes no .env without a URL.
AuthHasUrl == [][(env' # env /\ options.values.auth = "oauth") => \/ GetEnv(env', "URL") # "" \/ torn']_setupSetupVars
\* bin/native never holds anything but a runtime that was executed and hashed, although the
\* candidate may change at any time.
StagedIsRuntime == staged \in Cpp \union {NoBuild}
\* A finished run that changes anything leaves a checkout, a configuration and a runtime a
\* later start can use, also with --no-start.
ReadyWhenDone == (pc = "done" /\ ~options.flags.dry) => IsRepo /\ hasEnv /\ deps /\ staged # NoBuild
\* A dry run, and a plan that is only shown, change nothing.
DryRunChangesNothing == [][(pc \in {"idle", "confirm"} \/ options.flags.dry) => UNCHANGED disk]_setupSetupVars
\* The guided installer runs the plan the operator confirmed.
PlanIsRun == (plan # Nothing /\ pc \notin {"idle", "confirm"}) =>
                /\ options.flags = plan.flags
                /\ options.values = [plan.values EXCEPT !.url = IF @ = "" THEN SetupNone ELSE @]
===============================================================================
