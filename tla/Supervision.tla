------------------------------ MODULE Supervision -----------------------------
(*****************************************************************************)
(* The native supervisor (management.cpp): the frontend with its updates,    *)
(* and the companions. The two meet in one loop but touch different          *)
(* processes.                                                                *)
(*****************************************************************************)
EXTENDS Naturals, FiniteSets

-------------------------------------------------------------------------------
(*****************************************************************************)
(* The native supervisor of one installation: it keeps a frontend of the     *)
(* selected version running, adopts one that survived its own death, drains  *)
(* before it replaces anything, and journals a replacement in handoff.json   *)
(* so that whoever supervises next can finish or undo it.                    *)
(*                                                                           *)
(* Files: config.json (selected, desired), handoff.json, request.json, the   *)
(* admission control file, and the child named by status.json. A write of    *)
(* one file is one step; the supervisor may die between any two. Trouble (a  *)
(* frontend that dies or does not get ready, a coordinator that does not     *)
(* stop, a drain that times out) is limited by MaxTrouble.                   *)
(*****************************************************************************)
CONSTANTS Versions, First, Launches, MaxRequests, MaxTrouble, FrontendMaxCrashes, None

VARIABLES selected,   \* config.current
          desired,    \* config.desired
          journal,    \* handoff.json
          mode,       \* the mode in the admission control file
          named,      \* the child status.json names
          request,    \* request.json
          front,      \* the frontends launched so far
          durable,    \* some job or run is not terminal
          frontendSup, \* the supervisor's memory
          settled,    \* the version the last completed operation left running or stopped
          trouble, frontendCrashes, requests

supervisorVars == <<selected, desired, journal, mode, named, request, front, durable, frontendSup,
                    settled, trouble, frontendCrashes, requests>>

Down == [at |-> "down", current |-> First, handoff |-> None, child |-> None, resume |-> FALSE,
         seen |-> 0, action |-> "none", candidate |-> First]
Unlaunched == [version |-> First, life |-> "unborn", mode |-> "open", active |-> FALSE, declared |-> FALSE]

FrontendInit ==
            /\ selected = First /\ settled = First /\ desired = TRUE
            /\ journal = None /\ mode = "open" /\ named = None /\ request = None
            /\ front = [g \in Launches |-> Unlaunched]
            /\ durable = FALSE
            /\ frontendSup = Down
            /\ trouble = 0 /\ frontendCrashes = 0 /\ requests = 0

Lives(g) == g # None /\ front[g].life = "alive"
World == <<front, durable>>
Counters == <<trouble, frontendCrashes, requests>>
Disk == <<selected, desired, journal, mode, named, request, settled>>
Trouble == trouble < MaxTrouble /\ trouble' = trouble + 1 /\ UNCHANGED <<frontendCrashes, requests>>
At(place) == frontendSup' = [frontendSup EXCEPT !.at = place]

(* A frontend: it works for clients while the mode it has read is open,    *)
(* and reads the control file now and then.                                *)
StartWork(g) ==
    /\ Lives(g) /\ front[g].mode = "open" /\ ~front[g].active
    /\ front' = [front EXCEPT ![g].active = TRUE]
    /\ UNCHANGED <<Disk, durable, frontendSup, Counters>>
EndWork(g) ==
    /\ Lives(g) /\ front[g].active
    /\ front' = [front EXCEPT ![g].active = FALSE]
    /\ \E job \in BOOLEAN : durable' = (durable \/ job)
    /\ UNCHANGED <<Disk, frontendSup, Counters>>
DurableEnds == durable /\ durable' = FALSE /\ UNCHANGED <<Disk, front, frontendSup, Counters>>
Refresh(g) ==
    /\ Lives(g) /\ front[g].mode # mode
    /\ front' = [front EXCEPT ![g].mode = mode]
    /\ UNCHANGED <<Disk, durable, frontendSup, Counters>>
FrontDies(g) ==
    /\ Lives(g) /\ Trouble
    /\ front' = [front EXCEPT ![g].life = "dead", ![g].active = FALSE]
    /\ UNCHANGED <<Disk, durable, frontendSup>>

(* Child::stop.                                                            *)
FrontendStopped(g) == [front EXCEPT ![g].life = "dead", ![g].active = FALSE]

(* supervise up to its loop: a journal that names neither version selected *)
(* now is refused, and so is a living child of another version; a child of *)
(* the journal's candidate means that only the selection was not written.  *)
JournalFits == journal # None => selected \in {journal.previous, journal.candidate}
Adopts == IF ~Lives(named) THEN selected
          ELSE IF front[named].version = selected THEN selected
          ELSE IF journal # None /\ front[named].version = journal.candidate THEN journal.candidate
          ELSE None
Start ==
    /\ frontendSup.at = "down" /\ desired
    /\ JournalFits /\ Adopts # None
    /\ selected' = Adopts
    /\ frontendSup' = [Down EXCEPT !.at = "loop", !.current = Adopts, !.handoff = journal,
                                   !.child = IF Lives(named) THEN named ELSE None]
    /\ UNCHANGED <<desired, journal, mode, named, request, front, durable, settled, Counters>>

NewLaunch == CHOOSE g \in Launches : front[g].life = "unborn" /\
                 \A h \in Launches : front[h].life = "unborn" => g <= h
CanLaunch == \E g \in Launches : front[g].life = "unborn"
WithLaunch(version) == [front EXCEPT ![NewLaunch].life = "alive", ![NewLaunch].version = version,
                                   ![NewLaunch].mode = mode]

ChildGone ==
    /\ frontendSup.at = "loop" /\ frontendSup.child # None /\ ~Lives(frontendSup.child)
    /\ frontendSup' = [frontendSup EXCEPT !.child = None]
    /\ named' = None
    /\ UNCHANGED <<selected, desired, journal, mode, request, World, settled, Counters>>

(* launch, of the current version or of a candidate, and the publication   *)
(* of its identity.                                                        *)
FrontendLaunch ==
            /\ CanLaunch
            /\ \/ frontendSup.at = "loop" /\ frontendSup.child = None /\ frontendSup' = [frontendSup EXCEPT !.at = "launched", !.child = NewLaunch]
               \/ frontendSup.at = "replace" /\ frontendSup' = [frontendSup EXCEPT !.at = "replacing", !.child = NewLaunch]
               \/ frontendSup.at = "undo" /\ frontendSup' = [frontendSup EXCEPT !.at = "undoing", !.child = NewLaunch]
            /\ front' = WithLaunch(IF frontendSup.at = "replace" THEN frontendSup.candidate ELSE frontendSup.current)
            /\ UNCHANGED <<Disk, durable, Counters>>
PublishChild ==
    /\ \/ frontendSup.at = "launched" /\ At("starting")
       \/ frontendSup.at = "replacing" /\ At("trying")
    /\ named' = frontendSup.child
    /\ UNCHANGED <<selected, desired, journal, mode, request, World, settled, Counters>>

(* The port is free of any other frontend, so this one can get ready.      *)
Ready == Lives(frontendSup.child) /\ \A g \in Launches : g # frontendSup.child => ~Lives(g)

(* wait_ready, then the step complete_handoff takes: admission is resumed  *)
(* if the interrupted operation had closed it ...                          *)
Resumes(handoff) == handoff # None /\ handoff.resume
BecomeReady ==
    /\ Ready
    /\ \/ frontendSup.at = "starting" /\ At("completing") /\ mode' = IF Resumes(frontendSup.handoff) THEN "open" ELSE mode
       \/ frontendSup.at = "trying" /\ At("committing") /\ mode' = IF frontendSup.resume THEN "open" ELSE mode
       \/ frontendSup.at = "undoing" /\ At("undone") /\ mode' = IF frontendSup.resume THEN "open" ELSE mode
       \/ frontendSup.at = "loop" /\ frontendSup.handoff # None /\ At("completing")
          /\ mode' = IF Resumes(frontendSup.handoff) THEN "open" ELSE mode
    /\ UNCHANGED <<selected, desired, journal, named, request, World, settled, Counters>>

(* ... and the journal is removed: what runs now is the settled version.   *)
Complete ==
    /\ frontendSup.at \in {"completing", "committed", "undone"}
    /\ frontendSup' = [frontendSup EXCEPT !.at = "loop", !.handoff = None]
    /\ journal' = None
    /\ settled' = IF frontendSup.handoff = None THEN settled ELSE frontendSup.current
    /\ front' = [front EXCEPT ![frontendSup.child].declared = TRUE]
    /\ named' = frontendSup.child
    /\ UNCHANGED <<selected, desired, mode, request, durable, Counters>>

Commit ==
    /\ frontendSup.at = "committing"
    /\ selected' = frontendSup.candidate
    /\ frontendSup' = [frontendSup EXCEPT !.at = "committed", !.current = frontendSup.candidate]
    /\ UNCHANGED <<desired, journal, mode, named, request, World, settled, Counters>>

(* Only an unfinished promotion lets a failed start change the selection,  *)
(* back to the previous version, with nothing durable running and the      *)
(* coordinator stopped.                                                    *)
MayUndo == frontendSup.handoff # None /\ frontendSup.handoff.candidate = frontendSup.current
           /\ frontendSup.handoff.previous # frontendSup.current
UndoTo == frontendSup.handoff.previous
StartFails ==
    /\ frontendSup.at = "starting" /\ (Trouble \/ (~Ready /\ UNCHANGED Counters))
    /\ front' = FrontendStopped(frontendSup.child)
    /\ \/ /\ MayUndo /\ ~durable
          /\ selected' = UndoTo
          /\ frontendSup' = [frontendSup EXCEPT !.at = "loop", !.child = None, !.current = UndoTo]
       \/ frontendSup' = [frontendSup EXCEPT !.at = "loop", !.child = None] /\ UNCHANGED selected
    /\ named' = None
    /\ UNCHANGED <<desired, journal, mode, request, durable, settled>>

(* The operator asks (send_control); a signal asks for a stop that is not  *)
(* meant to last.                                                          *)
Ask ==
    /\ request = None /\ requests < MaxRequests /\ frontendSup.at # "down"
    /\ \E action \in {"restart", "promote", "stop", "signal"}, v \in Versions :
          /\ (action # "promote") => v = First
          /\ request' = [action |-> action, candidate |-> v]
    /\ requests' = requests + 1
    /\ UNCHANGED <<selected, desired, journal, mode, named, World, frontendSup, settled, trouble, frontendCrashes>>

(* The request is taken: drain closes admission.                           *)
Take ==
    /\ frontendSup.at = "loop" /\ request # None
    /\ request' = None
    /\ frontendSup' = [frontendSup EXCEPT !.at = IF frontendSup.child = None /\ durable THEN "loop"
                                                 ELSE IF frontendSup.child = None THEN "drained" ELSE "draining",
                                          !.action = request.action, !.seen = 0,
                                          !.candidate = IF request.action = "promote" THEN request.candidate ELSE frontendSup.current,
                                          !.resume = frontendSup.child = None \/ mode = "open"]
    /\ mode' = IF frontendSup.child = None THEN mode ELSE "draining"
    /\ UNCHANGED <<selected, desired, journal, named, World, settled, Counters>>

(* Three failed health probes start a drain of their own.                  *)
Unwell ==
    /\ frontendSup.at = "loop" /\ Lives(frontendSup.child) /\ Trouble
    /\ frontendSup' = [frontendSup EXCEPT !.at = "draining", !.action = "heal", !.seen = 0, !.resume = mode = "open"]
    /\ mode' = "draining"
    /\ UNCHANGED <<selected, desired, journal, named, request, World, settled>>

(* An observation of the drain: the frontend has read the control file and *)
(* has nothing active, and nothing durable runs.                           *)
Idle == (Lives(frontendSup.child) => front[frontendSup.child].mode = mode /\ ~front[frontendSup.child].active) /\ ~durable
Observe ==
    /\ frontendSup.at = "draining"
    /\ frontendSup' = IF ~Idle THEN [frontendSup EXCEPT !.seen = 0]
                      ELSE IF frontendSup.seen = 0 THEN [frontendSup EXCEPT !.seen = 1]
                      ELSE [frontendSup EXCEPT !.at = IF frontendSup.action = "heal" THEN "heal" ELSE "drained"]
    /\ UNCHANGED <<Disk, World, Counters>>
DrainTimesOut ==
    /\ frontendSup.at = "draining" /\ Trouble
    /\ mode' = IF frontendSup.resume THEN "open" ELSE mode
    /\ At("loop")
    /\ UNCHANGED <<selected, desired, journal, named, request, World, settled>>

Heal ==
    /\ frontendSup.at = "heal"
    /\ front' = FrontendStopped(frontendSup.child)
    /\ frontendSup' = [frontendSup EXCEPT !.at = "reopen", !.child = None]
    /\ UNCHANGED <<Disk, durable, Counters>>
Reopen ==
    /\ frontendSup.at = "reopen"
    /\ mode' = IF frontendSup.resume THEN "open" ELSE mode
    /\ At("loop")
    /\ UNCHANGED <<selected, desired, journal, named, request, World, settled, Counters>>

(* handoff.json, then the old frontend, then the coordinator.              *)
Handoff == [previous |-> frontendSup.current, candidate |-> frontendSup.candidate, resume |-> frontendSup.resume]
(* A mistaken form of WriteJournal: the journal is kept in memory only.    *)
WriteJournalInMemory ==
    /\ frontendSup.at = "drained"
    /\ frontendSup' = [frontendSup EXCEPT !.at = "stopping", !.handoff = Handoff]
    /\ UNCHANGED <<selected, desired, journal, mode, named, request, World, settled, Counters>>
WriteJournal ==
    /\ frontendSup.at = "drained"
    /\ journal' = Handoff
    /\ frontendSup' = [frontendSup EXCEPT !.at = "stopping", !.handoff = Handoff]
    /\ UNCHANGED <<selected, desired, mode, named, request, World, settled, Counters>>
StopOld ==
    /\ frontendSup.at = "stopping"
    /\ front' = IF frontendSup.child = None THEN front ELSE FrontendStopped(frontendSup.child)
    /\ frontendSup' = [frontendSup EXCEPT !.at = "coordinator", !.child = None]
    /\ UNCHANGED <<Disk, durable, Counters>>
StopCoordinator ==
    /\ frontendSup.at = "coordinator"
    /\ \/ At(IF frontendSup.action \in {"stop", "signal"} THEN "leaving" ELSE "replace") /\ UNCHANGED Counters
       \/ Trouble /\ At("loop")
    /\ UNCHANGED <<Disk, World>>

(* The candidate does not get ready: it is stopped and the previous one is *)
(* launched again, if the coordinator stops.                               *)
TryFails ==
    /\ frontendSup.at = "trying" /\ (Trouble \/ (~Ready /\ UNCHANGED Counters))
    /\ front' = FrontendStopped(frontendSup.child)
    /\ frontendSup' = [frontendSup EXCEPT !.at = "undo", !.child = None]
    /\ UNCHANGED <<Disk, durable>>
UndoFails ==
    /\ \/ frontendSup.at = "undo" /\ Trouble
       \/ frontendSup.at = "undoing" /\ (Trouble \/ (~Ready /\ UNCHANGED Counters))
    /\ At("loop")
    /\ named' = frontendSup.child
    /\ UNCHANGED <<selected, desired, journal, mode, request, settled, World>>

(* A stop: an operator's is remembered in the configuration.               *)
Leave ==
    /\ \/ /\ frontendSup.at = "leaving"
          /\ desired' = (desired /\ frontendSup.action = "signal")
          /\ At("closing") /\ UNCHANGED <<journal, mode, named, settled>>
       \/ /\ frontendSup.at = "closing"
          /\ mode' = IF frontendSup.resume THEN "open" ELSE mode
          /\ journal' = None /\ named' = None /\ UNCHANGED desired
          /\ settled' = frontendSup.current
          /\ frontendSup' = Down
    /\ UNCHANGED <<selected, request, World, Counters>>

(* manage start, after an operator's stop.                                 *)
StartAgain ==
    /\ frontendSup.at = "down" /\ ~desired /\ requests < MaxRequests
    /\ desired' = TRUE /\ requests' = requests + 1
    /\ UNCHANGED <<selected, journal, mode, named, request, World, frontendSup, settled, trouble, frontendCrashes>>

FrontendCrash ==
            /\ frontendSup.at # "down" /\ frontendCrashes < FrontendMaxCrashes
            /\ frontendCrashes' = frontendCrashes + 1
            /\ frontendSup' = Down
            /\ request' = None
            /\ UNCHANGED <<selected, desired, journal, mode, named, World, settled, trouble, requests>>

Steps ==
    \/ Start \/ ChildGone \/ FrontendLaunch \/ PublishChild \/ BecomeReady \/ Complete \/ Commit
    \/ StartFails \/ Take \/ Observe \/ Heal \/ Reopen \/ WriteJournal \/ StopOld
    \/ StopCoordinator \/ TryFails \/ (UndoFails /\ UNCHANGED trouble) \/ Leave

FrontendNext ==
            \/ Start
            \/ ChildGone
            \/ FrontendLaunch
            \/ PublishChild
            \/ BecomeReady
            \/ Complete
            \/ Commit
            \/ StartFails
            \/ Ask
            \/ Take
            \/ Unwell
            \/ Observe
            \/ DrainTimesOut
            \/ Heal
            \/ Reopen
            \/ WriteJournal
            \/ StopOld
            \/ StopCoordinator
            \/ TryFails
            \/ UndoFails
            \/ Leave
            \/ StartAgain
            \/ FrontendCrash
            \/ DurableEnds
            \/ \E g \in Launches : StartWork(g) \/ EndWork(g) \/ Refresh(g) \/ FrontDies(g)

(* The loop goes on, work ends, frontends read the control file.           *)
SupervisorFairness ==
    /\ WF_supervisorVars(Steps)
    /\ WF_supervisorVars(DurableEnds)
    /\ \A g \in Launches : WF_supervisorVars(EndWork(g)) /\ WF_supervisorVars(Refresh(g))

(* Outside a journaled operation the selected version is the one the last  *)
(* completed operation settled on: a failed start, a failed candidate, a   *)
(* dead supervisor or a restart never leave another one selected.          *)
SelectionIsSettled == journal = None => selected = settled

(* A frontend that was declared healthy is stopped only when it has        *)
(* nothing active and nothing durable runs, and not before it has read     *)
(* that admission is closed.                                               *)
ServingNotInterrupted ==
    [][\A g \in Launches :
          Lives(g) /\ front[g].declared /\ front'[g].life = "dead" /\ trouble' = trouble =>
              ~front[g].active /\ ~durable /\ front[g].mode = "draining"]_supervisorVars

(* Without a crash the supervisor reopens the admission it closed, whether *)
(* the operation succeeds, is refused or is undone, unless a later drain   *)
(* that finds it closed begins first.                                      *)
AdmissionReopens == (mode = "draining" /\ frontendSup.resume) ~> (mode = "open" \/ ~frontendSup.resume)

-------------------------------------------------------------------------------
(*****************************************************************************)
(* The companions of the native supervisor (management.cpp): configured      *)
(* processes it starts in order, probes and repairs apart from the MCP       *)
(* frontend. A tick walks the entries; a companion that the next ones        *)
(* require keeps those stopped while it is not healthy. status.json names    *)
(* the processes, so that a supervisor started after a crash adopts them.    *)
(*                                                                           *)
(* A process is a number no other process and no record has: its identity in *)
(* the code has the time of birth. Time is counted in ticks, which are five  *)
(* seconds apart. The companions of Slow need the time to the next tick      *)
(* before they answer their readiness probe.                                 *)
(*****************************************************************************)
CONSTANTS Count, Required, Slow, Processes, CompanionMaxCrashes, MaxFaults

VARIABLES companionSup, \* the supervisor: "down", "fresh", "idle", "tick" or "publish"
          pos, step, \* the entry of the tick, and how far it is
          ready,     \* prerequisites
          entry,     \* of each entry the child and its age, failures, the ticks to retry, unhealthy probes
          health,    \* what this tick found of each entry
          live,      \* the processes of each companion
          sick,      \* processes that do not answer their readiness probe
          record,    \* the process status.json names for each companion
          companionCrashes, faults,
          lost       \* history: companions with a process no status.json names

companionVars == <<companionSup, pos, step, ready, entry, health, live, sick, record, companionCrashes, faults, lost>>

Entries == 1 .. Count
NoChild == [child |-> 0, age |-> 0, failures |-> 0, retry |-> 0, probes |-> 0]
Later(n) == IF n > 0 THEN n - 1 ELSE 0
Alive(i) == entry[i].child \in live[i]

CompanionInit == /\ companionSup = "down" /\ pos = 1 /\ step = "reap" /\ ready = TRUE
                 /\ entry = [i \in Entries |-> NoChild] /\ health = [i \in Entries |-> FALSE]
                 /\ live = [i \in Entries |-> {}] /\ sick = {} /\ record = [i \in Entries |-> 0]
                 /\ companionCrashes = 0 /\ faults = 0 /\ lost = {}

\* The constructor: a recorded process that is still the same one is adopted.
Adopted(i) == [NoChild EXCEPT !.child = IF record[i] \in live[i] THEN record[i] ELSE 0]
Boot == /\ companionSup = "down" /\ companionSup' = "fresh"
        /\ entry' = [i \in Entries |-> Adopted(i)]
        /\ UNCHANGED <<pos, step, ready, health, live, sick, record, companionCrashes, faults, lost>>
\* The first publish of a supervisor: its status has no companions before the first tick.
FirstPublish ==
    /\ companionSup = "fresh" /\ companionSup' = "idle" /\ record' = [i \in Entries |-> 0]
    /\ UNCHANGED <<pos, step, ready, entry, health, live, sick, companionCrashes, faults, lost>>
BeginTick ==
    /\ companionSup = "idle" /\ companionSup' = "tick" /\ pos' = 1 /\ step' = "reap" /\ ready' = TRUE
    /\ health' = [i \in Entries |-> FALSE]
    /\ entry' = [i \in Entries |-> [entry[i] EXCEPT !.retry = Later(@), !.age = IF @ < 6 THEN @ + 1 ELSE @]]
    /\ UNCHANGED <<live, sick, record, companionCrashes, faults, lost>>

\* min(60000, 1000 << min(failures, 6)) milliseconds, in ticks.
Backoff(failures) == <<1, 1, 2, 4, 7, 12>>[failures]
\* A failure: the entry has no child and waits.
Failed(e) == LET n == IF e.failures < 6 THEN e.failures + 1 ELSE 6 IN
             [e EXCEPT !.child = 0, !.age = 0, !.failures = n, !.retry = Backoff(n)]
\* Child::stop, of the entry's process.
CompanionStopped(i) == /\ live' = [live EXCEPT ![i] = @ \ {entry[i].child}]
                       /\ sick' = sick \ {entry[i].child}
\* An exited process is noted; a running one is stopped when a prerequisite is not healthy.
Reap(i) ==
    /\ companionSup = "tick" /\ pos = i /\ step = "reap" /\ step' = "launch"
    /\ IF entry[i].child # 0 /\ ~Alive(i)
       THEN entry' = [entry EXCEPT ![i] = Failed(@)] /\ UNCHANGED <<live, sick>>
       ELSE IF entry[i].child # 0 /\ ~ready THEN entry' = [entry EXCEPT ![i].child = 0] /\ CompanionStopped(i)
       ELSE UNCHANGED <<entry, live, sick>>
    /\ UNCHANGED <<companionSup, pos, ready, health, record, companionCrashes, faults, lost>>
\* A launch, which may fail or find the binary changed.
Free == Processes \ (UNION {live[i] : i \in Entries} \union {record[i] : i \in Entries}
                       \union {entry[i].child : i \in Entries})
CompanionLaunch(i) ==
             /\ companionSup = "tick" /\ pos = i /\ step = "launch" /\ step' = "probe"
             /\ IF ready /\ ~Alive(i) /\ entry[i].retry = 0
                THEN \/ /\ Free # {} /\ UNCHANGED faults
                        /\ LET new == CHOOSE p \in Free : \A q \in Free : p <= q IN
                           /\ entry' = [entry EXCEPT ![i].child = new, ![i].age = 0]
                           /\ live' = [live EXCEPT ![i] = @ \union {new}]
                     \/ /\ faults < MaxFaults /\ faults' = faults + 1
                        /\ entry' = [entry EXCEPT ![i] = Failed(@)] /\ UNCHANGED live
                ELSE UNCHANGED <<entry, live, faults>>
             /\ UNCHANGED <<companionSup, pos, ready, health, sick, record, companionCrashes, lost>>
Probes(i, healthy) == IF healthy THEN 0 ELSE entry[i].probes + 1
\* The readiness probe; after three failures in a row the process is replaced.
Answers(i) == entry[i].child \notin sick /\ (i \in Slow => entry[i].age > 0)
Probe(i) ==
    /\ companionSup = "tick" /\ pos = i /\ step = "probe"
    /\ LET healthy == Alive(i) /\ Answers(i)
           probes == Probes(i, healthy)
           steady == [entry[i] EXCEPT !.failures = IF healthy /\ entry[i].age >= 6 THEN 0 ELSE @,
                                      !.probes = IF probes < 3 THEN probes ELSE 3]
       IN /\ health' = [health EXCEPT ![i] = healthy]
          /\ IF ~healthy /\ Alive(i) /\ probes >= 3
             THEN CompanionStopped(i) /\ entry' = [entry EXCEPT ![i] = [Failed(@) EXCEPT !.probes = 0]]
             ELSE UNCHANGED <<live, sick>> /\ entry' = [entry EXCEPT ![i] = steady]
          /\ ready' = IF i \in Required THEN healthy ELSE ready
    /\ IF i < Count THEN pos' = i + 1 /\ step' = "reap" /\ UNCHANGED companionSup
       ELSE companionSup' = "publish" /\ UNCHANGED <<pos, step>>
    /\ UNCHANGED <<record, companionCrashes, faults, lost>>
Publish == /\ companionSup = "publish" /\ companionSup' = "idle" /\ record' = [i \in Entries |-> entry[i].child]
           /\ UNCHANGED <<pos, step, ready, entry, health, live, sick, companionCrashes, faults, lost>>
\* stop(), on an operator's stop.
StopAll == /\ companionSup = "idle" /\ companionSup' = "stopped"
           /\ live' = [i \in Entries |-> live[i] \ {entry[i].child}]
           /\ sick' = sick \ {entry[i].child : i \in Entries} /\ entry' = [i \in Entries |-> NoChild]
           /\ UNCHANGED <<pos, step, ready, health, record, companionCrashes, faults, lost>>
\* The supervisor dies: its companions run on.
CompanionCrash == /\ companionSup \notin {"down", "stopped"} /\ companionCrashes < CompanionMaxCrashes /\ companionCrashes' = companionCrashes + 1 /\ companionSup' = "down"
                  /\ entry' = [i \in Entries |-> NoChild]
                  /\ lost' = lost \union {i \in Entries : live[i] \ {record[i]} # {}}
                  /\ UNCHANGED <<pos, step, ready, health, live, sick, record, faults>>
\* The processes: an exit, or one that stops or starts to answer.
Exit(i) == /\ faults < MaxFaults /\ faults' = faults + 1
           /\ \E p \in live[i] : live' = [live EXCEPT ![i] = @ \ {p}] /\ sick' = sick \ {p}
           /\ UNCHANGED <<companionSup, pos, step, ready, entry, health, record, companionCrashes, lost>>
Sicken(i) == /\ faults < MaxFaults /\ faults' = faults + 1
             /\ \E p \in live[i] : sick' = (sick \ {p}) \union ({p} \ sick)
             /\ UNCHANGED <<companionSup, pos, step, ready, entry, health, live, record, companionCrashes, lost>>

TickStep == BeginTick \/ FirstPublish \/ Publish \/ \E i \in Entries : Reap(i) \/ CompanionLaunch(i) \/ Probe(i)
CompanionNext == Boot \/ TickStep \/ StopAll \/ CompanionCrash \/ \E i \in Entries : Exit(i) \/ Sicken(i)

\* After a tick no companion runs behind a required one the tick found unhealthy, however
\* many lie between them.
OrderKept == (companionSup = "publish") => \A i, j \in Entries : (j < i /\ j \in Required /\ ~health[j]) => entry[i].child = 0
\* A companion has one process at most, across crashes of the supervisor, as long as
\* status.json names it when the supervisor dies; and a stop leaves none behind.
OneProcess == \A i \in Entries \ lost : /\ Cardinality(live[i]) <= 1
                                        /\ companionSup = "stopped" => live[i] = {}
\* A process that no longer answers is replaced in the end, or answers again.
SickReplaced == \A p \in Processes :
    (\E i \in Entries : entry[i].child = p /\ p \in live[i] \intersect sick)
        ~> (p \notin sick \/ companionSup \in {"down", "stopped"} \/ \A i \in Entries : p \notin live[i])
\* A companion that fails a bounded number of times is repaired: it is found healthy again.
Repaired == \A i \in Entries : []<>(health[i] \/ companionSup = "stopped")
CompanionFairness == WF_companionVars(Boot) /\ WF_companionVars(TickStep)
===============================================================================
