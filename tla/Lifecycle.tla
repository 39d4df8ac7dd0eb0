------------------------------- MODULE Lifecycle ------------------------------
(*****************************************************************************)
(* Control of the devbox container (lifecycle.cpp): start, stop, restart and *)
(* recreate, serialised by gate_. recreate renames the old container away,   *)
(* creates its replacement, copies /tmp of a container that did not mount    *)
(* the managed volume, rolls back when a step fails, and leaves the removal  *)
(* of the old container to a one-shot background task.                       *)
(*                                                                           *)
(* Containers are numbered in the order of their creation; Old is the one of *)
(* an earlier installation that keeps /tmp in itself. Any docker command may *)
(* fail, and the server may die between two of them.                         *)
(*****************************************************************************)
EXTENDS Naturals, FiniteSets
CONSTANTS MaxContainers, AutoStart

VARIABLES box,       \* the container with the devbox's name, 0 for none
          running,   \* whether it runs
          retired,   \* the renamed containers
          doomed,    \* those whose removal is scheduled
          copied,    \* the managed volume has the files of Old's /tmp
          created,   \* how many containers were created
          control    \* the call that holds gate_, and the outcome of the last one

lifecycleVars == <<box, running, retired, doomed, copied, created, control>>

Old == 1
managed_tmp(c) == c # Old
Ends(outcome) == control' = [control EXCEPT !.at = "idle", !.outcome = outcome]
Goes(where) == control' = [control EXCEPT !.at = where]

Init == /\ box = Old /\ running = TRUE
        /\ retired = {} /\ doomed = {} /\ copied = FALSE /\ created = Old
        /\ control = [at |-> "idle", original |-> Old, ran |-> TRUE, migrate |-> FALSE, outcome |-> "none"]

\* docker run: a failing one may leave a container with the name.
Run == /\ box = 0 /\ created < MaxContainers
       /\ created' = created + 1
       /\ box' = created + 1 /\ running' = TRUE
FailedRun == \/ created < MaxContainers /\ created' = created + 1 /\ box' = created + 1 /\ running' = FALSE
             \/ UNCHANGED <<created, box, running>>

\* control for start, stop and restart; every command may fail and change nothing.
Start == /\ control.at = "idle"
         /\ \/ box = 0 /\ AutoStart /\ Run
            \/ box # 0 /\ running' = TRUE /\ UNCHANGED <<box, created>>
         /\ control' = [control EXCEPT !.outcome = "none"]
         /\ UNCHANGED <<retired, doomed, copied>>
Stop == /\ control.at = "idle"
        /\ box # 0 /\ running
        /\ running' = FALSE
        /\ control' = [control EXCEPT !.outcome = "none"]
        /\ UNCHANGED <<box, retired, doomed, copied, created>>
Restart == /\ control.at = "idle"
           /\ \/ box = 0 /\ Run
              \/ box # 0 /\ running' = TRUE /\ UNCHANGED <<box, created>>
           /\ control' = [control EXCEPT !.outcome = "none"]
           /\ UNCHANGED <<retired, doomed, copied>>

\* recreate: inspect, rename, create, migrate_tmp.
Recreate == /\ control.at = "idle"
            /\ control' = [at |-> IF box # 0 THEN "rename" ELSE "create", original |-> box, ran |-> running,
                           migrate |-> box # 0 /\ ~managed_tmp(box), outcome |-> "none"]
            /\ UNCHANGED <<box, running, retired, doomed, copied, created>>
Rename == /\ control.at = "rename"
          /\ \/ retired' = retired \union {box} /\ box' = 0 /\ running' = FALSE /\ Goes("create")
             \/ Ends("failed") /\ UNCHANGED <<box, running, retired>>
          /\ UNCHANGED <<doomed, copied, created>>
AfterCreate == IF control.migrate THEN "copy" ELSE "retire"
OnFailure == IF control.original # 0 THEN Goes("remove") ELSE Ends("failed")
Create == /\ control.at = "create"
          /\ \/ Run /\ Goes(AfterCreate)
             \/ FailedRun /\ OnFailure
          /\ UNCHANGED <<retired, doomed, copied>>
\* migrate_tmp: both docker cp commands.
CopyFails == OnFailure
Copy == /\ control.at = "copy"
        /\ \/ copied' = TRUE /\ Goes("retire")
           \/ CopyFails /\ UNCHANGED copied
        /\ UNCHANGED <<box, running, retired, doomed, created>>
\* The rollback: remove what has the name, give it back to the old container.
Remove == /\ control.at = "remove"
          /\ \/ box' = 0 /\ running' = FALSE /\ Goes("restore")
             \/ Ends("rollback failed") /\ UNCHANGED <<box, running>>
          /\ UNCHANGED <<retired, doomed, copied, created>>
Restore == /\ control.at = "restore"
           /\ \/ /\ box' = control.original /\ retired' = retired \ {control.original}
                 /\ running' = control.ran /\ Ends("failed")
              \/ Ends("rollback failed") /\ UNCHANGED <<box, running, retired>>
           /\ UNCHANGED <<doomed, copied, created>>
\* Success: schedule docker-retired-cleanup.
Retire == /\ control.at = "retire"
          /\ doomed' = doomed \union ({control.original} \ {0})
          /\ Ends("recreated")
          /\ UNCHANGED <<box, running, retired, copied, created>>
\* The background task: one attempt.
CleanUp(c) == /\ c \in doomed
              /\ doomed' = doomed \ {c}
              /\ retired' \in {retired, retired \ {c}}
              /\ UNCHANGED <<box, running, copied, created, control>>
ServerDies == /\ control.at # "idle" \/ doomed # {}
              /\ doomed' = {}
              /\ control' = [control EXCEPT !.at = "idle", !.outcome = "none"]
              /\ UNCHANGED <<box, running, retired, copied, created>>

Next == \/ Start \/ Stop \/ Restart \/ Recreate \/ Rename \/ Create \/ Copy \/ Remove \/ Restore \/ Retire
        \/ \E c \in doomed : CleanUp(c)
        \/ ServerDies

\* recreate: the files of an unmanaged /tmp exist in the old container or in the
\* managed volume, whatever fails and whenever the server dies.
TmpNotLost == copied \/ Old \in retired \union {box}
\* recreate: an attempt that fails without "Rollback also failed" leaves the original
\* container under the devbox's name.
FailureRestores == control.outcome = "failed" => box = control.original \/ control.original = 0
\* recreate: the container that serves is never the one scheduled for removal.
ServingNotDoomed == box \notin doomed
===============================================================================
