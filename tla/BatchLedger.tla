----------------------------- MODULE BatchLedger -----------------------------
(***************************************************************************)
(* What the state store promises to the callers of apply_once: a batch     *)
(* commits at most once and all of it together, it commits only on top of  *)
(* the revisions it was built from, a caller told "done" was told the      *)
(* truth, and a caller told "refused" will never find that batch, with     *)
(* that content, committed later.  A caller may also be told nothing       *)
(* certain ("unknown").                                                    *)
(***************************************************************************)
EXTENDS Naturals

CONSTANTS Keys, Batches, Intents, NoIntent

VARIABLES
    revision,   \* the revision of every record
    committed,  \* the intent each batch identity committed, or NoIntent
    told        \* the verdicts callers were given: a set of <<intent, verdict>>

vars == <<revision, committed, told>>

Init ==
    /\ revision = [k \in Keys |-> 0]
    /\ committed = [b \in Batches |-> NoIntent]
    /\ told = {}

\* An intent names its batch and the revision it expects of each of its records.
Commit(i) ==
    /\ committed[i.batch] = NoIntent /\ committed' = [committed EXCEPT ![i.batch] = i]
    /\ \A k \in DOMAIN i.expects : revision[k] = i.expects[k]
    /\ revision' = [k \in Keys |-> IF k \in DOMAIN i.expects THEN revision[k] + 1 ELSE revision[k]]
    /\ <<i, "refused">> \notin told
    /\ UNCHANGED told

Tell(i, verdict) ==
    /\ verdict = "done" => committed[i.batch] = i
    /\ verdict = "refused" => committed[i.batch] # i
    /\ told' = told \cup {<<i, verdict>>}
    /\ UNCHANGED <<revision, committed>>

Next ==
    \E i \in Intents :
        \/ Commit(i)
        \/ \E verdict \in {"done", "refused", "unknown"} : Tell(i, verdict)

Spec == Init /\ [][Next]_vars
=============================================================================
