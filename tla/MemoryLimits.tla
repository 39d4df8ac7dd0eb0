----------------------------- MODULE MemoryLimits -----------------------------
(*****************************************************************************)
(* Limits on memory: what a value is charged (resource_budget.cpp) and what  *)
(* the memory groups leave to a browser (browser_memory.cpp).                *)
(*****************************************************************************)
EXTENDS Integers, Sequences, SequencesExt, FiniteSets, FiniteSetsExt

-------------------------------------------------------------------------------
(*****************************************************************************)
(* How much memory a browser may still use (browser_memory.cpp): the least   *)
(* headroom of the host and of every control group the process is in. A path *)
(* is a sequence of components. A mount shows the hierarchy below its root   *)
(* at its mount point; the groups are walked from the process's own up to    *)
(* the mount point, and then read one after another while their counters     *)
(* change. The mounts are of one cgroup version.                             *)
(*****************************************************************************)
CONSTANTS Component,   \* a path component
          Levels,      \* values a counter may have
          Unlimited    \* what an unlimited group's limit reads as

VARIABLES mounts,      \* mounts of the hierarchy that are still to be walked
          walked,      \* mounts that were walked
          membership,  \* the process's group
          directory,   \* the group the walk of the first mount is at
          groups,      \* result
          reading,     \* the group read last and its counters
          available    \* available

headroomVars == <<mounts, walked, membership, directory, groups, reading, available>>

Paths == {<<>>, <<Component>>, <<Component, Component>>}
Mounts == [root : Paths, point : {<<Component>>, <<Component, Component>>}]
NoReading == [group |-> 0, counted |-> FALSE, limit |-> Unlimited, usage |-> 0, inactive |-> 0]

HeadroomInit == /\ mounts = <<>> /\ walked = {} /\ membership = <<>> /\ directory = <<>> /\ groups = <<>>
                /\ reading = NoReading /\ available = Unlimited
\* The process is somewhere in the hierarchy, of which there are one or two mounts.
Place == /\ mounts = <<>> /\ walked = {}
         /\ \E m, k \in Mounts : mounts' \in {<<m>>, <<m, k>>}
         /\ membership' \in Paths /\ available' \in Levels
         /\ UNCHANGED <<walked, directory, groups, reading>>

\* browser_memory_groups: another subtree is skipped; the walk starts at the process's group.
Own(mount) == mount.point \o SubSeq(membership, Len(mount.root) + 1, Len(membership))
Shows(mount) == IsPrefix(mount.root, membership)
Skip == /\ mounts # <<>> /\ directory = <<>> /\ ~Shows(Head(mounts))
        /\ mounts' = Tail(mounts) /\ walked' = walked \union {Head(mounts)}
        /\ UNCHANGED <<membership, directory, groups, reading, available>>
\* A group is added, or known from an earlier mount; then the walk goes to its parent.
Known == {i \in DOMAIN groups : groups[i].directory = directory}
Marked(leaf) == [i \in DOMAIN groups |-> IF i \in Known THEN [groups[i] EXCEPT !.member = @ \/ leaf] ELSE groups[i]]
StartWalk == /\ mounts # <<>> /\ directory = <<>> /\ Shows(Head(mounts))
             /\ directory' = Own(Head(mounts))
             /\ UNCHANGED <<mounts, walked, membership, groups, reading, available>>
Walk == /\ directory # <<>>
        /\ LET leaf == directory = Own(Head(mounts))
           IN groups' = IF Known = {} THEN Append(groups, [directory |-> directory, member |-> leaf])
                        ELSE Marked(leaf)
        /\ IF directory = Head(mounts).point
           THEN directory' = <<>> /\ mounts' = Tail(mounts) /\ walked' = walked \union {Head(mounts)}
           ELSE directory' = Front(directory) /\ UNCHANGED <<mounts, walked>>
        /\ UNCHANGED <<membership, reading, available>>

\* browser_cgroup_headroom: counters that contradict each other get no credit for cache.
cgroup_headroom(limit, usage, inactive) ==
    LET working == IF inactive < usage THEN usage - inactive ELSE usage
    IN IF limit > working THEN limit - working ELSE 0
\* browser_memory_headroom: a parent counts if the hierarchy does.
ReadGroup ==
    /\ mounts = <<>> /\ walked # {} /\ reading.group < Len(groups)
    /\ \E hierarchical \in BOOLEAN, limit \in Levels \union {Unlimited}, usage, inactive \in Levels :
          LET counted == groups[reading.group + 1].member \/ hierarchical
              left == cgroup_headroom(limit, usage, inactive)
          IN /\ reading' = [group |-> reading.group + 1, counted |-> counted, limit |-> limit,
                            usage |-> usage, inactive |-> inactive]
             /\ available' = IF counted /\ limit # Unlimited /\ left < available THEN left ELSE available
    /\ UNCHANGED <<mounts, walked, membership, directory, groups>>

HeadroomNext == Place \/ Skip \/ StartWalk \/ Walk \/ ReadGroup

\* The groups are exactly the process's own and their parents up to the mount points, each
\* once; the process's own are marked, also when another mount shows them as a parent.
GroupsAreAncestors ==
    mounts = <<>> =>
        LET shown == {m \in walked : Shows(m)}
            Chain(m) == {m.point \o SubSeq(membership, Len(m.root) + 1, j) : j \in Len(m.root)..Len(membership)}
            all == UNION {Chain(m) : m \in shown}
        IN /\ {groups[i].directory : i \in DOMAIN groups} = all
           /\ Len(groups) = Cardinality(all)
           /\ \A i \in DOMAIN groups : groups[i].member = (\E m \in shown : groups[i].directory = Own(m))
\* A limit that applies is respected by the answer: usage and answer together exceed it by no
\* more than the cache that can be reclaimed, and no later group raises the answer again.
HeadroomIsSafe ==
    [][/\ reading' # reading => available' <= available
       /\ reading'.counted /\ reading'.limit # Unlimited /\ available' > 0 =>
             available' + reading'.usage
                <= reading'.limit + (IF reading'.inactive < reading'.usage THEN reading'.inactive ELSE 0)
       /\ available' >= 0]_headroomVars

-------------------------------------------------------------------------------
(*****************************************************************************)
(* The charge of a JSON value against a byte budget (json_memory_charge in   *)
(* cpp-mcp/src/resource_budget.cpp). The code walks the value with what is   *)
(* left of the limit and stops as soon as it is exceeded; the reference adds *)
(* up the whole value first. A value is a record: kind, the length of a      *)
(* string, and the members of an array or object, each with the length of    *)
(* its key.                                                                  *)
(*****************************************************************************)
CONSTANTS
    Node,      \* charge of a node: 128
    PerByte,   \* charge of a byte of a string or key: 16
    MaxDepth,  \* 256
    Values,    \* the values charged
    Limits     \* the limits they are charged against

VARIABLES
    value,   \* the value charged
    limit,   \* the limit it is charged against
    charge   \* the result, Pending before the call

vars == <<value, limit, charge>>

Pending == -1

\* max + 1 stands for "more than max"; once reached, no further member is looked at.
RECURSIVE json_memory_charge(_, _, _)
json_memory_charge(v, max, depth) ==
    LET Keyed(bytes, m) ==
            IF v.kind # "object" THEN bytes
            ELSE IF m.key > (max - bytes) \div PerByte THEN max + 1 ELSE bytes + m.key * PerByte
        Add(bytes, m) ==
            LET keyed == IF bytes > max THEN bytes ELSE Keyed(bytes, m)
                child == json_memory_charge(m.value, max - keyed, depth + 1)
            IN  IF keyed > max \/ child > max - keyed THEN max + 1 ELSE keyed + child
    IN  CASE depth > MaxDepth \/ max < Node -> max + 1
          [] v.kind = "string" -> IF v.length > (max - Node) \div PerByte THEN max + 1 ELSE Node + v.length * PerByte
          [] OTHER -> FoldLeft(Add, Node, v.members)

Charge(v, max) ==
    /\ charge = Pending
    /\ value' = v
    /\ limit' = max
    /\ charge' = json_memory_charge(v, max, 0)

ChargeInit ==
          /\ value = [kind |-> "scalar", length |-> 0, members |-> << >>]
          /\ limit = 0
          /\ charge = Pending

ChargeNext == \E v \in Values, max \in Limits : Charge(v, max)

------------------------------------------------------------------------------
\* Reference: the charge of the whole value, and its depth.
RECURSIVE WholeCharge(_)
WholeCharge(v) ==
          LET Member(m) == (IF v.kind = "object" THEN m.key * PerByte ELSE 0) + WholeCharge(m.value)
          IN  Node + (IF v.kind = "string" THEN v.length * PerByte ELSE 0)
                   + FoldLeft(LAMBDA sum, m : sum + Member(m), 0, v.members)

RECURSIVE Depth(_)
Depth(v) == IF v.members = << >> THEN 0 ELSE 1 + Max({Depth(m.value) : m \in Range(v.members)})

\* The walk that stops early agrees with the total: it returns the total of a value that
\* fits the limit and is not too deep, and otherwise one more than the limit, which no
\* budget of that size admits.
ChargeExact ==
    charge # Pending =>
        charge = IF Depth(value) <= MaxDepth /\ WholeCharge(value) <= limit THEN WholeCharge(value) ELSE limit + 1
===============================================================================
