----------------------------- MODULE TreeSwarm -----------------------------
(***************************************************************************)
(* spl7-phase-1: a platform that seeds the master data view as plain files *)
(* (platform/platform.js, platform/tree.js) and nodes that join and report *)
(* what of it has arrived (join/join.js).                                  *)
(*                                                                         *)
(* The seed is one put per file and the probe for it is in the middle: a   *)
(* platform killed at the wrong moment never puts the rest.  A node reads  *)
(* the tree twice, as a list and file by file, in reads that the platform's *)
(* departures and restarts come between.                                   *)
(*                                                                         *)
(* The node list and its one post are those of SwarmSetup.                 *)
(***************************************************************************)
EXTENDS Naturals, Sequences, SequencesExt

CONSTANT Joiner   \* the nodes that join

\* The folders, in the order seedTree takes them.
FOLDERS == <<"packages", "modules", "components", "config", "home", "swarm">>

Meta(name) == <<name, "_meta">>
Identity   == <<"config", "identity">>

\* seedTree: a meta for each folder, then the identity.
TreeOrder == Append([k \in DOMAIN FOLDERS |-> Meta(FOLDERS[k])], Identity)

TreeFiles == ToSet(TreeOrder)

VARIABLES
    platform,  \* where the platform's main() or its shutdown is
    putting,   \* the file seedTree puts next
    tree,      \* the files on the drive
    joiner,    \* where each node's main() is
    reading,   \* the file a node gets next
    listed,    \* what a node's list brought
    found,     \* what its gets brought
    links,     \* the nodes with a connection to the platform
    treeCut    \* history: a kill came after the probe and before the identity

treeVars == <<platform, putting, tree, joiner, reading, listed, found, links, treeCut>>
nodeVars == <<joiner, reading, listed, found>>

TreeInit ==
    /\ platform = "down"
    /\ putting = 1
    /\ tree = {}
    /\ joiner = [n \in Joiner |-> "off"]
    /\ reading = [n \in Joiner |-> 1]
    /\ listed = [n \in Joiner |-> {}]
    /\ found = [n \in Joiner |-> {}]
    /\ links = {}
    /\ treeCut = FALSE

-----------------------------------------------------------------------------
\* main(): the meta of config decides whether the tree is there.
PlatformBoot ==
    /\ platform = "down"
    /\ platform' = IF Meta("config") \in tree THEN "join" ELSE "seeding"
    /\ putting' = 1
    /\ UNCHANGED <<tree, nodeVars, links, treeCut>>

\* The next put of seedTree.
SeedTree ==
    /\ platform = "seeding"
    /\ tree' = tree \cup {TreeOrder[putting]}
    /\ putting' = IF putting = Len(TreeOrder) THEN 1 ELSE putting + 1
    /\ platform' = IF putting = Len(TreeOrder) THEN "join" ELSE platform
    /\ UNCHANGED <<nodeVars, links, treeCut>>

\* The swarm is joined and flushed; the handlers for the signals are there.
PlatformServes ==
    /\ platform = "join"
    /\ platform' = "up"
    /\ UNCHANGED <<putting, tree, nodeVars, links, treeCut>>

\* shutdown: a second signal returns at once.
PlatformStops ==
    /\ platform = "up"
    /\ platform' = "stopping"
    /\ links' = {}
    /\ UNCHANGED <<putting, tree, nodeVars, treeCut>>

\* process.exit, a kill, or a signal before there is a handler.
PlatformExits ==
    /\ platform # "down"
    /\ platform' = "down"
    /\ treeCut' = (treeCut \/ (platform = "seeding" /\ Meta("config") \in tree))
    /\ links' = {}
    /\ UNCHANGED <<putting, tree, nodeVars>>

-----------------------------------------------------------------------------
NodeStart(n) ==
    /\ joiner[n] = "off"
    /\ joiner' = [joiner EXCEPT ![n] = "joining"]
    /\ UNCHANGED <<platform, putting, tree, reading, listed, found, links, treeCut>>

NodeLink(n) ==
    /\ joiner[n] # "off" /\ n \notin links /\ platform \in {"join", "up"}
    /\ links' = links \cup {n}
    /\ UNCHANGED <<platform, putting, tree, nodeVars, treeCut>>

NodeUnlink(n) ==
    /\ n \in links
    /\ links' = links \ {n}
    /\ UNCHANGED <<platform, putting, tree, nodeVars, treeCut>>

\* update() waits for the platform; then drive.list('/').
ListTree(n) ==
    /\ joiner[n] = "joining" /\ n \in links
    /\ joiner' = [joiner EXCEPT ![n] = "reading"]
    /\ listed' = [listed EXCEPT ![n] = tree]
    /\ UNCHANGED <<platform, putting, tree, reading, found, links, treeCut>>

\* drive.get of each meta and of the identity, which waits for a connection (a block
\* the node's store has from before says the same); what is missing is said so or
\* passed over, and after the last the node is ready.
GetFile(n) ==
    LET file == TreeOrder[reading[n]]
        last == reading[n] = Len(TreeOrder)
    IN  /\ joiner[n] = "reading" /\ n \in links
        /\ found' = [found EXCEPT ![n] = @ \cup ({file} \cap tree)]
        /\ reading' = [reading EXCEPT ![n] = IF last THEN @ ELSE @ + 1]
        /\ joiner' = [joiner EXCEPT ![n] = IF last THEN "ready" ELSE @]
        /\ UNCHANGED <<platform, putting, tree, listed, links, treeCut>>

\* shutdown, a kill, or an error: process.exit.
NodeStops(n) ==
    /\ joiner[n] # "off"
    /\ joiner' = [joiner EXCEPT ![n] = "off"]
    /\ reading' = [reading EXCEPT ![n] = 1]
    /\ listed' = [listed EXCEPT ![n] = {}]
    /\ found' = [found EXCEPT ![n] = {}]
    /\ links' = links \ {n}
    /\ UNCHANGED <<platform, putting, tree, treeCut>>

TreeNext ==
    \/ PlatformBoot \/ SeedTree \/ PlatformServes \/ PlatformStops \/ PlatformExits
    \/ \E n \in Joiner : NodeStart(n) \/ NodeLink(n) \/ NodeUnlink(n)
                            \/ ListTree(n) \/ GetFile(n) \/ NodeStops(n)

TreeSpec == TreeInit /\ [][TreeNext]_treeVars

-----------------------------------------------------------------------------
(***************************************************************************)
(* Properties.                                                             *)
(***************************************************************************)
\* The shapes of the variables.
TreeTypeOK ==
    /\ platform \in {"down", "seeding", "join", "up", "stopping"}
    /\ putting \in 1..Len(TreeOrder)
    /\ tree \subseteq TreeFiles
    /\ joiner \in [Joiner -> {"off", "joining", "reading", "ready"}]
    /\ reading \in [Joiner -> 1..Len(TreeOrder)]
    /\ listed \in [Joiner -> SUBSET TreeFiles]
    /\ found \in [Joiner -> SUBSET TreeFiles]
    /\ links \subseteq Joiner
    /\ treeCut \in BOOLEAN

\* What a node that is ready has found file by file is what it had listed, although
\* the platform may have left and come back between any two of the reads; and it is
\* the whole tree, unless a kill came after the probe and before the last put.
UncutTree ==
    \A n \in Joiner : joiner[n] = "ready" =>
        found[n] = listed[n] /\ (~ treeCut => listed[n] = TreeFiles)
=============================================================================
