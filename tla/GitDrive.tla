------------------------------ MODULE GitDrive ------------------------------
(***************************************************************************)
(* The git repository of a swarm setup, as it lies on a hyperdrive.        *)
(*                                                                         *)
(* The tree of spl7-phase-4 has fixed folders (packages ... home) and the  *)
(* folder Swarm, with one subfolder <member>/_meta per registered member.  *)
(***************************************************************************)
EXTENDS GitLog

CONSTANTS
    Name,         \* the names nodes register under
    Platform,     \* the name of the platform's own entry
    Folder,       \* the folders seedTree writes
    Swarm,        \* the folder of them that registrations change
    Info,         \* what a member's _meta says besides its name: role, url, time
    None          \* a member that has no entry

ASSUME NamesAssumption == Platform \notin Name /\ None \notin Info /\ Swarm \in Folder

Member  == Name \cup {Platform}
Listing == [Member -> Info \cup {None}]
Tree    == [folders : SUBSET Folder, swarm : Listing]

\* What put starts from when reading the head failed: modifyTree(null, ...).
EmptyTree == [folders |-> {}, swarm |-> [m \in Member |-> None]]

\* What seedTree has written when it reaches the platform's own entry.
SeedTree == [folders |-> Folder, swarm |-> [m \in Member |-> None]]

\* Mutation: the siblings of the new entry are dropped.
WithMemberOnly(tree, n, i) ==
    [tree EXCEPT !.swarm = [m \in Member |-> IF m = n THEN i ELSE None]]

\* modifyTree(tree, '/swarm/<n>/_meta', put): every other entry is carried over.
WithMember(tree, n, i) == [tree EXCEPT !.swarm[n] = i]

-----------------------------------------------------------------------------
(***************************************************************************)
(* The objects and the ref.                                                *)
(***************************************************************************)
Meta(f)       == [type |-> "meta", folder |-> f]          \* /<f>/_meta and f's other blobs
Sub(f)        == [type |-> "sub", folder |-> f]           \* the tree of a fixed folder
Blob(m, i)    == [type |-> "blob", member |-> m, info |-> i]   \* /swarm/<m>/_meta: names m
Leaf(m, i)    == [type |-> "leaf", member |-> m, info |-> i]   \* the tree of /swarm/<m>
Dir(tree)     == [type |-> "dir", meta |-> Swarm \in tree.folders, swarm |-> tree.swarm]
Root(tree)    == [type |-> "root", tree |-> tree]

Object ==
    [type : {"meta", "sub"}, folder : Folder]
      \cup [type : {"blob", "leaf"}, member : Member, info : Info]
      \cup [type : {"dir"}, meta : BOOLEAN, swarm : Listing]
      \cup [type : {"root"}, tree : Tree]
      \cup [type : {"commit"}, tree : Tree, parent : Nat]
      \cup [type : {"ref"}, commit : Nat]

\* One drive entry, and the commit .git/refs/heads/main names after it (0: none).
Entry == [put : Object, main : Nat]

\* getHeadTree at version v; reading fails, and the caller's catch gives the
\* empty tree, while there is no main.
TreeAt(log, v) == IF HeadAt(log, v) = 0 THEN EmptyTree ELSE log[HeadAt(log, v)].put.tree

-----------------------------------------------------------------------------
(***************************************************************************)
(* What a reader must find behind an object.                               *)
(***************************************************************************)
DirNeeds(meta, swarm) ==
    {Leaf(m, swarm[m]) : m \in {x \in Member : swarm[x] # None}}
      \cup (IF meta THEN {Meta(Swarm)} ELSE {})

RootNeeds(tree) == {Dir(tree)} \cup {Sub(f) : f \in tree.folders \ {Swarm}}

Needs(o) ==
    CASE o.type = "sub"    -> {Meta(o.folder)}
      [] o.type = "leaf"   -> {Blob(o.member, o.info)}
      [] o.type = "dir"    -> DirNeeds(o.meta, o.swarm)
      [] o.type = "root"   -> RootNeeds(o.tree)
      [] o.type = "commit" -> {Root(o.tree)}
      [] OTHER             -> {}

\* select, get and log work at version v: from main down, every tree and blob
\* is among the first v entries, and so is every commit of the history.
Resolves(log, v) ==
    LET c == HeadAt(log, v)
        t == log[c].put.tree
        S == Stored(log, v)
    IN  /\ c \in 1..v
        /\ log[c].put.type = "commit"
        /\ Root(t) \in S
        /\ Dir(t) \in S
        /\ Swarm \in t.folders => Meta(Swarm) \in S
        /\ \A f \in t.folders \ {Swarm} : Sub(f) \in S /\ Meta(f) \in S
        /\ \A m \in Member : t.swarm[m] # None =>
              Leaf(m, t.swarm[m]) \in S /\ Blob(m, t.swarm[m]) \in S
        /\ \A k \in 1..v : log[k].put.type = "commit" =>
              log[k].put.parent \in 0..(k - 1)
                /\ (log[k].put.parent # 0 =>
                      log[log[k].put.parent].put.type = "commit")
=============================================================================
