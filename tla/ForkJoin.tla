------------------------------ MODULE ForkJoin ------------------------------
(***************************************************************************)
(* A node of spl7-phase-3 (join/join.js, lib/fork.js): it copies the tree  *)
(* of the platform's repository, object by object, into a repository on a  *)
(* drive of its own, commits it, and then commits its own identity on top. *)
(*                                                                         *)
(* The platform's tree does not change once it is seeded, and the platform *)
(* is on the swarm only after that; it may come and go.  The node may be   *)
(* killed between any two drive operations and started again with its      *)
(* store kept.  There is no mark of how far it got but main itself.        *)
(***************************************************************************)
EXTENDS GitLog

CONSTANTS
    Folder,       \* the folders of the platform's tree
    Config,       \* the one of them that holds the identity
    FolderOrder,  \* the order in which readTree lists them
    Theirs,       \* identities the platform may have seeded
    Own,          \* identities the node may write: they differ by the time of the run
    None          \* no platform seen, no identity

ASSUME ForkAssumption ==
    /\ Config \in Folder
    /\ Theirs \cap Own = {} /\ None \notin Theirs \cup Own
    /\ FolderOrder \in Seq(Folder)
    /\ \A f \in Folder : \E k \in 1..Len(FolderOrder) : FolderOrder[k] = f
    /\ \A j, k \in 1..Len(FolderOrder) : FolderOrder[j] = FolderOrder[k] => j = k

VARIABLES
    source,   \* the platform's tree once it is seeded
    up,       \* whether the platform is on the swarm
    local,    \* the platform's objects the node has read, and so keeps
    log,      \* the node's own drive
    job,      \* where the node's main() is
    cut       \* history: a kill came between the fork and the identity

vars == <<source, up, local, log, job, cut>>

-----------------------------------------------------------------------------
(***************************************************************************)
(* Objects: trees hold what they name.                                     *)
(***************************************************************************)
Meta(f)         == [type |-> "meta", folder |-> f]
Identity(i)     == [type |-> "identity", identity |-> i]
Sub(f, blobs)   == [type |-> "sub", folder |-> f, blobs |-> blobs]
Root(subs)      == [type |-> "root", subs |-> subs]

IsIdentity(b) == b.type = "identity"

Blob == {Meta(f) : f \in Folder} \cup {Identity(i) : i \in Theirs \cup Own}

\* What seedTree commits.
Seeded(i) ==
    Root({Sub(f, {Meta(f)} \cup (IF f = Config THEN {Identity(i)} ELSE {})) : f \in Folder})

ASSUME SourceAssumption == \A i \in Theirs : Seeded(i) # None

FolderOf(root, f) == CHOOSE s \in root.subs : s.folder = f

IdentitiesIn(root) == {b.identity : b \in {x \in FolderOf(root, Config).blobs : IsIdentity(x)}}

\* modifyTree at /config/identity: the other entries are carried over.
WithIdentity(sub, i) ==
    Sub(sub.folder, {b \in sub.blobs : ~ IsIdentity(b)} \cup {Identity(i)})

TreeAt(v) == log[HeadAt(log, v)].put.tree
Main == HeadAt(log, Len(log))
HeadTree == TreeAt(Len(log))

\* From main down everything is among the first v entries.
Resolves(v) ==
    /\ HeadAt(log, v) \in 1..v
    /\ TreeAt(v) \in Stored(log, v)
    /\ \A s \in TreeAt(v).subs : s \in Stored(log, v) /\ s.blobs \subseteq Stored(log, v)

\* git log at the end shows two commits: main's and its parent's.
TwoInLog ==
    LET first == log[Main].put.parent
    IN  /\ Main # 0 /\ first # 0
        /\ log[first].put.parent = 0

-----------------------------------------------------------------------------
(***************************************************************************)
(* The platform.                                                           *)
(***************************************************************************)
Step == {"down", "sync", "browse", "check", "folder", "blobs", "forkRoot", "forkCommit",
         "forkRef", "identity", "config", "root", "commit", "ref", "show", "ready", "fatal"}

Off == [pc |-> "down", at |-> 1, done |-> {}, subs |-> {}, id |-> None, tree |-> None,
        commit |-> 0]

Init ==
    /\ source = None
    /\ up = FALSE
    /\ local = {}
    /\ log = <<>>
    /\ job = Off
    /\ cut = FALSE

\* Its main() reaches swarm.join, having seeded the drive if it had no main.
PlatformServes ==
    /\ ~ up
    /\ up' = TRUE
    /\ IF source = None THEN \E i \in Theirs : source' = Seeded(i) ELSE UNCHANGED source
    /\ UNCHANGED <<local, log, job, cut>>

PlatformLeaves ==
    /\ up
    /\ up' = FALSE
    /\ UNCHANGED <<source, local, log, job, cut>>

-----------------------------------------------------------------------------
(***************************************************************************)
(* The node, up to the copy.                                               *)
(***************************************************************************)
Goto(pc) == job' = [job EXCEPT !.pc = pc]

\* A read of the platform's drive waits for the block unless the store has it.
Fetch(object) ==
    /\ up \/ object \in local
    /\ local' = local \cup {object}
    /\ UNCHANGED <<source, up, log, cut>>

\* The run's time goes into its identity and its commits.
Start ==
    /\ job.pc \in {"down", "fatal"}
    /\ \E i \in Own : job' = [Off EXCEPT !.pc = "sync", !.id = i]
    /\ UNCHANGED <<source, up, local, log, cut>>

\* flush and update: findingPeers makes update wait for the platform.
Sync ==
    /\ job.pc = "sync"
    /\ up
    /\ Goto("browse")
    /\ UNCHANGED <<source, up, local, log, cut>>

\* The platform's log and root tree, by select('/').
Browse ==
    /\ job.pc = "browse"
    /\ Fetch(source)
    /\ Goto("check")

\* Mutation: the fork is made only on an empty drive.
CheckLogEmpty ==
    /\ job.pc = "check"
    /\ Goto(IF log = <<>> THEN "folder" ELSE "show")
    /\ UNCHANGED <<source, up, local, log, cut>>

\* needsFork: log throws while there is no main.
CheckLog ==
    /\ job.pc = "check"
    /\ Goto(IF Main = 0 THEN "folder" ELSE "show")
    /\ UNCHANGED <<source, up, local, log, cut>>

-----------------------------------------------------------------------------
(***************************************************************************)
(* forkTree.                                                               *)
(***************************************************************************)
Current == FolderOf(source, FolderOrder[job.at])

\* copyTree of the next subtree: readTree.
ReadFolder ==
    /\ job.pc = "folder"
    /\ Fetch(Current)
    /\ job' = [job EXCEPT !.pc = "blobs", !.done = {}]

\* readBlob and writeBlob of the next entry.
CopyBlobTo(b, newLog) ==
    /\ job.pc = "blobs"
    /\ b \in Current.blobs \ job.done
    /\ up \/ b \in local
    /\ local' = local \cup {b}
    /\ log' = newLog
    /\ job' = [job EXCEPT !.done = @ \cup {b}]
    /\ UNCHANGED <<source, up, cut>>

\* Mutation: writeBlob is not awaited, and lost.
CopyBlobLost(b) == CopyBlobTo(b, log)

CopyBlob(b) == CopyBlobTo(b, WriteObject(log, b))

\* One awaited git write of the node, and where it leads.
Write(pc, object) ==
    /\ job.pc = pc
    /\ log' = WriteObject(log, object)
    /\ UNCHANGED <<source, up, local, cut>>

CopySubUpTo(last) ==
    LET sub == Sub(FolderOrder[job.at], job.done)
    IN  /\ job.pc = "blobs" /\ job.done = Current.blobs
        /\ Write("blobs", sub)
        /\ job' = [job EXCEPT !.subs = @ \cup {sub},
                              !.pc = IF job.at = last THEN "forkRoot" ELSE "folder",
                              !.at = IF job.at = last THEN @ ELSE @ + 1]

\* Mutations: the loop ends one entry early, or one late.
CopySubShort == CopySubUpTo(Len(FolderOrder) - 1)
CopySubLong  == CopySubUpTo(Len(FolderOrder) + 1)

\* writeTree of the entries copied; on to the next subtree.
CopySub == CopySubUpTo(Len(FolderOrder))

CopyRoot ==
    /\ Write("forkRoot", Root(job.subs))
    /\ job' = [job EXCEPT !.pc = "forkCommit", !.tree = Root(job.subs)]

-----------------------------------------------------------------------------
(***************************************************************************)
(* The two commits.                                                        *)
(***************************************************************************)
\* A commit also says when it was made.
Stamped(tree, parent) ==
    [type |-> "commit", tree |-> tree, parent |-> parent, time |-> job.id]

\* commitTree: the parent is main, if there is one.
WriteCommit(pc, next) ==
    /\ Write(pc, Stamped(job.tree, Main))
    /\ \E c \in 1..Len(log') :
          /\ log'[c].put = Stamped(job.tree, Main)
          /\ job' = [job EXCEPT !.pc = next, !.commit = c]

UpdateRefTo(pc, next, newLog) ==
    /\ job.pc = pc
    /\ log' = newLog
    /\ Goto(next)
    /\ UNCHANGED <<source, up, local, cut>>

\* Mutation: the ref is not forced, and stays what it was.
UpdateRefUnforced(pc, next) ==
    UpdateRefTo(pc, next, IF Main = 0 THEN WriteRef(log, job.commit) ELSE log)

UpdateRef(pc, next) == UpdateRefTo(pc, next, WriteRef(log, job.commit))

\* put('/config/identity'): the blob, then the trees on the way up.
PutIdentity == Write("identity", Identity(job.id)) /\ Goto("config")

PutConfig ==
    /\ Write("config", WithIdentity(FolderOf(HeadTree, Config), job.id))
    /\ Goto("root")

PutRoot ==
    LET old == FolderOf(HeadTree, Config)
        new == Root((HeadTree.subs \ {old}) \cup {WithIdentity(old, job.id)})
    IN  /\ Write("root", new)
        /\ job' = [job EXCEPT !.pc = "commit", !.tree = new]

\* select('/'), get('/config/identity') and log; a throw is fatal: exit(1).
Show ==
    /\ job.pc = "show"
    /\ Goto(IF Resolves(Len(log)) /\ IdentitiesIn(HeadTree) # {} THEN "ready" ELSE "fatal")
    /\ UNCHANGED <<source, up, local, log, cut>>

\* A kill at any point, or a shutdown once the node is ready.
Crash ==
    /\ job.pc \notin {"down", "fatal"}
    /\ cut' = (cut \/ job.pc \in {"identity", "config", "root", "commit", "ref"})
    /\ job' = Off
    /\ UNCHANGED <<source, up, local, log>>

NodeStep ==
    \/ Sync
    \/ Browse
    \/ CheckLog
    \/ ReadFolder
    \/ \E b \in Blob : CopyBlob(b)
    \/ CopySub
    \/ CopyRoot
    \/ WriteCommit("forkCommit", "forkRef")
    \/ UpdateRef("forkRef", "identity")
    \/ PutIdentity
    \/ PutConfig
    \/ PutRoot
    \/ WriteCommit("commit", "ref")
    \/ UpdateRef("ref", "show")
    \/ Show

Next ==
    \/ PlatformServes
    \/ PlatformLeaves
    \/ Start
    \/ NodeStep
    \/ Crash

Spec == Init /\ [][Next]_vars

\* A started node goes on, with what it reads from the platform coming as long
\* as the platform is there.
FairSpec == Spec /\ WF_vars(NodeStep)

-----------------------------------------------------------------------------
(***************************************************************************)
(* Properties.                                                             *)
(***************************************************************************)
\* The shapes of the variables.
TypeOK ==
    /\ source = None \/ \E i \in Theirs : source = Seeded(i)
    /\ up \in BOOLEAN /\ cut \in BOOLEAN
    /\ \A o \in local : o = source \/ o \in source.subs \/ o \in Blob
    /\ \A k \in 1..Len(log) : log[k].main \in 0..Len(log)
    /\ job.pc \in Step
    /\ job.at \in 1..Len(FolderOrder)
    /\ job.done \subseteq Blob
    /\ \A s \in job.subs : s.folder \in Folder /\ s.blobs \subseteq Blob
    /\ job.id \in Own \cup {None}
    /\ job.commit \in 0..Len(log)

\* A node killed anywhere leaves a prefix of the copy or of the identity's
\* commit, and a later run writes over it with another identity.  At every
\* version of the drive that has a main, all that main reaches is there.
EveryVersionResolves ==
    \A v \in 1..Len(log) : log[v].main # 0 => Resolves(v)

\* fork.js: "the fork is structurally equivalent".  Whatever cut the copy short
\* and in however many runs, the first commit of the node's repository has the
\* platform's tree, and no later one differs from it but in the identity.
ForkFaithful ==
    \A k \in 1..Len(log) : log[k].put.type = "commit" =>
        LET tree == log[k].put.tree
        IN  /\ log[k].put.parent = 0 => tree = source
            /\ \E i \in Theirs \cup Own : tree = Seeded(i)

\* A node that was never killed between its two refs comes up as itself: with
\* two commits and its own identity, through kills and restarts at every other
\* point, and with the platform coming and going.
UncutIsItself ==
    job.pc = "ready" /\ ~ cut => TwoInLog /\ IdentitiesIn(HeadTree) \subseteq Own

\* join.js says of a node that is up: "Git log - should have 2 commits (fork +
\* identity)".
TwoCommits == job.pc = "ready" => TwoInLog

\* If the platform is there for good in the end, a started node becomes ready,
\* unless it is killed: no rest of an earlier run keeps it from coming up.
ForkCompletes ==
    <>[]up => (job.pc = "sync" ~> job.pc \in {"ready", "down"})
=============================================================================
