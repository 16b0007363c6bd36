---------------------------- MODULE SwarmRegistry ----------------------------
(***************************************************************************)
(* The platform of spl7-phase-4: it seeds the swarm tree once, serves the  *)
(* drive, and turns every POST /api/register into a put and a commit.      *)
(*                                                                         *)
(* onRegister does not wait for registerNode, so registrations overlap:    *)
(* each reads the head, writes blob, leaf tree, swarm tree and root tree,  *)
(* resolves main, writes the commit and forces the ref, one awaited drive  *)
(* operation at a time.  Each such operation is an action here.            *)
(*                                                                         *)
(* The drive's store is on a volume: the log survives a crash, everything  *)
(* else is memory.                                                         *)
(***************************************************************************)
EXTENDS GitDrive

CONSTANTS
    Task,         \* registrations that can be in flight at once (bound)
    FolderOrder,  \* Object.keys(FOLDERS): Swarm last
    PlatformInfo, \* the platform's own entry
    FileName,     \* names of files in /swarm ("_meta"): putting below them throws
    MaxRegs       \* how many registrations are posted (bound)

ASSUME RegistryAssumption ==
    /\ Platform \notin Task
    /\ FileName \subseteq Name
    /\ PlatformInfo \in Info
    /\ MaxRegs \in Nat
    /\ FolderOrder \in Seq(Folder)
    /\ Len(FolderOrder) > 0
    /\ \A k \in 1..Len(FolderOrder) : FolderOrder[k] = Swarm <=> k = Len(FolderOrder)
    /\ \A f \in Folder : \E k \in 1..Len(FolderOrder) : FolderOrder[k] = f

VARIABLES
    log,      \* the drive's entries, GitDrive!Entry
    stage,    \* where the platform's main() or shutdown() is
    at,       \* seedTree's index into FolderOrder
    act,      \* each actor's job: a registration, or the platform's own in seedTree
    regs,     \* registrations posted so far
    raced,    \* history: jobs that overlapped another since they read the head
    kept,     \* history: what the last registration of a name wrote, if it ran alone
    solo,     \* history: the commits of registrations that ran alone
    acked     \* history: names whose 'node-registered' was emitted

vars == <<log, stage, at, act, regs, raced, kept, solo, acked>>
ghosts == <<raced, kept, solo, acked>>

\* The platform's own entry goes through the same writes as a registration.
Actor == Task \cup {Platform}

Stage == {"down", "fatal", "open", "seedMeta", "seedSub", "seedNode", "browse",
          "serving", "http", "stopping", "closed"}

Step == {"idle", "head", "blob", "leaf", "dir", "root", "resolve", "commit", "ref"}

Job == [pc : Step, name : Member, info : Info, base : Tree, parent : Nat, commit : Nat]

Idle == [pc |-> "idle", name |-> Platform, info |-> PlatformInfo,
         base |-> EmptyTree, parent |-> 0, commit |-> 0]

Main == HeadAt(log, Len(log))
Now  == TreeAt(log, Len(log))

\* Jobs that have read the head (or, for the seed, have a tree to put).
Holding == {u \in Actor : act[u].pc \notin {"idle", "head"}}

\* The tree that job u commits.
NewTree(u) == WithMember(act[u].base, act[u].name, act[u].info)

Init ==
    /\ log = <<>>
    /\ stage = "down"
    /\ at = 1
    /\ act = [u \in Actor |-> Idle]
    /\ regs = 0
    /\ raced = {}
    /\ kept = [m \in Member |-> None]
    /\ solo = {}
    /\ acked = {}

-----------------------------------------------------------------------------
(***************************************************************************)
(* main(): open the store, seed if there is no main, show the tree, serve. *)
(***************************************************************************)
Boot ==
    /\ stage \in {"down", "fatal"}
    /\ stage' = "open"
    /\ UNCHANGED <<log, at, act, regs, ghosts>>

\* Mutations: seed on every start; seed only an empty drive.
CheckLogAlways ==
    /\ stage = "open"
    /\ stage' = "seedMeta"
    /\ at' = 1
    /\ UNCHANGED <<log, act, regs, ghosts>>

CheckLogEmpty ==
    /\ stage = "open"
    /\ stage' = IF log = <<>> THEN "seedMeta" ELSE "browse"
    /\ at' = 1
    /\ UNCHANGED <<log, act, regs, ghosts>>

\* needsSeed: repo.log('main', 1) throws while the ref does not exist.
CheckLog ==
    /\ stage = "open"
    /\ stage' = IF Main = 0 THEN "seedMeta" ELSE "browse"
    /\ at' = 1
    /\ UNCHANGED <<log, act, regs, ghosts>>

\* seedTree: the folder's _meta (and, for packages and config, its other blobs).
SeedMeta ==
    /\ stage = "seedMeta"
    /\ log' = WriteObject(log, Meta(FolderOrder[at]))
    /\ IF FolderOrder[at] = Swarm
       THEN /\ stage' = "seedNode"
            /\ act' = [act EXCEPT ![Platform] =
                          [Idle EXCEPT !.pc = "blob", !.base = SeedTree]]
       ELSE stage' = "seedSub" /\ UNCHANGED act
    /\ UNCHANGED <<at, regs, ghosts>>

\* seedTree: the folder's tree; on to the next folder.
SeedSub ==
    /\ stage = "seedSub"
    /\ log' = WriteObject(log, Sub(FolderOrder[at]))
    /\ stage' = "seedMeta"
    /\ at' = at + 1
    /\ UNCHANGED <<act, regs, ghosts>>

\* select '/', '/packages', '/swarm' and log; a throw is fatal: exit(1).
Browse ==
    /\ stage = "browse"
    /\ stage' = IF Resolves(log, Len(log)) THEN "serving" ELSE "fatal"
    /\ UNCHANGED <<log, at, act, regs, ghosts>>

\* The swarm is joined and flushed; only now does the HTTP server listen.
StartServer ==
    /\ stage = "serving"
    /\ stage' = "http"
    /\ UNCHANGED <<log, at, act, regs, ghosts>>

-----------------------------------------------------------------------------
(***************************************************************************)
(* A registration.  Drive operations work until store.close(); the HTTP    *)
(* server is never closed and answers until the process exits.             *)
(***************************************************************************)
\* POST /api/register: onRegister starts registerNode and does not wait.
Register(t, n, i) ==
    /\ stage \in {"http", "stopping", "closed"}
    /\ act[t].pc = "idle"
    /\ regs < MaxRegs
    /\ act' = [act EXCEPT ![t] = [Idle EXCEPT !.pc = "head", !.name = n, !.info = i]]
    /\ regs' = regs + 1
    /\ UNCHANGED <<log, stage, at, ghosts>>

ReadHeadAs(t, base) ==
    /\ act[t].pc = "head"
    /\ act' = [act EXCEPT ![t].pc = "blob", ![t].base = base]
    /\ raced' = raced \cup (IF Holding = {} THEN {} ELSE Holding \cup {t})
    /\ UNCHANGED <<log, stage, at, regs, kept, solo, acked>>

\* Mutations: a failed read is passed on as null; reads fail from the start of
\* shutdown, while writes go on; the head is read from a stale cache.
ReadHeadNull(t)     == ReadHeadAs(t, IF stage = "closed" THEN None ELSE Now)
ReadHeadStopping(t) == ReadHeadAs(t, IF stage \in {"stopping", "closed"} THEN EmptyTree ELSE Now)
ReadHeadStale(t)    == ReadHeadAs(t, TreeAt(log, Len(log) - 1))

\* put: getHeadTree; whatever it throws is caught and means "no tree yet".
ReadHead(t) == ReadHeadAs(t, IF stage = "closed" THEN EmptyTree ELSE Now)

\* One awaited git write of job u, from step pc to step next.
Write(u, pc, next, object) ==
    /\ act[u].pc = pc
    /\ stage # "closed"
    /\ log' = WriteObject(log, object)
    /\ act' = [act EXCEPT ![u].pc = next]
    /\ UNCHANGED <<stage, at, regs, ghosts>>

WriteBlob(u) == Write(u, "blob", "leaf", Blob(act[u].name, act[u].info))

\* Mutation: the leaf's writeTree is not awaited, and lost.
WriteLeafLost(u) ==
    /\ act[u].pc = "leaf"
    /\ act' = [act EXCEPT ![u].pc = "dir"]
    /\ UNCHANGED <<log, stage, at, regs, ghosts>>

\* modifyTree reads down to /swarm/<name> first: a file of that name throws.
WriteLeaf(u) ==
    /\ act[u].name \notin FileName
    /\ Write(u, "leaf", "dir", Leaf(act[u].name, act[u].info))

WriteDir(u) == Write(u, "dir", "root", Dir(NewTree(u)))

WriteRoot(u) == Write(u, "root", "resolve", Root(NewTree(u)))

\* Mutation: commits without parents.
ResolveRefNone(u) ==
    /\ act[u].pc = "resolve"
    /\ act' = [act EXCEPT ![u].pc = "commit", ![u].parent = 0]
    /\ UNCHANGED <<log, stage, at, regs, ghosts>>

\* commitTree: the parent is whatever main is now, not what put started from.
ResolveRef(u) ==
    /\ act[u].pc = "resolve"
    /\ act' = [act EXCEPT ![u].pc = "commit",
                          ![u].parent = IF stage = "closed" THEN 0 ELSE Main]
    /\ UNCHANGED <<log, stage, at, regs, ghosts>>

WriteCommit(u) ==
    /\ act[u].pc = "commit"
    /\ stage # "closed"
    /\ log' = WriteObject(log, Commit(NewTree(u), act[u].parent))
    /\ \E c \in 1..Len(log') :
          /\ log'[c].put = Commit(NewTree(u), act[u].parent)
          /\ act' = [act EXCEPT ![u].pc = "ref", ![u].commit = c]
    /\ UNCHANGED <<stage, at, regs, ghosts>>

\* writeRef with force, then emit 'node-registered' (or 'tree-seeded').
UpdateRef(u) ==
    /\ act[u].pc = "ref"
    /\ stage # "closed"
    /\ log' = WriteRef(log, act[u].commit)
    /\ act' = [act EXCEPT ![u] = Idle]
    /\ stage' = IF u = Platform THEN "browse" ELSE stage
    /\ acked' = acked \cup {act[u].name}
    /\ raced' = raced \ {u}
    /\ kept' = [kept EXCEPT ![act[u].name] = IF u \in raced THEN None ELSE act[u].info]
    /\ solo' = IF u \in raced THEN solo ELSE solo \cup {act[u].commit}
    /\ UNCHANGED <<at, regs>>

\* 'register-error': a file is in the way, or the store was closed under a write.
FailTask(t) ==
    /\ \/ act[t].pc = "leaf" /\ act[t].name \in FileName
       \/ act[t].pc \notin {"idle", "head", "resolve"} /\ stage = "closed"
    /\ act' = [act EXCEPT ![t] = Idle]
    /\ raced' = raced \ {t}
    /\ UNCHANGED <<log, stage, at, regs, kept, solo, acked>>

-----------------------------------------------------------------------------
(***************************************************************************)
(* Shutdown and crash.                                                     *)
(***************************************************************************)
\* SIGTERM or SIGINT once the handlers are installed; jobs keep running.
Stop ==
    /\ stage = "http"
    /\ stage' = "stopping"
    /\ UNCHANGED <<log, at, act, regs, ghosts>>

\* swarm.destroy() is done and store.close() takes effect.
CloseStore ==
    /\ stage = "stopping"
    /\ stage' = "closed"
    /\ UNCHANGED <<log, at, act, regs, ghosts>>

\* process.exit, a kill, or a signal before the handlers exist, at any point.
Crash ==
    /\ stage \notin {"down", "fatal"}
    /\ stage' = "down"
    /\ act' = [u \in Actor |-> Idle]
    /\ raced' = {}
    /\ UNCHANGED <<log, at, regs, kept, solo, acked>>

JobStep(u) ==
    \/ WriteBlob(u)
    \/ WriteLeaf(u)
    \/ WriteDir(u)
    \/ WriteRoot(u)
    \/ ResolveRef(u)
    \/ WriteCommit(u)
    \/ UpdateRef(u)

\* Mutation: a registration waits while another is under way.
TaskStepAlone(t) ==
    /\ ReadHead(t) \/ JobStep(t) \/ FailTask(t)
    /\ \A u \in Task \ {t} : act[u].pc = "idle"

\* registerNode, up to emit or its catch.
TaskStep(t) == ReadHead(t) \/ JobStep(t) \/ FailTask(t)

BootStep ==
    \/ Boot
    \/ CheckLog
    \/ SeedMeta
    \/ SeedSub
    \/ JobStep(Platform)
    \/ Browse
    \/ StartServer

Next ==
    \/ BootStep
    \/ \E t \in Task : \E n \in Name, i \in Info : Register(t, n, i)
    \/ \E t \in Task : TaskStep(t)
    \/ Stop
    \/ CloseStore
    \/ Crash

Spec == Init /\ [][Next]_vars

\* Every awaited drive operation completes; shutdown() runs to its end; nothing
\* makes nodes post, or the operator stop or restart the platform.
Fairness ==
    /\ WF_vars(BootStep /\ stage \notin {"down", "fatal"})
    /\ \A t \in Task : WF_vars(TaskStep(t))
    /\ WF_vars(CloseStore)

FairSpec == Spec /\ Fairness

-----------------------------------------------------------------------------
(***************************************************************************)
(* Properties.                                                             *)
(***************************************************************************)
\* The shapes of the variables.
TypeOK ==
    /\ log \in Seq(Entry)
    /\ stage \in Stage
    /\ at \in 1..Len(FolderOrder)
    /\ act \in [Actor -> Job]
    /\ regs \in 0..MaxRegs
    /\ raced \subseteq Actor
    /\ kept \in Listing
    /\ solo \subseteq Nat
    /\ acked \subseteq Member

\* A replica stops at any version of the drive, in the middle of a seed or of
\* interleaved registrations, and a crash leaves any prefix of a job's writes.
\* At every version that has a main at all, whatever main reaches can be read:
\* put and commitTree write objects strictly before what names them, and a
\* racing job's base keeps resolving.
EveryVersionResolves ==
    \A v \in 1..Len(log) : log[v].main # 0 => Resolves(log, v)

\* put treats any failure to read the head as "no tree yet" and would commit a
\* tree with nothing but the new member.  No version of main ever loses a seeded
\* folder or the platform's own entry, through crashes, reseeds and a store
\* closed under running registrations.
TreeComplete ==
    \A v \in 1..Len(log) : log[v].main # 0 =>
        /\ TreeAt(log, v).folders = Folder
        /\ TreeAt(log, v).swarm[Platform] = PlatformInfo

\* Overlapping registrations may overwrite each other, but one that ran alone,
\* from reading the head to forcing the ref, is never undone by anybody: not by
\* a later race between others, nor by a failed job, a shutdown or a restart.
UncontendedKept ==
    \A m \in Member : kept[m] # None => Now.swarm[m] = kept[m]

\* A registration that ran alone is applied to main as it is when it commits: its
\* commit changes its own entry and nothing else, although its tree was built
\* from what it read several writes earlier.
AloneOnPresent ==
    [][\A t \in Task :
          act[t].pc = "ref" /\ t \notin raced /\ log' # log /\ act'[t].pc = "idle"
              => Now' = WithMember(Now, act[t].name, act[t].info)]_vars

Commits(l) == {k \in 1..Len(l) : l[k].put.type = "commit"}

\* Sets of commits that a walk along the parents of c does not leave.
Histories(l, c) ==
    {S \in SUBSET Commits(l) :
        /\ c \in S \cup {0}
        /\ \A k \in S : l[k].put.parent \in S \cup {0}}

\* The commits c descends from, itself included: what is in every such set.
Ancestors(l, c) == {k \in Commits(l) : \A S \in Histories(l, c) : k \in S}

\* commitTree resolves its parent later than put read its tree, and forces the
\* ref without comparing.  Main may drop the commit of a registration that raced,
\* but the commit of one that ran alone stays in git log for good.
HistoryKept == solo \subseteq Ancestors(log, Main)

\* What the compose file says of a registration ("commits - visible to all
\* replicas"): a name whose 'node-registered' was emitted is in main's /swarm.
RegisteredVisible ==
    \A m \in acked : Now.swarm[m] # None

\* Once the HTTP server runs, a posted registration whose name is not a file is
\* committed, unless the platform is stopped first; no job waits for ever.
RegistrationSettles ==
    \A t \in Task : \A n \in Name \ FileName :
        (act[t].pc = "head" /\ act[t].name = n)
            ~> (/\ act[t].pc = "idle"
                /\ n \in acked \/ stage \in {"stopping", "closed", "down"})

\* A started platform reaches the HTTP server whatever an earlier crash left of
\* the seed, unless it is killed again; it never ends in 'fatal'.
BootCompletes == stage = "open" ~> stage \in {"http", "down"}

-----------------------------------------------------------------------------
(***************************************************************************)
(* The promise: a directory in which every registration takes effect on a  *)
(* snapshot of it (SwarmDirectory).                                        *)
(***************************************************************************)
Directory ==
    INSTANCE SwarmDirectory
        WITH dir  <- Now.swarm,
             past <- {TreeAt(log, v).swarm : v \in 0..Len(log)}

\* With any number of overlapping registrations each commit is one entry put
\* into some state /swarm has had: never a mixture, never an invented entry.
ImplementsSnapshots == Directory!SnapshotSpec
=============================================================================
