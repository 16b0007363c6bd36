------------------------- MODULE SwarmRegistry_proofs -------------------------
(***************************************************************************)
(* Theorems about SwarmRegistry, for any number of names, folders, tasks   *)
(* and registrations.  First its types, and that every version of the      *)
(* platform's drive can be read (EveryVersionResolves) because every put   *)
(* is preceded by the puts it names.  Then what registrations do to the    *)
(* tree main reads: a seeded tree stays complete (TreeComplete), a         *)
(* registration that ran alone is applied to the present tree              *)
(* (AloneOnPresent) and never undone (UncontendedKept), its commit stays   *)
(* in git log (HistoryKept), and each commit is one entry put into some    *)
(* listing there has been (ImplementsSnapshots).                           *)
(***************************************************************************)
EXTENDS SwarmRegistry, TLAPS

-----------------------------------------------------------------------------
(***************************************************************************)
(* The drive.                                                              *)
(***************************************************************************)
\* Every entry names a main that is a commit at or before it.
GoodHeads(l) ==
    \A k \in 1..Len(l) :
        /\ l[k].main \in 0..k
        /\ l[k].main # 0 => l[l[k].main].put.type = "commit"

\* The drive only grows.
Grows(l, m) == Len(l) <= Len(m) /\ \A k \in 1..Len(l) : m[k] = l[k]

\* What an object of each kind carries.
LEMMA ObjectShapes ==
    ASSUME NEW o \in Object
    PROVE  /\ o.type = "commit" => o.tree \in Tree /\ o.parent \in Nat
           /\ o.type = "ref" => o.commit \in Nat
BY DEF Object

\* The objects a job or the seed writes are objects.
LEMMA ObjectsWritten ==
    /\ \A f \in Folder : Meta(f) \in Object /\ Sub(f) \in Object
    /\ \A m \in Member, i \in Info : Blob(m, i) \in Object /\ Leaf(m, i) \in Object
    /\ \A t \in Tree : Dir(t) \in Object /\ Root(t) \in Object
    /\ \A t \in Tree, c \in Nat : Commit(t, c) \in Object
    /\ \A c \in Nat : Ref(c) \in Object
<1>1. \A f \in Folder : Meta(f) \in Object /\ Sub(f) \in Object
  BY DEF Object, Meta, Sub
<1>2. \A m \in Member, i \in Info : Blob(m, i) \in Object /\ Leaf(m, i) \in Object
  BY DEF Object, Blob, Leaf
<1>3. \A t \in Tree : Dir(t) \in Object
  BY DEF Object, Dir, Tree
<1>4. \A t \in Tree : Root(t) \in Object
  BY DEF Object, Root
<1>5. \A t \in Tree, c \in Nat : Commit(t, c) \in Object
  BY DEF Object, Commit
<1>6. \A c \in Nat : Ref(c) \in Object
  BY DEF Object, Ref
<1> QED BY <1>1, <1>2, <1>3, <1>4, <1>5, <1>6

\* Putting a member into a tree gives a tree.
LEMMA WithMemberType ==
    ASSUME NEW t \in Tree, NEW n \in Member, NEW i \in Info
    PROVE  WithMember(t, n, i) \in Tree
BY DEF WithMember, Tree, Listing

\* The empty tree and the seed's tree are trees.
LEMMA BaseTrees == EmptyTree \in Tree /\ SeedTree \in Tree
BY DEF EmptyTree, SeedTree, Tree, Listing

\* What any version reads is a tree.
LEMMA TreeAtType ==
    ASSUME NEW l \in Seq(Entry), GoodHeads(l), NEW v \in 0..Len(l)
    PROVE  /\ HeadAt(l, v) \in 0..v
           /\ HeadAt(l, v) # 0 => l[HeadAt(l, v)].put.type = "commit"
           /\ TreeAt(l, v) \in Tree
<1>1. /\ HeadAt(l, v) \in 0..v
      /\ HeadAt(l, v) # 0 => l[HeadAt(l, v)].put.type = "commit"
  BY DEF HeadAt, GoodHeads
<1>2. CASE HeadAt(l, v) = 0
  BY <1>1, <1>2, BaseTrees DEF TreeAt
<1>3. CASE HeadAt(l, v) # 0
  <2>1. l[HeadAt(l, v)] \in Entry
    BY <1>1, <1>3
  <2>2. l[HeadAt(l, v)].put \in Object
    BY <2>1 DEF Entry
  <2> QED BY <1>1, <1>3, <2>2, ObjectShapes DEF TreeAt
<1> QED BY <1>1, <1>2, <1>3

\* What a version reads does not change when the drive grows.
LEMMA GrowsKeepsVersions ==
    ASSUME NEW l \in Seq(Entry), NEW m \in Seq(Entry), GoodHeads(l), Grows(l, m),
           NEW v \in 0..Len(l)
    PROVE  HeadAt(m, v) = HeadAt(l, v) /\ TreeAt(m, v) = TreeAt(l, v)
<1>1. HeadAt(m, v) = HeadAt(l, v)
  BY DEF HeadAt, Grows
<1>2. HeadAt(l, v) # 0 => m[HeadAt(l, v)] = l[HeadAt(l, v)]
  BY TreeAtType DEF Grows
<1> QED BY <1>1, <1>2 DEF TreeAt

\* Writing an object: the drive grows by at most its entry, the object is
\* stored, and main and its tree stay as they were.
LEMMA WriteObjectFacts ==
    ASSUME NEW l \in Seq(Entry), GoodHeads(l), NEW o \in Object,
           NEW m, m = WriteObject(l, o)
    PROVE  /\ m \in Seq(Entry)
           /\ GoodHeads(m)
           /\ Grows(l, m) /\ Len(m) <= Len(l) + 1
           /\ o \in Stored(m, Len(m))
           /\ HeadAt(m, Len(m)) = HeadAt(l, Len(l))
           /\ TreeAt(m, Len(m)) = TreeAt(l, Len(l))
<1>1. CASE o \in Stored(l, Len(l))
  BY <1>1 DEF WriteObject, Grows
<1>2. CASE o \notin Stored(l, Len(l))
  <2> DEFINE h == HeadAt(l, Len(l))
             e == [put |-> o, main |-> h]
  <2>1. h \in 0..Len(l) /\ (h # 0 => l[h].put.type = "commit")
    BY TreeAtType
  <2>2. m = Append(l, e)
    BY <1>2 DEF WriteObject
  <2>3. e \in Entry
    BY <2>1 DEF Entry
  <2>4. m \in Seq(Entry) /\ Len(m) = Len(l) + 1 /\ m[Len(m)] = e
        /\ \A k \in 1..Len(l) : m[k] = l[k]
    BY <2>2, <2>3
  <2>5. Grows(l, m)
    BY <2>4 DEF Grows
  <2>6. HeadAt(m, Len(m)) = h
    BY <2>4 DEF HeadAt
  <2>7. TreeAt(m, Len(m)) = TreeAt(l, Len(l))
    BY <2>1, <2>4, <2>6 DEF TreeAt
  <2>8. GoodHeads(m)
    <3> SUFFICES ASSUME NEW k \in 1..Len(m)
                 PROVE  /\ m[k].main \in 0..k
                        /\ m[k].main # 0 => m[m[k].main].put.type = "commit"
      BY DEF GoodHeads
    <3>1. CASE k = Len(m)
      BY <3>1, <2>1, <2>4
    <3>2. CASE k # Len(m)
      <4>1. k \in 1..Len(l) /\ m[k] = l[k]
        BY <3>2, <2>4
      <4>2. l[k].main \in 0..k /\ (l[k].main # 0 => l[l[k].main].put.type = "commit")
        BY <4>1 DEF GoodHeads
      <4> QED BY <4>1, <4>2, <2>4
    <3> QED BY <3>1, <3>2
  <2>9. o \in Stored(m, Len(m))
    <3>1. m[Len(m)].put = o /\ Len(m) \in 1..Len(m)
      BY <2>4
    <3> QED BY <3>1 DEF Stored
  <2> QED BY <2>4, <2>5, <2>6, <2>7, <2>8, <2>9
<1> QED BY <1>1, <1>2

\* Forcing the ref to a commit: the drive grows by its entry and main reads
\* that commit's tree.
LEMMA WriteRefFacts ==
    ASSUME NEW l \in Seq(Entry), GoodHeads(l), NEW c \in 1..Len(l),
           l[c].put.type = "commit", NEW m, m = WriteRef(l, c)
    PROVE  /\ m \in Seq(Entry)
           /\ GoodHeads(m)
           /\ Grows(l, m)
           /\ Len(m) = Len(l) + 1
           /\ m[Len(m)].put = Ref(c)
           /\ HeadAt(m, Len(m)) = c
           /\ TreeAt(m, Len(m)) = l[c].put.tree
<1> DEFINE e == [put |-> Ref(c), main |-> c]
<1>1. e \in Entry
  BY ObjectsWritten DEF Entry
<1>2. m = Append(l, e)
  BY DEF WriteRef
<1>3. m \in Seq(Entry) /\ Len(m) = Len(l) + 1 /\ m[Len(m)] = e
      /\ \A k \in 1..Len(l) : m[k] = l[k]
  BY <1>1, <1>2
<1>4. HeadAt(m, Len(m)) = c
  BY <1>3 DEF HeadAt
<1>5. TreeAt(m, Len(m)) = l[c].put.tree
  BY <1>3, <1>4 DEF TreeAt
<1>6. GoodHeads(m)
  <2> SUFFICES ASSUME NEW k \in 1..Len(m)
               PROVE  /\ m[k].main \in 0..k
                      /\ m[k].main # 0 => m[m[k].main].put.type = "commit"
    BY DEF GoodHeads
  <2>1. CASE k = Len(m)
    BY <2>1, <1>3
  <2>2. CASE k # Len(m)
    <3>1. k \in 1..Len(l) /\ m[k] = l[k]
      BY <2>2, <1>3
    <3>2. l[k].main \in 0..k /\ (l[k].main # 0 => l[l[k].main].put.type = "commit")
      BY <3>1 DEF GoodHeads
    <3> QED BY <3>1, <3>2, <1>3
  <2> QED BY <2>1, <2>2
<1> QED BY <1>3, <1>4, <1>5, <1>6 DEF Grows
-----------------------------------------------------------------------------
(***************************************************************************)
(* Base: types, and what ties the jobs and the seed to the drive.          *)
(***************************************************************************)
\* A job about to force the ref holds the commit of its own tree.
JobCommit(u) ==
    act[u].pc = "ref" =>
        /\ act[u].commit \in 1..Len(log)
        /\ log[act[u].commit].put = Commit(NewTree(u), act[u].parent)

\* Seeding runs alone, before there is a main, and with the seed's tree.
SeedAlone ==
    /\ stage = "seedSub" => FolderOrder[at] # Swarm
    /\ stage \in {"seedMeta", "seedSub", "seedNode"} => Main = 0
    /\ stage \in {"browse", "serving", "http", "stopping", "closed"} => Main # 0
    /\ stage \notin {"http", "stopping", "closed"} =>
          \A t \in Task : act[t].pc = "idle"
    /\ act[Platform].pc # "idle" =>
          /\ stage = "seedNode"
          /\ act[Platform].pc # "head"
          /\ act[Platform].name = Platform
          /\ act[Platform].info = PlatformInfo
          /\ act[Platform].base = SeedTree

\* Registrations register names, never the platform's own.
TaskNames == \A t \in Task : act[t].pc # "idle" => act[t].name \in Name

Base ==
    /\ TypeOK
    /\ GoodHeads(log)
    /\ \A u \in Actor : JobCommit(u)
    /\ SeedAlone
    /\ TaskNames

\* The steps of one job that any actor can take.
LEMMA NextCases ==
    ASSUME Next
    PROVE  \/ Boot \/ CheckLog \/ SeedMeta \/ SeedSub \/ Browse \/ StartServer
           \/ Stop \/ CloseStore \/ Crash
           \/ \E t \in Task, n \in Name, i \in Info : Register(t, n, i)
           \/ \E t \in Task : ReadHead(t)
           \/ \E t \in Task : FailTask(t)
           \/ \E u \in Actor : \/ WriteBlob(u) \/ WriteLeaf(u) \/ WriteDir(u)
                               \/ WriteRoot(u) \/ ResolveRef(u)
                               \/ WriteCommit(u) \/ UpdateRef(u)
BY DEF Next, BootStep, TaskStep, JobStep, Actor

\* An idle job is a job.
LEMMA IdleType == Idle \in Job
<1>1. PlatformInfo \in Info /\ Platform \in Member
  BY RegistryAssumption DEF Member
<1> QED BY <1>1, BaseTrees DEF Idle, Job, Step

\* A job's new tree is a tree.
LEMMA NewTreeType ==
    ASSUME TypeOK, NEW u \in Actor
    PROVE  NewTree(u) \in Tree
BY WithMemberType DEF NewTree, TypeOK, Job

\* The steps that put one object for job u without moving main.
LEMMA BaseWrite ==
    ASSUME Base, NEW u \in Actor, NEW pc \in Step, NEW next \in Step \ {"ref", "idle", "head"},
           NEW o \in Object, pc # "idle", Write(u, pc, next, o)
    PROVE  Base'
<1> USE DEF Base
<1>1. log' = WriteObject(log, o) /\ log \in Seq(Entry)
  BY DEF Write, TypeOK
<1>2. /\ log' \in Seq(Entry) /\ GoodHeads(log') /\ Grows(log, log')
      /\ Main' = Main
  BY <1>1, WriteObjectFacts DEF Main
<1>3. /\ act' = [act EXCEPT ![u].pc = next] /\ act[u].pc = pc
      /\ UNCHANGED <<stage, at, regs, raced, kept, solo, acked>>
  BY DEF Write, ghosts
<1>4. TypeOK'
  BY <1>2, <1>3 DEF TypeOK, Job
<1>5. \A w \in Actor : JobCommit(w)'
  <2> SUFFICES ASSUME NEW w \in Actor, act'[w].pc = "ref"
               PROVE  /\ act'[w].commit \in 1..Len(log')
                      /\ log'[act'[w].commit].put = Commit(NewTree(w)', act'[w].parent)
    BY DEF JobCommit
  <2>1. w # u /\ act'[w] = act[w]
    BY <1>3 DEF TypeOK, Job
  <2>2. NewTree(w)' = NewTree(w)
    BY <2>1 DEF NewTree
  <2> QED BY <1>2, <2>1, <2>2 DEF JobCommit, Grows, TypeOK
<1>6. SeedAlone'
  BY <1>2, <1>3 DEF SeedAlone, TypeOK, Job, Actor, Step
<1>7. TaskNames'
  BY <1>3 DEF TaskNames, TypeOK, Job, Actor
<1> QED BY <1>2, <1>4, <1>5, <1>6, <1>7

\* The initial state.
LEMMA BaseInit == Init => Base
<1> SUFFICES ASSUME Init PROVE Base
  OBVIOUS
<1>1. log = <<>> /\ Len(log) = 0 /\ log \in Seq(Entry) /\ Main = 0
  BY DEF Init, Main, HeadAt
<1>2. act = [u \in Actor |-> Idle] /\ Idle.pc = "idle"
  BY DEF Init, Idle
<1>3. TypeOK
  BY <1>1, <1>2, IdleType, RegistryAssumption
  DEF Init, TypeOK, Stage, Listing, Member
<1>4. GoodHeads(log)
  BY <1>1 DEF GoodHeads
<1>5. (\A u \in Actor : JobCommit(u)) /\ SeedAlone /\ TaskNames
  BY <1>1, <1>2 DEF Init, JobCommit, SeedAlone, TaskNames, Actor
<1> QED BY <1>3, <1>4, <1>5 DEF Base

\* Every step but those that write leaves the drive alone, and JobCommit with it.
LEMMA JobCommitKept ==
    ASSUME \A u \in Actor : JobCommit(u), log' = log, NEW w \in Actor,
           act'[w] = act[w] \/ act'[w].pc # "ref"
    PROVE  JobCommit(w)'
BY DEF JobCommit, NewTree

\* Every step keeps Base.
LEMMA BaseStep == Base /\ [Next]_vars => Base'
<1> SUFFICES ASSUME Base, [Next]_vars PROVE Base'
  OBVIOUS
<1>0. /\ TypeOK /\ GoodHeads(log) /\ SeedAlone /\ TaskNames
      /\ \A u \in Actor : JobCommit(u)
  BY DEF Base
<1>a. /\ log \in Seq(Entry) /\ act \in [Actor -> Job]
      /\ at \in 1..Len(FolderOrder) /\ FolderOrder[at] \in Folder
      /\ Platform \in Actor /\ Task \subseteq Actor /\ Name \subseteq Member
  BY <1>0, RegistryAssumption DEF TypeOK, Actor, Member
<1>b. Main \in 0..Len(log) /\ Now \in Tree
  BY <1>0, <1>a, TreeAtType DEF Main, Now
<1>1. CASE Boot
  <2>1. \A u \in Actor : JobCommit(u)'
    BY <1>0, <1>1, JobCommitKept DEF Boot
  <2> QED BY <1>0, <1>1, <2>1 DEF Boot, ghosts, Base, TypeOK, Stage, SeedAlone, TaskNames, Main
<1>2. CASE CheckLog
  <2>1. \A u \in Actor : JobCommit(u)'
    BY <1>0, <1>2, JobCommitKept DEF CheckLog
  <2> QED BY <1>0, <1>2, <2>1, RegistryAssumption
          DEF CheckLog, ghosts, Base, TypeOK, Stage, SeedAlone, TaskNames, Main
<1>3. CASE SeedMeta
  <2>1. /\ log' \in Seq(Entry) /\ GoodHeads(log') /\ Grows(log, log')
        /\ Main' = Main
    BY <1>0, <1>a, <1>3, ObjectsWritten, WriteObjectFacts DEF SeedMeta, Main
  <2>2. act' \in [Actor -> Job]
    <3>1. [Idle EXCEPT !.pc = "blob", !.base = SeedTree] \in Job
      BY IdleType, BaseTrees DEF Job, Step
    <3> QED BY <1>a, <1>3, <3>1 DEF SeedMeta
  <2>3. TypeOK'
    BY <1>0, <1>3, <2>1, <2>2 DEF SeedMeta, ghosts, TypeOK, Stage
  <2>4. \A u \in Actor : act'[u] = act[u] \/ act'[u].pc = "blob"
    BY <1>a, <1>3, IdleType DEF SeedMeta, Job
  <2>5. \A u \in Actor : JobCommit(u)'
    <3> SUFFICES ASSUME NEW u \in Actor, act'[u].pc = "ref"
                 PROVE  /\ act'[u].commit \in 1..Len(log')
                        /\ log'[act'[u].commit].put = Commit(NewTree(u)', act'[u].parent)
      BY DEF JobCommit
    <3>1. act'[u] = act[u] /\ NewTree(u)' = NewTree(u)
      BY <2>4 DEF NewTree
    <3> QED BY <1>0, <1>a, <2>1, <3>1 DEF JobCommit, Grows
  <2>6. SeedAlone'
    <3>1. CASE FolderOrder[at] = Swarm
      <4>1. act'[Platform] = [Idle EXCEPT !.pc = "blob", !.base = SeedTree]
            /\ stage' = "seedNode" /\ at' = at
            /\ \A t \in Task : act'[t] = act[t]
        BY <1>a, <1>3, <3>1, RegistryAssumption DEF SeedMeta
      <4>2. act'[Platform].name = Platform /\ act'[Platform].info = PlatformInfo
            /\ act'[Platform].base = SeedTree /\ act'[Platform].pc = "blob"
        BY <4>1 DEF Idle
      <4> QED BY <1>0, <1>3, <2>1, <4>1, <4>2 DEF SeedMeta, SeedAlone
    <3>2. CASE FolderOrder[at] # Swarm
      BY <1>0, <1>3, <2>1, <3>2 DEF SeedMeta, SeedAlone
    <3> QED BY <3>1, <3>2
  <2>7. TaskNames'
    <3>1. \A t \in Task : act'[t] = act[t]
      BY <1>a, <1>3, RegistryAssumption DEF SeedMeta
    <3> QED BY <1>0, <3>1 DEF TaskNames
  <2> QED BY <2>1, <2>3, <2>5, <2>6, <2>7 DEF Base
<1>4. CASE SeedSub
  <2>1. /\ log' \in Seq(Entry) /\ GoodHeads(log') /\ Grows(log, log')
        /\ Main' = Main
    BY <1>0, <1>a, <1>4, ObjectsWritten, WriteObjectFacts DEF SeedSub, Main
  <2>2. at # Len(FolderOrder) /\ at + 1 \in 1..Len(FolderOrder)
    BY <1>0, <1>a, <1>4, RegistryAssumption DEF SeedSub, SeedAlone
  <2>3. TypeOK'
    BY <1>0, <1>4, <2>1, <2>2 DEF SeedSub, ghosts, TypeOK, Stage
  <2>4. \A u \in Actor : JobCommit(u)'
    BY <1>0, <1>a, <1>4, <2>1 DEF SeedSub, JobCommit, NewTree, Grows
  <2> QED BY <1>0, <1>4, <2>1, <2>3, <2>4 DEF SeedSub, ghosts, Base, SeedAlone, TaskNames
<1>5. CASE Browse
  <2>1. \A u \in Actor : JobCommit(u)'
    BY <1>0, <1>5, JobCommitKept DEF Browse
  <2> QED BY <1>0, <1>5, <2>1 DEF Browse, ghosts, Base, TypeOK, Stage, SeedAlone, TaskNames, Main
<1>6. CASE StartServer
  <2>1. \A u \in Actor : JobCommit(u)'
    BY <1>0, <1>6, JobCommitKept DEF StartServer
  <2> QED BY <1>0, <1>6, <2>1 DEF StartServer, ghosts, Base, TypeOK, Stage, SeedAlone, TaskNames, Main
<1>7. CASE Stop
  <2>1. \A u \in Actor : JobCommit(u)'
    BY <1>0, <1>7, JobCommitKept DEF Stop
  <2> QED BY <1>0, <1>7, <2>1 DEF Stop, ghosts, Base, TypeOK, Stage, SeedAlone, TaskNames, Main
<1>8. CASE CloseStore
  <2>1. \A u \in Actor : JobCommit(u)'
    BY <1>0, <1>8, JobCommitKept DEF CloseStore
  <2> QED BY <1>0, <1>8, <2>1 DEF CloseStore, ghosts, Base, TypeOK, Stage, SeedAlone, TaskNames, Main
<1>9. CASE Crash
  <2>1. \A u \in Actor : act'[u] = Idle /\ act'[u].pc = "idle"
    BY <1>9 DEF Crash, Idle
  <2>2. \A u \in Actor : JobCommit(u)'
    BY <2>1 DEF JobCommit
  <2>3. TypeOK'
    BY <1>0, <1>9, IdleType DEF Crash, TypeOK, Stage
  <2>4. SeedAlone' /\ TaskNames'
    BY <1>a, <1>9, <2>1 DEF Crash, SeedAlone, TaskNames
  <2> QED BY <1>0, <1>9, <2>2, <2>3, <2>4 DEF Crash, Base
<1>10. CASE \E t \in Task, n \in Name, i \in Info : Register(t, n, i)
  <2>1. PICK t \in Task, n \in Name, i \in Info : Register(t, n, i)
    BY <1>10
  <2> DEFINE job == [Idle EXCEPT !.pc = "head", !.name = n, !.info = i]
  <2>2. job \in Job /\ job.pc = "head" /\ job.name = n
    BY <1>a, IdleType DEF Job, Step
  <2>3. act' = [act EXCEPT ![t] = job] /\ log' = log /\ stage' = stage /\ at' = at
        /\ stage \in {"http", "stopping", "closed"} /\ t # Platform
    BY <2>1, RegistryAssumption DEF Register
  <2>4. \A u \in Actor : act'[u] = IF u = t THEN job ELSE act[u]
    BY <1>a, <2>3
  <2>5. TypeOK'
    BY <1>0, <1>a, <2>1, <2>2, <2>3, RegistryAssumption DEF Register, ghosts, TypeOK
  <2>6. \A u \in Actor : JobCommit(u)'
    BY <1>0, <2>2, <2>3, <2>4, JobCommitKept
  <2>7. SeedAlone' /\ TaskNames'
    BY <1>0, <1>a, <2>2, <2>3, <2>4 DEF SeedAlone, TaskNames, Main
  <2> QED BY <1>0, <2>3, <2>5, <2>6, <2>7 DEF Base
<1>11. CASE \E t \in Task : ReadHead(t)
  <2>1. PICK t \in Task : ReadHead(t)
    BY <1>11
  <2> DEFINE base == IF stage = "closed" THEN EmptyTree ELSE Now
  <2>2. act' = [act EXCEPT ![t].pc = "blob", ![t].base = base] /\ log' = log
        /\ stage' = stage /\ at' = at /\ act[t].pc = "head" /\ t # Platform
    BY <2>1, RegistryAssumption DEF ReadHead, ReadHeadAs
  <2>3. act' \in [Actor -> Job]
    BY <1>a, <1>b, <2>2, BaseTrees, ZenonT(40) DEF Job, Step
  <2>4. act'[t].pc = "blob" /\ act'[t].name = act[t].name
        /\ \A u \in Actor \ {t} : act'[u] = act[u]
    BY <1>a, <2>2 DEF Job
  <2>5. TypeOK'
    BY <1>0, <1>a, <2>1, <2>3 DEF ReadHead, ReadHeadAs, TypeOK, Holding
  <2>6. \A u \in Actor : JobCommit(u)'
    BY <1>0, <2>2, <2>4, JobCommitKept
  <2>7. SeedAlone' /\ TaskNames'
    BY <1>0, <1>a, <2>2, <2>4 DEF SeedAlone, TaskNames, Main
  <2> QED BY <1>0, <2>2, <2>5, <2>6, <2>7 DEF Base
<1>12. CASE \E t \in Task : FailTask(t)
  <2>1. PICK t \in Task : FailTask(t)
    BY <1>12
  <2>2. act' = [act EXCEPT ![t] = Idle] /\ log' = log /\ stage' = stage /\ at' = at
        /\ Idle.pc = "idle" /\ t # Platform
    BY <2>1, RegistryAssumption DEF FailTask, Idle
  <2>3. \A u \in Actor : act'[u] = IF u = t THEN Idle ELSE act[u]
    BY <1>a, <2>2
  <2>4. TypeOK'
    BY <1>0, <1>a, <2>1, <2>2, IdleType DEF FailTask, TypeOK
  <2>5. \A u \in Actor : JobCommit(u)'
    BY <1>0, <2>2, <2>3, JobCommitKept
  <2>6. SeedAlone' /\ TaskNames'
    BY <1>0, <1>a, <2>2, <2>3 DEF SeedAlone, TaskNames, Main
  <2> QED BY <1>0, <2>2, <2>4, <2>5, <2>6 DEF Base
<1>13. ASSUME NEW u \in Actor,
              WriteBlob(u) \/ WriteLeaf(u) \/ WriteDir(u) \/ WriteRoot(u)
       PROVE  Base'
  <2>1. NewTree(u) \in Tree /\ act[u].name \in Member /\ act[u].info \in Info
    BY <1>0, <1>a, NewTreeType DEF Job
  <2>2. CASE WriteBlob(u)
    BY <2>1, <2>2, ObjectsWritten, BaseWrite DEF WriteBlob, Step
  <2>3. CASE WriteLeaf(u)
    BY <2>1, <2>3, ObjectsWritten, BaseWrite DEF WriteLeaf, Step
  <2>4. CASE WriteDir(u)
    BY <2>1, <2>4, ObjectsWritten, BaseWrite DEF WriteDir, Step
  <2>5. CASE WriteRoot(u)
    BY <2>1, <2>5, ObjectsWritten, BaseWrite DEF WriteRoot, Step
  <2> QED BY <1>13, <2>2, <2>3, <2>4, <2>5
<1>14. ASSUME NEW u \in Actor, ResolveRef(u) PROVE Base'
  <2>1. act' = [act EXCEPT ![u].pc = "commit",
                           ![u].parent = IF stage = "closed" THEN 0 ELSE Main]
        /\ log' = log /\ stage' = stage /\ at' = at /\ act[u].pc = "resolve"
    BY <1>14 DEF ResolveRef
  <2>2. act' \in [Actor -> Job]
    <3> DEFINE p == IF stage = "closed" THEN 0 ELSE Main
    <3>1. p \in Nat
      BY <1>b
    <3>2. [act[u] EXCEPT !.pc = "commit", !.parent = p] \in Job
      BY <1>a, <3>1 DEF Job, Step
    <3>3. act' = [act EXCEPT ![u] = [act[u] EXCEPT !.pc = "commit", !.parent = p]]
      BY <2>1
    <3> QED BY <1>a, <3>2, <3>3
  <2>3. act'[u].pc = "commit" /\ act'[u].name = act[u].name /\ act'[u].info = act[u].info
        /\ act'[u].base = act[u].base /\ \A w \in Actor \ {u} : act'[w] = act[w]
    BY <1>a, <2>1 DEF Job
  <2>4. TypeOK'
    BY <1>0, <1>14, <2>2 DEF ResolveRef, ghosts, TypeOK
  <2>5. \A w \in Actor : JobCommit(w)'
    BY <1>0, <2>1, <2>3, JobCommitKept
  <2>6. SeedAlone' /\ TaskNames'
    BY <1>0, <1>a, <2>1, <2>3 DEF SeedAlone, TaskNames, Main
  <2> QED BY <1>0, <2>1, <2>4, <2>5, <2>6 DEF Base
<1>15. ASSUME NEW u \in Actor, WriteCommit(u) PROVE Base'
  <2> DEFINE o == Commit(NewTree(u), act[u].parent)
  <2>1. PICK c \in 1..Len(log') :
           log'[c].put = o /\ act' = [act EXCEPT ![u].pc = "ref", ![u].commit = c]
    BY <1>15 DEF WriteCommit
  <2>2. act[u].pc = "commit" /\ log' = WriteObject(log, o)
        /\ stage' = stage /\ at' = at
    BY <1>15 DEF WriteCommit
  <2>3. o \in Object
    BY <1>0, <1>a, NewTreeType, ObjectsWritten DEF Job
  <2>4. /\ log' \in Seq(Entry) /\ GoodHeads(log') /\ Grows(log, log')
        /\ Main' = Main
    BY <1>0, <1>a, <2>2, <2>3, WriteObjectFacts DEF Main
  <2>5. act' \in [Actor -> Job]
    <3>1. c \in Nat
      OBVIOUS
    <3>2. [act[u] EXCEPT !.pc = "ref", !.commit = c] \in Job
      BY <1>a, <3>1 DEF Job, Step
    <3>3. act' = [act EXCEPT ![u] = [act[u] EXCEPT !.pc = "ref", !.commit = c]]
      BY <2>1
    <3> QED BY <1>a, <3>2, <3>3
  <2>6. /\ act'[u].pc = "ref" /\ act'[u].commit = c /\ act'[u].parent = act[u].parent
        /\ act'[u].name = act[u].name /\ act'[u].info = act[u].info
        /\ act'[u].base = act[u].base /\ \A w \in Actor \ {u} : act'[w] = act[w]
    BY <1>a, <2>1 DEF Job
  <2>7. TypeOK'
    BY <1>0, <1>15, <2>4, <2>5 DEF WriteCommit, ghosts, TypeOK
  <2>8. \A w \in Actor : JobCommit(w)'
    <3> SUFFICES ASSUME NEW w \in Actor, act'[w].pc = "ref"
                 PROVE  /\ act'[w].commit \in 1..Len(log')
                        /\ log'[act'[w].commit].put = Commit(NewTree(w)', act'[w].parent)
      BY DEF JobCommit
    <3>1. NewTree(w)' = NewTree(w)
      BY <2>6 DEF NewTree
    <3>2. CASE w = u
      BY <2>1, <2>6, <3>1, <3>2
    <3>3. CASE w # u
      BY <1>0, <1>a, <2>4, <2>6, <3>1, <3>3 DEF JobCommit, Grows
    <3> QED BY <3>2, <3>3
  <2>9. SeedAlone' /\ TaskNames'
    BY <1>0, <1>a, <2>2, <2>4, <2>6 DEF SeedAlone, TaskNames
  <2> QED BY <2>4, <2>7, <2>8, <2>9 DEF Base
<1>16. ASSUME NEW u \in Actor, UpdateRef(u) PROVE Base'
  <2> DEFINE c == act[u].commit
  <2>1. /\ act[u].pc = "ref" /\ log' = WriteRef(log, c) /\ at' = at
        /\ act' = [act EXCEPT ![u] = Idle] /\ Idle.pc = "idle"
        /\ stage' = IF u = Platform THEN "browse" ELSE stage
    BY <1>16 DEF UpdateRef, Idle
  <2>2. c \in 1..Len(log) /\ log[c].put.type = "commit"
    <3>1. JobCommit(u)
      BY <1>0
    <3>2. c \in 1..Len(log) /\ log[c].put = Commit(NewTree(u), act[u].parent)
      BY <2>1, <3>1 DEF JobCommit
    <3> QED BY <3>2 DEF Commit
  <2>3. /\ log' \in Seq(Entry) /\ GoodHeads(log') /\ Grows(log, log') /\ Main' = c
    BY <1>0, <1>a, <2>1, <2>2, WriteRefFacts DEF Main
  <2>4. \A w \in Actor : act'[w] = IF w = u THEN Idle ELSE act[w]
    BY <1>a, <2>1
  <2>5. act[u].name \in Member /\ act[u].info \in Info
    BY <1>a DEF Job
  <2>6. TypeOK'
    <3>1. act' \in [Actor -> Job] /\ stage' \in Stage
      BY <1>0, <1>a, <2>1, IdleType DEF TypeOK, Stage
    <3>2. kept' \in Listing
      BY <1>0, <1>16, <2>5 DEF UpdateRef, TypeOK, Listing
    <3>3. solo' \subseteq Nat /\ acked' \subseteq Member /\ raced' \subseteq Actor
      <4>1. solo' = IF u \in raced THEN solo ELSE solo \cup {c}
        BY <1>16 DEF UpdateRef
      <4>2. c \in Nat
        BY <2>2
      <4>3. acked' = acked \cup {act[u].name} /\ raced' = raced \ {u}
        BY <1>16 DEF UpdateRef
      <4> QED BY <1>0, <2>5, <4>1, <4>2, <4>3 DEF TypeOK
    <3> QED BY <1>0, <1>16, <2>1, <2>3, <3>1, <3>2, <3>3 DEF UpdateRef, TypeOK
  <2>7. \A w \in Actor : JobCommit(w)'
    <3> SUFFICES ASSUME NEW w \in Actor, act'[w].pc = "ref"
                 PROVE  /\ act'[w].commit \in 1..Len(log')
                        /\ log'[act'[w].commit].put = Commit(NewTree(w)', act'[w].parent)
      BY DEF JobCommit
    <3>1. act'[w] = act[w] /\ NewTree(w)' = NewTree(w)
      BY <2>1, <2>4 DEF NewTree
    <3> QED BY <1>0, <1>a, <2>3, <3>1 DEF JobCommit, Grows
  <2>8. SeedAlone'
    <3>1. CASE u = Platform
      BY <1>0, <1>a, <2>1, <2>2, <2>3, <2>4, <3>1, RegistryAssumption DEF SeedAlone
    <3>2. CASE u # Platform
      <4>1. u \in Task /\ stage \in {"http", "stopping", "closed"}
        BY <1>0, <2>1, <3>2 DEF Actor, SeedAlone
      <4> QED BY <1>0, <1>a, <2>1, <2>2, <2>3, <2>4, <3>2, <4>1 DEF SeedAlone
    <3> QED BY <3>1, <3>2
  <2>9. TaskNames'
    BY <1>0, <1>a, <2>1, <2>4 DEF TaskNames
  <2> QED BY <2>3, <2>6, <2>7, <2>8, <2>9 DEF Base
<1>17. CASE UNCHANGED vars
  BY <1>0, <1>17 DEF vars, Base, TypeOK, JobCommit, NewTree, SeedAlone, TaskNames, Main
<1> QED BY <1>1, <1>2, <1>3, <1>4, <1>5, <1>6, <1>7, <1>8, <1>9, <1>10, <1>11,
           <1>12, <1>13, <1>14, <1>15, <1>16, <1>17, NextCases

\* Base holds in every reachable state.
THEOREM BaseInvariant == Spec => []Base
BY BaseInit, BaseStep, PTL DEF Spec

\* The variables keep their shapes, for any names, folders and bounds.
THEOREM TypeCorrect == Spec => []TypeOK
<1>1. Base => TypeOK
  BY DEF Base
<1> QED BY <1>1, BaseInvariant, PTL

-----------------------------------------------------------------------------
(***************************************************************************)
(* The drive.                                                              *)
(***************************************************************************)
\* The commit's parent is an earlier commit or none.
ParentBefore(l, o, k) ==
    o.type = "commit" =>
        /\ o.parent \in 0..(k - 1)
        /\ o.parent # 0 => l[o.parent].put.type = "commit"

\* Every entry comes after all it names.
Closed(l) ==
    \A k \in 1..Len(l) :
        /\ Needs(l[k].put) \subseteq Stored(l, k - 1)
        /\ ParentBefore(l, l[k].put, k)

\* A longer prefix stores more.
LEMMA StoredMonotone ==
    ASSUME NEW l, NEW v \in Nat, NEW w \in Nat, v <= w
    PROVE  Stored(l, v) \subseteq Stored(l, w)
BY DEF Stored

\* A prefix stores the same however far the drive has grown since.
LEMMA StoredGrows ==
    ASSUME NEW l \in Seq(Entry), NEW m \in Seq(Entry), Grows(l, m), NEW v \in 0..Len(l)
    PROVE  Stored(m, v) = Stored(l, v)
BY DEF Stored, Grows

\* The growing drive stores what it stored.
LEMMA GrowsStores ==
    ASSUME NEW l \in Seq(Entry), NEW m \in Seq(Entry), Grows(l, m)
    PROVE  Stored(l, Len(l)) \subseteq Stored(m, Len(m))
BY DEF Stored, Grows

\* In a closed drive what a stored object names is stored in the same prefix.
LEMMA StoredNeeds ==
    ASSUME NEW l \in Seq(Entry), Closed(l), NEW v \in 0..Len(l), NEW o \in Stored(l, v)
    PROVE  Needs(o) \subseteq Stored(l, v)
<1>1. PICK k \in 1..v : l[k].put = o
  BY DEF Stored
<1>2. Needs(o) \subseteq Stored(l, k - 1)
  BY <1>1 DEF Closed
<1>3. Stored(l, k - 1) \subseteq Stored(l, v)
  BY <1>1, StoredMonotone
<1> QED BY <1>2, <1>3

\* What the objects on the way from a commit to a member's blob name.
LEMMA NeedsOf ==
    /\ \A t, c : Needs(Commit(t, c)) = {Root(t)}
    /\ \A t : Needs(Root(t)) = RootNeeds(t)
    /\ \A t : Needs(Dir(t)) = DirNeeds(Swarm \in t.folders, t.swarm)
    /\ \A f : Needs(Sub(f)) = {Meta(f)} /\ Needs(Meta(f)) = {}
    /\ \A m, i : Needs(Leaf(m, i)) = {Blob(m, i)} /\ Needs(Blob(m, i)) = {}
    /\ \A c : Needs(Ref(c)) = {}
BY DEF Needs, Commit, Root, Dir, Sub, Meta, Leaf, Blob, Ref

\* In a closed drive every version that has a main resolves.
LEMMA ClosedResolves ==
    ASSUME NEW l \in Seq(Entry), GoodHeads(l), Closed(l),
           NEW v \in 1..Len(l), l[v].main # 0
    PROVE  Resolves(l, v)
<1> DEFINE c == HeadAt(l, v)
           t == l[c].put.tree
           S == Stored(l, v)
<1>1. c = l[v].main /\ c \in 1..v /\ l[c].put.type = "commit"
  BY DEF HeadAt, GoodHeads
<1>2. \A k \in 1..v : l[k].put.type = "commit" =>
          /\ l[k].put.parent \in 0..(k - 1)
          /\ l[k].put.parent # 0 => l[l[k].put.parent].put.type = "commit"
  BY DEF Closed, ParentBefore
<1>3. l[c].put \in S
  BY <1>1 DEF Stored
<1>4. Needs(l[c].put) = {Root(t)}
  BY <1>1 DEF Needs
<1>5. Root(t) \in S
  BY <1>3, <1>4, StoredNeeds
<1>6. RootNeeds(t) \subseteq S
  BY <1>5, StoredNeeds, NeedsOf
<1>7. Dir(t) \in S /\ \A f \in t.folders \ {Swarm} : Sub(f) \in S
  BY <1>6 DEF RootNeeds
<1>8. DirNeeds(Swarm \in t.folders, t.swarm) \subseteq S
  BY <1>7, StoredNeeds, NeedsOf
<1>9. /\ Swarm \in t.folders => Meta(Swarm) \in S
      /\ \A m \in Member : t.swarm[m] # None => Leaf(m, t.swarm[m]) \in S
  BY <1>8 DEF DirNeeds
<1>10. \A f \in t.folders \ {Swarm} : Meta(f) \in S
  BY <1>7, StoredNeeds, NeedsOf
<1>11. \A m \in Member : t.swarm[m] # None => Blob(m, t.swarm[m]) \in S
  BY <1>9, StoredNeeds, NeedsOf
<1> QED BY <1>1, <1>2, <1>5, <1>7, <1>9, <1>10, <1>11 DEF Resolves

\* Appending an entry whose object names only what is stored keeps a drive closed.
LEMMA AppendClosed ==
    ASSUME NEW l \in Seq(Entry), Closed(l), NEW e \in Entry, NEW m, m = Append(l, e),
           Needs(e.put) \subseteq Stored(l, Len(l)),
           ParentBefore(l, e.put, Len(l) + 1)
    PROVE  Closed(m)
<1>1. m \in Seq(Entry) /\ Len(m) = Len(l) + 1 /\ m[Len(m)] = e
      /\ \A k \in 1..Len(l) : m[k] = l[k]
  OBVIOUS
<1>2. Grows(l, m)
  BY <1>1 DEF Grows
<1> SUFFICES ASSUME NEW k \in 1..Len(m)
             PROVE  /\ Needs(m[k].put) \subseteq Stored(m, k - 1)
                    /\ ParentBefore(m, m[k].put, k)
  BY DEF Closed
<1>3. Stored(m, k - 1) = Stored(l, k - 1)
  <2>1. k - 1 \in 0..Len(l)
    BY <1>1
  <2> QED BY <1>1, <1>2, <2>1, StoredGrows
<1>4. CASE k = Len(m)
  BY <1>1, <1>3, <1>4 DEF ParentBefore
<1>5. CASE k # Len(m)
  <2>1. k \in 1..Len(l) /\ m[k] = l[k]
    BY <1>1, <1>5
  <2>2. Needs(l[k].put) \subseteq Stored(l, k - 1) /\ ParentBefore(l, l[k].put, k)
    BY <2>1 DEF Closed
  <2> QED BY <1>1, <1>3, <2>1, <2>2 DEF ParentBefore
<1> QED BY <1>4, <1>5

\* Writing an object after what it names keeps a drive closed.
LEMMA WriteObjectClosed ==
    ASSUME NEW l \in Seq(Entry), GoodHeads(l), Closed(l), NEW o \in Object,
           Needs(o) \subseteq Stored(l, Len(l)), ParentBefore(l, o, Len(l) + 1)
    PROVE  Closed(WriteObject(l, o))
<1>1. CASE o \in Stored(l, Len(l))
  BY <1>1 DEF WriteObject
<1>2. CASE o \notin Stored(l, Len(l))
  <2> DEFINE e == [put |-> o, main |-> HeadAt(l, Len(l))]
  <2>1. HeadAt(l, Len(l)) \in Nat
    BY TreeAtType
  <2>2. e \in Entry /\ e.put = o
    BY <2>1 DEF Entry
  <2> QED BY <1>2, <2>2, AppendClosed DEF WriteObject
<1> QED BY <1>1, <1>2

\* So does the ref.
LEMMA WriteRefClosed ==
    ASSUME NEW l \in Seq(Entry), Closed(l), NEW c \in Nat
    PROVE  Closed(WriteRef(l, c))
<1> DEFINE e == [put |-> Ref(c), main |-> c]
<1>1. e \in Entry /\ Needs(e.put) = {} /\ e.put.type # "commit"
  BY ObjectsWritten, NeedsOf DEF Entry, Ref
<1> QED BY <1>1, AppendClosed DEF WriteRef, ParentBefore

-----------------------------------------------------------------------------
(***************************************************************************)
(* The jobs and the seed.                                                  *)
(***************************************************************************)
Have == Stored(log, Len(log))

\* All a new root tree made from t will name, but for the new member's leaf.
BaseStored(t, S) ==
    /\ Swarm \in t.folders => Meta(Swarm) \in S
    /\ \A f \in t.folders \ {Swarm} : Sub(f) \in S
    /\ \A m \in Member : t.swarm[m] # None => Leaf(m, t.swarm[m]) \in S

\* What job j has found and put before its step.
JobStored(j, S, l) ==
    /\ j.pc \notin {"idle", "head"} => BaseStored(j.base, S)
    /\ j.pc = "leaf" => Blob(j.name, j.info) \in S
    /\ j.pc \notin {"idle", "head", "blob", "leaf"} => Leaf(j.name, j.info) \in S
    /\ j.pc = "root" => Dir(WithMember(j.base, j.name, j.info)) \in S
    /\ j.pc \in {"resolve", "commit", "ref"} =>
          Root(WithMember(j.base, j.name, j.info)) \in S
    /\ j.pc \in {"commit", "ref"} =>
          /\ j.parent \in 0..Len(l)
          /\ j.parent # 0 => l[j.parent].put.type = "commit"

\* What seedTree has put before folder number at.
SeedStored ==
    /\ stage \in {"seedMeta", "seedSub"} =>
          \A k \in 1..(at - 1) : Sub(FolderOrder[k]) \in Have
    /\ stage = "seedSub" => Meta(FolderOrder[at]) \in Have

Ordered ==
    /\ Closed(log)
    /\ \A u \in Actor : JobStored(act[u], Have, log)
    /\ SeedStored

\* A job's findings outlive the growth of the drive.
LEMMA JobStoredKept ==
    ASSUME NEW j \in Job, NEW l \in Seq(Entry), NEW m \in Seq(Entry), Grows(l, m),
           JobStored(j, Stored(l, Len(l)), l)
    PROVE  JobStored(j, Stored(m, Len(m)), m)
<1>1. Stored(l, Len(l)) \subseteq Stored(m, Len(m))
  BY GrowsStores
<1>2. Len(l) <= Len(m) /\ \A k \in 1..Len(l) : m[k] = l[k]
  BY DEF Grows
<1> QED BY <1>1, <1>2 DEF JobStored, BaseStored

\* What main reads is all stored.
LEMMA NowStored ==
    ASSUME Base, Closed(log)
    PROVE  BaseStored(Now, Have)
<1>1. log \in Seq(Entry) /\ GoodHeads(log)
  BY DEF Base, TypeOK
<1>2. CASE Main = 0
  <2>1. Now = EmptyTree
    BY <1>2 DEF Main, Now, TreeAt
  <2> QED BY <2>1 DEF BaseStored, EmptyTree
<1>3. CASE Main # 0
  <2>1. Len(log) \in 1..Len(log) /\ log[Len(log)].main # 0
    BY <1>1, <1>3 DEF Main, HeadAt
  <2>2. Resolves(log, Len(log))
    BY <1>1, <2>1, ClosedResolves
  <2>3. Now = log[HeadAt(log, Len(log))].put.tree
    BY <1>3 DEF Main, Now, TreeAt
  <2> QED BY <2>2, <2>3 DEF Resolves, BaseStored, Have
<1> QED BY <1>2, <1>3

\* A new root tree's swarm folder and the tree itself name what is stored.
LEMMA NewTreeNeeds ==
    ASSUME NEW t \in Tree, NEW n \in Member, NEW i \in Info, NEW S,
           BaseStored(t, S), Leaf(n, i) \in S
    PROVE  /\ Needs(Dir(WithMember(t, n, i))) \subseteq S
           /\ Dir(WithMember(t, n, i)) \in S => Needs(Root(WithMember(t, n, i))) \subseteq S
<1> DEFINE w == WithMember(t, n, i)
<1>1. w.folders = t.folders /\ w.swarm[n] = i
      /\ \A m \in Member \ {n} : w.swarm[m] = t.swarm[m]
  BY DEF WithMember, Tree, Listing
<1>2. Needs(Dir(w)) = DirNeeds(Swarm \in w.folders, w.swarm) /\ Needs(Root(w)) = RootNeeds(w)
  BY NeedsOf
<1>3. \A m \in Member : w.swarm[m] # None => Leaf(m, w.swarm[m]) \in S
  BY <1>1 DEF BaseStored
<1>4. DirNeeds(Swarm \in w.folders, w.swarm) \subseteq S
  BY <1>1, <1>3 DEF DirNeeds, BaseStored
<1>5. Dir(w) \in S => RootNeeds(w) \subseteq S
  BY <1>1 DEF RootNeeds, BaseStored
<1> QED BY <1>2, <1>4, <1>5

\* One object put by job u after all it names.
LEMMA OrderedWrite ==
    ASSUME Base, Ordered, NEW u \in Actor, NEW pc \in Step \ {"idle"}, NEW next \in Step, NEW o \in Object,
           Write(u, pc, next, o), Needs(o) \subseteq Have, o.type # "commit",
           \A S, l : JobStored(act[u], S, l) /\ o \in S
                      => JobStored([act[u] EXCEPT !.pc = next], S, l)
    PROVE  Ordered'
<1>1. log' = WriteObject(log, o) /\ log \in Seq(Entry) /\ GoodHeads(log) /\ act \in [Actor -> Job]
      /\ act' = [act EXCEPT ![u] = [act[u] EXCEPT !.pc = next]] /\ stage' = stage /\ at' = at
  BY DEF Write, Base, TypeOK
<1>2. log' \in Seq(Entry) /\ Grows(log, log') /\ o \in Have'
  BY <1>1, WriteObjectFacts DEF Have
<1>3. Closed(log')
  BY <1>1, WriteObjectClosed DEF Ordered, Have, ParentBefore
<1>4. \A w \in Actor : JobStored(act[w], Have', log')
  BY <1>1, <1>2, JobStoredKept DEF Ordered, Have
<1>5. \A w \in Actor : JobStored(act'[w], Have', log')
  BY <1>1, <1>2, <1>4
<1>6. SeedStored'
  <2>1. Have \subseteq Have'
    BY <1>1, <1>2, GrowsStores DEF Have
  <2> QED BY <1>1, <2>1 DEF Ordered, SeedStored
<1> QED BY <1>3, <1>5, <1>6 DEF Ordered

\* The initial state.
LEMMA OrderedInit == Init => Ordered
<1> SUFFICES ASSUME Init PROVE Ordered
  OBVIOUS
<1>1. Len(log) = 0
  BY DEF Init
<1>2. \A u \in Actor : act[u] = Idle /\ Idle.pc = "idle"
  BY DEF Init, Idle
<1>3. Closed(log) /\ SeedStored
  BY <1>1 DEF Init, Closed, SeedStored
<1> QED BY <1>2, <1>3 DEF Ordered, JobStored

\* Steps that leave the drive alone, the jobs they do not change, and the seed.
LEMMA OrderedQuiet ==
    ASSUME Ordered, log' = log,
           \A u \in Actor : act'[u] = act[u] \/ JobStored(act'[u], Have, log),
           stage' \notin {"seedMeta", "seedSub"} \/ (stage' = stage /\ at' = at)
             \/ (stage' = "seedMeta" /\ at' = 1)
    PROVE  Ordered'
<1>1. Have' = Have
  BY DEF Have
<1>2. \A u \in Actor : JobStored(act'[u], Have', log')
  BY <1>1 DEF Ordered
<1>3. SeedStored'
  BY <1>1 DEF Ordered, SeedStored
<1> QED BY <1>2, <1>3 DEF Ordered

\* Every step keeps Ordered.
LEMMA OrderedStep == Base /\ Ordered /\ [Next]_vars => Ordered'
<1> SUFFICES ASSUME Base, Ordered, [Next]_vars PROVE Ordered'
  OBVIOUS
<1>0. /\ log \in Seq(Entry) /\ GoodHeads(log) /\ act \in [Actor -> Job]
      /\ at \in 1..Len(FolderOrder) /\ FolderOrder[at] \in Folder
      /\ Platform \in Actor /\ Task \subseteq Actor
  BY RegistryAssumption DEF Base, TypeOK, Actor
<1>a. /\ Closed(log) /\ SeedStored
      /\ \A u \in Actor : JobStored(act[u], Have, log)
  BY DEF Ordered
<1>b. Idle.pc = "idle" /\ \A S, l : JobStored(Idle, S, l)
  BY DEF Idle, JobStored
<1>1. CASE Boot \/ CheckLog \/ Browse \/ StartServer \/ Stop \/ CloseStore
  BY <1>1, OrderedQuiet DEF Boot, CheckLog, Browse, StartServer, Stop, CloseStore
<1>2. CASE Crash
  <2>1. \A u \in Actor : JobStored(act'[u], Have, log)
    BY <1>2, <1>b DEF Crash
  <2> QED BY <1>2, <2>1, OrderedQuiet DEF Crash
<1>3. CASE SeedMeta
  <2> DEFINE f == FolderOrder[at]
  <2>1. /\ log' = WriteObject(log, Meta(f)) /\ at' = at
        /\ log' \in Seq(Entry) /\ Grows(log, log') /\ Meta(f) \in Have'
    BY <1>0, <1>3, ObjectsWritten, WriteObjectFacts DEF SeedMeta, Have
  <2>2. Closed(log')
    <3>1. Needs(Meta(f)) = {} /\ Meta(f).type # "commit"
      BY NeedsOf DEF Meta
    <3> QED BY <1>0, <1>a, <2>1, <3>1, ObjectsWritten, WriteObjectClosed DEF ParentBefore
  <2>3. Have \subseteq Have'
    BY <1>0, <2>1, GrowsStores DEF Have
  <2>4. \A u \in Actor : JobStored(act[u], Have', log')
    BY <1>0, <1>a, <2>1, JobStoredKept DEF Have
  <2>5. CASE f = Swarm
    <3> DEFINE job == [Idle EXCEPT !.pc = "blob", !.base = SeedTree]
    <3>1. stage = "seedMeta" /\ stage' = "seedNode" /\ act' = [act EXCEPT ![Platform] = job]
      BY <1>3, <2>5 DEF SeedMeta
    <3>2. at = Len(FolderOrder)
      BY <1>0, <2>5, RegistryAssumption
    <3>3. \A g \in Folder \ {Swarm} : Sub(g) \in Have'
      <4> SUFFICES ASSUME NEW g \in Folder \ {Swarm} PROVE Sub(g) \in Have'
        OBVIOUS
      <4>1. PICK k \in 1..Len(FolderOrder) : FolderOrder[k] = g
        BY RegistryAssumption
      <4>2. k # Len(FolderOrder)
        BY <4>1, RegistryAssumption
      <4>3. k \in 1..(at - 1)
        BY <1>0, <3>2, <4>2
      <4> QED BY <1>a, <2>3, <3>1, <4>1, <4>3 DEF SeedStored
    <3>4. BaseStored(SeedTree, Have')
      BY <2>1, <2>5, <3>3 DEF BaseStored, SeedTree
    <3>5. job.pc = "blob" /\ job.base = SeedTree
      BY DEF Idle
    <3>6. JobStored(job, Have', log')
      BY <3>4, <3>5 DEF JobStored
    <3>7. \A u \in Actor : JobStored(act'[u], Have', log')
      BY <1>0, <2>4, <3>1, <3>6
    <3>8. SeedStored'
      BY <3>1 DEF SeedStored
    <3> QED BY <2>2, <3>7, <3>8 DEF Ordered
  <2>6. CASE f # Swarm
    <3>1. stage = "seedMeta" /\ stage' = "seedSub" /\ act' = act
      BY <1>3, <2>6 DEF SeedMeta
    <3>2. SeedStored'
      BY <1>a, <2>1, <2>3, <3>1 DEF SeedStored
    <3> QED BY <2>2, <2>4, <3>1, <3>2 DEF Ordered
  <2> QED BY <2>5, <2>6
<1>4. CASE SeedSub
  <2> DEFINE f == FolderOrder[at]
  <2>1. /\ log' = WriteObject(log, Sub(f)) /\ at' = at + 1 /\ act' = act
        /\ stage = "seedSub" /\ stage' = "seedMeta"
        /\ log' \in Seq(Entry) /\ Grows(log, log') /\ Sub(f) \in Have'
    BY <1>0, <1>4, ObjectsWritten, WriteObjectFacts DEF SeedSub, Have
  <2>2. Closed(log')
    <3>1. Needs(Sub(f)) \subseteq Have /\ Sub(f).type # "commit"
      BY <1>a, <2>1, NeedsOf DEF SeedStored, Sub
    <3> QED BY <1>0, <1>a, <2>1, <3>1, ObjectsWritten, WriteObjectClosed DEF ParentBefore, Have
  <2>3. Have \subseteq Have'
    BY <1>0, <2>1, GrowsStores DEF Have
  <2>4. \A u \in Actor : JobStored(act'[u], Have', log')
    BY <1>0, <1>a, <2>1, JobStoredKept DEF Have
  <2>5. SeedStored'
    <3>1. \A k \in 1..(at' - 1) : k = at \/ k \in 1..(at - 1)
      BY <1>0, <2>1
    <3> QED BY <1>a, <2>1, <2>3, <3>1 DEF SeedStored
  <2> QED BY <2>2, <2>4, <2>5 DEF Ordered
<1>5. CASE \E t \in Task, n \in Name, i \in Info : Register(t, n, i)
  <2>1. PICK t \in Task, n \in Name, i \in Info : Register(t, n, i)
    BY <1>5
  <2> DEFINE job == [Idle EXCEPT !.pc = "head", !.name = n, !.info = i]
  <2>2. job.pc = "head"
    BY DEF Idle
  <2>3. JobStored(job, Have, log)
    BY <2>2 DEF JobStored
  <2>4. act' = [act EXCEPT ![t] = job] /\ log' = log /\ stage' = stage /\ at' = at
    BY <2>1 DEF Register
  <2>5. \A u \in Actor : act'[u] = act[u] \/ JobStored(act'[u], Have, log)
    BY <1>0, <2>3, <2>4
  <2> QED BY <2>4, <2>5, OrderedQuiet
<1>6. CASE \E t \in Task : ReadHead(t)
  <2>1. PICK t \in Task : ReadHead(t)
    BY <1>6
  <2> DEFINE base == IF stage = "closed" THEN EmptyTree ELSE Now
  <2>2. act' = [act EXCEPT ![t].pc = "blob", ![t].base = base]
        /\ log' = log /\ stage' = stage /\ at' = at
    BY <2>1 DEF ReadHead, ReadHeadAs
  <2>3. BaseStored(base, Have)
    <3>1. BaseStored(EmptyTree, Have)
      BY DEF BaseStored, EmptyTree
    <3> QED BY <1>a, <3>1, NowStored
  <2>4. act'[t].pc = "blob" /\ act'[t].base = base
    BY <1>0, <2>2 DEF Job
  <2>5. JobStored(act'[t], Have, log)
    BY <2>3, <2>4 DEF JobStored
  <2>6. \A u \in Actor : act'[u] = act[u] \/ JobStored(act'[u], Have, log)
    BY <1>0, <2>2, <2>5
  <2> QED BY <2>2, <2>6, OrderedQuiet
<1>7. CASE \E t \in Task : FailTask(t)
  <2>1. PICK t \in Task : FailTask(t)
    BY <1>7
  <2>2. act' = [act EXCEPT ![t] = Idle] /\ log' = log /\ stage' = stage /\ at' = at
    BY <2>1 DEF FailTask
  <2>3. \A u \in Actor : act'[u] = act[u] \/ JobStored(act'[u], Have, log)
    BY <1>0, <1>b, <2>2
  <2> QED BY <2>2, <2>3, OrderedQuiet
<1>8. ASSUME NEW u \in Actor,
             WriteBlob(u) \/ WriteLeaf(u) \/ WriteDir(u) \/ WriteRoot(u)
      PROVE  Ordered'
  <2> DEFINE j == act[u]
  <2>1. j \in Job /\ j.name \in Member /\ j.info \in Info /\ j.base \in Tree
    BY <1>0 DEF Job
  <2>2. NewTree(u) = WithMember(j.base, j.name, j.info) /\ NewTree(u) \in Tree
    BY <2>1, WithMemberType DEF NewTree
  <2>3. JobStored(j, Have, log)
    BY <1>a
  <2>4. \A next \in Step : [j EXCEPT !.pc = next] =
            [pc |-> next, name |-> j.name, info |-> j.info, base |-> j.base,
             parent |-> j.parent, commit |-> j.commit]
    BY <2>1 DEF Job
  <2>5. CASE WriteBlob(u)
    <3>1. j.pc = "blob" /\ Write(u, "blob", "leaf", Blob(j.name, j.info))
      BY <2>5 DEF WriteBlob, Write
    <3>2. \A S, l : JobStored(j, S, l) /\ Blob(j.name, j.info) \in S
                      => JobStored([j EXCEPT !.pc = "leaf"], S, l)
      BY <2>4, <3>1 DEF JobStored, Step
    <3>3. Needs(Blob(j.name, j.info)) = {} /\ Blob(j.name, j.info).type # "commit"
      BY NeedsOf DEF Blob
    <3> QED BY <2>1, <3>1, <3>2, <3>3, ObjectsWritten, OrderedWrite DEF Step
  <2>6. CASE WriteLeaf(u)
    <3>1. j.pc = "leaf" /\ Write(u, "leaf", "dir", Leaf(j.name, j.info))
      BY <2>6 DEF WriteLeaf, Write
    <3>2. \A S, l : JobStored(j, S, l) /\ Leaf(j.name, j.info) \in S
                      => JobStored([j EXCEPT !.pc = "dir"], S, l)
      BY <2>4, <3>1 DEF JobStored, Step
    <3>3. Needs(Leaf(j.name, j.info)) \subseteq Have /\ Leaf(j.name, j.info).type # "commit"
      BY <2>3, <3>1, NeedsOf DEF JobStored, Leaf
    <3> QED BY <2>1, <3>1, <3>2, <3>3, ObjectsWritten, OrderedWrite DEF Step
  <2>7. CASE WriteDir(u)
    <3>1. j.pc = "dir" /\ Write(u, "dir", "root", Dir(NewTree(u)))
      BY <2>7 DEF WriteDir, Write
    <3>2. \A S, l : JobStored(j, S, l) /\ Dir(NewTree(u)) \in S
                      => JobStored([j EXCEPT !.pc = "root"], S, l)
      BY <2>2, <2>4, <3>1 DEF JobStored, Step
    <3>3. Needs(Dir(NewTree(u))) \subseteq Have /\ Dir(NewTree(u)).type # "commit"
      BY <2>1, <2>2, <2>3, <3>1, NewTreeNeeds DEF JobStored, Dir
    <3> QED BY <2>2, <3>1, <3>2, <3>3, ObjectsWritten, OrderedWrite DEF Step
  <2>8. CASE WriteRoot(u)
    <3>1. j.pc = "root" /\ Write(u, "root", "resolve", Root(NewTree(u)))
      BY <2>8 DEF WriteRoot, Write
    <3>2. \A S, l : JobStored(j, S, l) /\ Root(NewTree(u)) \in S
                      => JobStored([j EXCEPT !.pc = "resolve"], S, l)
      BY <2>2, <2>4, <3>1 DEF JobStored, Step
    <3>3. Needs(Root(NewTree(u))) \subseteq Have /\ Root(NewTree(u)).type # "commit"
      BY <2>1, <2>2, <2>3, <3>1, NewTreeNeeds DEF JobStored, Root
    <3> QED BY <2>2, <3>1, <3>2, <3>3, ObjectsWritten, OrderedWrite DEF Step
  <2> QED BY <1>8, <2>5, <2>6, <2>7, <2>8
<1>9. ASSUME NEW u \in Actor, ResolveRef(u) PROVE Ordered'
  <2> DEFINE p == IF stage = "closed" THEN 0 ELSE Main
  <2>1. act' = [act EXCEPT ![u] = [act[u] EXCEPT !.pc = "commit", !.parent = p]]
        /\ log' = log /\ stage' = stage /\ at' = at /\ act[u].pc = "resolve"
    BY <1>9 DEF ResolveRef
  <2>2. p \in 0..Len(log) /\ (p # 0 => log[p].put.type = "commit")
    BY <1>0, TreeAtType DEF Main
  <2>3. /\ act'[u].pc = "commit" /\ act'[u].parent = p /\ act'[u].name = act[u].name
        /\ act'[u].info = act[u].info /\ act'[u].base = act[u].base
    BY <1>0, <2>1 DEF Job
  <2>4. JobStored(act'[u], Have, log)
    BY <1>a, <2>1, <2>2, <2>3 DEF JobStored
  <2>5. \A w \in Actor : act'[w] = act[w] \/ JobStored(act'[w], Have, log)
    BY <1>0, <2>1, <2>4
  <2> QED BY <2>1, <2>5, OrderedQuiet
<1>10. ASSUME NEW u \in Actor, WriteCommit(u) PROVE Ordered'
  <2> DEFINE o == Commit(NewTree(u), act[u].parent)
  <2>1. PICK c \in 1..Len(log') :
            act' = [act EXCEPT ![u] = [act[u] EXCEPT !.pc = "ref", !.commit = c]]
    BY <1>10, ZenonT(40) DEF WriteCommit
  <2>2. act[u].pc = "commit" /\ log' = WriteObject(log, o) /\ stage' = stage /\ at' = at
    BY <1>10 DEF WriteCommit
  <2>3. o \in Object
    BY <1>0, NewTreeType, ObjectsWritten DEF Job, Base
  <2>4. log' \in Seq(Entry) /\ Grows(log, log')
    BY <1>0, <2>2, <2>3, WriteObjectFacts
  <2>5. Have \subseteq Have'
    BY <1>0, <2>4, GrowsStores DEF Have
  <2>6. Closed(log')
    <3>1. JobStored(act[u], Have, log)
      BY <1>a
    <3>2. Needs(o) \subseteq Have
      BY <2>2, <3>1, NeedsOf DEF JobStored, NewTree
    <3>3. ParentBefore(log, o, Len(log) + 1)
      BY <1>0, <2>2, <3>1 DEF JobStored, ParentBefore, Commit
    <3> QED BY <1>0, <1>a, <2>2, <2>3, <3>2, <3>3, WriteObjectClosed DEF Have
  <2>7. \A w \in Actor : JobStored(act[w], Have', log')
    BY <1>0, <1>a, <2>4, JobStoredKept DEF Have
  <2>8. /\ act'[u].pc = "ref" /\ act'[u].parent = act[u].parent
        /\ act'[u].name = act[u].name /\ act'[u].info = act[u].info
        /\ act'[u].base = act[u].base
    BY <1>0, <2>1 DEF Job
  <2>9. JobStored(act'[u], Have', log')
    BY <2>2, <2>7, <2>8 DEF JobStored
  <2>10. \A w \in Actor : JobStored(act'[w], Have', log')
    BY <1>0, <2>1, <2>7, <2>9
  <2>11. SeedStored'
    BY <1>a, <2>2, <2>5 DEF SeedStored
  <2> QED BY <2>6, <2>10, <2>11 DEF Ordered
<1>11. ASSUME NEW u \in Actor, UpdateRef(u) PROVE Ordered'
  <2> DEFINE c == act[u].commit
  <2>1. /\ act[u].pc = "ref" /\ log' = WriteRef(log, c) /\ at' = at
        /\ act' = [act EXCEPT ![u] = Idle]
        /\ stage' = IF u = Platform THEN "browse" ELSE stage
    BY <1>11 DEF UpdateRef
  <2>2. c \in 1..Len(log) /\ log[c].put.type = "commit"
    <3>1. JobCommit(u)
      BY DEF Base
    <3>2. c \in 1..Len(log) /\ log[c].put = Commit(NewTree(u), act[u].parent)
      BY <2>1, <3>1 DEF JobCommit
    <3> QED BY <3>2 DEF Commit
  <2>3. log' \in Seq(Entry) /\ Grows(log, log')
    BY <1>0, <2>1, <2>2, WriteRefFacts
  <2>4. Closed(log')
    BY <1>0, <1>a, <2>1, <2>2, WriteRefClosed
  <2>5. Have \subseteq Have'
    BY <1>0, <2>3, GrowsStores DEF Have
  <2>6. \A w \in Actor : JobStored(act[w], Have', log')
    BY <1>0, <1>a, <2>3, JobStoredKept DEF Have
  <2>7. \A w \in Actor : JobStored(act'[w], Have', log')
    BY <1>0, <1>b, <2>1, <2>6
  <2>8. SeedStored'
    BY <1>a, <2>1, <2>5 DEF SeedStored
  <2> QED BY <2>4, <2>7, <2>8 DEF Ordered
<1>12. CASE UNCHANGED vars
  BY <1>12, OrderedQuiet DEF vars
<1> QED BY <1>1, <1>2, <1>3, <1>4, <1>5, <1>6, <1>7, <1>8, <1>9, <1>10, <1>11,
           <1>12, NextCases

\* Nothing is put before what it names, in any reachable state.
THEOREM OrderedInvariant == Spec => []Ordered
<1>1. Base /\ Ordered /\ [Next]_vars => Ordered'
  BY OrderedStep
<1> QED BY <1>1, OrderedInit, BaseInvariant, PTL DEF Spec

\* A replica that has any prefix of the drive, and a platform restarted after a
\* crash at any point, find everything main reaches, for any number of
\* overlapping registrations.
THEOREM VersionsResolve == Spec => []EveryVersionResolves
<1>1. Base /\ Ordered => EveryVersionResolves
  BY ClosedResolves DEF Base, TypeOK, Ordered, EveryVersionResolves
<1> QED BY <1>1, BaseInvariant, OrderedInvariant, PTL

-----------------------------------------------------------------------------
(***************************************************************************)
(* What a step does to main and to the jobs that hold a tree.              *)
(***************************************************************************)
\* The drive has grown by at most an entry, and main reads what it read.
SameTree == Grows(log, log') /\ Len(log') <= Len(log) + 1 /\ Main' = Main /\ Now' = Now

\* Only UpdateRef changes what main reads.
LEMMA SameTreeSteps ==
    ASSUME Base, [Next]_vars, ~ \E u \in Actor : UpdateRef(u)
    PROVE  SameTree
<1>1. log \in Seq(Entry) /\ GoodHeads(log) /\ at \in 1..Len(FolderOrder)
      /\ FolderOrder[at] \in Folder
  BY RegistryAssumption DEF Base, TypeOK
<1>2. ASSUME NEW o \in Object, log' = WriteObject(log, o)
      PROVE  SameTree
  BY <1>1, <1>2, WriteObjectFacts DEF SameTree, Main, Now
<1>3. ASSUME log' = log
      PROVE  SameTree
  BY <1>1, <1>3 DEF SameTree, Main, Now, Grows
<1>4. CASE SeedMeta \/ SeedSub
  BY <1>1, <1>2, <1>4, ObjectsWritten DEF SeedMeta, SeedSub
<1>5. ASSUME NEW u \in Actor,
             WriteBlob(u) \/ WriteLeaf(u) \/ WriteDir(u) \/ WriteRoot(u) \/ WriteCommit(u)
      PROVE  SameTree
  <2>1. act[u].name \in Member /\ act[u].info \in Info /\ act[u].parent \in Nat
        /\ NewTree(u) \in Tree
    BY NewTreeType DEF Base, TypeOK, Job
  <2> QED BY <1>2, <1>5, <2>1, ObjectsWritten
          DEF WriteBlob, WriteLeaf, WriteDir, WriteRoot, WriteCommit, Write
<1>6. CASE \/ Boot \/ CheckLog \/ Browse \/ StartServer \/ Stop \/ CloseStore \/ Crash
           \/ \E t \in Task, n \in Name, i \in Info : Register(t, n, i)
           \/ \E t \in Task : ReadHead(t) \/ FailTask(t)
           \/ \E u \in Actor : ResolveRef(u)
           \/ UNCHANGED vars
  BY <1>3, <1>6 DEF Boot, CheckLog, Browse, StartServer, Stop, CloseStore, Crash, Register,
                    ReadHead, ReadHeadAs, FailTask, ResolveRef, vars
<1> QED BY <1>4, <1>5, <1>6, NextCases

\* Job u goes on with the tree, name and info it had.
GoesOn(u) ==
    /\ u \in Holding
    /\ act'[u].base = act[u].base
    /\ act'[u].name = act[u].name
    /\ act'[u].info = act[u].info

\* A job that holds a tree had it before, has just read it, or is the seed's.
LEMMA HoldingSteps ==
    ASSUME Base, [Next]_vars, NEW u \in Actor, u \in Holding'
    PROVE  \/ GoesOn(u)
           \/ u \in Task /\ ReadHead(u)
           \/ /\ u = Platform /\ SeedMeta /\ act'[u].base = SeedTree
              /\ Holding = {} /\ Holding' = {u}
<1>1. act \in [Actor -> Job] /\ Platform \in Actor /\ Task \subseteq Actor /\ Platform \notin Task
  BY RegistryAssumption DEF Base, TypeOK, Actor
<1>2. act'[u].pc \notin {"idle", "head"}
  BY DEF Holding
<1>3. Idle.pc = "idle"
  BY DEF Idle
<1>4. CASE act'[u] = act[u]
  BY <1>2, <1>4 DEF GoesOn, Holding
<1>5. CASE SeedMeta
  <2>1. CASE FolderOrder[at] = Swarm
    <3> DEFINE job == [Idle EXCEPT !.pc = "blob", !.base = SeedTree]
    <3>1. act' = [act EXCEPT ![Platform] = job] /\ job.base = SeedTree /\ job.pc = "blob"
      BY <1>5, <2>1 DEF SeedMeta, Idle
    <3>2. \A w \in Actor : act[w].pc = "idle"
      BY <1>1, <1>5 DEF SeedMeta, Base, SeedAlone, Actor
    <3>3. Holding = {} /\ Holding' = {Platform}
      BY <1>1, <3>1, <3>2 DEF Holding
    <3> QED BY <1>1, <1>5, <3>1, <3>3
  <2>2. CASE FolderOrder[at] # Swarm
    BY <1>4, <1>5, <2>2 DEF SeedMeta
  <2> QED BY <2>1, <2>2
<1>6. ASSUME NEW w \in Actor,
             \/ WriteBlob(w) \/ WriteLeaf(w) \/ WriteDir(w) \/ WriteRoot(w)
             \/ ResolveRef(w) \/ WriteCommit(w)
      PROVE  GoesOn(u)
  <2>1. CASE w = u
    <3>1. act[u].pc \notin {"idle", "head"}
      BY <1>6, <2>1 DEF WriteBlob, WriteLeaf, WriteDir, WriteRoot, ResolveRef, WriteCommit, Write
    <3>2. /\ act'[u].base = act[u].base /\ act'[u].name = act[u].name
          /\ act'[u].info = act[u].info
      BY <1>1, <1>6, <2>1
      DEF WriteBlob, WriteLeaf, WriteDir, WriteRoot, ResolveRef, WriteCommit, Write, Job
    <3> QED BY <3>1, <3>2 DEF GoesOn, Holding
  <2>2. CASE w # u
    <3>1. act'[u] = act[u]
      BY <1>1, <1>6, <2>2
      DEF WriteBlob, WriteLeaf, WriteDir, WriteRoot, ResolveRef, WriteCommit, Write
    <3> QED BY <1>2, <3>1 DEF GoesOn, Holding
  <2> QED BY <2>1, <2>2
<1>7. ASSUME NEW w \in Actor, UpdateRef(w) \/ (w \in Task /\ FailTask(w))
      PROVE  GoesOn(u)
  <2>1. act' = [act EXCEPT ![w] = Idle]
    BY <1>7 DEF UpdateRef, FailTask
  <2>2. act'[u] = act[u]
    BY <1>1, <1>2, <1>3, <2>1
  <2> QED BY <1>2, <2>2 DEF GoesOn, Holding
<1>8. CASE Crash
  BY <1>2, <1>3, <1>8 DEF Crash
<1>9. ASSUME NEW t \in Task, NEW n \in Name, NEW i \in Info, Register(t, n, i)
      PROVE  GoesOn(u)
  <2> DEFINE job == [Idle EXCEPT !.pc = "head", !.name = n, !.info = i]
  <2>1. act' = [act EXCEPT ![t] = job] /\ job.pc = "head"
    BY <1>9 DEF Register, Idle
  <2>2. act'[u] = act[u]
    BY <1>1, <1>2, <2>1
  <2> QED BY <1>2, <2>2 DEF GoesOn, Holding
<1>10. ASSUME NEW t \in Task, ReadHead(t), t # u
       PROVE  GoesOn(u)
  <2>1. act'[u] = act[u]
    BY <1>1, <1>10 DEF ReadHead, ReadHeadAs
  <2> QED BY <1>2, <2>1 DEF GoesOn, Holding
<1>11. CASE \/ Boot \/ CheckLog \/ SeedSub \/ Browse \/ StartServer \/ Stop \/ CloseStore
            \/ UNCHANGED vars
  BY <1>4, <1>11 DEF Boot, CheckLog, SeedSub, Browse, StartServer, Stop, CloseStore, vars
<1> QED BY <1>5, <1>6, <1>7, <1>8, <1>9, <1>10, <1>11, <1>1, NextCases

\* What ReadHead gives a job while the store is open.
LEMMA ReadHeadBase ==
    ASSUME Base, NEW t \in Task, ReadHead(t), stage # "closed"
    PROVE  act'[t].base = Now /\ t \in Holding'
BY DEF ReadHead, ReadHeadAs, Base, TypeOK, Job, Actor, Holding

\* The store stays closed until the process is gone, and jobs with it.
LEMMA ClosedStays ==
    ASSUME [Next]_vars, stage = "closed", ~ \E u \in Actor : UpdateRef(u)
    PROVE  stage' = "closed" \/ Crash
BY NextCases DEF Boot, CheckLog, SeedMeta, SeedSub, Browse, StartServer, Stop, CloseStore,
   Register, ReadHead, ReadHeadAs, FailTask, WriteBlob, WriteLeaf, WriteDir, WriteRoot, ResolveRef,
   WriteCommit, Write, vars

\* Forcing the ref makes main read the job's new tree.
LEMMA UpdateRefTree ==
    ASSUME Base, NEW u \in Actor, UpdateRef(u)
    PROVE  /\ Grows(log, log') /\ Len(log') = Len(log) + 1
           /\ Main' # 0 /\ Now' = NewTree(u)
           /\ u \in Holding /\ stage # "closed"
<1> DEFINE c == act[u].commit
<1>1. act[u].pc = "ref" /\ log' = WriteRef(log, c) /\ stage # "closed"
  BY DEF UpdateRef
<1>2. c \in 1..Len(log) /\ log[c].put = Commit(NewTree(u), act[u].parent)
  BY <1>1 DEF Base, JobCommit
<1>3. log[c].put.type = "commit" /\ log[c].put.tree = NewTree(u)
  BY <1>2 DEF Commit
<1>4. /\ Grows(log, log') /\ Len(log') = Len(log) + 1
      /\ Main' = c /\ Now' = NewTree(u)
  BY <1>1, <1>2, <1>3, WriteRefFacts DEF Base, TypeOK, Main, Now
<1> QED BY <1>1, <1>2, <1>4 DEF Holding

\* Earlier versions read what they read.
LEMMA VersionsKept ==
    ASSUME Base, Base', Grows(log, log'), NEW v \in 0..Len(log)
    PROVE  HeadAt(log', v) = HeadAt(log, v) /\ TreeAt(log', v) = TreeAt(log, v)
BY GrowsKeepsVersions DEF Base, TypeOK

\* The version a step adds, if any, reads what main reads now.
LEMMA LastVersion ==
    ASSUME Base, Base', Grows(log, log'), Len(log') <= Len(log) + 1, NEW v \in 0..Len(log')
    PROVE  v \in 0..Len(log) \/ (v = Len(log') /\ HeadAt(log', v) = Main' /\ TreeAt(log', v) = Now')
<1>1. Len(log) \in Nat /\ Len(log') \in Nat /\ Len(log) <= Len(log')
  BY DEF Base, TypeOK, Grows
<1> QED BY <1>1 DEF Main, Now

-----------------------------------------------------------------------------
(***************************************************************************)
(* A seeded tree stays complete.                                           *)
(***************************************************************************)
TreeGood(t) == t.folders = Folder /\ t.swarm[Platform] = PlatformInfo

Complete ==
    /\ TreeComplete
    /\ stage # "closed" => \A t \in Task : t \in Holding => TreeGood(act[t].base)

\* Main reads a complete tree once there is a main.
LEMMA GoodNow ==
    ASSUME Base, TreeComplete, Main # 0
    PROVE  TreeGood(Now)
<1>1. Len(log) \in 1..Len(log) /\ log[Len(log)].main # 0
  BY DEF Base, TypeOK, Main, HeadAt
<1> QED BY <1>1 DEF TreeComplete, TreeGood, Now

\* A job's new tree is complete.
LEMMA GoodNewTree ==
    ASSUME Base, Complete, NEW u \in Actor, u \in Holding, stage # "closed"
    PROVE  TreeGood(NewTree(u))
<1>1. act[u].base \in Tree /\ act[u].name \in Member /\ act[u].pc # "idle"
  BY DEF Base, TypeOK, Job, Holding
<1>2. CASE u = Platform
  <2>1. act[u].base = SeedTree /\ act[u].name = Platform /\ act[u].info = PlatformInfo
    BY <1>1, <1>2 DEF Base, SeedAlone
  <2> QED BY <1>1, <2>1 DEF NewTree, WithMember, SeedTree, TreeGood, Member
<1>3. CASE u # Platform
  <2>1. u \in Task /\ TreeGood(act[u].base)
    BY <1>3 DEF Actor, Complete
  <2>2. act[u].name # Platform
    BY <1>1, <2>1, NamesAssumption DEF Base, TaskNames
  <2> QED BY <1>1, <2>1, <2>2 DEF NewTree, WithMember, TreeGood, Tree, Listing, Member
<1> QED BY <1>2, <1>3

LEMMA CompleteInit == Init => Complete
BY DEF Init, Complete, TreeComplete, Holding, Idle, Actor

LEMMA CompleteStep == Base /\ Base' /\ Complete /\ [Next]_vars => Complete'
<1> SUFFICES ASSUME Base, Base', Complete, [Next]_vars PROVE Complete'
  OBVIOUS
<1>1. /\ Grows(log, log') /\ Len(log') <= Len(log) + 1
      /\ Main' # 0 => TreeGood(Now')
  <2>1. CASE \E u \in Actor : UpdateRef(u)
    <3>1. PICK u \in Actor : UpdateRef(u)
      BY <2>1
    <3>2. /\ Grows(log, log') /\ Len(log') = Len(log) + 1 /\ Now' = NewTree(u)
          /\ u \in Holding /\ stage # "closed"
      BY <3>1, UpdateRefTree
    <3> QED BY <3>2, GoodNewTree DEF Base, TypeOK
  <2>2. CASE ~ \E u \in Actor : UpdateRef(u)
    BY <2>2, SameTreeSteps, GoodNow DEF SameTree, Complete
  <2> QED BY <2>1, <2>2
<1>2. TreeComplete'
  <2> SUFFICES ASSUME NEW v \in 1..Len(log'), log'[v].main # 0
               PROVE  TreeGood(TreeAt(log', v))
    BY DEF TreeComplete, TreeGood
  <2>1. v \in 0..Len(log') /\ HeadAt(log', v) # 0
    BY DEF HeadAt
  <2>2. CASE v \in 0..Len(log)
    <3>1. HeadAt(log, v) # 0 /\ TreeAt(log', v) = TreeAt(log, v)
      BY <1>1, <2>1, <2>2, VersionsKept
    <3>2. v \in 1..Len(log) /\ log[v].main # 0
      BY <2>2, <3>1 DEF HeadAt
    <3> QED BY <3>1, <3>2 DEF Complete, TreeComplete, TreeGood
  <2>3. CASE v \notin 0..Len(log)
    BY <1>1, <2>1, <2>3, LastVersion
  <2> QED BY <2>2, <2>3
<1>3. ASSUME stage' # "closed", NEW t \in Task, t \in Holding'
      PROVE  TreeGood(act'[t].base)
  <2>1. t \in Actor /\ t # Platform
    BY RegistryAssumption DEF Actor
  <2>2. stage # "closed"
    <3>1. ~ Crash
      BY <1>3, <2>1 DEF Crash, Holding, Idle
    <3>2. stage = "closed" => ~ \E u \in Actor : UpdateRef(u)
      BY DEF UpdateRef
    <3> QED BY <1>3, <3>1, <3>2, ClosedStays
  <2>3. CASE GoesOn(t)
    BY <2>2, <2>3 DEF GoesOn, Complete
  <2>4. CASE ReadHead(t)
    <3>1. Main # 0
      BY <2>4 DEF ReadHead, ReadHeadAs, Base, SeedAlone
    <3>2. TreeGood(Now)
      BY <3>1, GoodNow DEF Complete
    <3> QED BY <2>2, <2>4, <3>2, ReadHeadBase
  <2> QED BY <1>3, <2>1, <2>3, <2>4, HoldingSteps
<1> QED BY <1>2, <1>3 DEF Complete

\* Complete holds in every reachable state.
THEOREM CompleteInvariant == Spec => []Complete
<1>1. Base /\ Base' /\ Complete /\ [Next]_vars => Complete'
  BY CompleteStep
<1> QED BY <1>1, CompleteInit, BaseInvariant, PTL DEF Spec

\* No version of main lacks a seeded folder or the platform's own entry, for any
\* number of overlapping registrations, crashes and reseeds: put's fallback to
\* the empty tree is never committed.
THEOREM TreesComplete == Spec => []TreeComplete
<1>1. Complete => TreeComplete
  BY DEF Complete
<1> QED BY <1>1, CompleteInvariant, PTL

-----------------------------------------------------------------------------
(***************************************************************************)
(* A registration that ran alone is never undone.                          *)
(***************************************************************************)
\* Listing d still has every entry registered alone.
Keeps(d) == \A m \in Member : kept[m] # None => d[m] = kept[m]

\* UncontendedKept is not inductive: a job commits the tree it read, so that
\* tree must keep the entries too; and a job that nobody overlapped is the only
\* one to hold a tree, so nobody can later force a ref that lacks its entry.
Alone ==
    /\ Keeps(Now.swarm)
    /\ stage # "closed" => \A u \in Holding : Keeps(act[u].base.swarm)
    /\ \A u \in Holding : u \notin raced => Holding = {u}

LEMMA AloneInit == Init => Alone
BY DEF Init, Alone, Keeps, Holding, Idle

LEMMA AloneStep == Base /\ Alone /\ [Next]_vars => Alone'
<1> SUFFICES ASSUME Base, Alone, [Next]_vars PROVE Alone'
  OBVIOUS
<1>0. act \in [Actor -> Job] /\ Task \subseteq Actor /\ Platform \notin Task
      /\ \A u \in Holding : u \in Actor
  BY RegistryAssumption DEF Base, TypeOK, Actor, Holding
<1>1. CASE ~ \E u \in Actor : UpdateRef(u)
  <2>1. kept' = kept
    BY <1>1, NextCases
    DEF Boot, CheckLog, SeedMeta, SeedSub, Browse, StartServer, Stop, CloseStore, Crash,
        Register, ReadHead, ReadHeadAs, FailTask, WriteBlob, WriteLeaf, WriteDir, WriteRoot, ResolveRef,
        WriteCommit, Write, ghosts, vars
  <2>2. Keeps(Now.swarm)'
    BY <1>1, <2>1, SameTreeSteps DEF SameTree, Alone, Keeps
  <2>3. ASSUME stage' # "closed", NEW u \in Holding'
        PROVE  Keeps(act[u].base.swarm)'
    <3>1. u \in Actor
      BY DEF Holding
    <3>2. stage # "closed"
      <4>1. ~ Crash
        BY <3>1 DEF Crash, Holding, Idle
      <4> QED BY <1>1, <2>3, <4>1, ClosedStays
    <3>3. CASE GoesOn(u)
      BY <2>1, <3>2, <3>3 DEF GoesOn, Alone, Keeps
    <3>4. CASE u \in Task /\ ReadHead(u)
      BY <2>1, <3>2, <3>4, ReadHeadBase DEF Alone, Keeps
    <3>5. CASE SeedMeta /\ act'[u].base = SeedTree
      <4>1. Main = 0
        BY <3>5 DEF SeedMeta, Base, SeedAlone
      <4>2. Now = EmptyTree
        BY <4>1 DEF Main, Now, TreeAt
      <4>3. \A m \in Member : kept[m] = None
        BY <4>2 DEF Alone, Keeps, EmptyTree
      <4> QED BY <2>1, <4>3 DEF Keeps
    <3> QED BY <3>1, <3>3, <3>4, <3>5, HoldingSteps
  <2>4. ASSUME NEW u \in Holding', u \notin raced'
        PROVE  Holding' = {u}
    <3>1. u \in Actor
      BY DEF Holding
    <3>2. CASE \E t \in Task : ReadHead(t)
      <4>1. PICK t \in Task : ReadHead(t)
        BY <3>2
      <4>2. raced' = raced \cup (IF Holding = {} THEN {} ELSE Holding \cup {t})
            /\ act'[t].pc = "blob" /\ \A w \in Actor \ {t} : act'[w] = act[w]
        BY <1>0, <4>1 DEF ReadHead, ReadHeadAs, Job
      <4>3. Holding' = Holding \cup {t}
        BY <1>0, <4>1, <4>2 DEF Holding
      <4> QED BY <2>4, <4>2, <4>3
    <3>3. CASE \E t \in Task : FailTask(t)
      <4>1. PICK t \in Task : FailTask(t)
        BY <3>3
      <4>2. raced' = raced \ {t} /\ act' = [act EXCEPT ![t] = Idle] /\ Idle.pc = "idle"
        BY <4>1 DEF FailTask, Idle
      <4>3. Holding' = Holding \ {t} /\ t \in Holding
        BY <1>0, <4>1, <4>2 DEF Holding, FailTask
      <4> QED BY <2>4, <4>2, <4>3 DEF Alone
    <3>4. CASE Crash
      BY <3>1, <3>4 DEF Crash, Holding, Idle
    <3>5. CASE SeedMeta
      <4>1. raced' = raced
        BY <3>5 DEF SeedMeta, ghosts
      <4>2. CASE FolderOrder[at] = Swarm
        <5>1. \A w \in Actor : w # Platform => act'[w] = act[w] /\ act[w].pc = "idle"
          BY <1>0, <3>5, <4>2 DEF SeedMeta, Base, SeedAlone, Actor
        <5>2. Holding' \subseteq {Platform}
          BY <5>1 DEF Holding
        <5> QED BY <5>2
      <4>3. CASE FolderOrder[at] # Swarm
        BY <2>4, <3>5, <4>1, <4>3 DEF SeedMeta, Holding, Alone
      <4> QED BY <4>2, <4>3
    <3>6. ASSUME NEW w \in Actor,
                 \/ WriteBlob(w) \/ WriteLeaf(w) \/ WriteDir(w) \/ WriteRoot(w)
                 \/ ResolveRef(w) \/ WriteCommit(w)
          PROVE  Holding' = {u}
      <4>1. raced' = raced /\ act[w].pc \notin {"idle", "head"}
            /\ act'[w].pc \notin {"idle", "head"} /\ \A x \in Actor \ {w} : act'[x] = act[x]
        BY <1>0, <3>6
        DEF WriteBlob, WriteLeaf, WriteDir, WriteRoot, ResolveRef, WriteCommit, Write, ghosts, Job
      <4>2. Holding' = Holding
        BY <1>0, <4>1 DEF Holding
      <4> QED BY <2>4, <4>1, <4>2 DEF Alone
    <3>7. CASE \E t \in Task, n \in Name, i \in Info : Register(t, n, i)
      <4>1. PICK t \in Task, n \in Name, i \in Info : Register(t, n, i)
        BY <3>7
      <4> DEFINE job == [Idle EXCEPT !.pc = "head", !.name = n, !.info = i]
      <4>2. act' = [act EXCEPT ![t] = job] /\ job.pc = "head" /\ act[t].pc = "idle" /\ raced' = raced
        BY <4>1 DEF Register, Idle, ghosts
      <4>3. Holding' = Holding
        BY <1>0, <4>2 DEF Holding
      <4> QED BY <2>4, <4>2, <4>3 DEF Alone
    <3>8. CASE \/ Boot \/ CheckLog \/ SeedSub \/ Browse \/ StartServer \/ Stop \/ CloseStore
               \/ UNCHANGED vars
      BY <2>4, <3>8
      DEF Boot, CheckLog, SeedSub, Browse, StartServer, Stop, CloseStore, vars, ghosts,
          Holding, Alone
    <3> QED BY <1>1, <3>2, <3>3, <3>4, <3>5, <3>6, <3>7, <3>8, NextCases
  <2> QED BY <2>2, <2>3, <2>4 DEF Alone
<1>2. CASE \E u \in Actor : UpdateRef(u)
  <2>1. PICK u \in Actor : UpdateRef(u)
    BY <1>2
  <2> DEFINE n == act[u].name
             i == act[u].info
  <2>2. /\ Now' = NewTree(u) /\ u \in Holding /\ stage # "closed"
    BY <2>1, UpdateRefTree
  <2>3. /\ act' = [act EXCEPT ![u] = Idle] /\ Idle.pc = "idle" /\ raced' = raced \ {u}
        /\ kept' = [kept EXCEPT ![n] = IF u \in raced THEN None ELSE i]
    BY <2>1 DEF UpdateRef, Idle
  <2>4. act[u].base \in Tree /\ n \in Member /\ kept \in Listing
    BY <2>2 DEF Base, TypeOK, Job, Holding
  <2>5. Holding' = Holding \ {u} /\ \A w \in Holding' : act'[w] = act[w]
    BY <1>0, <2>2, <2>3 DEF Holding
  <2>6. \A m \in Member : Now'.swarm[m] = IF m = n THEN i ELSE act[u].base.swarm[m]
    BY <2>2, <2>4 DEF NewTree, WithMember, Tree, Listing
  <2>7. \A m \in Member : kept'[m] =
            IF m = n THEN (IF u \in raced THEN None ELSE i) ELSE kept[m]
    BY <2>3, <2>4 DEF Listing
  <2>8. Keeps(Now.swarm)'
    BY <2>2, <2>6, <2>7 DEF Alone, Keeps
  <2>9. ASSUME NEW w \in Holding'
        PROVE  Keeps(act[w].base.swarm)'
    <3>1. w \in Holding /\ w # u /\ act'[w] = act[w]
      BY <2>5
    <3>2. u \in raced
      BY <2>2, <3>1 DEF Alone
    <3> QED BY <2>2, <2>7, <3>1, <3>2 DEF Alone, Keeps
  <2>10. ASSUME NEW w \in Holding', w \notin raced'
         PROVE  Holding' = {w}
    BY <2>2, <2>3, <2>5, <2>10 DEF Alone
  <2> QED BY <2>8, <2>9, <2>10 DEF Alone
<1> QED BY <1>1, <1>2

\* Alone holds in every reachable state.
THEOREM AloneInvariant == Spec => []Alone
<1>1. Base /\ Alone /\ [Next]_vars => Alone'
  BY AloneStep
<1> QED BY <1>1, AloneInit, BaseInvariant, PTL DEF Spec

\* A registration nobody overlapped stays in main's listing for good, for any
\* number of other registrations, races, crashes and restarts after it.
THEOREM KeptForGood == Spec => []UncontendedKept
<1>1. Alone => UncontendedKept
  BY DEF Alone, Keeps, UncontendedKept
<1> QED BY <1>1, AloneInvariant, PTL

-----------------------------------------------------------------------------
(***************************************************************************)
(* A registration that ran alone is applied to the present state.          *)
(***************************************************************************)
\* A registration nobody has overlapped so far holds what main reads now: those
\* that could have moved main since it read the head would have overlapped it.
Fresh ==
    stage # "closed" =>
        \A t \in Task : t \in Holding /\ t \notin raced => act[t].base = Now

\* A job that has been overlapped stays so while it holds a tree.
LEMMA RacedSteps ==
    ASSUME Base, [Next]_vars, NEW u \in Actor, u \in raced, u \in Holding'
    PROVE  u \in raced'
<1>1. act \in [Actor -> Job] /\ Task \subseteq Actor
  BY DEF Base, TypeOK, Actor
<1>2. ASSUME NEW w \in Actor, UpdateRef(w) \/ (w \in Task /\ FailTask(w))
      PROVE  u \in raced'
  <2>1. act' = [act EXCEPT ![w] = Idle] /\ Idle.pc = "idle" /\ raced' = raced \ {w}
    BY <1>2 DEF UpdateRef, FailTask, Idle
  <2> QED BY <1>1, <2>1 DEF Holding
<1>3. CASE Crash
  BY <1>3 DEF Crash, Holding, Idle
<1>4. CASE \E t \in Task : ReadHead(t)
  BY <1>4 DEF ReadHead, ReadHeadAs
<1>5. CASE ~ \E w \in Actor : UpdateRef(w) \/ (w \in Task /\ (FailTask(w) \/ ReadHead(w)))
  <2>1. raced' = raced \/ Crash
    BY <1>1, <1>5, NextCases
    DEF Boot, CheckLog, SeedMeta, SeedSub, Browse, StartServer, Stop, CloseStore,
        Register, WriteBlob, WriteLeaf, WriteDir, WriteRoot, ResolveRef,
        WriteCommit, Write, ghosts, vars
  <2> QED BY <1>3, <2>1
<1> QED BY <1>1, <1>2, <1>3, <1>4, <1>5

LEMMA FreshInit == Init => Fresh
BY DEF Init, Fresh, Holding, Idle

LEMMA FreshStep == Base /\ Alone /\ Fresh /\ [Next]_vars => Fresh'
<1> SUFFICES ASSUME Base, Alone, Fresh, [Next]_vars, stage' # "closed",
                    NEW t \in Task, t \in Holding', t \notin raced'
             PROVE  act'[t].base = Now'
  BY DEF Fresh
<1>1. t \in Actor /\ t # Platform
  BY RegistryAssumption DEF Actor
<1>2. CASE \E u \in Actor : UpdateRef(u)
  <2>1. PICK u \in Actor : UpdateRef(u)
    BY <1>2
  <2>2. u \in Holding
    BY <2>1, UpdateRefTree
  <2>3. act' = [act EXCEPT ![u] = Idle] /\ Idle.pc = "idle" /\ act \in [Actor -> Job]
    BY <2>1 DEF UpdateRef, Idle, Base, TypeOK
  <2>4. t # u /\ t \in Holding
    BY <1>1, <2>3 DEF Holding
  <2>5. t \notin raced
    BY <1>1, RacedSteps
  <2> QED BY <2>2, <2>4, <2>5 DEF Alone
<1>3. CASE ~ \E u \in Actor : UpdateRef(u)
  <2>1. Now' = Now
    BY <1>3, SameTreeSteps DEF SameTree
  <2>2. ~ Crash
    BY <1>1 DEF Crash, Holding, Idle
  <2>3. stage # "closed"
    BY <1>3, <2>2, ClosedStays
  <2>4. CASE GoesOn(t)
    <3>1. t \in Holding /\ t \notin raced
      BY <1>1, <2>4, RacedSteps DEF GoesOn
    <3> QED BY <2>1, <2>3, <2>4, <3>1 DEF GoesOn, Fresh
  <2>5. CASE ReadHead(t)
    BY <2>1, <2>3, <2>5, ReadHeadBase
  <2> QED BY <1>1, <2>4, <2>5, HoldingSteps
<1> QED BY <1>2, <1>3

\* Fresh holds in every reachable state.
THEOREM FreshInvariant == Spec => []Fresh
<1>1. Base /\ Alone /\ Fresh /\ [Next]_vars => Fresh'
  BY FreshStep
<1> QED BY <1>1, FreshInit, BaseInvariant, AloneInvariant, PTL DEF Spec

\* Only its own UpdateRef ends a registration and moves the drive.
LEMMA EndsByRef ==
    ASSUME Base, [Next]_vars, NEW t \in Task,
           act[t].pc = "ref", log' # log, act'[t].pc = "idle"
    PROVE  UpdateRef(t)
<1>1. act \in [Actor -> Job] /\ t \in Actor /\ t # Platform
  BY RegistryAssumption DEF Base, TypeOK, Actor
<1>2. CASE SeedMeta
  BY <1>1, <1>2 DEF SeedMeta
<1>3. ASSUME NEW u \in Actor,
             \/ WriteBlob(u) \/ WriteLeaf(u) \/ WriteDir(u) \/ WriteRoot(u) \/ WriteCommit(u)
      PROVE  FALSE
  <2>1. act[u].pc # "ref" /\ \A w \in Actor \ {u} : act'[w] = act[w]
    BY <1>1, <1>3 DEF WriteBlob, WriteLeaf, WriteDir, WriteRoot, WriteCommit, Write
  <2> QED BY <1>1, <2>1
<1>4. ASSUME NEW u \in Actor, UpdateRef(u)
      PROVE  u = t
  BY <1>1, <1>4 DEF UpdateRef
<1>5. CASE SeedSub
  BY <1>5 DEF SeedSub
<1>6. CASE \/ Boot \/ CheckLog \/ Browse \/ StartServer \/ Stop \/ CloseStore \/ Crash
           \/ \E w \in Task, n \in Name, i \in Info : Register(w, n, i)
           \/ \E w \in Task : ReadHead(w) \/ FailTask(w)
           \/ \E u \in Actor : ResolveRef(u)
           \/ UNCHANGED vars
  BY <1>6 DEF Boot, CheckLog, Browse, StartServer, Stop, CloseStore, Crash, Register,
              ReadHead, ReadHeadAs, FailTask, ResolveRef, vars
<1> QED BY <1>2, <1>3, <1>4, <1>5, <1>6, NextCases

\* The commit of a registration that ran alone puts its entry into the present
\* tree and changes nothing else, although it read that tree long before.
THEOREM AppliedToPresent == Spec => AloneOnPresent
<1> DEFINE Applied ==
        \A t \in Task :
          act[t].pc = "ref" /\ t \notin raced /\ log' # log /\ act'[t].pc = "idle"
              => Now' = WithMember(Now, act[t].name, act[t].info)
<1>1. ASSUME Base, Fresh, [Next]_vars
      PROVE  Applied
  <2> SUFFICES ASSUME NEW t \in Task, act[t].pc = "ref", t \notin raced,
                      log' # log, act'[t].pc = "idle"
               PROVE  Now' = WithMember(Now, act[t].name, act[t].info)
    OBVIOUS
  <2>1. UpdateRef(t) /\ t \in Actor
    BY <1>1, EndsByRef DEF Actor
  <2>2. Now' = NewTree(t) /\ t \in Holding /\ stage # "closed"
    BY <1>1, <2>1, UpdateRefTree
  <2>3. act[t].base = Now
    BY <1>1, <2>2 DEF Fresh
  <2> QED BY <2>2, <2>3 DEF NewTree
<1>2. Base /\ Fresh /\ [Next]_vars => [Applied]_vars
  BY <1>1
<1> QED BY <1>2, BaseInvariant, FreshInvariant, PTL DEF Spec, AloneOnPresent

-----------------------------------------------------------------------------
(***************************************************************************)
(* Each commit is one entry put into some listing there has been.          *)
(***************************************************************************)
Past == {TreeAt(log, v).swarm : v \in 0..Len(log)}

\* What a job holds is what some version read, unless the store is closed.
FromPast ==
    stage # "closed" =>
        \A t \in Task : t \in Holding => act[t].base.swarm \in Past

\* Past only grows, and by what main reads after the step.
LEMMA PastGrows ==
    ASSUME Base, Base', Grows(log, log'), Len(log') <= Len(log) + 1
    PROVE  Past' = Past \cup {Now'.swarm}
<1>1. Len(log) \in Nat /\ Len(log') \in Nat /\ Len(log) <= Len(log')
  BY DEF Base, TypeOK, Grows
<1>2. Now'.swarm \in Past'
  BY <1>1 DEF Now, Past
<1>3. Past \subseteq Past'
  BY <1>1, VersionsKept DEF Past
<1>4. Past' \subseteq Past \cup {Now'.swarm}
  <2> SUFFICES ASSUME NEW v \in 0..Len(log'), TreeAt(log', v).swarm # Now'.swarm
               PROVE  TreeAt(log', v).swarm \in Past
    BY DEF Past
  <2>1. v \in 0..Len(log)
    BY LastVersion
  <2> QED BY <2>1, VersionsKept DEF Past
<1> QED BY <1>2, <1>3, <1>4

LEMMA FromPastInit == Init => FromPast
BY DEF Init, FromPast, Holding, Idle, Actor

LEMMA FromPastStep == Base /\ Base' /\ FromPast /\ [Next]_vars => FromPast'
<1> SUFFICES ASSUME Base, Base', FromPast, [Next]_vars,
                    stage' # "closed", NEW t \in Task, t \in Holding'
             PROVE  act'[t].base.swarm \in Past'
  BY DEF FromPast
<1>1. t \in Actor /\ t # Platform
  BY RegistryAssumption DEF Actor
<1>2. stage # "closed"
  <2>1. ~ Crash
    BY <1>1 DEF Crash, Holding, Idle
  <2>2. stage = "closed" => ~ \E u \in Actor : UpdateRef(u)
    BY DEF UpdateRef
  <2> QED BY <2>1, <2>2, ClosedStays
<1>3. Grows(log, log') /\ Len(log') <= Len(log) + 1
  BY SameTreeSteps, UpdateRefTree DEF SameTree, Base, TypeOK
<1>4. Past \subseteq Past'
  BY <1>3, PastGrows
<1>5. CASE GoesOn(t)
  BY <1>2, <1>4, <1>5 DEF GoesOn, FromPast
<1>6. CASE ReadHead(t)
  <2>1. Now.swarm \in Past
    BY DEF Now, Past, Base, TypeOK
  <2> QED BY <1>2, <1>4, <1>6, <2>1, ReadHeadBase
<1> QED BY <1>1, <1>5, <1>6, HoldingSteps

\* FromPast holds in every reachable state.
THEOREM FromPastInvariant == Spec => []FromPast
<1>1. Base /\ Base' /\ FromPast /\ [Next]_vars => FromPast'
  BY FromPastStep
<1> QED BY <1>1, FromPastInit, BaseInvariant, PTL DEF Spec

\* Every step is a step of the snapshot directory, or leaves it alone.
LEMMA SnapshotStep ==
    ASSUME Base, Base', Complete, FromPast, [Next]_vars
    PROVE  [Directory!SnapshotNext]_<<Now.swarm, Past>>
<1>1. Platform \in Member /\ PlatformInfo # None
  BY NamesAssumption, RegistryAssumption DEF Member
<1>2. Now.swarm \in Past
  BY DEF Now, Past, Base, TypeOK
<1>3. CASE ~ \E u \in Actor : UpdateRef(u)
  <2>1. SameTree
    BY <1>3, SameTreeSteps
  <2>2. Now' = Now /\ Past' = Past
    BY <1>2, <2>1, PastGrows DEF SameTree
  <2> QED BY <2>2
<1>4. CASE \E u \in Actor : UpdateRef(u)
  <2>1. PICK u \in Actor : UpdateRef(u)
    BY <1>4
  <2> DEFINE n == act[u].name
             i == act[u].info
             d == act[u].base.swarm
  <2>2. /\ Grows(log, log') /\ Len(log') = Len(log) + 1 /\ Now' = NewTree(u)
        /\ u \in Holding /\ stage # "closed"
    BY <2>1, UpdateRefTree
  <2>3. act[u].base \in Tree /\ n \in Member /\ i \in Info /\ act[u].pc # "idle"
    BY <2>2 DEF Base, TypeOK, Job, Holding
  <2>4. Now'.swarm = [d EXCEPT ![n] = i]
    BY <2>2, <2>3 DEF NewTree, WithMember, Tree
  <2>5. Past' = Past \cup {Now'.swarm}
    BY <2>2, PastGrows DEF Base, TypeOK
  <2>6. CASE u = Platform
    <3>1. act[u].base = SeedTree /\ n = Platform /\ i = PlatformInfo /\ stage = "seedNode"
      BY <2>3, <2>6 DEF Base, SeedAlone
    <3>2. Main = 0
      BY <3>1 DEF Base, SeedAlone
    <3>3. Now = EmptyTree
      BY <3>2 DEF Main, Now, TreeAt
    <3>4. d = Directory!Nobody /\ Now.swarm = Directory!Nobody
      BY <3>1, <3>3 DEF SeedTree, EmptyTree, Directory!Nobody, Member
    <3>5. Directory!Seed
      BY <2>4, <2>5, <3>1, <3>4 DEF Directory!Seed, Directory!Becomes, Past
    <3> QED BY <3>5 DEF Directory!SnapshotNext
  <2>7. CASE u # Platform
    <3>1. u \in Task
      BY <2>7 DEF Actor
    <3>2. n \in Name
      BY <2>3, <3>1 DEF Base, TaskNames
    <3>3. d \in Past
      BY <2>2, <3>1 DEF FromPast
    <3>4. TreeGood(act[u].base)
      BY <2>2, <3>1 DEF Complete
    <3>5. d # Directory!Nobody
      BY <1>1, <3>4 DEF TreeGood, Directory!Nobody, Member
    <3>6. Directory!Becomes([d EXCEPT ![n] = i])
      BY <2>4, <2>5 DEF Directory!Becomes, Past
    <3>7. Directory!PutInto(d)
      BY <2>3, <3>2, <3>6 DEF Directory!PutInto
    <3>8. \E x \in Past \ {Directory!Nobody} : Directory!PutInto(x)
      BY <3>3, <3>5, <3>7
    <3> QED BY <3>8 DEF Directory!SnapshotNext, Past
  <2> QED BY <2>6, <2>7
<1> QED BY <1>3, <1>4

\* Initially nobody is listed.
LEMMA SnapshotInit == Init => Directory!Init
<1> SUFFICES ASSUME Init PROVE Directory!Init
  OBVIOUS
<1>1. log = <<>> /\ Len(log) = 0 /\ 0..Len(log) = {0}
  BY DEF Init
<1>2. TreeAt(log, 0) = EmptyTree /\ Now = EmptyTree
  BY <1>1 DEF TreeAt, HeadAt, Now
<1>3. EmptyTree.swarm = Directory!Nobody
  BY DEF EmptyTree, Directory!Nobody, Member
<1>4. {TreeAt(log, v).swarm : v \in 0..Len(log)} = {Directory!Nobody}
  BY <1>1, <1>2, <1>3
<1> QED BY <1>2, <1>3, <1>4 DEF Directory!Init

\* The platform implements the snapshot directory for any number of overlapping
\* registrations: a commit may drop entries, but only by going back to a listing
\* there has been, and it changes one entry of that.
THEOREM SnapshotRefinement == Spec => ImplementsSnapshots
<1>1. Base /\ Base' /\ Complete /\ FromPast /\ [Next]_vars
        => [Directory!SnapshotNext]_<<Now.swarm, Past>>
  BY SnapshotStep
<1>2. Base /\ Base' /\ Complete /\ FromPast /\ [Next]_vars
        => [Directory!SnapshotNext]_(Directory!dvars)
  BY <1>1 DEF Directory!dvars, Past
<1> QED BY <1>2, SnapshotInit, BaseInvariant, CompleteInvariant, FromPastInvariant, PTL
        DEF Spec, ImplementsSnapshots, Directory!SnapshotSpec

-----------------------------------------------------------------------------
(***************************************************************************)
(* The commit of a registration that ran alone stays in git log.           *)
(***************************************************************************)
\* A commit descends from itself and from all its parent descends from.
LEMMA ParentAncestors ==
    ASSUME NEW l, NEW c \in Commits(l)
    PROVE  {c} \cup Ancestors(l, l[c].put.parent) \subseteq Ancestors(l, c)
<1>1. 0 \notin Commits(l)
  BY DEF Commits
<1>2. ASSUME NEW S \in Histories(l, c)
      PROVE  c \in S /\ S \in Histories(l, l[c].put.parent)
  BY <1>1, <1>2 DEF Histories
<1> QED BY <1>2 DEF Ancestors

\* What a commit descends from does not change when the drive grows, because a
\* parent is put before its commit.
LEMMA AncestorsKept ==
    ASSUME NEW l \in Seq(Entry), NEW m \in Seq(Entry), Grows(l, m), Closed(l),
           NEW c \in Commits(l) \cup {0}
    PROVE  Ancestors(l, c) \subseteq Ancestors(m, c)
<1>1. Commits(l) = Commits(m) \cap (1..Len(l)) /\ \A k \in 1..Len(l) : m[k] = l[k]
  BY DEF Commits, Grows
<1>2. \A k \in Commits(l) : l[k].put.parent \in Commits(l) \cup {0}
  BY DEF Closed, ParentBefore, Commits
<1>3. ASSUME NEW S \in Histories(m, c)
      PROVE  S \cap Commits(l) \in Histories(l, c)
  <2>1. c \in (S \cap Commits(l)) \cup {0}
    BY <1>3 DEF Histories
  <2>2. ASSUME NEW k \in S \cap Commits(l)
        PROVE  l[k].put.parent \in (S \cap Commits(l)) \cup {0}
    <3>1. m[k].put.parent \in S \cup {0} /\ m[k] = l[k]
      BY <1>1, <1>3, <2>2 DEF Histories
    <3> QED BY <1>2, <2>2, <3>1
  <2> QED BY <2>1, <2>2 DEF Histories
<1> QED BY <1>1, <1>3 DEF Ancestors

\* HistoryKept is not inductive: a job commits on the parent it resolved, so that
\* parent must descend from the same commits.
Rooted ==
    /\ solo \subseteq Ancestors(log, Main)
    /\ stage # "closed" =>
          \A u \in Actor : act[u].pc \in {"commit", "ref"} =>
              solo \subseteq Ancestors(log, act[u].parent)

\* A job with a parent had it, or has just resolved it.
LEMMA ParentSteps ==
    ASSUME Base, [Next]_vars, NEW u \in Actor, act'[u].pc \in {"commit", "ref"}
    PROVE  \/ act[u].pc \in {"commit", "ref"} /\ act'[u].parent = act[u].parent
           \/ ResolveRef(u)
<1>1. act \in [Actor -> Job] /\ Platform \in Actor /\ Task \subseteq Actor /\ Idle.pc = "idle"
  BY DEF Base, TypeOK, Actor, Idle
<1>2. CASE act'[u] = act[u]
  BY <1>2
<1>3. CASE SeedMeta
  <2> DEFINE job == [Idle EXCEPT !.pc = "blob", !.base = SeedTree]
  <2>1. act' = act \/ act' = [act EXCEPT ![Platform] = job]
    BY <1>3 DEF SeedMeta
  <2>2. job.pc = "blob"
    BY DEF Idle
  <2> QED BY <1>1, <1>2, <2>1, <2>2
<1>4. ASSUME NEW w \in Actor,
             WriteBlob(w) \/ WriteLeaf(w) \/ WriteDir(w) \/ WriteRoot(w) \/ WriteCommit(w)
      PROVE  act[u].pc \in {"commit", "ref"} /\ act'[u].parent = act[u].parent
  BY <1>1, <1>4 DEF WriteBlob, WriteLeaf, WriteDir, WriteRoot, WriteCommit, Write, Job
<1>5. ASSUME NEW w \in Actor, ResolveRef(w), w # u
      PROVE  act'[u] = act[u]
  BY <1>1, <1>5 DEF ResolveRef
<1>6. ASSUME NEW w \in Actor, UpdateRef(w) \/ (w \in Task /\ FailTask(w))
      PROVE  act'[u] = act[u]
  BY <1>1, <1>6 DEF UpdateRef, FailTask
<1>7. CASE Crash
  BY <1>1, <1>7 DEF Crash
<1>8. ASSUME NEW t \in Task, NEW n \in Name, NEW i \in Info, Register(t, n, i)
      PROVE  act'[u] = act[u]
  <2> DEFINE job == [Idle EXCEPT !.pc = "head", !.name = n, !.info = i]
  <2>1. act' = [act EXCEPT ![t] = job] /\ job.pc = "head"
    BY <1>8 DEF Register, Idle
  <2> QED BY <1>1, <2>1
<1>9. ASSUME NEW t \in Task, ReadHead(t)
      PROVE  act'[u] = act[u]
  <2>1. t = u => act'[u].pc = "blob"
    BY <1>1, <1>9 DEF ReadHead, ReadHeadAs, Job
  <2>2. t # u => act'[u] = act[u]
    BY <1>1, <1>9 DEF ReadHead, ReadHeadAs
  <2> QED BY <2>1, <2>2
<1>10. CASE \/ Boot \/ CheckLog \/ SeedSub \/ Browse \/ StartServer \/ Stop \/ CloseStore
            \/ UNCHANGED vars
  BY <1>2, <1>10 DEF Boot, CheckLog, SeedSub, Browse, StartServer, Stop, CloseStore, vars
<1> QED BY <1>1, <1>2, <1>3, <1>4, <1>5, <1>6, <1>7, <1>8, <1>9, <1>10, NextCases

LEMMA RootedInit == Init => Rooted
BY DEF Init, Rooted, Idle

LEMMA RootedStep == Base /\ Ordered /\ Alone /\ Rooted /\ [Next]_vars => Rooted'
<1> SUFFICES ASSUME Base, Ordered, Alone, Rooted, [Next]_vars PROVE Rooted'
  OBVIOUS
<1>1. log \in Seq(Entry) /\ Closed(log)
  BY DEF Base, TypeOK, Ordered
<1>2. Main \in Commits(log) \cup {0}
  BY TreeAtType DEF Base, TypeOK, Main, Commits
<1>3. \A u \in Actor : act[u].pc \in {"commit", "ref"} => act[u].parent \in Commits(log) \cup {0}
  BY DEF Ordered, JobStored, Commits
<1>4. CASE ~ \E u \in Actor : UpdateRef(u)
  <2>1. solo' = solo
    BY <1>4, NextCases
    DEF Boot, CheckLog, SeedMeta, SeedSub, Browse, StartServer, Stop, CloseStore, Crash,
        Register, ReadHead, ReadHeadAs, FailTask, WriteBlob, WriteLeaf, WriteDir, WriteRoot, ResolveRef,
        WriteCommit, Write, ghosts, vars
  <2>2. Grows(log, log') /\ Main' = Main
    BY <1>4, SameTreeSteps DEF SameTree
  <2>3. log' \in Seq(Entry)
    BY BaseStep DEF Base, TypeOK
  <2>4. Ancestors(log, Main) \subseteq Ancestors(log', Main')
    BY <1>1, <1>2, <2>2, <2>3, AncestorsKept
  <2>5. ASSUME stage' # "closed", NEW u \in Actor, act'[u].pc \in {"commit", "ref"}
        PROVE  solo' \subseteq Ancestors(log', act'[u].parent)
    <3>1. stage # "closed"
      <4>1. ~ Crash
        BY <2>5 DEF Crash, Idle
      <4> QED BY <1>4, <2>5, <4>1, ClosedStays
    <3>2. CASE act[u].pc \in {"commit", "ref"} /\ act'[u].parent = act[u].parent
      <4>1. Ancestors(log, act[u].parent) \subseteq Ancestors(log', act[u].parent)
        BY <1>1, <1>3, <2>2, <2>3, <3>2, AncestorsKept
      <4> QED BY <2>1, <3>1, <3>2, <4>1 DEF Rooted
    <3>3. CASE ResolveRef(u)
      <4>1. act'[u].parent = Main
        BY <3>1, <3>3 DEF ResolveRef, Base, TypeOK, Job
      <4> QED BY <2>1, <2>2, <2>4, <4>1 DEF Rooted
    <3> QED BY <2>5, <3>2, <3>3, ParentSteps
  <2> QED BY <2>1, <2>4, <2>5 DEF Rooted
<1>5. CASE \E u \in Actor : UpdateRef(u)
  <2>1. PICK u \in Actor : UpdateRef(u)
    BY <1>5
  <2> DEFINE c == act[u].commit
  <2>2. /\ act[u].pc = "ref" /\ stage # "closed" /\ Idle.pc = "idle"
        /\ log' = WriteRef(log, c) /\ act' = [act EXCEPT ![u] = Idle]
        /\ solo' = IF u \in raced THEN solo ELSE solo \cup {c}
    BY <2>1 DEF UpdateRef, Idle
  <2>3. c \in 1..Len(log) /\ log[c].put = Commit(NewTree(u), act[u].parent)
    BY <2>2 DEF Base, JobCommit
  <2>4. c \in Commits(log) /\ log[c].put.type = "commit" /\ log[c].put.parent = act[u].parent
    BY <2>3 DEF Commit, Commits
  <2>5. log' \in Seq(Entry) /\ Grows(log, log') /\ Main' = c
    BY <1>1, <2>2, <2>3, <2>4, WriteRefFacts DEF Base, Main
  <2>6. solo' \subseteq Ancestors(log', c)
    <3>1. solo \cup {c} \subseteq Ancestors(log, c)
      BY <2>2, <2>4, ParentAncestors DEF Rooted
    <3> QED BY <1>1, <2>2, <2>4, <2>5, <3>1, AncestorsKept
  <2>7. ASSUME NEW w \in Actor, act'[w].pc \in {"commit", "ref"}
        PROVE  solo' \subseteq Ancestors(log', act'[w].parent)
    <3>1. w # u /\ act'[w] = act[w]
      BY <2>2, <2>7 DEF Base, TypeOK
    <3>2. {u, w} \subseteq Holding
      BY <2>2, <2>7, <3>1 DEF Holding
    <3>3. solo' = solo
      BY <2>2, <3>1, <3>2 DEF Alone
    <3>4. Ancestors(log, act[w].parent) \subseteq Ancestors(log', act[w].parent)
      BY <1>1, <1>3, <2>5, <2>7, <3>1, AncestorsKept
    <3> QED BY <2>2, <2>7, <3>1, <3>3, <3>4 DEF Rooted
  <2> QED BY <2>5, <2>6, <2>7 DEF Rooted
<1> QED BY <1>4, <1>5

\* Main may drop the commit of a registration that raced, but the commit of one
\* that ran alone stays among those git log shows, for any number of other
\* registrations, races, crashes and restarts.
THEOREM HistoriesKept == Spec => []HistoryKept
<1>1. Base /\ Ordered /\ Alone /\ Rooted /\ [Next]_vars => Rooted'
  BY RootedStep
<1>2. Rooted => HistoryKept
  BY DEF Rooted, HistoryKept
<1> QED BY <1>1, <1>2, RootedInit, BaseInvariant, OrderedInvariant, AloneInvariant, PTL DEF Spec
===============================================================================
