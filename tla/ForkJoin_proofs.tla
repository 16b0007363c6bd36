-------------------------- MODULE ForkJoin_proofs --------------------------
(***************************************************************************)
(* The fork of spl7-phase-3, for any folders, any number of starts and     *)
(* kills at any drive operation, and a platform that comes and goes.       *)
(***************************************************************************)
EXTENDS ForkJoin, TLAPS

-----------------------------------------------------------------------------
(***************************************************************************)
(* Objects.                                                                *)
(***************************************************************************)
Identities == Theirs \cup Own

SubObject == [type : {"sub"}, folder : Folder, blobs : SUBSET Blob]

RootObject == [type : {"root"}, subs : SUBSET SubObject]

Object ==
    Blob \cup SubObject \cup RootObject
      \cup [type : {"commit"}, tree : RootObject, parent : Nat, time : Own]
      \cup [type : {"ref"}, commit : Nat]

Entry == [put : Object, main : Nat]

\* The subtree of folder f in a seeded tree.
SeededSub(i, f) == Sub(f, {Meta(f)} \cup (IF f = Config THEN {Identity(i)} ELSE {}))

\* A blob is a folder's or an identity.
LEMMA Blobs ==
    /\ \A f \in Folder : Meta(f) \in Blob /\ ~ IsIdentity(Meta(f)) /\ Meta(f).type = "meta"
    /\ \A i \in Identities :
          Identity(i) \in Blob /\ IsIdentity(Identity(i)) /\ Identity(i).identity = i
    /\ \A b \in Blob : b.type \in {"meta", "identity"}
<1>1. \A f \in Folder : Meta(f) \in Blob /\ Meta(f).type = "meta"
  BY DEF Blob, Meta
<1>2. \A i \in Identities :
        Identity(i) \in Blob /\ Identity(i).type = "identity" /\ Identity(i).identity = i
  BY DEF Blob, Identities, Identity
<1>3. \A b \in Blob : b.type \in {"meta", "identity"}
  BY <1>1, <1>2 DEF Blob, Identities
<1> QED BY <1>1, <1>2, <1>3 DEF IsIdentity

\* A seeded tree's subtrees.
LEMMA SeededShape ==
    ASSUME NEW i \in Identities
    PROVE  /\ Seeded(i).subs = {SeededSub(i, f) : f \in Folder}
           /\ \A f \in Folder : SeededSub(i, f).folder = f /\ SeededSub(i, f) \in SubObject
           /\ Seeded(i) \in RootObject /\ Seeded(i).type = "root"
           /\ \A f \in Folder : FolderOf(Seeded(i), f) = SeededSub(i, f)
<1>1. Seeded(i).subs = {SeededSub(i, f) : f \in Folder} /\ Seeded(i).type = "root"
  BY DEF Seeded, Root, SeededSub
<1>2. \A f \in Folder : SeededSub(i, f).folder = f /\ SeededSub(i, f) \in SubObject
  BY Blobs DEF SeededSub, Sub, SubObject
<1>3. Seeded(i) \in RootObject
  BY <1>1, <1>2 DEF Seeded, Root, RootObject, SeededSub
<1>4. ASSUME NEW f \in Folder
      PROVE  FolderOf(Seeded(i), f) = SeededSub(i, f)
  <2>1. \A s \in Seeded(i).subs : s.folder = f <=> s = SeededSub(i, f)
    BY <1>1, <1>2
  <2>2. SeededSub(i, f) \in Seeded(i).subs
    BY <1>1
  <2> QED BY <2>1, <2>2 DEF FolderOf
<1> QED BY <1>1, <1>2, <1>3, <1>4

\* What modifyTree makes of a seeded tree's identity is the tree seeded with the
\* new one.
LEMMA IdentityPut ==
    ASSUME NEW i \in Identities, NEW j \in Identities,
           NEW old, old = FolderOf(Seeded(i), Config)
    PROVE  /\ WithIdentity(old, j) = SeededSub(j, Config)
           /\ Root((Seeded(i).subs \ {old}) \cup {WithIdentity(old, j)}) = Seeded(j)
<1>1. old = SeededSub(i, Config) /\ Config \in Folder
  BY SeededShape, ForkAssumption
<1>2. old.folder = Config /\ old.blobs = {Meta(Config), Identity(i)}
  BY <1>1 DEF SeededSub, Sub
<1>3. {b \in old.blobs : ~ IsIdentity(b)} = {Meta(Config)}
  BY <1>1, <1>2, Blobs
<1>4. WithIdentity(old, j) = SeededSub(j, Config)
  BY <1>2, <1>3 DEF WithIdentity, SeededSub
<1>5. \A f \in Folder \ {Config} : SeededSub(i, f) = SeededSub(j, f) /\ SeededSub(i, f) # old
  <2>1. \A f \in Folder \ {Config} : SeededSub(i, f) = SeededSub(j, f)
    BY DEF SeededSub
  <2>2. \A f \in Folder : SeededSub(i, f).folder = f
    BY SeededShape
  <2> QED BY <1>2, <2>1, <2>2
<1>6. (Seeded(i).subs \ {old}) \cup {SeededSub(j, Config)} = {SeededSub(j, f) : f \in Folder}
  <2>1. Seeded(i).subs = {SeededSub(i, f) : f \in Folder}
    BY SeededShape
  <2> QED BY <1>1, <1>5, <2>1
<1>7. Seeded(j) = Root({SeededSub(j, f) : f \in Folder})
  BY DEF Seeded, SeededSub
<1> QED BY <1>4, <1>6, <1>7

\* The identity in a seeded tree.
LEMMA SeededIdentity ==
    ASSUME NEW i \in Identities
    PROVE  IdentitiesIn(Seeded(i)) = {i}
<1>1. FolderOf(Seeded(i), Config) = SeededSub(i, Config) /\ Config \in Folder
  BY SeededShape, ForkAssumption
<1>2. SeededSub(i, Config).blobs = {Meta(Config), Identity(i)}
  BY DEF SeededSub, Sub
<1>3. {x \in SeededSub(i, Config).blobs : IsIdentity(x)} = {Identity(i)}
  BY <1>1, <1>2, Blobs
<1> QED BY <1>1, <1>3, Blobs DEF IdentitiesIn

-----------------------------------------------------------------------------
(***************************************************************************)
(* The node's drive.                                                       *)
(***************************************************************************)
\* A tree that can be read from the objects in S.
Whole(t, S) == t \in S /\ \A s \in t.subs : s \in S /\ s.blobs \subseteq S

\* Every commit is of a seeded tree that was put before it; its parent was, too, and
\* the first has the platform's tree.
GoodCommits(l) ==
    \A k \in 1..Len(l) : l[k].put.type = "commit" =>
        /\ Whole(l[k].put.tree, Stored(l, k))
        /\ l[k].put.parent \in 0..(k - 1)
        /\ l[k].put.parent = 0 => l[k].put.tree = source
        /\ \E i \in Identities : l[k].put.tree = Seeded(i)

\* Main names an earlier commit, or none.
GoodMains(l) ==
    \A k \in 1..Len(l) :
        /\ l[k].main \in 0..k
        /\ l[k].main # 0 => l[l[k].main].put.type = "commit"

GoodLog(l) == l \in Seq(Entry) /\ GoodMains(l) /\ GoodCommits(l)

Grows(l, m) == Len(l) <= Len(m) /\ \A k \in 1..Len(l) : m[k] = l[k]

\* A prefix stores the same however far the drive has grown since.
LEMMA StoredGrows ==
    ASSUME NEW l \in Seq(Entry), NEW m \in Seq(Entry), Grows(l, m), NEW v \in 0..Len(l)
    PROVE  Stored(m, v) = Stored(l, v) /\ Stored(l, v) \subseteq Stored(m, Len(m))
BY DEF Stored, Grows

\* A longer prefix stores more.
LEMMA StoredMore ==
    ASSUME NEW l, NEW v \in Nat, NEW w \in Nat, v <= w
    PROVE  Stored(l, v) \subseteq Stored(l, w)
BY DEF Stored

\* What can be read can be read from more.
LEMMA WholeMore ==
    ASSUME NEW t, NEW S, NEW T, S \subseteq T, Whole(t, S)
    PROVE  Whole(t, T)
BY DEF Whole

\* An entry whose commit, if it is one, is good, and whose main is one of before or
\* a commit, keeps the drive good.
LEMMA AppendGood ==
    ASSUME NEW l, GoodLog(l), NEW e \in Entry, NEW m, m = Append(l, e),
           e.main \in 0..Len(l), e.main # 0 => l[e.main].put.type = "commit",
           e.put.type = "commit" =>
               /\ Whole(e.put.tree, Stored(l, Len(l)))
               /\ e.put.parent \in 0..Len(l)
               /\ e.put.parent = 0 => e.put.tree = source
               /\ \E i \in Identities : e.put.tree = Seeded(i)
    PROVE  /\ GoodLog(m) /\ Grows(l, m) /\ Len(m) = Len(l) + 1
           /\ m[Len(m)] = e /\ HeadAt(m, Len(m)) = e.main
<1>1. l \in Seq(Entry) /\ GoodMains(l) /\ GoodCommits(l)
  BY DEF GoodLog
<1>2. /\ m \in Seq(Entry) /\ Len(m) = Len(l) + 1 /\ m[Len(m)] = e
      /\ \A k \in 1..Len(l) : m[k] = l[k]
  BY <1>1
<1>3. Grows(l, m) /\ Len(l) \in Nat /\ Len(m) \in Nat
  BY <1>1, <1>2 DEF Grows
<1>4. GoodMains(m)
  <2> SUFFICES ASSUME NEW k \in 1..Len(m)
               PROVE  /\ m[k].main \in 0..k
                      /\ m[k].main # 0 => m[m[k].main].put.type = "commit"
    BY DEF GoodMains
  <2>1. CASE k = Len(m)
    BY <2>1, <1>2, <1>3
  <2>2. CASE k # Len(m)
    <3>1. k \in 1..Len(l) /\ m[k] = l[k]
      BY <2>2, <1>2, <1>3
    <3>2. l[k].main \in 0..k /\ (l[k].main # 0 => l[l[k].main].put.type = "commit")
      BY <1>1, <3>1 DEF GoodMains
    <3> QED BY <3>1, <3>2, <1>2, <1>3
  <2> QED BY <2>1, <2>2
<1>5. GoodCommits(m)
  <2> SUFFICES ASSUME NEW k \in 1..Len(m), m[k].put.type = "commit"
               PROVE  /\ Whole(m[k].put.tree, Stored(m, k))
                      /\ m[k].put.parent \in 0..(k - 1)
                      /\ m[k].put.parent = 0 => m[k].put.tree = source
                      /\ \E i \in Identities : m[k].put.tree = Seeded(i)
    BY DEF GoodCommits
  <2>1. CASE k = Len(m)
    <3>1. Stored(l, Len(l)) \subseteq Stored(m, k)
      <4>1. Len(l) \in 0..Len(l)
        BY <1>3
      <4>2. Stored(l, Len(l)) \subseteq Stored(m, Len(m))
        BY <1>1, <1>2, <1>3, <4>1, StoredGrows
      <4> QED BY <2>1, <4>2
    <3>2. Whole(e.put.tree, Stored(m, k))
      BY <1>2, <2>1, <3>1, WholeMore
    <3>3. m[k] = e /\ k - 1 = Len(l)
      BY <2>1, <1>2, <1>3
    <3> QED BY <3>2, <3>3
  <2>2. CASE k # Len(m)
    <3>1. k \in 1..Len(l) /\ k \in 0..Len(l) /\ m[k] = l[k]
      BY <2>2, <1>2, <1>3
    <3>2. Stored(m, k) = Stored(l, k)
      BY <1>1, <1>2, <1>3, <3>1, StoredGrows
    <3> QED BY <1>1, <3>1, <3>2 DEF GoodCommits
  <2> QED BY <2>1, <2>2
<1> QED BY <1>2, <1>3, <1>4, <1>5 DEF GoodLog, HeadAt

\* Main of a good drive.
LEMMA MainFacts ==
    ASSUME NEW l, GoodLog(l), NEW v \in 0..Len(l)
    PROVE  /\ HeadAt(l, v) \in 0..v
           /\ HeadAt(l, v) # 0 => l[HeadAt(l, v)].put.type = "commit"
BY DEF GoodLog, GoodMains, HeadAt

\* Writing an object: it is there afterwards, and main is what it was.
LEMMA WriteObjectFacts ==
    ASSUME GoodLog(log), NEW o \in Object, log' = WriteObject(log, o), source' = source,
           o.type = "commit" =>
               /\ Whole(o.tree, Stored(log, Len(log)))
               /\ o.parent \in 0..Len(log)
               /\ o.parent = 0 => o.tree = source
               /\ \E i \in Identities : o.tree = Seeded(i)
    PROVE  /\ GoodLog(log)' /\ Grows(log, log') /\ Main' = Main
           /\ Stored(log, Len(log)) \cup {o} \subseteq Stored(log', Len(log'))
<1>1. log \in Seq(Entry) /\ Main \in 0..Len(log) /\ (Main # 0 => log[Main].put.type = "commit")
  BY MainFacts DEF GoodLog, Main
<1>2. CASE o \in Stored(log, Len(log))
  <2>1. log' = log
    BY <1>2 DEF WriteObject
  <2>2. GoodLog(log)'
    BY <2>1 DEF GoodLog, GoodMains, GoodCommits
  <2> QED BY <1>1, <1>2, <2>1, <2>2 DEF Grows, Main
<1>3. CASE o \notin Stored(log, Len(log))
  <2> DEFINE e == [put |-> o, main |-> Main]
  <2>1. e \in Entry /\ e.put = o /\ e.main = Main
    BY <1>1 DEF Entry
  <2>2. log' = Append(log, e)
    BY <1>3 DEF WriteObject, Main
  <2>3. /\ GoodLog(log') /\ Grows(log, log') /\ Len(log') = Len(log) + 1
        /\ log'[Len(log')] = e /\ HeadAt(log', Len(log')) = e.main
    BY <1>1, <2>1, <2>2, AppendGood, ZenonT(40)
  <2>4. GoodLog(log)'
    BY <2>3 DEF GoodLog, GoodMains, GoodCommits
  <2>5. log' \in Seq(Entry) /\ Len(log') \in 1..Len(log')
    BY <1>1, <2>3 DEF GoodLog
  <2>6. o \in Stored(log', Len(log'))
    <3>1. log'[Len(log')].put = o
      BY <2>1, <2>3
    <3> QED BY <2>5, <3>1 DEF Stored
  <2>7. Stored(log, Len(log)) \subseteq Stored(log', Len(log'))
    BY <1>1, <2>3, <2>5, StoredGrows
  <2> QED BY <2>1, <2>3, <2>4, <2>6, <2>7 DEF Main
<1> QED BY <1>2, <1>3

\* Forcing the ref to a commit.
LEMMA WriteRefFacts ==
    ASSUME GoodLog(log), NEW c \in 1..Len(log), log[c].put.type = "commit",
           log' = WriteRef(log, c), source' = source
    PROVE  /\ GoodLog(log)' /\ Grows(log, log') /\ Main' = c
           /\ Stored(log, Len(log)) \subseteq Stored(log', Len(log'))
<1> DEFINE e == [put |-> Ref(c), main |-> c]
<1>0. log \in Seq(Entry)
  BY DEF GoodLog
<1>1. e \in Entry /\ e.put.type # "commit" /\ e.main = c
  BY <1>0 DEF Entry, Object, Ref
<1>2. log' = Append(log, e)
  BY DEF WriteRef
<1>3. /\ GoodLog(log') /\ Grows(log, log') /\ Len(log') = Len(log) + 1
      /\ HeadAt(log', Len(log')) = c
  <2>1. c \in 0..Len(log)
    BY <1>0
  <2> HIDE DEF e
  <2> QED BY <1>0, <1>1, <1>2, <2>1, AppendGood, ZenonT(40)
<1>4. GoodLog(log)'
  BY <1>3 DEF GoodLog, GoodMains, GoodCommits
<1>5. Stored(log, Len(log)) \subseteq Stored(log', Len(log'))
  BY <1>0, <1>3, StoredGrows DEF GoodLog
<1> QED BY <1>3, <1>4, <1>5 DEF Main

\* A commit of main's, its tree and its parent stay what they are when the drive grows.
LEMMA HeadKept ==
    ASSUME GoodLog(log), Grows(log, log'), Main' = Main, Main # 0
    PROVE  /\ log'[Main'] = log[Main] /\ HeadTree' = HeadTree
           /\ TwoInLog => TwoInLog'
<1>1. Main \in 1..Len(log) /\ log[Main].put.type = "commit" /\ log'[Main] = log[Main]
  BY MainFacts DEF Main, Grows, GoodLog
<1>2. log[Main].put.parent # 0 => log'[log[Main].put.parent] = log[log[Main].put.parent]
  BY <1>1 DEF GoodLog, GoodCommits, Grows
<1>3. HeadTree = log[Main].put.tree /\ HeadTree' = log'[Main'].put.tree
  BY DEF HeadTree, TreeAt, Main
<1> QED BY <1>1, <1>2, <1>3 DEF TwoInLog

-----------------------------------------------------------------------------
(***************************************************************************)
(* What the node has done when it is where it is.                          *)
(***************************************************************************)
Have == Stored(log, Len(log))

Copying     == {"folder", "blobs", "forkRoot"}
Identifying == {"identity", "config", "root", "commit", "ref"}

JobType ==
    job \in [pc : Step, at : 1..Len(FolderOrder), done : SUBSET Blob, subs : SUBSET SubObject,
             id : Own \cup {None}, tree : RootObject \cup {None}, commit : 0..Len(log)]

\* The platform is seeded before it serves, and the node has nothing before that.
Sources ==
    /\ source = None \/ \E i \in Theirs : source = Seeded(i)
    /\ up \in BOOLEAN /\ cut \in BOOLEAN
    /\ up => source # None
    /\ source = None => local = {} /\ log = <<>>
    /\ \A o \in local : o = source \/ o \in source.subs \/ o \in Blob
    /\ job.pc \notin {"down", "sync", "fatal"} => source # None
    /\ job.pc # "down" => job.id \in Own

\* The copy: the folders so far, all of them stored.
Copied ==
    /\ job.pc \in {"sync", "browse", "check"} => job.at = 1 /\ job.subs = {}
    /\ job.pc \in {"folder", "blobs"} =>
          job.subs = {FolderOf(source, FolderOrder[k]) : k \in 1..(job.at - 1)}
    /\ job.pc = "forkRoot" => job.subs = source.subs
    /\ job.pc \in Copying =>
          Main = 0 /\ \A s \in job.subs : s \in Have /\ s.blobs \subseteq Have
    /\ job.pc = "blobs" => job.done \subseteq Current.blobs /\ job.done \subseteq Have

CommitOf(i, tree, parent) ==
    [type |-> "commit", tree |-> tree, parent |-> parent, time |-> i]

\* The fork commit.
Forked ==
    /\ job.pc \in {"forkCommit", "forkRef"} =>
          Main = 0 /\ job.tree = source /\ Whole(job.tree, Have)
    /\ job.pc = "forkRef" =>
          /\ job.commit \in 1..Len(log)
          /\ log[job.commit].put = CommitOf(job.id, source, 0)

\* The identity commit, on top of a main that is the fork's.
Identified ==
    /\ job.pc \in Identifying => Main # 0 /\ log[Main].put.parent = 0
    /\ job.pc \in {"config", "root"} => Identity(job.id) \in Have
    /\ job.pc = "root" => SeededSub(job.id, Config) \in Have
    /\ job.pc \in {"commit", "ref"} => job.tree = Seeded(job.id) /\ Whole(job.tree, Have)
    /\ job.pc = "ref" =>
          /\ job.commit \in 1..Len(log)
          /\ log[job.commit].put = CommitOf(job.id, job.tree, Main)
    /\ job.pc \in {"show", "ready"} => Main # 0
    /\ job.pc # "fatal"

\* A node that has a main and was never cut off has both commits.
Uncut ==
    ~ cut /\ job.pc \notin Identifying /\ Main # 0 =>
        TwoInLog /\ \E i \in Own : HeadTree = Seeded(i)

Fork == GoodLog(log) /\ JobType /\ Sources /\ Copied /\ Forked /\ Identified /\ Uncut

LEMMA ForkInit == Init => Fork
<1> SUFFICES ASSUME Init PROVE Fork
  OBVIOUS
<1>1. log = <<>> /\ Len(log) = 0 /\ Main = 0 /\ job = Off
  BY DEF Init, Main, HeadAt
<1>2. GoodLog(log)
  BY <1>1 DEF GoodLog, GoodMains, GoodCommits
<1>3. 1 \in 1..Len(FolderOrder)
  BY ForkAssumption
<1>4. JobType
  BY <1>1, <1>3 DEF JobType, Off, Step
<1>5. Sources
  BY DEF Init, Sources, Off
<1>6. Copied /\ Forked /\ Identified /\ Uncut
  BY <1>1 DEF Copied, Forked, Identified, Uncut, Off, Copying, Identifying
<1> QED BY <1>2, <1>4, <1>5, <1>6 DEF Fork

\* The subtree being copied is one of the source's.
LEMMA CurrentFacts ==
    ASSUME JobType, Sources, source # None
    PROVE  /\ FolderOrder[job.at] \in Folder
           /\ Current \in source.subs /\ Current \in SubObject
           /\ Current = Sub(FolderOrder[job.at], Current.blobs)
           /\ source \in RootObject /\ source = Root(source.subs)
           /\ source.subs = {FolderOf(source, FolderOrder[k]) : k \in 1..Len(FolderOrder)}
<1>1. PICK i \in Theirs : source = Seeded(i)
  BY DEF Sources
<1>2. i \in Identities
  BY DEF Identities
<1>3. \A k \in 1..Len(FolderOrder) : FolderOrder[k] \in Folder
  BY ForkAssumption
<1>4. FolderOrder[job.at] \in Folder
  BY <1>3 DEF JobType
<1>5. Current = SeededSub(i, FolderOrder[job.at])
  BY <1>1, <1>2, <1>4, SeededShape DEF Current
<1>6. Current \in source.subs /\ Current \in SubObject
  BY <1>1, <1>2, <1>4, <1>5, SeededShape
<1>7. Current = Sub(FolderOrder[job.at], Current.blobs)
  BY <1>5 DEF SeededSub, Sub
<1>8. source.subs = {FolderOf(source, FolderOrder[k]) : k \in 1..Len(FolderOrder)}
  <2>1. source.subs = {SeededSub(i, f) : f \in Folder}
        /\ \A f \in Folder : FolderOf(source, f) = SeededSub(i, f)
    BY <1>1, <1>2, SeededShape
  <2> QED BY <1>3, <2>1, ForkAssumption
<1>9. source \in RootObject /\ source = Root(source.subs)
  BY <1>1, <1>2, SeededShape DEF Seeded, Root
<1> QED BY <1>4, <1>6, <1>7, <1>8, <1>9

\* The tree under main is one that was seeded, and can be read; the source's, while
\* the identity is being set.
LEMMA HeadFacts ==
    ASSUME GoodLog(log), Main # 0
    PROVE  /\ Main \in 1..Len(log) /\ log[Main].put.type = "commit"
           /\ HeadTree = log[Main].put.tree /\ Whole(HeadTree, Have)
           /\ \E i \in Identities : HeadTree = Seeded(i)
           /\ log[Main].put.parent = 0 => HeadTree = source
<1>1. Main \in 1..Len(log) /\ log[Main].put.type = "commit" /\ Len(log) \in Nat
  BY MainFacts DEF Main, GoodLog
<1>2. HeadTree = log[Main].put.tree
  BY DEF HeadTree, TreeAt, Main
<1>3. /\ Whole(HeadTree, Stored(log, Main))
      /\ log[Main].put.parent = 0 => HeadTree = source
      /\ \E i \in Identities : HeadTree = Seeded(i)
  BY <1>1, <1>2 DEF GoodLog, GoodCommits
<1>4. Stored(log, Main) \subseteq Have
  BY <1>1, StoredMore DEF Have
<1> QED BY <1>1, <1>2, <1>3, <1>4, WholeMore

\* The job's commit stays one of the drive's, which only grows.
LEMMA JobStays ==
    ASSUME JobType, log \in Seq(Entry), log' \in Seq(Entry), Grows(log, log')
    PROVE  /\ job.commit \in 0..Len(log') /\ job.at \in 1..Len(FolderOrder)
           /\ job.done \subseteq Blob /\ job.subs \subseteq SubObject
           /\ job.id \in Own \cup {None} /\ job.tree \in RootObject \cup {None}
           /\ job.pc \in Step
           /\ DOMAIN job = {"pc", "at", "done", "subs", "id", "tree", "commit"}
BY DEF JobType, Grows

\* A step that leaves the drive and the source alone.
LEMMA LogStays ==
    ASSUME Fork, log' = log, source' = source
    PROVE  /\ GoodLog(log)' /\ Main' = Main /\ Have' = Have /\ HeadTree' = HeadTree
           /\ TwoInLog' = TwoInLog /\ Current' = FolderOf(source, FolderOrder[job'.at])
           /\ \A t : Whole(t, Have)' = Whole(t, Have)
<1>1. GoodLog(log)'
  BY DEF Fork, GoodLog, GoodMains, GoodCommits
<1>2. Main' = Main /\ Have' = Have /\ HeadTree' = HeadTree /\ TwoInLog' = TwoInLog
  BY DEF Main, Have, HeadTree, TreeAt, TwoInLog
<1>3. Current' = FolderOf(source, FolderOrder[job'.at])
  BY DEF Current
<1> QED BY <1>1, <1>2, <1>3

LEMMA PlatformForkStep ==
    ASSUME Fork, PlatformServes \/ PlatformLeaves \/ UNCHANGED vars
    PROVE  Fork'
<1>1. log' = log /\ job' = job /\ local' = local /\ cut' = cut
  BY DEF PlatformServes, PlatformLeaves, vars
<1>2. CASE source' = source
  <2>1. Sources' /\ JobType'
    <3>1. up' \in BOOLEAN /\ (up' => source # None)
      <4>1. CASE PlatformServes
        <5>1. up' = TRUE /\ (source = None => \E i \in Theirs : source = Seeded(i))
          BY <1>2, <4>1 DEF PlatformServes
        <5> QED BY <5>1, SourceAssumption
      <4>2. CASE PlatformLeaves
        <5>1. up' = FALSE
          BY <4>2 DEF PlatformLeaves
        <5> QED BY <5>1
      <4>3. CASE UNCHANGED vars
        <5>1. up' = up
          BY <4>3 DEF vars
        <5> QED BY <5>1 DEF Fork, Sources
      <4> QED BY <4>1, <4>2, <4>3
    <3> QED BY <1>1, <1>2, <3>1 DEF Fork, Sources, JobType
  <2>2. /\ GoodLog(log)' /\ Main' = Main /\ Have' = Have /\ HeadTree' = HeadTree
        /\ TwoInLog' = TwoInLog /\ Current' = Current
    BY <1>1, <1>2, LogStays DEF Current
  <2>3. Copied' /\ Forked' /\ Identified' /\ Uncut'
    BY <1>1, <1>2, <2>2 DEF Fork, Copied, Forked, Identified, Uncut
  <2> QED BY <2>1, <2>2, <2>3 DEF Fork
<1>3. CASE source' # source
  <2>1. source = None /\ up' = TRUE /\ \E i \in Theirs : source' = Seeded(i)
    BY <1>3 DEF PlatformServes, PlatformLeaves, vars
  <2>2. local = {} /\ log = <<>> /\ job.pc \in {"down", "sync", "fatal"}
    BY <2>1 DEF Fork, Sources
  <2>3. Main = 0 /\ Main' = 0 /\ Len(log) = 0
    BY <1>1, <2>2 DEF Main, HeadAt
  <2>4. GoodLog(log)'
    BY <1>1, <2>2 DEF GoodLog, GoodMains, GoodCommits
  <2>5. Sources'
    BY <1>1, <2>1, <2>2, SourceAssumption DEF Fork, Sources
  <2>6. JobType'
    BY <1>1 DEF Fork, JobType
  <2>7. Copied' /\ Forked' /\ Identified' /\ Uncut'
    BY <1>1, <2>2, <2>3 DEF Fork, Copied, Forked, Identified, Uncut, Copying, Identifying
  <2> QED BY <2>4, <2>5, <2>6, <2>7 DEF Fork
<1> QED BY <1>2, <1>3

\* Coming up, finding the platform, deciding, and being killed: the drive stays.
LEMMA QuietForkStep ==
    ASSUME Fork, Start \/ Sync \/ Browse \/ CheckLog \/ ReadFolder \/ Show \/ Crash
    PROVE  Fork'
<1>1. log' = log /\ source' = source /\ up' = up
  BY DEF Start, Sync, Browse, CheckLog, ReadFolder, Show, Crash, Fetch
<1>2. /\ GoodLog(log)' /\ Main' = Main /\ Have' = Have /\ HeadTree' = HeadTree
      /\ TwoInLog' = TwoInLog /\ Current' = FolderOf(source, FolderOrder[job'.at])
  BY <1>1, LogStays
<1>3. JobType
  BY DEF Fork
<1>4. CASE Start
  <2>1. PICK i \in Own : job' = [Off EXCEPT !.pc = "sync", !.id = i]
    BY <1>4 DEF Start
  <2>2. /\ job.pc = "down" /\ local' = local /\ cut' = cut /\ job'.pc = "sync"
        /\ job'.at = 1 /\ job'.subs = {} /\ job'.id = i
    BY <1>4, <2>1 DEF Start, Off, Fork, Identified
  <2>3. JobType'
    <3>1. 1 \in 1..Len(FolderOrder) /\ 0 \in 0..Len(log)
      BY ForkAssumption DEF Fork, GoodLog
    <3> QED BY <1>1, <2>1, <3>1 DEF Off, JobType, Step
  <2>4. Sources' /\ Copied' /\ Forked' /\ Identified' /\ Uncut'
    BY <1>1, <1>2, <2>2
       DEF Fork, Sources, Copied, Forked, Identified, Uncut, Copying, Identifying
  <2> QED BY <1>2, <2>3, <2>4 DEF Fork
<1>5. CASE Sync
  <2>1. /\ job.pc = "sync" /\ up /\ local' = local /\ cut' = cut
        /\ job' = [job EXCEPT !.pc = "browse"]
    BY <1>5 DEF Sync, Goto
  <2>2. /\ job'.pc = "browse" /\ job'.at = job.at /\ job'.subs = job.subs /\ job'.id = job.id
        /\ JobType'
    BY <1>1, <1>3, <2>1 DEF JobType, Step
  <2>3. Sources'
    BY <1>1, <2>1, <2>2 DEF Fork, Sources
  <2>4. Copied' /\ Forked' /\ Identified' /\ Uncut'
    BY <1>1, <1>2, <2>1, <2>2
       DEF Fork, Copied, Forked, Identified, Uncut, Copying, Identifying
  <2> QED BY <1>2, <2>2, <2>3, <2>4 DEF Fork
<1>6. CASE Browse
  <2>1. /\ job.pc = "browse" /\ local' = local \cup {source} /\ cut' = cut
        /\ job' = [job EXCEPT !.pc = "check"]
    BY <1>6 DEF Browse, Goto, Fetch
  <2>2. /\ job'.pc = "check" /\ job'.at = job.at /\ job'.subs = job.subs /\ job'.id = job.id
        /\ JobType'
    BY <1>1, <1>3, <2>1 DEF JobType, Step
  <2>3. Sources'
    BY <1>1, <2>1, <2>2 DEF Fork, Sources
  <2>4. Copied' /\ Forked' /\ Identified' /\ Uncut'
    BY <1>1, <1>2, <2>1, <2>2
       DEF Fork, Copied, Forked, Identified, Uncut, Copying, Identifying
  <2> QED BY <1>2, <2>2, <2>3, <2>4 DEF Fork
<1>7. CASE CheckLog
  <2> DEFINE next == IF Main = 0 THEN "folder" ELSE "show"
  <2>1. /\ job.pc = "check" /\ local' = local /\ cut' = cut /\ job' = [job EXCEPT !.pc = next]
    BY <1>7 DEF CheckLog, Goto
  <2>2. /\ job'.pc = next /\ job'.at = job.at /\ job'.subs = job.subs /\ job'.id = job.id
        /\ JobType' /\ job.at = 1 /\ job.subs = {}
    BY <1>1, <1>3, <2>1 DEF JobType, Step, Fork, Copied
  <2>3. Sources'
    BY <1>1, <2>1, <2>2 DEF Fork, Sources
  <2>4. Copied'
    BY <1>1, <1>2, <2>1, <2>2 DEF Copied, Copying
  <2>5. Forked' /\ Identified' /\ Uncut'
    BY <1>1, <1>2, <2>1, <2>2 DEF Fork, Forked, Identified, Uncut, Identifying
  <2> QED BY <1>2, <2>2, <2>3, <2>4, <2>5 DEF Fork
<1>8. CASE ReadFolder
  <2>1. /\ job.pc = "folder" /\ local' = local \cup {Current} /\ cut' = cut
        /\ job' = [job EXCEPT !.pc = "blobs", !.done = {}]
    BY <1>8 DEF ReadFolder, Fetch
  <2>2. /\ job'.pc = "blobs" /\ job'.at = job.at /\ job'.subs = job.subs /\ job'.id = job.id
        /\ job'.done = {} /\ JobType'
    BY <1>1, <1>3, <2>1 DEF JobType, Step
  <2>3. Current \in source.subs /\ source # None
    BY <1>3, <2>1, CurrentFacts DEF Fork, Sources
  <2>4. Sources'
    BY <1>1, <2>1, <2>2, <2>3 DEF Fork, Sources
  <2>5. Copied' /\ Forked' /\ Identified' /\ Uncut'
    BY <1>1, <1>2, <2>1, <2>2
       DEF Fork, Copied, Forked, Identified, Uncut, Copying, Identifying
  <2> QED BY <1>2, <2>2, <2>4, <2>5 DEF Fork
<1>9. CASE Show
  <2>1. Main # 0 /\ job.pc = "show"
    BY <1>9 DEF Show, Fork, Identified
  <2>2. Resolves(Len(log)) /\ IdentitiesIn(HeadTree) # {}
    <3>1. /\ Main \in 1..Len(log) /\ Whole(HeadTree, Have)
          /\ \E i \in Identities : HeadTree = Seeded(i)
      BY <2>1, HeadFacts DEF Fork
    <3>2. Resolves(Len(log))
      BY <3>1 DEF Resolves, Whole, HeadTree, Have, Main
    <3> QED BY <3>1, <3>2, SeededIdentity
  <2>3. job' = [job EXCEPT !.pc = "ready"] /\ local' = local /\ cut' = cut
    BY <1>9, <2>2 DEF Show, Goto
  <2>4. /\ job'.pc = "ready" /\ job'.at = job.at /\ job'.subs = job.subs /\ job'.id = job.id
        /\ JobType'
    BY <1>1, <1>3, <2>3 DEF JobType, Step
  <2>5. Sources' /\ Copied' /\ Forked' /\ Identified' /\ Uncut'
    BY <1>1, <1>2, <2>1, <2>3, <2>4
       DEF Fork, Sources, Copied, Forked, Identified, Uncut, Copying, Identifying
  <2> QED BY <1>2, <2>4, <2>5 DEF Fork
<1>10. CASE Crash
  <2>1. /\ local' = local /\ cut' = (cut \/ job.pc \in Identifying) /\ job' = Off
    BY <1>10 DEF Crash, Identifying
  <2>2. JobType' /\ job'.pc = "down" /\ job'.subs = {}
    <3>1. 1 \in 1..Len(FolderOrder) /\ 0 \in 0..Len(log)
      BY ForkAssumption DEF Fork, GoodLog
    <3> QED BY <1>1, <2>1, <3>1 DEF Off, JobType, Step
  <2>3. Sources'
    BY <1>1, <2>1, <2>2 DEF Fork, Sources
  <2>4. Copied' /\ Forked' /\ Identified' /\ Uncut'
    BY <1>1, <1>2, <2>1, <2>2
       DEF Fork, Copied, Forked, Identified, Uncut, Copying, Identifying
  <2> QED BY <1>2, <2>2, <2>3, <2>4 DEF Fork
<1> QED BY <1>4, <1>5, <1>6, <1>7, <1>8, <1>9, <1>10

\* A write of an object leaves main, what is under it, and all that was there.
LEMMA WriteKeeps ==
    ASSUME Fork, GoodLog(log)', Grows(log, log'), Main' = Main, source' = source,
           Stored(log, Len(log)) \subseteq Stored(log', Len(log'))
    PROVE  /\ Have \subseteq Have'
           /\ log \in Seq(Entry) /\ log' \in Seq(Entry) /\ Len(log) <= Len(log')
           /\ Main # 0 => log'[Main] = log[Main] /\ HeadTree' = HeadTree
           /\ \A t : Whole(t, Have) => Whole(t, Have')
           /\ \A k \in 1..Len(log) : log'[k] = log[k]
<1>1. Have \subseteq Have'
  BY DEF Have
<1>2. \A t : Whole(t, Have) => Whole(t, Have')
  BY <1>1, WholeMore
<1>3. Main # 0 => log'[Main] = log[Main] /\ HeadTree' = HeadTree
  BY HeadKept DEF Fork
<1> QED BY <1>1, <1>2, <1>3 DEF Fork, GoodLog, Grows

\* The copy.
LEMMA CopyForkStep ==
    ASSUME Fork, (\E b \in Blob : CopyBlob(b)) \/ CopySub \/ CopyRoot
    PROVE  Fork'
<1>0. JobType /\ Sources /\ GoodLog(log) /\ job.pc \in {"blobs", "forkRoot"}
  BY DEF Fork, CopyBlob, CopyBlobTo, CopySub, CopySubUpTo, CopyRoot, Write
<1>1. source' = source /\ up' = up /\ cut' = cut
  BY DEF CopyBlob, CopyBlobTo, CopySub, CopySubUpTo, CopyRoot, Write
<1>2. source # None /\ Main = 0 /\ job.id \in Own
  BY <1>0 DEF Fork, Sources, Copied, Copying
<1>3. /\ FolderOrder[job.at] \in Folder
      /\ Current \in source.subs /\ Current \in SubObject
      /\ Current = Sub(FolderOrder[job.at], Current.blobs)
      /\ source \in RootObject /\ source = Root(source.subs)
      /\ source.subs = {FolderOf(source, FolderOrder[k]) : k \in 1..Len(FolderOrder)}
  BY <1>0, <1>2, CurrentFacts
<1>4. ASSUME NEW b \in Blob, CopyBlob(b)
      PROVE  Fork'
  <2>1. /\ job.pc = "blobs" /\ b \in Current.blobs /\ local' = local \cup {b}
        /\ log' = WriteObject(log, b) /\ job' = [job EXCEPT !.done = @ \cup {b}]
    BY <1>4 DEF CopyBlob, CopyBlobTo
  <2>2. b \in Object /\ b.type # "commit"
    BY Blobs DEF Object
  <2>3. /\ GoodLog(log)' /\ Grows(log, log') /\ Main' = Main
        /\ Stored(log, Len(log)) \cup {b} \subseteq Stored(log', Len(log'))
    BY <1>0, <1>1, <2>1, <2>2, WriteObjectFacts
  <2>4. /\ Have \subseteq Have' /\ b \in Have'
        /\ log \in Seq(Entry) /\ log' \in Seq(Entry) /\ Len(log) <= Len(log')
    BY <1>1, <2>3, WriteKeeps DEF Have
  <2>5. JobType' /\ job'.pc = "blobs" /\ job'.done = job.done \cup {b} /\ job'.subs = job.subs
        /\ job'.at = job.at /\ job'.id = job.id
    BY <1>0, <2>1, <2>4, SMTT(30) DEF JobType
  <2>6. Sources'
    BY <1>0, <1>1, <1>2, <2>1, <2>5 DEF Sources
  <2>7. Current' = Current
    BY <1>1, <2>5 DEF Current
  <2>8. Copied'
    BY <1>1, <1>2, <2>1, <2>3, <2>4, <2>5, <2>7 DEF Fork, Copied, Copying
  <2>9. Forked' /\ Identified' /\ Uncut'
    BY <1>2, <2>3, <2>5 DEF Forked, Identified, Uncut, Identifying
  <2> QED BY <2>3, <2>5, <2>6, <2>8, <2>9 DEF Fork
<1>5. CASE CopySub
  <2> DEFINE last == job.at = Len(FolderOrder)
             sub == Sub(FolderOrder[job.at], job.done)
  <2>1. /\ job.pc = "blobs" /\ job.done = Current.blobs /\ local' = local
        /\ log' = WriteObject(log, sub)
        /\ job' = [job EXCEPT !.subs = @ \cup {sub},
                              !.pc = IF last THEN "forkRoot" ELSE "folder",
                              !.at = IF last THEN @ ELSE @ + 1]
    BY <1>5 DEF CopySub, CopySubUpTo, Write
  <2>2. sub = Current /\ sub \in Object /\ sub.type # "commit"
    <3>1. sub = Current
      BY <1>3, <2>1
    <3>2. Current \in Object /\ Current.type = "sub"
      BY <1>3 DEF Object, SubObject
    <3> QED BY <3>1, <3>2
  <2> HIDE DEF sub
  <2>3. /\ GoodLog(log)' /\ Grows(log, log') /\ Main' = Main
        /\ Stored(log, Len(log)) \cup {sub} \subseteq Stored(log', Len(log'))
    BY <1>0, <1>1, <2>1, <2>2, WriteObjectFacts
  <2>4. /\ Have \subseteq Have' /\ sub \in Have'
        /\ log \in Seq(Entry) /\ log' \in Seq(Entry) /\ Len(log) <= Len(log')
    BY <1>1, <2>3, WriteKeeps DEF Have
  <2>5. /\ job.at \in 1..Len(FolderOrder) /\ job.subs \subseteq SubObject
        /\ DOMAIN job = {"pc", "at", "done", "subs", "id", "tree", "commit"}
        /\ Len(FolderOrder) \in Nat
    BY <1>0, ForkAssumption DEF JobType
  <2>6. /\ job'.pc = (IF last THEN "forkRoot" ELSE "folder")
        /\ job'.at = (IF last THEN job.at ELSE job.at + 1)
        /\ job'.subs = job.subs \cup {sub} /\ job'.done = job.done
        /\ job'.id = job.id /\ job'.tree = job.tree /\ job'.commit = job.commit
    BY <2>1, <2>5
  <2>7. JobType'
    <3>1. job'.at \in 1..Len(FolderOrder)
      BY <2>5, <2>6
    <3>2. job'.subs \subseteq SubObject
      BY <1>3, <2>2, <2>5, <2>6
    <3>3. job.commit \in 0..Len(log')
      BY <1>0, <2>4 DEF JobType
    <3> QED BY <1>0, <2>1, <2>6, <3>1, <3>2, <3>3 DEF JobType, Step
  <2>8. Sources'
    BY <1>0, <1>1, <1>2, <2>1, <2>6 DEF Sources
  <2>9. job.subs = {FolderOf(source, FolderOrder[k]) : k \in 1..(job.at - 1)}
    BY <2>1 DEF Fork, Copied
  <2>10. job'.subs = {FolderOf(source, FolderOrder[k]) : k \in 1..job.at}
    <3>1. sub = FolderOf(source, FolderOrder[job.at])
      BY <2>2 DEF Current
    <3>2. 1..job.at = 1..(job.at - 1) \cup {job.at}
      BY <2>5
    <3> QED BY <2>6, <2>9, <3>1, <3>2
  <2>11. \A s \in job'.subs : s \in Have' /\ s.blobs \subseteq Have'
    <3>1. \A s \in job.subs : s \in Have /\ s.blobs \subseteq Have
      BY <2>1 DEF Fork, Copied, Copying
    <3>2. sub.blobs \subseteq Have
      BY <2>1, <2>2 DEF Fork, Copied
    <3> QED BY <2>4, <2>6, <3>1, <3>2
  <2>12. Copied'
    <3>1. job'.pc = "forkRoot" => job'.subs = source'.subs
      BY <1>1, <1>3, <2>6, <2>10
    <3>2. job'.pc = "folder" =>
            job'.subs = {FolderOf(source, FolderOrder[k]) : k \in 1..(job'.at - 1)}
      <4>1. ASSUME job'.pc = "folder"
            PROVE  job'.at - 1 = job.at
        BY <2>5, <2>6, <4>1
      <4> QED BY <2>10, <4>1
    <3> QED BY <1>1, <1>2, <2>3, <2>6, <2>11, <3>1, <3>2 DEF Copied, Copying
  <2>13. Forked' /\ Identified' /\ Uncut'
    BY <1>2, <2>3, <2>6 DEF Forked, Identified, Uncut, Identifying
  <2> QED BY <2>3, <2>7, <2>8, <2>12, <2>13 DEF Fork
<1>6. CASE CopyRoot
  <2>1. /\ job.pc = "forkRoot" /\ local' = local /\ log' = WriteObject(log, Root(job.subs))
        /\ job' = [job EXCEPT !.pc = "forkCommit", !.tree = Root(job.subs)]
    BY <1>6 DEF CopyRoot, Write
  <2>2. job.subs = source.subs /\ Root(job.subs) = source
    BY <1>3, <2>1 DEF Fork, Copied
  <2>3. source \in Object /\ source.type # "commit"
    BY <1>3 DEF Object, RootObject
  <2>4. /\ GoodLog(log)' /\ Grows(log, log') /\ Main' = Main
        /\ Stored(log, Len(log)) \cup {source} \subseteq Stored(log', Len(log'))
    BY <1>0, <1>1, <2>1, <2>2, <2>3, WriteObjectFacts
  <2>5. /\ Have \subseteq Have' /\ source \in Have'
        /\ log \in Seq(Entry) /\ log' \in Seq(Entry) /\ Len(log) <= Len(log')
    BY <1>1, <2>4, WriteKeeps DEF Have
  <2>6. JobType' /\ job'.pc = "forkCommit" /\ job'.tree = source /\ job'.id = job.id
        /\ job'.at = job.at
    <3>1. job' = [job EXCEPT !.pc = "forkCommit", !.tree = source] /\ source \in RootObject
      BY <1>3, <2>1, <2>2
    <3>2. job.commit \in 0..Len(log')
      BY <1>0, <2>5 DEF JobType
    <3> QED BY <1>0, <3>1, <3>2 DEF JobType, Step
  <2>7. Sources'
    BY <1>0, <1>1, <1>2, <2>1, <2>6 DEF Sources
  <2>8. Whole(source, Have')
    <3>1. \A s \in source.subs : s \in Have /\ s.blobs \subseteq Have
      BY <2>1, <2>2 DEF Fork, Copied, Copying
    <3> QED BY <2>5, <3>1 DEF Whole
  <2>9. Copied' /\ Forked' /\ Identified' /\ Uncut'
    BY <1>1, <1>2, <2>4, <2>6, <2>8
       DEF Copied, Copying, Forked, Identified, Uncut, Identifying
  <2> QED BY <2>4, <2>6, <2>7, <2>9 DEF Fork
<1> QED BY <1>4, <1>5, <1>6

\* A commit object on top of main, and where the job then is.
LEMMA CommitFacts ==
    ASSUME Fork, NEW pc \in Step, NEW next \in Step, WriteCommit(pc, next),
           Whole(job.tree, Have), \E i \in Identities : job.tree = Seeded(i),
           Main = 0 => job.tree = source, job.id \in Own
    PROVE  /\ GoodLog(log)' /\ Grows(log, log') /\ Main' = Main /\ source' = source
           /\ Stored(log, Len(log)) \subseteq Stored(log', Len(log'))
           /\ JobType' /\ job.pc = pc /\ job'.pc = next /\ job'.tree = job.tree
           /\ job'.id = job.id /\ job'.at = job.at /\ job'.subs = job.subs
           /\ job'.commit \in 1..Len(log')
           /\ log'[job'.commit].put = CommitOf(job.id, job.tree, Main)
           /\ local' = local /\ up' = up /\ cut' = cut
<1> DEFINE o == CommitOf(job.id, job.tree, Main)
<1>1. /\ job.pc = pc /\ log' = WriteObject(log, o)
      /\ source' = source /\ local' = local /\ up' = up /\ cut' = cut
  BY DEF WriteCommit, Write, Stamped, CommitOf
<1>2. PICK c \in 1..Len(log') :
        log'[c].put = o /\ job' = [job EXCEPT !.pc = next, !.commit = c]
  BY DEF WriteCommit, Stamped, CommitOf
<1>3. JobType /\ GoodLog(log) /\ log \in Seq(Entry)
  BY DEF Fork, GoodLog
<1>4. Main \in 0..Len(log) /\ Len(log) \in Nat
  BY <1>3, MainFacts DEF Main
<1>5. job.tree \in RootObject
  BY SeededShape
<1>6. /\ o \in Object /\ o.type = "commit" /\ o.tree = job.tree /\ o.parent = Main
  BY <1>4, <1>5 DEF CommitOf, Object
<1> HIDE DEF o
<1>7. /\ GoodLog(log)' /\ Grows(log, log') /\ Main' = Main
      /\ Stored(log, Len(log)) \cup {o} \subseteq Stored(log', Len(log'))
  BY <1>1, <1>3, <1>4, <1>6, WriteObjectFacts DEF Have
<1>8. Len(log') \in Nat /\ c \in 0..Len(log')
  BY <1>2, <1>7 DEF GoodLog
<1>9. /\ JobType' /\ job'.pc = next /\ job'.tree = job.tree /\ job'.commit = c
      /\ job'.id = job.id /\ job'.at = job.at /\ job'.subs = job.subs
  BY <1>2, <1>3, <1>8 DEF JobType
<1> QED BY <1>1, <1>2, <1>7, <1>9 DEF o

\* The fork commit and its ref.
LEMMA ForkCommitStep ==
    ASSUME Fork, WriteCommit("forkCommit", "forkRef") \/ UpdateRef("forkRef", "identity")
    PROVE  Fork'
<1>0. JobType /\ Sources /\ GoodLog(log) /\ job.pc \in {"forkCommit", "forkRef"}
  BY DEF Fork, WriteCommit, Write, UpdateRef, UpdateRefTo
<1>1. Main = 0 /\ job.tree = source /\ Whole(job.tree, Have) /\ source # None /\ job.id \in Own
  BY <1>0 DEF Fork, Forked, Sources
<1>2. \E i \in Identities : job.tree = Seeded(i)
  BY <1>0, <1>1 DEF Sources, Identities
<1>3. CASE WriteCommit("forkCommit", "forkRef")
  <2>1. "forkCommit" \in Step /\ "forkRef" \in Step
    BY DEF Step
  <2>2. /\ GoodLog(log)' /\ Grows(log, log') /\ Main' = Main /\ source' = source
        /\ Stored(log, Len(log)) \subseteq Stored(log', Len(log'))
        /\ JobType' /\ job'.pc = "forkRef" /\ job'.tree = job.tree /\ job'.id = job.id
        /\ job'.commit \in 1..Len(log')
        /\ log'[job'.commit].put = CommitOf(job.id, job.tree, Main)
        /\ local' = local /\ up' = up /\ cut' = cut
    BY <1>1, <1>2, <1>3, <2>1, CommitFacts
  <2>3. Whole(source, Have')
    BY <1>1, <2>2, WriteKeeps
  <2>4. Sources'
    BY <1>0, <1>1, <2>2 DEF Sources
  <2>5. Copied' /\ Forked' /\ Identified' /\ Uncut'
    BY <1>1, <2>2, <2>3 DEF Copied, Copying, Forked, Identified, Uncut, Identifying
  <2> QED BY <2>2, <2>4, <2>5 DEF Fork
<1>4. CASE UpdateRef("forkRef", "identity")
  <2>1. /\ job.pc = "forkRef" /\ log' = WriteRef(log, job.commit)
        /\ source' = source /\ local' = local /\ up' = up /\ cut' = cut
        /\ job' = [job EXCEPT !.pc = "identity"]
    BY <1>4 DEF UpdateRef, UpdateRefTo, Goto
  <2>2. job.commit \in 1..Len(log) /\ log[job.commit].put = CommitOf(job.id, source, 0)
    BY <2>1 DEF Fork, Forked
  <2>3. log[job.commit].put.type = "commit" /\ log[job.commit].put.parent = 0
    BY <2>2 DEF CommitOf
  <2>4. /\ GoodLog(log)' /\ Grows(log, log') /\ Main' = job.commit
    BY <1>0, <2>1, <2>2, <2>3, WriteRefFacts
  <2>5. Main' # 0 /\ log'[Main'].put.parent = 0 /\ job.commit \in 0..Len(log')
    BY <1>0, <2>2, <2>3, <2>4 DEF GoodLog, Grows
  <2>6. JobType' /\ job'.pc = "identity" /\ job'.id = job.id
    BY <1>0, <2>1, <2>5 DEF JobType, Step
  <2>7. Sources'
    BY <1>0, <1>1, <2>1, <2>6 DEF Sources
  <2>8. Copied' /\ Forked' /\ Identified' /\ Uncut'
    BY <1>1, <2>5, <2>6 DEF Copied, Copying, Forked, Identified, Uncut, Identifying
  <2> QED BY <2>4, <2>6, <2>7, <2>8 DEF Fork
<1> QED BY <1>3, <1>4

\* The identity: its blob, its tree, the tree above it.
LEMMA IdentityForkStep ==
    ASSUME Fork, PutIdentity \/ PutConfig \/ PutRoot
    PROVE  Fork'
<1>0. JobType /\ Sources /\ GoodLog(log) /\ job.pc \in {"identity", "config", "root"}
  BY DEF Fork, PutIdentity, PutConfig, PutRoot, Write
<1>1. /\ Main # 0 /\ log[Main].put.parent = 0 /\ source # None /\ job.id \in Own
      /\ job.id \in Identities
  BY <1>0 DEF Fork, Identified, Identifying, Sources, Identities
<1>2. /\ Main \in 1..Len(log) /\ HeadTree = source /\ Whole(source, Have)
      /\ \E i \in Identities : HeadTree = Seeded(i)
  BY <1>0, <1>1, HeadFacts
<1>3. PICK i \in Identities : source = Seeded(i)
  BY <1>2
<1> DEFINE old == FolderOf(HeadTree, Config)
<1>4. /\ WithIdentity(old, job.id) = SeededSub(job.id, Config)
      /\ Root((HeadTree.subs \ {old}) \cup {WithIdentity(old, job.id)}) = Seeded(job.id)
  BY <1>1, <1>2, <1>3, IdentityPut
<1>5. \A f \in Folder : SeededSub(i, f) \in Have /\ SeededSub(i, f).blobs \subseteq Have
  BY <1>2, <1>3, SeededShape DEF Whole
<1>6. Config \in Folder
  BY ForkAssumption
<1>7. ASSUME NEW o \in Object, o.type # "commit", log' = WriteObject(log, o),
             UNCHANGED <<source, up, local, cut>>, NEW next \in {"config", "root", "commit"},
             NEW tree \in RootObject \cup {None},
             job' = [job EXCEPT !.pc = next, !.tree = tree],
             Identity(job.id) \in Have',
             next = "root" => SeededSub(job.id, Config) \in Have',
             next = "commit" => tree = Seeded(job.id) /\ Whole(tree, Have')
      PROVE  Fork'
  <2>1. /\ GoodLog(log)' /\ Grows(log, log') /\ Main' = Main
        /\ Stored(log, Len(log)) \subseteq Stored(log', Len(log'))
    BY <1>0, <1>7, WriteObjectFacts
  <2>2. /\ log \in Seq(Entry) /\ log' \in Seq(Entry) /\ Len(log) <= Len(log')
        /\ log'[Main] = log[Main]
    BY <1>1, <1>7, <2>1, WriteKeeps
  <2>3. job.commit \in 0..Len(log')
    BY <1>0, <2>2 DEF JobType
  <2>4. JobType' /\ job'.pc = next /\ job'.id = job.id /\ job'.tree = tree
    BY <1>0, <1>7, <2>3 DEF JobType, Step
  <2>5. Sources'
    BY <1>0, <1>1, <1>7, <2>4 DEF Sources
  <2>6. Copied' /\ Forked' /\ Uncut'
    BY <1>7, <2>4 DEF Copied, Copying, Forked, Uncut, Identifying
  <2>7. Identified'
    BY <1>1, <1>7, <2>1, <2>2, <2>4 DEF Identified, Identifying
  <2> QED BY <2>1, <2>4, <2>5, <2>6, <2>7 DEF Fork
<1>8. ASSUME NEW o \in Object, o.type # "commit", log' = WriteObject(log, o),
             source' = source
      PROVE  Have \cup {o} \subseteq Have'
  BY <1>0, <1>8, WriteObjectFacts DEF Have
<1>9. job.tree \in RootObject \cup {None} /\ job = [job EXCEPT !.tree = job.tree]
  BY <1>0 DEF JobType
<1>10. CASE PutIdentity
  <2>1. /\ log' = WriteObject(log, Identity(job.id)) /\ UNCHANGED <<source, up, local, cut>>
        /\ job' = [job EXCEPT !.pc = "config"]
    BY <1>10 DEF PutIdentity, Write, Goto
  <2>2. Identity(job.id) \in Object /\ Identity(job.id).type # "commit"
    BY <1>1, Blobs DEF Object
  <2>3. Identity(job.id) \in Have'
    BY <1>8, <2>1, <2>2
  <2>4. job' = [job EXCEPT !.pc = "config", !.tree = job.tree]
    BY <1>0, <2>1 DEF JobType
  <2> QED BY <1>7, <1>9, <2>1, <2>2, <2>3, <2>4
<1>11. CASE PutConfig
  <2>1. /\ job.pc = "config" /\ UNCHANGED <<source, up, local, cut>>
        /\ log' = WriteObject(log, SeededSub(job.id, Config))
        /\ job' = [job EXCEPT !.pc = "root"]
    BY <1>4, <1>11 DEF PutConfig, Write, Goto
  <2>2. SeededSub(job.id, Config) \in Object /\ SeededSub(job.id, Config).type # "commit"
    BY <1>1, <1>6, SeededShape DEF Object, SubObject
  <2>3. Have \cup {SeededSub(job.id, Config)} \subseteq Have' /\ Identity(job.id) \in Have
    BY <1>8, <2>1, <2>2 DEF Fork, Identified
  <2>4. job' = [job EXCEPT !.pc = "root", !.tree = job.tree]
    BY <1>0, <2>1 DEF JobType
  <2> QED BY <1>7, <1>9, <2>1, <2>2, <2>3, <2>4
<1>12. CASE PutRoot
  <2>1. /\ job.pc = "root" /\ UNCHANGED <<source, up, local, cut>>
        /\ log' = WriteObject(log, Seeded(job.id))
        /\ job' = [job EXCEPT !.pc = "commit", !.tree = Seeded(job.id)]
    BY <1>4, <1>12 DEF PutRoot, Write
  <2>2. /\ Seeded(job.id) \in Object /\ Seeded(job.id).type # "commit"
        /\ Seeded(job.id) \in RootObject
    BY <1>1, SeededShape DEF Object
  <2>3. /\ Have \cup {Seeded(job.id)} \subseteq Have'
        /\ Identity(job.id) \in Have /\ SeededSub(job.id, Config) \in Have
    BY <1>8, <2>1, <2>2 DEF Fork, Identified
  <2>4. ASSUME NEW f \in Folder
        PROVE  SeededSub(job.id, f) \in Have /\ SeededSub(job.id, f).blobs \subseteq Have
    <3>1. CASE f = Config
      <4>1. SeededSub(job.id, f).blobs = {Meta(Config), Identity(job.id)}
            /\ Meta(Config) \in SeededSub(i, Config).blobs
        BY <3>1 DEF SeededSub, Sub
      <4> QED BY <1>5, <1>6, <2>3, <3>1, <4>1
    <3>2. CASE f # Config
      <4>1. SeededSub(job.id, f) = SeededSub(i, f)
        BY <3>2 DEF SeededSub
      <4> QED BY <1>5, <4>1
    <3> QED BY <3>1, <3>2
  <2>5. Whole(Seeded(job.id), Have')
    BY <1>1, <2>3, <2>4, SeededShape DEF Whole
  <2> QED BY <1>7, <2>1, <2>2, <2>3, <2>5
<1> QED BY <1>10, <1>11, <1>12

\* The identity commit and its ref.
LEMMA IdentityCommitStep ==
    ASSUME Fork, WriteCommit("commit", "ref") \/ UpdateRef("ref", "show")
    PROVE  Fork'
<1>0. JobType /\ Sources /\ GoodLog(log) /\ job.pc \in {"commit", "ref"}
  BY DEF Fork, WriteCommit, Write, UpdateRef, UpdateRefTo
<1>1. /\ Main # 0 /\ log[Main].put.parent = 0 /\ source # None /\ job.id \in Own
      /\ job.tree = Seeded(job.id) /\ Whole(job.tree, Have)
  BY <1>0 DEF Fork, Identified, Identifying, Sources
<1>2. Main \in 1..Len(log)
  BY <1>0, <1>1, HeadFacts
<1>3. CASE WriteCommit("commit", "ref")
  <2>1. "commit" \in Step /\ "ref" \in Step /\ \E i \in Identities : job.tree = Seeded(i)
    BY <1>1 DEF Step, Identities
  <2>2. /\ GoodLog(log)' /\ Grows(log, log') /\ Main' = Main /\ source' = source
        /\ Stored(log, Len(log)) \subseteq Stored(log', Len(log'))
        /\ JobType' /\ job'.pc = "ref" /\ job'.tree = job.tree /\ job'.id = job.id
        /\ job'.commit \in 1..Len(log')
        /\ log'[job'.commit].put = CommitOf(job.id, job.tree, Main)
        /\ local' = local /\ up' = up /\ cut' = cut
    BY <1>1, <1>3, <2>1, CommitFacts
  <2>3. Whole(job.tree, Have') /\ log'[Main] = log[Main]
    BY <1>1, <2>2, WriteKeeps
  <2>4. Sources'
    BY <1>0, <1>1, <2>2 DEF Sources
  <2>5. Copied' /\ Forked' /\ Identified' /\ Uncut'
    BY <1>1, <2>2, <2>3 DEF Copied, Copying, Forked, Identified, Uncut, Identifying
  <2> QED BY <2>2, <2>4, <2>5 DEF Fork
<1>4. CASE UpdateRef("ref", "show")
  <2>1. /\ job.pc = "ref" /\ log' = WriteRef(log, job.commit)
        /\ source' = source /\ local' = local /\ up' = up /\ cut' = cut
        /\ job' = [job EXCEPT !.pc = "show"]
    BY <1>4 DEF UpdateRef, UpdateRefTo, Goto
  <2>2. job.commit \in 1..Len(log) /\ log[job.commit].put = CommitOf(job.id, job.tree, Main)
    BY <2>1 DEF Fork, Identified
  <2>3. /\ log[job.commit].put.type = "commit" /\ log[job.commit].put.parent = Main
        /\ log[job.commit].put.tree = Seeded(job.id)
    BY <1>1, <2>2 DEF CommitOf
  <2>4. GoodLog(log)' /\ Grows(log, log') /\ Main' = job.commit
    BY <1>0, <2>1, <2>2, <2>3, WriteRefFacts
  <2>5. log'[Main'] = log[job.commit] /\ log'[Main] = log[Main] /\ Main' # 0
        /\ job.commit \in 0..Len(log')
    BY <1>0, <1>2, <2>2, <2>4 DEF GoodLog, Grows
  <2>6. HeadTree' = Seeded(job.id)
    <3>1. HeadTree' = log'[Main'].put.tree
      BY DEF HeadTree, TreeAt, Main
    <3> QED BY <2>3, <2>5, <3>1
  <2>7. TwoInLog'
    BY <1>1, <2>3, <2>5 DEF TwoInLog
  <2>8. JobType' /\ job'.pc = "show" /\ job'.id = job.id
    BY <1>0, <2>1, <2>5 DEF JobType, Step
  <2>9. Sources'
    BY <1>0, <1>1, <2>1, <2>8 DEF Sources
  <2>10. Copied' /\ Forked' /\ Identified'
    BY <2>5, <2>8 DEF Copied, Copying, Forked, Identified, Identifying
  <2>11. Uncut'
    BY <1>1, <2>6, <2>7 DEF Uncut
  <2> QED BY <2>4, <2>8, <2>9, <2>10, <2>11 DEF Fork
<1> QED BY <1>3, <1>4

LEMMA ForkStep == Fork /\ [Next]_vars => Fork'
<1> SUFFICES ASSUME Fork, [Next]_vars PROVE Fork'
  OBVIOUS
<1>1. CASE NodeStep
  BY <1>1, QuietForkStep, CopyForkStep, ForkCommitStep, IdentityForkStep, IdentityCommitStep
     DEF NodeStep
<1> QED BY <1>1, PlatformForkStep, QuietForkStep DEF Next

-----------------------------------------------------------------------------
(***************************************************************************)
(* The theorems.                                                           *)
(***************************************************************************)
\* The node has done what its place says, through any starts and kills.
THEOREM ForkInvariant == Spec => []Fork
BY ForkInit, ForkStep, PTL DEF Spec

\* The shapes of the variables.
THEOREM ForkTypeCorrect == Spec => []TypeOK
<1>1. Fork => TypeOK
  <2> SUFFICES ASSUME Fork PROVE TypeOK
    OBVIOUS
  <2>1. \A k \in 1..Len(log) : log[k].main \in 0..Len(log)
    BY DEF Fork, GoodLog, GoodMains
  <2>2. \A s \in job.subs : s.folder \in Folder /\ s.blobs \subseteq Blob
    BY DEF Fork, JobType, SubObject
  <2> QED BY <2>1, <2>2 DEF Fork, JobType, Sources, TypeOK
<1> QED BY <1>1, ForkInvariant, PTL

\* Whatever cut the node off, all that main reaches at a version of its drive is
\* there at that version.
THEOREM VersionsResolve == Spec => []EveryVersionResolves
<1>1. Fork => EveryVersionResolves
  <2> SUFFICES ASSUME Fork, NEW v \in 1..Len(log), log[v].main # 0 PROVE Resolves(v)
    BY DEF EveryVersionResolves
  <2> DEFINE c == HeadAt(log, v)
  <2>1. /\ v # 0 /\ c = log[v].main /\ c \in 1..v /\ log[c].put.type = "commit"
        /\ c \in Nat /\ v \in Nat /\ c <= v /\ c \in 1..Len(log)
    BY DEF Fork, GoodLog, GoodMains, HeadAt
  <2>2. Whole(log[c].put.tree, Stored(log, c))
    BY <2>1 DEF Fork, GoodLog, GoodCommits
  <2>3. Whole(log[c].put.tree, Stored(log, v))
    BY <2>1, <2>2, StoredMore, WholeMore
  <2> QED BY <2>1, <2>3 DEF Resolves, Whole, TreeAt
<1> QED BY <1>1, ForkInvariant, PTL

\* The first commit of the node's repository has the platform's tree, and no later
\* one differs from it but in the identity, whatever was cut off on the way.
THEOREM Faithful == Spec => []ForkFaithful
<1>1. Fork => ForkFaithful
  BY DEF Fork, GoodLog, GoodCommits, ForkFaithful, Identities
<1> QED BY <1>1, ForkInvariant, PTL

\* A node that was never cut off between its two refs comes up with two commits and
\* an identity of its own.
THEOREM ComesUpAsItself == Spec => []UncutIsItself
<1>1. Fork => UncutIsItself
  <2> SUFFICES ASSUME Fork, job.pc = "ready", ~ cut
               PROVE  TwoInLog /\ IdentitiesIn(HeadTree) \subseteq Own
    BY DEF UncutIsItself
  <2>1. TwoInLog /\ \E i \in Own : HeadTree = Seeded(i)
    BY DEF Fork, Identified, Uncut, Identifying
  <2> QED BY <2>1, SeededIdentity DEF Identities
<1> QED BY <1>1, ForkInvariant, PTL

\* No rest of an earlier run makes a later one throw: main() never exits with 1.
THEOREM NeverFatal == Spec => [](job.pc # "fatal")
<1>1. Fork => job.pc # "fatal"
  BY DEF Fork, Identified
<1> QED BY <1>1, ForkInvariant, PTL
=============================================================================
