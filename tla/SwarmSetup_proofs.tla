-------------------------- MODULE SwarmSetup_proofs --------------------------
(***************************************************************************)
(* spl7-phase-4 as a whole, for any number of joining nodes: a node that   *)
(* reaches the platform can browse (BrowseNeverFails), and the platform's  *)
(* node list says what its tree says (DropdownAgrees).                     *)
(***************************************************************************)
EXTENDS SwarmSetup, SwarmRegistry_proofs

-----------------------------------------------------------------------------
(***************************************************************************)
(* The platform in the composition is the platform.                        *)
(***************************************************************************)
\* Every step of the whole is a step of the platform or leaves it alone.
LEMMA RegistrySteps == [SetupNext]_allVars => [Next]_vars
<1> SUFFICES ASSUME [SetupNext]_allVars PROVE [Next]_vars
  OBVIOUS
<1>1. CASE PlatformStep
  BY <1>1 DEF PlatformStep, Next
<1>2. ASSUME NEW j \in Name, NEW t \in Task, NEW i \in Info, Post(j, t, i)
      PROVE  Next
  BY <1>2 DEF Post, Next
<1>3. CASE UNCHANGED vars
  BY <1>3
<1> QED
  BY <1>1, <1>2, <1>3 DEF SetupNext, Join, Sync, ReadSetup, PostLost, Watch, WatchTo, Leave, allVars

\* So what holds of the platform holds of the whole: joining nodes only read its
\* drive, and post to it what it is ready for.
THEOREM SetupIsRegistry == SetupSpec => Spec
<1>1. SetupInit => Init
  BY DEF SetupInit
<1> QED BY <1>1, RegistrySteps, PTL DEF SetupSpec, Spec

\* Whatever joining nodes do, and whenever they come, go and post, the platform
\* keeps its promises: every version of its drive has a main that resolves, a
\* seeded tree is complete, and a registration that ran alone is applied to the
\* present tree, stays in it and stays in git log.
THEOREM PlatformKeepsItsWord ==
    SetupSpec => /\ [](EveryVersionResolves /\ TreeComplete /\ UncontendedKept /\ HistoryKept)
                 /\ AloneOnPresent
                 /\ ImplementsSnapshots
<1> QED BY SetupIsRegistry, VersionsResolve, TreesComplete, KeptForGood, HistoriesKept,
           AppliedToPresent, SnapshotRefinement, PTL

\* The steps of the whole.
LEMMA SetupCases ==
    ASSUME [SetupNext]_allVars
    PROVE  \/ PlatformStep
           \/ \E j \in Name : \/ Join(j) \/ Sync(j) \/ ReadSetup(j) \/ PostLost(j)
                              \/ Watch(j) \/ Leave(j)
           \/ \E j \in Name, t \in Task, i \in Info : Post(j, t, i)
           \/ UNCHANGED allVars
BY DEF SetupNext

\* The drive only grows.
LEMMA DriveGrows ==
    ASSUME Base, [Next]_vars
    PROVE  Grows(log, log') /\ log' \in Seq(Entry) /\ Len(log) \in Nat /\ Len(log') \in Nat
<1>1. Grows(log, log')
  BY SameTreeSteps, UpdateRefTree DEF SameTree
<1>2. Base'
  BY BaseStep
<1> QED BY <1>1, <1>2 DEF Base, TypeOK

-----------------------------------------------------------------------------
(***************************************************************************)
(* The node list.                                                          *)
(***************************************************************************)
Distinct(list) == \A k, m \in 1..Len(list) : list[k].name = list[m].name => k = m

\* Two sequences in a row.
LEMMA ConcatFacts ==
    ASSUME NEW S, NEW a \in Seq(S), NEW b \in Seq(S), NEW r, r = a \o b
    PROVE  /\ r \in Seq(S)
           /\ Len(r) = Len(a) + Len(b)
           /\ \A x \in 1..Len(r) : r[x] = IF x <= Len(a) THEN a[x] ELSE b[x - Len(a)]
OBVIOUS

\* findIndex, splice and push: one entry of each name, the new one last.
LEMMA ListedFacts ==
    ASSUME NEW list \in Seq(NodeEntry), Distinct(list), NEW n \in Member, NEW i \in Info,
           NEW new, new = Listed(list, n, i)
    PROVE  /\ new \in Seq(NodeEntry)
           /\ Distinct(new)
           /\ \A k \in 1..Len(new) :
                 \/ new[k] = [name |-> n, info |-> i]
                 \/ new[k].name # n /\ \E m \in 1..Len(list) : new[k] = list[m]
<1> DEFINE e == [name |-> n, info |-> i]
           rest == RemoveFirstMatch(list, LAMBDA x : x.name = n)
<1>1. rest = IF \E k \in 1..Len(list) : list[k].name = n
             THEN RemoveAt(list, SelectInSeq(list, LAMBDA x : x.name = n))
             ELSE list
  BY DEF RemoveFirstMatch
<1>2. e \in NodeEntry /\ e.name = n
  BY DEF NodeEntry
<1>3. PICK r : r = rest
  OBVIOUS
<1>4. new = r \o <<e>>
  BY <1>3 DEF Listed
<1>5. /\ r \in Seq(NodeEntry)
      /\ \A k \in 1..Len(r) : r[k].name # n /\ \E m \in 1..Len(list) : r[k] = list[m]
      /\ Distinct(r)
  <2>1. CASE ~ \E k \in 1..Len(list) : list[k].name = n
    <3>1. r = list
      BY <1>1, <1>3, <2>1
    <3> QED BY <2>1, <3>1
  <2>2. CASE \E k \in 1..Len(list) : list[k].name = n
    <3>1. PICK k \in 1..Len(list) : list[k].name = n
      BY <2>2
    <3>2. {x \in 1..Len(list) : list[x].name = n} = {k}
      BY <3>1 DEF Distinct
    <3>3. SelectInSeq(list, LAMBDA x : x.name = n) = Min({k})
      BY <3>2 DEF SelectInSeq
    <3>4. Min({k}) = k
      BY DEF Min
    <3>5. r = SubSeq(list, 1, k - 1) \o SubSeq(list, k + 1, Len(list))
      BY <1>1, <1>3, <3>1, <3>3, <3>4 DEF RemoveAt
    <3>6. PICK a : a = SubSeq(list, 1, k - 1)
      OBVIOUS
    <3>7. PICK b : b = SubSeq(list, k + 1, Len(list))
      OBVIOUS
    <3>8. /\ a \in Seq(NodeEntry) /\ Len(a) = k - 1
          /\ \A x \in 1..Len(a) : a[x] = list[x]
      BY <3>1, <3>6
    <3>9. /\ b \in Seq(NodeEntry) /\ Len(b) = Len(list) - k
          /\ \A x \in 1..Len(b) : b[x] = list[k + x]
      BY <3>1, <3>7
    <3>10. /\ r \in Seq(NodeEntry) /\ Len(r) = Len(list) - 1
           /\ \A x \in 1..Len(r) : r[x] = list[IF x < k THEN x ELSE x + 1]
      <4>1. r = a \o b
        BY <3>5, <3>6, <3>7
      <4>0. a \in Seq(NodeEntry) /\ b \in Seq(NodeEntry)
        BY <3>8, <3>9
      <4>2. /\ r \in Seq(NodeEntry) /\ Len(r) = Len(a) + Len(b)
            /\ \A x \in 1..Len(r) : r[x] = IF x <= Len(a) THEN a[x] ELSE b[x - Len(a)]
        BY <4>0, <4>1, ConcatFacts
      <4>3. Len(r) = Len(list) - 1 /\ Len(a) = k - 1 /\ k \in Nat /\ Len(list) \in Nat
        BY <3>1, <3>8, <3>9, <4>2
      <4>4. ASSUME NEW x \in 1..Len(r)
            PROVE  r[x] = list[IF x < k THEN x ELSE x + 1]
        <5>1. CASE x < k
          BY <3>8, <4>2, <4>3, <5>1
        <5>2. CASE ~ (x < k)
          <6>1. x - Len(a) \in 1..Len(b) /\ k + (x - Len(a)) = x + 1 /\ ~ (x <= Len(a))
            BY <3>8, <3>9, <4>3, <5>2
          <6> QED BY <3>9, <4>2, <5>2, <6>1
        <5> QED BY <5>1, <5>2
      <4> QED BY <4>2, <4>3, <4>4
    <3>11. \A x \in 1..Len(r) : (IF x < k THEN x ELSE x + 1) \in 1..Len(list) \ {k}
      BY <3>1, <3>10
    <3>12. Distinct(r)
      BY SMTT(30), <3>10, <3>11 DEF Distinct
    <3> QED BY <3>1, <3>10, <3>11, <3>12 DEF Distinct
  <2> QED BY <2>1, <2>2
<1>6. /\ new \in Seq(NodeEntry) /\ Len(new) = Len(r) + 1 /\ new[Len(r) + 1] = e
      /\ \A k \in 1..Len(r) : new[k] = r[k]
  BY <1>2, <1>4, <1>5
<1>7. Distinct(new)
  BY <1>2, <1>5, <1>6 DEF Distinct
<1> QED BY <1>5, <1>6, <1>7

-----------------------------------------------------------------------------
(***************************************************************************)
(* Types.                                                                  *)
(***************************************************************************)
\* SetupTypeOK is not inductive: a node reads again only while it has reads left,
\* and the list has one entry of each name.
SetupTyped ==
    /\ SetupTypeOK
    /\ \A j \in Name : jpc[j] = "browsing" => reads[j] < MaxReads
    /\ Distinct(nodes)

LEMMA SetupTypedInit == SetupInit => SetupTyped
<1> SUFFICES ASSUME SetupInit PROVE SetupTyped
  OBVIOUS
<1>1. nodes \in Seq(NodeEntry) /\ Distinct(nodes)
  BY DEF SetupInit, Distinct
<1>2. MaxReads \in Nat /\ log = <<>> /\ Len(log) = 0
  BY SetupAssumption DEF SetupInit, Init
<1> QED BY <1>1, <1>2 DEF SetupInit, SetupTyped, SetupTypeOK, JoinStage

LEMMA SetupTypedStep == Base /\ SetupTyped /\ [SetupNext]_allVars => SetupTyped'
<1> SUFFICES ASSUME Base, SetupTyped, [SetupNext]_allVars PROVE SetupTyped'
  OBVIOUS
<1>1. /\ Len(log) \in Nat /\ Len(log') \in Nat /\ Len(log) <= Len(log')
      /\ MaxReads \in Nat \ {0}
  BY RegistrySteps, DriveGrows, SetupAssumption DEF Grows
<1>2. /\ jpc \in [Name -> JoinStage] /\ ver \in [Name -> 0..Len(log)]
      /\ reads \in [Name -> 0..MaxReads]
      /\ nodes \in Seq(NodeEntry) /\ serial \in BOOLEAN /\ Distinct(nodes)
      /\ \A j \in Name : jpc[j] = "browsing" => reads[j] < MaxReads
  BY DEF SetupTyped, SetupTypeOK
<1>3. ver \in [Name -> 0..Len(log')]
  BY <1>1, <1>2
<1>4. CASE PlatformStep
  <2>1. UNCHANGED joinVars /\ serial' \in BOOLEAN
    BY <1>2, <1>4 DEF PlatformStep
  <2>2. nodes' \in Seq(NodeEntry) /\ Distinct(nodes')
    <3> DEFINE own == << [name |-> Platform, info |-> PlatformInfo] >>
    <3>1. own \in Seq(NodeEntry) /\ Distinct(own)
      BY RegistryAssumption DEF NodeEntry, Member, Distinct
    <3>2. <<>> \in Seq(NodeEntry) /\ Distinct(<<>>)
      BY DEF Distinct
    <3>3. nodes' \in {<<>>, own, nodes}
      BY <1>4 DEF PlatformStep
    <3> QED BY <1>2, <3>1, <3>2, <3>3
  <2> QED BY <1>2, <1>3, <2>1, <2>2 DEF joinVars, SetupTyped, SetupTypeOK
<1>5. ASSUME NEW j \in Name,
             Join(j) \/ Sync(j) \/ ReadSetup(j) \/ PostLost(j) \/ Watch(j) \/ Leave(j)
      PROVE  SetupTyped'
  <2>1. nodes' = nodes /\ serial' = serial /\ log' = log
    BY <1>5 DEF Join, Sync, ReadSetup, PostLost, Watch, WatchTo, Leave, listVars, vars
  <2>2. ver' \in [Name -> 0..Len(log)]
    BY <1>1, <1>2, <1>5 DEF Join, Sync, ReadSetup, Versions, PostLost, Watch, WatchTo, Leave
  <2>3. /\ jpc' \in [Name -> JoinStage] /\ reads' \in [Name -> 0..MaxReads]
        /\ \A k \in Name : jpc'[k] = "browsing" => reads'[k] < MaxReads
    <3>1. CASE ReadSetup(j)
      <4>1. PICK v \in Versions(j) :
              /\ reads' = [reads EXCEPT ![j] = @ + 1]
              /\ jpc' = [jpc EXCEPT ![j] =
                   IF ~ Resolves(log, v) \/ Config \notin TreeAt(log, v).folders THEN "fatal"
                   ELSE IF reads[j] + 1 = MaxReads THEN "ready" ELSE "browsing"]
        BY <3>1 DEF ReadSetup
      <4>2. reads[j] \in Nat /\ reads[j] < MaxReads
        BY <1>1, <1>2, <3>1 DEF ReadSetup
      <4>3. reads' \in [Name -> 0..MaxReads]
        BY <1>1, <1>2, <4>1, <4>2
      <4>4. jpc'[j] = "browsing" => reads'[j] < MaxReads
        BY <1>1, <1>2, <4>1, <4>2
      <4>5. jpc'[j] \in JoinStage
        BY <1>2, <4>1 DEF JoinStage
      <4> QED BY <1>2, <4>1, <4>3, <4>4, <4>5
    <3>2. CASE Join(j) \/ Sync(j) \/ PostLost(j) \/ Watch(j) \/ Leave(j)
      <4>1. CASE Join(j) \/ PostLost(j) \/ Watch(j)
        BY <1>2, <4>1 DEF Join, PostLost, Watch, WatchTo, JoinStage
      <4>2. CASE Sync(j) \/ Leave(j)
        <5>1. PICK s \in JoinStage : jpc' = [jpc EXCEPT ![j] = s]
          BY <4>2 DEF Sync, Leave, JoinStage
        <5>2. reads' = [reads EXCEPT ![j] = 0]
          BY <4>2 DEF Sync, Leave
        <5>3. 0 \in 0..MaxReads /\ 0 < MaxReads
          BY <1>1
        <5> QED BY <1>2, <5>1, <5>2, <5>3
      <4> QED BY <3>2, <4>1, <4>2
    <3> QED BY <1>5, <3>1, <3>2
  <2> QED BY <1>2, <2>1, <2>2, <2>3 DEF SetupTyped, SetupTypeOK
<1>6. ASSUME NEW j \in Name, NEW t \in Task, NEW i \in Info, Post(j, t, i)
      PROVE  SetupTyped'
  <2>1. /\ nodes' = Listed(nodes, j, i) /\ ver' = ver /\ reads' = reads
        /\ jpc' = [jpc EXCEPT ![j] = "registered"] /\ serial' \in BOOLEAN
    BY <1>6 DEF Post
  <2>2. nodes' \in Seq(NodeEntry) /\ Distinct(nodes')
    BY <1>2, <2>1, ListedFacts DEF Member
  <2> QED BY <1>2, <1>3, <2>1, <2>2 DEF SetupTyped, SetupTypeOK, JoinStage
<1>7. CASE UNCHANGED allVars
  BY <1>2, <1>7 DEF allVars, vars, joinVars, listVars, SetupTyped, SetupTypeOK
<1> QED BY <1>4, <1>5, <1>6, <1>7, SetupCases

\* SetupTyped holds in every reachable state of the whole.
THEOREM SetupTypedInvariant == SetupSpec => []SetupTyped
<1> QED BY SetupTypedInit, SetupTypedStep, SetupIsRegistry, BaseInvariant, PTL DEF SetupSpec

\* What the nodes and the node list add keeps its shape: a replica's version is
\* never ahead of the drive, a node makes no more reads than it has to, and the
\* list is one of names and contents.
THEOREM SetupTypeCorrect == SetupSpec => []SetupTypeOK
<1>1. SetupTyped => SetupTypeOK
  BY DEF SetupTyped
<1> QED BY <1>1, SetupTypedInvariant, PTL

-----------------------------------------------------------------------------
(***************************************************************************)
(* Browsing.                                                               *)
(***************************************************************************)
\* Once the drive has a main, it has one at every later version.
MainStays(l) ==
    \A v, w \in 1..Len(l) : v <= w /\ l[v].main # 0 => l[w].main # 0

\* Appending an entry that keeps or moves main.
LEMMA MainStaysAppend ==
    ASSUME NEW l \in Seq(Entry), MainStays(l), NEW e \in Entry, NEW m, m = Append(l, e),
           HeadAt(l, Len(l)) # 0 => e.main # 0
    PROVE  MainStays(m)
<1>1. /\ Len(l) \in Nat /\ Len(m) = Len(l) + 1 /\ m[Len(m)] = e
      /\ \A k \in 1..Len(l) : m[k] = l[k]
  OBVIOUS
<1> SUFFICES ASSUME NEW v \in 1..Len(m), NEW w \in 1..Len(m), v <= w, m[v].main # 0
             PROVE  m[w].main # 0
  BY DEF MainStays
<1>2. CASE w \in 1..Len(l)
  BY <1>1, <1>2 DEF MainStays
<1>3. CASE w \notin 1..Len(l)
  <2>1. w = Len(m)
    BY <1>1, <1>3
  <2>2. CASE v = Len(m)
    BY <2>1, <2>2
  <2>3. CASE v # Len(m)
    <3>1. v \in 1..Len(l) /\ Len(l) \in 1..Len(l) /\ v <= Len(l) /\ l[v].main # 0
      BY <1>1, <2>3
    <3>2. l[Len(l)].main # 0
      BY <3>1 DEF MainStays
    <3> QED BY <1>1, <2>1, <3>1, <3>2 DEF HeadAt
  <2> QED BY <2>2, <2>3
<1> QED BY <1>2, <1>3

\* Every step of the platform's appends at most one entry.
LEMMA LogSteps ==
    ASSUME Base, [Next]_vars
    PROVE  \/ log' = log
           \/ \E e \in Entry : log' = Append(log, e) /\ (Main # 0 => e.main # 0)
<1>0. Grows(log, log') /\ Len(log') <= Len(log) + 1 /\ (Main # 0 => Main' # 0)
  BY SameTreeSteps, UpdateRefTree DEF SameTree, Base, TypeOK
<1>1. log' \in Seq(Entry) /\ log \in Seq(Entry) /\ Len(log) \in Nat /\ Len(log') \in Nat
      /\ \A k \in 1..Len(log) : log'[k] = log[k]
  BY <1>0, DriveGrows DEF Base, TypeOK, Grows
<1>2. CASE Len(log') = Len(log)
  BY <1>1, <1>2
<1>3. CASE Len(log') # Len(log)
  <2> DEFINE e == log'[Len(log')]
  <2>1. Len(log') = Len(log) + 1 /\ e \in Entry
    BY <1>0, <1>1, <1>3 DEF Grows
  <2>2. log' = Append(log, e)
    BY <1>1, <2>1
  <2>3. e.main = Main'
    BY <1>1, <2>1 DEF Main, HeadAt
  <2> QED BY <1>0, <2>1, <2>2, <2>3
<1> QED BY <1>2, <1>3

\* BrowseNeverFails is not inductive: a node that browses is at a version that has
\* a main, and so are all it may have by its next read.
Browsing ==
    /\ MainStays(log)
    /\ BrowseNeverFails
    /\ \A j \in Name : jpc[j] = "browsing" => ver[j] # 0 /\ HeadAt(log, ver[j]) # 0

LEMMA BrowsingInit == SetupInit => Browsing
BY DEF SetupInit, Init, Browsing, BrowseNeverFails, MainStays

\* A version with a main can be read, and has all the folders.
LEMMA ReadsSucceed ==
    ASSUME Base, EveryVersionResolves, TreeComplete, NEW v \in 1..Len(log), HeadAt(log, v) # 0
    PROVE  Resolves(log, v) /\ Config \in TreeAt(log, v).folders
BY SetupAssumption DEF EveryVersionResolves, TreeComplete, HeadAt

LEMMA BrowsingStep ==
    Base /\ EveryVersionResolves /\ TreeComplete /\ SetupTyped /\ Browsing /\ [SetupNext]_allVars
        => Browsing'
<1> SUFFICES ASSUME Base, EveryVersionResolves, TreeComplete, SetupTyped, Browsing,
                    [SetupNext]_allVars
             PROVE  Browsing'
  OBVIOUS
<1>0. [Next]_vars /\ log \in Seq(Entry) /\ Len(log) \in Nat
  BY RegistrySteps DEF Base, TypeOK
<1>1. jpc \in [Name -> JoinStage] /\ ver \in [Name -> 0..Len(log)]
  BY DEF SetupTyped, SetupTypeOK
<1>2. MainStays(log')
  BY <1>0, LogSteps, MainStaysAppend DEF Browsing, Main
<1>3. \A v \in 0..Len(log) : HeadAt(log', v) = HeadAt(log, v)
  BY <1>0, DriveGrows, GrowsKeepsVersions DEF Base, TypeOK
<1>4. CASE UNCHANGED joinVars
  BY <1>1, <1>2, <1>3, <1>4 DEF joinVars, Browsing, BrowseNeverFails
<1>5. ASSUME NEW j \in Name, ReadSetup(j)
      PROVE  Browsing'
  <2>1. PICK v \in Versions(j) :
          /\ ver' = [ver EXCEPT ![j] = v]
          /\ jpc' = [jpc EXCEPT ![j] =
               IF ~ Resolves(log, v) \/ Config \notin TreeAt(log, v).folders THEN "fatal"
               ELSE IF reads[j] + 1 = MaxReads THEN "ready" ELSE "browsing"]
          /\ log' = log
    BY <1>5 DEF ReadSetup, vars
  <2>2. v \in Nat /\ ver[j] <= v /\ v <= Len(log)
    BY <1>0, <1>1, <2>1 DEF Versions
  <2>3. ver[j] \in 1..Len(log) /\ log[ver[j]].main # 0
    BY <1>1, <1>5 DEF ReadSetup, Browsing, HeadAt
  <2>4. v \in 1..Len(log) /\ HeadAt(log, v) # 0 /\ v # 0
    BY <1>0, <2>2, <2>3 DEF Browsing, MainStays, HeadAt
  <2>5. Resolves(log, v) /\ Config \in TreeAt(log, v).folders
    BY <2>4, ReadsSucceed
  <2>6. jpc' = [jpc EXCEPT ![j] = IF reads[j] + 1 = MaxReads THEN "ready" ELSE "browsing"]
    BY <2>1, <2>5
  <2>7. BrowseNeverFails'
    BY <1>1, <2>6 DEF Browsing, BrowseNeverFails
  <2>8. ASSUME NEW k \in Name, jpc'[k] = "browsing"
        PROVE  ver'[k] # 0 /\ HeadAt(log', ver'[k]) # 0
    <3>1. CASE k = j
      BY <1>1, <2>1, <2>4, <3>1
    <3>2. CASE k # j
      BY <1>1, <2>1, <2>6, <2>8, <3>2 DEF Browsing
    <3> QED BY <3>1, <3>2
  <2> QED BY <1>2, <2>7, <2>8 DEF Browsing
<1>6. ASSUME NEW j \in Name, Sync(j)
      PROVE  Browsing'
  <2>1. /\ jpc' = [jpc EXCEPT ![j] = "browsing"] /\ ver' = [ver EXCEPT ![j] = Len(log)]
        /\ log' = log /\ Main # 0
    BY <1>6 DEF Sync, Reachable, Base, SeedAlone, vars
  <2>2. HeadAt(log, Len(log)) # 0 /\ Len(log) # 0
    BY <2>1 DEF Main, HeadAt
  <2> QED BY <1>1, <1>2, <2>1, <2>2 DEF Browsing, BrowseNeverFails
<1>7. ASSUME NEW j \in Name,
             \/ Join(j) \/ PostLost(j) \/ Watch(j) \/ Leave(j)
             \/ \E t \in Task, i \in Info : Post(j, t, i)
      PROVE  Browsing'
  <2>1. /\ \A k \in Name \ {j} : jpc'[k] = jpc[k] /\ ver'[k] = ver[k]
        /\ jpc'[j] \notin {"browsing", "fatal"}
    BY <1>1, <1>7 DEF Join, PostLost, Watch, WatchTo, Leave, Post, Browsing, BrowseNeverFails
  <2> QED BY <1>1, <1>2, <1>3, <2>1 DEF Browsing, BrowseNeverFails
<1> QED BY <1>4, <1>5, <1>6, <1>7, SetupCases DEF PlatformStep, allVars

\* A joining node never ends in 'fatal': at whatever moment it reaches the platform,
\* whatever is put while it reads, and however the platform was killed and
\* restarted before, every version it may read resolves and has its folders.
THEOREM NodesBrowse == SetupSpec => []BrowseNeverFails
<1>1. Browsing => BrowseNeverFails
  BY DEF Browsing
<1> QED BY <1>1, BrowsingInit, BrowsingStep, SetupTypedInvariant, SetupIsRegistry, BaseInvariant,
        VersionsResolve, TreesComplete, PTL DEF SetupSpec

-----------------------------------------------------------------------------
(***************************************************************************)
(* The dropdown and the tree.                                              *)
(***************************************************************************)
Busy(t) == act[t].pc # "idle"

\* Only a job that holds a tree has been overlapped.
LEMMA RacedHoldStep ==
    ASSUME Base, raced \subseteq Holding, [Next]_vars
    PROVE  raced' \subseteq Holding'
<1>1. act \in [Actor -> Job] /\ Platform \in Actor /\ Task \subseteq Actor
      /\ Holding \subseteq Actor
  BY DEF Base, TypeOK, Actor, Holding
<1>2. CASE SeedMeta
  <2> DEFINE job == [Idle EXCEPT !.pc = "blob", !.base = SeedTree]
  <2>1. act' = act \/ act' = [act EXCEPT ![Platform] = job]
    BY <1>2 DEF SeedMeta
  <2>2. job.pc = "blob" /\ raced' = raced
    BY <1>2 DEF Idle, SeedMeta, ghosts
  <2> QED BY <1>1, <2>1, <2>2 DEF Holding
<1>3. ASSUME NEW w \in Actor,
             \/ WriteBlob(w) \/ WriteLeaf(w) \/ WriteDir(w) \/ WriteRoot(w)
             \/ ResolveRef(w) \/ WriteCommit(w)
      PROVE  raced' \subseteq Holding'
  <2>1. raced' = raced /\ act'[w].pc \notin {"idle", "head"} /\ \A x \in Actor \ {w} : act'[x] = act[x]
    BY <1>1, <1>3
    DEF WriteBlob, WriteLeaf, WriteDir, WriteRoot, ResolveRef, WriteCommit, Write, ghosts, Job
  <2> QED BY <1>1, <2>1 DEF Holding
<1>4. ASSUME NEW w \in Actor, UpdateRef(w) \/ (w \in Task /\ FailTask(w))
      PROVE  raced' \subseteq Holding'
  <2>1. act' = [act EXCEPT ![w] = Idle] /\ raced' = raced \ {w}
    BY <1>4 DEF UpdateRef, FailTask
  <2> QED BY <1>1, <2>1 DEF Holding
<1>5. CASE Crash
  BY <1>5 DEF Crash
<1>6. ASSUME NEW t \in Task, NEW n \in Name, NEW i \in Info, Register(t, n, i)
      PROVE  raced' \subseteq Holding'
  <2>1. raced' = raced /\ act[t].pc = "idle" /\ \A x \in Actor \ {t} : act'[x] = act[x]
    BY <1>1, <1>6 DEF Register, ghosts
  <2> QED BY <1>1, <2>1 DEF Holding
<1>7. ASSUME NEW t \in Task, ReadHead(t)
      PROVE  raced' \subseteq Holding'
  <2>1. /\ raced' \subseteq raced \cup Holding \cup {t} /\ act'[t].pc = "blob"
        /\ \A x \in Actor \ {t} : act'[x] = act[x]
    BY <1>1, <1>7 DEF ReadHead, ReadHeadAs, Job
  <2> QED BY <1>1, <2>1 DEF Holding
<1>8. CASE \/ Boot \/ CheckLog \/ SeedSub \/ Browse \/ StartServer \/ Stop \/ CloseStore
           \/ UNCHANGED vars
  BY <1>8 DEF Boot, CheckLog, SeedSub, Browse, StartServer, Stop, CloseStore, vars, ghosts, Holding
<1> QED BY <1>1, <1>2, <1>3, <1>4, <1>5, <1>6, <1>7, <1>8, NextCases

\* What one step of a registration does while the server runs: it goes on with what
\* it had, or forces the ref, or fails over a file of its name.
LEMMA TaskSteps ==
    ASSUME Base, NEW t \in Task, TaskStep(t)
    PROVE  /\ Busy(t) /\ stage' = stage /\ \A u \in Task \ {t} : act'[u] = act[u]
           /\ \/ /\ Now' = Now /\ Busy(t)'
                 /\ act'[t].name = act[t].name /\ act'[t].info = act[t].info
                 /\ ReadHead(t) \/ raced' = raced
              \/ UpdateRef(t) /\ ~ Busy(t)' /\ raced' = raced \ {t}
              \/ /\ Now' = Now /\ ~ Busy(t)' /\ raced' = raced \ {t}
                 /\ act[t].name \in FileName \/ stage = "closed"
<1>1. act \in [Actor -> Job] /\ t \in Actor /\ t # Platform /\ Task \subseteq Actor
  BY RegistryAssumption DEF Base, TypeOK, Actor
<1>2. [Next]_vars
  BY DEF Next
<1>3. CASE ReadHead(t)
  <2>1. Now' = Now
    BY <1>3 DEF ReadHead, ReadHeadAs, Now
  <2> QED BY <1>1, <1>3, <2>1 DEF ReadHead, ReadHeadAs, Busy, Job
<1>4. CASE FailTask(t)
  <2>1. Now' = Now
    BY <1>4 DEF FailTask, Now
  <2> QED BY <1>1, <1>4, <2>1 DEF FailTask, Busy, Idle
<1>5. CASE UpdateRef(t)
  BY <1>1, <1>5 DEF UpdateRef, Busy, Idle
<1>6. CASE \/ WriteBlob(t) \/ WriteLeaf(t) \/ WriteDir(t) \/ WriteRoot(t)
           \/ ResolveRef(t) \/ WriteCommit(t)
  <2>1. /\ Busy(t) /\ stage' = stage /\ \A u \in Task \ {t} : act'[u] = act[u]
        /\ Busy(t)' /\ act'[t].name = act[t].name /\ act'[t].info = act[t].info
        /\ raced' = raced
    BY <1>1, <1>6 DEF WriteBlob, WriteLeaf, WriteDir, WriteRoot, ResolveRef, WriteCommit, Write,
                      ghosts, Busy, Job
  <2>2. ~ \E u \in Actor : UpdateRef(u)
    <3> SUFFICES ASSUME NEW u \in Actor, UpdateRef(u) PROVE FALSE
      OBVIOUS
    <3>1. act'[u].pc = "idle" /\ act[u].pc = "ref"
      BY <1>1 DEF UpdateRef, Idle
    <3>2. u # t
      BY <2>1, <3>1 DEF Busy
    <3>3. act'[u] = act[u]
      BY <1>1, <1>6, <3>2
      DEF WriteBlob, WriteLeaf, WriteDir, WriteRoot, ResolveRef, WriteCommit, Write
    <3> QED BY <3>1, <3>3
  <2>3. Now' = Now
    BY <1>2, <2>2, SameTreeSteps DEF SameTree
  <2> QED BY <2>1, <2>3
<1> QED BY <1>3, <1>4, <1>5, <1>6 DEF TaskStep, JobStep

\* While one registration at a time has been posted, one is under way at most, and
\* nothing has overlapped it.
Serial ==
    /\ raced \subseteq Holding
    /\ serial => raced = {} /\ \A t, u \in Task : Busy(t) /\ Busy(u) => t = u

\* A platform process that is not up has nothing under way.
LEMMA DownIdle ==
    ASSUME Base, stage \in {"down", "fatal"}
    PROVE  Holding = {} /\ \A t \in Task : ~ Busy(t)
BY DEF Base, SeedAlone, Holding, Actor, Busy

LEMMA SerialInit == SetupInit => Serial
BY DEF SetupInit, Init, Serial, Idle, Busy, Actor

LEMMA SerialStep == Base /\ Serial /\ [SetupNext]_allVars => Serial'
<1> SUFFICES ASSUME Base, Serial, [SetupNext]_allVars PROVE Serial'
  OBVIOUS
<1>1. Base' /\ raced' \subseteq Holding'
  BY RegistrySteps, BaseStep, RacedHoldStep DEF Serial
<1>2. CASE stage' \in {"down", "fatal"}
  BY <1>1, <1>2, DownIdle DEF Serial, Busy, Holding, Base, SeedAlone, Actor
<1> SUFFICES ASSUME serial', stage' \notin {"down", "fatal"}
             PROVE  raced' = {} /\ \A t, u \in Task : Busy(t)' /\ Busy(u)' => t = u
  BY <1>1, <1>2 DEF Serial
<1>3. ASSUME NEW t \in Task, TaskStep(t), PlatformStep
      PROVE  raced' = {} /\ \A u, w \in Task : Busy(u)' /\ Busy(w)' => u = w
  <2>1. serial /\ raced = {} /\ \A u, w \in Task : Busy(u) /\ Busy(w) => u = w
    BY <1>3 DEF PlatformStep, Serial
  <2>2. Busy(t) /\ \A u \in Task \ {t} : act'[u] = act[u]
    BY <1>3, TaskSteps
  <2>3. \A u \in Task : Busy(u)' => u = t
    BY <2>1, <2>2 DEF Busy
  <2>4. CASE ReadHead(t)
    <3>1. act[Platform].pc = "idle"
      BY <2>2 DEF Base, SeedAlone, Busy
    <3>2. Holding = {}
      BY <2>1, <2>2, <2>4, <3>1 DEF Holding, Actor, ReadHead, ReadHeadAs, Busy
    <3> QED BY <2>1, <2>3, <2>4, <3>2 DEF ReadHead, ReadHeadAs
  <2>5. CASE ~ ReadHead(t)
    <3>1. raced' \subseteq raced
      BY <1>3, <2>5, TaskSteps
    <3> QED BY <2>1, <2>3, <3>1
  <2> QED BY <2>4, <2>5
<1>4. ASSUME PlatformStep, BootStep \/ Stop \/ CloseStore \/ Crash
      PROVE  raced' = {} /\ \A u, w \in Task : Busy(u)' /\ Busy(w)' => u = w
  <2>1. serial /\ raced = {} /\ \A u, w \in Task : Busy(u) /\ Busy(w) => u = w
    BY <1>4 DEF PlatformStep, Serial
  <2>2. act \in [Actor -> Job] /\ \A u \in Task : u \in Actor /\ u # Platform
    BY RegistryAssumption DEF Base, TypeOK, Actor
  <2>3. ~ Crash
    BY DEF Crash
  <2>4. CASE JobStep(Platform)
    <3>1. (\A u \in Task : act'[u] = act[u]) /\ raced' \subseteq raced
      BY <2>2, <2>4 DEF JobStep, WriteBlob, WriteLeaf, WriteDir, WriteRoot, ResolveRef,
                        WriteCommit, Write, UpdateRef, ghosts
    <3> QED BY <2>1, <3>1 DEF Busy
  <2>5. CASE \/ Boot \/ CheckLog \/ SeedMeta \/ SeedSub \/ Browse \/ StartServer \/ Stop
             \/ CloseStore
    <3>1. (\A u \in Task : act'[u] = act[u]) /\ raced' = raced
      BY <2>2, <2>5 DEF Boot, CheckLog, SeedMeta, SeedSub, Browse, StartServer, Stop,
                        CloseStore, ghosts
    <3> QED BY <2>1, <3>1 DEF Busy
  <2> QED BY <1>4, <2>3, <2>4, <2>5 DEF BootStep
<1>5. ASSUME NEW j \in Name, NEW t \in Task, NEW i \in Info, Post(j, t, i)
      PROVE  raced' = {} /\ \A u, w \in Task : Busy(u)' /\ Busy(w)' => u = w
  <2>1. serial /\ \A u \in Task : ~ Busy(u)
    BY <1>5 DEF Post, Busy
  <2>2. raced' = raced /\ \A u \in Task \ {t} : act'[u] = act[u]
    BY <1>5 DEF Post, Register, ghosts, Base, TypeOK, Actor
  <2> QED BY <2>1, <2>2 DEF Serial, Busy
<1>6. CASE \/ UNCHANGED allVars
           \/ \E j \in Name : \/ Join(j) \/ Sync(j) \/ ReadSetup(j) \/ PostLost(j)
                              \/ Watch(j) \/ Leave(j)
  <2>1. raced' = raced /\ act' = act /\ serial' = serial
    BY <1>6 DEF allVars, vars, ghosts, listVars, Join, Sync, ReadSetup, PostLost, Watch, WatchTo,
                Leave
  <2> QED BY <2>1 DEF Serial, Busy
<1> QED BY <1>3, <1>4, <1>5, <1>6, SetupCases DEF PlatformStep

\* Serial holds in every reachable state of the whole.
THEOREM SerialInvariant == SetupSpec => []Serial
<1> QED BY SerialInit, SerialStep, SetupIsRegistry, BaseInvariant, PTL DEF SetupSpec

\* DropdownAgrees is not inductive: while a registration is under way its node is
\* listed but not yet in the tree, and it will put there what the list says.
Accounted(e) ==
    \/ e.name \in FileName
    \/ Now.swarm[e.name] = e.info
    \/ \E t \in Task : Busy(t) /\ act[t].name = e.name

Agreeing ==
    stage = "http" /\ serial =>
        \A k \in 1..Len(nodes) :
            /\ Accounted(nodes[k])
            /\ \A t \in Task : Busy(t) /\ act[t].name = nodes[k].name => act[t].info = nodes[k].info

LEMMA AgreeingInit == SetupInit => Agreeing
BY DEF SetupInit, Init, Agreeing

LEMMA AgreeingStep ==
    Base /\ Complete /\ Fresh /\ SetupTyped /\ Serial /\ Agreeing /\ [SetupNext]_allVars => Agreeing'
<1> SUFFICES ASSUME Base, Complete, Fresh, SetupTyped, Serial, Agreeing, [SetupNext]_allVars,
                    stage' = "http", serial'
             PROVE  \A k \in 1..Len(nodes') :
                        /\ Accounted(nodes[k])'
                        /\ \A t \in Task : Busy(t)' /\ act'[t].name = nodes'[k].name
                                              => act'[t].info = nodes'[k].info
  BY DEF Agreeing
<1>0. nodes \in Seq(NodeEntry) /\ Distinct(nodes)
  BY DEF SetupTyped, SetupTypeOK
<1>1. ASSUME NEW t \in Task, TaskStep(t), PlatformStep
      PROVE  \A k \in 1..Len(nodes') :
                /\ Accounted(nodes[k])'
                /\ \A u \in Task : Busy(u)' /\ act'[u].name = nodes'[k].name
                                      => act'[u].info = nodes'[k].info
  <2>1. /\ stage = "http" /\ Busy(t) /\ \A u \in Task \ {t} : act'[u] = act[u]
    BY <1>1, TaskSteps
  <2>2. serial /\ nodes' = nodes
    BY <1>1, <2>1 DEF PlatformStep
  <2>3. raced = {} /\ \A u \in Task \ {t} : ~ Busy(u)
    BY <2>1, <2>2 DEF Serial
  <2>4. \A u \in Task \ {t} : ~ Busy(u)'
    BY <2>1, <2>3 DEF Busy
  <2>5. \A k \in 1..Len(nodes) :
            /\ Accounted(nodes[k])
            /\ act[t].name = nodes[k].name => act[t].info = nodes[k].info
    BY <2>1, <2>2 DEF Agreeing
  <2>6. CASE Now' = Now /\ Busy(t)' /\ act'[t].name = act[t].name /\ act'[t].info = act[t].info
    BY <2>2, <2>3, <2>4, <2>5, <2>6 DEF Accounted
  <2>7. CASE UpdateRef(t) /\ ~ Busy(t)'
    <3>1. Now' = NewTree(t) /\ t \in Holding /\ t \in Actor /\ stage # "closed"
      BY <2>7, UpdateRefTree DEF Actor
    <3>2. act[t].base = Now
      BY <2>3, <3>1 DEF Fresh
    <3>3. /\ act[t].base \in Tree /\ act[t].name \in Member
      BY <3>1 DEF Base, TypeOK, Job
    <3>4. \A m \in Member : Now'.swarm[m] = IF m = act[t].name THEN act[t].info ELSE Now.swarm[m]
      BY <3>1, <3>2, <3>3 DEF NewTree, WithMember, Tree, Listing
    <3>5. \A k \in 1..Len(nodes) : nodes[k].name \in Member
      <4>1. \A k \in 1..Len(nodes) : nodes[k] \in NodeEntry
        BY <1>0
      <4> QED BY <4>1 DEF NodeEntry
    <3>6. ASSUME NEW k \in 1..Len(nodes)
          PROVE  Accounted(nodes[k])'
      <4>1. CASE nodes[k].name = act[t].name
        BY <2>2, <2>5, <3>4, <3>5, <4>1 DEF Accounted
      <4>2. CASE nodes[k].name # act[t].name
        BY <2>2, <2>3, <2>5, <3>4, <3>5, <4>2 DEF Accounted
      <4> QED BY <4>1, <4>2
    <3> QED BY <2>2, <2>4, <2>7, <3>6
  <2>8. CASE Now' = Now /\ ~ Busy(t)' /\ act[t].name \in FileName
    <3>1. ASSUME NEW k \in 1..Len(nodes)
          PROVE  nodes[k].name \in FileName \/ Now'.swarm[nodes[k].name] = nodes[k].info
      <4>1. CASE nodes[k].name = act[t].name
        BY <2>8, <4>1
      <4>2. CASE nodes[k].name # act[t].name
        BY <2>3, <2>5, <2>8, <4>2 DEF Accounted
      <4> QED BY <4>1, <4>2
    <3> QED BY <2>2, <2>4, <2>8, <3>1 DEF Accounted
  <2> QED BY <1>1, <2>1, <2>6, <2>7, <2>8, TaskSteps
<1>2. ASSUME PlatformStep, BootStep \/ Stop \/ CloseStore \/ Crash
      PROVE  \A k \in 1..Len(nodes') :
                /\ Accounted(nodes[k])'
                /\ \A u \in Task : Busy(u)' /\ act'[u].name = nodes'[k].name
                                      => act'[u].info = nodes'[k].info
  <2>1. ~ JobStep(Platform)
    <3> SUFFICES ASSUME JobStep(Platform) PROVE FALSE
      OBVIOUS
    <3>1. act[Platform].pc # "idle"
      BY DEF JobStep, WriteBlob, WriteLeaf, WriteDir, WriteRoot, ResolveRef, WriteCommit, Write,
             UpdateRef
    <3>2. stage = "seedNode"
      BY <3>1 DEF Base, SeedAlone
    <3>3. stage' \in {"seedNode", "browse"}
      BY <3>2 DEF JobStep, WriteBlob, WriteLeaf, WriteDir, WriteRoot, ResolveRef, WriteCommit, Write,
             UpdateRef
    <3> QED BY <3>3
  <2>2. StartServer
    BY <1>2, <2>1 DEF BootStep, Boot, CheckLog, SeedMeta, SeedSub, Browse, Stop, CloseStore, Crash
  <2>3. /\ stage = "serving" /\ log' = log /\ act' = act
        /\ nodes' = << [name |-> Platform, info |-> PlatformInfo] >>
    BY <1>2, <2>2 DEF StartServer, PlatformStep
  <2>4. (\A t \in Task : ~ Busy(t)) /\ Main # 0
    BY <2>3 DEF Base, SeedAlone, Busy
  <2>5. Now.swarm[Platform] = PlatformInfo /\ Now' = Now
    BY <2>3, <2>4, GoodNow DEF TreeGood, Complete, Now
  <2>6. \A k \in 1..Len(nodes') : nodes'[k].name = Platform /\ nodes'[k].info = PlatformInfo
    BY <2>3
  <2>7. \A k \in 1..Len(nodes') : Accounted(nodes[k])'
    BY <2>5, <2>6 DEF Accounted
  <2>8. \A t \in Task : ~ Busy(t)'
    BY <2>3, <2>4 DEF Busy
  <2> QED BY <2>7, <2>8
<1>3. ASSUME NEW j \in Name, NEW t \in Task, NEW i \in Info, Post(j, t, i)
      PROVE  \A k \in 1..Len(nodes') :
                /\ Accounted(nodes[k])'
                /\ \A u \in Task : Busy(u)' /\ act'[u].name = nodes'[k].name
                                      => act'[u].info = nodes'[k].info
  <2>1. /\ serial /\ \A u \in Task : ~ Busy(u)
        /\ nodes' = Listed(nodes, j, i) /\ Register(t, j, i)
    BY <1>3 DEF Post, Busy
  <2> DEFINE job == [Idle EXCEPT !.pc = "head", !.name = j, !.info = i]
  <2>2. /\ stage = "http" /\ log' = log /\ act' = [act EXCEPT ![t] = job]
        /\ job.pc = "head" /\ job.name = j /\ job.info = i
    BY <2>1 DEF Register, Idle
  <2>3. act \in [Actor -> Job] /\ Task \subseteq Actor /\ Now' = Now
    BY <2>2 DEF Base, TypeOK, Actor, Now
  <2>4. Busy(t)' /\ act'[t].name = j /\ act'[t].info = i /\ \A u \in Task \ {t} : ~ Busy(u)'
    BY <2>1, <2>2, <2>3 DEF Busy
  <2>5. \A k \in 1..Len(nodes') :
            \/ nodes'[k] = [name |-> j, info |-> i]
            \/ nodes'[k].name # j /\ \E m \in 1..Len(nodes) : nodes'[k] = nodes[m]
    BY <1>0, <2>1, ListedFacts DEF Member
  <2>6. \A m \in 1..Len(nodes) : nodes[m].name \in FileName \/ Now.swarm[nodes[m].name] = nodes[m].info
    BY <2>1, <2>2 DEF Agreeing, Accounted
  <2>7. ASSUME NEW k \in 1..Len(nodes')
        PROVE  /\ Accounted(nodes[k])'
               /\ \A u \in Task : Busy(u)' /\ act'[u].name = nodes'[k].name
                                     => act'[u].info = nodes'[k].info
    <3>1. CASE nodes'[k] = [name |-> j, info |-> i]
      BY <2>4, <3>1 DEF Accounted
    <3>2. CASE nodes'[k].name # j /\ \E m \in 1..Len(nodes) : nodes'[k] = nodes[m]
      BY <2>3, <2>4, <2>6, <3>2 DEF Accounted
    <3> QED BY <2>5, <3>1, <3>2
  <2> QED BY <2>7
<1>4. CASE \/ UNCHANGED allVars
           \/ \E j \in Name : \/ Join(j) \/ Sync(j) \/ ReadSetup(j) \/ PostLost(j)
                              \/ Watch(j) \/ Leave(j)
  <2>1. log' = log /\ act' = act /\ serial' = serial /\ nodes' = nodes /\ stage' = stage
    BY <1>4 DEF allVars, vars, listVars, Join, Sync, ReadSetup, PostLost, Watch, WatchTo, Leave
  <2> QED BY <2>1 DEF Agreeing, Accounted, Busy, Now
<1> QED BY <1>1, <1>2, <1>3, <1>4, SetupCases DEF PlatformStep

\* The dropdown and the tree agree on every listed node the tree can hold, while a
\* platform process has had one registration at a time and has none under way, for
\* any number of nodes and however earlier processes ended.
THEOREM ListAgrees == SetupSpec => []DropdownAgrees
<1>1. Base /\ Agreeing => DropdownAgrees
  BY DEF Base, TypeOK, Actor, Agreeing, DropdownAgrees, Accounted, Busy
<1> QED BY <1>1, AgreeingInit, AgreeingStep, SetupTypedInvariant, SerialInvariant, SetupIsRegistry,
        BaseInvariant, CompleteInvariant, FreshInvariant, PTL DEF SetupSpec
=============================================================================
