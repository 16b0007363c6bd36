-------------------------- MODULE Seeding_proofs --------------------------
(***************************************************************************)
(* The programs that seed a drive, for any files, folders and nodes and    *)
(* any number of kills and starts: what a peer of phase-7 lists and what   *)
(* the world view shows when its rounds are over, what a node of           *)
(* spl7-phase-1 and of spl7-phase-2 reads; and that the same holds where   *)
(* each behaviour is that of one of them.                                  *)
(***************************************************************************)
EXTENDS MCSwarmApp, FiniteSetTheorems, SequenceTheorems, TLAPS

-----------------------------------------------------------------------------
(***************************************************************************)
(* The swarm app of phase-7.                                               *)
(***************************************************************************)
\* The puts there can be on the world drive.
Puts ==
    {StatusPut(ps) : ps \in SUBSET Peer} \cup {PeersPut(ps) : ps \in SUBSET Peer}
        \cup {RunPut(t, e) : t \in Time, e \in Entry}

WorldType ==
    [status : {None} \cup 0..Cardinality(Peer), peers : {None} \cup SUBSET Peer,
     runs : [Time -> Entry \cup {None}]]

\* Puts are under way only while the world view runs, and a round's second put
\* only once its first is done.
Typed ==
    /\ TypeOK
    /\ queue \in Seq(Puts) /\ world \in WorldType
    /\ stage \notin {"up", "stopping"} => queue = <<>>
    /\ \A k \in 1..Len(queue) : queue[k].path = "peers" => world.status # None

-----------------------------------------------------------------------------
(***************************************************************************)
(* Lemmas about sets of peers, puts and the queue.                         *)
(***************************************************************************)
LEMMA PeersCounted ==
    ASSUME NEW ps \in SUBSET Peer
    PROVE  Cardinality(ps) \in 0..Cardinality(Peer) /\ Cardinality(ps) # None
<1>1. IsFiniteSet(Peer) /\ None \notin Nat
  BY AppAssumption
<1>2. IsFiniteSet(ps) /\ Cardinality(ps) <= Cardinality(Peer)
  BY <1>1, FS_Subset
<1>3. Cardinality(ps) \in Nat /\ Cardinality(Peer) \in Nat
  BY <1>1, <1>2, FS_CardinalityType
<1> QED
  BY <1>1, <1>2, <1>3

\* What each kind of put does and what follows it.
LEMMA PutShape ==
    ASSUME NEW p \in Puts
    PROVE  \/ \E ps \in SUBSET Peer :
                 /\ p = StatusPut(ps) /\ p.path = "status" /\ p.peers = ps
                 /\ Written(p) = [world EXCEPT !.status = Cardinality(ps)]
                 /\ Then(p) = <<PeersPut(ps)>>
           \/ \E ps \in SUBSET Peer :
                 /\ p = PeersPut(ps) /\ p.path = "peers" /\ p.peers = ps
                 /\ Written(p) = [world EXCEPT !.peers = ps] /\ Then(p) = <<>>
           \/ \E t \in Time, e \in Entry :
                 /\ p = RunPut(t, e) /\ p.path = "run" /\ p.time = t /\ p.entry = e
                 /\ Written(p) = [world EXCEPT !.runs[t] = e] /\ Then(p) = <<>>
<1>1. CASE \E ps \in SUBSET Peer : p = StatusPut(ps)
  BY <1>1 DEF StatusPut, Written, Then
<1>2. CASE \E ps \in SUBSET Peer : p = PeersPut(ps)
  BY <1>2 DEF PeersPut, Written, Then
<1>3. CASE \E t \in Time, e \in Entry : p = RunPut(t, e)
  <2>1. PICK t \in Time, e \in Entry : p = RunPut(t, e)
    BY <1>3
  <2>2. p.path = "run" /\ p.time = t /\ p.entry = e
    BY <2>1 DEF RunPut
  <2>3. Written(p) = [world EXCEPT !.runs[t] = e] /\ Then(p) = <<>>
    BY <2>2 DEF Written, Then
  <2> QED
    BY <2>1, <2>2, <2>3
<1> QED
  BY <1>1, <1>2, <1>3 DEF Puts

\* A new put is the last of the queue.
LEMMA Queued ==
    ASSUME queue \in Seq(Puts), NEW p \in Puts, queue' = Append(queue, p)
    PROVE  /\ queue' \in Seq(Puts) /\ Len(queue) \in Nat /\ Len(queue') = Len(queue) + 1
           /\ queue'[Len(queue) + 1] = p
           /\ \A k \in 1..Len(queue) : queue'[k] = queue[k]
  OBVIOUS

\* The queue after its first put is done.
LEMMA Applied ==
    ASSUME queue \in Seq(Puts), queue # <<>>, queue' = Tail(queue) \o Then(Head(queue))
    PROVE  /\ Head(queue) \in Puts /\ Head(queue) = queue[1]
           /\ Len(queue) \in Nat \ {0}
           /\ queue' \in Seq(Puts)
           /\ \A k \in 1..(Len(queue) - 1) : queue'[k] = queue[k + 1]
           /\ \/ Len(queue') = Len(queue) - 1 /\ Head(queue).path # "status"
              \/ \E ps \in SUBSET Peer :
                    /\ Head(queue) = StatusPut(ps)
                    /\ Len(queue') = Len(queue) /\ queue'[Len(queue)] = PeersPut(ps)
<1>1. Head(queue) \in Puts /\ Head(queue) = queue[1] /\ Len(queue) \in Nat \ {0}
  OBVIOUS
<1> DEFINE rest == Tail(queue)
<1>2. /\ rest \in Seq(Puts) /\ Len(rest) = Len(queue) - 1
      /\ \A k \in 1..(Len(queue) - 1) : rest[k] = queue[k + 1]
  BY <1>1, HeadTailProperties
<1>3. CASE Then(Head(queue)) = <<>> /\ Head(queue).path # "status"
  <2>1. queue' = rest
    BY <1>2, <1>3, ConcatEmptySeq
  <2> QED
    BY <1>1, <1>2, <1>3, <2>1
<1>4. ASSUME NEW ps \in SUBSET Peer, Head(queue) = StatusPut(ps), Then(Head(queue)) = <<PeersPut(ps)>>
      PROVE  /\ queue' \in Seq(Puts)
             /\ \A k \in 1..(Len(queue) - 1) : queue'[k] = queue[k + 1]
             /\ Len(queue') = Len(queue) /\ queue'[Len(queue)] = PeersPut(ps)
  <2>1. PeersPut(ps) \in Puts
    BY DEF Puts
  <2> HIDE DEF rest
  <2>2. queue' = Append(rest, PeersPut(ps))
    <3>1. Append(rest, PeersPut(ps)) = rest \o <<PeersPut(ps)>>
      BY <1>2, <2>1, AppendIsConcat
    <3>2. queue' = rest \o <<PeersPut(ps)>>
      BY <1>4 DEF rest
    <3> QED
      BY <3>1, <3>2
  <2>3. /\ queue' \in Seq(Puts) /\ Len(queue') = Len(rest) + 1
        /\ \A k \in 1..Len(rest) : queue'[k] = rest[k]
        /\ queue'[Len(rest) + 1] = PeersPut(ps)
    <3>1. rest \in Seq(Puts)
      BY <1>2
    <3>2. /\ Append(rest, PeersPut(ps)) \in Seq(Puts)
          /\ Len(Append(rest, PeersPut(ps))) = Len(rest) + 1
          /\ \A k \in 1..Len(rest) : Append(rest, PeersPut(ps))[k] = rest[k]
          /\ Append(rest, PeersPut(ps))[Len(rest) + 1] = PeersPut(ps)
      BY <2>1, <3>1
    <3> QED
      BY <2>2, <3>2
  <2> QED
    BY <1>1, <1>2, <2>3
<1> QED
  BY <1>1, <1>3, <1>4, PutShape

-----------------------------------------------------------------------------
(***************************************************************************)
(* Types.                                                                  *)
(***************************************************************************)
LEMMA TypedInit == Init => Typed
<1> SUFFICES ASSUME Init PROVE Typed
  OBVIOUS
<1>1. Len(SeedOrder) \in Nat \ {0} /\ MaxQueue \in Nat
  BY AppAssumption
<1>2. world \in WorldType /\ 0 \in Time /\ ran \in [Time -> Entry \cup {None}]
  BY AppAssumption DEF Init, NoWorld, NoRuns, WorldType, Time
<1>3. queue \in Seq(Puts) /\ Len(queue) = 0
  BY DEF Init
<1> QED
  BY <1>1, <1>2, <1>3 DEF Init, Typed, TypeOK, Stage, NoWorld

\* A put that is added while the world view runs, or is about to.
LEMMA TypedQueued ==
    ASSUME Typed, NEW p \in Puts, queue' = Append(queue, p), p.path # "peers",
           Len(queue) < MaxQueue, world' = world
    PROVE  /\ queue' \in Seq(Puts) /\ Len(queue') <= MaxQueue
           /\ \A k \in 1..Len(queue') : queue'[k].path = "peers" => world'.status # None
<1>1. queue \in Seq(Puts) /\ MaxQueue \in Nat
  BY AppAssumption DEF Typed
<1>2. \A k \in 1..Len(queue) : queue[k].path = "peers" => world.status # None
  BY DEF Typed
<1> QED
  BY <1>1, <1>2, Queued

LEMMA TypedApply == Typed /\ Apply => Typed'
<1> SUFFICES ASSUME Typed, Apply PROVE Typed'
  OBVIOUS
<1>1. queue \in Seq(Puts) /\ world \in WorldType /\ Len(queue) <= MaxQueue /\ MaxQueue \in Nat
  BY AppAssumption DEF Typed, TypeOK
<1>2. /\ Head(queue) \in Puts /\ Head(queue) = queue[1]
      /\ Len(queue) \in Nat \ {0} /\ queue' \in Seq(Puts)
      /\ \A k \in 1..(Len(queue) - 1) : queue'[k] = queue[k + 1]
      /\ \/ Len(queue') = Len(queue) - 1 /\ Head(queue).path # "status"
         \/ \E ps \in SUBSET Peer :
               /\ Head(queue) = StatusPut(ps)
               /\ Len(queue') = Len(queue) /\ queue'[Len(queue)] = PeersPut(ps)
  BY <1>1, Applied DEF Apply
<1>3. world' = Written(Head(queue)) /\ UNCHANGED <<stage, contentVars, peerVars, newest, runVars>>
  BY DEF Apply
<1>4. \A k \in 1..Len(queue) : queue[k].path = "peers" => world.status # None
  BY DEF Typed
<1>5. /\ world' \in WorldType
      /\ world'.peers # None => world'.status # None
      /\ world.status # None => world'.status # None
      /\ Head(queue).path = "status" => world'.status # None
  <2>1. world.peers # None => world.status # None
    BY DEF Typed, TypeOK
  <2>2. CASE \E ps \in SUBSET Peer :
               Head(queue).path = "status" /\ Written(Head(queue)) = [world EXCEPT !.status = Cardinality(ps)]
    BY <1>1, <1>3, <2>1, <2>2, PeersCounted DEF WorldType
  <2>3. CASE \E ps \in SUBSET Peer :
               Head(queue).path = "peers" /\ Written(Head(queue)) = [world EXCEPT !.peers = ps]
    <3>1. world.status # None
      BY <1>2, <1>4, <2>3
    <3> QED
      BY <1>1, <1>3, <2>3, <3>1 DEF WorldType
  <2>4. CASE \E t \in Time, e \in Entry :
               Head(queue).path = "run" /\ Written(Head(queue)) = [world EXCEPT !.runs[t] = e]
    BY <1>1, <1>3, <2>1, <2>4 DEF WorldType
  <2> DEFINE h == Head(queue)
  <2>5. h \in Puts
    BY <1>2
  <2> HIDE DEF h
  <2>6. \/ \E ps \in SUBSET Peer : h.path = "status" /\ Written(h) = [world EXCEPT !.status = Cardinality(ps)]
        \/ \E ps \in SUBSET Peer : h.path = "peers" /\ Written(h) = [world EXCEPT !.peers = ps]
        \/ \E t \in Time, e \in Entry : h.path = "run" /\ Written(h) = [world EXCEPT !.runs[t] = e]
    BY <2>5, PutShape
  <2> QED
    BY <2>2, <2>3, <2>4, <2>6 DEF h
<1>6. Len(queue') <= MaxQueue
  BY <1>1, <1>2
<1>7. \A k \in 1..Len(queue') : queue'[k].path = "peers" => world'.status # None
  <2>1. CASE Len(queue') = Len(queue) - 1
    BY <1>2, <1>4, <1>5, <2>1
  <2>2. CASE Len(queue') = Len(queue) /\ \E ps \in SUBSET Peer : Head(queue) = StatusPut(ps)
    <3>1. Head(queue).path = "status"
      BY <2>2 DEF StatusPut
    <3> QED
      BY <1>5, <3>1
  <2> QED
    BY <1>2, <2>1, <2>2
<1>8. TypeOK'
  <2>1. /\ world'.status = None \/ world'.status \in 0..Cardinality(Peer)
        /\ world'.peers = None \/ world'.peers \subseteq Peer
        /\ world'.runs \in [Time -> Entry \cup {None}]
    BY <1>5 DEF WorldType
  <2>2. UNCHANGED <<stage, at, files, cut, peer, seen, conns, newest, now, ran>>
    BY <1>3 DEF contentVars, peerVars, runVars
  <2> QED
    BY <1>2, <1>5, <1>6, <2>1, <2>2 DEF Typed, TypeOK
<1>9. stage' \in {"up", "stopping"}
  BY <1>3 DEF Apply
<1> QED
  BY <1>2, <1>5, <1>7, <1>8, <1>9 DEF Typed

LEMMA TypedRound == Typed /\ (Serve \/ Round) => Typed'
<1> SUFFICES ASSUME Typed, Serve \/ Round PROVE Typed'
  OBVIOUS
<1>1. /\ queue' = Append(queue, StatusPut(conns)) /\ newest' = conns /\ stage' = "up"
      /\ UNCHANGED <<contentVars, peerVars, world, runVars>>
  BY DEF Serve, Round, BeginRound
<1>2. Len(queue) < MaxQueue
  BY AppAssumption DEF Serve, Round, Typed
<1>3. StatusPut(conns) \in Puts /\ StatusPut(conns).path = "status"
  <2>1. conns \subseteq Peer
    BY DEF Typed, TypeOK
  <2> QED
    BY <2>1 DEF Puts, StatusPut
<1>4. /\ queue' \in Seq(Puts) /\ Len(queue') <= MaxQueue
      /\ \A k \in 1..Len(queue') : queue'[k].path = "peers" => world'.status # None
  BY <1>1, <1>2, <1>3, TypedQueued
<1>5. TypeOK'
  BY <1>1, <1>4 DEF Typed, TypeOK, Stage, contentVars, peerVars, runVars
<1> QED
  BY <1>1, <1>4, <1>5 DEF Typed

LEMMA TypedRun == ASSUME Typed, NEW a \in App, NEW ok \in BOOLEAN, Run(a, ok) PROVE Typed'
<1> DEFINE e == [app |-> a, success |-> ok]
           p == RunPut(now, e)
<1>1. e \in Entry
  BY DEF Entry
<1> HIDE DEF e
<1>2. /\ queue' = Append(queue, p) /\ ran' = [ran EXCEPT ![now] = e] /\ Len(queue) < MaxQueue - 1
      /\ UNCHANGED <<stage, contentVars, peerVars, world, newest, now>> /\ stage \in {"up", "stopping"}
  BY DEF Run, CanRun, Answered, e
<1>3. Len(queue) < MaxQueue
  BY <1>2, AppAssumption DEF Typed
<1>4. p \in Puts /\ p.path = "run" /\ ran' \in [Time -> Entry \cup {None}]
  BY <1>1, <1>2 DEF Puts, RunPut, Typed, TypeOK
<1> HIDE DEF p
<1>5. /\ queue' \in Seq(Puts) /\ Len(queue') <= MaxQueue
      /\ \A k \in 1..Len(queue') : queue'[k].path = "peers" => world'.status # None
  BY <1>2, <1>3, <1>4, TypedQueued
<1>6. TypeOK'
  BY <1>2, <1>4, <1>5 DEF Typed, TypeOK, contentVars, peerVars
<1> QED
  BY <1>2, <1>5, <1>6 DEF Typed

LEMMA TypedTick == Typed /\ Tick => Typed'
BY AppAssumption DEF Tick, Time, Typed, TypeOK, contentVars, peerVars, viewVars

\* The steps of the seed's main() and of its end.
LEMMA TypedMain == Typed /\ (Boot \/ CheckContent \/ SeedFile \/ Stop \/ CloseStore \/ Exit) => Typed'
<1> SUFFICES ASSUME Typed, Boot \/ CheckContent \/ SeedFile \/ Stop \/ CloseStore \/ Exit PROVE Typed'
  OBVIOUS
<1>1. Len(SeedOrder) \in Nat \ {0} /\ MaxQueue \in Nat
  BY AppAssumption
<1>2. CASE Boot
  BY <1>2 DEF Boot, Typed, TypeOK, Stage, contentVars, peerVars, viewVars, runVars
<1>3. CASE CheckContent
  BY <1>1, <1>3 DEF CheckContent, Typed, TypeOK, Stage, peerVars, viewVars, runVars
<1>4. CASE SeedFile
  <2>1. files' \subseteq File /\ at' \in 1..Len(SeedOrder)
    BY <1>1, <1>4 DEF SeedFile, SeedUpTo, Typed, TypeOK, File
  <2> QED
    BY <1>4, <2>1 DEF SeedFile, SeedUpTo, Typed, TypeOK, Stage, peerVars, viewVars, runVars
<1>5. CASE Stop
  BY <1>5 DEF Stop, Typed, TypeOK, Stage, contentVars, peerVars, viewVars, runVars
<1>6. CASE CloseStore \/ Exit
  <2>1. /\ queue' = <<>> /\ conns' = {} /\ stage' \in Stage \ {"up", "stopping"}
        /\ UNCHANGED <<at, files, peer, seen, world, newest, now>>
    BY <1>6 DEF CloseStore, Exit, contentVars, runVars, Stage
  <2>2. ran' \in [Time -> Entry \cup {None}]
    BY <1>6 DEF CloseStore, Exit, Typed, TypeOK, NoRuns, runVars
  <2>3. Len(queue') = 0 /\ queue' \in Seq(Puts)
    BY <2>1
  <2> QED
    BY <1>1, <2>1, <2>2, <2>3 DEF Typed, TypeOK
<1> QED
  BY <1>2, <1>3, <1>4, <1>5, <1>6

LEMMA TypedPeer ==
    ASSUME Typed, NEW p \in Peer,
           PeerStart(p) \/ Connect(p) \/ Disconnect(p) \/ Sync(p) \/ Leave(p)
    PROVE  Typed'
<1>1. UNCHANGED <<stage, contentVars, viewVars, runVars>>
  BY DEF PeerStart, Connect, Disconnect, Sync, Leave
<1>2. /\ peer' \in [Peer -> {"off", "joining", "up"}] /\ seen' \in [Peer -> SUBSET File]
      /\ conns' \subseteq Peer
  BY DEF PeerStart, Connect, Disconnect, Sync, Leave, Typed, TypeOK
<1> QED
  BY <1>1, <1>2 DEF Typed, TypeOK, contentVars, viewVars, runVars

LEMMA TypedStep == Typed /\ [Next]_vars => Typed'
<1>1. Typed /\ UNCHANGED vars => Typed'
  BY DEF vars, contentVars, peerVars, viewVars, runVars, Typed, TypeOK
<1> QED
  BY <1>1, TypedApply, TypedRound, TypedRun, TypedTick, TypedMain, TypedPeer DEF Next

\* The variables keep their shapes; the bound on the puts under way holds although
\* the first round of a start does not look at it.
THEOREM AppTypeCorrect == Spec => []TypeOK
<1>1. Typed => TypeOK
  BY DEF Typed
<1> QED
  BY <1>1, TypedInit, TypedStep, PTL DEF Spec

-----------------------------------------------------------------------------
(***************************************************************************)
(* Seeding.                                                                *)
(***************************************************************************)
\* Without a kill after the probe, the probe tells whether everything is there.
Seeded ==
    /\ conns # {} => stage \in {"join", "up", "stopping"}
    /\ stage = "seeding" => \A k \in 1..(at - 1) : SeedOrder[k] \in files
    /\ ~ cut /\ stage \in {"down", "check"} /\ Probe \in files => files = File
    /\ ~ cut /\ stage \in {"join", "up", "stopping", "closed"} => files = File

Complete == Typed /\ Seeded /\ UncutComplete

LEMMA SeededMain ==
    Typed /\ Seeded /\ (Boot \/ CheckContent \/ SeedFile \/ Stop \/ CloseStore \/ Exit) => Seeded'
<1> SUFFICES ASSUME Typed, Seeded,
                    Boot \/ CheckContent \/ SeedFile \/ Stop \/ CloseStore \/ Exit
             PROVE  Seeded'
  OBVIOUS
<1>1. CASE Boot
  BY <1>1 DEF Boot, Seeded, contentVars, peerVars
<1>2. CASE CheckContent
  BY <1>2 DEF CheckContent, Seeded, peerVars
<1>3. CASE SeedFile
  <2>1. at \in 1..Len(SeedOrder) /\ Len(SeedOrder) \in Nat \ {0}
    BY AppAssumption DEF Typed, TypeOK
  <2>2. \A k \in 1..at : SeedOrder[k] \in files'
    BY <1>3, <2>1 DEF SeedFile, SeedUpTo, Seeded
  <2>3. CASE at = Len(SeedOrder)
    <3>1. files' = File
      BY <1>3, <2>1, <2>2, <2>3 DEF SeedFile, SeedUpTo, File, Typed, TypeOK
    <3> QED
      BY <1>3, <2>3, <3>1 DEF SeedFile, SeedUpTo, Seeded, peerVars
  <2>4. CASE at # Len(SeedOrder)
    BY <1>3, <2>1, <2>2, <2>4 DEF SeedFile, SeedUpTo, Seeded, peerVars
  <2> QED
    BY <2>3, <2>4
<1>4. CASE Stop
  BY <1>4 DEF Stop, Seeded, contentVars, peerVars
<1>5. CASE CloseStore
  BY <1>5 DEF CloseStore, Seeded, contentVars
<1>6. CASE Exit
  BY <1>6 DEF Exit, Seeded, Typed, TypeOK, Stage
<1> QED
  BY <1>1, <1>2, <1>3, <1>4, <1>5, <1>6

LEMMA SeededStep == Typed /\ Seeded /\ [Next]_vars => Seeded'
<1> SUFFICES ASSUME Typed, Seeded, [Next]_vars PROVE Seeded'
  OBVIOUS
<1>1. CASE Serve
  BY <1>1 DEF Serve, Seeded, contentVars, peerVars
<1>2. ASSUME UNCHANGED <<stage, contentVars, conns>> PROVE Seeded'
  BY <1>2 DEF Seeded, contentVars
<1>3. CASE Round \/ Apply \/ Tick \/ UNCHANGED vars
  BY <1>2, <1>3 DEF Round, Apply, Tick, vars, peerVars
<1>4. ASSUME NEW a \in App, NEW ok \in BOOLEAN, Run(a, ok) PROVE Seeded'
  BY <1>2, <1>4 DEF Run, peerVars
<1>5. ASSUME NEW p \in Peer, PeerStart(p) \/ Sync(p) PROVE Seeded'
  BY <1>2, <1>5 DEF PeerStart, Sync
<1>6. ASSUME NEW p \in Peer, Connect(p) \/ Disconnect(p) \/ Leave(p) PROVE Seeded'
  BY <1>6 DEF Connect, Disconnect, Leave, Seeded, contentVars
<1> QED
  BY <1>1, <1>3, <1>4, <1>5, <1>6, SeededMain DEF Next

\* What a peer has listed is whole because the seed takes connections only then.
LEMMA CompleteStep == Complete /\ [Next]_vars => Complete'
<1> SUFFICES ASSUME Complete, [Next]_vars, ~ cut', NEW p \in Peer, peer'[p] = "up"
             PROVE  seen'[p] = File
  BY TypedStep, SeededStep DEF Complete, UncutComplete
<1>1. ASSUME UNCHANGED <<cut, peer, seen>> PROVE seen'[p] = File
  BY <1>1 DEF Complete, UncutComplete
<1>2. CASE \/ Boot \/ CheckContent \/ SeedFile \/ Serve \/ Round \/ Apply \/ Tick \/ Stop \/ CloseStore
          \/ UNCHANGED vars
  BY <1>1, <1>2 DEF Boot, CheckContent, SeedFile, SeedUpTo, Serve, Round, Apply, Tick, Stop, CloseStore,
                    vars, contentVars, peerVars
<1>3. ASSUME NEW a \in App, NEW ok \in BOOLEAN, Run(a, ok) PROVE seen'[p] = File
  BY <1>1, <1>3 DEF Run, contentVars, peerVars
<1>4. CASE Exit
  BY <1>4 DEF Exit, Complete, UncutComplete
<1>5. ASSUME NEW q \in Peer, Sync(q) PROVE seen'[p] = File
  <2>1. ~ cut /\ stage \in {"join", "up", "stopping"}
    BY <1>5 DEF Sync, contentVars, Complete, Seeded
  <2>2. files = File
    BY <2>1 DEF Complete, Seeded
  <2> QED
    BY <1>5, <2>1, <2>2 DEF Sync, Complete, UncutComplete, Typed, TypeOK
<1>6. ASSUME NEW q \in Peer, PeerStart(q) \/ Connect(q) \/ Disconnect(q) \/ Leave(q)
      PROVE  seen'[p] = File
  BY <1>6 DEF PeerStart, Connect, Disconnect, Leave, contentVars, Complete, UncutComplete, Typed, TypeOK
<1> QED
  BY <1>2, <1>3, <1>4, <1>5, <1>6 DEF Next

\* One file decides whether the content drive is seeded; for any files and any
\* place of the probe among them, only a kill after that file and before the last
\* makes a peer list less than all of them.
THEOREM ProbeSuffices == Spec => []UncutComplete
<1>1. Init => Seeded /\ UncutComplete
  BY DEF Init, Seeded, UncutComplete
<1>2. Complete => UncutComplete
  BY DEF Complete
<1> QED
  BY <1>1, <1>2, TypedInit, CompleteStep, PTL DEF Spec, Complete

-----------------------------------------------------------------------------
(***************************************************************************)
(* The world view.                                                         *)
(***************************************************************************)
\* No put to this file is among those from place k on.
NoneFrom(k, path) == \A j \in k..Len(queue) : queue[j].path # path

\* The newest round has the last word: the last status put under way is its own;
\* or none is, status.json is its own, and the same goes for peers.json.
LastWord ==
    \/ \E k \in 1..Len(queue) : queue[k] = StatusPut(newest) /\ NoneFrom(k + 1, "status")
    \/ /\ NoneFrom(1, "status") /\ world.status = Cardinality(newest)
       /\ \/ \E k \in 1..Len(queue) : queue[k] = PeersPut(newest) /\ NoneFrom(k + 1, "peers")
          \/ NoneFrom(1, "peers") /\ world.peers = newest

Published == Typed /\ (stage = "up" => LastWord)

\* A round that begins has the last word, whatever is under way.
LEMMA RoundLastWord == ASSUME Typed, BeginRound PROVE LastWord'
<1>1. queue \in Seq(Puts) /\ StatusPut(conns) \in Puts
  BY DEF Typed, TypeOK, Puts
<1>2. queue' = Append(queue, StatusPut(conns)) /\ newest' = conns
  BY DEF BeginRound
<1>3. /\ Len(queue) \in Nat /\ Len(queue') = Len(queue) + 1
      /\ queue'[Len(queue) + 1] = StatusPut(conns)
  BY <1>1, <1>2, Queued
<1>4. Len(queue') \in 1..Len(queue') /\ queue'[Len(queue')] = StatusPut(newest')
  BY <1>2, <1>3
<1>5. \A k \in Nat : k = Len(queue') => NoneFrom(k + 1, "status")'
  BY <1>3 DEF NoneFrom
<1>6. \E k \in 1..Len(queue') : queue'[k] = StatusPut(newest') /\ NoneFrom(k + 1, "status")'
  BY <1>3, <1>4, <1>5
<1>7. StatusPut(newest') = StatusPut(newest)'
  BY DEF StatusPut
<1> QED
  BY <1>6, <1>7 DEF LastWord

\* The entry of a run changes neither file.
LEMMA RunLastWord == ASSUME Typed, LastWord, NEW a \in App, NEW ok \in BOOLEAN, Run(a, ok) PROVE LastWord'
<1> DEFINE e == [app |-> a, success |-> ok]
           p == RunPut(now, e)
<1>1. queue \in Seq(Puts) /\ p \in Puts /\ p.path = "run"
  BY DEF Typed, TypeOK, Puts, RunPut, Entry
<1>2. queue' = Append(queue, p) /\ UNCHANGED <<world, newest>>
  BY DEF Run
<1> HIDE DEF p
<1>3. /\ Len(queue) \in Nat /\ Len(queue') = Len(queue) + 1
      /\ queue'[Len(queue) + 1] = p
      /\ \A k \in 1..Len(queue) : queue'[k] = queue[k]
  BY <1>1, <1>2, Queued
<1>4. \A k \in Nat \ {0}, path \in {"status", "peers"} : NoneFrom(k, path) => NoneFrom(k, path)'
  BY <1>1, <1>3 DEF NoneFrom
<1> QED
  BY <1>2, <1>3, <1>4 DEF LastWord, StatusPut, PeersPut

\* The first put takes effect and what follows it is put.
LEMMA ApplyLastWord == ASSUME Typed, LastWord, Apply PROVE LastWord'
<1>1. queue \in Seq(Puts) /\ queue # <<>> /\ world \in WorldType /\ queue' = Tail(queue) \o Then(Head(queue))
  BY DEF Typed, Apply
<1>2. /\ Head(queue) \in Puts /\ Head(queue) = queue[1] /\ Len(queue) \in Nat \ {0}
      /\ \A k \in 1..(Len(queue) - 1) : queue'[k] = queue[k + 1]
      /\ \/ Len(queue') = Len(queue) - 1 /\ Head(queue).path # "status"
         \/ \E ps \in SUBSET Peer :
               /\ Head(queue) = StatusPut(ps)
               /\ Len(queue') = Len(queue) /\ queue'[Len(queue)] = PeersPut(ps)
  BY <1>1, Applied
<1>3. world' = Written(Head(queue)) /\ newest' = newest
  BY DEF Apply
<1>4. \A ps : /\ StatusPut(ps).path = "status" /\ StatusPut(ps).peers = ps
              /\ PeersPut(ps).path = "peers" /\ PeersPut(ps).peers = ps
  BY DEF StatusPut, PeersPut
<1>5. \A k \in 1..Len(queue) : NoneFrom(k + 1, "status") => NoneFrom(k, "status")'
  BY <1>2, <1>4 DEF NoneFrom
<1>6. CASE \E k \in 2..Len(queue) : queue[k] = StatusPut(newest) /\ NoneFrom(k + 1, "status")
  <2>1. PICK k \in 2..Len(queue) : queue[k] = StatusPut(newest) /\ NoneFrom(k + 1, "status")
    BY <1>6
  <2>2. k - 1 \in 1..Len(queue') /\ queue'[k - 1] = StatusPut(newest)
    BY <1>2, <2>1
  <2>3. NoneFrom(k, "status")' /\ k = (k - 1) + 1
    BY <1>5, <2>1
  <2>4. NoneFrom((k - 1) + 1, "status")'
    BY <2>3
  <2> QED
    BY <1>3, <2>2, <2>4 DEF LastWord, StatusPut
<1>7. CASE queue[1] = StatusPut(newest) /\ NoneFrom(2, "status")
  <2>1. /\ Len(queue') = Len(queue) /\ queue'[Len(queue)] = PeersPut(newest)
        /\ world' = [world EXCEPT !.status = Cardinality(newest)]
    BY <1>2, <1>3, <1>4, <1>7 DEF Written
  <2>2. NoneFrom(1, "status")'
    BY <1>2, <1>5, <1>7
  <2>3. \A k \in Nat : k = Len(queue') => NoneFrom(k + 1, "peers")'
    BY <1>2, <2>1 DEF NoneFrom
  <2>4. world'.status = Cardinality(newest)
    BY <1>1, <2>1 DEF WorldType
  <2> QED
    <3>1. \E k \in 1..Len(queue') : queue'[k] = PeersPut(newest) /\ NoneFrom(k + 1, "peers")'
      BY <1>2, <2>1, <2>3
    <3> QED
      BY <1>3, <2>2, <2>4, <3>1 DEF LastWord, PeersPut
<1>8. CASE NoneFrom(1, "status") /\ world.status = Cardinality(newest)
           /\ \/ \E k \in 1..Len(queue) : queue[k] = PeersPut(newest) /\ NoneFrom(k + 1, "peers")
              \/ NoneFrom(1, "peers") /\ world.peers = newest
  <2>1. Head(queue).path # "status"
    BY <1>2, <1>8 DEF NoneFrom
  <2>2. Len(queue') = Len(queue) - 1
    BY <1>2, <1>4, <2>1
  <2>3. \A k \in 1..Len(queue), path \in {"status", "peers"} : NoneFrom(k + 1, path) => NoneFrom(k, path)'
    BY <1>2, <2>2 DEF NoneFrom
  <2>4. \A path \in {"status", "peers"} : NoneFrom(1, path) => NoneFrom(2, path)
    BY <1>2 DEF NoneFrom
  <2>5. NoneFrom(1, "status")'
    BY <1>2, <1>8, <2>3, <2>4
  <2>6. world'.status = world.status
    BY <1>1, <1>2, <1>3, <2>1, PutShape DEF WorldType
  <2>7. CASE \E k \in 2..Len(queue) : queue[k] = PeersPut(newest) /\ NoneFrom(k + 1, "peers")
    <3>1. PICK k \in 2..Len(queue) : queue[k] = PeersPut(newest) /\ NoneFrom(k + 1, "peers")
      BY <2>7
    <3>2. k - 1 \in 1..Len(queue') /\ queue'[k - 1] = PeersPut(newest)
      BY <1>2, <2>2, <3>1
    <3>3. NoneFrom(k, "peers")' /\ k = (k - 1) + 1
      BY <2>3, <3>1
    <3>4. NoneFrom((k - 1) + 1, "peers")'
      BY <3>3
    <3> QED
      BY <1>3, <1>8, <2>5, <2>6, <3>2, <3>4 DEF LastWord, PeersPut
  <2>8. CASE queue[1] = PeersPut(newest) /\ NoneFrom(2, "peers")
    <3>1. world' = [world EXCEPT !.peers = newest]
      BY <1>2, <1>3, <1>4, <2>8 DEF Written
    <3>2. world'.peers = newest
      BY <1>1, <3>1 DEF WorldType
    <3>3. NoneFrom(1, "peers")'
      BY <1>2, <2>3, <2>8
    <3> QED
      BY <1>3, <1>8, <2>5, <2>6, <3>2, <3>3 DEF LastWord
  <2>9. CASE NoneFrom(1, "peers") /\ world.peers = newest
    <3>1. Head(queue).path # "peers"
      BY <1>2, <2>9 DEF NoneFrom
    <3>2. world'.peers = newest
      BY <1>1, <1>2, <1>3, <2>1, <2>9, <3>1, PutShape DEF WorldType
    <3>3. NoneFrom(1, "peers")'
      BY <1>2, <2>3, <2>4, <2>9
    <3> QED
      BY <1>3, <1>8, <2>5, <2>6, <3>2, <3>3 DEF LastWord
  <2> QED
    BY <1>2, <1>8, <2>7, <2>8, <2>9
<1> QED
  BY <1>2, <1>6, <1>7, <1>8 DEF LastWord

LEMMA PublishedStep == Published /\ [Next]_vars => Published'
<1> SUFFICES ASSUME Published, [Next]_vars, stage' = "up" PROVE LastWord'
  BY TypedStep DEF Published
<1>1. CASE Serve \/ Round
  BY <1>1, RoundLastWord DEF Serve, Round, Published
<1>2. CASE Apply
  BY <1>2, ApplyLastWord DEF Apply, Published
<1>3. ASSUME NEW a \in App, NEW ok \in BOOLEAN, Run(a, ok) PROVE LastWord'
  BY <1>3, RunLastWord DEF Run, Published
<1>4. ASSUME UNCHANGED <<stage, viewVars>> PROVE LastWord'
  BY <1>4 DEF Published, viewVars, LastWord, NoneFrom, StatusPut, PeersPut
<1>5. ASSUME NEW p \in Peer, PeerStart(p) \/ Connect(p) \/ Disconnect(p) \/ Sync(p) \/ Leave(p)
      PROVE  LastWord'
  BY <1>4, <1>5 DEF PeerStart, Connect, Disconnect, Sync, Leave
<1>6. CASE UNCHANGED vars
  BY <1>4, <1>6 DEF vars
<1>7. CASE Boot \/ CheckContent \/ SeedFile \/ Stop \/ CloseStore \/ Exit
  BY <1>7 DEF Boot, CheckContent, SeedFile, SeedUpTo, Stop, CloseStore, Exit
<1>8. CASE Tick
  BY <1>4, <1>8 DEF Tick
<1> QED
  BY <1>1, <1>2, <1>3, <1>5, <1>6, <1>7, <1>8 DEF Next

\* For any number of rounds and runs under way at once and any limit of them: when
\* no round is under way both files show what the newest round found.
THEOREM NewestRoundShown == Spec => []SettledViewAgrees
<1>1. Init => (stage = "up" => LastWord)
  BY DEF Init
<1>2. Published => SettledViewAgrees
  <2> SUFFICES ASSUME Published, stage = "up", \A k \in 1..Len(queue) : queue[k].path = "run"
               PROVE  world.peers = newest /\ world.status = Cardinality(newest)
    BY DEF SettledViewAgrees
  <2>1. \A ps : StatusPut(ps).path # "run" /\ PeersPut(ps).path # "run"
    BY DEF StatusPut, PeersPut
  <2> QED
    BY <2>1 DEF Published, LastWord
<1> QED
  BY <1>1, <1>2, TypedInit, PublishedStep, PTL DEF Spec, Published

-----------------------------------------------------------------------------
(***************************************************************************)
(* The files of spl7-phase-1.                                              *)
(***************************************************************************)
\* What a node that has listed the tree saw is what there is and will be: by then
\* the probe is there, and no later start of the platform seeds.
Reads ==
    \A n \in Joiner :
        /\ joiner[n] \in {"off", "joining"} => reading[n] = 1 /\ found[n] = {}
        /\ joiner[n] \in {"reading", "ready"} =>
              listed[n] = tree /\ Meta("config") \in tree /\ platform # "seeding"
        /\ joiner[n] = "reading" => found[n] = tree \cap {TreeOrder[k] : k \in 1..(reading[n] - 1)}
        /\ joiner[n] = "ready" => found[n] = tree

\* Without a kill after the probe, the probe tells whether everything is there; and
\* there are connections only while the platform has its probe and is on the swarm.
TreeSeeded ==
    /\ links # {} => platform \in {"join", "up"}
    /\ platform \in {"join", "up"} => Meta("config") \in tree
    /\ platform = "seeding" => \A k \in 1..(putting - 1) : TreeOrder[k] \in tree
    /\ ~ treeCut /\ platform # "seeding" /\ Meta("config") \in tree => tree = TreeFiles

TreeInv == TreeTypeOK /\ TreeSeeded /\ Reads

-----------------------------------------------------------------------------
\* A sequence written as a function, and what it is with one more element.
LEMMA OneMore ==
    ASSUME NEW S, NEW f \in [1..6 -> S], NEW e \in S
    PROVE  /\ f \in Seq(S) /\ Append(f, e) \in Seq(S) /\ Len(Append(f, e)) = 7
           /\ \A k \in 1..6 : Append(f, e)[k] = f[k]
<1>1. f \in Seq(S)
  BY SeqDef
<1>2. Len(f) = 6
  BY <1>1, LenProperties
<1>3. /\ Append(f, e) \in Seq(S) /\ Len(Append(f, e)) = Len(f) + 1
      /\ \A k \in 1..Len(f) : Append(f, e)[k] = f[k]
  BY <1>1, AppendProperties
<1> QED
  BY <1>1, <1>2, <1>3

\* The files that seedTree puts, and the probe among them.
LEMMA TreeOrderIs ==
    /\ Len(TreeOrder) \in Nat \ {0}
    /\ TreeFiles = {TreeOrder[k] : k \in 1..Len(TreeOrder)}
    /\ Meta("config") \in TreeFiles
<1> DEFINE folders == [k \in DOMAIN FOLDERS |-> Meta(FOLDERS[k])]
           paths   == {Meta(FOLDERS[k]) : k \in 1..6} \cup {Identity}
<1>1. DOMAIN FOLDERS = 1..6 /\ FOLDERS[4] = "config"
  BY DEF FOLDERS
<1>2. folders \in [1..6 -> paths]
  BY <1>1
<1>3. Identity \in paths
  OBVIOUS
<1>4. folders[4] = Meta("config")
  BY <1>1
<1> HIDE DEF folders, paths
<1>5. /\ Append(folders, Identity) \in Seq(paths) /\ Len(Append(folders, Identity)) = 7
      /\ Append(folders, Identity)[4] = folders[4]
  BY <1>2, <1>3, OneMore
<1>6. TreeOrder = Append(folders, Identity)
  BY DEF TreeOrder, folders
<1>7. /\ TreeOrder \in Seq(paths) /\ Len(TreeOrder) = 7 /\ DOMAIN TreeOrder = 1..7
      /\ TreeOrder[4] = Meta("config")
  BY <1>4, <1>5, <1>6, LenProperties
<1>8. TreeFiles = {TreeOrder[k] : k \in 1..7}
  BY <1>7 DEF TreeFiles, ToSet
<1> QED
  BY <1>7, <1>8

LEMMA TreeInvInit == TreeInit => TreeInv
<1> SUFFICES ASSUME TreeInit PROVE TreeInv
  OBVIOUS
<1>1. 1 \in 1..Len(TreeOrder)
  BY TreeOrderIs
<1>2. TreeTypeOK
  BY <1>1 DEF TreeInit, TreeTypeOK
<1>3. TreeSeeded
  BY DEF TreeInit, TreeSeeded
<1>4. Reads
  BY DEF TreeInit, Reads
<1> QED
  BY <1>2, <1>3, <1>4 DEF TreeInv

\* A node's reads are what they were where its variables and the tree are, and the
\* platform does not begin to seed.
LEMMA ReadsStay ==
    ASSUME Reads, UNCHANGED <<tree, nodeVars>>, platform' = "seeding" => Meta("config") \notin tree
    PROVE  Reads'
  BY DEF Reads, nodeVars

\* The steps of the platform.
LEMMA PlatformStep ==
    TreeInv /\ (PlatformBoot \/ SeedTree \/ PlatformServes \/ PlatformStops \/ PlatformExits) => TreeInv'
<1> SUFFICES ASSUME TreeInv,
                    PlatformBoot \/ SeedTree \/ PlatformServes \/ PlatformStops \/ PlatformExits
             PROVE  TreeInv'
  OBVIOUS
<1>1. putting \in 1..Len(TreeOrder) /\ Len(TreeOrder) \in Nat \ {0}
  BY TreeOrderIs DEF TreeInv, TreeTypeOK
<1>2. CASE PlatformBoot
  <2>1. TreeTypeOK' /\ TreeSeeded'
    BY <1>1, <1>2 DEF PlatformBoot, TreeInv, TreeTypeOK, TreeSeeded, nodeVars
  <2>2. Reads'
    BY <1>2, ReadsStay DEF PlatformBoot, TreeInv
  <2> QED
    BY <2>1, <2>2 DEF TreeInv
<1>3. CASE SeedTree
  <2>1. TreeOrder[putting] \in TreeFiles
    BY <1>1, TreeOrderIs
  <2>2. TreeTypeOK'
    BY <1>1, <1>3, <2>1 DEF SeedTree, TreeInv, TreeTypeOK, nodeVars
  <2>3. \A k \in 1..putting : TreeOrder[k] \in tree'
    BY <1>1, <1>3 DEF SeedTree, TreeInv, TreeSeeded
  <2>4. links = {}
    BY <1>3 DEF SeedTree, TreeInv, TreeSeeded
  <2>5. TreeSeeded'
    <3>1. CASE putting = Len(TreeOrder)
      <4>1. tree' = TreeFiles
        BY <1>1, <2>2, <2>3, <3>1, TreeOrderIs DEF TreeTypeOK
      <4> QED
        BY <1>3, <2>4, <3>1, <4>1, TreeOrderIs DEF SeedTree, TreeSeeded
    <3>2. CASE putting # Len(TreeOrder)
      BY <1>1, <1>3, <2>3, <2>4, <3>2 DEF SeedTree, TreeSeeded
    <3> QED
      BY <3>1, <3>2
  <2>6. \A n \in Joiner : joiner[n] \in {"off", "joining"}
    BY <1>3 DEF SeedTree, TreeInv, TreeTypeOK, Reads
  <2>7. Reads'
    BY <1>3, <2>6 DEF SeedTree, TreeInv, Reads, nodeVars
  <2> QED
    BY <2>2, <2>5, <2>7 DEF TreeInv
<1>4. CASE PlatformServes
  <2>1. TreeTypeOK' /\ TreeSeeded'
    BY <1>4 DEF PlatformServes, TreeInv, TreeTypeOK, TreeSeeded, nodeVars
  <2>2. Reads'
    BY <1>4, ReadsStay DEF PlatformServes, TreeInv
  <2> QED
    BY <2>1, <2>2 DEF TreeInv
<1>5. CASE PlatformStops
  <2>1. TreeTypeOK' /\ TreeSeeded'
    BY <1>5 DEF PlatformStops, TreeInv, TreeTypeOK, TreeSeeded, nodeVars
  <2>2. Reads'
    BY <1>5, ReadsStay DEF PlatformStops, TreeInv
  <2> QED
    BY <2>1, <2>2 DEF TreeInv
<1>6. CASE PlatformExits
  <2>1. TreeTypeOK' /\ TreeSeeded'
    BY <1>6 DEF PlatformExits, TreeInv, TreeTypeOK, TreeSeeded, nodeVars
  <2>2. Reads'
    BY <1>6, ReadsStay DEF PlatformExits, TreeInv
  <2> QED
    BY <2>1, <2>2 DEF TreeInv
<1> QED
  BY <1>2, <1>3, <1>4, <1>5, <1>6

\* The steps of a node.
LEMMA NodeStep ==
    ASSUME TreeInv, NEW n \in Joiner,
           NodeStart(n) \/ NodeLink(n) \/ NodeUnlink(n) \/ ListTree(n) \/ GetFile(n) \/ NodeStops(n)
    PROVE  TreeInv'
<1>1. /\ UNCHANGED <<platform, putting, tree, treeCut>>
      /\ n \in links => platform \in {"join", "up"} /\ Meta("config") \in tree
  BY DEF NodeStart, NodeLink, NodeUnlink, ListTree, GetFile, NodeStops, TreeInv, TreeSeeded
<1>2. TreeSeeded'
  BY <1>1 DEF NodeStart, NodeLink, NodeUnlink, ListTree, GetFile, NodeStops, TreeInv, TreeSeeded
<1>3. CASE NodeStart(n)
  BY <1>1, <1>2, <1>3 DEF NodeStart, TreeInv, TreeTypeOK, Reads
<1>4. CASE NodeLink(n) \/ NodeUnlink(n)
  BY <1>1, <1>2, <1>4 DEF NodeLink, NodeUnlink, nodeVars, TreeInv, TreeTypeOK, Reads
<1>5. CASE ListTree(n)
  <2>1. TreeTypeOK'
    BY <1>1, <1>5 DEF ListTree, TreeInv, TreeTypeOK
  <2>2. reading[n] = 1 /\ found[n] = {} /\ n \in links
    BY <1>5 DEF ListTree, TreeInv, Reads
  <2>3. {TreeOrder[k] : k \in 1..(reading'[n] - 1)} = {}
    BY <1>5, <2>2 DEF ListTree
  <2>4. Reads'
    BY <1>1, <1>5, <2>2, <2>3 DEF ListTree, TreeInv, TreeTypeOK, Reads
  <2> QED
    BY <1>2, <2>1, <2>4 DEF TreeInv
<1>6. CASE GetFile(n)
  <2> DEFINE k == reading[n]
             file == TreeOrder[k]
  <2>1. k \in 1..Len(TreeOrder) /\ Len(TreeOrder) \in Nat \ {0} /\ file \in TreeFiles
    BY TreeOrderIs DEF TreeInv, TreeTypeOK
  <2>2. /\ joiner[n] = "reading" /\ found' = [found EXCEPT ![n] = @ \cup ({file} \cap tree)]
        /\ reading' = [reading EXCEPT ![n] = IF k = Len(TreeOrder) THEN @ ELSE @ + 1]
        /\ joiner' = [joiner EXCEPT ![n] = IF k = Len(TreeOrder) THEN "ready" ELSE @]
        /\ UNCHANGED <<listed, links>>
    BY <1>6 DEF GetFile
  <2>3. TreeTypeOK'
    BY <1>1, <2>1, <2>2 DEF TreeInv, TreeTypeOK
  <2>4. found'[n] = tree \cap {TreeOrder[j] : j \in 1..k}
    <3>1. found[n] = tree \cap {TreeOrder[j] : j \in 1..(k - 1)}
      BY <2>2 DEF TreeInv, Reads
    <3>2. found'[n] = found[n] \cup ({file} \cap tree)
      BY <2>2 DEF TreeInv, TreeTypeOK
    <3>3. {TreeOrder[j] : j \in 1..k} = {TreeOrder[j] : j \in 1..(k - 1)} \cup {file}
      BY <2>1
    <3> QED
      BY <3>1, <3>2, <3>3
  <2>5. k = Len(TreeOrder) => found'[n] = tree
    BY <2>4, TreeOrderIs DEF TreeInv, TreeTypeOK
  <2>6. reading'[n] = k + 1 \/ k = Len(TreeOrder)
    BY <2>2 DEF TreeInv, TreeTypeOK
  <2>7. k # Len(TreeOrder) => found'[n] = tree \cap {TreeOrder[j] : j \in 1..(reading'[n] - 1)}
    BY <2>1, <2>4, <2>6
  <2>8. joiner'[n] = IF k = Len(TreeOrder) THEN "ready" ELSE "reading"
    BY <2>2 DEF TreeInv, TreeTypeOK
  <2>9. \A m \in Joiner \ {n} :
           joiner'[m] = joiner[m] /\ reading'[m] = reading[m] /\ found'[m] = found[m]
    BY <2>2 DEF TreeInv, TreeTypeOK
  <2> HIDE DEF k, file
  <2>10. listed[n] = tree /\ Meta("config") \in tree /\ platform # "seeding"
    BY <2>2 DEF TreeInv, Reads
  <2>11. Reads'
    BY <1>1, <2>2, <2>5, <2>7, <2>8, <2>9, <2>10 DEF TreeInv, Reads
  <2> QED
    BY <1>2, <2>3, <2>11 DEF TreeInv
<1>7. CASE NodeStops(n)
  <2>1. TreeTypeOK'
    BY <1>1, <1>7, TreeOrderIs DEF NodeStops, TreeInv, TreeTypeOK
  <2>2. Reads'
    BY <1>1, <1>7 DEF NodeStops, TreeInv, TreeTypeOK, Reads
  <2> QED
    BY <1>2, <2>1, <2>2 DEF TreeInv
<1> QED
  BY <1>3, <1>4, <1>5, <1>6, <1>7

LEMMA TreeInvStep == TreeInv /\ [TreeNext]_treeVars => TreeInv'
<1>1. TreeInv /\ UNCHANGED treeVars => TreeInv'
  BY DEF treeVars, TreeInv, TreeTypeOK, TreeSeeded, Reads
<1> QED
  BY <1>1, PlatformStep, NodeStep DEF TreeNext

\* The variables keep their shapes.
THEOREM TreeTypeCorrect == TreeSpec => []TreeTypeOK
<1>1. TreeInv => TreeTypeOK
  BY DEF TreeInv
<1> QED
  BY <1>1, TreeInvInit, TreeInvStep, PTL DEF TreeSpec

\* For any number of nodes, kills and restarts: the reads of a node that is ready,
\* however they are cut by the platform's departures, agree with its list, and they
\* bring the whole tree unless seeding was killed after the probe.
THEOREM TreeRead == TreeSpec => []UncutTree
<1>1. TreeInv => UncutTree
  BY DEF TreeInv, TreeSeeded, Reads, UncutTree
<1> QED
  BY <1>1, TreeInvInit, TreeInvStep, PTL DEF TreeSpec

-----------------------------------------------------------------------------
(***************************************************************************)
(* The commit of spl7-phase-2.                                             *)
(***************************************************************************)
\* The version of the drive.
Now == Len(objects)

\* One seed has been committed, and everything it wrote is stored.
OneSeed(log, v) ==
    \E t \in 1..MaxSeeds : /\ log[HeadAt(log, v)].put = Commit(RootTree(t), 0)
                           /\ SeedObjects(t) \subseteq Stored(log, v)

\* Every version so far that has a main has one whole seed.
AllSeeded(log) == \A v \in 1..Len(log) : HeadAt(log, v) # 0 => OneSeed(log, v)

\* The log of the drive: main names an entry that is in it.
Log(log) ==
    /\ log \in Seq({log[k] : k \in 1..Len(log)})
    /\ \A k \in 1..Len(log) : log[k].main \in 0..k

\* What is stored.
Here == Stored(objects, Len(objects))

\* A folder is written whole.
WholeFolder(k, t, S) == ToSet(FolderObjects(FolderOrder[k], t)) \subseteq S

\* Where the seed is among its objects.
SoFar ==
    /\ owner = "seeding" =>
          /\ writing.folder \in 1..Len(FolderOrder)
          /\ writing.object \in 1..Len(FolderObjects(FolderOrder[writing.folder], stamp))
          /\ \A k \in 1..(writing.folder - 1) : WholeFolder(k, stamp, Here)
          /\ \A j \in 1..(writing.object - 1) :
                FolderObjects(FolderOrder[writing.folder], stamp)[j] \in Stored(objects, Now)
    /\ owner = "root" => \A k \in 1..Len(FolderOrder) : WholeFolder(k, stamp, Here)
    /\ owner \in {"commit", "ref"} => SeedObjects(stamp) \subseteq Stored(objects, Now)
    /\ owner = "ref" => Commit(RootTree(stamp), 0) \in Stored(objects, Now)

\* main is written once, and the platform is on the swarm only when it is.
Once ==
    /\ owner \in {"seeding", "root", "commit", "ref"} => MainCommit = 0 /\ stamp \in 1..MaxSeeds
    /\ owner \in {"show", "join", "up", "stopping"} => MainCommit # 0
    /\ ends # {} => owner \in {"join", "up"}
    /\ owner # "fatal"
    /\ Log(objects)
    /\ AllSeeded(objects)

\* What each node has read is what main names.
ReadSoFar ==
    \A n \in Reader :
        /\ reader[n] \in {"off", "joining"} => step[n] = 1 /\ got[n] = {}
        /\ reader[n] \in {"reading", "ready"} => MainCommit # 0
        /\ reader[n] = "reading" => got[n] = UNION {ReadsOf[k] : k \in 1..(step[n] - 1)}
        /\ reader[n] = "ready" => got[n] = UNION {ReadsOf[k] : k \in 1..4}
        /\ reader[n] # "fatal"

\* SeedIsOnce and the shapes say nothing of a seed that is under way; with SoFar they
\* are inductive.
CommitInv == CommitTypeOK /\ SoFar /\ Once /\ ReadSoFar

-----------------------------------------------------------------------------
\* One more element after one, and after two.
LEMMA AfterOne ==
    ASSUME NEW x, NEW z
    PROVE  /\ Len(Append(<<x>>, z)) = 2 /\ DOMAIN Append(<<x>>, z) = 1..2
           /\ ToSet(Append(<<x>>, z)) = {x, z}
<1> DEFINE S == {x, z}
           new == Append(<<x>>, z)
<1>1. <<x>> \in Seq(S) /\ z \in S /\ Len(<<x>>) = 1
  OBVIOUS
<1>2. new \in Seq(S) /\ Len(new) = 2 /\ new[1] = x /\ new[2] = z
  BY <1>1, AppendProperties
<1> HIDE DEF S, new
<1>3. DOMAIN new = 1..2
  BY <1>2, LenProperties
<1>4. ToSet(new) = {x, z}
  BY <1>2, <1>3 DEF ToSet
<1> QED
  BY <1>2, <1>3, <1>4 DEF new

LEMMA AfterTwo ==
    ASSUME NEW x, NEW y, NEW z
    PROVE  /\ Len(Append(<<x, y>>, z)) = 3 /\ DOMAIN Append(<<x, y>>, z) = 1..3
           /\ ToSet(Append(<<x, y>>, z)) = {x, y, z}
<1> DEFINE S == {x, y, z}
           new == Append(<<x, y>>, z)
<1>1. <<x, y>> \in Seq(S) /\ z \in S /\ Len(<<x, y>>) = 2
  OBVIOUS
<1>2. new \in Seq(S) /\ Len(new) = 3 /\ new[1] = x /\ new[2] = y /\ new[3] = z
  BY <1>1, AppendProperties
<1> HIDE DEF S, new
<1>3. DOMAIN new = 1..3
  BY <1>2, LenProperties
<1>4. ToSet(new) = {x, y, z}
  BY <1>2, <1>3 DEF ToSet
<1> QED
  BY <1>2, <1>3, <1>4 DEF new

\* What a folder's objects are.
LEMMA FolderIs ==
    ASSUME NEW f, NEW t
    PROVE  /\ Len(Blobs(f, t)) \in 1..2
           /\ FolderTree(f, t).blobs = Blobs(f, t)
           /\ f # Config => ToSet(Blobs(f, t)) = {MetaBlob(f)}
           /\ f = Config => ToSet(Blobs(f, t)) = {MetaBlob(f), IdentityBlob(t)}
           /\ Len(FolderObjects(f, t)) \in 2..3
           /\ ToSet(FolderObjects(f, t)) = ToSet(Blobs(f, t)) \cup {FolderTree(f, t)}
           /\ DOMAIN FolderObjects(f, t) = 1..Len(FolderObjects(f, t))
<1> DEFINE b == Blobs(f, t)
           e == FolderTree(f, t)
<1>0. FolderTree(f, t).blobs = Blobs(f, t)
  BY DEF FolderTree
<1>1. CASE f = Config
  <2>1. b = <<MetaBlob(f), IdentityBlob(t)>>
    BY <1>1 DEF Blobs
  <2> HIDE DEF b, e
  <2>3. ToSet(b) = {MetaBlob(f), IdentityBlob(t)} /\ Len(b) = 2
    BY <2>1 DEF ToSet
  <2>4. ToSet(Append(b, e)) = {MetaBlob(f), IdentityBlob(t), e} /\ Len(Append(b, e)) = 3
        /\ DOMAIN Append(b, e) = 1..3
    <3> DEFINE x == MetaBlob(f)
               y == IdentityBlob(t)
    <3>1. b = <<x, y>>
      BY <2>1
    <3> HIDE DEF x, y
    <3>2. /\ ToSet(Append(<<x, y>>, e)) = {x, y, e} /\ Len(Append(<<x, y>>, e)) = 3
          /\ DOMAIN Append(<<x, y>>, e) = 1..3
      BY AfterTwo
    <3> QED
      BY <3>1, <3>2 DEF x, y
  <2> QED
    BY <1>0, <1>1, <2>3, <2>4 DEF FolderObjects, b, e
<1>2. CASE f # Config
  <2>1. b = <<MetaBlob(f)>>
    BY <1>2 DEF Blobs
  <2> HIDE DEF b, e
  <2>3. ToSet(b) = {MetaBlob(f)} /\ Len(b) = 1
    BY <2>1 DEF ToSet
  <2>4. ToSet(Append(b, e)) = {MetaBlob(f), e} /\ Len(Append(b, e)) = 2
        /\ DOMAIN Append(b, e) = 1..2
    BY <2>1, AfterOne
  <2> QED
    BY <1>0, <1>2, <2>3, <2>4 DEF FolderObjects, b, e
<1> QED
  BY <1>1, <1>2

\* The folders as a set and as a sequence.
LEMMA FoldersAre ==
    /\ Len(FolderOrder) \in Nat \ {0}
    /\ ToSet(FolderOrder) = {FolderOrder[k] : k \in 1..Len(FolderOrder)}
    /\ Config \in ToSet(FolderOrder) /\ Packages \in ToSet(FolderOrder)
    /\ MaxSeeds \in Nat
  BY CommitAssumption, LenProperties DEF ToSet

\* What one seed writes holds what the reads of a node ask for.
LEMMA SeedHas ==
    ASSUME NEW t, NEW f \in ToSet(FolderOrder)
    PROVE  /\ RootTree(t) \in SeedObjects(t)
           /\ FolderTree(f, t) \in SeedObjects(t)
           /\ MetaBlob(f) \in SeedObjects(t)
           /\ IdentityBlob(t) \in SeedObjects(t)
<1>1. \A g \in ToSet(FolderOrder) : ToSet(FolderObjects(g, t)) \subseteq SeedObjects(t)
  BY DEF SeedObjects
<1>2. MetaBlob(f) \in ToSet(FolderObjects(f, t)) /\ FolderTree(f, t) \in ToSet(FolderObjects(f, t))
  BY FolderIs
<1>3. IdentityBlob(t) \in ToSet(FolderObjects(Config, t))
  BY FolderIs
<1>4. RootTree(t) \in SeedObjects(t)
  BY DEF SeedObjects
<1> QED
  BY <1>1, <1>2, <1>3, <1>4, FoldersAre

\* A path leads to the tree of its folder.
LEMMA TreeOfIs ==
    ASSUME NEW t, MainTree = RootTree(t), NEW f \in ToSet(FolderOrder)
    PROVE  TreeOf(f) = FolderTree(f, t)
<1>1. ToSet(MainTree.trees) = {FolderTree(g, t) : g \in ToSet(FolderOrder)}
  <2> DEFINE trees == [k \in DOMAIN FolderOrder |-> FolderTree(FolderOrder[k], t)]
  <2>1. MainTree.trees = trees
    BY DEF RootTree
  <2> QED
    BY <2>1, FoldersAre DEF ToSet
<1>2. MetaBlob(f) \in ToSet(FolderTree(f, t).blobs)
  BY FolderIs
<1>3. \A g : MetaBlob(f) \in ToSet(FolderTree(g, t).blobs) => g = f
  <2> TAKE g
  <2>1. ToSet(FolderTree(g, t).blobs) \subseteq {MetaBlob(g), IdentityBlob(t)}
    BY FolderIs
  <2>2. MetaBlob(f) # IdentityBlob(t) /\ (MetaBlob(f) = MetaBlob(g) => f = g)
    BY DEF MetaBlob, IdentityBlob
  <2> QED
    BY <2>1, <2>2
<1> HIDE DEF MainTree
<1>4. \E tr \in ToSet(MainTree.trees) : MetaBlob(f) \in ToSet(tr.blobs)
  BY <1>1, <1>2
<1>5. /\ TreeOf(f) \in ToSet(MainTree.trees)
      /\ MetaBlob(f) \in ToSet(TreeOf(f).blobs)
  BY <1>4 DEF TreeOf
<1> QED
  BY <1>1, <1>3, <1>5

\* No read fails once main is there.
LEMMA ReadsBring ==
    ASSUME Once, MainCommit # 0
    PROVE  \A k \in 1..4 : Brings(k)
<1>1. Now \in Nat /\ Now # 0
  BY LenProperties DEF Once, Log, Now, MainCommit, HeadAt
<1>2. HeadAt(objects, Now) # 0 /\ Now \in 1..Now
  BY <1>1 DEF MainCommit, Now
<1>3. PICK t \in 1..MaxSeeds : /\ objects[MainCommit].put = Commit(RootTree(t), 0)
                               /\ SeedObjects(t) \subseteq Stored(objects, Now)
  BY <1>2 DEF Once, AllSeeded, OneSeed, MainCommit, Now
<1>4. MainTree = RootTree(t)
  BY <1>3 DEF MainTree, Commit
<1>5. TreeOf(Config) = FolderTree(Config, t) /\ TreeOf(Packages) = FolderTree(Packages, t)
  BY <1>4, TreeOfIs, FoldersAre
<1>6. {b \in ToSet(FolderTree(Config, t).blobs) : b.type = "identity"} = {IdentityBlob(t)}
  <2>1. ToSet(FolderTree(Config, t).blobs) = {MetaBlob(Config), IdentityBlob(t)}
    BY FolderIs
  <2>2. MetaBlob(Config).type = "meta" /\ IdentityBlob(t).type = "identity"
    BY DEF MetaBlob, IdentityBlob
  <2> QED
    BY <2>1, <2>2
<1> DEFINE a1 == {RootTree(t)}
           a2 == {FolderTree(Config, t)}
           a3 == {IdentityBlob(t)}
           a4 == {FolderTree(Packages, t), MetaBlob(Packages)}
<1>7. ReadsOf = <<a1, a2, a3, a4>>
  BY <1>4, <1>5, <1>6 DEF ReadsOf
<1>8. \A o \in a1 \cup a2 \cup a3 \cup a4 : IsStored(o)
  BY <1>3, SeedHas, FoldersAre DEF IsStored, Now
<1>9. a1 # {} /\ a2 # {} /\ a3 # {} /\ a4 # {}
  OBVIOUS
<1> HIDE DEF a1, a2, a3, a4
<1>10. ReadsOf[1] = a1 /\ ReadsOf[2] = a2 /\ ReadsOf[3] = a3 /\ ReadsOf[4] = a4
  BY <1>7
<1> QED
  BY <1>8, <1>9, <1>10 DEF Brings

-----------------------------------------------------------------------------
\* One entry more at the end of the log.
Grew(log, new, o, c) ==
    /\ Log(new) /\ Len(log) \in Nat /\ Len(new) = Len(log) + 1
    /\ \A k \in 1..Len(log) : new[k] = log[k]
    /\ \A v \in 0..Len(log) : Stored(new, v) = Stored(log, v) /\ HeadAt(new, v) = HeadAt(log, v)
    /\ Stored(new, Len(new)) = Stored(log, Len(log)) \cup {o}
    /\ HeadAt(new, Len(new)) = c

LEMMA Grows ==
    ASSUME NEW log, Log(log), NEW o, NEW c, c \in 0..(Len(log) + 1)
    PROVE  Grew(log, Append(log, [put |-> o, main |-> c]), o, c)
<1> DEFINE e == [put |-> o, main |-> c]
           new == Append(log, e)
           L == Len(log)
           S == {log[k] : k \in 1..Len(log)} \cup {e}
<1>1. log \in Seq(S) /\ e \in S
  BY SeqMonotonic DEF Log
<1>2. L \in Nat
  BY <1>1, LenProperties
<1>3. new \in Seq(S) /\ Len(new) = L + 1 /\ (\A k \in 1..L : new[k] = log[k]) /\ new[L + 1] = e
  BY <1>1, AppendProperties
<1>4. e.put = o /\ e.main = c
  OBVIOUS
<1> HIDE DEF new, e
<1>5. S = {new[k] : k \in 1..Len(new)}
  BY <1>2, <1>3
<1> HIDE DEF S
<1>6. \A k \in 1..L : log[k].main \in 0..k
  BY DEF Log
<1> HIDE DEF L
<1>7. \A k \in 1..Len(new) : new[k].main \in 0..k
  BY <1>2, <1>3, <1>4, <1>6 DEF L
<1>8. Log(new)
  BY <1>3, <1>5, <1>7 DEF Log
<1>9. \A v \in 0..L : Stored(new, v) = Stored(log, v)
  BY <1>2, <1>3 DEF Stored
<1>10. \A v \in 0..L : HeadAt(new, v) = HeadAt(log, v)
  BY <1>2, <1>3 DEF HeadAt
<1>11. Stored(new, L + 1) = Stored(log, L) \cup {o}
  BY <1>2, <1>3, <1>4 DEF Stored
<1>12. HeadAt(new, L + 1) = c
  BY <1>2, <1>3, <1>4 DEF HeadAt
<1>13. Grew(log, new, o, c)
  BY <1>2, <1>3, <1>8, <1>9, <1>10, <1>11, <1>12 DEF Grew, L
<1> QED
  BY <1>13 DEF new, e

\* What writeBlob and writeTree do while there is no main.
LEMMA ObjectPut ==
    ASSUME Log(objects), AllSeeded(objects), MainCommit = 0, NEW o,
           objects' = WriteObject(objects, o)
    PROVE  /\ Log(objects') /\ AllSeeded(objects') /\ HeadAt(objects', Len(objects')) = 0
           /\ Stored(objects, Now) \cup {o} \subseteq Stored(objects', Len(objects'))
<1>1. CASE o \in Stored(objects, Now)
  <2>1. objects' = objects
    BY <1>1 DEF WriteObject, Now
  <2> QED
    BY <1>1, <2>1 DEF Now, MainCommit
<1>2. CASE o \notin Stored(objects, Now)
  <2> DEFINE new == Append(objects, [put |-> o, main |-> MainCommit])
  <2>1. objects' = new
    BY <1>2 DEF WriteObject, Now, MainCommit
  <2>2. Now \in Nat /\ MainCommit \in 0..(Len(objects) + 1)
    BY LenProperties DEF Log, Now, MainCommit, HeadAt
  <2>3. Grew(objects, new, o, MainCommit)
    BY <2>2, Grows
  <2> HIDE DEF new
  <2>4. \A v \in 1..Now : HeadAt(objects, v) # 0 => HeadAt(objects, v) \in 1..Now
    BY <2>2 DEF Log, HeadAt, Now
  <2>5. AllSeeded(new)
    BY <2>2, <2>3, <2>4 DEF Grew, AllSeeded, OneSeed, Now
  <2> QED
    BY <2>1, <2>2, <2>3, <2>5 DEF Grew, Now, MainCommit
<1> QED
  BY <1>1, <1>2

\* What writeRef does the first time.
LEMMA RefPut ==
    ASSUME Log(objects), AllSeeded(objects), NEW t \in 1..MaxSeeds, NEW c \in DOMAIN objects,
           objects[c].put = Commit(RootTree(t), 0), SeedObjects(t) \subseteq Stored(objects, Now),
           objects' = WriteRef(objects, c)
    PROVE  /\ Log(objects') /\ AllSeeded(objects') /\ HeadAt(objects', Len(objects')) # 0
           /\ Stored(objects, Now) \subseteq Stored(objects', Len(objects'))
<1> DEFINE new == Append(objects, [put |-> Ref(c), main |-> c])
<1>1. objects' = new
  BY DEF WriteRef
<1>2. Now \in Nat /\ c \in 1..Now
  BY LenProperties DEF Log, Now
<1>3. Grew(objects, new, Ref(c), c)
  <2>1. c \in 0..(Len(objects) + 1)
    BY <1>2 DEF Now
  <2> QED
    BY <2>1, Grows
<1> HIDE DEF new
<1>4. \A v \in 1..Now : HeadAt(objects, v) # 0 => HeadAt(objects, v) \in 1..Now
  BY <1>2 DEF Log, HeadAt, Now
<1>5. OneSeed(new, Now + 1)
  BY <1>2, <1>3 DEF OneSeed, Grew, Now
<1>6. AllSeeded(new)
  BY <1>2, <1>3, <1>4, <1>5 DEF Grew, AllSeeded, OneSeed, Now
<1> QED
  BY <1>1, <1>2, <1>3, <1>6 DEF Grew, Now, MainCommit

-----------------------------------------------------------------------------
LEMMA CommitInvInit == CommitInit => CommitInv
<1> SUFFICES ASSUME CommitInit PROVE CommitInv
  OBVIOUS
<1>1. objects = <<>> /\ Now = 0 /\ MainCommit = 0
  BY DEF CommitInit, Now, MainCommit, HeadAt
<1>2. FirstObject(1) \in [folder : 1..(Len(FolderOrder) + 1), object : 1..3]
  BY FoldersAre DEF FirstObject
<1>3. CommitTypeOK
  BY <1>1, <1>2, FoldersAre DEF CommitInit, CommitTypeOK, Now
<1>4. Log(objects) /\ AllSeeded(objects)
  BY <1>1 DEF Log, AllSeeded, Now
<1> QED
  BY <1>1, <1>3, <1>4 DEF CommitInit, CommitInv, SoFar, Once, ReadSoFar

\* While there is no main nobody has read, and what is put leaves it so.
LEMMA NobodyReads ==
    ASSUME CommitInv, MainCommit = 0, UNCHANGED readerVars
    PROVE  /\ ReadSoFar'
           /\ DOMAIN got' = Reader /\ \A n \in Reader : got'[n] = {}
  BY DEF CommitInv, CommitTypeOK, ReadSoFar, readerVars

\* A step of the seed that keeps what is stored and the shape of the log.
LEMMA SeedKeeps ==
    ASSUME CommitInv, MainCommit = 0, UNCHANGED <<readerVars, ends>>, ends = {},
           Log(objects'), AllSeeded(objects'),
           owner' \in {"seeding", "root", "commit", "ref", "show"},
           stamp' \in 1..MaxSeeds,
           writing' \in [folder : 1..(Len(FolderOrder) + 1), object : 1..3],
           owner' = "show" <=> HeadAt(objects', Len(objects')) # 0,
           SoFar'
    PROVE  CommitInv'
<1>1. MainCommit' = HeadAt(objects', Len(objects'))
  BY DEF MainCommit
<1>2. \A k \in 1..Len(objects') : objects'[k].main \in 0..k
  BY DEF Log
<1>3. CommitTypeOK'
  BY <1>2, NobodyReads DEF CommitInv, CommitTypeOK, readerVars
<1>4. Once'
  BY <1>1 DEF CommitInv, Once
<1> QED
  BY <1>3, <1>4, NobodyReads DEF CommitInv

LEMMA SeedObjectStep == CommitInv /\ SeedObject => CommitInv'
<1> SUFFICES ASSUME CommitInv, SeedObject PROVE CommitInv'
  OBVIOUS
<1> DEFINE K == writing.folder
           J == writing.object
           N == Len(FolderOrder)
           these == FolderObjects(FolderOrder[K], stamp)
           L == Len(these)
           last == J = L
           o == these[J]
<1>1. /\ owner = "seeding" /\ objects' = WriteObject(objects, o)
      /\ writing' = IF last THEN FirstObject(K + 1) ELSE [writing EXCEPT !.object = @ + 1]
      /\ owner' = IF last /\ K = N THEN "root" ELSE owner
      /\ UNCHANGED <<stamp, readerVars, ends>>
  BY DEF SeedObject
<1>2. /\ writing \in [folder : 1..(N + 1), object : 1..3]
      /\ K \in 1..N /\ J \in 1..L /\ L \in 2..3 /\ N \in Nat \ {0}
  BY <1>1, FolderIs, FoldersAre DEF CommitInv, CommitTypeOK, SoFar
<1>3. /\ \A k \in 1..(K - 1) : WholeFolder(k, stamp, Here)
      /\ \A j \in 1..(J - 1) : these[j] \in Stored(objects, Now)
      /\ MainCommit = 0 /\ stamp \in 1..MaxSeeds /\ ends = {} /\ Log(objects) /\ AllSeeded(objects)
  BY <1>1 DEF CommitInv, SoFar, Once
<1>4. /\ Log(objects') /\ AllSeeded(objects') /\ HeadAt(objects', Len(objects')) = 0
      /\ Stored(objects, Now) \cup {o} \subseteq Stored(objects', Len(objects'))
  BY <1>1, <1>3, ObjectPut
<1>5. \A j \in 1..J : these[j] \in Stored(objects', Len(objects'))
  BY <1>2, <1>3, <1>4
<1>6. ToSet(these) = {these[j] : j \in 1..L}
  BY FolderIs DEF ToSet
<1>7. \A k \in 1..(K - 1) : WholeFolder(k, stamp, Here')
  BY <1>1, <1>3, <1>4 DEF WholeFolder, Here, Now
<1>8. last => WholeFolder(K, stamp, Here')
  <2>1. last => ToSet(these) \subseteq Stored(objects', Len(objects'))
    BY <1>5, <1>6
  <2> QED
    BY <1>1, <2>1 DEF WholeFolder, Here, Now
<1>9. last => \A k \in 1..K : WholeFolder(k, stamp, Here')
  BY <1>2, <1>7, <1>8
<1> HIDE DEF K, J, N, these, L, last, o
<1>10. CASE ~ last
  <2>1. /\ writing' \in [folder : 1..(N + 1), object : 1..3]
        /\ writing'.folder = K /\ writing'.object = J + 1 /\ J < L
    BY <1>1, <1>2, <1>10 DEF last, K, J
  <2>2. owner' = "seeding" /\ stamp' = stamp
    BY <1>1, <1>10
  <2>3. these = FolderObjects(FolderOrder[writing'.folder], stamp')
    BY <2>1, <2>2 DEF these
  <2>4. SoFar'
    BY <1>2, <1>5, <1>7, <2>1, <2>2, <2>3 DEF SoFar, N, L, Now
  <2> QED
    BY <1>1, <1>3, <1>4, <2>1, <2>2, <2>4, SeedKeeps DEF N
<1>11. CASE last /\ K # N
  <2>1. /\ writing' \in [folder : 1..(N + 1), object : 1..3]
        /\ writing'.folder = K + 1 /\ writing'.object = 1
    BY <1>1, <1>2, <1>11 DEF FirstObject
  <2>2. owner' = "seeding" /\ stamp' = stamp
    BY <1>1, <1>11
  <2>3. 1 \in 1..Len(FolderObjects(FolderOrder[writing'.folder], stamp'))
    <3> DEFINE M == Len(FolderObjects(FolderOrder[writing'.folder], stamp'))
    <3>1. M \in 2..3
      BY FolderIs
    <3> HIDE DEF M
    <3>2. 1 \in 1..M
      BY <3>1
    <3> QED
      BY <3>2 DEF M
  <2>4. /\ writing'.folder \in 1..N /\ writing'.folder - 1 = K
        /\ 1..(writing'.object - 1) = {}
    BY <1>2, <1>11, <2>1
  <2>5. \A k \in 1..(writing'.folder - 1) : WholeFolder(k, stamp', Here')
    BY <1>9, <1>11, <2>2, <2>4
  <2>6. SoFar'
    BY <2>1, <2>2, <2>3, <2>4, <2>5 DEF SoFar, N
  <2> QED
    BY <1>1, <1>3, <1>4, <2>1, <2>2, <2>6, SeedKeeps DEF N
<1>12. CASE last /\ K = N
  <2>1. writing' \in [folder : 1..(N + 1), object : 1..3]
    BY <1>1, <1>2, <1>12 DEF FirstObject
  <2>2. owner' = "root" /\ stamp' = stamp
    BY <1>1, <1>12
  <2>3. SoFar'
    BY <1>9, <1>12, <2>2 DEF SoFar, N
  <2> QED
    BY <1>1, <1>3, <1>4, <2>1, <2>2, <2>3, SeedKeeps DEF N
<1> QED
  BY <1>10, <1>11, <1>12

LEMMA SeedRootStep == CommitInv /\ SeedRoot => CommitInv'
<1> SUFFICES ASSUME CommitInv, SeedRoot PROVE CommitInv'
  OBVIOUS
<1>1. /\ owner = "root" /\ objects' = WriteObject(objects, RootTree(stamp)) /\ owner' = "commit"
      /\ UNCHANGED <<stamp, writing, readerVars, ends>>
  BY DEF SeedRoot
<1>2. /\ \A k \in 1..Len(FolderOrder) : WholeFolder(k, stamp, Here)
      /\ MainCommit = 0 /\ stamp \in 1..MaxSeeds /\ ends = {} /\ Log(objects) /\ AllSeeded(objects)
      /\ writing \in [folder : 1..(Len(FolderOrder) + 1), object : 1..3]
  BY <1>1 DEF CommitInv, CommitTypeOK, SoFar, Once
<1>3. /\ Log(objects') /\ AllSeeded(objects') /\ HeadAt(objects', Len(objects')) = 0
      /\ Stored(objects, Now) \cup {RootTree(stamp)} \subseteq Stored(objects', Len(objects'))
  BY <1>1, <1>2, ObjectPut
<1>4. \A f \in ToSet(FolderOrder) : ToSet(FolderObjects(f, stamp)) \subseteq Stored(objects, Now)
  BY <1>2, FoldersAre DEF WholeFolder, Here, Now
<1>5. SeedObjects(stamp) \subseteq Stored(objects', Len(objects'))
  BY <1>3, <1>4 DEF SeedObjects
<1>6. SoFar'
  BY <1>1, <1>5 DEF SoFar, Now
<1> QED
  BY <1>1, <1>2, <1>3, <1>6, SeedKeeps

LEMMA SeedCommitStep == CommitInv /\ SeedCommit => CommitInv'
<1> SUFFICES ASSUME CommitInv, SeedCommit PROVE CommitInv'
  OBVIOUS
<1>1. /\ owner = "commit" /\ objects' = WriteObject(objects, Commit(RootTree(stamp), MainCommit))
      /\ owner' = "ref" /\ UNCHANGED <<stamp, writing, readerVars, ends>>
  BY DEF SeedCommit
<1>2. /\ SeedObjects(stamp) \subseteq Stored(objects, Now)
      /\ MainCommit = 0 /\ stamp \in 1..MaxSeeds /\ ends = {} /\ Log(objects) /\ AllSeeded(objects)
      /\ writing \in [folder : 1..(Len(FolderOrder) + 1), object : 1..3]
  BY <1>1 DEF CommitInv, CommitTypeOK, SoFar, Once
<1>3. /\ Log(objects') /\ AllSeeded(objects') /\ HeadAt(objects', Len(objects')) = 0
      /\ Stored(objects, Now) \cup {Commit(RootTree(stamp), 0)} \subseteq Stored(objects', Len(objects'))
  BY <1>1, <1>2, ObjectPut
<1>4. SoFar'
  BY <1>1, <1>2, <1>3 DEF SoFar, Now
<1> QED
  BY <1>1, <1>2, <1>3, <1>4, SeedKeeps

LEMMA SeedRefStep == CommitInv /\ SeedRef => CommitInv'
<1> SUFFICES ASSUME CommitInv, SeedRef PROVE CommitInv'
  OBVIOUS
<1>1. PICK c \in DOMAIN objects :
          objects[c].put = Commit(RootTree(stamp), MainCommit) /\ objects' = WriteRef(objects, c)
  BY DEF SeedRef
<1>2. owner = "ref" /\ owner' = "show" /\ UNCHANGED <<stamp, writing, readerVars, ends>>
  BY DEF SeedRef
<1>3. /\ SeedObjects(stamp) \subseteq Stored(objects, Now)
      /\ MainCommit = 0 /\ stamp \in 1..MaxSeeds /\ ends = {} /\ Log(objects) /\ AllSeeded(objects)
      /\ writing \in [folder : 1..(Len(FolderOrder) + 1), object : 1..3]
  BY <1>2 DEF CommitInv, CommitTypeOK, SoFar, Once
<1>4. Log(objects') /\ AllSeeded(objects') /\ HeadAt(objects', Len(objects')) # 0
  BY <1>1, <1>3, RefPut DEF MainCommit
<1>5. SoFar'
  BY <1>2 DEF SoFar
<1> QED
  BY <1>2, <1>3, <1>4, <1>5, SeedKeeps

-----------------------------------------------------------------------------
\* The steps that leave the drive as it is.
LEMMA DriveStays ==
    ASSUME CommitInv, UNCHANGED objects
    PROVE  /\ MainCommit' = MainCommit /\ ReadsOf' = ReadsOf
           /\ Log(objects)' /\ AllSeeded(objects)' /\ Here' = Here
           /\ \A k \in 1..Len(objects') : objects'[k].main \in 0..k
           /\ \A o : IsStored(o)' <=> IsStored(o)
<1>1. MainCommit' = MainCommit
  BY DEF MainCommit
<1>2. MainTree' = MainTree
  BY <1>1 DEF MainTree
<1>3. TreeOf(Config)' = TreeOf(Config) /\ TreeOf(Packages)' = TreeOf(Packages)
  BY <1>2 DEF TreeOf
<1>4. ReadsOf' = ReadsOf
  BY <1>2, <1>3 DEF ReadsOf
<1>5. \A o : IsStored(o)' <=> IsStored(o)
  BY DEF IsStored
<1> QED
  BY <1>1, <1>4, <1>5 DEF CommitInv, CommitTypeOK, Once, Log, AllSeeded, OneSeed, Here

LEMMA OwnerStep ==
    ASSUME CommitInv, OwnerBoots \/ OwnerShows \/ OwnerServes \/ OwnerStops \/ OwnerExits
    PROVE  CommitInv'
<1>1. UNCHANGED <<objects, readerVars>> /\ ends' \subseteq ends
  BY DEF OwnerBoots, OwnerShows, OwnerServes, OwnerStops, OwnerExits
<1>2. ReadSoFar'
  BY <1>1, DriveStays DEF CommitInv, ReadSoFar, readerVars
<1>3. FirstObject(1) \in [folder : 1..(Len(FolderOrder) + 1), object : 1..3]
  BY FoldersAre DEF FirstObject
<1>4. CommitTypeOK'
  <2>1. /\ \A k \in 1..Len(objects') : objects'[k].main \in 0..k
        /\ DOMAIN got' = Reader /\ \A n \in Reader : \A o \in got'[n] : IsStored(o)'
    BY <1>1, DriveStays DEF CommitInv, CommitTypeOK, readerVars
  <2>2. stamp' \in 0..MaxSeeds
    BY FoldersAre DEF OwnerBoots, OwnerShows, OwnerServes, OwnerStops, OwnerExits, CommitInv, CommitTypeOK
  <2>3. writing' \in [folder : 1..(Len(FolderOrder) + 1), object : 1..3]
    BY <1>3 DEF OwnerBoots, OwnerShows, OwnerServes, OwnerStops, OwnerExits, CommitInv, CommitTypeOK
  <2>4. owner' \in {"down", "seeding", "root", "commit", "ref", "show", "join", "up", "stopping", "fatal"}
    BY DEF OwnerBoots, OwnerShows, OwnerServes, OwnerStops, OwnerExits
  <2> QED
    BY <1>1, <2>1, <2>2, <2>3, <2>4 DEF CommitInv, CommitTypeOK, readerVars
<1>5. CASE OwnerBoots
  <2>1. CASE MainCommit # 0
    <3>1. owner' = "show" /\ ends' = {}
      BY <1>5, <2>1 DEF OwnerBoots, CommitInv, Once
    <3> QED
      BY <1>1, <1>2, <1>4, <2>1, <3>1, DriveStays DEF CommitInv, Once, SoFar
  <2>2. CASE MainCommit = 0
    <3>1. /\ owner' = "seeding" /\ ends' = {} /\ stamp' = stamp + 1 /\ stamp < MaxSeeds
          /\ writing' = FirstObject(1)
      BY <1>5, <2>2 DEF OwnerBoots, CommitInv, Once
    <3>2. stamp' \in 1..MaxSeeds
      BY <3>1, FoldersAre DEF CommitInv, CommitTypeOK
    <3>3. writing'.folder = 1 /\ writing'.object = 1
      BY <3>1 DEF FirstObject
    <3>4. /\ 1 \in 1..Len(FolderOrder)
          /\ 1 \in 1..Len(FolderObjects(FolderOrder[writing'.folder], stamp'))
      <4> DEFINE L == Len(FolderObjects(FolderOrder[writing'.folder], stamp'))
      <4>1. L \in 2..3
        BY FolderIs
      <4> HIDE DEF L
      <4>2. 1 \in 1..L /\ 1 \in 1..Len(FolderOrder)
        BY <4>1, FoldersAre
      <4> QED
        BY <4>2 DEF L
    <3>5. 1..(writing'.folder - 1) = {} /\ 1..(writing'.object - 1) = {}
      BY <3>3
    <3>6. SoFar'
      BY <3>1, <3>3, <3>4, <3>5 DEF SoFar
    <3> QED
      BY <1>1, <1>2, <1>4, <2>2, <3>1, <3>2, <3>6, DriveStays DEF CommitInv, Once
  <2> QED
    BY <2>1, <2>2
<1>6. CASE OwnerShows
  <2>1. MainCommit # 0 /\ Once /\ owner = "show"
    BY <1>6 DEF OwnerShows, CommitInv, Once
  <2>2. owner' = "join" /\ ends' = {}
    BY <1>6, <2>1, ReadsBring DEF OwnerShows, Once
  <2> QED
    BY <1>1, <1>2, <1>4, <2>1, <2>2, DriveStays DEF CommitInv, Once, SoFar
<1>7. CASE OwnerServes \/ OwnerStops \/ OwnerExits
  <2>1. owner' \in {"up", "stopping", "down"} /\ (owner' # "down" => MainCommit # 0)
    BY <1>7 DEF OwnerServes, OwnerStops, OwnerExits, CommitInv, Once
  <2>2. ends' # {} => owner' = "up"
    BY <1>7 DEF OwnerServes, OwnerStops, OwnerExits
  <2> QED
    BY <1>1, <1>2, <1>4, <2>1, <2>2, DriveStays DEF CommitInv, Once, SoFar
<1> QED
  BY <1>5, <1>6, <1>7

LEMMA ReaderStep ==
    ASSUME CommitInv, NEW n \in Reader,
           ReaderStarts(n) \/ ReaderLinks(n) \/ ReaderUnlinks(n)
              \/ ReaderUpdates(n) \/ ReadNext(n) \/ ReaderStops(n)
    PROVE  CommitInv'
<1>1. UNCHANGED ownerVars
  BY DEF ReaderStarts, ReaderLinks, ReaderUnlinks, ReaderUpdates, ReadNext, ReaderStops
<1>2. UNCHANGED <<owner, stamp, writing, objects>>
  BY <1>1 DEF ownerVars
<1>3. SoFar'
  BY <1>2, DriveStays DEF CommitInv, SoFar, Now
<1>4. Once'
  <2>1. ends' # {} => owner \in {"join", "up"}
    BY DEF ReaderStarts, ReaderLinks, ReaderUnlinks, ReaderUpdates, ReadNext, ReaderStops, CommitInv, Once
  <2> QED
    BY <1>2, <2>1, DriveStays DEF CommitInv, Once
<1>5. n \in ends => MainCommit # 0
  BY DEF CommitInv, Once
<1>6. ASSUME reader' \in [Reader -> {"off", "joining", "reading", "ready", "fatal"}],
             step' \in [Reader -> 1..4],
             DOMAIN got' = Reader, \A m \in Reader : \A o \in got'[m] : IsStored(o),
             ends' \subseteq Reader
      PROVE  CommitTypeOK'
  <2>1. \A k \in 1..Len(objects') : objects'[k].main \in 0..k
    BY <1>2, DriveStays
  <2>2. \A m \in Reader : \A o \in got'[m] : IsStored(o)'
    BY <1>2, <1>6, DriveStays
  <2> QED
    BY <1>2, <1>6, <2>1, <2>2 DEF CommitInv, CommitTypeOK
<1>7. CASE ReaderStarts(n) \/ ReaderLinks(n) \/ ReaderUnlinks(n) \/ ReaderStops(n)
  <2>1. CommitTypeOK'
    <3>1. reader' \in [Reader -> {"off", "joining", "reading", "ready", "fatal"}]
      BY <1>7 DEF ReaderStarts, ReaderLinks, ReaderUnlinks, ReaderStops, readerVars, CommitInv, CommitTypeOK
    <3>2. step' \in [Reader -> 1..4] /\ ends' \subseteq Reader
      BY <1>7 DEF ReaderStarts, ReaderLinks, ReaderUnlinks, ReaderStops, readerVars, CommitInv, CommitTypeOK
    <3>3. DOMAIN got' = Reader /\ \A m \in Reader : \A o \in got'[m] : IsStored(o)
      BY <1>7 DEF ReaderStarts, ReaderLinks, ReaderUnlinks, ReaderStops, readerVars, CommitInv, CommitTypeOK
    <3> QED
      BY <1>6, <3>1, <3>2, <3>3
  <2>2. \A m \in Reader :
            \/ reader'[m] = reader[m] /\ step'[m] = step[m] /\ got'[m] = got[m]
            \/ reader'[m] \in {"off", "joining"} /\ step'[m] = 1 /\ got'[m] = {}
    BY <1>7 DEF ReaderStarts, ReaderLinks, ReaderUnlinks, ReaderStops, readerVars, CommitInv, CommitTypeOK,
                ReadSoFar
  <2>3. ReadSoFar'
    BY <1>2, <2>2, DriveStays DEF CommitInv, ReadSoFar
  <2> QED
    BY <1>3, <1>4, <2>1, <2>3 DEF CommitInv
<1>8. CASE ReaderUpdates(n)
  <2>1. reader[n] = "joining" /\ n \in ends /\ reader' = [reader EXCEPT ![n] = "reading"]
        /\ UNCHANGED <<step, got, ends>>
    BY <1>8 DEF ReaderUpdates
  <2>2. CommitTypeOK'
    BY <1>6, <2>1 DEF CommitInv, CommitTypeOK
  <2>3. got[n] = UNION {ReadsOf[k] : k \in 1..(step[n] - 1)}
    <3>1. step[n] = 1 /\ got[n] = {}
      BY <2>1 DEF CommitInv, ReadSoFar
    <3> QED
      BY <3>1
  <2>4. ReadSoFar'
    BY <1>2, <1>5, <2>1, <2>3, DriveStays DEF CommitInv, CommitTypeOK, ReadSoFar
  <2> QED
    BY <1>3, <1>4, <2>2, <2>4 DEF CommitInv
<1>9. CASE ReadNext(n)
  <2> DEFINE k == step[n]
  <2>1. reader[n] = "reading" /\ n \in ends /\ k \in 1..4 /\ UNCHANGED ends
    BY <1>9 DEF ReadNext, CommitInv, CommitTypeOK
  <2>2. \A j \in 1..4 : Brings(j)
    BY <1>5, <2>1, ReadsBring DEF CommitInv
  <2>3. /\ got' = [got EXCEPT ![n] = @ \cup ReadsOf[k]]
        /\ step' = [step EXCEPT ![n] = IF k = 4 THEN @ ELSE @ + 1]
        /\ reader' = [reader EXCEPT ![n] = IF k = 4 THEN "ready" ELSE @]
    BY <1>9, <2>1, <2>2 DEF ReadNext
  <2>4. got[n] = UNION {ReadsOf[j] : j \in 1..(k - 1)}
    BY <2>1 DEF CommitInv, ReadSoFar
  <2>5. got'[n] = UNION {ReadsOf[j] : j \in 1..k}
    <3>1. got'[n] = got[n] \cup ReadsOf[k]
      BY <2>3 DEF CommitInv, CommitTypeOK
    <3>2. 1..k = 1..(k - 1) \cup {k}
      BY <2>1
    <3> HIDE DEF k
    <3>3. UNION {ReadsOf[j] : j \in 1..k} = (UNION {ReadsOf[j] : j \in 1..(k - 1)}) \cup ReadsOf[k]
      BY <3>2
    <3> QED
      BY <2>4, <3>1, <3>3
  <2>6. \A o \in ReadsOf[k] : IsStored(o)
    BY <2>1, <2>2 DEF Brings
  <2>7. CommitTypeOK'
    <3>1. reader' \in [Reader -> {"off", "joining", "reading", "ready", "fatal"}]
      BY <2>3 DEF CommitInv, CommitTypeOK
    <3>2. step' \in [Reader -> 1..4] /\ ends' \subseteq Reader
      BY <2>1, <2>3 DEF CommitInv, CommitTypeOK
    <3>3. DOMAIN got' = Reader /\ \A m \in Reader : \A o \in got'[m] : IsStored(o)
      BY <2>3, <2>6 DEF CommitInv, CommitTypeOK
    <3> QED
      BY <1>6, <3>1, <3>2, <3>3
  <2>8. \A m \in Reader \ {n} : reader'[m] = reader[m] /\ step'[m] = step[m] /\ got'[m] = got[m]
    BY <2>3 DEF CommitInv, CommitTypeOK
  <2>9. /\ k = 4 => reader'[n] = "ready"
        /\ k # 4 => reader'[n] = "reading" /\ step'[n] - 1 = k
    BY <2>1, <2>3 DEF CommitInv, CommitTypeOK
  <2>10. ReadSoFar'
    <3>1. /\ reader'[n] \in {"reading", "ready"}
          /\ reader'[n] = "reading" => got'[n] = UNION {ReadsOf[j] : j \in 1..(step'[n] - 1)}
          /\ reader'[n] = "ready" => got'[n] = UNION {ReadsOf[j] : j \in 1..4}
      BY <2>5, <2>9
    <3> QED
      BY <1>2, <1>5, <2>1, <2>8, <3>1, DriveStays DEF CommitInv, ReadSoFar
  <2> QED
    BY <1>3, <1>4, <2>7, <2>10 DEF CommitInv
<1> QED
  BY <1>7, <1>8, <1>9

LEMMA CommitInvStep == CommitInv /\ [CommitNext]_commitVars => CommitInv'
<1> SUFFICES ASSUME CommitInv, [CommitNext]_commitVars PROVE CommitInv'
  OBVIOUS
<1>1. CASE UNCHANGED commitVars
  <2>1. UNCHANGED <<owner, stamp, writing, objects, reader, step, got, ends>>
    BY <1>1 DEF commitVars, ownerVars, readerVars
  <2>2. CommitTypeOK'
    BY <2>1, DriveStays DEF CommitInv, CommitTypeOK
  <2>3. SoFar'
    BY <2>1, DriveStays DEF CommitInv, SoFar, Now
  <2>4. Once'
    BY <2>1, DriveStays DEF CommitInv, Once
  <2>5. ReadSoFar'
    BY <2>1, DriveStays DEF CommitInv, ReadSoFar
  <2> QED
    BY <2>2, <2>3, <2>4, <2>5 DEF CommitInv
<1> QED
  BY <1>1, SeedObjectStep, SeedRootStep, SeedCommitStep, SeedRefStep, OwnerStep, ReaderStep DEF CommitNext

\* The variables keep their shapes; what a node has read stays stored.
THEOREM CommitTypeCorrect == CommitSpec => []CommitTypeOK
<1>1. CommitInv => CommitTypeOK
  BY DEF CommitInv
<1> QED
  BY <1>1, CommitInvInit, CommitInvStep, PTL DEF CommitSpec

\* For any folders and nodes and any number of kills and starts: main names one whole
\* seed at every version that has a main, no read fails, and every node that is ready
\* has read what main names.  It takes SoFar: that a seed which was killed is done
\* over from its first object, and that each object is stored before main is.
THEOREM SeededOnce == CommitSpec => []SeedIsOnce
<1>1. CommitInv => SeedIsOnce
  <2> SUFFICES ASSUME CommitInv PROVE SeedIsOnce
    OBVIOUS
  <2>1. \A v \in 1..Len(objects) : HeadAt(objects, v) # 0 => OneSeed(objects, v)
    BY DEF CommitInv, Once, AllSeeded
  <2>2. ToSet(ReadsOf) = {ReadsOf[k] : k \in 1..4}
    BY DEF ReadsOf, ToSet
  <2>3. \A n \in Reader : reader[n] = "ready" => got[n] = UNION ToSet(ReadsOf)
    BY <2>2 DEF CommitInv, ReadSoFar
  <2> QED
    BY <2>1, <2>3 DEF CommitInv, Once, ReadSoFar, SeedIsOnce, OneSeed
<1> QED
  BY <1>1, CommitInvInit, CommitInvStep, PTL DEF CommitSpec

-----------------------------------------------------------------------------
(***************************************************************************)
(* One program at a time.                                                  *)
(***************************************************************************)
\* A behaviour of one of the programs is a behaviour of each of the modules: the
\* variables of the others stay what they are.
LEMMA OneOfThem ==
    /\ MCSpec => Spec
    /\ MCSpec => TreeSpec
    /\ MCSpec => CommitSpec
<1>1. MCInit => Init /\ TreeInit /\ CommitInit
  BY DEF MCInit
<1>2. [MCNext]_mcVars => [Next]_vars
  BY DEF MCNext, mcVars
<1>3. [MCNext]_mcVars => [TreeNext]_treeVars
  BY DEF MCNext, mcVars
<1>4. [MCNext]_mcVars => [CommitNext]_commitVars
  BY DEF MCNext, mcVars
<1> QED
  BY <1>1, <1>2, <1>3, <1>4, PTL DEF MCSpec, Spec, TreeSpec, CommitSpec

\* The shapes of the variables of the three programs.
THEOREM SeedingTypeCorrect == MCSpec => []TypesOK
<1>1. TypeOK /\ TreeTypeOK /\ CommitTypeOK => TypesOK
  BY DEF TypesOK
<1> QED
  BY <1>1, OneOfThem, AppTypeCorrect, TreeTypeCorrect, CommitTypeCorrect, PTL

\* Whichever program seeds and however often it was killed: what a node that is ready
\* has read is whole, but for a kill after the probe and before the last put where
\* files are put one by one, and without exception where a commit is.
THEOREM WholeSeedRead == MCSpec => []SeededComplete
<1>1. UncutComplete /\ UncutTree /\ SeedIsOnce => SeededComplete
  BY DEF SeededComplete
<1> QED
  BY <1>1, OneOfThem, ProbeSuffices, TreeRead, SeededOnce, PTL
=============================================================================
