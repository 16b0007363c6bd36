------------------------------ MODULE SwarmApp ------------------------------
(***************************************************************************)
(* The swarm app of phase-7: a seed node that fills a content drive file   *)
(* by file, peers that join and list it, and the seed's own world view     *)
(* drive, on which it publishes its connections and its log of app runs.   *)
(*                                                                         *)
(* Rounds of the world view are timed and not awaited by one another, app  *)
(* runs are answered before they are logged, and all put to one drive.     *)
(* spl7-phase-1 seeds in the same way, with another file as the probe.     *)
(***************************************************************************)
EXTENDS Naturals, Sequences, FiniteSets

CONSTANTS
    SeedOrder,  \* the files of the content drive in the order they are put
    Probe,      \* the file that main() looks for to decide whether to seed
    App,        \* files that are apps: a run needs the registry and the source
    Registry,   \* the file that lists the apps
    Peer,       \* nodes that join
    MaxQueue,   \* puts under way at once (bound)
    MaxTime,    \* the last millisecond of the clock (bound)
    None        \* no such file on the world drive

File == {SeedOrder[k] : k \in 1..Len(SeedOrder)}

ASSUME AppAssumption ==
    /\ SeedOrder \in Seq(File) /\ SeedOrder # <<>> /\ Probe \in File /\ Registry \in File
    /\ App \subseteq File \ {Registry}
    /\ IsFiniteSet(Peer)
    /\ None \notin App \cup Nat
    /\ MaxQueue \in Nat \ {0, 1}
    /\ MaxTime \in Nat

VARIABLES
    stage,   \* where the seed's main() or its shutdown is
    at,      \* seedContent's next file
    files,   \* the files on the content drive
    peer,    \* where each peer's main() is
    seen,    \* the files each peer has listed
    conns,   \* swarm.connections of the seed
    queue,   \* puts on the world drive under way, in order
    world,   \* status.json, peers.json and the run log: a file for a millisecond
    now,     \* the clock, in milliseconds
    cut,     \* history: a kill came after the probe and before the last file
    newest,  \* history: the connections the newest round found
    ran      \* history: the last run this process has answered in each millisecond

contentVars == <<at, files, cut>>
peerVars == <<peer, seen, conns>>
viewVars == <<queue, world, newest>>
runVars == <<now, ran>>
vars == <<stage, contentVars, peerVars, viewVars, runVars>>

Stage == {"down", "check", "seeding", "join", "up", "stopping", "closed"}

Time == 0..MaxTime

\* An entry of the run log, as far as it matters: the app, and "success".
Entry == [app : App, success : BOOLEAN]

NoRuns == [t \in Time |-> None]

NoWorld == [status |-> None, peers |-> None, runs |-> NoRuns]

Init ==
    /\ stage = "down"
    /\ at = 1
    /\ files = {}
    /\ peer = [p \in Peer |-> "off"]
    /\ seen = [p \in Peer |-> {}]
    /\ conns = {}
    /\ queue = <<>>
    /\ world = NoWorld
    /\ cut = FALSE
    /\ newest = {}
    /\ now = 0
    /\ ran = NoRuns

-----------------------------------------------------------------------------
(***************************************************************************)
(* The seed's main().                                                      *)
(***************************************************************************)
Boot ==
    /\ stage = "down"
    /\ stage' = "check"
    /\ UNCHANGED <<contentVars, peerVars, viewVars, runVars>>

\* drive.get of one file stands for all of them.
CheckContent ==
    /\ stage = "check"
    /\ stage' = IF Probe \in files THEN "join" ELSE "seeding"
    /\ at' = 1
    /\ UNCHANGED <<files, cut, peerVars, viewVars, runVars>>

SeedUpTo(last) ==
    /\ stage = "seeding"
    /\ files' = files \cup {SeedOrder[at]}
    /\ at' = IF at = last THEN at ELSE at + 1
    /\ stage' = IF at = last THEN "join" ELSE stage
    /\ UNCHANGED <<cut, peerVars, viewVars, runVars>>

\* Mutation: the loop ends one file early.
SeedFileShort == SeedUpTo(Len(SeedOrder) - 1)

\* Mutation: the loop runs one file too far.
SeedFileLong == SeedUpTo(Len(SeedOrder) + 1)

\* The next put of seedContent.
SeedFile == SeedUpTo(Len(SeedOrder))

\* What a round puts, and a run.
StatusPut(ps) == [path |-> "status", peers |-> ps]
PeersPut(ps)  == [path |-> "peers", peers |-> ps]
RunPut(t, e)  == [path |-> "run", time |-> t, entry |-> e]

\* updateStatus reads the connections and awaits its first put.
BeginRound ==
    /\ queue' = Append(queue, StatusPut(conns))
    /\ newest' = conns

\* The swarm is joined and flushed; worldView.start() and startServer().
Serve ==
    /\ stage = "join"
    /\ stage' = "up"
    /\ BeginRound
    /\ UNCHANGED <<contentVars, peerVars, world, runVars>>

-----------------------------------------------------------------------------
(***************************************************************************)
(* The world view.                                                         *)
(***************************************************************************)
\* Mutation: a timeout in place of the interval.
RoundOnce ==
    /\ stage = "up" /\ world.peers = None
    /\ Len(queue) < MaxQueue
    /\ BeginRound
    /\ UNCHANGED <<stage, contentVars, peerVars, world, runVars>>

\* The interval's timer: a round begins whether or not the last one is over.
Round ==
    /\ stage = "up"
    /\ Len(queue) < MaxQueue
    /\ BeginRound
    /\ UNCHANGED <<stage, contentVars, peerVars, world, runVars>>

Written(put) ==
    CASE put.path = "status" -> [world EXCEPT !.status = Cardinality(put.peers)]
      [] put.path = "peers"  -> [world EXCEPT !.peers = put.peers]
      [] OTHER               -> [world EXCEPT !.runs[put.time] = put.entry]

\* Mutation: the connections are read again for the second file.
ThenFresh(put) == IF put.path = "status" THEN <<PeersPut(conns)>> ELSE <<>>

\* What the put's caller goes on to put.
Then(put) == IF put.path = "status" THEN <<PeersPut(put.peers)>> ELSE <<>>

\* The drive's puts take effect one by one, in the order of the calls; what
\* awaited one goes on before the next one is done.
Apply ==
    /\ stage \in {"up", "stopping"}
    /\ queue # <<>>
    /\ world' = Written(Head(queue))
    /\ queue' = Tail(queue) \o Then(Head(queue))
    /\ UNCHANGED <<stage, contentVars, peerVars, newest, runVars>>

-----------------------------------------------------------------------------
(***************************************************************************)
(* App runs: GET /api/run.                                                 *)
(***************************************************************************)
\* The last place in the queue is kept for a round, so that the bound alone
\* does not starve the timer.
CanRun(a) ==
    /\ stage \in {"up", "stopping"}
    /\ {Registry, a} \subseteq files
    /\ Len(queue) < MaxQueue - 1

\* What is answered at the present millisecond is the last so far.
Answered(e) == ran' = [ran EXCEPT ![now] = e]

\* Mutation: no entry while a round is under way.
RunQuiet(a, ok) ==
    /\ CanRun(a)
    /\ queue' = IF queue = <<>> THEN <<RunPut(now, [app |-> a, success |-> ok])>> ELSE queue
    /\ Answered([app |-> a, success |-> ok])
    /\ UNCHANGED <<stage, contentVars, peerVars, world, newest, now>>

\* The app has run, or thrown: logRun names the file after the millisecond and is
\* not awaited, and the answer is sent.  Without the registry or the source the
\* answer is 404 and nothing changes.
Run(a, ok) ==
    /\ CanRun(a)
    /\ queue' = Append(queue, RunPut(now, [app |-> a, success |-> ok]))
    /\ Answered([app |-> a, success |-> ok])
    /\ UNCHANGED <<stage, contentVars, peerVars, world, newest, now>>

Tick ==
    /\ now < MaxTime
    /\ now' = now + 1
    /\ UNCHANGED <<stage, contentVars, peerVars, viewVars, ran>>

-----------------------------------------------------------------------------
(***************************************************************************)
(* Shutdown and kills.                                                     *)
(***************************************************************************)
\* worldView.stop(), then swarm.destroy().
Stop ==
    /\ stage = "up"
    /\ stage' = "stopping"
    /\ UNCHANGED <<contentVars, peerVars, viewVars, runVars>>

\* store.close(): puts under way throw, and their catch does nothing.
CloseStore ==
    /\ stage = "stopping"
    /\ stage' = "closed"
    /\ conns' = {}
    /\ queue' = <<>>
    /\ UNCHANGED <<contentVars, peer, seen, world, newest, runVars>>

\* rt.exit, a kill, or a signal before there is a handler.
Exit ==
    /\ stage # "down"
    /\ stage' = "down"
    /\ cut' = (cut \/ (stage = "seeding" /\ Probe \in files))
    /\ conns' = {}
    /\ queue' = <<>>
    /\ ran' = NoRuns
    /\ UNCHANGED <<at, files, peer, seen, world, newest, now>>

-----------------------------------------------------------------------------
(***************************************************************************)
(* Peers.  A peer lists only what an update from the seed has brought.     *)
(***************************************************************************)
PeerStart(p) ==
    /\ peer[p] = "off"
    /\ peer' = [peer EXCEPT ![p] = "joining"]
    /\ UNCHANGED <<stage, contentVars, seen, conns, viewVars, runVars>>

Connect(p) ==
    /\ peer[p] # "off" /\ p \notin conns
    /\ stage \in {"join", "up"}
    /\ conns' = conns \cup {p}
    /\ UNCHANGED <<stage, contentVars, peer, seen, viewVars, runVars>>

Disconnect(p) ==
    /\ p \in conns
    /\ conns' = conns \ {p}
    /\ UNCHANGED <<stage, contentVars, peer, seen, viewVars, runVars>>

\* update waits for the seed; then drive.list('/').
Sync(p) ==
    /\ peer[p] = "joining" /\ p \in conns
    /\ peer' = [peer EXCEPT ![p] = "up"]
    /\ seen' = [seen EXCEPT ![p] = files]
    /\ UNCHANGED <<stage, contentVars, conns, viewVars, runVars>>

Leave(p) ==
    /\ peer[p] # "off"
    /\ peer' = [peer EXCEPT ![p] = "off"]
    /\ seen' = [seen EXCEPT ![p] = {}]
    /\ conns' = conns \ {p}
    /\ UNCHANGED <<stage, contentVars, viewVars, runVars>>

Next ==
    \/ Boot
    \/ CheckContent
    \/ SeedFile
    \/ Serve
    \/ Round
    \/ Apply
    \/ \E a \in App, ok \in BOOLEAN : Run(a, ok)
    \/ Tick
    \/ Stop
    \/ CloseStore
    \/ Exit
    \/ \E p \in Peer : PeerStart(p) \/ Connect(p) \/ Disconnect(p) \/ Sync(p) \/ Leave(p)

Spec == Init /\ [][Next]_vars

\* The puts complete and the interval's timer fires.
FairSpec == Spec /\ WF_vars(Apply) /\ WF_vars(Round)

-----------------------------------------------------------------------------
(***************************************************************************)
(* Properties.                                                             *)
(***************************************************************************)
\* The shapes of the variables.
TypeOK ==
    /\ stage \in Stage
    /\ at \in 1..Len(SeedOrder)
    /\ files \subseteq File
    /\ peer \in [Peer -> {"off", "joining", "up"}]
    /\ seen \in [Peer -> SUBSET File]
    /\ conns \subseteq Peer
    /\ Len(queue) <= MaxQueue
    /\ world.status = None \/ world.status \in 0..Cardinality(Peer)
    /\ world.peers = None \/ world.peers \subseteq Peer
    /\ (world.peers # None => world.status # None)
    /\ world.runs \in [Time -> Entry \cup {None}]
    /\ newest \subseteq Peer
    /\ now \in Time
    /\ ran \in [Time -> Entry \cup {None}]

\* "Seeded on first run" is decided by one file.  A peer that is up has listed
\* every file, whenever it joined and however often the seed was killed, unless
\* a kill came after the probe was put and before the last file was.
UncutComplete ==
    ~ cut => \A p \in Peer : peer[p] = "up" => seen[p] = File

\* status.json and peers.json are two puts of a round, and rounds overlap.  When
\* no round is under way the two say the same, and it is what the newest round
\* found: an older one never has the last word, whatever was in the files when
\* the process started.
SettledViewAgrees ==
    stage = "up" /\ (\A k \in 1..Len(queue) : queue[k].path = "run") =>
        world.peers = newest /\ world.status = Cardinality(newest)

\* If connections stop changing at a node that stays up, its world view comes to
\* show them for good, although errors are swallowed and nothing is compared.
ViewCatchesUp ==
    \A ps \in SUBSET Peer :
        <>[](stage = "up" /\ conns = ps)
            => <>[](world.peers = ps /\ world.status = Cardinality(ps))

\* A run is answered before it is logged, among the puts of rounds and of other
\* runs.  In the end the file of its millisecond holds it, or a run answered later
\* in that millisecond, unless the node is stopped first.
RunsLogged ==
    \A t \in Time, e \in Entry :
        ran[t] = e ~> (world.runs[t] = e \/ ran[t] # e \/ stage # "up")
=============================================================================
