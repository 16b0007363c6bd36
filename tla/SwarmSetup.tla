----------------------------- MODULE SwarmSetup -----------------------------
(***************************************************************************)
(* spl7-phase-4 as a whole: the platform (SwarmRegistry), the nodes that   *)
(* join it (join/join.js) and the platform's node list (ui/http.js).       *)
(*                                                                         *)
(* A node replicates the drive sparsely and read-only.  Its version only   *)
(* grows, by jumps, while the platform is on the swarm; every read of its  *)
(* repo resolves main at the version it has by then.  Once it has browsed  *)
(* the setup it posts its registration: once, with errors swallowed.       *)
(***************************************************************************)
EXTENDS SwarmRegistry, SequencesExt

CONSTANTS
    MaxReads,   \* the reads of the setup a joining node makes (join.js: 5)
    Config      \* the folder with the swarm's configuration

ASSUME SetupAssumption == MaxReads \in Nat \ {0} /\ Config \in Folder

VARIABLES
    jpc,     \* where each node's main() is
    ver,     \* its replica's drive.version, from its first update on
    reads,   \* reads of the setup it has made
    nodes,   \* the platform's list for its dropdown: a sequence of [name, info]
    serial   \* history: this platform process had one registration at a time

joinVars == <<jpc, ver, reads>>
listVars == <<nodes, serial>>
allVars == <<vars, joinVars, listVars>>

JoinStage == {"off", "joining", "browsing", "ready", "registered", "fatal"}

NodeEntry == [name : Member, info : Info]

SetupInit ==
    /\ Init
    /\ jpc = [j \in Name |-> "off"]
    /\ ver = [j \in Name |-> 0]
    /\ reads = [j \in Name |-> 0]
    /\ nodes = <<>>
    /\ serial = TRUE

\* Mutation: the platform joins the swarm before it seeds.
ReachableEarly == stage \notin {"down", "fatal", "open", "closed"}

\* The platform is on the swarm from swarm.join() until swarm.destroy().
Reachable == stage \in {"serving", "http", "stopping"}

\* Its HTTP server listens from startServer() until the process exits.
Listening == stage \in {"http", "stopping", "closed"}

-----------------------------------------------------------------------------
(***************************************************************************)
(* The platform.                                                           *)
(***************************************************************************)
\* startServer resets the list to the platform itself; a process that ends
\* loses it; nothing else of the platform's own steps touches it.
PlatformStep ==
    /\ \/ BootStep
       \/ \E t \in Task : TaskStep(t)
       \/ Stop
       \/ CloseStore
       \/ Crash
    /\ nodes' = CASE stage' \in {"down", "fatal"} -> <<>>
                  [] stage = "serving" -> << [name |-> Platform, info |-> PlatformInfo] >>
                  [] OTHER -> nodes
    /\ serial' = (serial \/ stage' \in {"down", "fatal"})
    /\ UNCHANGED joinVars

\* Mutation: an earlier entry of that name stays.
ListedTwice(list, n, i) == list \o << [name |-> n, info |-> i] >>

\* findIndex and splice drop the first entry of that name; push adds the new one.
Listed(list, n, i) ==
    RemoveFirstMatch(list, LAMBDA e : e.name = n) \o << [name |-> n, info |-> i] >>

-----------------------------------------------------------------------------
(***************************************************************************)
(* A joining node.                                                         *)
(***************************************************************************)
\* new Hyperdrive, findingPeers, swarm.join.
Join(j) ==
    /\ jpc[j] = "off"
    /\ jpc' = [jpc EXCEPT ![j] = "joining"]
    /\ UNCHANGED <<vars, ver, reads, listVars>>

\* flush and update: findingPeers makes update wait for the platform.
Sync(j) ==
    /\ jpc[j] = "joining"
    /\ Reachable
    /\ jpc' = [jpc EXCEPT ![j] = "browsing"]
    /\ ver' = [ver EXCEPT ![j] = Len(log)]
    /\ reads' = [reads EXCEPT ![j] = 0]
    /\ UNCHANGED <<vars, listVars>>

\* The versions node j may have by its next read.
Versions(j) == ver[j]..(IF Reachable THEN Len(log) ELSE ver[j])

\* select, get or log: main is resolved afresh.  All of them throw if main does
\* not resolve, and get('/config/swarm') without that folder: the process ends.
ReadSetup(j) ==
    /\ jpc[j] = "browsing"
    /\ \E v \in Versions(j) :
          /\ ver' = [ver EXCEPT ![j] = v]
          /\ reads' = [reads EXCEPT ![j] = @ + 1]
          /\ jpc' = [jpc EXCEPT ![j] =
                IF ~ Resolves(log, v) \/ Config \notin TreeAt(log, v).folders THEN "fatal"
                ELSE IF reads[j] + 1 = MaxReads THEN "ready" ELSE "browsing"]
    /\ UNCHANGED <<vars, listVars>>

\* Mutation: a node that is listed already gets its new entry in the list only.
PostKnown(j, t, i) ==
    /\ jpc[j] = "ready"
    /\ Listening
    /\ IF \E k \in 1..Len(nodes) : nodes[k].name = j THEN UNCHANGED vars ELSE Register(t, j, i)
    /\ nodes' = Listed(nodes, j, i)
    /\ serial' = (serial /\ \A u \in Task : act[u].pc = "idle")
    /\ jpc' = [jpc EXCEPT ![j] = "registered"]
    /\ UNCHANGED <<ver, reads>>

\* registerWithPlatform reaches the platform's handler.
Post(j, t, i) ==
    /\ jpc[j] = "ready"
    /\ Listening
    /\ Register(t, j, i)
    /\ nodes' = Listed(nodes, j, i)
    /\ serial' = (serial /\ \A u \in Task : act[u].pc = "idle")
    /\ jpc' = [jpc EXCEPT ![j] = "registered"]
    /\ UNCHANGED <<ver, reads>>

\* The connection is refused: req.on('error') does nothing, nothing retries.
PostLost(j) ==
    /\ jpc[j] = "ready"
    /\ ~ Listening
    /\ jpc' = [jpc EXCEPT ![j] = "registered"]
    /\ UNCHANGED <<vars, ver, reads, listVars>>

WatchTo(j, v) ==
    /\ jpc[j] \in {"ready", "registered"}
    /\ Reachable
    /\ ver[j] < Len(log)
    /\ ver' = [ver EXCEPT ![j] = v]
    /\ UNCHANGED <<vars, jpc, reads, listVars>>

\* Mutation: the replica runs ahead of the drive.
WatchAhead(j) == WatchTo(j, Len(log) + 1)

\* Every 3 s: drive.update().  Whatever it or the log that follows throws is
\* swallowed: the next tick comes as if nothing had been.
Watch(j) == WatchTo(j, Len(log))

\* SIGTERM or a kill; the container may be started again.  Its store is kept, but
\* nothing is read from it before the next update has reached the platform.
Leave(j) ==
    /\ jpc[j] # "off"
    /\ jpc' = [jpc EXCEPT ![j] = "off"]
    /\ ver' = [ver EXCEPT ![j] = 0]
    /\ reads' = [reads EXCEPT ![j] = 0]
    /\ UNCHANGED <<vars, listVars>>

SetupNext ==
    \/ PlatformStep
    \/ \E j \in Name :
          \/ Join(j)
          \/ Sync(j)
          \/ ReadSetup(j)
          \/ PostLost(j)
          \/ Watch(j)
          \/ Leave(j)
          \/ \E t \in Task, i \in Info : Post(j, t, i)

SetupSpec == SetupInit /\ [][SetupNext]_allVars

\* A started platform boots and its jobs run; a started node goes on as long as
\* the platform is there.  Nothing makes anyone start, stop or crash.
SetupFairness ==
    /\ WF_allVars(PlatformStep /\ BootStep /\ stage \notin {"down", "fatal"})
    /\ \A t \in Task : WF_allVars(PlatformStep /\ TaskStep(t))
    /\ WF_allVars(PlatformStep /\ CloseStore)
    /\ \A j \in Name :
          /\ WF_allVars(Sync(j))
          /\ WF_allVars(ReadSetup(j) /\ Reachable)
          /\ WF_allVars(PostLost(j) \/ \E t \in Task, i \in Info : Post(j, t, i))
          /\ WF_allVars(Watch(j))

SetupFairSpec == SetupSpec /\ SetupFairness

-----------------------------------------------------------------------------
(***************************************************************************)
(* Properties.                                                             *)
(***************************************************************************)
\* The shapes of the variables the composition adds.
SetupTypeOK ==
    /\ jpc \in [Name -> JoinStage]
    /\ ver \in [Name -> 0..Len(log)]
    /\ reads \in [Name -> 0..MaxReads]
    /\ nodes \in Seq(NodeEntry)
    /\ serial \in BOOLEAN

\* A node that reaches the platform can browse: whenever it connects, and
\* whatever the platform puts while it reads, every read of the setup finds main
\* and all folders.  main() of join.js never ends in 'fatal', although its reads
\* resolve main one by one and no one locks the drive.
BrowseNeverFails == \A j \in Name : jpc[j] # "fatal"

\* join.js registers ("this triggers a git commit on the platform") and watches ("the
\* platform commits when nodes register").  What the platform lists of a node comes to
\* be in the tree that every node on the swarm reads: the post is answered at once,
\* the job goes through its writes, and a replica may update in the middle of them.
\* It holds as long as the node and the platform stay up, the entry is listed and
\* registrations come one at a time.
ListedReachReplicas ==
    \A j \in Name, n \in Name \ FileName, i \in Info :
        LET listed == /\ stage = "http" /\ serial /\ jpc[j] \in {"ready", "registered"}
                      /\ \E k \in 1..Len(nodes) : nodes[k] = [name |-> n, info |-> i]
        IN  listed ~> (TreeAt(log, ver[j]).swarm[n] = i \/ ~ listed)

\* The dropdown and the tree are two records of the same registrations, one
\* written before the answer, one committed after it.  While a platform process
\* has had one registration at a time and has none in flight, they say the same
\* of every listed node whose name the tree can hold, whatever earlier processes
\* left and how they ended.
DropdownAgrees ==
    (stage = "http" /\ serial /\ \A u \in Actor : act[u].pc = "idle") =>
        \A k \in 1..Len(nodes) :
            nodes[k].name \notin FileName => Now.swarm[nodes[k].name] = nodes[k].info

\* ui/http.js: "Peers register with the platform so the dropdown discovers
\* them": a node that is ready is listed, unless it or the platform stops.
ReadyNodesListed ==
    \A j \in Name :
        (jpc[j] = "ready")
            ~> (\/ \E k \in 1..Len(nodes) : nodes[k].name = j
                \/ jpc[j] = "off"
                \/ stage \in {"stopping", "closed", "down"})
=============================================================================
