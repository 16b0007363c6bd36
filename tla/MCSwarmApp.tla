----------------------------- MODULE MCSwarmApp -----------------------------
(* Small instances for TLC of the programs that seed a drive and serve it to   *)
(* nodes that join: each behaviour is that of one of them.                     *)
EXTENDS SwarmApp, TreeSwarm, CommitSwarm

CONSTANTS readme, registry, app, Visitor

\* "swarm app" and "run log" (phase-7), "tree" (spl7-phase-1), "commit" (spl7-phase-2)
VARIABLE program

\* As in phase-7's seedContent: the probe is put first.
MCSeedOrder == <<readme, registry, app>>

MCFolderOrder == <<Packages, Config>>

mcVars == <<vars, treeVars, commitVars, program>>

MCInit ==
    /\ Init /\ TreeInit /\ CommitInit
    /\ program \in {"swarm app", "run log", "tree", "commit"}

\* One instance of phase-7 is for peers that list the drive; in the other one time
\* passes, apps run, and one peer connects.
Within ==
    /\ program = "swarm app" => now = 0 /\ ran = NoRuns
    /\ program = "run log" => \A p \in Peer : peer[p] # "off" => p = Visitor /\ peer[p] = "joining"

MCNext ==
    /\ \/ program \in {"swarm app", "run log"} /\ Next /\ UNCHANGED <<treeVars, commitVars>>
       \/ program = "tree" /\ TreeNext /\ UNCHANGED <<vars, commitVars>>
       \/ program = "commit" /\ CommitNext /\ UNCHANGED <<vars, treeVars>>
    /\ UNCHANGED program
    /\ Within'

MCSpec == MCInit /\ [][MCNext]_mcVars /\ WF_vars(Apply) /\ WF_vars(Round)

\* The shapes of the variables of all three.
TypesOK == TypeOK /\ TreeTypeOK /\ CommitTypeOK

\* A peer of the swarm app that is up has listed every file of the content drive,
\* and a node of spl7-phase-1 that is ready has found every file of the tree,
\* whenever it joined and however often the seeding node was killed, unless a kill
\* came after the probe was put and before the last file was.  In spl7-phase-2,
\* which probes for what is put last, no kill makes a node read less.
SeededComplete == UncutComplete /\ UncutTree /\ SeedIsOnce
=============================================================================
