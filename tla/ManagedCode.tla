---------------------------- MODULE ManagedCode ----------------------------
(***************************************************************************)
(* phase-5-managed-code: a manager that seeds role code and a registry     *)
(* into its drive, workers that read from it which roles they run, pull    *)
(* and run them, and clients that call a role of one worker by its key.    *)
(*                                                                         *)
(* A worker pulls its roles one after the other.  It can be reached from   *)
(* the moment the first role joins its topic; a connection offers the      *)
(* roles that run when it is made, and never any other.  A client binds    *)
(* its calls to the first connection to its worker, for good.              *)
(*                                                                         *)
(* External: update and get wait until the manager is on the swarm;        *)
(* joinPeer connects, and connects again after a loss, whenever the worker *)
(* listens; a channel that the other side does not offer is closed; calls  *)
(* on a channel that is closed end in an error.                            *)
(***************************************************************************)
EXTENDS Naturals, Sequences, Functions

CONSTANTS
    Worker, Caller,   \* the workers the registry lists, and the clients
    Role,             \* the role files
    RoleOrder,        \* the order in which readdir lists them
    RolesOf,          \* assignments.json: the roles of each worker, in order
    Target, Service,  \* the worker and the role each client calls
    Registry,         \* the key of the registry on the drive
    MaxSeeds,         \* how often the manager is started (bound)
    MaxReaches,       \* connections to its worker a client makes (bound)
    MaxCalls          \* calls a client makes on them (bound)

ASSUME ManagedAssumption ==
    /\ Worker \cap Caller = {}
    /\ Registry \notin Role
    /\ RoleOrder \in Seq(Role)
    /\ Range(RoleOrder) = Role
    /\ RolesOf \in [Worker -> Seq(Role)]
    /\ Target \in [Caller -> Worker]
    /\ Service \in [Caller -> Role]
    /\ MaxSeeds \in Nat /\ MaxReaches \in Nat /\ MaxCalls \in Nat

VARIABLES
    drive,      \* the keys put, in order: the manager's store outlives it
    manager,    \* where its main() is
    put,        \* how many keys this start of it has put
    seeds,      \* how often it was started
    mpc,        \* where main() of each worker and client is
    view,       \* the version of the drive each of them has
    running,    \* the roles each worker runs, in order
    link,       \* each client's connection to its worker: the roles it offers
    channel,    \* its service channel: "none", "open" or "closed"
    reaches,    \* how often it reached its worker
    call,       \* its last call: "none", "sent", "served", "answered", "error"
    seq,        \* how many calls it has made
    lost        \* history: the connection its channel is on went away

managerVars == <<drive, manager, put, seeds>>
clientVars  == <<link, channel, reaches, call, seq, lost>>
managedVars == <<managerVars, mpc, view, running, clientVars>>

Node == Worker \cup Caller
Keys == Append(RoleOrder, Registry)

NoLink == [up |-> FALSE, offers |-> {}]
Offering(roles) == [up |-> TRUE, offers |-> roles]

On(v) == {drive[k] : k \in 1..v}

ManagedInit ==
    /\ drive = <<>>
    /\ manager = "off"
    /\ put = 0
    /\ seeds = 0
    /\ mpc = [p \in Node |-> "off"]
    /\ view = [p \in Node |-> 0]
    /\ running = [w \in Worker |-> <<>>]
    /\ link = [c \in Caller |-> NoLink]
    /\ channel = [c \in Caller |-> "none"]
    /\ reaches = [c \in Caller |-> 0]
    /\ call = [c \in Caller |-> "none"]
    /\ seq = [c \in Caller |-> 0]
    /\ lost = [c \in Caller |-> FALSE]

-----------------------------------------------------------------------------
(***************************************************************************)
(* The manager: the roles, the registry, and only then the swarm.          *)
(***************************************************************************)
ManagerStarts ==
    /\ manager = "off" /\ seeds < MaxSeeds
    /\ manager' = "seeding"
    /\ put' = 0
    /\ seeds' = seeds + 1
    /\ UNCHANGED <<drive, mpc, view, running, clientVars>>

\* Mutation: it joins the swarm as soon as the drive is ready.
ServingEarly == manager \in {"seeding", "serving"}

\* Its drive is on the swarm.
Serving == manager = "serving"

\* drive.put of the next key; after the registry it joins the swarm.
Seed ==
    /\ manager = "seeding"
    /\ drive' = Append(drive, Keys[put + 1])
    /\ put' = put + 1
    /\ manager' = IF put' = Len(Keys) THEN "serving" ELSE "seeding"
    /\ UNCHANGED <<seeds, mpc, view, running, clientVars>>

\* SIGTERM or a kill; its container may be started again.
ManagerStops ==
    /\ manager # "off"
    /\ manager' = "off"
    /\ UNCHANGED <<drive, put, seeds, mpc, view, running, clientVars>>

-----------------------------------------------------------------------------
(***************************************************************************)
(* What workers and clients share: replicate the drive, read the registry. *)
(***************************************************************************)
Joins(p) ==
    /\ mpc[p] = "off"
    /\ mpc' = [mpc EXCEPT ![p] = "joining"]
    /\ UNCHANGED <<managerVars, view, running, clientVars>>

\* Mutation: the version is read one too high.
UpdateAhead(p) ==
    /\ mpc[p] = "joining" /\ Serving
    /\ mpc' = [mpc EXCEPT ![p] = "registry"]
    /\ view' = [view EXCEPT ![p] = Len(drive) + 1]
    /\ UNCHANGED <<managerVars, running, clientVars>>

\* findingPeers, flush and update: the version the manager has by then.
Update(p) ==
    /\ mpc[p] = "joining" /\ Serving
    /\ mpc' = [mpc EXCEPT ![p] = "registry"]
    /\ view' = [view EXCEPT ![p] = Len(drive)]
    /\ UNCHANGED <<managerVars, running, clientVars>>

\* A read of the drive by p: at its version or a later one, by the manager's leave.
ReadAt(p, v) == Serving /\ v \in view[p]..Len(drive) /\ view' = [view EXCEPT ![p] = v]

\* What main() goes on to: a client to its target, a worker to its roles.
Onwards(p) ==
    IF p \in Caller THEN "targeting" ELSE IF RolesOf[p] = <<>> THEN "up" ELSE "pulling"

\* No registry is fatal.  A worker learns its roles and a client its target's key.
ReadRegistry(p) ==
    /\ mpc[p] = "registry"
    /\ \E v \in 1..Len(drive) :
          /\ ReadAt(p, v)
          /\ mpc' = [mpc EXCEPT ![p] = IF Registry \in On(v) THEN Onwards(p) ELSE "fatal"]
    /\ UNCHANGED <<managerVars, running, clientVars>>

-----------------------------------------------------------------------------
(***************************************************************************)
(* A worker.                                                               *)
(***************************************************************************)
\* Pull the next role and run it: start() joins the role's topic and what it
\* returns is pushed to running before anything else happens.
RunRole(w) ==
    LET next == RolesOf[w][Len(running[w]) + 1]
    IN  /\ mpc[w] = "pulling"
        /\ \E v \in 1..Len(drive) :
              /\ ReadAt(w, v)
              /\ IF next \in On(v)
                 THEN /\ running' = [running EXCEPT ![w] = Append(@, next)]
                      /\ mpc' = [mpc EXCEPT ![w] =
                                   IF Len(running[w]) + 1 = Len(RolesOf[w]) THEN "up" ELSE "pulling"]
                 ELSE /\ mpc' = [mpc EXCEPT ![w] = "fatal"]
                      /\ UNCHANGED running
        /\ UNCHANGED <<managerVars, clientVars>>

\* What the end of client c's connection does to its calls and its channel.
Drops(cs) ==
    /\ link' = [c \in Caller |-> IF c \in cs THEN NoLink ELSE link[c]]
    /\ lost' = [c \in Caller |-> lost[c] \/ (c \in cs /\ channel[c] = "open")]
    /\ channel' = [c \in Caller |-> IF c \in cs /\ channel[c] = "open" THEN "closed" ELSE channel[c]]

\* SIGTERM or a kill.
WorkerStops(w) ==
    /\ mpc[w] # "off"
    /\ mpc' = [mpc EXCEPT ![w] = "off"]
    /\ view' = [view EXCEPT ![w] = 0]
    /\ running' = [running EXCEPT ![w] = <<>>]
    /\ Drops({c \in Caller : Target[c] = w})
    /\ UNCHANGED <<managerVars, reaches, call, seq>>

\* Mutation: a worker listens from the start.
ListensEarly(w) == mpc[w] \in {"registry", "pulling", "up"}

\* A worker listens once a role has joined its topic.
Listens(w) == running[w] # <<>>

-----------------------------------------------------------------------------
(***************************************************************************)
(* A client.                                                               *)
(***************************************************************************)
\* 'connection' at both ends: the worker offers what it runs, and the client
\* opens its service channel, if it never had one.
Reach(c) ==
    LET offers == Range(running[Target[c]])
    IN  /\ mpc[c] = "targeting" /\ Listens(Target[c])
        /\ ~ link[c].up /\ reaches[c] < MaxReaches
        /\ link' = [link EXCEPT ![c] = Offering(offers)]
        /\ channel' = [channel EXCEPT ![c] =
                         IF @ # "none" THEN @ ELSE IF Service[c] \in offers THEN "open" ELSE "closed"]
        /\ reaches' = [reaches EXCEPT ![c] = @ + 1]
        /\ UNCHANGED <<managerVars, mpc, view, running, call, seq, lost>>

LinkLost(c) ==
    /\ link[c].up
    /\ Drops({c})
    /\ UNCHANGED <<managerVars, mpc, view, running, reaches, call, seq>>

\* Every 3 s, once it has a channel: one call, whatever became of the last.
Ask(c) ==
    /\ mpc[c] = "targeting" /\ channel[c] # "none" /\ seq[c] < MaxCalls
    /\ seq' = [seq EXCEPT ![c] = @ + 1]
    /\ call' = [call EXCEPT ![c] = "sent"]
    /\ UNCHANGED <<managerVars, mpc, view, running, link, channel, reaches, lost>>

\* Mutation: only the role that was started last has its server running.
HandleLast(c) ==
    /\ call[c] = "sent" /\ channel[c] = "open"
    /\ running[Target[c]][Len(running[Target[c]])] = Service[c]
    /\ call' = [call EXCEPT ![c] = "served"]
    /\ UNCHANGED <<managerVars, mpc, view, running, link, channel, reaches, seq, lost>>

\* The role's server handles the call.
Handle(c) ==
    /\ call[c] = "sent" /\ channel[c] = "open"
    /\ call' = [call EXCEPT ![c] = "served"]
    /\ UNCHANGED <<managerVars, mpc, view, running, link, channel, reaches, seq, lost>>

\* The callback: the answer, or an error on a channel that is closed.
Returned(c) ==
    /\ \/ /\ call[c] = "served" /\ channel[c] = "open"
          /\ call' = [call EXCEPT ![c] = "answered"]
       \/ /\ call[c] \in {"sent", "served"} /\ channel[c] = "closed"
          /\ call' = [call EXCEPT ![c] = "error"]
    /\ UNCHANGED <<managerVars, mpc, view, running, link, channel, reaches, seq, lost>>

\* SIGTERM or a kill: a client started again has a new channel to bind.
ClientStops(c) ==
    /\ mpc[c] # "off"
    /\ mpc' = [mpc EXCEPT ![c] = "off"]
    /\ view' = [view EXCEPT ![c] = 0]
    /\ link' = [link EXCEPT ![c] = NoLink]
    /\ channel' = [channel EXCEPT ![c] = "none"]
    /\ call' = [call EXCEPT ![c] = "none"]
    /\ lost' = [lost EXCEPT ![c] = FALSE]
    /\ UNCHANGED <<managerVars, running, reaches, seq>>

ManagedNext ==
    \/ ManagerStarts \/ Seed \/ ManagerStops
    \/ \E p \in Node : Joins(p) \/ Update(p) \/ ReadRegistry(p)
    \/ \E w \in Worker : RunRole(w) \/ WorkerStops(w)
    \/ \E c \in Caller :
          Reach(c) \/ LinkLost(c) \/ Ask(c) \/ Handle(c) \/ Returned(c) \/ ClientStops(c)

\* Started programs go on, joinPeer keeps trying, and what is sent on a channel
\* is handled and called back.  Nothing makes anything start, stop or be lost.
ManagedFairness ==
    /\ WF_managedVars(Seed)
    /\ \A p \in Node : WF_managedVars(Update(p)) /\ WF_managedVars(ReadRegistry(p))
    /\ \A w \in Worker : WF_managedVars(RunRole(w))
    /\ \A c \in Caller :
          /\ WF_managedVars(Reach(c)) /\ WF_managedVars(Ask(c))
          /\ WF_managedVars(Handle(c)) /\ WF_managedVars(Returned(c))

ManagedSpec == ManagedInit /\ [][ManagedNext]_managedVars /\ ManagedFairness

-----------------------------------------------------------------------------
(***************************************************************************)
(* Properties.                                                             *)
(***************************************************************************)
MainStage == {"off", "joining", "registry", "pulling", "up", "targeting", "fatal"}

\* The shapes of the variables.
ManagedTypeOK ==
    /\ drive \in Seq(Role \cup {Registry})
    /\ manager \in {"off", "seeding", "serving"}
    /\ put \in 0..Len(Keys) /\ seeds \in 0..MaxSeeds
    /\ mpc \in [Node -> MainStage]
    /\ view \in [Node -> 0..Len(drive)]
    /\ running \in [Worker -> Seq(Role)]
    /\ link \in [Caller -> [up : BOOLEAN, offers : SUBSET Role]]
    /\ channel \in [Caller -> {"none", "open", "closed"}]
    /\ reaches \in [Caller -> 0..MaxReaches] /\ seq \in [Caller -> 0..MaxCalls]
    /\ call \in [Caller -> {"none", "sent", "served", "answered", "error"}]
    /\ lost \in [Caller -> BOOLEAN]

\* Whenever a worker or a client gets hold of the drive, in whichever start of
\* the manager and however often that was cut short, it finds the registry, and a
\* worker finds every role the registry gives it: no main() ends in 'fatal'.
NeverFatal == \A p \in Node : mpc[p] # "fatal"

\* A worker can be reached before it runs all its roles, and a connection never
\* offers more than it ran then.  A client of the first role a worker runs, as in
\* assignments.json, is not hit: its channel is open as long as the connection is.
FirstRoleIsServed ==
    \A c \in Caller :
        (RolesOf[Target[c]] # <<>> /\ Service[c] = RolesOf[Target[c]][1])
            => (channel[c] = "closed" => lost[c])

\* A worker that has the registry gets to run all its roles, unless it or the
\* manager stops; and a call of a client whose channel is open is answered,
\* unless the connection is lost.
WorkGetsDone ==
    /\ \A w \in Worker :
          (mpc[w] = "pulling") ~> (running[w] = RolesOf[w] \/ ~ Serving \/ mpc[w] = "off")
    /\ \A c \in Caller :
          (call[c] \in {"sent", "served"} /\ channel[c] = "open")
              ~> (call[c] = "answered" \/ channel[c] # "open")
=============================================================================
