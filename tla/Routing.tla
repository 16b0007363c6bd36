------------------------------ MODULE Routing ------------------------------
(***************************************************************************)
(* Calls between named nodes: phase-3-roles-routing/node.js, and the       *)
(* simpler phase-2-rpc/node.js, whose clients are those not in Routed.     *)
(*                                                                         *)
(* A service name hashes to a topic, so a client connects to every server  *)
(* of its name and to no one else.  A phase-3 client makes the same call,  *)
(* with the same cid, on each connection until one has been answered, and  *)
(* warns 'no-peer' after 8 s without an answer; a phase-2 client makes one *)
(* call per connection.  Containers are not restarted.                     *)
(*                                                                         *)
(* External: hyperswarm keeps at most one connection between two nodes and *)
(* connects again after a loss; avsc-rpc calls back once per call, with an *)
(* error if the connection goes away first.                                *)
(***************************************************************************)
EXTENDS Naturals, Sequences

CONSTANTS
    Server, Client,
    Routed,       \* the clients that run phase-3's program
    ServiceOf,    \* the name each node serves or calls
    MaxConns      \* connections a client makes (bound)

ASSUME RoutingAssumption ==
    /\ Server \cap Client = {}
    /\ Routed \subseteq Client
    /\ MaxConns \in Nat

VARIABLES
    proc,         \* the processes: "off", "up", "gone"
    linked,       \* the connections there are, as pairs <<client, server>>
    conns,        \* how many connections each client has made
    calls,        \* each client's calls, in order
    answered,     \* the flag of a phase-3 client
    timer,        \* its 8 s timer is still to fire
    said          \* what each client has logged of its calls

routingVars == <<proc, linked, conns, calls, answered, timer, said>>

\* "sent": on the wire; "served": the server's answer is on the wire; "cut": the
\* connection went away first; "done": the client's callback has run.
Call == [to : Server, cid : Nat, st : {"sent", "served", "cut", "done"}]

Outcome == {"response", "error", "no-peer"}

RoutingInit ==
    /\ proc = [p \in Server \cup Client |-> "off"]
    /\ linked = {}
    /\ conns = [c \in Client |-> 0]
    /\ calls = [c \in Client |-> <<>>]
    /\ answered = [c \in Client |-> FALSE]
    /\ timer = [c \in Client |-> c \in Routed]
    /\ said = [c \in Client |-> <<>>]

Pending(c) == {k \in DOMAIN calls[c] : calls[c][k].st # "done"}

CallTo(s, n) == [to |-> s, cid |-> n, st |-> "sent"]

\* What the client does with a new connection: phase-3's cid is the same on all
\* of them, and nothing is called after an answer; phase-2 counts its cids.
Place(c, s) ==
    /\ calls' = CASE c \notin Routed -> [calls EXCEPT ![c] = Append(@, CallTo(s, conns[c]))]
                  [] c \in Routed /\ ~ answered[c] -> [calls EXCEPT ![c] = Append(@, CallTo(s, 0))]
                  [] OTHER -> calls
    /\ UNCHANGED answered

\* The calls that were waiting on connections among gone.
Cut(gone) ==
    calls' = [c \in Client |->
                [k \in DOMAIN calls[c] |->
                    IF <<c, calls[c][k].to>> \in gone /\ calls[c][k].st \in {"sent", "served"}
                    THEN [calls[c][k] EXCEPT !.st = "cut"] ELSE calls[c][k]]]

SetCall(c, k, st) == [calls EXCEPT ![c][k].st = st]

-----------------------------------------------------------------------------
RoutingStart(p) ==
    /\ proc[p] = "off"
    /\ proc' = [proc EXCEPT ![p] = "up"]
    /\ UNCHANGED <<linked, conns, calls, answered, timer, said>>

\* A client finds a server of its name; both handle 'connection'.
Connect(c, s) ==
    /\ proc[c] = "up" /\ proc[s] = "up"
    /\ ServiceOf[c] = ServiceOf[s]
    /\ <<c, s>> \notin linked
    /\ conns[c] < MaxConns
    /\ linked' = linked \cup {<<c, s>>}
    /\ conns' = [conns EXCEPT ![c] = @ + 1]
    /\ Place(c, s)
    /\ UNCHANGED <<proc, timer, said>>

Lose(c, s) ==
    /\ <<c, s>> \in linked
    /\ linked' = linked \ {<<c, s>>}
    /\ Cut({<<c, s>>})
    /\ UNCHANGED <<proc, conns, answered, timer, said>>

\* SIGTERM: Bare.exit(0), and the connections go with the process.
RoutingStop(p) ==
    LET gone == {x \in linked : x[1] = p \/ x[2] = p}
    IN  /\ proc[p] = "up"
        /\ proc' = [proc EXCEPT ![p] = "gone"]
        /\ linked' = linked \ gone
        /\ Cut(gone)
        /\ UNCHANGED <<conns, answered, timer, said>>

\* The server handles the call and answers it.
Serve(c, k) ==
    /\ calls[c][k].st = "sent"
    /\ calls' = SetCall(c, k, "served")
    /\ UNCHANGED <<proc, linked, conns, answered, timer, said>>

\* The callback, with the answer or with an error.
Finish(c, k) ==
    /\ proc[c] = "up"
    /\ calls[c][k].st \in {"served", "cut"}
    /\ calls' = SetCall(c, k, "done")
    /\ answered' = [answered EXCEPT ![c] = TRUE]
    /\ said' = [said EXCEPT ![c] =
                    Append(@, IF calls[c][k].st = "served" THEN "response" ELSE "error")]
    /\ UNCHANGED <<proc, linked, conns, timer>>

\* Mutations: the timer warns whatever came; it is set up by a connection.
NoPeerAlways(c) ==
    /\ proc[c] = "up" /\ timer[c]
    /\ timer' = [timer EXCEPT ![c] = FALSE]
    /\ said' = [said EXCEPT ![c] = Append(@, "no-peer")]
    /\ UNCHANGED <<proc, linked, conns, calls, answered>>

NoPeerConnected(c) ==
    /\ proc[c] = "up" /\ timer[c] /\ conns[c] > 0
    /\ timer' = [timer EXCEPT ![c] = FALSE]
    /\ said' = [said EXCEPT ![c] = IF answered[c] THEN @ ELSE Append(@, "no-peer")]
    /\ UNCHANGED <<proc, linked, conns, calls, answered>>

\* The 8 s timer: it asks for an answer, not for a connection, and leaves the
\* flag alone, so that the call is still made and answered afterwards.
NoPeer(c) ==
    /\ proc[c] = "up" /\ timer[c]
    /\ timer' = [timer EXCEPT ![c] = FALSE]
    /\ said' = [said EXCEPT ![c] = IF answered[c] THEN @ ELSE Append(@, "no-peer")]
    /\ UNCHANGED <<proc, linked, conns, calls, answered>>

RoutingNext ==
    \/ \E p \in Server \cup Client : RoutingStart(p) \/ RoutingStop(p)
    \/ \E c \in Client :
          \/ NoPeer(c)
          \/ \E s \in Server : Connect(c, s) \/ Lose(c, s)
          \/ \E k \in DOMAIN calls[c] : Serve(c, k) \/ Finish(c, k)

\* A process that runs handles what it is sent, and its timers fire.  Nothing
\* makes a node start or stop, or a connection come or go.
RoutingFairness ==
    \A c \in Client :
        /\ WF_routingVars(NoPeer(c))
        /\ \A k \in 1..MaxConns :
              /\ WF_routingVars(k \in DOMAIN calls[c] /\ Serve(c, k))
              /\ WF_routingVars(k \in DOMAIN calls[c] /\ Finish(c, k))

RoutingSpec == RoutingInit /\ [][RoutingNext]_routingVars /\ RoutingFairness

-----------------------------------------------------------------------------
(***************************************************************************)
(* Properties.                                                             *)
(***************************************************************************)
\* The shapes of the variables; a call in flight has its connection.
RoutingTypeOK ==
    /\ proc \in [Server \cup Client -> {"off", "up", "gone"}]
    /\ linked \subseteq Client \X Server
    /\ conns \in [Client -> 0..MaxConns]
    /\ calls \in [Client -> Seq(Call)]
    /\ answered \in [Client -> BOOLEAN]
    /\ timer \in [Client -> BOOLEAN]
    /\ said \in [Client -> Seq(Outcome)]

\* The 8 s timer races the answers of calls on several connections, some of them
\* lost and made again: a client says 'no-peer' at most once, and never after it
\* has said how one of its calls ended.
FallbackComesFirst ==
    \A c \in Routed : \A k \in DOMAIN said[c] : said[c][k] = "no-peer" => k = 1

\* Every route comes to an end: a phase-3 client that stays up says something,
\* whether or not anyone serves its name, and every call of either program is
\* called back, whatever happens to its connection.
RoutesEnd ==
    \A c \in Client :
        /\ c \in Routed => ((proc[c] = "up") ~> (said[c] # <<>> \/ proc[c] = "gone"))
        /\ \A k \in 1..MaxConns :
              (k \in Pending(c)) ~> (k \notin Pending(c) \/ proc[c] = "gone")
=============================================================================
