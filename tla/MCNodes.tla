------------------------------ MODULE MCNodes -------------------------------
(* The programs that only exchange messages: each behaviour is that of one. *)
EXTENDS TLC, Routing, Mesh, ManagedCode

VARIABLE program

vars == <<routingVars, meshVars, managedVars, program>>

\* A service with two servers, called by a phase-3 and by a phase-2 client, and
\* a phase-3 client of a service that nobody serves.
MCServiceOf == [p \in {"s1", "s2", "c1", "c2"} |-> "greet"] @@ [p \in {"c3"} |-> "missing"]

\* One worker with two roles, and a client of each.
MCRoleOrder == <<"echo", "reverse">>
MCRolesOf == [w \in {"w"} |-> <<"echo", "reverse">>]
MCTarget == [c \in {"k1", "k2"} |-> "w"]
MCService == [k1 |-> "echo", k2 |-> "reverse"]

\* Bounds: the phase-2 client runs without the others, the managed clients apart;
\* two connections in a mesh carry one line each way, one connection two.
MCInit ==
    /\ RoutingInit /\ MeshInit /\ ManagedInit
    /\ program \in {"routing", "rpc", "mesh", "long mesh", "managed", "managed late"}

MCNext ==
    /\ \/ /\ program = "routing" /\ RoutingNext /\ UNCHANGED <<meshVars, managedVars>>
          /\ proc'["c2"] = "off"
       \/ /\ program = "rpc" /\ RoutingNext /\ UNCHANGED <<meshVars, managedVars>>
          /\ \A c \in Routed : proc'[c] = "off"
       \/ /\ program = "mesh" /\ MeshNext /\ UNCHANGED <<routingVars, managedVars>>
          /\ \A n \in Member : next'[n] <= 1
       \/ /\ program = "long mesh" /\ MeshNext /\ UNCHANGED <<routingVars, managedVars>>
          /\ Len(ends') <= 1
       \/ /\ program = "managed" /\ ManagedNext /\ UNCHANGED <<routingVars, meshVars>>
          /\ mpc'["k2"] = "off"
       \/ /\ program = "managed late" /\ ManagedNext /\ UNCHANGED <<routingVars, meshVars>>
          /\ mpc'["k1"] = "off"
    /\ UNCHANGED program

MCSpec ==
    /\ MCInit /\ [][MCNext]_vars
    /\ RoutingFairness /\ MeshFairness /\ ManagedFairness

\* The shapes of the variables of the three modules.
NodesTypeOK == RoutingTypeOK /\ MeshTypeOK /\ ManagedTypeOK
=============================================================================
