-------------------------- MODULE MCSwarmRegistry --------------------------
(* Small instances of SwarmRegistry for TLC. *)
EXTENDS SwarmRegistry, TLC

MCOrder == <<"packages", "home", "swarm">>
MCFolder == {"packages", "home", "swarm"}

\* Tasks are interchangeable, and so are the names that are not files.
RegistrySymmetry == Permutations(Task) \cup Permutations(Name \ FileName)
=============================================================================
