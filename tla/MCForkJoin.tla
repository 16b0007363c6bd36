----------------------------- MODULE MCForkJoin -----------------------------
(* Small instances of ForkJoin for TLC. *)
EXTENDS ForkJoin

CONSTANTS config, home, swarm

Folders == {config, home, swarm}
Order == <<config, home, swarm>>
=============================================================================
