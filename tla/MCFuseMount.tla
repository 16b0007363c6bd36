---------------------------- MODULE MCFuseMount ----------------------------
(* Small instances of FuseMount for TLC. *)
EXTENDS FuseMount, TLC

\* Descriptors, and lookups, are interchangeable.
CallSymmetry == Permutations(Fd) \cup Permutations(Query)
=============================================================================
