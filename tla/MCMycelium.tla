----------------------------- MODULE MCMycelium -----------------------------
(* Small instances of Mycelium for TLC. *)
EXTENDS Mycelium

CONSTANT MaxEntries   \* files and folders in main (bound)

FewEntries == main = Missing \/ Cardinality(Contents(main)) <= MaxEntries
=============================================================================
