----------------------------- MODULE FileStore -----------------------------
(***************************************************************************)
(* What the mycelium API promises of its tree: a flat map from paths to    *)
(* contents, with folders that come into being under a file and stay until *)
(* they are removed themselves.                                            *)
(***************************************************************************)
EXTENDS Naturals, Sequences

CONSTANTS
    Path,       \* non-empty sequences of names, closed under prefixes
    Value,
    NoValue

VARIABLE store  \* files: the content of each path, or NoValue; folders: paths

Empty == [files |-> [p \in Path |-> NoValue], folders |-> {}]

Above(p) == {SubSeq(p, 1, k) : k \in 1..(Len(p) - 1)}
Below(p) == {q \in Path : Len(q) >= Len(p) /\ SubSeq(q, 1, Len(p)) = p}

CanPut(s, p) == p \notin s.folders /\ \A q \in Above(p) : s.files[q] = NoValue

PutFile(s, p, v) ==
    [files |-> [s.files EXCEPT ![p] = v], folders |-> s.folders \cup Above(p)]

RemoveEntry(s, p) ==
    [files   |-> [q \in Path |-> IF q \in Below(p) THEN NoValue ELSE s.files[q]],
     folders |-> s.folders \ Below(p)]

Init == store = Empty

Next ==
    \/ store' \in {PutFile(store, p, v) : p \in {q \in Path : CanPut(store, q)}, v \in Value}
    \/ store' \in {RemoveEntry(store, p) : p \in Path}

Spec == Init /\ [][Next]_store
=============================================================================
