------------------------------- MODULE GitLog -------------------------------
(***************************************************************************)
(* A git repository with one branch on a hyperdrive.                       *)
(*                                                                         *)
(* The drive is append-only: every put adds one entry, and the length of   *)
(* the log is drive.version, so a replica at version v reads exactly the   *)
(* first v entries.  Git loose objects are named by their content; here an *)
(* object IS its content, and a commit, whose parent would nest forever,   *)
(* is named by the position of its entry.                                  *)
(*                                                                         *)
(* An entry is the object put and, as 'main', the commit that              *)
(* .git/refs/heads/main names after it (0 while there is none).            *)
(***************************************************************************)
EXTENDS Naturals, Sequences

Commit(tree, parent) == [type |-> "commit", tree |-> tree, parent |-> parent]
Ref(c) == [type |-> "ref", commit |-> c]

Stored(log, v) == {log[k].put : k \in 1..v}

HeadAt(log, v) == IF v = 0 THEN 0 ELSE log[v].main

\* isomorphic-git writes a loose object only if the path does not exist yet.
WriteObject(log, o) ==
    IF o \in Stored(log, Len(log))
    THEN log
    ELSE Append(log, [put |-> o, main |-> HeadAt(log, Len(log))])

\* writeRef(force): always a put, whatever the ref was.
WriteRef(log, c) == Append(log, [put |-> Ref(c), main |-> c])
=============================================================================
