---------------------------- MODULE HyperdriveFs ----------------------------
(***************************************************************************)
(* Files on a hyperdrive: a flat set of keys, with folders only implied.   *)
(* The adapter that git works on (lib/hyperdrive-fs.js) and the listing    *)
(* the web page asks for (listDir in ui/http.js).                          *)
(*                                                                         *)
(* A path is the sequence of its names, the root <<>>; a key is the path   *)
(* of a file, so that one key may lie below another.                       *)
(***************************************************************************)
EXTENDS Naturals, Sequences

\* External: drive.list, every key below a folder, at any depth, in key order.
List(keys, path) == {q \in keys : Len(q) > Len(path) /\ SubSeq(q, 1, Len(path)) = path}

Unlink(keys, path) == keys \ {path}

\* writeFile is one put; mkdir puts nothing.
WriteFile(keys, path) == keys \cup {path}

\* Mutation: only what is directly below is removed.
RmdirShallow(keys, path, recursive) ==
    IF recursive THEN {q \in keys : q \notin List(keys, path) \/ Len(q) > Len(path) + 1} ELSE keys

\* Without recursive there is nothing to remove; with it, all there is below.
Rmdir(keys, path, recursive) == IF recursive THEN keys \ List(keys, path) ELSE keys

Rm(keys, path, recursive) ==
    IF recursive THEN Rmdir(keys, path, recursive) ELSE Unlink(keys, path)

\* A key is a file even if others lie below it; readFile finds keys only.
Lstat(keys, path) ==
    CASE path \in keys -> "file"
      [] path \notin keys /\ List(keys, path) # {} -> "dir"
      [] OTHER -> "ENOENT"

ReadFile(keys, path) == IF path \in keys THEN "content" ELSE "ENOENT"

\* The names that follow the path in the keys below it; none for a file, and
\* none, not an error, for a path that does not exist.
Readdir(keys, path) == {q[Len(path) + 1] : q \in List(keys, path)}

\* listDir: each name once, with the type of the first of its keys, which is the
\* shortest one.
ListDir(keys, path) ==
    {[name |-> n, type |-> IF Append(path, n) \in keys THEN "file" ELSE "dir"] :
        n \in Readdir(keys, path)}

-----------------------------------------------------------------------------
(***************************************************************************)
(* The lookups of the mount (fuse/mount.js of phase-7), on a listing.  An  *)
(* overlay is a file of the host shown over the drive; it is there if it   *)
(* is in host.                                                             *)
(***************************************************************************)
OverlayDirs(overlays) == UNION {{SubSeq(o, 1, n) : n \in 1..(Len(o) - 1)} : o \in overlays}

OverlayNamesIn(overlays, path) == Readdir(overlays, path)

MountReaddir(keys, overlays, path) == Readdir(keys, path) \cup OverlayNamesIn(overlays, path)

MountGetattr(keys, overlays, host, path) ==
    CASE path = <<>> -> "dir"
      [] path # <<>> /\ path \in overlays \cap host -> "file"
      [] path # <<>> /\ path \notin overlays \cap host /\ path \in OverlayDirs(overlays) -> "dir"
      [] OTHER -> Lstat(keys, path)

\* A read without a buffer: an overlay that is not there is an error.
MountRead(keys, overlays, host, path) ==
    CASE path \in overlays /\ path \in host -> "host"
      [] path \in overlays /\ path \notin host -> "EIO"
      [] OTHER -> ReadFile(keys, path)
=============================================================================
