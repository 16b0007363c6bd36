------------------------------ MODULE Mycelium ------------------------------
(***************************************************************************)
(* The mycelium repository API (lib/mycelium.js): paths over git trees.    *)
(*                                                                         *)
(* put and remove rebuild the trees from the path's leaf up to the root    *)
(* and return the new root, which is not part of the repository until      *)
(* commitTree makes main name it; select, get and read answer from main.   *)
(* A git object is immutable and named by its content, so a tree is the    *)
(* value of what it contains.                                              *)
(***************************************************************************)
EXTENDS Naturals, Sequences, FiniteSets, HyperdriveFs

CONSTANTS
    Name,       \* the segments of paths
    Metadata,   \* the names that start with '_'
    Value,      \* the contents of files
    MaxDepth,   \* the longest path used (bound)
    Blank,      \* the empty segment of '//' or of a trailing '/'
    Missing     \* null: no such entry, no tree

ASSUME MyceliumAssumption ==
    /\ Metadata \subseteq Name
    /\ Blank \notin Name
    /\ Missing \notin Value
    /\ MaxDepth \in Nat \ {0}

VARIABLES
    main,       \* the tree of the commit main names, or Missing
    staged      \* the tree the caller's last put or remove returned, or Missing

vars == <<main, staged>>

Path == UNION {[1..n -> Name] : n \in 1..MaxDepth}

-----------------------------------------------------------------------------
(***************************************************************************)
(* Trees.                                                                  *)
(***************************************************************************)
File(v)      == [type |-> "blob", value |-> v]
Tree(entries) == [type |-> "tree", entries |-> entries]

\* The objects that have at most so many levels of entries below them, of which
\* null is none.
Objects[levels \in 0..MaxDepth] ==
    {File(v) : v \in Value} \cup
        IF levels = 0 THEN {}
        ELSE {Tree(entries) : entries \in UNION {[S -> Objects[levels - 1]] : S \in SUBSET Name}}

ASSUME MissingAssumption == Missing \notin Objects[MaxDepth]

IsTree(node) == node # Missing /\ node.type = "tree"

NoEntries == [n \in {} |-> Missing]

Entries(node) == IF node = Missing THEN NoEntries ELSE node.entries

Entry(node, name) ==
    IF IsTree(node) /\ name \in DOMAIN node.entries THEN node.entries[name] ELSE Missing

\* Mutation: a removed entry leaves a hole.
WithoutHole(entries, name) == [entries EXCEPT ![name] = Missing]

With(entries, name, node) ==
    [n \in DOMAIN entries \cup {name} |-> IF n = name THEN node ELSE entries[n]]

Without(entries, name) == [n \in DOMAIN entries \ {name} |-> entries[n]]

\* path.split('/').filter(Boolean)
Segments(path) ==
    LET kept[n \in 0..Len(path)] ==
            IF n = 0 THEN <<>>
            ELSE IF path[n] = Blank THEN kept[n - 1] ELSE Append(kept[n - 1], path[n])
    IN  kept[Len(path)]

\* resolvePath: the entry, or null if it or a folder on the way is not there.
ResolvePath(root, path) ==
    LET s == Segments(path)
        node[k \in 0..Len(s)] == IF k = 0 THEN root ELSE Entry(node[k - 1], s[k])
    IN  node[Len(s)]

\* A file stands where the path needs a folder.
Blocked(root, s) ==
    \E k \in 1..(Len(s) - 1) :
        LET on == ResolvePath(root, SubSeq(s, 1, k)) IN on # Missing /\ ~ IsTree(on)

\* Mutation: a folder is replaced by a file put at its path.
ConflictLoose(root, s, node) ==
    \/ s = <<>> \/ Blocked(root, s)
    \/ node = Missing /\ ResolvePath(root, s) = Missing

\* modifyTree throws: at the root, below a file, at a folder where a file is
\* put, or where nothing is to be removed.  node = Missing stands for remove.
Conflict(root, s, node) ==
    \/ s = <<>> \/ Blocked(root, s)
    \/ node = Missing /\ ResolvePath(root, s) = Missing
    \/ node # Missing /\ IsTree(ResolvePath(root, s))

\* walk(root, 0): down through the trees there are, and back up with new ones;
\* new[k] replaces the tree that has k segments of the path below it.
Walk(root, s, node) ==
    LET old(k) == Entries(ResolvePath(root, SubSeq(s, 1, k)))
        name(k) == s[Len(s) - k + 1]
        new[k \in 1..Len(s)] ==
            Tree(IF k > 1 THEN With(old(Len(s) - k), name(k), new[k - 1])
                 ELSE IF node = Missing THEN Without(old(Len(s) - 1), name(1))
                 ELSE With(old(Len(s) - 1), name(1), node))
    IN  new[Len(s)]

-----------------------------------------------------------------------------
(***************************************************************************)
(* The operations.                                                         *)
(***************************************************************************)
Init ==
    /\ main = Missing
    /\ staged = Missing

ModifyTree(path, node) ==
    /\ ~ Conflict(main, Segments(path), node)
    /\ staged' = Walk(main, Segments(path), node)
    /\ UNCHANGED main

\* put: no main is the same as an empty tree.
Put(path, v) == ModifyTree(path, File(v))

\* remove: getHeadTree throws if there is no main.
Remove(path) == main # Missing /\ ModifyTree(path, Missing)

\* commitTree of the tree the last put or remove returned.
CommitTree ==
    /\ staged # Missing
    /\ main' = staged
    /\ UNCHANGED staged

Next ==
    \/ \E path \in Path :
          \/ \E v \in Value : Put(path, v)
          \/ Remove(path)
    \/ CommitTree

Spec == Init /\ [][Next]_vars

\* Paths as given: the segments that a '/' precedes each; '' is <<>>, '/' is <<Blank>>.
GivenPath == UNION {[1..n -> Name \cup {Blank}] : n \in 0..MaxDepth}

\* get and read: a value, or Missing where get throws and read gives null.
Get(path) ==
    LET node == ResolvePath(main, path)
    IN  IF node = Missing \/ IsTree(node) THEN Missing ELSE node.value

Shown(mode) ==
    CASE mode = "raw" -> Name
      [] mode = "data" -> Name \ Metadata
      [] mode = "metadata" -> Metadata

Key(path, n) == IF path \in {<<>>, <<Blank>>} THEN <<n>> ELSE Append(path, n)

\* select: the entries of a folder, or the file itself whatever the mode.
Select(path, mode) ==
    LET node == ResolvePath(main, path)
    IN  CASE node = Missing -> {}
          [] IsTree(node) -> {[key |-> Key(path, n), node |-> node.entries[n]] :
                                 n \in DOMAIN node.entries \cap Shown(mode)}
          [] OTHER -> {[key |-> path, node |-> node]}

\* Records: a key, a value and headers, of which the last one with a key counts.
Record(key, value, headers) == [key |-> key, value |-> value, headers |-> headers]

Header(key, value) == [key |-> key, value |-> value]

AddHeader(record, key, value) ==
    [record EXCEPT !.headers = Append(@, Header(key, value))]

GetHeader(record, key) ==
    LET at == {i \in DOMAIN record.headers : record.headers[i].key = key}
    IN  IF at = {} THEN Missing
        ELSE record.headers[CHOOSE i \in at : \A j \in at : j <= i].value

WithStatus(record, status) == AddHeader(record, "status", status)

WithError(record, why) == AddHeader(WithStatus(record, "error"), "error", why)

\* The reply to a put or a remove: the tree it makes, which nobody has committed.
Staged(record, node) ==
    LET s == Segments(record.key)
    IN  IF Conflict(main, s, node) THEN WithError(record, "conflict")
        ELSE WithStatus(AddHeader(record, "tree", Walk(main, s, node)), "staged")

\* dispatch: what throws becomes an error reply.
Dispatch(record) ==
    LET op == GetHeader(record, "operation")
        value == Get(record.key)
    IN  CASE op \in {"get", "read"} /\ value # Missing ->
                WithStatus([record EXCEPT !.value = value], "ok")
          [] op = "put" -> Staged(record, File(record.value))
          [] op = "remove" /\ main # Missing -> Staged(record, Missing)
          [] op = "select" /\ main # Missing ->
                WithStatus([record EXCEPT !.value = Select(record.key, "raw")], "ok")
          [] OTHER -> WithError(record, "no such entry or operation")

-----------------------------------------------------------------------------
(***************************************************************************)
(* Properties.                                                             *)
(***************************************************************************)
\* Everything a tree contains, with its path: level by level, without paths.
Contents(root) ==
    LET level[k \in 0..MaxDepth] ==
            IF k = 0 THEN {[path |-> <<>>, node |-> root]}
            ELSE UNION {{[path |-> Append(x.path, n), node |-> x.node.entries[n]] :
                            n \in DOMAIN x.node.entries} :
                        x \in {y \in level[k - 1] : IsTree(y.node)}}
    IN  UNION {level[k] : k \in 1..MaxDepth}

StoreIn(root) ==
    LET contents == Contents(root)
        files == {x \in contents : ~ IsTree(x.node)}
        at(p) == {x.node.value : x \in {y \in files : y.path = p}}
    IN  [files   |-> [p \in Path |-> IF at(p) = {} THEN Missing ELSE CHOOSE v \in at(p) : TRUE],
         folders |-> {x.path : x \in contents \ files}]

\* Trees have files and trees in them, and nothing else.
TypeOK ==
    \A root \in {main, staged} \ {Missing} :
        /\ IsTree(root)
        /\ \A x \in Contents(root) :
              /\ x.path \in Path
              /\ x.node # Missing /\ (IsTree(x.node) \/ x.node.value \in Value)

\* get finds exactly the files there are, at whatever spelling of their paths,
\* and nothing at paths that only begin or end like theirs.
GetAgrees ==
    LET files == StoreIn(main).files
    IN  \A path \in GivenPath :
            Get(path) = IF Segments(path) = <<>> THEN Missing ELSE files[Segments(path)]

\* Browsing by the keys that select returns, from whatever spelling of a
\* folder's path, arrives at the entry shown, and shows every entry.
SelectAgrees ==
    LET paths == {x.path : x \in Contents(main)}
        folders == StoreIn(main).folders
    IN  \A path \in GivenPath :
            LET s == Segments(path)
            IN  s = <<>> \/ s \in folders =>
                  /\ \A e \in Select(path, "raw") : ResolvePath(main, e.key) = e.node
                  /\ {Segments(e.key) :
                          e \in Select(path, "data") \cup Select(path, "metadata")}
                        = {p \in paths : Len(p) = Len(s) + 1 /\ SubSeq(p, 1, Len(s)) = s}

\* What the trees promise, as a flat map of files with folders.
Store == INSTANCE FileStore WITH store <- StoreIn(main), NoValue <- Missing

\* The same files kept flat on a drive, as spl7-phase-1 does: whether listed by
\* the adapter or for the page, found, or removed, the implied folders are the
\* tree's own as far as there are files in them.
FlatAgrees ==
    LET store == StoreIn(main)
        flat(files) == {p \in Path : files[p] # Missing}
        keys == flat(store.files)
        after(p) == flat(Store!RemoveEntry(store, p).files)
    IN  /\ \A p \in Path :
              /\ ReadFile(keys, p) = "content" <=> Get(p) # Missing
              /\ Lstat(keys, p) = "file" => ListDir(keys, p) = {}
              /\ Lstat(keys, p) = "dir" => IsTree(ResolvePath(main, p))
              /\ after(p) = Rm(keys, p, p \in store.folders)
              /\ p \notin keys /\ Store!CanPut(store, p) =>
                    \A v \in Value : flat(Store!PutFile(store, p, v).files) = WriteFile(keys, p)
        /\ \A p \in Path \cup {<<>>} :
              /\ Readdir(keys, p) = {n \in Name : Lstat(keys, Append(p, n)) # "ENOENT"}
              /\ ListDir(keys, p) =
                    {[name |-> n, type |-> Lstat(keys, Append(p, n))] : n \in Readdir(keys, p)}

\* The mount of the flat files with an overlay, as /bin/bare in phase-7: whatever
\* the drive has at the same place, ls and stat show the same names, but for an
\* overlay that is missing on the host, and what stat calls a file can be read.
MountAgrees ==
    LET files == StoreIn(main).files
        keys == {p \in Path : files[p] # Missing}
        found(o, host, p) ==
            {n \in Name : MountGetattr(keys, {o}, host, Append(p, n)) # "ENOENT"}
    IN  \A o \in {<<n, n>> : n \in Name} : \A host \in {{o}, {}} : \A p \in Path \cup {<<>>} :
            /\ found(o, host, p) \subseteq MountReaddir(keys, {o}, p)
            /\ \A n \in MountReaddir(keys, {o}, p) \ found(o, host, p) : Append(p, n) = o /\ host = {}
            /\ MountGetattr(keys, {o}, host, p) = "file" =>
                  MountRead(keys, {o}, host, p) \in {"content", "host"} \/ (p = o /\ host = {})

\* A caller that only sees the replies can tell what happened, even with a record
\* that has failed before: an error is what the flat map of files cannot do, and
\* any other reply has the file, or the tree with the change and no other.
DispatchAgrees ==
    LET store == StoreIn(main)
        failed == WithError(Record(<<>>, Missing, <<Header("operation", "put")>>), "conflict")
        reply(op, p, v) == Dispatch(AddHeader(Record(p, v, failed.headers), "operation", op))
        isError(r) == GetHeader(r, "status") = "error"
        change(r) == StoreIn(GetHeader(r, "tree"))
    IN  \A p \in Path :
            LET get == reply("get", p, Missing)
                remove == reply("remove", p, Missing)
            IN  /\ isError(get) <=> store.files[p] = Missing
                /\ ~ isError(get) => get.value = store.files[p]
                /\ isError(remove) <=> store.files[p] = Missing /\ p \notin store.folders
                /\ ~ isError(remove) => change(remove) = Store!RemoveEntry(store, p)
                /\ \A v \in Value :
                      LET put == reply("put", p, v)
                      IN  /\ isError(put) <=> ~ Store!CanPut(store, p)
                          /\ ~ isError(put) => change(put) = Store!PutFile(store, p, v)

\* What the API, the files on a drive and the mount of them answer.
ReadsAgree == GetAgrees /\ SelectAgrees /\ DispatchAgrees /\ FlatAgrees /\ MountAgrees

\* With one caller every commit is one put or one remove on a flat map of files
\* with folders: rebuilding the trees of a path loses and invents nothing else.
ImplementsFiles == Store!Spec
=============================================================================
