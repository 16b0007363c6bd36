---------------------------- MODULE CommitSwarm ----------------------------
(***************************************************************************)
(* spl7-phase-2: a platform that seeds the tree as git objects and commits *)
(* it once (platform/platform.js, platform/tree.js; those of spl7-phase-3  *)
(* are the same), and nodes that join and read it (join/join.js).          *)
(*                                                                         *)
(* Where spl7-phase-1 takes a file for the sign that the tree is there,    *)
(* this one takes main, which is put last: a seed that was killed is done  *)
(* over, among the objects it left, with another time in the identity.     *)
(*                                                                         *)
(* What git init writes is not among the objects.  A drive whose platform  *)
(* is on the swarm has its main and is not written to any more, so a node  *)
(* that has had one update reads it as it is.                              *)
(***************************************************************************)
EXTENDS GitLog, SequencesExt

CONSTANTS
    FolderOrder,       \* the folders in the order seedTree takes them
    Config, Packages,  \* the one that holds the identity, and one that is read
    MaxSeeds,          \* how often it starts to seed (bound)
    Reader             \* the nodes that join

ASSUME CommitAssumption ==
    /\ FolderOrder \in Seq(ToSet(FolderOrder))
    /\ {Config, Packages} \subseteq ToSet(FolderOrder)
    /\ MaxSeeds \in Nat

VARIABLES
    owner,    \* where the platform's main() or its shutdown is
    stamp,    \* when it last started to seed: the time goes into the identity
    writing,  \* the folder seedTree is at and the object of it that is next
    objects,  \* the platform's drive, as in GitLog
    reader,   \* where each node's main() is
    step,     \* the read it comes to next
    got,      \* the objects its reads brought
    ends      \* the nodes with a connection to the platform

ownerVars  == <<owner, stamp, writing, objects>>
readerVars == <<reader, step, got>>
commitVars == <<ownerVars, readerVars, ends>>

-----------------------------------------------------------------------------
(***************************************************************************)
(* Objects: trees hold what they name.                                     *)
(***************************************************************************)
MetaBlob(f)     == [type |-> "meta", folder |-> f]
IdentityBlob(t) == [type |-> "identity", stamp |-> t]

Blobs(f, t) == IF f = Config THEN <<MetaBlob(f), IdentityBlob(t)>> ELSE <<MetaBlob(f)>>

FolderTree(f, t) == [type |-> "tree", blobs |-> Blobs(f, t)]
RootTree(t) ==
    [type |-> "root", trees |-> [k \in DOMAIN FolderOrder |-> FolderTree(FolderOrder[k], t)]]

\* seedTree: the blobs of a folder and then its tree; after the folders the root tree.
FolderObjects(f, t) == Append(Blobs(f, t), FolderTree(f, t))

SeedObjects(t) ==
    {RootTree(t)} \cup UNION {ToSet(FolderObjects(f, t)) : f \in ToSet(FolderOrder)}

FirstObject(k) == [folder |-> k, object |-> 1]

MainCommit == HeadAt(objects, Len(objects))
MainTree   == objects[MainCommit].put.tree

TreeOf(f)   == CHOOSE tr \in ToSet(MainTree.trees) : MetaBlob(f) \in ToSet(tr.blobs)
IsStored(o) == o \in Stored(objects, Len(objects))

\* What the reads of a node come to, one after the other: select of the root and of
\* config (in three modes), get of the identity, read of the meta of packages.
ReadsOf ==
    << {MainTree},
       {TreeOf(Config)},
       {b \in ToSet(TreeOf(Config).blobs) : b.type = "identity"},
       {TreeOf(Packages), MetaBlob(Packages)} >>

\* A read throws if there is no main, no such path, or an object is missing.
Brings(k) == MainCommit # 0 /\ ReadsOf[k] # {} /\ \A o \in ReadsOf[k] : IsStored(o)

CommitInit ==
    /\ owner = "down"
    /\ stamp = 0
    /\ writing = FirstObject(1)
    /\ objects = <<>>
    /\ reader = [n \in Reader |-> "off"]
    /\ step = [n \in Reader |-> 1]
    /\ got = [n \in Reader |-> {}]
    /\ ends = {}

-----------------------------------------------------------------------------
(***************************************************************************)
(* The platform.                                                           *)
(***************************************************************************)
\* open, and log of main, which throws while there is none.
OwnerBoots ==
    /\ owner = "down"
    /\ \/ MainCommit # 0 /\ owner' = "show" /\ UNCHANGED stamp
       \/ MainCommit = 0 /\ stamp < MaxSeeds /\ owner' = "seeding" /\ stamp' = stamp + 1
    /\ writing' = FirstObject(1)
    /\ UNCHANGED <<objects, readerVars, ends>>

\* The next writeBlob or writeTree of a folder.
SeedObject ==
    LET these == FolderObjects(FolderOrder[writing.folder], stamp)
        last  == writing.object = Len(these)
    IN  /\ owner = "seeding"
        /\ objects' = WriteObject(objects, these[writing.object])
        /\ writing' = IF last THEN FirstObject(writing.folder + 1)
                      ELSE [writing EXCEPT !.object = @ + 1]
        /\ owner' = IF last /\ writing.folder = Len(FolderOrder) THEN "root" ELSE owner
        /\ UNCHANGED <<stamp, readerVars, ends>>

SeedRoot ==
    /\ owner = "root"
    /\ objects' = WriteObject(objects, RootTree(stamp))
    /\ owner' = "commit"
    /\ UNCHANGED <<stamp, writing, readerVars, ends>>

\* commitTree: no main, so no parent; the commit and then the ref.
SeedCommit ==
    /\ owner = "commit"
    /\ objects' = WriteObject(objects, Commit(RootTree(stamp), MainCommit))
    /\ owner' = "ref"
    /\ UNCHANGED <<stamp, writing, readerVars, ends>>

SeedRef ==
    /\ owner = "ref"
    /\ \E c \in DOMAIN objects :
          /\ objects[c].put = Commit(RootTree(stamp), MainCommit)
          /\ objects' = WriteRef(objects, c)
    /\ owner' = "show"
    /\ UNCHANGED <<stamp, writing, readerVars, ends>>

\* select('/'), select('/config'), get of the identity: a throw is fatal.
OwnerShows ==
    /\ owner = "show"
    /\ owner' = IF \A k \in 1..3 : Brings(k) THEN "join" ELSE "fatal"
    /\ UNCHANGED <<stamp, writing, objects, readerVars, ends>>

\* The swarm is joined and flushed; the handlers for the signals are there.
OwnerServes ==
    /\ owner = "join"
    /\ owner' = "up"
    /\ UNCHANGED <<stamp, writing, objects, readerVars, ends>>

\* shutdown: a second signal returns at once.
OwnerStops ==
    /\ owner = "up"
    /\ owner' = "stopping"
    /\ ends' = {}
    /\ UNCHANGED <<stamp, writing, objects, readerVars>>

\* process.exit, a kill, or a signal before there is a handler.
OwnerExits ==
    /\ owner # "down"
    /\ owner' = "down"
    /\ ends' = {}
    /\ UNCHANGED <<stamp, writing, objects, readerVars>>

-----------------------------------------------------------------------------
(***************************************************************************)
(* A node.                                                                 *)
(***************************************************************************)
ReaderStarts(n) ==
    /\ reader[n] = "off"
    /\ reader' = [reader EXCEPT ![n] = "joining"]
    /\ UNCHANGED <<ownerVars, step, got, ends>>

ReaderLinks(n) ==
    /\ reader[n] # "off" /\ n \notin ends /\ owner \in {"join", "up"}
    /\ ends' = ends \cup {n}
    /\ UNCHANGED <<ownerVars, readerVars>>

ReaderUnlinks(n) ==
    /\ n \in ends
    /\ ends' = ends \ {n}
    /\ UNCHANGED <<ownerVars, readerVars>>

\* flush and update, which waits for the platform.
ReaderUpdates(n) ==
    /\ reader[n] = "joining" /\ n \in ends
    /\ reader' = [reader EXCEPT ![n] = "reading"]
    /\ UNCHANGED <<ownerVars, step, got, ends>>

\* The next read, by way of main; it waits for a connection (a block the node's store
\* has from before says the same).  A throw is fatal: exit(1).
ReadNext(n) ==
    LET last == step[n] = 4
        ok   == Brings(step[n])
    IN  /\ reader[n] = "reading" /\ n \in ends
        /\ got' = [got EXCEPT ![n] = IF ok THEN @ \cup ReadsOf[step[n]] ELSE @]
        /\ step' = [step EXCEPT ![n] = IF last THEN @ ELSE @ + 1]
        /\ reader' = [reader EXCEPT ![n] = IF ~ ok THEN "fatal" ELSE IF last THEN "ready" ELSE @]
        /\ UNCHANGED <<ownerVars, ends>>

\* shutdown, a kill, or an error: process.exit.
ReaderStops(n) ==
    /\ reader[n] # "off"
    /\ reader' = [reader EXCEPT ![n] = "off"]
    /\ step' = [step EXCEPT ![n] = 1]
    /\ got' = [got EXCEPT ![n] = {}]
    /\ ends' = ends \ {n}
    /\ UNCHANGED ownerVars

CommitNext ==
    \/ OwnerBoots \/ SeedObject \/ SeedRoot \/ SeedCommit \/ SeedRef
    \/ OwnerShows \/ OwnerServes \/ OwnerStops \/ OwnerExits
    \/ \E n \in Reader : ReaderStarts(n) \/ ReaderLinks(n) \/ ReaderUnlinks(n)
                            \/ ReaderUpdates(n) \/ ReadNext(n) \/ ReaderStops(n)

CommitSpec == CommitInit /\ [][CommitNext]_commitVars

-----------------------------------------------------------------------------
(***************************************************************************)
(* Properties.                                                             *)
(***************************************************************************)
\* The shapes of the variables.
CommitTypeOK ==
    /\ owner \in {"down", "seeding", "root", "commit", "ref", "show", "join", "up", "stopping", "fatal"}
    /\ stamp \in 0..MaxSeeds
    /\ writing \in [folder : 1..(Len(FolderOrder) + 1), object : 1..3]
    /\ \A k \in 1..Len(objects) : objects[k].main \in 0..k
    /\ reader \in [Reader -> {"off", "joining", "reading", "ready", "fatal"}]
    /\ step \in [Reader -> 1..4]
    /\ DOMAIN got = Reader /\ \A n \in Reader : \A o \in got[n] : IsStored(o)
    /\ ends \subseteq Reader

\* Wherever the seed was killed and however often it was done over, main names a tree
\* of one seed with nothing missing, at any version; nobody's reads fail; and what a
\* node that is ready has read is what main names now, whenever it joined: no start
\* of the platform since has put another identity.
SeedIsOnce ==
    /\ \A v \in 1..Len(objects) : HeadAt(objects, v) # 0 =>
          \E t \in 1..MaxSeeds : /\ objects[HeadAt(objects, v)].put = Commit(RootTree(t), 0)
                           /\ SeedObjects(t) \subseteq Stored(objects, v)
    /\ owner # "fatal" /\ \A n \in Reader : reader[n] # "fatal"
    /\ \A n \in Reader : reader[n] = "ready" => got[n] = UNION ToSet(ReadsOf)
=============================================================================
