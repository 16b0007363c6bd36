------------------------------ MODULE FuseMount ------------------------------
(***************************************************************************)
(* The FUSE mount of a drive (fuse/mount.js).                              *)
(*                                                                         *)
(* Lookups (readdir, getattr) answer from a listing of the whole drive     *)
(* that is cached for TTL; writes go to a buffer per descriptor that       *)
(* release puts on the drive as the whole file.  drive.list, put and del   *)
(* are awaited, so callbacks overlap; the node itself, or replication,     *)
(* changes the drive behind the mount without telling it.                  *)
(***************************************************************************)
EXTENDS Naturals, Sequences

CONSTANTS
    File,       \* paths
    Fd,         \* descriptors that can be open at once (bound)
    Query,      \* lookups that can be under way at once (bound)
    Byte,       \* the bytes written; 0 is what alloc() fills in
    MaxLen,     \* longest file (bound)
    TTL,        \* CACHE_TTL
    MaxTime,    \* how long the clock runs (bound)
    None        \* no file, no buffer, no listing

ASSUME MountAssumption ==
    /\ MaxLen \in Nat /\ TTL \in Nat \ {0} /\ MaxTime \in Nat
    /\ Byte \subseteq Nat \ {0}
    /\ None \notin Nat /\ None \notin Seq(Nat)
    /\ File # {}

VARIABLES
    drive,      \* what each path holds: bytes, or None
    cache,      \* the cached listing (or None) and its time
    fds,        \* openFiles, and how far each release is
    dels,       \* paths deleted whose unlink has yet to invalidate the cache
    queries,    \* lookups that await drive.list
    clock,      \* Date.now()
    want,       \* history: what the calls on each open descriptor make of its file
    past,       \* history: the listings the drive had at each time
    due         \* history: paths changed by a callback that ended with no listing under way

vars == <<drive, cache, fds, dels, queries, clock, want, past, due>>

Content == UNION {[1..n -> Byte \cup {0}] : n \in 0..MaxLen}
Listing == [File -> Nat \cup {None}]

\* What drive.list tells of a drive: the paths, and the size of each.
Listed(d) == [f \in File |-> IF d[f] = None THEN None ELSE Len(d[f])]

NoCache == [entries |-> None, time |-> 0]

Closed == [state |-> "closed", path |-> CHOOSE f \in File : TRUE,
           buf |-> None, dirty |-> FALSE, created |-> FALSE]

Descriptor == [state : {"closed", "open", "putting", "stored"}, path : File,
               buf : Content \cup {None}, dirty : BOOLEAN, created : BOOLEAN]

IdleQuery == [state |-> "idle", now |-> 0, entries |-> None]

\* A file by what POSIX calls say: bytes by position, and a size.
Bytes  == [data : [1..MaxLen -> Byte \cup {0}], size : 0..MaxLen]
NoFile == [data |-> [i \in 1..MaxLen |-> 0], size |-> 0]

Init ==
    /\ drive = [f \in File |-> None]
    /\ cache = NoCache
    /\ fds = [d \in Fd |-> Closed]
    /\ dels = {}
    /\ queries = [q \in Query |-> IdleQuery]
    /\ clock = 0
    /\ want = [d \in Fd |-> NoFile]
    /\ past = [t \in 0..MaxTime |-> IF t = 0 THEN {Listed(drive)} ELSE {}]
    /\ due = {}

Tick ==
    /\ clock < MaxTime
    /\ clock' = clock + 1
    /\ past' = [past EXCEPT ![clock + 1] = {Listed(drive)}]
    /\ UNCHANGED <<drive, cache, fds, dels, queries, want, due>>

-----------------------------------------------------------------------------
(***************************************************************************)
(* Lookups: refreshCache.                                                  *)
(***************************************************************************)
\* readdir or getattr finds no cache it may use; 'now' is read before the list.
\* A usable cache answers at once and changes nothing.
Lookup(q) ==
    /\ queries[q].state = "idle"
    /\ cache.entries = None \/ clock - cache.time >= TTL
    /\ queries' = [queries EXCEPT ![q] = [IdleQuery EXCEPT !.state = "begun", !.now = clock]]
    /\ UNCHANGED <<drive, cache, fds, dels, clock, want, past, due>>

\* drive.list reads one version of the drive.
List(q) ==
    /\ queries[q].state = "begun"
    /\ queries' = [queries EXCEPT ![q].state = "listed", ![q].entries = Listed(drive)]
    /\ UNCHANGED <<drive, cache, fds, dels, clock, want, past, due>>

\* It throws, and the lookup answers "no such file".
ListFails(q) ==
    /\ queries[q].state = "begun"
    /\ queries' = [queries EXCEPT ![q] = IdleQuery]
    /\ UNCHANGED <<drive, cache, fds, dels, clock, want, past, due>>

CacheAt(q, time) ==
    /\ queries[q].state = "listed"
    /\ cache' = [entries |-> queries[q].entries, time |-> time]
    /\ queries' = [queries EXCEPT ![q] = IdleQuery]
    /\ UNCHANGED <<drive, fds, dels, clock, want, past, due>>

\* Mutation: the listing is dated when it is complete.
RefreshLate(q) == CacheAt(q, clock)

\* Mutation: the listing is stored without its time.
RefreshUndated(q) == CacheAt(q, None)

\* The listing is complete: it replaces the cache, whatever happened meanwhile.
Refresh(q) == CacheAt(q, queries[q].now)

-----------------------------------------------------------------------------
(***************************************************************************)
(* Descriptors.                                                            *)
(***************************************************************************)
Posix(content) ==
    [data |-> [i \in 1..MaxLen |-> IF i <= Len(content) THEN content[i] ELSE 0],
     size |-> Len(content)]

\* open neither reads nor truncates the file.
Open(d, f) ==
    /\ fds[d].state = "closed"
    /\ drive[f] # None
    /\ fds' = [fds EXCEPT ![d] = [Closed EXCEPT !.state = "open", !.path = f]]
    /\ want' = [want EXCEPT ![d] = Posix(drive[f])]
    /\ UNCHANGED <<drive, cache, dels, queries, clock, past, due>>

Create(d, f) ==
    /\ fds[d].state = "closed"
    /\ fds' = [fds EXCEPT ![d] = [state |-> "open", path |-> f, buf |-> <<>>,
                                  dirty |-> TRUE, created |-> TRUE]]
    /\ cache' = NoCache
    /\ want' = [want EXCEPT ![d] = NoFile]
    /\ UNCHANGED <<drive, dels, queries, clock, past, due>>

Zeros(n) == [i \in 1..n |-> 0]

Buffer(d) == IF fds[d].buf = None THEN <<>> ELSE fds[d].buf

\* Mutation: the old bytes are not copied when the buffer grows.
GrownEmpty(buf, n) == IF n > Len(buf) THEN Zeros(n) ELSE buf

Grown(buf, n) == IF n > Len(buf) THEN buf \o Zeros(n - Len(buf)) ELSE buf

\* write of one byte at pos.
Write(d, pos, b) ==
    /\ fds[d].state = "open"
    /\ fds' = [fds EXCEPT ![d].buf = [Grown(Buffer(d), pos + 1) EXCEPT ![pos + 1] = b],
                          ![d].dirty = TRUE]
    /\ want' = [want EXCEPT ![d].data[pos + 1] = b,
                            ![d].size = IF pos < @ THEN @ ELSE pos + 1]
    /\ UNCHANGED <<drive, cache, dels, queries, clock, past, due>>

\* ftruncate: makes a buffer of zeros if there is none, and never lengthens one.
Ftruncate(d, n) ==
    /\ fds[d].state = "open"
    /\ fds' = [fds EXCEPT ![d].buf = IF @ = None THEN Zeros(n)
                                     ELSE IF n < Len(@) THEN SubSeq(@, 1, n) ELSE @,
                          ![d].dirty = TRUE]
    /\ want' = [want EXCEPT ![d] =
                   [data |-> [i \in 1..MaxLen |-> IF i <= n THEN @.data[i] ELSE 0],
                    size |-> n]]
    /\ UNCHANGED <<drive, cache, dels, queries, clock, past, due>>

\* release: puts the buffer if there is anything to put.
Release(d) ==
    /\ fds[d].state = "open"
    /\ fds' = [fds EXCEPT ![d] =
                  IF @.dirty /\ @.buf # None THEN [@ EXCEPT !.state = "putting"] ELSE Closed]
    /\ want' = [want EXCEPT ![d] = NoFile]
    /\ UNCHANGED <<drive, cache, dels, queries, clock, past, due>>

\* The drive comes to hold content under f.
Becomes(f, content) ==
    /\ drive' = [drive EXCEPT ![f] = content]
    /\ past' = [past EXCEPT ![clock] = @ \cup {Listed(drive')}]
    /\ due' = due \ {f}

\* drive.put takes effect.
Put(d) ==
    /\ fds[d].state = "putting"
    /\ Becomes(fds[d].path, fds[d].buf)
    /\ fds' = [fds EXCEPT ![d].state = "stored"]
    /\ UNCHANGED <<cache, dels, queries, clock, want>>

\* It throws: a replica is read-only, or the store is closed.  The buffer is gone.
PutFails(d) ==
    /\ fds[d].state = "putting"
    /\ fds' = [fds EXCEPT ![d] = Closed]
    /\ UNCHANGED <<drive, cache, dels, queries, clock, want, past, due>>

Finished(f) ==
    IF \A q \in Query : queries[q].state = "idle" THEN due \cup {f} ELSE due

\* Mutation: the cache is kept.
ReleasedKeeping(d) ==
    /\ fds[d].state = "stored"
    /\ fds' = [fds EXCEPT ![d] = Closed]
    /\ due' = Finished(fds[d].path)
    /\ UNCHANGED <<drive, cache, dels, queries, clock, want, past>>

\* release goes on after the put: invalidate, delete the descriptor, call back.
Released(d) ==
    /\ fds[d].state = "stored"
    /\ cache' = NoCache
    /\ fds' = [fds EXCEPT ![d] = Closed]
    /\ due' = Finished(fds[d].path)
    /\ UNCHANGED <<drive, dels, queries, clock, want, past>>

-----------------------------------------------------------------------------
(***************************************************************************)
(* Everything else that changes the drive or the cache.                    *)
(***************************************************************************)
\* unlink: drive.del takes effect (a del that throws changes nothing).
Unlink(f) ==
    /\ f \notin dels
    /\ Becomes(f, None)
    /\ dels' = dels \cup {f}
    /\ UNCHANGED <<cache, fds, queries, clock, want>>

Unlinked(f) ==
    /\ f \in dels
    /\ dels' = dels \ {f}
    /\ cache' = NoCache
    /\ due' = Finished(f)
    /\ UNCHANGED <<drive, fds, queries, clock, want, past>>

Mknod ==
    /\ cache' = NoCache
    /\ UNCHANGED <<drive, fds, dels, queries, clock, want, past, due>>

\* The node's own put or del, or an update of a replica.
Elsewhere(f) ==
    /\ \E content \in Content \cup {None} : Becomes(f, content)
    /\ UNCHANGED <<cache, fds, dels, queries, clock, want>>

Next ==
    \/ Tick
    \/ \E q \in Query : Lookup(q) \/ List(q) \/ ListFails(q) \/ Refresh(q)
    \/ \E d \in Fd :
          \/ \E f \in File : Open(d, f) \/ Create(d, f)
          \/ \E pos \in 0..(MaxLen - 1), b \in Byte : Write(d, pos, b)
          \/ \E n \in 0..MaxLen : Ftruncate(d, n)
          \/ Release(d)
          \/ Put(d)
          \/ PutFails(d)
          \/ Released(d)
    \/ \E f \in File : Unlink(f) \/ Unlinked(f) \/ Elsewhere(f)
    \/ Mknod

Spec == Init /\ [][Next]_vars

-----------------------------------------------------------------------------
(***************************************************************************)
(* Properties.                                                             *)
(***************************************************************************)
\* The shapes of the variables.
TypeOK ==
    /\ drive \in [File -> Content \cup {None}]
    /\ cache \in [entries : Listing \cup {None}, time : 0..MaxTime]
    /\ fds \in [Fd -> Descriptor]
    /\ dels \subseteq File
    /\ queries \in [Query -> [state : {"idle", "begun", "listed"}, now : 0..MaxTime,
                              entries : Listing \cup {None}]]
    /\ clock \in 0..MaxTime
    /\ want \in [Fd -> Bytes]
    /\ past \in [0..MaxTime -> SUBSET Listing]
    /\ due \subseteq File

\* The TTL bounds how stale an answer is: a cached listing is one the drive had
\* no earlier than its time, however long the listing took, whichever of several
\* listings under way was stored last, and whatever was invalidated in between.
CacheNoOlder ==
    cache.entries # None => \E t \in cache.time..clock : cache.entries \in past[t]

\* release and unlink invalidate after the drive changed: once one has called
\* back, with no listing under way at that moment, every later lookup sees the
\* change, until something changes that path again.
FinishedChangeListed ==
    \A f \in due : cache.entries # None => cache.entries[f] = Listed(drive)[f]

Holds(d) ==
    /\ \A i \in 1..MaxLen : Posix(fds[d].buf).data[i] = want[d].data[i]
    /\ Len(fds[d].buf) <= want[d].size

\* A descriptor from create holds what its calls wrote, in whatever order and at
\* whatever positions; at most zeros that an ftruncate was to add are missing.
CreatedFileHolds ==
    \A d \in Fd : fds[d].state = "open" /\ fds[d].created => Holds(d)

\* mount.js: "Read-write projection of the drive onto the local filesystem": the
\* buffer of an opened file that was written to is the file with what was written.
OpenedFileHolds ==
    \A d \in Fd : fds[d].state = "open" /\ ~ fds[d].created /\ fds[d].dirty => Holds(d)
=============================================================================
