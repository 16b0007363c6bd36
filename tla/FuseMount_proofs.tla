-------------------------- MODULE FuseMount_proofs --------------------------
(***************************************************************************)
(* The listing cache and the write buffers of the FUSE mount, for any set  *)
(* of paths, descriptors and lookups, any TTL and any clock.               *)
(***************************************************************************)
EXTENDS FuseMount, TLAPS

-----------------------------------------------------------------------------
(***************************************************************************)
(* Lemmas about contents.                                                  *)
(***************************************************************************)
\* A content is a sequence of bytes of bounded length.
LEMMA ContentIsSeq ==
    ASSUME NEW c \in Content
    PROVE  c \in Seq(Byte \cup {0}) /\ Len(c) \in 0..MaxLen
  BY MountAssumption DEF Content

\* Sequences of bytes of bounded length are contents.
LEMMA SeqIsContent ==
    ASSUME NEW c \in Seq(Byte \cup {0}), Len(c) <= MaxLen
    PROVE  c \in Content
<1>1. Len(c) \in 0..MaxLen /\ c \in [1..Len(c) -> Byte \cup {0}]
  BY MountAssumption
<1> QED
  BY <1>1 DEF Content

\* None is not a content.
LEMMA NoneIsNoContent == None \notin Content
<1>1. SUFFICES ASSUME None \in Content PROVE FALSE
  OBVIOUS
<1>2. None \in Seq(Byte \cup {0})
  BY <1>1, ContentIsSeq
<1>3. Byte \cup {0} \subseteq Nat
  BY MountAssumption
<1>4. None \in Seq(Nat)
  BY <1>2, <1>3
<1> QED
  BY <1>4, MountAssumption

\* The listing of a drive.
LEMMA ListedType ==
    ASSUME NEW d \in [File -> Content \cup {None}]
    PROVE  Listed(d) \in Listing
<1>1. ASSUME NEW f \in File
      PROVE  (IF d[f] = None THEN None ELSE Len(d[f])) \in Nat \cup {None}
  BY ContentIsSeq
<1> QED
  BY <1>1 DEF Listed, Listing

\* The empty file.
LEMMA EmptyContent == <<>> \in Content
<1>1. <<>> \in Seq(Byte \cup {0}) /\ Len(<<>>) = 0
  OBVIOUS
<1>2. Len(<<>>) <= MaxLen
  BY <1>1, MountAssumption
<1> QED
  BY <1>1, <1>2, SeqIsContent

\* Growing a buffer and writing a byte.
LEMMA WrittenType ==
    ASSUME NEW buf \in Content, NEW pos \in 0..(MaxLen - 1), NEW b \in Byte
    PROVE  [Grown(buf, pos + 1) EXCEPT ![pos + 1] = b] \in Content
<1>1. buf \in Seq(Byte \cup {0}) /\ Len(buf) \in 0..MaxLen
  BY ContentIsSeq
<1>2. pos \in Nat /\ pos + 1 \in 1..MaxLen
  BY MountAssumption
<1>3. CASE pos + 1 > Len(buf)
  <2>1. PICK z : z = Zeros(pos + 1 - Len(buf))
    OBVIOUS
  <2>2. z \in Seq(Byte \cup {0}) /\ Len(z) = pos + 1 - Len(buf)
    BY <1>1, <1>2, <1>3, <2>1 DEF Zeros
  <2>3. PICK g : g = buf \o z
    OBVIOUS
  <2>4. g \in Seq(Byte \cup {0}) /\ Len(g) = pos + 1
    BY <1>1, <1>2, <2>2, <2>3
  <2>5. PICK h : h = [g EXCEPT ![pos + 1] = b]
    OBVIOUS
  <2>6. h \in Seq(Byte \cup {0}) /\ Len(h) = pos + 1
    BY <1>2, <2>4, <2>5
  <2>7. Grown(buf, pos + 1) = g
    BY <1>3, <2>1, <2>3 DEF Grown
  <2>8. h \in Content
    BY <1>2, <2>6, SeqIsContent
  <2> QED
    BY <2>5, <2>7, <2>8
<1>4. CASE ~ (pos + 1 > Len(buf))
  <2>1. [buf EXCEPT ![pos + 1] = b] \in Seq(Byte \cup {0})
        /\ Len([buf EXCEPT ![pos + 1] = b]) = Len(buf)
    BY <1>1, <1>2, <1>4
  <2>2. Grown(buf, pos + 1) = buf
    BY <1>4 DEF Grown
  <2> QED
    BY <1>1, <2>1, <2>2, SeqIsContent
<1> QED
  BY <1>3, <1>4

\* A new buffer of zeros, and one that ftruncate cuts.
LEMMA TruncatedType ==
    ASSUME NEW n \in 0..MaxLen, NEW buf \in Content
    PROVE  /\ Zeros(n) \in Content
           /\ n < Len(buf) => SubSeq(buf, 1, n) \in Content
<1>1. n \in Nat /\ n <= MaxLen
  BY MountAssumption
<1>2. PICK z : z = Zeros(n)
  OBVIOUS
<1>3. z \in Seq(Byte \cup {0}) /\ Len(z) = n
  BY <1>1, <1>2 DEF Zeros
<1>4. z \in Content
  BY <1>1, <1>3, SeqIsContent
<1>5. ASSUME n < Len(buf)
      PROVE  SubSeq(buf, 1, n) \in Content
  <2>1. PICK t : t = SubSeq(buf, 1, n)
    OBVIOUS
  <2>2. t \in Seq(Byte \cup {0}) /\ Len(t) = n
    BY <1>1, <1>5, <2>1, ContentIsSeq
  <2> QED
    BY <1>1, <2>1, <2>2, SeqIsContent
<1> QED
  BY <1>2, <1>4, <1>5

-----------------------------------------------------------------------------
(***************************************************************************)
(* Types.                                                                  *)
(***************************************************************************)
\* A closed descriptor is a descriptor.
LEMMA ClosedType == Closed \in Descriptor
  BY MountAssumption DEF Closed, Descriptor

\* What a drive holds, as POSIX calls say it.
LEMMA PosixType ==
    ASSUME NEW c \in Content
    PROVE  Posix(c) \in Bytes
<1>1. ASSUME NEW i \in 1..MaxLen
      PROVE  (IF i <= Len(c) THEN c[i] ELSE 0) \in Byte \cup {0}
  <2>1. CASE i <= Len(c)
    BY <2>1, ContentIsSeq
  <2>2. CASE ~ (i <= Len(c))
    BY <2>2
  <2> QED
    BY <2>1, <2>2
<1> QED
  BY <1>1, ContentIsSeq DEF Posix, Bytes

\* A change of one path keeps the types of what it touches.
LEMMA BecomesType ==
    ASSUME TypeOK, NEW f \in File, NEW c \in Content \cup {None}, Becomes(f, c)
    PROVE  /\ drive' \in [File -> Content \cup {None}]
           /\ past' \in [0..MaxTime -> SUBSET Listing]
           /\ due' \subseteq File
<1>1. drive' \in [File -> Content \cup {None}]
  BY DEF Becomes, TypeOK
<1>2. Listed(drive') \in Listing
  BY <1>1, ListedType
<1> QED
  BY <1>1, <1>2 DEF Becomes, TypeOK

\* Giving a descriptor another buffer.
LEMMA BufferType ==
    ASSUME fds \in [Fd -> Descriptor], NEW d \in Fd, NEW buf \in Content
    PROVE  [fds EXCEPT ![d].buf = buf, ![d].dirty = TRUE] \in [Fd -> Descriptor]
<1>1. PICK r : r = [fds[d] EXCEPT !.buf = buf, !.dirty = TRUE]
  OBVIOUS
<1>2. r \in Descriptor
  BY <1>1 DEF Descriptor
<1>3. [fds EXCEPT ![d].buf = buf, ![d].dirty = TRUE] = [fds EXCEPT ![d] = r]
  BY <1>1
<1> QED
  BY <1>2, <1>3

\* Every step keeps the types.
LEMMA TypeStep == TypeOK /\ [Next]_vars => TypeOK'
<1> SUFFICES ASSUME TypeOK, [Next]_vars PROVE TypeOK'
  OBVIOUS
<1> USE DEF TypeOK
<1>1. CASE Tick
  <2>1. clock + 1 \in 0..MaxTime
    BY <1>1, MountAssumption DEF Tick
  <2>2. {Listed(drive)} \in SUBSET Listing
    BY ListedType
  <2>3. past' \in [0..MaxTime -> SUBSET Listing]
    BY <1>1, <2>1, <2>2 DEF Tick
  <2> QED
    BY <1>1, <2>1, <2>3 DEF Tick
<1>2. ASSUME NEW q \in Query, Lookup(q) PROVE TypeOK'
  BY <1>2 DEF Lookup, IdleQuery
<1>3. ASSUME NEW q \in Query, List(q) PROVE TypeOK'
  BY <1>3, ListedType, ZenonT(40) DEF List
<1>4. ASSUME NEW q \in Query, Refresh(q) PROVE TypeOK'
  BY <1>4, MountAssumption DEF Refresh, CacheAt, IdleQuery
<1>5. ASSUME NEW d \in Fd, NEW f \in File, Open(d, f) PROVE TypeOK'
  <2>1. Posix(drive[f]) \in Bytes
    BY <1>5, PosixType DEF Open
  <2>2. [Closed EXCEPT !.state = "open", !.path = f] \in Descriptor
    BY ClosedType DEF Descriptor
  <2> QED
    BY <1>5, <2>1, <2>2 DEF Open
<1>6. ASSUME NEW d \in Fd, NEW f \in File, Create(d, f) PROVE TypeOK'
  <2>1. <<>> \in Content
    BY EmptyContent
  <2>2. [state |-> "open", path |-> f, buf |-> <<>>, dirty |-> TRUE, created |-> TRUE]
          \in Descriptor
    BY <2>1 DEF Descriptor
  <2>3. NoFile \in Bytes
    BY MountAssumption DEF NoFile, Bytes
  <2>4. NoCache \in [entries : Listing \cup {None}, time : 0..MaxTime]
    BY MountAssumption DEF NoCache
  <2> QED
    BY <1>6, <2>2, <2>3, <2>4 DEF Create
<1>7. ASSUME NEW d \in Fd, NEW pos \in 0..(MaxLen - 1), NEW b \in Byte, Write(d, pos, b)
      PROVE TypeOK'
  <2>1. Buffer(d) \in Content
    BY EmptyContent DEF Buffer, Descriptor
  <2>2. PICK buf : buf = [Grown(Buffer(d), pos + 1) EXCEPT ![pos + 1] = b]
    OBVIOUS
  <2>3. buf \in Content
    BY <2>1, <2>2, WrittenType
  <2>4. fds' = [fds EXCEPT ![d].buf = buf, ![d].dirty = TRUE]
    BY <1>7, <2>2 DEF Write
  <2>5. fds' \in [Fd -> Descriptor]
    BY <2>3, <2>4, BufferType
  <2>6. pos + 1 \in 1..MaxLen /\ pos + 1 \in 0..MaxLen
    BY MountAssumption
  <2>7. want' \in [Fd -> Bytes]
    BY <1>7, <2>6 DEF Write, Bytes
  <2> QED
    BY <1>7, <2>5, <2>7 DEF Write
<1>8. ASSUME NEW d \in Fd, NEW n \in 0..MaxLen, Ftruncate(d, n) PROVE TypeOK'
  <2>1. PICK buf : buf = IF fds[d].buf = None THEN Zeros(n)
                         ELSE IF n < Len(fds[d].buf) THEN SubSeq(fds[d].buf, 1, n)
                         ELSE fds[d].buf
    OBVIOUS
  <2>2. buf \in Content
    <3>1. CASE fds[d].buf = None
      BY <2>1, <3>1, EmptyContent, TruncatedType
    <3>2. CASE fds[d].buf # None
      BY <2>1, <3>2, TruncatedType DEF Descriptor
    <3> QED
      BY <3>1, <3>2
  <2>3. fds' = [fds EXCEPT ![d].buf = buf, ![d].dirty = TRUE]
    BY <1>8, <2>1 DEF Ftruncate
  <2>4. fds' \in [Fd -> Descriptor]
    BY <2>2, <2>3, BufferType
  <2>5. want' \in [Fd -> Bytes]
    BY <1>8 DEF Ftruncate, Bytes
  <2> QED
    BY <1>8, <2>4, <2>5 DEF Ftruncate
<1>9. ASSUME NEW d \in Fd, Release(d) PROVE TypeOK'
  <2>1. NoFile \in Bytes
    BY MountAssumption DEF NoFile, Bytes
  <2> QED
    BY <1>9, <2>1, ClosedType, SMTT(30) DEF Release, Descriptor
<1>10. ASSUME NEW d \in Fd, Put(d) PROVE TypeOK'
  <2>1. fds[d].path \in File /\ fds[d].buf \in Content \cup {None}
    BY DEF Descriptor
  <2>2. Becomes(fds[d].path, fds[d].buf)
    BY <1>10 DEF Put
  <2>3. fds' \in [Fd -> Descriptor]
    BY <1>10 DEF Put, Descriptor
  <2> QED
    BY <1>10, <2>1, <2>2, <2>3, BecomesType DEF Put
<1>11. ASSUME NEW d \in Fd, PutFails(d) PROVE TypeOK'
  BY <1>11, ClosedType DEF PutFails
<1>12. ASSUME NEW d \in Fd, Released(d) PROVE TypeOK'
  BY <1>12, ClosedType, MountAssumption DEF Released, Finished, NoCache, Descriptor
<1>13. ASSUME NEW f \in File, Unlink(f) PROVE TypeOK'
  BY <1>13, BecomesType DEF Unlink
<1>14. ASSUME NEW f \in File, Unlinked(f) PROVE TypeOK'
  BY <1>14, MountAssumption DEF Unlinked, Finished, NoCache
<1>15. ASSUME NEW f \in File, Elsewhere(f) PROVE TypeOK'
  BY <1>15, BecomesType DEF Elsewhere
<1>16. CASE Mknod
  BY <1>16, MountAssumption DEF Mknod, NoCache
<1>17. CASE UNCHANGED vars
  BY <1>17 DEF vars
<1>18. ASSUME NEW q \in Query, ListFails(q) PROVE TypeOK'
  BY <1>18, MountAssumption DEF ListFails, IdleQuery
<1> QED
  BY <1>1, <1>2, <1>3, <1>4, <1>5, <1>6, <1>7, <1>8, <1>9, <1>10, <1>11, <1>12,
     <1>13, <1>14, <1>15, <1>16, <1>17, <1>18 DEF Next

\* The mount keeps its types: buffers and files stay sequences of bytes, a cached
\* listing stays a listing, whatever callbacks overlap.
THEOREM TypeCorrect == Spec => []TypeOK
<1>1. Init => TypeOK
  <2> SUFFICES ASSUME Init PROVE TypeOK
    OBVIOUS
  <2>1. drive \in [File -> Content \cup {None}]
    BY DEF Init
  <2>2. Listed(drive) \in Listing
    BY <2>1, ListedType
  <2>3. past \in [0..MaxTime -> SUBSET Listing]
    BY <2>2 DEF Init
  <2>4. NoFile \in Bytes
    BY MountAssumption DEF NoFile, Bytes
  <2> QED
    BY <2>1, <2>3, <2>4, ClosedType, MountAssumption
      DEF Init, TypeOK, NoCache, IdleQuery
<1> QED
  BY <1>1, TypeStep, PTL DEF Spec

-----------------------------------------------------------------------------
(***************************************************************************)
(* How old a cached listing may be.                                        *)
(***************************************************************************)
\* A listing the drive had at t or later.
HadSince(entries, t) == \E u \in t..clock : entries \in past[u]

\* What the lookups under way will store.
Dated ==
    /\ Listed(drive) \in past[clock]
    /\ cache.entries # None => HadSince(cache.entries, cache.time)
    /\ \A q \in Query :
          /\ queries[q].state # "idle" => queries[q].now <= clock
          /\ queries[q].state = "listed" => HadSince(queries[q].entries, queries[q].now)

\* Steps that leave clock and lookups alone and only add listings keep what was had.
LEMMA HadStays ==
    ASSUME TypeOK, NEW e, NEW t \in 0..MaxTime, HadSince(e, t),
           clock' \in 0..MaxTime, clock <= clock',
           \A u \in 0..clock : past[u] \subseteq past'[u]
    PROVE  \E u \in t..clock' : e \in past'[u]
<1>1. PICK u \in t..clock : e \in past[u]
  BY DEF HadSince
<1>2. u \in 0..clock /\ u \in t..clock'
  BY MountAssumption DEF TypeOK
<1> QED
  BY <1>1, <1>2 DEF HadSince

\* A change of the drive is recorded at the present time.
LEMMA ChangeRecorded ==
    ASSUME TypeOK, NEW f \in File, NEW c, Becomes(f, c), UNCHANGED clock
    PROVE  /\ Listed(drive)' \in past'[clock']
           /\ \A u \in 0..clock : past[u] \subseteq past'[u]
<1>1. clock \in 0..MaxTime /\ past \in [0..MaxTime -> SUBSET Listing]
  BY DEF TypeOK
<1>2. past' = [past EXCEPT ![clock] = past[clock] \cup {Listed(drive')}]
  BY DEF Becomes
<1>3. Listed(drive)' = Listed(drive')
  BY DEF Listed
<1> QED
  BY <1>1, <1>2, <1>3, MountAssumption

\* A step of one lookup that leaves the cache alone keeps Dated if that lookup is.
LEMMA OthersDated ==
    ASSUME TypeOK, Dated, NEW q \in Query, UNCHANGED <<drive, cache, clock, past>>,
           queries'[q].now <= clock,
           queries'[q].state = "listed" => HadSince(queries'[q].entries, queries'[q].now),
           \A p \in Query : p # q => queries'[p] = queries[p]
    PROVE  Dated'
<1>1. Listed(drive)' \in past'[clock']
  BY DEF Dated, Listed
<1>2. (cache.entries # None => HadSince(cache.entries, cache.time))'
  BY DEF Dated, HadSince
<1>3. ASSUME NEW p \in Query
      PROVE  /\ queries'[p].state # "idle" => queries'[p].now <= clock'
             /\ (queries[p].state = "listed" => HadSince(queries[p].entries, queries[p].now))'
  BY DEF Dated, HadSince
<1> QED
  BY <1>1, <1>2, <1>3 DEF Dated

\* Every step keeps Dated.
LEMMA DatedStep == TypeOK /\ TypeOK' /\ Dated /\ [Next]_vars => Dated'
<1> SUFFICES ASSUME TypeOK, TypeOK', Dated, [Next]_vars PROVE Dated'
  OBVIOUS
<1>0. /\ clock \in 0..MaxTime /\ clock' \in 0..MaxTime
      /\ cache.time \in 0..MaxTime
      /\ \A q \in Query : queries[q].now \in 0..MaxTime
  BY DEF TypeOK
<1>a. ASSUME clock <= clock', \A u \in 0..clock : past[u] \subseteq past'[u],
             Listed(drive)' \in past'[clock'], UNCHANGED queries,
             cache' = cache \/ cache' = NoCache
      PROVE  Dated'
  <2>1. (cache.entries # None => HadSince(cache.entries, cache.time))'
    <3>1. CASE cache' = NoCache
      BY <3>1 DEF NoCache
    <3>2. CASE cache' = cache /\ cache.entries # None
      <4>1. \E u \in cache.time..clock' : cache.entries \in past'[u]
        BY <1>0, <1>a, <3>2, HadStays DEF Dated
      <4> QED
        BY <3>2, <4>1 DEF HadSince
    <3> QED
      BY <1>a, <3>1, <3>2
  <2>2. ASSUME NEW q \in Query
        PROVE /\ queries[q].state # "idle" => queries[q].now <= clock'
              /\ queries[q].state = "listed"
                    => \E u \in queries[q].now..clock' : queries[q].entries \in past'[u]
    <3>1. queries[q].state = "listed"
             => \E u \in queries[q].now..clock' : queries[q].entries \in past'[u]
      BY <1>0, <1>a, HadStays DEF Dated
    <3>2. queries[q].now \in Nat /\ clock \in Nat /\ clock' \in Nat
      BY <1>0, MountAssumption
    <3> QED
      BY <1>a, <3>1, <3>2 DEF Dated
  <2> QED
    BY <1>a, <2>1, <2>2 DEF Dated, HadSince
<1>b. ASSUME UNCHANGED <<drive, queries, clock, past>>, cache' = cache \/ cache' = NoCache
      PROVE  Dated'
  <2>1. Listed(drive)' \in past'[clock']
    BY <1>b DEF Dated, Listed
  <2> QED
    BY <1>0, <1>a, <1>b, <2>1, MountAssumption
<1>c. ASSUME NEW f \in File, NEW c, Becomes(f, c), UNCHANGED <<cache, queries, clock>>
      PROVE  Dated'
  <2>1. Listed(drive)' \in past'[clock'] /\ \A u \in 0..clock : past[u] \subseteq past'[u]
    BY <1>c, ChangeRecorded
  <2> QED
    BY <1>0, <1>a, <1>c, <2>1, MountAssumption
<1>1. CASE Tick
  <2>1. clock' = clock + 1 /\ clock < MaxTime /\ clock \in Nat
    BY <1>0, <1>1, MountAssumption DEF Tick
  <2>2. past' = [past EXCEPT ![clock + 1] = {Listed(drive)}]
    BY <1>1 DEF Tick
  <2>3. \A u \in 0..clock : past[u] \subseteq past'[u]
    BY <2>1, <2>2 DEF TypeOK
  <2>4. Listed(drive)' \in past'[clock']
    BY <1>0, <1>1, <2>1, <2>2 DEF Tick, TypeOK, Listed
  <2> QED
    BY <1>1, <1>a, <2>1, <2>3, <2>4 DEF Tick
<1>2. ASSUME NEW q \in Query, Lookup(q) PROVE Dated'
  <2>1. /\ queries' \in [Query -> [state : {"idle", "begun", "listed"}, now : 0..MaxTime,
                                   entries : Listing \cup {None}]]
        /\ queries'[q].state = "begun" /\ queries'[q].now = clock
        /\ \A p \in Query : p # q => queries'[p] = queries[p]
    BY <1>2 DEF Lookup, IdleQuery, TypeOK
  <2>2. UNCHANGED <<drive, cache, clock, past>>
    BY <1>2 DEF Lookup
  <2> QED
    BY <1>0, <2>1, <2>2, OthersDated
<1>3. ASSUME NEW q \in Query, List(q) PROVE Dated'
  <2>1. /\ queries'[q].entries = Listed(drive) /\ queries'[q].now = queries[q].now
        /\ \A p \in Query : p # q => queries'[p] = queries[p]
    BY <1>3 DEF List, TypeOK
  <2>2. UNCHANGED <<drive, cache, clock, past>> /\ queries[q].state = "begun"
    BY <1>3 DEF List
  <2>3. queries[q].now <= clock /\ Listed(drive) \in past[clock]
    BY <2>2 DEF Dated
  <2>4. HadSince(Listed(drive), queries[q].now)
    BY <1>0, <2>3, MountAssumption DEF HadSince
  <2> QED
    BY <1>0, <2>1, <2>2, <2>3, <2>4, OthersDated
<1>4. ASSUME NEW q \in Query, Refresh(q) PROVE Dated'
  <2>1. /\ queries[q].state = "listed"
        /\ cache' = [entries |-> queries[q].entries, time |-> queries[q].now]
        /\ queries' = [queries EXCEPT ![q] = [state |-> "idle", now |-> 0, entries |-> None]]
        /\ UNCHANGED <<drive, clock, past>>
    BY <1>4 DEF Refresh, CacheAt, IdleQuery
  <2> QED
    BY <2>1 DEF Dated, HadSince, Listed, TypeOK
<1>5. ASSUME NEW d \in Fd, NEW f \in File, Open(d, f) PROVE Dated'
  BY <1>5, <1>b DEF Open
<1>6. ASSUME NEW d \in Fd, NEW f \in File, Create(d, f) PROVE Dated'
  BY <1>6, <1>b DEF Create
<1>7. ASSUME NEW d \in Fd, NEW pos \in 0..(MaxLen - 1), NEW b \in Byte, Write(d, pos, b)
      PROVE Dated'
  BY <1>7, <1>b DEF Write
<1>8. ASSUME NEW d \in Fd, NEW n \in 0..MaxLen, Ftruncate(d, n) PROVE Dated'
  BY <1>8, <1>b DEF Ftruncate
<1>9. ASSUME NEW d \in Fd, Release(d) PROVE Dated'
  BY <1>9, <1>b DEF Release
<1>10. ASSUME NEW d \in Fd, Put(d) PROVE Dated'
  BY <1>10, <1>c DEF Put, TypeOK, Descriptor
<1>11. ASSUME NEW d \in Fd, PutFails(d) PROVE Dated'
  BY <1>11, <1>b DEF PutFails
<1>12. ASSUME NEW d \in Fd, Released(d) PROVE Dated'
  BY <1>12, <1>b DEF Released
<1>13. ASSUME NEW f \in File, Unlink(f) PROVE Dated'
  BY <1>13, <1>c DEF Unlink
<1>14. ASSUME NEW f \in File, Unlinked(f) PROVE Dated'
  BY <1>14, <1>b DEF Unlinked
<1>15. ASSUME NEW f \in File, Elsewhere(f) PROVE Dated'
  BY <1>15, <1>c DEF Elsewhere
<1>16. CASE Mknod
  BY <1>16, <1>b DEF Mknod
<1>17. CASE UNCHANGED vars
  BY <1>17, <1>b DEF vars
<1>18. ASSUME NEW q \in Query, ListFails(q) PROVE Dated'
  <2>1. /\ queries'[q].state = "idle" /\ queries'[q].now = 0
        /\ \A p \in Query : p # q => queries'[p] = queries[p]
    BY <1>18 DEF ListFails, IdleQuery, TypeOK
  <2>2. UNCHANGED <<drive, cache, clock, past>>
    BY <1>18 DEF ListFails
  <2> QED
    BY <1>0, <2>1, <2>2, OthersDated, MountAssumption
<1> QED
  BY <1>1, <1>2, <1>3, <1>4, <1>5, <1>6, <1>7, <1>8, <1>9, <1>10, <1>11, <1>12,
     <1>13, <1>14, <1>15, <1>16, <1>17, <1>18 DEF Next

\* What readdir and getattr answer from the cache is a listing the drive had no
\* earlier than the cache's time (refreshCache takes the time before it lists), so
\* it is at most TTL old.
THEOREM CacheDated == Spec => []CacheNoOlder
<1>1. Init => Dated
  <2> SUFFICES ASSUME Init PROVE Dated
    OBVIOUS
  <2>1. Listed(drive) \in past[clock]
    BY MountAssumption DEF Init
  <2>2. cache.entries = None /\ \A q \in Query : queries[q].state = "idle"
    BY DEF Init, NoCache, IdleQuery
  <2> QED
    BY <2>1, <2>2 DEF Dated
<1>2. Dated => CacheNoOlder
  BY DEF Dated, HadSince, CacheNoOlder
<1> QED
  BY <1>1, <1>2, DatedStep, TypeCorrect, PTL DEF Spec

-----------------------------------------------------------------------------
(***************************************************************************)
(* Finished changes are listed.                                            *)
(***************************************************************************)
\* Lookups under way have not read anything older than a finished change either.
Current ==
    \A f \in due :
        /\ cache.entries # None => cache.entries[f] = Listed(drive)[f]
        /\ \A q \in Query : queries[q].state = "listed" =>
              queries[q].entries[f] = Listed(drive)[f]

\* A change of one path leaves the listing of the others alone.
LEMMA OthersListed ==
    ASSUME TypeOK, NEW f \in File, NEW c, Becomes(f, c), NEW g \in File, g # f
    PROVE  Listed(drive)'[g] = Listed(drive)[g]
  BY DEF Becomes, Listed, TypeOK

\* Every step keeps Current.
LEMMA CurrentStep == TypeOK /\ Current /\ [Next]_vars => Current'
<1> SUFFICES ASSUME TypeOK, Current, [Next]_vars PROVE Current'
  OBVIOUS
<1>a. ASSUME UNCHANGED <<drive, queries>>, cache' = cache \/ cache' = NoCache,
             due' \subseteq due
      PROVE  Current'
  BY <1>a DEF Current, NoCache, Listed
<1>b. ASSUME NEW f \in File, NEW c, Becomes(f, c), UNCHANGED <<cache, queries>>
      PROVE  Current'
  <2>1. due' = due \ {f} /\ due \subseteq File
    BY <1>b DEF Becomes, TypeOK
  <2>2. \A g \in due' : Listed(drive)'[g] = Listed(drive)[g]
    BY <1>b, <2>1, OthersListed
  <2> QED
    BY <1>b, <2>1, <2>2 DEF Current
<1>c. ASSUME NEW f \in File, due' = Finished(f), cache' = NoCache,
             UNCHANGED <<drive, queries>>
      PROVE  Current'
  <2>1. CASE \A q \in Query : queries[q].state = "idle"
    BY <1>c, <2>1 DEF Current, NoCache, Listed
  <2>2. CASE ~ \A q \in Query : queries[q].state = "idle"
    <3>1. due' = due
      BY <1>c, <2>2 DEF Finished
    <3> QED
      BY <1>c, <3>1, <1>a
  <2> QED
    BY <2>1, <2>2
<1>1. CASE Tick
  BY <1>1, <1>a DEF Tick
<1>2. ASSUME NEW q \in Query, Lookup(q) PROVE Current'
  BY <1>2 DEF Lookup, IdleQuery, Current, Listed, TypeOK
<1>3. ASSUME NEW q \in Query, List(q) PROVE Current'
  <2>1. /\ queries' = [queries EXCEPT ![q].state = "listed", ![q].entries = Listed(drive)]
        /\ UNCHANGED <<drive, cache, due>>
    BY <1>3 DEF List
  <2>2. Listed(drive)' = Listed(drive)
    BY <2>1 DEF Listed
  <2>3. \A p \in Query :
            \/ /\ queries'[p].entries = queries[p].entries
               /\ queries'[p].state = queries[p].state
            \/ queries'[p].entries = Listed(drive)
    BY <2>1 DEF TypeOK
  <2> QED
    BY <2>1, <2>2, <2>3, ZenonT(40) DEF Current
<1>4. ASSUME NEW q \in Query, Refresh(q) PROVE Current'
  <2>1. /\ queries[q].state = "listed"
        /\ cache' = [entries |-> queries[q].entries, time |-> queries[q].now]
        /\ queries' = [queries EXCEPT ![q] = [state |-> "idle", now |-> 0, entries |-> None]]
        /\ UNCHANGED <<drive, due>>
    BY <1>4 DEF Refresh, CacheAt, IdleQuery
  <2>2. cache'.entries = queries[q].entries
    BY <2>1
  <2>3. \A p \in Query : queries'[p].state = "listed" => queries'[p] = queries[p]
    BY <2>1 DEF TypeOK
  <2>4. Listed(drive)' = Listed(drive)
    BY <2>1 DEF Listed
  <2> QED
    BY <2>1, <2>2, <2>3, <2>4 DEF Current
<1>5. ASSUME NEW d \in Fd, NEW f \in File, Open(d, f) PROVE Current'
  BY <1>5, <1>a DEF Open
<1>6. ASSUME NEW d \in Fd, NEW f \in File, Create(d, f) PROVE Current'
  BY <1>6, <1>a DEF Create
<1>7. ASSUME NEW d \in Fd, NEW pos \in 0..(MaxLen - 1), NEW b \in Byte, Write(d, pos, b)
      PROVE Current'
  BY <1>7, <1>a DEF Write
<1>8. ASSUME NEW d \in Fd, NEW n \in 0..MaxLen, Ftruncate(d, n) PROVE Current'
  BY <1>8, <1>a DEF Ftruncate
<1>9. ASSUME NEW d \in Fd, Release(d) PROVE Current'
  BY <1>9, <1>a DEF Release
<1>10. ASSUME NEW d \in Fd, Put(d) PROVE Current'
  BY <1>10, <1>b DEF Put, TypeOK, Descriptor
<1>11. ASSUME NEW d \in Fd, PutFails(d) PROVE Current'
  BY <1>11, <1>a DEF PutFails
<1>12. ASSUME NEW d \in Fd, Released(d) PROVE Current'
  BY <1>12, <1>c DEF Released, TypeOK, Descriptor
<1>13. ASSUME NEW f \in File, Unlink(f) PROVE Current'
  BY <1>13, <1>b DEF Unlink
<1>14. ASSUME NEW f \in File, Unlinked(f) PROVE Current'
  BY <1>14, <1>c DEF Unlinked
<1>15. ASSUME NEW f \in File, Elsewhere(f) PROVE Current'
  BY <1>15, <1>b DEF Elsewhere
<1>16. CASE Mknod
  BY <1>16, <1>a DEF Mknod
<1>17. CASE UNCHANGED vars
  BY <1>17, <1>a DEF vars
<1>18. ASSUME NEW q \in Query, ListFails(q) PROVE Current'
  BY <1>18 DEF ListFails, IdleQuery, Current, Listed, TypeOK
<1> QED
  BY <1>1, <1>2, <1>3, <1>4, <1>5, <1>6, <1>7, <1>8, <1>9, <1>10, <1>11, <1>12,
     <1>13, <1>14, <1>15, <1>16, <1>17, <1>18 DEF Next

\* Once release or unlink has called back with no listing under way, readdir and
\* getattr show its change until the path changes again.
THEOREM FinishedListed == Spec => []FinishedChangeListed
<1>1. Init => Current
  BY DEF Init, Current
<1>2. Current => FinishedChangeListed
  BY DEF Current, FinishedChangeListed
<1> QED
  BY <1>1, <1>2, CurrentStep, TypeCorrect, PTL DEF Spec

-----------------------------------------------------------------------------
(***************************************************************************)
(* Created files.                                                          *)
(***************************************************************************)
\* Between open and release, a created descriptor has a buffer, and it holds
\* what the calls on it wrote: CreatedFileHolds, inductive once a buffer is known
\* to be there.
BufferHolds(d) ==
    fds[d].state = "open" /\ fds[d].created =>
        fds[d].buf \in Content /\ Holds(d)

\* What Holds says, byte by byte.
LEMMA HoldsBytes ==
    ASSUME NEW d \in Fd
    PROVE  Holds(d) <=>
             /\ \A i \in 1..MaxLen :
                   want[d].data[i] = IF i <= Len(fds[d].buf) THEN fds[d].buf[i] ELSE 0
             /\ Len(fds[d].buf) <= want[d].size
BY DEF Holds, Posix

\* The bytes of a buffer after a byte was written to it.
LEMMA WrittenBytes ==
    ASSUME NEW buf \in Content, NEW pos \in 0..(MaxLen - 1), NEW b \in Byte,
           NEW new, new = [Grown(buf, pos + 1) EXCEPT ![pos + 1] = b]
    PROVE  /\ Len(new) = IF pos < Len(buf) THEN Len(buf) ELSE pos + 1
           /\ \A i \in 1..MaxLen :
                 (IF i <= Len(new) THEN new[i] ELSE 0)
                    = IF i = pos + 1 THEN b ELSE IF i <= Len(buf) THEN buf[i] ELSE 0
<1>1. buf \in Seq(Byte \cup {0}) /\ Len(buf) \in 0..MaxLen
  BY ContentIsSeq
<1>2. pos \in Nat /\ pos + 1 \in 1..MaxLen /\ MaxLen \in Nat
  BY MountAssumption
<1>3. CASE pos + 1 > Len(buf)
  <2>1. PICK z : z = Zeros(pos + 1 - Len(buf))
    OBVIOUS
  <2>2. /\ z \in Seq(Byte \cup {0}) /\ Len(z) = pos + 1 - Len(buf)
        /\ \A i \in 1..Len(z) : z[i] = 0
    BY <1>1, <1>2, <1>3, <2>1 DEF Zeros
  <2>3. PICK g : g = buf \o z
    OBVIOUS
  <2>4. /\ g \in Seq(Byte \cup {0}) /\ Len(g) = pos + 1
        /\ \A i \in 1..Len(g) : g[i] = IF i <= Len(buf) THEN buf[i] ELSE 0
    BY <1>1, <1>2, <2>2, <2>3
  <2>5. new = [g EXCEPT ![pos + 1] = b]
    BY <1>3, <2>1, <2>3 DEF Grown
  <2>6. /\ Len(new) = pos + 1 /\ new[pos + 1] = b
        /\ \A i \in 1..pos : new[i] = g[i]
    BY <1>2, <2>4, <2>5
  <2> QED
    BY <1>1, <1>2, <1>3, <2>4, <2>6
<1>4. CASE ~ (pos + 1 > Len(buf))
  <2>1. new = [buf EXCEPT ![pos + 1] = b]
    BY <1>4 DEF Grown
  <2> QED
    BY <1>1, <1>2, <1>4, <2>1
<1> QED
  BY <1>3, <1>4

\* A step that leaves the descriptors and what is wanted of them alone.
LEMMA OthersHold ==
    ASSUME NEW d \in Fd, BufferHolds(d),
           \/ fds'[d] = fds[d] /\ want'[d] = want[d]
           \/ fds'[d].state # "open"
           \/ ~ fds'[d].created
    PROVE  BufferHolds(d)'
BY DEF BufferHolds, Holds, Posix

LEMMA BufferStep ==
    TypeOK /\ (\A d \in Fd : BufferHolds(d)) /\ [Next]_vars => \A d \in Fd : BufferHolds(d)'
<1> SUFFICES ASSUME TypeOK, \A c \in Fd : BufferHolds(c), [Next]_vars, NEW d \in Fd
             PROVE  BufferHolds(d)'
  OBVIOUS
<1>0. fds \in [Fd -> Descriptor] /\ want \in [Fd -> Bytes] /\ MaxLen \in Nat
  BY MountAssumption DEF TypeOK
<1>1. ASSUME NEW c \in Fd, NEW f \in File, Open(c, f) PROVE BufferHolds(d)'
  <2>1. /\ c = d => ~ fds'[d].created
        /\ c # d => fds'[d] = fds[d] /\ want'[d] = want[d]
    BY <1>0, <1>1 DEF Open, Closed
  <2> QED
    BY <2>1, OthersHold
<1>2. ASSUME NEW c \in Fd, NEW f \in File, Create(c, f) PROVE BufferHolds(d)'
  <2>1. CASE c = d
    <3>1. fds'[d].buf = <<>> /\ want'[d] = NoFile
      BY <1>0, <1>2, <2>1 DEF Create
    <3>2. Holds(d)'
      BY <1>0, <3>1 DEF Holds, Posix, NoFile
    <3> QED
      BY <3>1, <3>2, EmptyContent DEF BufferHolds
  <2>2. CASE c # d
    BY <1>0, <1>2, <2>2, OthersHold DEF Create
  <2> QED
    BY <2>1, <2>2
<1>3. ASSUME NEW c \in Fd, NEW pos \in 0..(MaxLen - 1), NEW b \in Byte, Write(c, pos, b)
      PROVE BufferHolds(d)'
  <2>1. CASE c = d /\ fds[d].created
    <3>0. PICK new : new = [Grown(fds[d].buf, pos + 1) EXCEPT ![pos + 1] = b]
      OBVIOUS
    <3>1. fds[d].state = "open" /\ fds[d].buf \in Content /\ Holds(d)
      BY <1>3, <2>1 DEF Write, BufferHolds
    <3>2. Buffer(d) = fds[d].buf
      BY <3>1, NoneIsNoContent DEF Buffer
    <3>3. fds'[d].buf = new
      BY <1>0, <1>3, <2>1, <3>0, <3>2 DEF Write, Descriptor
    <3>4. new \in Content
      BY <3>0, <3>1, WrittenType
    <3>5. /\ \A i \in 1..MaxLen :
                want'[d].data[i] = IF i = pos + 1 THEN b ELSE want[d].data[i]
          /\ want'[d].size = IF pos < want[d].size THEN want[d].size ELSE pos + 1
      BY <1>0, <1>3, <2>1 DEF Write, Bytes
    <3>6. /\ Len(new) = IF pos < Len(fds[d].buf) THEN Len(fds[d].buf) ELSE pos + 1
          /\ \A i \in 1..MaxLen :
                (IF i <= Len(new) THEN new[i] ELSE 0)
                   = IF i = pos + 1 THEN b
                     ELSE IF i <= Len(fds[d].buf) THEN fds[d].buf[i] ELSE 0
      BY <3>0, <3>1, WrittenBytes
    <3>7. /\ \A i \in 1..MaxLen :
                want[d].data[i] = IF i <= Len(fds[d].buf) THEN fds[d].buf[i] ELSE 0
          /\ Len(fds[d].buf) <= want[d].size
      BY <3>1, HoldsBytes
    <3>8. Len(new) <= want'[d].size
      BY <1>0, <3>1, <3>5, <3>6, <3>7, ContentIsSeq DEF Bytes
    <3>9. \A i \in 1..MaxLen : want'[d].data[i] = IF i <= Len(new) THEN new[i] ELSE 0
      BY <3>5, <3>6, <3>7
    <3>10. Holds(d)'
      BY <3>3, <3>8, <3>9 DEF Holds, Posix
    <3> QED
      BY <3>3, <3>4, <3>10 DEF BufferHolds
  <2>2. CASE c # d \/ ~ fds[d].created
    <3>1. /\ c # d => fds'[d] = fds[d] /\ want'[d] = want[d]
          /\ c = d => fds'[d].created = fds[d].created
      BY <1>0, <1>3 DEF Write, Descriptor
    <3> QED
      BY <2>2, <3>1, OthersHold
  <2> QED
    BY <2>1, <2>2
<1>4. ASSUME NEW c \in Fd, NEW n \in 0..MaxLen, Ftruncate(c, n) PROVE BufferHolds(d)'
  <2>1. CASE c = d /\ fds[d].created
    <3> DEFINE buf == fds[d].buf
               new == IF n < Len(buf) THEN SubSeq(buf, 1, n) ELSE buf
    <3>1. fds[d].state = "open" /\ buf \in Content /\ buf # None /\ Holds(d)
      BY <1>4, <2>1, NoneIsNoContent DEF Ftruncate, BufferHolds
    <3>2. fds'[d].buf = new
      BY <1>0, <1>4, <2>1, <3>1 DEF Ftruncate, Descriptor
    <3>3. new \in Content
      BY <3>1, TruncatedType
    <3>4. /\ \A i \in 1..MaxLen : want'[d].data[i] = IF i <= n THEN want[d].data[i] ELSE 0
          /\ want'[d].size = n
      BY <1>0, <1>4, <2>1 DEF Ftruncate
    <3>5. buf \in Seq(Byte \cup {0}) /\ Len(buf) \in 0..MaxLen /\ n \in Nat
      BY <1>0, <3>1, ContentIsSeq
    <3>6. /\ Len(new) = IF n < Len(buf) THEN n ELSE Len(buf)
          /\ \A i \in 1..Len(new) : new[i] = buf[i]
      BY <3>5
    <3>7. /\ \A i \in 1..MaxLen : want[d].data[i] = IF i <= Len(buf) THEN buf[i] ELSE 0
          /\ Len(buf) <= want[d].size
      BY <3>1, HoldsBytes
    <3>8. \A i \in 1..MaxLen : want'[d].data[i] = IF i <= Len(new) THEN new[i] ELSE 0
      BY <1>0, <3>4, <3>5, <3>6, <3>7
    <3>9. Len(new) <= want'[d].size
      BY <3>4, <3>5, <3>6
    <3>10. Holds(d)'
      BY <3>2, <3>8, <3>9 DEF Holds, Posix
    <3> QED
      BY <3>2, <3>3, <3>10 DEF BufferHolds
  <2>2. CASE c # d \/ ~ fds[d].created
    <3>1. /\ c # d => fds'[d] = fds[d] /\ want'[d] = want[d]
          /\ c = d => fds'[d].created = fds[d].created
      BY <1>0, <1>4 DEF Ftruncate, Descriptor
    <3> QED
      BY <2>2, <3>1, OthersHold
  <2> QED
    BY <2>1, <2>2
<1>5. ASSUME NEW c \in Fd, Release(c) \/ Put(c) \/ PutFails(c) \/ Released(c)
      PROVE BufferHolds(d)'
  <2>1. /\ c = d => fds'[d].state # "open"
        /\ c # d => fds'[d] = fds[d] /\ want'[d] = want[d]
    BY <1>0, <1>5 DEF Release, Put, PutFails, Released, Becomes, Closed, Descriptor
  <2> QED
    BY <2>1, OthersHold
<1>6. CASE \/ Tick \/ Mknod \/ UNCHANGED vars
           \/ \E q \in Query : Lookup(q) \/ List(q) \/ ListFails(q) \/ Refresh(q)
           \/ \E f \in File : Unlink(f) \/ Unlinked(f) \/ Elsewhere(f)
  <2>1. fds' = fds /\ want' = want
    BY <1>6 DEF Tick, Mknod, vars, Lookup, List, ListFails, Refresh, CacheAt, Unlink, Unlinked,
                Elsewhere
  <2> QED
    BY <2>1, OthersHold
<1> QED
  BY <1>1, <1>2, <1>3, <1>4, <1>5, <1>6 DEF Next

\* What was written to a created file, in any order and at any positions, with any
\* truncations between, is what release will put; at most zeros that an ftruncate
\* was to add are missing.
THEOREM CreatedHold == Spec => []CreatedFileHolds
<1> DEFINE Inv == \A d \in Fd : BufferHolds(d)
<1>1. Init => Inv
  BY DEF Init, BufferHolds, Closed
<1>2. Inv => CreatedFileHolds
  BY DEF BufferHolds, CreatedFileHolds
<1>3. TypeOK /\ Inv /\ [Next]_vars => Inv'
  BY BufferStep
<1> QED
  BY <1>1, <1>2, <1>3, TypeCorrect, PTL DEF Spec
=============================================================================
