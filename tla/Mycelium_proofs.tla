---------------------------- MODULE Mycelium_proofs ----------------------------
(***************************************************************************)
(* Theorems about Mycelium and the operators of HyperdriveFs it uses, for  *)
(* any names, contents and depth: the trees of the repository keep their   *)
(* shape (TypeOK), every commit is one put or one remove on a flat map of  *)
(* files with folders (ImplementsFiles), and get, select, dispatch, the    *)
(* files on a drive and the mount of them answer from that same map        *)
(* (ReadsAgree).                                                           *)
(*                                                                         *)
(* Segments, ResolvePath, Walk, Contents and Objects are recursive         *)
(* functions.  Each is unfolded the same way: a function that satisfies    *)
(* its equation exists on every initial segment of its domain, so the      *)
(* CHOOSE behind the definition satisfies it too.                          *)
(***************************************************************************)
EXTENDS Mycelium, SequenceTheorems, WellFoundedInduction, TLAPS

-----------------------------------------------------------------------------
(****************************************************************************)
(* Induction, over sets instead of predicates.                             *)
(***************************************************************************)
\* A set of naturals has a least element.
LEMMA LeastIn == ASSUME NEW T, T \subseteq Nat, T # {}
   PROVE \E m \in T : \A k \in T : m <= k
<1> DEFINE R == OpToRel(<, Nat)
<1>1. IsWellFoundedOn(R, Nat)
  BY NatLessThanWellFounded
<1>2. \A x, y \in Nat : x < y => <<x, y>> \in R
  BY DEF OpToRel
<1> HIDE DEF R
<1>3. PICK x \in T : \A y \in T : ~ (<<y, x>> \in R)
  BY <1>1, WFMin
<1>4. ASSUME NEW y \in T PROVE x <= y
  <2>1. ~ (y < x)
    BY <1>2, <1>3
  <2> QED BY <2>1
<1> QED BY <1>4

\* What holds of 0 and of the successor of each number it holds of, holds of all.
LEMMA Climb == ASSUME NEW S, 0 \in S, \A n \in Nat : n \in S => n + 1 \in S PROVE Nat \subseteq S
<1> DEFINE T == Nat \ S
<1> SUFFICES ASSUME T # {} PROVE FALSE
  OBVIOUS
<1>1. PICK m \in T : \A k \in T : m <= k
  BY LeastIn
<1>2. m # 0 /\ m - 1 \in Nat
  BY <1>1
<1>3. m - 1 \in S
  BY <1>1, <1>2
<1> QED BY <1>2, <1>3

\* What holds of <<>> and carries over when an element is appended, holds of all
\* finite sequences.
LEMMA SeqClimb == ASSUME NEW X, NEW S, <<>> \in S,
                         \A p \in Seq(X) : \A n \in X : p \in S => Append(p, n) \in S
                  PROVE Seq(X) \subseteq S
<1> DEFINE L == {k \in Nat : \A p \in Seq(X) : Len(p) = k => p \in S}
<1>1. 0 \in L
  BY EmptySeq
<1>2. ASSUME NEW k \in Nat, k \in L PROVE k + 1 \in L
  <2> SUFFICES ASSUME NEW p \in Seq(X), Len(p) = k + 1 PROVE p \in S
    OBVIOUS
  <2>1. p # <<>>
    BY EmptySeq
  <2>2. PICK q \in Seq(X), n \in X : p = Append(q, n)
    BY <2>1, SequenceEmptyOrAppend
  <2>3. Len(q) = k
    BY <2>2, LenProperties, AppendProperties
  <2>4. q \in S
    BY <1>2, <2>3
  <2> QED BY <2>2, <2>4
<1> HIDE DEF L
<1>3. Nat \subseteq L
  BY <1>1, <1>2, Climb
<1> QED BY <1>3, LenProperties DEF L

-----------------------------------------------------------------------------
(****************************************************************************)
(* Segments: the empty segments of a path are left out.                    *)
(***************************************************************************)
\* g is kept of Segments, as far as n.
Keeps(g, n, path) ==
    g = [k \in 0..n |-> IF k = 0 THEN <<>>
                        ELSE IF path[k] = Blank THEN g[k - 1] ELSE Append(g[k - 1], path[k])]

\* There is such a g for every n.
LEMMA KeepsExists == ASSUME NEW path PROVE \A n \in Nat : \E g : Keeps(g, n, path)
<1> DEFINE S == {n \in Nat : \E g : Keeps(g, n, path)}
<1>1. 0 \in S
  <2>1. Keeps([k \in 0..0 |-> <<>>], 0, path)
    BY DEF Keeps
  <2> QED BY <2>1
<1>2. ASSUME NEW n \in Nat, n \in S PROVE n + 1 \in S
  <2>1. PICK g : Keeps(g, n, path)
    BY <1>2
  <2> DEFINE last == IF path[n + 1] = Blank THEN g[n] ELSE Append(g[n], path[n + 1])
             h == [k \in 0..(n + 1) |-> IF k = n + 1 THEN last ELSE g[k]]
  <2>2. \A k \in 0..n : g[k] = IF k = 0 THEN <<>>
                        ELSE IF path[k] = Blank THEN g[k - 1] ELSE Append(g[k - 1], path[k])
    BY <2>1 DEF Keeps
  <2>3. \A k \in 0..(n + 1) : h[k] = IF k = 0 THEN <<>>
                        ELSE IF path[k] = Blank THEN h[k - 1] ELSE Append(h[k - 1], path[k])
    BY <2>2
  <2>4. h = [k \in 0..(n + 1) |-> h[k]]
    OBVIOUS
  <2> HIDE DEF h
  <2>5. Keeps(h, n + 1, path)
    BY <2>3, <2>4 DEF Keeps
  <2> QED BY <2>5
<1> HIDE DEF S
<1> QED BY <1>1, <1>2, Climb DEF S

\* Its equations.
LEMMA KeepsStep == ASSUME NEW g, NEW n \in Nat, NEW path, Keeps(g, n, path)
   PROVE /\ g[0] = <<>>
         /\ \A k \in 1..n : g[k] = IF path[k] = Blank THEN g[k - 1] ELSE Append(g[k - 1], path[k])
<1>1. \A k \in 0..n : g[k] = IF k = 0 THEN <<>>
                        ELSE IF path[k] = Blank THEN g[k - 1] ELSE Append(g[k - 1], path[k])
  BY DEF Keeps
<1> HIDE DEF Keeps
<1> QED BY <1>1

\* Segments is the last of one.
LEMMA SegmentsKept == ASSUME NEW X, NEW path \in Seq(X)
   PROVE \E g : Keeps(g, Len(path), path) /\ Segments(path) = g[Len(path)]
<1>1. \E g : Keeps(g, Len(path), path)
  BY KeepsExists, LenProperties
<1> DEFINE G == CHOOSE g : g = [k \in 0..Len(path) |-> IF k = 0 THEN <<>>
                        ELSE IF path[k] = Blank THEN g[k - 1] ELSE Append(g[k - 1], path[k])]
<1>2. Keeps(G, Len(path), path)
  BY <1>1 DEF Keeps
<1>3. Segments(path) = G[Len(path)]
  BY Zenon DEF Segments
<1> QED BY <1>2, <1>3

\* Two of them agree as far as their paths do.
LEMMA KeepsSame == ASSUME NEW g, NEW h, NEW n \in Nat, NEW m \in Nat, NEW p, NEW q, n <= m,
                          Keeps(g, n, p), Keeps(h, m, q), \A i \in 1..n : p[i] = q[i]
   PROVE \A k \in 0..n : g[k] = h[k]
<1> DEFINE S == {k \in Nat : k <= n => g[k] = h[k]}
<1>1. 0 \in S
  BY KeepsStep
<1>2. ASSUME NEW k \in Nat, k \in S PROVE k + 1 \in S
  BY <1>2, KeepsStep
<1> HIDE DEF S
<1>3. Nat \subseteq S
  BY <1>1, <1>2, Climb
<1> QED BY <1>3 DEF S

\* No segments, none kept.
LEMMA SegmentsEmpty == Segments(<<>>) = <<>>
<1>1. <<>> \in Seq({}) /\ Len(<<>>) = 0
  BY EmptySeq
<1>2. PICK g : Keeps(g, 0, <<>>) /\ Segments(<<>>) = g[0]
  BY <1>1, SegmentsKept
<1> QED BY <1>2, KeepsStep

\* An appended segment is kept unless it is empty.
LEMMA SegmentsAppend == ASSUME NEW X, NEW p \in Seq(X), NEW n \in X
   PROVE Segments(Append(p, n)) = IF n = Blank THEN Segments(p) ELSE Append(Segments(p), n)
<1> DEFINE q == Append(p, n)
           A == Len(p)
<1>1. /\ q \in Seq(X) /\ Len(q) = A + 1 /\ A \in Nat
      /\ \A i \in 1..A : q[i] = p[i]
      /\ q[A + 1] = n
  BY AppendProperties, LenProperties
<1>2. PICK g : Keeps(g, A, p) /\ Segments(p) = g[A]
  BY SegmentsKept
<1>3. PICK h : Keeps(h, A + 1, q) /\ Segments(q) = h[A + 1]
  BY <1>1, SegmentsKept
<1> HIDE DEF A, q
<1>4. g[A] = h[A]
  <2>1. A + 1 \in Nat /\ A <= A + 1 /\ A \in 0..A
    BY <1>1
  <2>2. \A i \in 1..A : p[i] = q[i]
    BY <1>1
  <2> QED BY <1>1, <1>2, <1>3, <2>1, <2>2, KeepsSame
<1> DEFINE B == A + 1
<1>7. Keeps(h, B, q) /\ B \in Nat /\ B \in 1..B /\ B - 1 = A /\ q[B] = n /\ Segments(q) = h[B]
  BY <1>1, <1>3
<1> HIDE DEF B
<1>5. h[B] = IF n = Blank THEN h[A] ELSE Append(h[A], n)
  <2>1. \A k \in 1..B : h[k] = IF q[k] = Blank THEN h[k - 1] ELSE Append(h[k - 1], q[k])
    BY <1>7, KeepsStep
  <2> QED BY <1>7, <2>1
<1>6. Segments(q) = IF n = Blank THEN Segments(p) ELSE Append(Segments(p), n)
  BY <1>2, <1>4, <1>5, <1>7
<1> QED BY <1>6 DEF q

\* Paths as a caller gives them, of any length.
Given == Seq(Name \cup {Blank})

\* The segments of a path are names, no more than it has.
LEMMA SegmentsType == \A p \in Given : Segments(p) \in Seq(Name) /\ Len(Segments(p)) <= Len(p)
<1> DEFINE S == {p \in Given : Segments(p) \in Seq(Name) /\ Len(Segments(p)) <= Len(p)}
<1>1. <<>> \in S
  <2>1. Len(<<>>) = 0 /\ <<>> \in Seq(Name) /\ <<>> \in Given
    BY EmptySeq DEF Given
  <2>2. Segments(<<>>) \in Seq(Name)
    BY <2>1, SegmentsEmpty
  <2>3. Len(Segments(<<>>)) <= Len(<<>>)
    BY <2>1, SegmentsEmpty
  <2> QED BY <2>1, <2>2, <2>3
<1>2. ASSUME NEW p \in Given, NEW n \in Name \cup {Blank}, p \in S PROVE Append(p, n) \in S
  <2>1. Segments(Append(p, n)) = IF n = Blank THEN Segments(p) ELSE Append(Segments(p), n)
    BY SegmentsAppend DEF Given
  <2>2. Append(p, n) \in Given /\ Len(Append(p, n)) = Len(p) + 1 /\ Len(p) \in Nat
    BY AppendProperties, LenProperties DEF Given
  <2>3. Segments(p) \in Seq(Name) /\ Len(Segments(p)) <= Len(p) /\ Len(Segments(p)) \in Nat
    BY <1>2, LenProperties
  <2>4. CASE n = Blank
    BY <2>1, <2>2, <2>3, <2>4
  <2>5. CASE n \in Name /\ n # Blank
    <3>1. Append(Segments(p), n) \in Seq(Name) /\ Len(Append(Segments(p), n)) = Len(Segments(p)) + 1
      BY <2>3, <2>5, AppendProperties
    <3> QED BY <2>1, <2>2, <2>3, <2>5, <3>1
  <2> QED BY <2>4, <2>5
<1> HIDE DEF S
<1>3. Given \subseteq S
  BY <1>1, <1>2, SeqClimb DEF Given
<1> QED BY <1>3 DEF S

\* A path without empty segments has itself as its segments.
LEMMA SegmentsSame == \A p \in Seq(Name) : Segments(p) = p
<1> DEFINE S == {p \in Seq(Name) : Segments(p) = p}
<1>1. <<>> \in S
  BY SegmentsEmpty, EmptySeq
<1>2. ASSUME NEW p \in Seq(Name), NEW n \in Name, p \in S PROVE Append(p, n) \in S
  BY <1>2, SegmentsAppend, AppendProperties, MyceliumAssumption
<1> HIDE DEF S
<1>3. Seq(Name) \subseteq S
  BY <1>1, <1>2, SeqClimb
<1> QED BY <1>3 DEF S

-----------------------------------------------------------------------------
(****************************************************************************)
(* ResolvePath: down from the root, one name at a time.                    *)
(***************************************************************************)
\* g is node of ResolvePath, as far as n.
Follows(g, n, root, s) ==
    g = [k \in 0..n |-> IF k = 0 THEN root ELSE Entry(g[k - 1], s[k])]

\* There is such a g for every n.
LEMMA FollowsExists == ASSUME NEW root, NEW s PROVE \A n \in Nat : \E g : Follows(g, n, root, s)
<1> DEFINE S == {n \in Nat : \E g : Follows(g, n, root, s)}
<1>1. 0 \in S
  <2>1. Follows([k \in 0..0 |-> root], 0, root, s)
    BY DEF Follows
  <2> QED BY <2>1
<1>2. ASSUME NEW n \in Nat, n \in S PROVE n + 1 \in S
  <2>1. PICK g : Follows(g, n, root, s)
    BY <1>2
  <2> DEFINE last == Entry(g[n], s[n + 1])
             h == [k \in 0..(n + 1) |-> IF k = n + 1 THEN last ELSE g[k]]
  <2>2. \A k \in 0..n : g[k] = IF k = 0 THEN root ELSE Entry(g[k - 1], s[k])
    BY <2>1 DEF Follows
  <2>3. \A k \in 0..(n + 1) : h[k] = IF k = 0 THEN root ELSE Entry(h[k - 1], s[k])
    BY <2>2
  <2>4. h = [k \in 0..(n + 1) |-> h[k]]
    OBVIOUS
  <2> HIDE DEF h
  <2>5. Follows(h, n + 1, root, s)
    BY <2>3, <2>4 DEF Follows
  <2> QED BY <2>5
<1> HIDE DEF S
<1> QED BY <1>1, <1>2, Climb DEF S

\* Its equations.
LEMMA FollowsStep == ASSUME NEW g, NEW n \in Nat, NEW root, NEW s, Follows(g, n, root, s)
   PROVE g[0] = root /\ \A k \in 1..n : g[k] = Entry(g[k - 1], s[k])
<1>1. \A k \in 0..n : g[k] = IF k = 0 THEN root ELSE Entry(g[k - 1], s[k])
  BY DEF Follows
<1> HIDE DEF Follows
<1> QED BY <1>1

\* ResolvePath is the last of one.
LEMMA ResolveFollows == ASSUME NEW root, NEW path, Len(Segments(path)) \in Nat
   PROVE \E g : Follows(g, Len(Segments(path)), root, Segments(path))
                /\ ResolvePath(root, path) = g[Len(Segments(path))]
<1>1. \E g : Follows(g, Len(Segments(path)), root, Segments(path))
  BY FollowsExists
<1> DEFINE G == CHOOSE g : g = [k \in 0..Len(Segments(path)) |->
                     IF k = 0 THEN root ELSE Entry(g[k - 1], Segments(path)[k])]
<1>2. Follows(G, Len(Segments(path)), root, Segments(path))
  BY <1>1 DEF Follows
<1>3. ResolvePath(root, path) = G[Len(Segments(path))]
  BY Zenon DEF ResolvePath
<1> QED BY <1>2, <1>3

\* Two of them agree as far as their paths do.
LEMMA FollowsSame == ASSUME NEW g, NEW h, NEW n \in Nat, NEW m \in Nat, NEW root, NEW s, NEW t, n <= m,
                          Follows(g, n, root, s), Follows(h, m, root, t), \A i \in 1..n : s[i] = t[i]
   PROVE \A k \in 0..n : g[k] = h[k]
<1> DEFINE S == {k \in Nat : k <= n => g[k] = h[k]}
<1>1. 0 \in S
  BY FollowsStep
<1>2. ASSUME NEW k \in Nat, k \in S PROVE k + 1 \in S
  BY <1>2, FollowsStep
<1> HIDE DEF S
<1>3. Nat \subseteq S
  BY <1>1, <1>2, Climb
<1> QED BY <1>3 DEF S

\* Whatever the spelling of a path, its segments lead to the same entry.
LEMMA ResolveGiven == ASSUME NEW root, NEW path \in Given
   PROVE ResolvePath(root, path) = ResolvePath(root, Segments(path))
<1>1. Segments(path) \in Seq(Name) /\ Segments(Segments(path)) = Segments(path)
  BY SegmentsType, SegmentsSame
<1> DEFINE s == Segments(path)
<1>2. ResolvePath(root, path) = LET node[k \in 0..Len(s)] == IF k = 0 THEN root
          ELSE Entry(node[k - 1], s[k])
                                IN  node[Len(s)]
  BY Zenon DEF ResolvePath
<1>3. ResolvePath(root, s) = LET t == Segments(s)
                                 node[k \in 0..Len(t)] == IF k = 0 THEN root
                                     ELSE Entry(node[k - 1], t[k])
                             IN  node[Len(t)]
  BY Zenon DEF ResolvePath
<1>4. Segments(s) = s
  BY <1>1
<1> HIDE DEF s
<1>5. ResolvePath(root, s) = LET node[k \in 0..Len(s)] == IF k = 0 THEN root
          ELSE Entry(node[k - 1], s[k])
                             IN  node[Len(s)]
  BY <1>3, <1>4, Zenon
<1> QED BY <1>2, <1>5, Zenon DEF s

\* The empty path leads to the root.
LEMMA ResolveRoot == ASSUME NEW root PROVE ResolvePath(root, <<>>) = root
<1>1. Segments(<<>>) = <<>> /\ Len(<<>>) = 0 /\ 0 \in Nat
  BY SegmentsEmpty, EmptySeq
<1>2. PICK g : Follows(g, 0, root, <<>>) /\ ResolvePath(root, <<>>) = g[0]
  BY <1>1, ResolveFollows
<1> QED BY <1>1, <1>2, FollowsStep

\* A path with one more name leads to that entry of what it led to.
LEMMA ResolveAppend == ASSUME NEW root, NEW p \in Seq(Name), NEW n \in Name
   PROVE ResolvePath(root, Append(p, n)) = Entry(ResolvePath(root, p), n)
<1> DEFINE q == Append(p, n)
           A == Len(p)
           B == A + 1
<1>1. /\ q \in Seq(Name) /\ Len(q) = A + 1 /\ A \in Nat
      /\ \A i \in 1..A : p[i] = q[i]
      /\ q[A + 1] = n
  BY AppendProperties, LenProperties
<1>2. Segments(p) = p /\ Segments(q) = q
  BY <1>1, SegmentsSame
<1>3. PICK g : Follows(g, A, root, p) /\ ResolvePath(root, p) = g[A]
  BY <1>1, <1>2, ResolveFollows
<1>9. Segments(q) = q /\ Len(q) = B /\ B \in Nat
  BY <1>1, <1>2
<1>5. A \in Nat /\ B \in Nat /\ B \in 1..B /\ B - 1 = A /\ A <= B /\ A \in 0..A /\ q[B] = n
      /\ \A i \in 1..A : p[i] = q[i]
  BY <1>1
<1> HIDE DEF A, B, q
<1>4. PICK h : Follows(h, B, root, q) /\ ResolvePath(root, q) = h[B]
  <2>1. Len(Segments(q)) \in Nat
    BY <1>9
  <2>2. \E h : Follows(h, Len(Segments(q)), root, Segments(q))
                /\ ResolvePath(root, q) = h[Len(Segments(q))]
    BY <2>1, ResolveFollows
  <2> QED BY <1>9, <2>2
<1>6. g[A] = h[A]
  BY <1>3, <1>4, <1>5, FollowsSame
<1>7. h[B] = Entry(h[A], n)
  <2>1. \A k \in 1..B : h[k] = Entry(h[k - 1], q[k])
    BY <1>4, <1>5, FollowsStep
  <2> QED BY <1>5, <2>1
<1>8. ResolvePath(root, q) = Entry(ResolvePath(root, p), n)
  BY <1>3, <1>4, <1>6, <1>7
<1> QED BY <1>8 DEF q

-----------------------------------------------------------------------------
(****************************************************************************)
(* Objects: trees have files and trees in them, and nothing else.          *)
(***************************************************************************)
\* All blobs.
Files == {File(v) : v \in Value}

\* All trees over some objects.
TreesOf(nodes) == {Tree(entries) : entries \in UNION {[S -> nodes] : S \in SUBSET Name}}

\* g is Objects, as far as n.
Levels(g, n) == g = [d \in 0..n |-> Files \cup IF d = 0 THEN {} ELSE TreesOf(g[d - 1])]

\* There is such a g for every n.
LEMMA LevelsExist == \A n \in Nat : \E g : Levels(g, n)
<1> DEFINE S == {n \in Nat : \E g : Levels(g, n)}
<1>1. 0 \in S
  <2>1. Levels([k \in 0..0 |-> Files \cup {}], 0)
    BY DEF Levels
  <2> QED BY <2>1
<1>2. ASSUME NEW n \in Nat, n \in S PROVE n + 1 \in S
  <2>1. PICK g : Levels(g, n)
    BY <1>2
  <2> DEFINE last == Files \cup TreesOf(g[n])
             h == [k \in 0..(n + 1) |-> IF k = n + 1 THEN last ELSE g[k]]
  <2>2. \A k \in 0..n : g[k] = Files \cup IF k = 0 THEN {} ELSE TreesOf(g[k - 1])
    BY <2>1 DEF Levels
  <2>3. \A k \in 0..(n + 1) : h[k] = Files \cup IF k = 0 THEN {} ELSE TreesOf(h[k - 1])
    <3> HIDE DEF TreesOf, Files
    <3> QED BY <2>2
  <2>4. h = [k \in 0..(n + 1) |-> h[k]]
    OBVIOUS
  <2> HIDE DEF h
  <2>5. Levels(h, n + 1)
    BY <2>3, <2>4 DEF Levels
  <2> QED BY <2>5
<1> HIDE DEF S
<1> QED BY <1>1, <1>2, Climb DEF S

\* The equation of Objects.
LEMMA ObjectsLevels == ASSUME NEW d \in 0..MaxDepth
   PROVE Objects[d] = Files \cup IF d = 0 THEN {} ELSE TreesOf(Objects[d - 1])
<1>1. \E g : Levels(g, MaxDepth)
  BY LevelsExist, MyceliumAssumption
<1>2. Levels(Objects, MaxDepth)
  <2>1. Objects = CHOOSE g : g = [levels \in 0..MaxDepth |-> {File(v) : v \in Value} \cup
        IF levels = 0 THEN {}
        ELSE {Tree(entries) : entries \in UNION {[S -> g[levels - 1]] : S \in SUBSET Name}}]
    BY Zenon DEF Objects
  <2> DEFINE G == CHOOSE g : Levels(g, MaxDepth)
  <2>2. Levels(G, MaxDepth)
    BY <1>1
  <2>3. Objects = G
    BY <2>1 DEF Levels, Files, TreesOf
  <2> QED BY <2>2, <2>3
<1>3. \A k \in 0..MaxDepth : Objects[k] = Files \cup IF k = 0 THEN {} ELSE TreesOf(Objects[k - 1])
  BY <1>2 DEF Levels
<1> QED BY <1>3

\* A blob is an object of any depth.
LEMMA ObjectsFile == ASSUME NEW d \in 0..MaxDepth, NEW v \in Value PROVE File(v) \in Objects[d]
BY ObjectsLevels DEF Files

\* A tree over objects has one level more.
LEMMA ObjectsTree == ASSUME NEW d \in 1..MaxDepth, NEW S \in SUBSET Name, NEW e \in [S -> Objects[d - 1]]
   PROVE Tree(e) \in Objects[d]
<1>1. Tree(e) \in TreesOf(Objects[d - 1])
  BY DEF TreesOf
<1>2. d \in 0..MaxDepth /\ d # 0
  BY MyceliumAssumption
<1> QED BY <1>1, <1>2, ObjectsLevels

\* There are no other objects.
LEMMA ObjectsCase == ASSUME NEW d \in 0..MaxDepth, NEW node \in Objects[d]
   PROVE \/ \E v \in Value : node = File(v)
         \/ d # 0 /\ \E S \in SUBSET Name : \E e \in [S -> Objects[d - 1]] : node = Tree(e)
<1>1. node \in Files \/ (d # 0 /\ node \in TreesOf(Objects[d - 1]))
  BY ObjectsLevels
<1> QED BY <1>1 DEF Files, TreesOf

\* An object of some depth is one of any greater depth.
LEMMA ObjectsGrow == ASSUME NEW k \in Nat, NEW d \in Nat, k <= d, d <= MaxDepth
   PROVE Objects[k] \subseteq Objects[d]
<1> DEFINE S == {i \in Nat : i < MaxDepth => Objects[i] \subseteq Objects[i + 1]}
<1>1. 0 \in S
  <2> SUFFICES ASSUME 0 < MaxDepth, NEW node \in Objects[0] PROVE node \in Objects[1]
    OBVIOUS
  <2>1. 0 \in 0..MaxDepth /\ 1 \in 0..MaxDepth
    BY MyceliumAssumption
  <2>2. PICK v \in Value : node = File(v)
    BY <2>1, ObjectsCase
  <2> QED BY <2>1, <2>2, ObjectsFile
<1>2. ASSUME NEW i \in Nat, i \in S PROVE i + 1 \in S
  <2> SUFFICES ASSUME i + 1 < MaxDepth, NEW node \in Objects[i + 1] PROVE node \in Objects[i + 2]
    OBVIOUS
  <2>1. i + 1 \in 0..MaxDepth /\ i + 2 \in 1..MaxDepth /\ i + 2 \in 0..MaxDepth /\ i + 2 - 1 = i + 1
        /\ i + 1 - 1 = i /\ i < MaxDepth
    BY MyceliumAssumption
  <2>2. CASE \E v \in Value : node = File(v)
    BY <2>1, <2>2, ObjectsFile
  <2>3. ASSUME NEW T \in SUBSET Name, NEW e \in [T -> Objects[i]], node = Tree(e)
        PROVE  node \in Objects[i + 2]
    <3>1. e \in [T -> Objects[i + 1]]
      BY <1>2, <2>1
    <3> DEFINE j == i + 2
    <3>2. j \in 1..MaxDepth /\ j - 1 = i + 1
      BY <2>1
    <3> HIDE DEF j
    <3>3. Tree(e) \in Objects[j]
      BY <3>1, <3>2, ObjectsTree
    <3> QED BY <2>3, <3>3 DEF j
  <2>4. (\E v \in Value : node = File(v)) \/ \E T \in SUBSET Name : \E e \in [T -> Objects[i]] :
            node = Tree(e)
    <3> DEFINE j == i + 1
    <3>1. j \in 0..MaxDepth /\ node \in Objects[j] /\ j - 1 = i
      BY <2>1
    <3> HIDE DEF j
    <3> QED BY <3>1, ObjectsCase
  <2> QED BY <2>2, <2>3, <2>4
<1> HIDE DEF S
<1>3. Nat \subseteq S
  BY <1>1, <1>2, Climb
<1>4. \A i \in Nat : i < MaxDepth => Objects[i] \subseteq Objects[i + 1]
  BY <1>3 DEF S
<1> DEFINE T == {i \in Nat : k + i <= MaxDepth => Objects[k] \subseteq Objects[k + i]}
<1>5. 0 \in T
  OBVIOUS
<1>6. ASSUME NEW i \in Nat, i \in T PROVE i + 1 \in T
  <2> SUFFICES ASSUME k + (i + 1) <= MaxDepth PROVE Objects[k] \subseteq Objects[k + (i + 1)]
    OBVIOUS
  <2>1. k + i < MaxDepth /\ k + i \in Nat /\ k + (i + 1) = (k + i) + 1
    BY MyceliumAssumption
  <2>2. Objects[k] \subseteq Objects[k + i]
    BY <1>6, <2>1, MyceliumAssumption
  <2>3. Objects[k + i] \subseteq Objects[(k + i) + 1]
    BY <1>4, <2>1
  <2> QED BY <2>1, <2>2, <2>3
<1> HIDE DEF T
<1>7. Nat \subseteq T
  BY <1>5, <1>6, Climb
<1>8. d - k \in Nat /\ k + (d - k) = d
  OBVIOUS
<1> QED BY <1>7, <1>8 DEF T

\* null is no object, at any depth.
LEMMA NotMissing == ASSUME NEW d \in 0..MaxDepth, NEW node \in Objects[d] PROVE node # Missing
BY ObjectsGrow, MissingAssumption, MyceliumAssumption

\* A blob is there, is no tree, and has its value.
LEMMA FileObject == ASSUME NEW v \in Value PROVE File(v) # Missing /\ ~ IsTree(File(v))
    /\ File(v).value = v
<1>1. 0 \in 0..MaxDepth
  BY MyceliumAssumption
<1>2. File(v) # Missing
  BY <1>1, ObjectsFile, NotMissing
<1> QED BY <1>2 DEF File, IsTree

\* A tree has some levels, and objects of one level less in it.
LEMMA TreeObject == ASSUME NEW d \in 0..MaxDepth, NEW node \in Objects[d], IsTree(node)
   PROVE d # 0 /\ \E S \in SUBSET Name : \E e \in [S -> Objects[d - 1]] :
             node = Tree(e) /\ node.entries = e
BY ObjectsCase, FileObject DEF Tree

\* An object with so many levels, or nothing.
Node(d) == Objects[d] \cup {Missing}

\* Nothing has no entries,
LEMMA EntryMissing == ASSUME NEW n PROVE Entry(Missing, n) = Missing
BY DEF Entry, IsTree

\* and neither has a file.
LEMMA EntryFile == ASSUME NEW v \in Value, NEW n PROVE Entry(File(v), n) = Missing
BY FileObject DEF Entry

\* An entry has one level less.
LEMMA EntryType == ASSUME NEW d \in 1..MaxDepth, NEW node \in Node(d), NEW n
   PROVE Entry(node, n) \in Node(d - 1)
<1>1. d \in 0..MaxDepth /\ d - 1 \in 0..MaxDepth
  BY MyceliumAssumption
<1>2. CASE IsTree(node)
  <2>1. node \in Objects[d]
    BY <1>2 DEF Node, IsTree
  <2>2. PICK S \in SUBSET Name : \E e \in [S -> Objects[d - 1]] : node = Tree(e) /\ node.entries = e
    BY <1>1, <1>2, <2>1, TreeObject
  <2> QED BY <2>2 DEF Entry, Node
<1>3. CASE ~ IsTree(node)
  BY <1>3 DEF Entry, Node
<1> QED BY <1>2, <1>3

\* With no levels left there are no entries.
LEMMA EntryBottom == ASSUME NEW node \in Node(0), NEW n PROVE Entry(node, n) = Missing
<1>1. 0 \in 0..MaxDepth
  BY MyceliumAssumption
<1>2. ~ IsTree(node)
  BY <1>1, TreeObject DEF Node, IsTree
<1> QED BY <1>2 DEF Entry

-----------------------------------------------------------------------------
(****************************************************************************)
(* What a path leads to is an object with as many levels less.             *)
(***************************************************************************)
\* Each name of a path takes one level, and past the last there is nothing.
LEMMA ResolveType == ASSUME NEW root \in Node(MaxDepth)
   PROVE \A p \in Seq(Name) :
            ResolvePath(root, p) \in IF Len(p) <= MaxDepth THEN Node(MaxDepth - Len(p)) ELSE {Missing}
<1> DEFINE S == {p \in Seq(Name) :
            ResolvePath(root, p) \in IF Len(p) <= MaxDepth THEN Node(MaxDepth - Len(p)) ELSE {Missing}}
<1>1. <<>> \in S
  <2>1. Len(<<>>) = 0 /\ <<>> \in Seq(Name)
    BY EmptySeq
  <2>2. MaxDepth - 0 = MaxDepth /\ 0 <= MaxDepth
    BY MyceliumAssumption
  <2> QED BY <2>1, <2>2, ResolveRoot
<1>2. ASSUME NEW p \in Seq(Name), NEW n \in Name, p \in S PROVE Append(p, n) \in S
  <2> DEFINE A == Len(p)
             q == Append(p, n)
             r == ResolvePath(root, p)
  <2>1. A \in Nat /\ q \in Seq(Name) /\ Len(q) = A + 1 /\ ResolvePath(root, q) = Entry(r, n)
    BY AppendProperties, LenProperties, ResolveAppend
  <2>2. r \in IF A <= MaxDepth THEN Node(MaxDepth - A) ELSE {Missing}
    BY <1>2
  <2> HIDE DEF A, q, r
  <2>3. Entry(r, n) \in IF A + 1 <= MaxDepth THEN Node(MaxDepth - (A + 1)) ELSE {Missing}
    <3>1. CASE A + 1 <= MaxDepth
      <4> DEFINE d == MaxDepth - A
      <4>1. d \in 1..MaxDepth /\ r \in Node(d) /\ d - 1 = MaxDepth - (A + 1)
        BY <2>1, <2>2, <3>1, MyceliumAssumption
      <4> HIDE DEF d
      <4>2. Entry(r, n) \in Node(d - 1)
        BY <4>1, EntryType
      <4> QED BY <3>1, <4>1, <4>2
    <3>2. CASE A = MaxDepth
      <4>1. r \in Node(0)
        BY <2>1, <2>2, <3>2, MyceliumAssumption
      <4>2. ~ (A + 1 <= MaxDepth)
        BY <2>1, <3>2
      <4> QED BY <4>1, <4>2, EntryBottom
    <3>3. CASE A > MaxDepth
      <4>1. r = Missing /\ ~ (A + 1 <= MaxDepth)
        BY <2>1, <2>2, <3>3, MyceliumAssumption
      <4> QED BY <4>1, EntryMissing
    <3> QED BY <2>1, <3>1, <3>2, <3>3, MyceliumAssumption
  <2> QED BY <2>1, <2>3 DEF q
<1> HIDE DEF S
<1>3. Seq(Name) \subseteq S
  BY <1>1, <1>2, SeqClimb
<1> QED BY <1>3 DEF S

-----------------------------------------------------------------------------
(****************************************************************************)
(* Walk: the new trees, from the leaf of the path up.                      *)
(***************************************************************************)
\* The entries of the folder after j names of the path, before the walk.
OldEntries(root, s, j) == Entries(ResolvePath(root, SubSeq(s, 1, j)))

\* The entries of the tree that replaces it, with k names of the path below.
Remade(root, s, node, k, newer) ==
    IF k > 1 THEN With(OldEntries(root, s, Len(s) - k), s[Len(s) - k + 1], newer)
    ELSE IF node = Missing THEN Without(OldEntries(root, s, Len(s) - 1), s[Len(s) - 1 + 1])
    ELSE With(OldEntries(root, s, Len(s) - 1), s[Len(s) - 1 + 1], node)

\* g is new of Walk, as far as n.
Rebuilds(g, n, root, s, node) == g = [k \in 1..n |-> Tree(Remade(root, s, node, k, g[k - 1]))]

\* There is such a g for every n.
LEMMA RebuildsExists == ASSUME NEW root, NEW s, NEW node
   PROVE \A n \in Nat : \E g : Rebuilds(g, n, root, s, node)
<1> DEFINE S == {n \in Nat : \E g : Rebuilds(g, n, root, s, node)}
<1>1. 0 \in S
  <2>1. Rebuilds([k \in 1..0 |-> root], 0, root, s, node)
    BY DEF Rebuilds
  <2> QED BY <2>1
<1>2. ASSUME NEW n \in Nat, n \in S PROVE n + 1 \in S
  <2>1. PICK g : Rebuilds(g, n, root, s, node)
    BY <1>2
  <2> DEFINE last == Tree(Remade(root, s, node, n + 1, g[n]))
             h == [k \in 1..(n + 1) |-> IF k = n + 1 THEN last ELSE g[k]]
  <2>2. \A k \in 1..n : g[k] = Tree(Remade(root, s, node, k, g[k - 1]))
    BY <2>1 DEF Rebuilds
  <2>3. \A k \in 1..(n + 1) : h[k] = Tree(Remade(root, s, node, k, h[k - 1]))
    <3>1. ASSUME NEW k \in 1..(n + 1) PROVE h[k] = Tree(Remade(root, s, node, k, h[k - 1]))
      <4> HIDE DEF Remade
      <4>1. CASE k = 1
        <5>1. Remade(root, s, node, 1, g[0]) = Remade(root, s, node, 1, h[0])
          <6>1. \A x, y : Remade(root, s, node, 1, x) = Remade(root, s, node, 1, y)
            <7>1. ~ (1 > 1)
              OBVIOUS
            <7> QED BY <7>1, Zenon DEF Remade
          <6> QED BY <6>1
        <5>2. CASE n = 0
          BY <4>1, <5>1, <5>2
        <5>3. CASE n # 0
          BY <2>2, <4>1, <5>1, <5>3
        <5> QED BY <5>2, <5>3
      <4>2. CASE k # 1 /\ k # n + 1
        BY <2>2, <4>2
      <4>3. CASE k # 1 /\ k = n + 1
        BY <2>2, <4>3
      <4> QED BY <4>1, <4>2, <4>3
    <3> QED BY <3>1
  <2>4. h = [k \in 1..(n + 1) |-> h[k]]
    OBVIOUS
  <2> HIDE DEF h
  <2>5. Rebuilds(h, n + 1, root, s, node)
    BY <2>3, <2>4 DEF Rebuilds
  <2> QED BY <2>5
<1> HIDE DEF S
<1> QED BY <1>1, <1>2, Climb DEF S

\* Walk is the last of one.
LEMMA WalkRebuilds == ASSUME NEW root, NEW s, NEW node, Len(s) \in Nat \ {0}
   PROVE \E g : /\ \A k \in 1..Len(s) : g[k] = Tree(Remade(root, s, node, k, g[k - 1]))
                /\ Walk(root, s, node) = g[Len(s)]
<1>1. \E g : Rebuilds(g, Len(s), root, s, node)
  BY RebuildsExists
<1> DEFINE G == CHOOSE g : g = [k \in 1..Len(s) |->
            Tree(IF k > 1 THEN With(Entries(ResolvePath(root, SubSeq(s, 1, Len(s) - k))), s[Len(s) - k + 1],
                                g[k - 1])
                 ELSE IF node = Missing
                 THEN Without(Entries(ResolvePath(root, SubSeq(s, 1, Len(s) - 1))), s[Len(s) - 1 + 1])
                 ELSE With(Entries(ResolvePath(root, SubSeq(s, 1, Len(s) - 1))), s[Len(s) - 1 + 1], node))]
<1>2. Rebuilds(G, Len(s), root, s, node)
  BY <1>1 DEF Rebuilds, Remade, OldEntries
<1>3. Walk(root, s, node) = G[Len(s)]
  BY Zenon DEF Walk
<1>4. \A k \in 1..Len(s) : G[k] = Tree(Remade(root, s, node, k, G[k - 1]))
  <2> HIDE DEF G
  <2> QED BY <1>2 DEF Rebuilds
<1> QED BY <1>3, <1>4

\* The entries of a folder, or none where there is no folder.
LEMMA EntriesType == ASSUME NEW d \in 1..MaxDepth, NEW r \in Node(d), r = Missing \/ IsTree(r)
   PROVE \E S \in SUBSET Name : /\ Entries(r) \in [S -> Objects[d - 1]]
                                /\ \A n : Entry(r, n) = IF n \in S THEN Entries(r)[n] ELSE Missing
<1>0. d \in 0..MaxDepth
  OBVIOUS
<1>1. CASE r = Missing
  <2>1. Entries(r) \in [{} -> Objects[d - 1]]
    BY <1>1 DEF Entries, NoEntries
  <2>2. \A n : Entry(r, n) = Missing
    BY <1>1, EntryMissing
  <2>3. {} \in SUBSET Name /\ \A n : Entry(r, n) = IF n \in {} THEN Entries(r)[n] ELSE Missing
    BY <2>2
  <2> QED BY <2>1, <2>3
<1>2. CASE r # Missing /\ IsTree(r)
  <2>1. r \in Objects[d]
    BY <1>2 DEF Node
  <2>2. PICK S \in SUBSET Name : \E e \in [S -> Objects[d - 1]] : r = Tree(e) /\ r.entries = e
    BY <1>0, <1>2, <2>1, TreeObject
  <2>3. Entries(r) \in [S -> Objects[d - 1]] /\ DOMAIN r.entries = S /\ Entries(r) = r.entries
    BY <1>2, <2>2 DEF Entries
  <2>4. \A n : Entry(r, n) = IF n \in S THEN Entries(r)[n] ELSE Missing
    BY <1>2, <2>3 DEF Entry
  <2> QED BY <2>3, <2>4
<1> QED BY <1>1, <1>2

\* A tree made of entries has them.
LEMMA EntryTree == ASSUME NEW d \in 1..MaxDepth, NEW S \in SUBSET Name, NEW e \in [S -> Objects[d - 1]]
   PROVE /\ Tree(e) \in Objects[d]
         /\ IsTree(Tree(e))
         /\ \A n : Entry(Tree(e), n) = IF n \in S THEN e[n] ELSE Missing
<1>1. Tree(e) \in Objects[d]
  BY ObjectsTree
<1>2. IsTree(Tree(e))
  <2>1. d \in 0..MaxDepth
    OBVIOUS
  <2>2. Tree(e) # Missing
    BY <1>1, <2>1, NotMissing
  <2> QED BY <2>2 DEF IsTree, Tree
<1>3. Tree(e).entries = e /\ DOMAIN e = S
  BY DEF Tree
<1> QED BY <1>1, <1>2, <1>3 DEF Entry

\* The tree with one entry set has it, and its other entries,
LEMMA EntryWith == ASSUME NEW d \in 1..MaxDepth, NEW r \in Node(d), r = Missing \/ IsTree(r),
                          NEW n \in Name, NEW x \in Objects[d - 1]
   PROVE /\ Tree(With(Entries(r), n, x)) \in Objects[d]
         /\ IsTree(Tree(With(Entries(r), n, x)))
         /\ \A k : Entry(Tree(With(Entries(r), n, x)), k) = IF k = n THEN x ELSE Entry(r, k)
<1>1. PICK S \in SUBSET Name : /\ Entries(r) \in [S -> Objects[d - 1]]
                               /\ \A k : Entry(r, k) = IF k \in S THEN Entries(r)[k] ELSE Missing
  BY EntriesType
<1> DEFINE e == With(Entries(r), n, x)
<1>2. e \in [S \cup {n} -> Objects[d - 1]] /\ \A k \in S \cup {n} : e[k] = IF k = n THEN x
          ELSE Entries(r)[k]
  BY <1>1 DEF With
<1> HIDE DEF e
<1>3. S \cup {n} \in SUBSET Name
  OBVIOUS
<1>4. /\ Tree(e) \in Objects[d]
      /\ IsTree(Tree(e))
      /\ \A k : Entry(Tree(e), k) = IF k \in S \cup {n} THEN e[k] ELSE Missing
  BY <1>2, <1>3, EntryTree
<1>5. \A k : Entry(Tree(e), k) = IF k = n THEN x ELSE Entry(r, k)
  BY <1>1, <1>2, <1>4
<1> QED BY <1>4, <1>5 DEF e

\* and the tree with one taken away has its other entries.
LEMMA EntryWithout == ASSUME NEW d \in 1..MaxDepth, NEW r \in Node(d), r = Missing
    \/ IsTree(r), NEW n \in Name
   PROVE /\ Tree(Without(Entries(r), n)) \in Objects[d]
         /\ IsTree(Tree(Without(Entries(r), n)))
         /\ \A k : Entry(Tree(Without(Entries(r), n)), k) = IF k = n THEN Missing ELSE Entry(r, k)
<1>1. PICK S \in SUBSET Name : /\ Entries(r) \in [S -> Objects[d - 1]]
                               /\ \A k : Entry(r, k) = IF k \in S THEN Entries(r)[k] ELSE Missing
  BY EntriesType
<1> DEFINE e == Without(Entries(r), n)
<1>2. e \in [S \ {n} -> Objects[d - 1]] /\ \A k \in S \ {n} : e[k] = Entries(r)[k]
  BY <1>1 DEF Without
<1> HIDE DEF e
<1>3. S \ {n} \in SUBSET Name
  OBVIOUS
<1>4. /\ Tree(e) \in Objects[d]
      /\ IsTree(Tree(e))
      /\ \A k : Entry(Tree(e), k) = IF k \in S \ {n} THEN e[k] ELSE Missing
  BY <1>2, <1>3, EntryTree
<1>5. \A k : Entry(Tree(e), k) = IF k = n THEN Missing ELSE Entry(r, k)
  BY <1>1, <1>2, <1>4
<1> QED BY <1>4, <1>5 DEF e

\* The first j names of a path.
LEMMA Prefix == ASSUME NEW s \in Seq(Name), NEW j \in 0..Len(s)
   PROVE SubSeq(s, 1, j) \in Seq(Name) /\ Len(SubSeq(s, 1, j)) = j /\ \A i \in 1..j :
             SubSeq(s, 1, j)[i] = s[i]
<1> DEFINE A == Len(s)
<1>1. A \in Nat /\ \A i \in 1..A : s[i] \in Name
  BY LenProperties, ElementOfSeq
<1>2. j \in Nat /\ j \in Int /\ 1 \in Int /\ j <= A
  BY <1>1
<1> HIDE DEF A
<1>3. \A i \in 1..j : s[i] \in Name
  BY <1>1, <1>2
<1>4. /\ SubSeq(s, 1, j) \in Seq(Name)
      /\ Len(SubSeq(s, 1, j)) = IF 1 <= j THEN j - 1 + 1 ELSE 0
      /\ \A i \in 1..(j - 1 + 1) : SubSeq(s, 1, j)[i] = s[1 + i - 1]
  BY <1>2, <1>3, SubSeqProperties
<1>5. (IF 1 <= j THEN j - 1 + 1 ELSE 0) = j /\ j - 1 + 1 = j /\ \A i \in 1..j : 1 + i - 1 = i
  BY <1>2
<1> QED BY <1>4, <1>5

\* Path has the non-empty paths up to the bound.
LEMMA PathSeq == Path = {p \in Seq(Name) : Len(p) \in 1..MaxDepth}
<1>1. ASSUME NEW p \in Path PROVE p \in Seq(Name) /\ Len(p) \in 1..MaxDepth
  <2>1. PICK n \in 1..MaxDepth : p \in [1..n -> Name]
    BY DEF Path
  <2>2. n \in Nat
    BY MyceliumAssumption
  <2>3. p \in Seq(Name) /\ Len(p) = n
    BY <2>1, <2>2
  <2> QED BY <2>3
<1>2. ASSUME NEW p \in Seq(Name), Len(p) \in 1..MaxDepth PROVE p \in Path
  BY <1>2, LenProperties DEF Path
<1> QED BY <1>1, <1>2

-----------------------------------------------------------------------------
(****************************************************************************)
(* Paths that begin with others.                                           *)
(***************************************************************************)
\* s begins with p.
Begins(p, s) == Len(p) <= Len(s) /\ \A i \in 1..Len(p) : p[i] = s[i]

\* Then p is the first names of s,
LEMMA BeginsPrefix == ASSUME NEW s \in Seq(Name), NEW p \in Seq(Name), Begins(p, s)
   PROVE SubSeq(s, 1, Len(p)) = p /\ Len(p) \in 0..Len(s)
<1>1. Len(p) \in 0..Len(s) /\ \A i \in 1..Len(p) : p[i] = s[i]
  BY LenProperties DEF Begins
<1> DEFINE q == SubSeq(s, 1, Len(p))
<1>2. q \in Seq(Name) /\ Len(q) = Len(p) /\ \A i \in 1..Len(p) : q[i] = s[i]
  BY <1>1, Prefix
<1> HIDE DEF q
<1>3. q = p
  <2>1. \A i \in 1..Len(q) : q[i] = p[i]
    BY <1>1, <1>2
  <2> QED BY <1>2, <2>1, SeqEqual
<1> QED BY <1>1, <1>3 DEF q

\* and the first names of s are such a p.
LEMMA PrefixBegins == ASSUME NEW s \in Seq(Name), NEW j \in 0..Len(s)
   PROVE Begins(SubSeq(s, 1, j), s)
BY Prefix DEF Begins

-----------------------------------------------------------------------------
(****************************************************************************)
(* What a put or a remove leaves at every path.                            *)
(***************************************************************************)
\* The root of a repository: none yet, or a tree.
Good(root) == root = Missing \/ (root \in Objects[MaxDepth] /\ IsTree(root))

\* modifyTree does not throw: node is put at s, or removed if it is Missing.
Clear(root, s, node) ==
    /\ s \in Path
    /\ node = Missing \/ node \in Files
    /\ ~ Conflict(root, s, node)

\* A root is a node.
LEMMA GoodNode == ASSUME NEW root, Good(root) PROVE root \in Node(MaxDepth)
BY DEF Good, Node

\* What modifyTree has found out when it walks.
LEMMA ClearMeans == ASSUME NEW root, NEW s, NEW node, Clear(root, s, node)
   PROVE /\ s \in Seq(Name) /\ Len(s) \in 1..MaxDepth
         /\ \A j \in 1..(Len(s) - 1) : LET r == ResolvePath(root, SubSeq(s, 1, j))
                IN r = Missing \/ IsTree(r)
         /\ node = Missing => ResolvePath(root, s) # Missing
         /\ node # Missing => ~ IsTree(ResolvePath(root, s))
BY PathSeq DEF Clear, Conflict, Blocked

\* N[j] replaces the folder after j names of the path: it has the next of them on
\* the path, and everything else that was there.
Rebuilt(N, root, s, node) ==
    /\ N[Len(s)] = node
    /\ \A j \in 0..(Len(s) - 1) :
          /\ N[j] \in Objects[MaxDepth - j]
          /\ IsTree(N[j])
          /\ \A n : Entry(N[j], n) = IF n = s[j + 1] THEN N[j + 1]
                                     ELSE Entry(ResolvePath(root, SubSeq(s, 1, j)), n)

\* Walk makes such folders, of which the first is the new root.
LEMMA WalkRebuilt == ASSUME NEW root, NEW s, NEW node, Good(root), Clear(root, s, node)
   PROVE \E N : Rebuilt(N, root, s, node) /\ N[0] = Walk(root, s, node)
<1> DEFINE m == Len(s)
           W == Walk(root, s, node)
<1>1. s \in Seq(Name) /\ m \in 1..MaxDepth
  BY ClearMeans
<1>2. m \in Nat \ {0} /\ m <= MaxDepth /\ MaxDepth \in Nat
  BY <1>1, MyceliumAssumption
<1>3. PICK g : /\ \A k \in 1..m : g[k] = Tree(Remade(root, s, node, k, g[k - 1]))
               /\ W = g[m]
  BY <1>2, WalkRebuilds
<1>4. \A j \in 0..(m - 1) : /\ ResolvePath(root, SubSeq(s, 1, j)) \in Node(MaxDepth - j)
                            /\ ResolvePath(root, SubSeq(s, 1, j)) = Missing
                                   \/ IsTree(ResolvePath(root, SubSeq(s, 1, j)))
  <2> SUFFICES ASSUME NEW j \in 0..(m - 1)
               PROVE /\ ResolvePath(root, SubSeq(s, 1, j)) \in Node(MaxDepth - j)
                     /\ ResolvePath(root, SubSeq(s, 1, j)) = Missing
                            \/ IsTree(ResolvePath(root, SubSeq(s, 1, j)))
    OBVIOUS
  <2> DEFINE p == SubSeq(s, 1, j)
  <2>0. j \in 0..m /\ j <= MaxDepth
    BY <1>2
  <2>1. p \in Seq(Name) /\ Len(p) = j
    BY <1>1, <2>0, Prefix
  <2>2. ResolvePath(root, p) \in Node(MaxDepth - j)
    <3> HIDE DEF p
    <3>1. ResolvePath(root, p) \in IF Len(p) <= MaxDepth THEN Node(MaxDepth - Len(p)) ELSE {Missing}
      BY <2>1, GoodNode, ResolveType
    <3> QED BY <2>0, <2>1, <3>1
  <2>3. CASE j = 0
    <3>1. p = <<>>
      BY <2>3, SubSeqEmpty
    <3>2. ResolvePath(root, p) = root
      BY <3>1, ResolveRoot
    <3> QED BY <2>2, <3>2 DEF Good
  <2>4. CASE j # 0
    <3>1. j \in 1..(m - 1)
      BY <1>2, <2>4
    <3>2. ResolvePath(root, p) = Missing \/ IsTree(ResolvePath(root, p))
      BY <3>1, ClearMeans
    <3> QED BY <2>2, <3>2
  <2> QED BY <2>3, <2>4
<1>5. \A i \in 1..m : s[i] \in Name
  BY <1>1, ElementOfSeq
<1> DEFINE N == [j \in 0..m |-> IF j = m THEN node ELSE g[m - j]]
<1>6. \A j \in 0..(m - 1) :
         N[j] = Tree(IF j + 1 = m /\ node = Missing THEN Without(OldEntries(root, s, j), s[j + 1])
                     ELSE With(OldEntries(root, s, j), s[j + 1], N[j + 1]))
  <2> SUFFICES ASSUME NEW j \in 0..(m - 1)
               PROVE  N[j] = Tree(IF j + 1 = m /\ node = Missing
                                  THEN Without(OldEntries(root, s, j), s[j + 1])
                                  ELSE With(OldEntries(root, s, j), s[j + 1], N[j + 1]))
    OBVIOUS
  <2>1. j # m /\ m - j \in 1..m /\ j + 1 \in 0..m /\ j \in 0..m
    BY <1>2
  <2>2. N[j] = Tree(Remade(root, s, node, m - j, g[m - j - 1]))
    BY <1>3, <2>1
  <2>3. CASE j + 1 = m
    <3>1. ~ (m - j > 1) /\ m - 1 = j /\ N[j + 1] = node
      BY <2>1, <2>3
    <3>2. Remade(root, s, node, m - j, g[m - j - 1]) =
              IF node = Missing THEN Without(OldEntries(root, s, m - 1), s[m - 1 + 1])
              ELSE With(OldEntries(root, s, m - 1), s[m - 1 + 1], node)
      BY <3>1, Zenon DEF Remade
    <3> HIDE DEF N
    <3> QED BY <2>2, <2>3, <3>1, <3>2
  <2>4. CASE j + 1 # m
    <3>1. m - j > 1 /\ m - (m - j) = j /\ N[j + 1] = g[m - j - 1]
      BY <1>2, <2>1, <2>4
    <3>2. Remade(root, s, node, m - j, g[m - j - 1]) =
              With(OldEntries(root, s, m - (m - j)), s[m - (m - j) + 1], g[m - j - 1])
      BY <3>1, Zenon DEF Remade
    <3> HIDE DEF N
    <3> QED BY <2>2, <2>4, <3>1, <3>2
  <2> QED BY <2>3, <2>4
<1>7. N[m] = node /\ N[0] = W
  BY <1>2, <1>3
<1> HIDE DEF N, m, W
<1> DEFINE Made(j) ==
          /\ N[j] \in Objects[MaxDepth - j]
          /\ IsTree(N[j])
          /\ \A n : Entry(N[j], n) = IF n = s[j + 1] THEN N[j + 1]
                                     ELSE Entry(ResolvePath(root, SubSeq(s, 1, j)), n)
<1>8. ASSUME NEW j \in 0..(m - 1), j + 1 = m \/ N[j + 1] \in Objects[MaxDepth - (j + 1)] PROVE Made(j)
  <2> DEFINE d == MaxDepth - j
             r == ResolvePath(root, SubSeq(s, 1, j))
             name == s[j + 1]
  <2>1. d \in 1..MaxDepth /\ d - 1 = MaxDepth - (j + 1) /\ d - 1 \in 0..MaxDepth
    BY <1>2
  <2>2. r \in Node(d) /\ (r = Missing \/ IsTree(r))
    BY <1>4
  <2>3. name \in Name
    BY <1>2, <1>5
  <2>4. N[j] = Tree(IF j + 1 = m /\ node = Missing THEN Without(Entries(r), name)
                    ELSE With(Entries(r), name, N[j + 1]))
    BY <1>6 DEF OldEntries
  <2> HIDE DEF d, r, name
  <2>5. N[j] \in Objects[d] /\ IsTree(N[j]) /\ \A n : Entry(N[j], n) = IF n = name THEN N[j + 1]
            ELSE Entry(r, n)
    <3>1. CASE j + 1 = m /\ node = Missing
      <4>1. N[j] = Tree(Without(Entries(r), name)) /\ N[j + 1] = Missing
        BY <1>7, <2>4, <3>1
      <4> QED BY <2>1, <2>2, <2>3, <4>1, EntryWithout
    <3>2. CASE ~ (j + 1 = m /\ node = Missing)
      <4>1. N[j] = Tree(With(Entries(r), name, N[j + 1]))
        BY <2>4, <3>2
      <4>2. N[j + 1] \in Objects[d - 1]
        <5>1. CASE j + 1 = m
          <6>1. node \in Files
            BY <3>2, <5>1 DEF Clear
          <6>2. PICK v \in Value : node = File(v)
            BY <6>1 DEF Files
          <6> QED BY <1>7, <2>1, <5>1, <6>2, ObjectsFile
        <5>2. CASE j + 1 # m
          BY <1>8, <2>1, <5>2
        <5> QED BY <5>1, <5>2
      <4> QED BY <2>1, <2>2, <2>3, <4>1, <4>2, EntryWith
    <3> QED BY <3>1, <3>2
  <2> QED BY <2>5 DEF d, r, name
<1> HIDE DEF Made
<1> DEFINE S == {k \in Nat : k < m => Made(m - (k + 1))}
<1>9. 0 \in S
  <2>1. m - (0 + 1) \in 0..(m - 1) /\ m - (0 + 1) + 1 = m
    BY <1>2
  <2> QED BY <1>8, <2>1
<1>10. ASSUME NEW k \in Nat, k \in S PROVE k + 1 \in S
  <2> SUFFICES ASSUME k + 1 < m PROVE Made(m - (k + 1 + 1))
    OBVIOUS
  <2> DEFINE j == m - (k + 1 + 1)
  <2>1. j \in 0..(m - 1) /\ j + 1 = m - (k + 1) /\ k < m
    BY <1>2
  <2>2. Made(j + 1)
    BY <1>10, <2>1
  <2>3. N[j + 1] \in Objects[MaxDepth - (j + 1)]
    BY <2>2 DEF Made
  <2> HIDE DEF j
  <2>4. Made(j)
    BY <1>8, <2>1, <2>3
  <2> QED BY <2>4 DEF j
<1> HIDE DEF S
<1>11. Nat \subseteq S
  BY <1>9, <1>10, Climb
<1>12. ASSUME NEW j \in 0..(m - 1) PROVE Made(j)
  <2>1. m - (j + 1) \in Nat /\ m - (j + 1) < m /\ m - (m - (j + 1) + 1) = j
    BY <1>2
  <2> QED BY <1>11, <2>1 DEF S
<1>13. Rebuilt(N, root, s, node)
  BY <1>7, <1>12 DEF Rebuilt, Made, m
<1> QED BY <1>7, <1>13 DEF W

\* One name more, on either side.
LEMMA BeginsAppend == ASSUME NEW s \in Seq(Name), NEW p \in Seq(Name), NEW n \in Name
   PROVE /\ Begins(Append(p, n), s) <=> Begins(p, s) /\ Len(p) < Len(s) /\ n = s[Len(p) + 1]
         /\ Begins(s, Append(p, n)) <=> Begins(s, p) \/ s = Append(p, n)
<1> DEFINE q == Append(p, n)
           A == Len(p)
           B == Len(s)
<1>1. /\ q \in Seq(Name) /\ Len(q) = A + 1 /\ \A i \in 1..A : q[i] = p[i]
      /\ q[A + 1] = n
  BY AppendProperties
<1>2. A \in Nat /\ B \in Nat
  BY LenProperties
<1>3. Begins(q, s) <=> Begins(p, s) /\ A < B /\ n = s[A + 1]
  <2> HIDE DEF q
  <2> SUFFICES (A + 1 <= B /\ \A i \in 1..(A + 1) : q[i] = s[i])
               <=> (A <= B /\ (\A i \in 1..A : p[i] = s[i]) /\ A < B /\ n = s[A + 1])
    BY <1>1 DEF Begins
  <2> HIDE DEF A, B
  <2> QED BY <1>1, <1>2
<1>4. Begins(s, q) <=> Begins(s, p) \/ s = q
  <2> HIDE DEF q
  <2>1. Begins(s, q) <=> (B <= A + 1 /\ \A i \in 1..B : s[i] = q[i])
    BY <1>1 DEF Begins
  <2>2. Begins(s, p) <=> (B <= A /\ \A i \in 1..B : s[i] = p[i])
    BY DEF Begins
  <2>3. s = q => Len(s) = Len(q)
    OBVIOUS
  <2>4. s = q => B = A + 1
    BY <1>1, <2>3
  <2>5. B = A + 1 /\ (\A i \in 1..B : s[i] = q[i]) => s = q
    <3>1. ASSUME B = A + 1, \A i \in 1..B : s[i] = q[i] PROVE s = q
      <4>1. Len(s) = Len(q)
        BY <1>1, <3>1
      <4> QED BY <1>1, <3>1, <4>1, SeqEqual
    <3> QED BY <3>1
  <2>6. s = q => \A i \in 1..B : s[i] = q[i]
    OBVIOUS
  <2> HIDE DEF A, B
  <2> QED BY <1>1, <1>2, <2>1, <2>2, <2>4, <2>5, <2>6
<1> QED BY <1>3, <1>4 DEF q

\* Where any path leads among the new folders.
LEMMA WalkAt == ASSUME NEW root, NEW s, NEW node, Good(root), Clear(root, s, node),
                       NEW N, Rebuilt(N, root, s, node)
   PROVE \A p \in Seq(Name) : ResolvePath(N[0], p) = IF Begins(p, s) THEN N[Len(p)]
                                                     ELSE IF Begins(s, p) THEN Missing
                                                     ELSE ResolvePath(root, p)
<1> DEFINE At(p) == IF Begins(p, s) THEN N[Len(p)] ELSE IF Begins(s, p) THEN Missing
        ELSE ResolvePath(root, p)
           S == {p \in Seq(Name) : ResolvePath(N[0], p) = At(p)}
           m == Len(s)
<1>0. s \in Seq(Name) /\ m \in 1..MaxDepth /\ m \in Nat
  BY ClearMeans
<1>1. <<>> \in S
  <2>1. <<>> \in Seq(Name) /\ Len(<<>>) = 0
    BY EmptySeq
  <2>2. Begins(<<>>, s)
    BY <1>0, <2>1 DEF Begins
  <2> QED BY <2>1, <2>2, ResolveRoot
<1>2. ASSUME NEW p \in Seq(Name), NEW n \in Name, p \in S PROVE Append(p, n) \in S
  <2> DEFINE q == Append(p, n)
             A == Len(p)
  <2>1. q \in Seq(Name) /\ Len(q) = A + 1 /\ A \in Nat
    BY AppendProperties, LenProperties
  <2>2. ResolvePath(N[0], q) = Entry(At(p), n) /\ ResolvePath(root, q) = Entry(ResolvePath(root, p), n)
    BY <1>2, ResolveAppend
  <2>3. /\ Begins(q, s) <=> Begins(p, s) /\ A < m /\ n = s[A + 1]
        /\ Begins(s, q) <=> Begins(s, p) \/ s = q
    BY <1>0, BeginsAppend
  <2>4. s = q => Begins(q, s)
    BY <1>0 DEF Begins
  <2>5. Begins(p, s) => A <= m
    BY DEF Begins
  <2>6. Begins(p, s) /\ A = m => Begins(s, p)
    BY DEF Begins
  <2>7. Begins(s, p) => m <= A
    BY DEF Begins
  <2>15. s = q => A + 1 = m
    BY <2>1
  <2>8. Begins(p, s) => SubSeq(s, 1, A) = p
    BY <1>0, BeginsPrefix
  <2>13. /\ At(p) = IF Begins(p, s) THEN N[A] ELSE IF Begins(s, p) THEN Missing
                ELSE ResolvePath(root, p)
         /\ At(q) = IF Begins(q, s) THEN N[A + 1] ELSE IF Begins(s, q) THEN Missing
                ELSE ResolvePath(root, q)
    BY <2>1
  <2>14. N[m] = node /\ \A j \in 0..(m - 1) : \A k :
            Entry(N[j], k) = IF k = s[j + 1] THEN N[j + 1]
                ELSE Entry(ResolvePath(root, SubSeq(s, 1, j)), k)
    BY DEF Rebuilt
  <2> HIDE DEF q, A, m, At
  <2> SUFFICES ResolvePath(N[0], q) = At(q)
    BY <2>1 DEF q
  <2>9. CASE Begins(p, s) /\ A < m
    <3>1. /\ A \in 0..(m - 1) /\ ~ Begins(s, p)
      BY <1>0, <2>1, <2>7, <2>9
    <3>2. Entry(N[A], n) = IF n = s[A + 1] THEN N[A + 1]
              ELSE Entry(ResolvePath(root, SubSeq(s, 1, A)), n)
      BY <2>14, <3>1
    <3>3. At(p) = N[A]
      BY <2>9, <2>13
    <3>4. Entry(At(p), n) = IF n = s[A + 1] THEN N[A + 1] ELSE ResolvePath(root, q)
      BY <2>2, <2>8, <2>9, <3>2, <3>3
    <3> QED BY <2>2, <2>3, <2>4, <2>9, <2>13, <2>15, <3>1, <3>4
  <2>10. CASE Begins(p, s) /\ A = m
    <3>1. At(p) = node
      BY <2>10, <2>13, <2>14
    <3>2. Entry(node, n) = Missing
      BY EntryMissing, EntryFile DEF Clear, Files
    <3>3. ~ Begins(q, s) /\ Begins(s, q)
      BY <2>3, <2>6, <2>10, <1>0
    <3> QED BY <2>2, <2>13, <3>1, <3>2, <3>3
  <2>11. CASE ~ Begins(p, s) /\ Begins(s, p)
    <3>1. ~ Begins(q, s) /\ Begins(s, q)
      BY <2>3, <2>11
    <3> QED BY <2>2, <2>11, <2>13, <3>1, EntryMissing
  <2>12. CASE ~ Begins(p, s) /\ ~ Begins(s, p)
    <3>1. ~ Begins(q, s) /\ ~ Begins(s, q)
      BY <2>3, <2>4, <2>12
    <3> QED BY <2>2, <2>12, <2>13, <3>1
  <2> QED BY <1>0, <2>1, <2>5, <2>9, <2>10, <2>11, <2>12
<1> HIDE DEF S
<1>3. Seq(Name) \subseteq S
  BY <1>1, <1>2, SeqClimb
<1> QED BY <1>3 DEF S

\* walk() of lib/mycelium.js, on any tree: the new tree has the entry that was put,
\* or neither the one that was removed nor anything below it; folders lead to it, and
\* every path that does not go through it leads where it led before.
LEMMA WalkResolves == ASSUME NEW root, NEW s, NEW node, Good(root), Clear(root, s, node)
   PROVE LET new == Walk(root, s, node) IN
         /\ new \in Objects[MaxDepth] /\ IsTree(new)
         /\ ResolvePath(new, s) = node
         /\ \A p \in Seq(Name) :
               /\ Begins(p, s) /\ p # s => IsTree(ResolvePath(new, p))
               /\ Begins(s, p) /\ p # s => ResolvePath(new, p) = Missing
               /\ ~ Begins(p, s) /\ ~ Begins(s, p) => ResolvePath(new, p) = ResolvePath(root, p)
<1> DEFINE new == Walk(root, s, node)
           m == Len(s)
<1>0. s \in Seq(Name) /\ m \in 1..MaxDepth /\ m \in Nat
  BY ClearMeans
<1>1. PICK N : Rebuilt(N, root, s, node) /\ N[0] = new
  BY WalkRebuilt
<1>2. \A p \in Seq(Name) : ResolvePath(new, p) = IF Begins(p, s) THEN N[Len(p)]
                                                 ELSE IF Begins(s, p) THEN Missing
                                                 ELSE ResolvePath(root, p)
  BY <1>1, WalkAt
<1> HIDE DEF new
<1>3. new \in Objects[MaxDepth] /\ IsTree(new)
  <2>1. 0 \in 0..(Len(s) - 1) /\ MaxDepth - 0 = MaxDepth
    BY <1>0, MyceliumAssumption
  <2> QED BY <1>1, <2>1 DEF Rebuilt
<1>4. ResolvePath(new, s) = node
  <2>1. Begins(s, s)
    BY <1>0 DEF Begins
  <2> QED BY <1>0, <1>1, <1>2, <2>1 DEF Rebuilt
<1>5. ASSUME NEW p \in Seq(Name)
      PROVE /\ Begins(p, s) /\ p # s => IsTree(ResolvePath(new, p))
            /\ Begins(s, p) /\ p # s => ResolvePath(new, p) = Missing
            /\ ~ Begins(p, s) /\ ~ Begins(s, p) => ResolvePath(new, p) = ResolvePath(root, p)
  <2>1. Len(p) \in Nat
    BY LenProperties
  <2>2. Begins(p, s) /\ p # s => Len(p) \in 0..(Len(s) - 1)
    <3>1. ASSUME Begins(p, s), p # s PROVE Len(p) # Len(s)
      BY <1>0, <3>1, SeqEqual DEF Begins
    <3>2. Begins(p, s) => Len(p) <= Len(s)
      BY DEF Begins
    <3> QED BY <1>0, <2>1, <3>1, <3>2
  <2>3. Begins(p, s) /\ p # s => IsTree(ResolvePath(new, p))
    BY <1>1, <1>2, <2>2 DEF Rebuilt
  <2>4. Begins(s, p) /\ p # s => ~ Begins(p, s)
    <3>1. ASSUME Begins(p, s), Begins(s, p) PROVE p = s
      <4>1. Len(p) = Len(s) /\ \A i \in 1..Len(p) : p[i] = s[i]
        BY <1>0, <2>1, <3>1 DEF Begins
      <4> QED BY <1>0, <4>1, SeqEqual
    <3> QED BY <3>1
  <2> QED BY <1>2, <2>3, <2>4
<1> QED BY <1>3, <1>4, <1>5 DEF new

-----------------------------------------------------------------------------
(****************************************************************************)
(* Contents: everything in a tree is what some path leads to.              *)
(***************************************************************************)
\* The entries of the trees in a set of places.
Expand(X) == UNION {{[path |-> Append(x.path, n), node |-> x.node.entries[n]] :
    n \in DOMAIN x.node.entries} :
                        x \in {y \in X : IsTree(y.node)}}

\* g is level of Contents, as far as n.
Spreads(g, n, root) == g = [k \in 0..n |-> IF k = 0 THEN {[path |-> <<>>, node |-> root]}
    ELSE Expand(g[k - 1])]

\* There is such a g for every n.
LEMMA SpreadsExist == ASSUME NEW root PROVE \A n \in Nat : \E g : Spreads(g, n, root)
<1> DEFINE S == {n \in Nat : \E g : Spreads(g, n, root)}
<1>1. 0 \in S
  <2>1. Spreads([k \in 0..0 |-> {[path |-> <<>>, node |-> root]}], 0, root)
    BY DEF Spreads
  <2> QED BY <2>1
<1>2. ASSUME NEW n \in Nat, n \in S PROVE n + 1 \in S
  <2>1. PICK g : Spreads(g, n, root)
    BY <1>2
  <2> DEFINE last == Expand(g[n])
             first == {[path |-> <<>>, node |-> root]}
             h == [k \in 0..(n + 1) |-> IF k = n + 1 THEN last ELSE g[k]]
  <2>2. \A k \in 0..n : g[k] = IF k = 0 THEN first ELSE Expand(g[k - 1])
    BY <2>1 DEF Spreads
  <2> HIDE DEF first
  <2>3. \A k \in 0..(n + 1) : h[k] = IF k = 0 THEN first ELSE Expand(h[k - 1])
    <3> HIDE DEF Expand
    <3> QED BY <2>2
  <2>4. h = [k \in 0..(n + 1) |-> h[k]]
    OBVIOUS
  <2> HIDE DEF h
  <2>5. Spreads(h, n + 1, root)
    BY <2>3, <2>4 DEF Spreads, first
  <2> QED BY <2>5
<1> HIDE DEF S
<1> QED BY <1>1, <1>2, Climb DEF S

\* Contents is what its levels have.
LEMMA ContentsSpread == ASSUME NEW root
   PROVE \E g : /\ g[0] = {[path |-> <<>>, node |-> root]}
                /\ \A k \in 1..MaxDepth : g[k] = Expand(g[k - 1])
                /\ Contents(root) = UNION {g[k] : k \in 1..MaxDepth}
<1>1. MaxDepth \in Nat
  BY MyceliumAssumption
<1>2. \E g : Spreads(g, MaxDepth, root)
  BY <1>1, SpreadsExist
<1> DEFINE G == CHOOSE g : g = [k \in 0..MaxDepth |->
            IF k = 0 THEN {[path |-> <<>>, node |-> root]}
            ELSE UNION {{[path |-> Append(x.path, n), node |-> x.node.entries[n]] :
                            n \in DOMAIN x.node.entries} :
                        x \in {y \in g[k - 1] : IsTree(y.node)}}]
<1>3. Spreads(G, MaxDepth, root)
  BY <1>2 DEF Spreads, Expand
<1>4. Contents(root) = UNION {G[k] : k \in 1..MaxDepth}
  BY Zenon DEF Contents
<1> HIDE DEF G
<1>5. \A k \in 0..MaxDepth : G[k] = IF k = 0 THEN {[path |-> <<>>, node |-> root]} ELSE Expand(G[k - 1])
  BY <1>3 DEF Spreads
<1>6. 0 \in 0..MaxDepth /\ \A k \in 1..MaxDepth : k \in 0..MaxDepth /\ k # 0
  BY <1>1
<1>7. G[0] = {[path |-> <<>>, node |-> root]}
  BY <1>5, <1>6
<1>8. \A k \in 1..MaxDepth : G[k] = Expand(G[k - 1])
  BY <1>5, <1>6
<1> QED BY <1>4, <1>7, <1>8

\* Entry finds exactly the entries there are.
LEMMA EntryIn == ASSUME NEW d \in 0..MaxDepth, NEW r \in Node(d), NEW n
   PROVE /\ Entry(r, n) # Missing <=> IsTree(r) /\ n \in DOMAIN r.entries
         /\ IsTree(r) /\ n \in DOMAIN r.entries => n \in Name /\ Entry(r, n) = r.entries[n]
<1>1. CASE IsTree(r)
  <2>1. r \in Objects[d]
    BY <1>1 DEF Node, IsTree
  <2>2. PICK S \in SUBSET Name : \E e \in [S -> Objects[d - 1]] : r = Tree(e) /\ r.entries = e
    BY <1>1, <2>1, TreeObject
  <2>3. d # 0
    BY <1>1, <2>1, TreeObject
  <2>4. d - 1 \in 0..MaxDepth
    BY <2>3, MyceliumAssumption
  <2>5. DOMAIN r.entries = S /\ \A k \in S : r.entries[k] \in Objects[d - 1]
    BY <2>2
  <2>6. \A k \in S : r.entries[k] # Missing
    BY <2>4, <2>5, NotMissing
  <2> QED BY <1>1, <2>5, <2>6 DEF Entry
<1>2. CASE ~ IsTree(r)
  BY <1>2 DEF Entry
<1> QED BY <1>1, <1>2

\* A path with what it leads to, as Contents has them.
Place(root, p) == [path |-> p, node |-> ResolvePath(root, p)]

\* The paths that lead somewhere.
Present(root) == {p \in Path : ResolvePath(root, p) # Missing}

\* ResolveType, for one path.
LEMMA ResolveNode == ASSUME NEW root \in Node(MaxDepth), NEW p \in Seq(Name)
   PROVE /\ Len(p) <= MaxDepth => /\ MaxDepth - Len(p) \in 0..MaxDepth
                                  /\ ResolvePath(root, p) \in Node(MaxDepth - Len(p))
         /\ ~ (Len(p) <= MaxDepth) => ResolvePath(root, p) = Missing
BY ResolveType, LenProperties, MyceliumAssumption

\* The entries of what a path leads to are at the paths one name longer.
LEMMA ResolveEntry == ASSUME NEW root \in Node(MaxDepth), NEW p \in Seq(Name), NEW n
   PROVE /\ IsTree(ResolvePath(root, p)) /\ n \in DOMAIN ResolvePath(root, p).entries
              => /\ n \in Name
                 /\ ResolvePath(root, Append(p, n)) # Missing
                 /\ ResolvePath(root, Append(p, n)) = ResolvePath(root, p).entries[n]
         /\ n \in Name /\ ResolvePath(root, Append(p, n)) # Missing
              => IsTree(ResolvePath(root, p)) /\ n \in DOMAIN ResolvePath(root, p).entries
<1> DEFINE r == ResolvePath(root, p)
<1>1. \E d \in 0..MaxDepth : r \in Node(d)
  <2>1. CASE Len(p) <= MaxDepth
    BY <2>1, ResolveNode
  <2>2. CASE ~ (Len(p) <= MaxDepth)
    <3>1. 0 \in 0..MaxDepth
      BY MyceliumAssumption
    <3> QED BY <2>2, <3>1, ResolveNode DEF Node
  <2> QED BY <2>1, <2>2
<1>2. n \in Name => ResolvePath(root, Append(p, n)) = Entry(r, n)
  BY ResolveAppend
<1> HIDE DEF r
<1>3. /\ Entry(r, n) # Missing <=> IsTree(r) /\ n \in DOMAIN r.entries
      /\ IsTree(r) /\ n \in DOMAIN r.entries => n \in Name /\ Entry(r, n) = r.entries[n]
  BY <1>1, EntryIn
<1>4. /\ IsTree(r) /\ n \in DOMAIN r.entries
              => /\ n \in Name
                 /\ ResolvePath(root, Append(p, n)) # Missing
                 /\ ResolvePath(root, Append(p, n)) = r.entries[n]
      /\ n \in Name /\ ResolvePath(root, Append(p, n)) # Missing
              => IsTree(r) /\ n \in DOMAIN r.entries
  BY <1>2, <1>3
<1> QED BY <1>4 DEF r

\* An entry of a tree in the set is in its expansion.
LEMMA ExpandIn == ASSUME NEW X, NEW y \in X, IsTree(y.node), NEW n \in DOMAIN y.node.entries
   PROVE [path |-> Append(y.path, n), node |-> y.node.entries[n]] \in Expand(X)
<1> DEFINE Z(x) == {[path |-> Append(x.path, k), node |-> x.node.entries[k]] :
        k \in DOMAIN x.node.entries}
           x0 == [path |-> Append(y.path, n), node |-> y.node.entries[n]]
<1>1. x0 \in Z(y)
  OBVIOUS
<1>2. Expand(X) = UNION {Z(x) : x \in {z \in X : IsTree(z.node)}}
  BY DEF Expand
<1> HIDE DEF Z, x0
<1>3. Z(y) \in {Z(x) : x \in {z \in X : IsTree(z.node)}}
  OBVIOUS
<1>4. x0 \in Expand(X)
  BY <1>1, <1>2, <1>3
<1> QED BY <1>4 DEF x0

\* So the contents of a tree are the paths that lead somewhere in it.
LEMMA ContentsAre == ASSUME NEW root \in Node(MaxDepth)
   PROVE Contents(root) = {Place(root, p) : p \in Present(root)}
<1>1. PICK g : /\ g[0] = {[path |-> <<>>, node |-> root]}
               /\ \A k \in 1..MaxDepth : g[k] = Expand(g[k - 1])
               /\ Contents(root) = UNION {g[k] : k \in 1..MaxDepth}
  BY ContentsSpread
<1> DEFINE C(k) == {p \in Seq(Name) : Len(p) = k /\ (k = 0 \/ ResolvePath(root, p) # Missing)}
           S == {k \in Nat : k <= MaxDepth => g[k] = {Place(root, p) : p \in C(k)}}
<1>2. 0 \in S
  <2>1. C(0) = {<<>>}
    BY EmptySeq, LenProperties
  <2>2. Place(root, <<>>) = [path |-> <<>>, node |-> root]
    BY ResolveRoot DEF Place
  <2> HIDE DEF C
  <2> QED BY <1>1, <2>1, <2>2
<1>3. ASSUME NEW k \in Nat, k \in S PROVE k + 1 \in S
  <2> SUFFICES ASSUME k + 1 <= MaxDepth PROVE g[k + 1] = {Place(root, p) : p \in C(k + 1)}
    OBVIOUS
  <2>1. k + 1 \in 1..MaxDepth /\ k + 1 - 1 = k /\ k <= MaxDepth
    BY MyceliumAssumption
  <2>2. g[k + 1] = Expand(g[k])
    BY <1>1, <2>1
  <2>3. g[k] = {Place(root, p) : p \in C(k)}
    BY <1>3, <2>1
  <2>4. \A p : Place(root, p).path = p /\ Place(root, p).node = ResolvePath(root, p)
    BY DEF Place
  <2>5. ASSUME NEW x \in g[k + 1] PROVE \E q \in C(k + 1) : x = Place(root, q)
    <3>1. PICK y \in g[k] : IsTree(y.node) /\ \E n \in DOMAIN y.node.entries :
                              x = [path |-> Append(y.path, n), node |-> y.node.entries[n]]
      BY <2>2, <2>5 DEF Expand
    <3>2. PICK p \in C(k) : y = Place(root, p)
      BY <2>3
    <3>3. PICK n \in DOMAIN ResolvePath(root, p).entries :
               x = [path |-> Append(p, n), node |-> ResolvePath(root, p).entries[n]]
      BY <2>4, <3>1, <3>2
    <3>4. p \in Seq(Name) /\ Len(p) = k /\ IsTree(ResolvePath(root, p))
      BY <2>4, <3>1, <3>2
    <3> DEFINE q == Append(p, n)
    <3>5. n \in Name /\ ResolvePath(root, q) # Missing
              /\ ResolvePath(root, q) = ResolvePath(root, p).entries[n]
      BY <3>4, ResolveEntry
    <3>6. q \in Seq(Name) /\ Len(q) = k + 1
      BY <3>4, <3>5, AppendProperties
    <3>7. x = Place(root, q)
      BY <3>3, <3>5 DEF Place
    <3> HIDE DEF q
    <3> QED BY <3>5, <3>6, <3>7
  <2>6. ASSUME NEW q \in C(k + 1) PROVE Place(root, q) \in g[k + 1]
    <3>1. q \in Seq(Name) /\ Len(q) = k + 1 /\ ResolvePath(root, q) # Missing
      OBVIOUS
    <3>2. q # <<>>
      BY <3>1, EmptySeq
    <3>3. PICK p \in Seq(Name), n \in Name : q = Append(p, n)
      BY <3>1, <3>2, SequenceEmptyOrAppend
    <3>4. Len(p) = k
      BY <3>1, <3>3, AppendProperties, LenProperties
    <3>5. IsTree(ResolvePath(root, p)) /\ n \in DOMAIN ResolvePath(root, p).entries
      BY <3>1, <3>3, ResolveEntry
    <3>6. ResolvePath(root, q) = ResolvePath(root, p).entries[n]
      BY <3>3, <3>5, ResolveEntry
    <3>7. p \in C(k)
      BY <3>4, <3>5 DEF IsTree
    <3> DEFINE y == Place(root, p)
    <3>8. y \in {z \in g[k] : IsTree(z.node)}
      BY <2>3, <2>4, <3>5, <3>7
    <3>9. y.path = p /\ y.node = ResolvePath(root, p)
      BY <2>4
    <3>10. Place(root, q) = [path |-> Append(y.path, n), node |-> y.node.entries[n]]
      BY <3>3, <3>6, <3>9 DEF Place
    <3>11. n \in DOMAIN y.node.entries
      BY <3>5, <3>9
    <3> HIDE DEF y
    <3>12. Place(root, q) \in Expand(g[k])
      BY <3>8, <3>10, <3>11, ExpandIn
    <3> QED BY <2>2, <3>12
  <2> HIDE DEF C
  <2> QED BY <2>5, <2>6
<1> HIDE DEF S
<1>4. Nat \subseteq S
  BY <1>2, <1>3, Climb
<1>5. \A k \in 1..MaxDepth : g[k] = {Place(root, p) : p \in C(k)}
  <2>1. \A k \in 1..MaxDepth : k \in Nat /\ k <= MaxDepth
    BY MyceliumAssumption
  <2> QED BY <1>4, <2>1 DEF S
<1>6. \A p : p \in Present(root) <=> \E k \in 1..MaxDepth : p \in C(k)
  <2>1. \A k \in 1..MaxDepth : k # 0
    BY MyceliumAssumption
  <2> QED BY <2>1, PathSeq DEF Present
<1> HIDE DEF C
<1> QED BY <1>1, <1>5, <1>6

-----------------------------------------------------------------------------
(****************************************************************************)
(* StoreIn: the flat map of files, and the folders, in a tree.             *)
(***************************************************************************)
\* The file a path leads to, or Missing.
FileAt(root, p) ==
    LET node == ResolvePath(root, p) IN IF node = Missing \/ IsTree(node) THEN Missing ELSE node.value

\* The paths that lead to folders.
Folders(root) == {p \in Path : IsTree(ResolvePath(root, p))}

\* StoreIn has for every path what it leads to,
LEMMA StoreIs == ASSUME NEW root \in Node(MaxDepth)
   PROVE StoreIn(root) = [files |-> [p \in Path |-> FileAt(root, p)], folders |-> Folders(root)]
<1> DEFINE contents == Contents(root)
           files == {x \in contents : ~ IsTree(x.node)}
           at(p) == {x.node.value : x \in {y \in files : y.path = p}}
<1>1. StoreIn(root) = [files |-> [p \in Path |-> IF at(p) = {} THEN Missing
          ELSE CHOOSE v \in at(p) : TRUE],
                       folders |-> {x.path : x \in contents \ files}]
  BY DEF StoreIn
<1>2. contents = {Place(root, p) : p \in Present(root)}
  BY ContentsAre
<1>3. \A p : Place(root, p).path = p /\ Place(root, p).node = ResolvePath(root, p)
  BY DEF Place
<1>4. \A p \in Path : at(p) = IF ResolvePath(root, p) = Missing \/ IsTree(ResolvePath(root, p)) THEN {}
                              ELSE {ResolvePath(root, p).value}
  <2> SUFFICES ASSUME NEW p \in Path
               PROVE  at(p) = IF ResolvePath(root, p) = Missing \/ IsTree(ResolvePath(root, p)) THEN {}
                              ELSE {ResolvePath(root, p).value}
    OBVIOUS
  <2>1. {y \in files : y.path = p} = IF ResolvePath(root, p) = Missing
            \/ IsTree(ResolvePath(root, p)) THEN {}
                                     ELSE {Place(root, p)}
    <3>1. ASSUME NEW y \in files, y.path = p
          PROVE  y = Place(root, p) /\ ResolvePath(root, p) # Missing /\ ~ IsTree(ResolvePath(root, p))
      BY <1>2, <1>3, <3>1 DEF Present
    <3>2. ASSUME ResolvePath(root, p) # Missing, ~ IsTree(ResolvePath(root, p))
          PROVE  Place(root, p) \in files /\ Place(root, p).path = p
      BY <1>2, <1>3, <3>2 DEF Present
    <3> HIDE DEF files
    <3> QED BY <3>1, <3>2
  <2> HIDE DEF files
  <2> QED BY <1>3, <2>1
<1>5. {x.path : x \in contents \ files} = Folders(root)
  <2>1. ASSUME NEW x \in contents \ files PROVE x.path \in Folders(root)
    BY <1>2, <1>3 DEF Present, Folders
  <2>2. ASSUME NEW p \in Folders(root) PROVE \E x \in contents \ files : p = x.path
    <3>1. Place(root, p) \in contents \ files
      BY <1>2, <1>3 DEF Present, Folders, IsTree
    <3> QED BY <1>3, <3>1
  <2> HIDE DEF contents, files
  <2> QED BY <2>1, <2>2
<1>6. [p \in Path |-> IF at(p) = {} THEN Missing
          ELSE CHOOSE v \in at(p) : TRUE] = [p \in Path |-> FileAt(root, p)]
  <2> SUFFICES ASSUME NEW p \in Path
               PROVE  (IF at(p) = {} THEN Missing ELSE CHOOSE v \in at(p) : TRUE) = FileAt(root, p)
    OBVIOUS
  <2>1. CASE ResolvePath(root, p) = Missing \/ IsTree(ResolvePath(root, p))
    <3>1. at(p) = {}
      BY <1>4, <2>1
    <3> HIDE DEF at
    <3> QED BY <2>1, <3>1 DEF FileAt
  <2>2. CASE ~ (ResolvePath(root, p) = Missing \/ IsTree(ResolvePath(root, p)))
    <3>1. at(p) = {ResolvePath(root, p).value}
      BY <1>4, <2>2
    <3> HIDE DEF at
    <3> QED BY <2>2, <3>1 DEF FileAt
  <2> QED BY <2>1, <2>2
<1> HIDE DEF at, contents, files
<1> QED BY <1>1, <1>5, <1>6

\* files and folders apart.
LEMMA StoreParts == ASSUME NEW root \in Node(MaxDepth)
   PROVE /\ StoreIn(root).files = [p \in Path |-> FileAt(root, p)]
         /\ \A p \in Path : StoreIn(root).files[p] = FileAt(root, p)
         /\ StoreIn(root).folders = Folders(root)
BY StoreIs

\* A path leads nowhere, to a folder or to a file.
LEMMA NodeCase == ASSUME NEW root \in Node(MaxDepth), NEW p \in Seq(Name)
   PROVE LET r == ResolvePath(root, p) IN r = Missing \/ IsTree(r) \/ \E v \in Value : r = File(v)
<1>1. CASE Len(p) <= MaxDepth
  <2>1. MaxDepth - Len(p) \in 0..MaxDepth /\ ResolvePath(root, p) \in Node(MaxDepth - Len(p))
    BY <1>1, ResolveNode
  <2> DEFINE d == MaxDepth - Len(p)
             r == ResolvePath(root, p)
  <2> HIDE DEF d, r
  <2>2. d \in 0..MaxDepth /\ r \in Node(d)
    BY <2>1 DEF d, r
  <2>3. r = Missing \/ (\E v \in Value : r = File(v))
        \/ (d # 0 /\ \E S \in SUBSET Name : \E e \in [S -> Objects[d - 1]] : r = Tree(e))
    BY <2>2, ObjectsCase DEF Node
  <2>4. r = Missing \/ (\E v \in Value : r = File(v)) \/ IsTree(r)
    BY <2>3 DEF Tree, IsTree
  <2> QED BY <2>4 DEF r
<1>2. CASE ~ (Len(p) <= MaxDepth)
  BY <1>2, ResolveNode
<1> QED BY <1>1, <1>2

\* FileAt is a content exactly where a path leads to a file.
LEMMA FileAtType == ASSUME NEW root \in Node(MaxDepth), NEW p \in Seq(Name)
   PROVE /\ FileAt(root, p) # Missing => FileAt(root, p) \in Value
                /\ ResolvePath(root, p) = File(FileAt(root, p))
         /\ FileAt(root, p) # Missing <=> ResolvePath(root, p) # Missing
                /\ ~ IsTree(ResolvePath(root, p))
<1> DEFINE r == ResolvePath(root, p)
<1>1. r = Missing \/ IsTree(r) \/ \E v \in Value : r = File(v)
  BY NodeCase
<1> HIDE DEF r
<1>2. FileAt(root, p) = IF r = Missing \/ IsTree(r) THEN Missing ELSE r.value
  BY DEF FileAt, r
<1>3. CASE r = Missing \/ IsTree(r)
  BY <1>2, <1>3 DEF r
<1>4. CASE ~ (r = Missing \/ IsTree(r))
  <2>1. PICK v \in Value : r = File(v)
    BY <1>1, <1>4
  <2>2. FileAt(root, p) = v /\ v # Missing
    BY <1>2, <1>4, <2>1, FileObject, MyceliumAssumption
  <2> QED BY <1>4, <2>1, <2>2 DEF r
<1> QED BY <1>3, <1>4

\* The two ways to say that a path begins with another.
LEMMA BeginsSubSeq == ASSUME NEW p \in Seq(Name), NEW q \in Seq(Name)
   PROVE Begins(p, q) <=> Len(q) >= Len(p) /\ SubSeq(q, 1, Len(p)) = p
<1>1. Begins(p, q) => Len(q) >= Len(p) /\ SubSeq(q, 1, Len(p)) = p
  BY BeginsPrefix, LenProperties DEF Begins
<1>2. ASSUME Len(q) >= Len(p), SubSeq(q, 1, Len(p)) = p PROVE Begins(p, q)
  <2>1. Len(p) \in 0..Len(q)
    BY <1>2, LenProperties
  <2> QED BY <1>2, <2>1, PrefixBegins
<1> QED BY <1>1, <1>2

\* A path of the same length begins with itself only.
LEMMA BeginsLength == ASSUME NEW p \in Seq(Name), NEW q \in Seq(Name), Begins(p, q)
   PROVE Len(p) \in Nat /\ Len(q) \in Nat /\ Len(p) <= Len(q) /\ (Len(p) = Len(q) => p = q)
<1>1. Len(p) \in Nat /\ Len(q) \in Nat /\ Len(p) <= Len(q) /\ \A i \in 1..Len(p) : p[i] = q[i]
  BY LenProperties DEF Begins
<1>2. Len(p) = Len(q) => p = q
  BY <1>1, SeqEqual
<1> QED BY <1>1, <1>2

\* Below and Above of FileStore, as paths that begin with others.
LEMMA BelowBegins == ASSUME NEW p \in Path PROVE Store!Below(p) = {q \in Path : Begins(p, q)}
BY PathSeq, BeginsSubSeq DEF Store!Below

\* The paths on the way to p.
LEMMA AboveBegins == ASSUME NEW p \in Path PROVE Store!Above(p) = {q \in Path : Begins(q, p) /\ q # p}
<1> DEFINE A == Len(p)
<1>0. p \in Seq(Name) /\ A \in 1..MaxDepth /\ A \in Nat /\ MaxDepth \in Nat
  BY PathSeq, LenProperties, MyceliumAssumption
<1>1. ASSUME NEW k \in 1..(A - 1) PROVE SubSeq(p, 1, k) \in {q \in Path : Begins(q, p) /\ q # p}
  <2>1. k \in 0..A /\ k \in 1..MaxDepth /\ k # A
    BY <1>0
  <2> DEFINE q == SubSeq(p, 1, k)
  <2>2. q \in Seq(Name) /\ Len(q) = k /\ Begins(q, p)
    BY <1>0, <2>1, Prefix, PrefixBegins
  <2> HIDE DEF q
  <2>3. q \in Path /\ Begins(q, p) /\ q # p
    BY <2>1, <2>2, PathSeq
  <2> QED BY <2>3 DEF q
<1>2. ASSUME NEW q \in Path, Begins(q, p), q # p PROVE Len(q) \in 1..(A - 1) /\ SubSeq(p, 1, Len(q)) = q
  <2>1. q \in Seq(Name) /\ Len(q) \in 1..MaxDepth
    BY PathSeq
  <2>2. Len(q) <= A /\ Len(q) # A
    BY <1>0, <1>2, <2>1, BeginsLength
  <2>3. SubSeq(p, 1, Len(q)) = q
    BY <1>0, <1>2, <2>1, BeginsPrefix
  <2> QED BY <1>0, <2>1, <2>2, <2>3
<1>3. Store!Above(p) = {SubSeq(p, 1, k) : k \in 1..(A - 1)}
  BY DEF Store!Above
<1> HIDE DEF A
<1> QED BY <1>1, <1>2, <1>3

\* What a path leads to is in folders.
LEMMA ResolveUp == ASSUME NEW root \in Node(MaxDepth)
   PROVE \A p \in Seq(Name) : ResolvePath(root, p) # Missing =>
            \A q \in Seq(Name) : Begins(q, p) /\ q # p => IsTree(ResolvePath(root, q))
<1> DEFINE S == {p \in Seq(Name) : ResolvePath(root, p) # Missing =>
                    \A q \in Seq(Name) : Begins(q, p) /\ q # p => IsTree(ResolvePath(root, q))}
<1>1. <<>> \in S
  <2>1. <<>> \in Seq(Name) /\ Len(<<>>) = 0
    BY EmptySeq
  <2>2. \A q \in Seq(Name) : Begins(q, <<>>) => q = <<>>
    <3>1. ASSUME NEW q \in Seq(Name), Begins(q, <<>>) PROVE q = <<>>
      <4>1. Len(q) <= Len(<<>>)
        BY <3>1 DEF Begins
      <4>2. Len(q) = 0
        BY <2>1, <4>1, LenProperties
      <4> QED BY <4>2, EmptySeq
    <3> QED BY <3>1
  <2> QED BY <2>1, <2>2
<1>2. ASSUME NEW p \in Seq(Name), NEW n \in Name, p \in S PROVE Append(p, n) \in S
  <2> DEFINE t == Append(p, n)
  <2>1. t \in Seq(Name)
    BY AppendProperties
  <2>2. ASSUME ResolvePath(root, t) # Missing, NEW q \in Seq(Name), Begins(q, t), q # t
        PROVE  IsTree(ResolvePath(root, q))
    <3>1. IsTree(ResolvePath(root, p))
      BY <2>2, ResolveEntry
    <3>2. Begins(q, p)
      BY <2>2, BeginsAppend
    <3>3. ResolvePath(root, p) # Missing
      BY <3>1 DEF IsTree
    <3> QED BY <1>2, <3>1, <3>2, <3>3
  <2> HIDE DEF t
  <2>3. t \in S
    BY <2>1, <2>2
  <2> QED BY <2>3 DEF t
<1> HIDE DEF S
<1>3. Seq(Name) \subseteq S
  BY <1>1, <1>2, SeqClimb
<1> QED BY <1>3 DEF S

\* The walk is blocked exactly where the map has a file on the way.
LEMMA BlockedAbove == ASSUME NEW root \in Node(MaxDepth), NEW s \in Path
   PROVE Blocked(root, s) <=> \E q \in Store!Above(s) : FileAt(root, q) # Missing
<1>1. \A k \in 1..(Len(s) - 1) : SubSeq(s, 1, k) \in Seq(Name)
  BY PathSeq, Prefix, LenProperties
<1>2. \A k \in 1..(Len(s) - 1) : FileAt(root, SubSeq(s, 1, k)) # Missing
          <=> ResolvePath(root, SubSeq(s, 1, k)) # Missing
              /\ ~ IsTree(ResolvePath(root, SubSeq(s, 1, k)))
  BY <1>1, FileAtType
<1> QED BY <1>2 DEF Blocked, Store!Above

\* No path used is empty.
LEMMA NotEmptyPath == ASSUME NEW s \in Path PROVE s # <<>>
BY PathSeq, EmptySeq

\* modifyTree throws on a put exactly when the flat map cannot do it,
LEMMA CanPutClear == ASSUME NEW root, Good(root), NEW s \in Path, NEW v \in Value
   PROVE Store!CanPut(StoreIn(root), s) <=> ~ Conflict(root, s, File(v))
<1>1. root \in Node(MaxDepth)
  BY GoodNode
<1>2. \A q \in Store!Above(s) : q \in Path /\ StoreIn(root).files[q] = FileAt(root, q)
  BY <1>1, AboveBegins, StoreParts
<1>3. Store!CanPut(StoreIn(root), s)
         <=> s \notin Folders(root) /\ \A q \in Store!Above(s) : FileAt(root, q) = Missing
  BY <1>1, <1>2, StoreParts DEF Store!CanPut
<1>4. s \in Folders(root) <=> IsTree(ResolvePath(root, s))
  BY DEF Folders
<1> QED BY <1>1, <1>3, <1>4, BlockedAbove, NotEmptyPath, FileObject DEF Conflict

\* and on a remove exactly when there is nothing at the path.
LEMMA CanRemoveClear == ASSUME NEW root, Good(root), NEW s \in Path
   PROVE Conflict(root, s, Missing) <=> ResolvePath(root, s) = Missing
<1>1. root \in Node(MaxDepth)
  BY GoodNode
<1>2. ASSUME Blocked(root, s) PROVE ResolvePath(root, s) = Missing
  <2>1. PICK q \in Store!Above(s) : FileAt(root, q) # Missing
    BY <1>1, <1>2, BlockedAbove
  <2>2. q \in Seq(Name) /\ s \in Seq(Name) /\ Begins(q, s) /\ q # s
    BY <2>1, AboveBegins, PathSeq
  <2>3. ~ IsTree(ResolvePath(root, q))
    BY <1>1, <2>1, <2>2, FileAtType
  <2> QED BY <1>1, <2>2, <2>3, ResolveUp
<1> QED BY <1>2, NotEmptyPath DEF Conflict

\* The walk of a put is the put on the flat map.
LEMMA StorePut == ASSUME NEW root, Good(root), NEW s, NEW v \in Value, Clear(root, s, File(v))
   PROVE StoreIn(Walk(root, s, File(v))) = Store!PutFile(StoreIn(root), s, v)
<1> DEFINE new == Walk(root, s, File(v))
<1>0. s \in Path /\ s \in Seq(Name) /\ root \in Node(MaxDepth)
  BY GoodNode, PathSeq DEF Clear
<1>1. /\ new \in Objects[MaxDepth] /\ IsTree(new)
      /\ ResolvePath(new, s) = File(v)
      /\ \A p \in Seq(Name) :
            /\ Begins(p, s) /\ p # s => IsTree(ResolvePath(new, p))
            /\ Begins(s, p) /\ p # s => ResolvePath(new, p) = Missing
            /\ ~ Begins(p, s) /\ ~ Begins(s, p) => ResolvePath(new, p) = ResolvePath(root, p)
  BY WalkResolves
<1> HIDE DEF new
<1>2. new \in Node(MaxDepth)
  BY <1>1 DEF Node
<1>3. ~ Conflict(root, s, File(v)) /\ ~ IsTree(ResolvePath(root, s))
  BY FileObject DEF Clear, Conflict
<1>4. \A q \in Store!Above(s) : FileAt(root, q) = Missing
  BY <1>0, <1>3, BlockedAbove DEF Conflict
<1>5. ASSUME NEW p \in Path PROVE /\ FileAt(new, p) = IF p = s THEN v ELSE FileAt(root, p)
                                  /\ p \in Folders(new) <=> p \in Folders(root) \/ p \in Store!Above(s)
  <2>1. p \in Seq(Name)
    BY PathSeq
  <2>2. p \in Store!Above(s) <=> Begins(p, s) /\ p # s
    BY <1>0, AboveBegins
  <2>3. CASE p = s
    <3>1. FileAt(new, p) = v
      BY <1>1, <2>3, FileObject DEF FileAt
    <3>2. p \notin Folders(new)
      BY <1>1, <2>3, FileObject DEF Folders
    <3>3. p \notin Folders(root)
      BY <1>3, <2>3 DEF Folders
    <3> QED BY <2>2, <2>3, <3>1, <3>2, <3>3
  <2>4. CASE Begins(p, s) /\ p # s
    <3>1. IsTree(ResolvePath(new, p))
      BY <1>1, <2>1, <2>4
    <3>2. FileAt(new, p) = Missing /\ p \in Folders(new)
      BY <3>1 DEF FileAt, Folders
    <3> QED BY <1>4, <2>2, <2>4, <3>2
  <2>5. CASE Begins(s, p) /\ p # s /\ ~ Begins(p, s)
    <3>1. ResolvePath(new, p) = Missing
      BY <1>1, <2>1, <2>5
    <3>2. ResolvePath(root, p) = Missing
      BY <1>0, <1>3, <2>1, <2>5, ResolveUp
    <3> QED BY <2>2, <2>5, <3>1, <3>2 DEF FileAt, Folders, IsTree
  <2>6. CASE ~ Begins(p, s) /\ ~ Begins(s, p) /\ p # s
    <3>1. ResolvePath(new, p) = ResolvePath(root, p)
      BY <1>1, <2>1, <2>6
    <3> QED BY <2>2, <2>6, <3>1 DEF FileAt, Folders
  <2> QED BY <2>3, <2>4, <2>5, <2>6
<1>6. StoreIn(new) = [files |-> [p \in Path |-> FileAt(new, p)], folders |-> Folders(new)]
  BY <1>2, StoreIs
<1>7. [p \in Path |-> FileAt(new, p)] = [StoreIn(root).files EXCEPT ![s] = v]
  BY <1>0, <1>5, StoreParts
<1>8. Folders(new) = StoreIn(root).folders \cup Store!Above(s)
  <2>1. Folders(new) \subseteq Path /\ Folders(root) \subseteq Path /\ Store!Above(s) \subseteq Path
    BY <1>0, AboveBegins DEF Folders
  <2>2. Folders(new) = Folders(root) \cup Store!Above(s)
    BY <1>5, <2>1
  <2> QED BY <1>0, <2>2, StoreParts
<1>9. StoreIn(new) = Store!PutFile(StoreIn(root), s, v)
  BY <1>6, <1>7, <1>8 DEF Store!PutFile
<1> QED BY <1>9 DEF new

\* The walk of a remove is the remove on the flat map.
LEMMA StoreRemove == ASSUME NEW root, Good(root), NEW s, Clear(root, s, Missing)
   PROVE StoreIn(Walk(root, s, Missing)) = Store!RemoveEntry(StoreIn(root), s)
<1> DEFINE new == Walk(root, s, Missing)
<1>0. s \in Path /\ s \in Seq(Name) /\ root \in Node(MaxDepth)
  BY GoodNode, PathSeq DEF Clear
<1>1. /\ new \in Objects[MaxDepth] /\ IsTree(new)
      /\ ResolvePath(new, s) = Missing
      /\ \A p \in Seq(Name) :
            /\ Begins(p, s) /\ p # s => IsTree(ResolvePath(new, p))
            /\ Begins(s, p) /\ p # s => ResolvePath(new, p) = Missing
            /\ ~ Begins(p, s) /\ ~ Begins(s, p) => ResolvePath(new, p) = ResolvePath(root, p)
  BY WalkResolves
<1> HIDE DEF new
<1>2. new \in Node(MaxDepth)
  BY <1>1 DEF Node
<1>3. ResolvePath(root, s) # Missing
  BY <1>0, CanRemoveClear DEF Clear
<1>4. Begins(s, s)
  BY <1>0, LenProperties DEF Begins
<1>5. ASSUME NEW p \in Path PROVE /\ FileAt(new, p) = IF Begins(s, p) THEN Missing ELSE FileAt(root, p)
                                  /\ p \in Folders(new) <=> p \in Folders(root) /\ ~ Begins(s, p)
  <2>1. p \in Seq(Name)
    BY PathSeq
  <2>2. CASE Begins(s, p)
    <3>1. ResolvePath(new, p) = Missing
      BY <1>1, <2>1, <2>2
    <3> QED BY <2>2, <3>1 DEF FileAt, Folders, IsTree
  <2>3. CASE Begins(p, s) /\ ~ Begins(s, p)
    <3>1. IsTree(ResolvePath(new, p))
      BY <1>1, <1>4, <2>1, <2>3
    <3>2. IsTree(ResolvePath(root, p))
      BY <1>0, <1>3, <1>4, <2>1, <2>3, ResolveUp
    <3> QED BY <2>3, <3>1, <3>2 DEF FileAt, Folders
  <2>4. CASE ~ Begins(p, s) /\ ~ Begins(s, p)
    <3>1. ResolvePath(new, p) = ResolvePath(root, p)
      BY <1>1, <2>1, <2>4
    <3> QED BY <2>4, <3>1 DEF FileAt, Folders
  <2> QED BY <2>2, <2>3, <2>4
<1>6. StoreIn(new) = [files |-> [p \in Path |-> FileAt(new, p)], folders |-> Folders(new)]
  BY <1>2, StoreIs
<1>7. \A p \in Path : p \in Store!Below(s) <=> Begins(s, p)
  BY <1>0, BelowBegins
<1>8. [p \in Path |-> FileAt(new, p)] = [q \in Path |-> IF q \in Store!Below(s) THEN Missing
          ELSE StoreIn(root).files[q]]
  <2>1. ASSUME NEW p \in Path
        PROVE FileAt(new, p) = IF p \in Store!Below(s) THEN Missing ELSE StoreIn(root).files[p]
    <3>1. StoreIn(root).files[p] = FileAt(root, p)
      BY <1>0, StoreParts
    <3>2. FileAt(new, p) = IF Begins(s, p) THEN Missing ELSE FileAt(root, p)
      BY <1>5
    <3>3. p \in Store!Below(s) <=> Begins(s, p)
      BY <1>7
    <3> QED BY <3>1, <3>2, <3>3
  <2> QED BY <2>1
<1>9. Folders(new) = StoreIn(root).folders \ Store!Below(s)
  <2>1. Folders(new) \subseteq Path /\ Folders(root) \subseteq Path
    BY DEF Folders
  <2>2. Folders(new) = Folders(root) \ Store!Below(s)
    BY <1>5, <1>7, <2>1
  <2> QED BY <1>0, <2>2, StoreParts
<1>10. StoreIn(new) = Store!RemoveEntry(StoreIn(root), s)
  BY <1>6, <1>8, <1>9 DEF Store!RemoveEntry
<1> QED BY <1>10 DEF new

-----------------------------------------------------------------------------
(****************************************************************************)
(* The repository as a whole: its invariant, its types, its refinement.    *)
(***************************************************************************)
\* The inductive invariant.  The type invariant alone does not carry the refinement:
\* at commitTree the staged tree must be known to be one put or one remove away from
\* main, or main itself (after a commit), because main may have been empty when it was made.
FilesInv ==
    /\ Good(main)
    /\ Good(staged)
    /\ \/ staged = Missing
       \/ staged = main
       \/ \E s \in Path, node \in Files \cup {Missing} :
             Clear(main, s, node) /\ staged = Walk(main, s, node)

\* It holds of the empty repository.
LEMMA FilesInvInit == Init => FilesInv
BY DEF Init, FilesInv, Good

\* put and remove stage one walk from main.
LEMMA ModifyStep == ASSUME FilesInv, NEW s \in Path, NEW node \in Files \cup {Missing}, ModifyTree(s, node)
   PROVE FilesInv' /\ main' = main
<1>1. Segments(s) = s
  BY PathSeq, SegmentsSame
<1>2. main' = main /\ staged' = Walk(main, s, node) /\ ~ Conflict(main, s, node)
  BY <1>1 DEF ModifyTree
<1>3. Good(main) /\ Clear(main, s, node)
  BY <1>2 DEF FilesInv, Clear
<1>4. Good(staged')
  BY <1>2, <1>3, WalkResolves DEF Good
<1>5. Good(main')
  BY <1>2, <1>3
<1>6. Clear(main', s, node) /\ staged' = Walk(main', s, node)
  BY <1>2, <1>3
<1> QED BY <1>2, <1>4, <1>5, <1>6 DEF FilesInv

\* Every step preserves it.
LEMMA FilesInvStep == ASSUME FilesInv, [Next]_vars PROVE FilesInv'
<1>1. ASSUME NEW path \in Path, NEW v \in Value, Put(path, v) PROVE FilesInv'
  BY <1>1, ModifyStep DEF Put, Files
<1>2. ASSUME NEW path \in Path, Remove(path) PROVE FilesInv'
  BY <1>2, ModifyStep DEF Remove
<1>3. CASE CommitTree
  <2>1. Good(staged) /\ main' = staged /\ staged' = staged
    BY <1>3 DEF CommitTree, FilesInv
  <2>2. Good(main') /\ Good(staged') /\ staged' = main'
    BY <2>1
  <2> QED BY <2>2 DEF FilesInv
<1>4. CASE UNCHANGED vars
  <2>1. main' = main /\ staged' = staged
    BY <1>4 DEF vars
  <2>2. Good(main') /\ Good(staged')
    BY <2>1 DEF FilesInv
  <2>3. staged' = Missing \/ staged' = main' \/ \E s \in Path, node \in Files \cup {Missing} :
            Clear(main', s, node) /\ staged' = Walk(main', s, node)
    BY <2>1 DEF FilesInv
  <2> QED BY <2>2, <2>3 DEF FilesInv
<1> QED BY <1>1, <1>2, <1>3, <1>4 DEF Next

\* The trees of the repository are trees of files and trees, and what is staged is
\* never further from main than one put or one remove: put and remove start from
\* main, and commitTree makes main what was staged.
THEOREM FilesInvAlways == Spec => []FilesInv
<1> QED BY FilesInvInit, FilesInvStep, PTL DEF Spec

\* What a good tree contains, contents by contents.
LEMMA TypeFromInv == ASSUME FilesInv PROVE TypeOK
<1> SUFFICES ASSUME NEW root \in {main, staged} \ {Missing}
             PROVE  /\ IsTree(root)
                    /\ \A x \in Contents(root) :
                          /\ x.path \in Path
                          /\ x.node # Missing /\ (IsTree(x.node) \/ x.node.value \in Value)
  BY DEF TypeOK
<1>1. Good(root) /\ IsTree(root)
  BY DEF FilesInv, Good
<1>2. root \in Node(MaxDepth)
  BY <1>1, GoodNode
<1>3. ASSUME NEW x \in Contents(root)
      PROVE x.path \in Path /\ x.node # Missing /\ (IsTree(x.node) \/ x.node.value \in Value)
  <2>1. PICK p \in Present(root) : x = Place(root, p)
    BY <1>2, ContentsAre
  <2>2. x.path = p /\ x.node = ResolvePath(root, p)
    BY <2>1 DEF Place
  <2>3. p \in Path /\ p \in Seq(Name) /\ ResolvePath(root, p) # Missing
    BY PathSeq DEF Present
  <2>4. IsTree(ResolvePath(root, p)) \/ \E v \in Value : ResolvePath(root, p) = File(v)
    BY <1>2, <2>3, NodeCase
  <2>5. IsTree(x.node) \/ x.node.value \in Value
    BY <2>2, <2>4, FileObject
  <2> QED BY <2>2, <2>3, <2>5
<1> QED BY <1>1, <1>3

\* Everything in main and in the staged tree has a path of names and is a tree or a
\* file with a value: walk() never makes an entry that is null.
THEOREM TypeCorrect == Spec => []TypeOK
<1>1. FilesInv => TypeOK
  BY TypeFromInv
<1> QED BY <1>1, FilesInvAlways, PTL

\* No main is the empty map.
LEMMA StoreEmpty == StoreIn(Missing) = Store!Empty
<1>1. Missing \in Node(MaxDepth)
  BY DEF Node
<1> DEFINE S == {p \in Seq(Name) : ResolvePath(Missing, p) = Missing}
<1>2. <<>> \in S
  BY EmptySeq, ResolveRoot
<1>3. ASSUME NEW p \in Seq(Name), NEW n \in Name, p \in S PROVE Append(p, n) \in S
  BY <1>3, ResolveAppend, AppendProperties, EntryMissing
<1> HIDE DEF S
<1>4. Seq(Name) \subseteq S
  BY <1>2, <1>3, SeqClimb
<1>5. \A p \in Path : ResolvePath(Missing, p) = Missing
  BY <1>4, PathSeq DEF S
<1>6. [p \in Path |-> FileAt(Missing, p)] = [p \in Path |-> Missing]
  BY <1>5 DEF FileAt
<1>7. Folders(Missing) = {}
  BY <1>5 DEF Folders, IsTree
<1> QED BY <1>1, <1>6, <1>7, StoreIs DEF Store!Empty

\* The state function the refinement maps to, in the next state.
LEMMA StorePrime == StoreIn(main)' = StoreIn(main')
OBVIOUS

\* A commit is a put or a remove on the map, and no other step changes it.
LEMMA StoreStep == ASSUME FilesInv, [Next]_vars PROVE [Store!Next]_(StoreIn(main))
<1>1. CASE main' = main
  <2>1. StoreIn(main)' = StoreIn(main)
    BY <1>1, StorePrime
  <2> QED BY <2>1
<1>2. CASE main' # main
  <2>1. CommitTree
    BY <1>2 DEF Next, Put, Remove, ModifyTree, vars
  <2>2. main' = staged /\ staged # Missing /\ staged # main
    BY <1>2, <2>1 DEF CommitTree
  <2>3. PICK s \in Path, node \in Files \cup {Missing} :
             Clear(main, s, node) /\ staged = Walk(main, s, node)
    BY <2>2 DEF FilesInv
  <2>4. Good(main)
    BY DEF FilesInv
  <2>5. CASE node = Missing
    <3>1. StoreIn(main') = Store!RemoveEntry(StoreIn(main), s)
      BY <2>2, <2>3, <2>4, <2>5, StoreRemove
    <3> QED BY <3>1, StorePrime DEF Store!Next
  <2>6. CASE node \in Files
    <3>1. PICK v \in Value : node = File(v)
      BY <2>6 DEF Files
    <3>2. StoreIn(main') = Store!PutFile(StoreIn(main), s, v)
      BY <2>2, <2>3, <2>4, <3>1, StorePut
    <3>3. Store!CanPut(StoreIn(main), s)
      BY <2>3, <2>4, <3>1, CanPutClear DEF Clear
    <3> QED BY <3>1, <3>2, <3>3, StorePrime DEF Store!Next
  <2> QED BY <2>5, <2>6
<1> QED BY <1>1, <1>2

\* The repository, whose trees are rebuilt from the leaf up and committed later,
\* implements the flat map of files with folders: commitTree applies exactly the put or
\* the remove that was staged, and loses and invents nothing else.
THEOREM FilesImplemented == Spec => ImplementsFiles
<1>1. Init => Store!Init
  BY StoreEmpty DEF Init, Store!Init
<1>2. FilesInv /\ [Next]_vars => [Store!Next]_(StoreIn(main))
  BY StoreStep
<1> QED BY <1>1, <1>2, FilesInvAlways, PTL DEF Spec, ImplementsFiles, Store!Spec

-----------------------------------------------------------------------------
(****************************************************************************)
(* get and select.                                                         *)
(***************************************************************************)
\* Given paths are sequences, and so are their segments.
LEMMA GivenPaths == ASSUME NEW path \in GivenPath
   PROVE path \in Given /\ Segments(path) \in Seq(Name) /\ Len(Segments(path)) \in 0..MaxDepth
<1>1. PICK n \in 0..MaxDepth : path \in [1..n -> Name \cup {Blank}]
  BY DEF GivenPath
<1>2. path \in Given /\ Len(path) = n /\ n \in Nat
  BY <1>1, MyceliumAssumption DEF Given
<1>3. Segments(path) \in Seq(Name) /\ Len(Segments(path)) <= n /\ Len(Segments(path)) \in Nat
  BY <1>2, SegmentsType, LenProperties
<1> QED BY <1>1, <1>2, <1>3, MyceliumAssumption

\* Get reads the file from main.
LEMMA GetIs == ASSUME NEW path PROVE Get(path) = FileAt(main, path)
BY DEF Get, FileAt

\* get finds exactly the files there are, at whatever spelling of their paths.
LEMMA GetFromInv == ASSUME FilesInv PROVE GetAgrees
<1>1. Good(main) /\ main \in Node(MaxDepth)
  BY GoodNode DEF FilesInv
<1> SUFFICES ASSUME NEW path \in GivenPath
             PROVE  Get(path) = IF Segments(path) = <<>> THEN Missing
                        ELSE StoreIn(main).files[Segments(path)]
  BY DEF GetAgrees
<1> DEFINE s == Segments(path)
<1>2. path \in Given /\ s \in Seq(Name) /\ Len(s) \in 0..MaxDepth
  BY GivenPaths
<1>3. Get(path) = FileAt(main, s)
  <2>1. ResolvePath(main, path) = ResolvePath(main, s)
    BY <1>2, ResolveGiven
  <2>2. Get(path) = FileAt(main, path)
    BY GetIs
  <2> HIDE DEF s
  <2> QED BY <2>1, <2>2 DEF FileAt
<1> HIDE DEF s
<1>4. CASE s = <<>>
  <2>1. ResolvePath(main, s) = main
    BY <1>4, ResolveRoot
  <2> QED BY <1>1, <1>3, <1>4, <2>1 DEF FileAt, Good, s
<1>5. CASE s # <<>>
  <2>1. s \in Path
    BY <1>2, <1>5, EmptySeq, PathSeq
  <2>2. StoreIn(main).files[s] = FileAt(main, s)
    BY <1>1, <2>1, StoreParts
  <2> QED BY <1>3, <1>5, <2>2 DEF s
<1> QED BY <1>4, <1>5

\* The key select makes for an entry has the folder's segments and the name.
LEMMA KeySegments == ASSUME NEW path \in Given, NEW n \in Name
   PROVE Key(path, n) \in Given /\ Segments(Key(path, n)) = Append(Segments(path), n)
<1>1. n # Blank
  BY MyceliumAssumption
<1>2. CASE path \in {<<>>, <<Blank>>}
  <2>1. <<>> \in Given /\ <<n>> = Append(<<>>, n) /\ <<Blank>> = Append(<<>>, Blank)
    BY EmptySeq DEF Given
  <2>2. Segments(<<n>>) = Append(<<>>, n)
    <3>1. Segments(Append(<<>>, n)) = Append(Segments(<<>>), n)
      <4>1. <<>> \in Seq(Name)
        BY EmptySeq
      <4> QED BY <1>1, <4>1, SegmentsAppend
    <3> QED BY <2>1, <3>1, SegmentsEmpty
  <2>3. Segments(<<Blank>>) = <<>>
    <3>1. Segments(Append(<<>>, Blank)) = Segments(<<>>)
      BY <2>1, SegmentsAppend DEF Given
    <3> QED BY <2>1, <3>1, SegmentsEmpty
  <2>4. Segments(path) = <<>>
    BY <1>2, <2>3, SegmentsEmpty
  <2>5. Key(path, n) = <<n>>
    BY <1>2 DEF Key
  <2>6. Append(<<>>, n) \in Given
    BY <2>1, AppendProperties DEF Given
  <2> QED BY <2>1, <2>2, <2>4, <2>5, <2>6
<1>3. CASE path \notin {<<>>, <<Blank>>}
  <2>1. Key(path, n) = Append(path, n)
    BY <1>3 DEF Key
  <2>2. Segments(Append(path, n)) = Append(Segments(path), n)
    BY <1>1, SegmentsAppend DEF Given
  <2>3. Append(path, n) \in Given
    BY AppendProperties DEF Given
  <2> QED BY <2>1, <2>2, <2>3
<1> QED BY <1>2, <1>3

\* What a folder shows, by the names of its entries.
LEMMA SelectIs == ASSUME FilesInv, NEW path \in Given, NEW mode \in {"raw", "data", "metadata"},
                         ResolvePath(main, Segments(path)) = Missing
                             \/ IsTree(ResolvePath(main, Segments(path)))
   PROVE LET s == Segments(path)
             names == {n \in Name : ResolvePath(main, Append(s, n)) # Missing}
         IN  Select(path, mode) = {[key |-> Key(path, n), node |-> ResolvePath(main, Append(s, n))] :
                                      n \in names \cap Shown(mode)}
<1> DEFINE s == Segments(path)
           node == ResolvePath(main, s)
           names == {n \in Name : ResolvePath(main, Append(s, n)) # Missing}
<1>1. s \in Seq(Name) /\ ResolvePath(main, path) = node /\ main \in Node(MaxDepth)
  BY SegmentsType, ResolveGiven, GoodNode DEF FilesInv
<1>2. \A n : /\ IsTree(node) /\ n \in DOMAIN node.entries
                   => n \in names /\ ResolvePath(main, Append(s, n)) = node.entries[n]
             /\ n \in names => IsTree(node) /\ n \in DOMAIN node.entries
  BY <1>1, ResolveEntry
<1>3. Select(path, mode) = CASE node = Missing -> {}
          [] IsTree(node) -> {[key |-> Key(path, n), node |-> node.entries[n]] :
                                 n \in DOMAIN node.entries \cap Shown(mode)}
          [] OTHER -> {[key |-> path, node |-> node]}
  BY <1>1 DEF Select
<1>4. node = Missing \/ IsTree(node)
  OBVIOUS
<1> HIDE DEF node, names
<1>5. CASE node = Missing
  <2>1. names = {}
    BY <1>2, <1>5 DEF IsTree, names
  <2>2. Select(path, mode) = {}
    <3>1. ~ IsTree(node)
      BY <1>5 DEF IsTree
    <3> QED BY <1>3, <1>5, <3>1
  <2>3. Select(path, mode) = {[key |-> Key(path, n), node |-> ResolvePath(main, Append(s, n))] :
                                      n \in names \cap Shown(mode)}
    BY <2>1, <2>2
  <2> QED BY <2>3 DEF names, s
<1>6. CASE node # Missing /\ IsTree(node)
  <2>1. Select(path, mode) = {[key |-> Key(path, n), node |-> node.entries[n]] :
                                 n \in DOMAIN node.entries \cap Shown(mode)}
    BY <1>3, <1>6
  <2>2. DOMAIN node.entries = names
    BY <1>2, <1>6 DEF names
  <2>3. \A n \in names : ResolvePath(main, Append(s, n)) = node.entries[n]
    BY <1>2, <1>6, <2>2
  <2> HIDE DEF s
  <2>4. Select(path, mode) = {[key |-> Key(path, n), node |-> ResolvePath(main, Append(s, n))] :
                                      n \in names \cap Shown(mode)}
    BY <2>1, <2>2, <2>3
  <2> QED BY <2>4 DEF names, s
<1> QED BY <1>4, <1>5, <1>6

\* Browsing by the keys that select returns arrives at what it shows.
LEMMA SelectFromInv == ASSUME FilesInv PROVE SelectAgrees
<1>0. Good(main) /\ main \in Node(MaxDepth)
  BY GoodNode DEF FilesInv
<1>1. {x.path : x \in Contents(main)} = Present(main)
  <2>1. \A p : Place(main, p).path = p
    BY DEF Place
  <2> QED BY <1>0, <2>1, ContentsAre
<1>2. StoreIn(main).folders = Folders(main)
  BY <1>0, StoreParts
<1> SUFFICES ASSUME NEW path \in GivenPath, Segments(path) = <<>> \/ Segments(path) \in Folders(main)
             PROVE  /\ \A e \in Select(path, "raw") : ResolvePath(main, e.key) = e.node
                    /\ {Segments(e.key) : e \in Select(path, "data") \cup Select(path, "metadata")}
                         = {p \in Present(main) : Len(p) = Len(Segments(path)) + 1
                                             /\ SubSeq(p, 1, Len(Segments(path))) = Segments(path)}
  BY <1>1, <1>2 DEF SelectAgrees
<1> DEFINE s == Segments(path)
           names == {n \in Name : ResolvePath(main, Append(s, n)) # Missing}
           Item(n) == [key |-> Key(path, n), node |-> ResolvePath(main, Append(s, n))]
<1>3. path \in Given /\ s \in Seq(Name)
  BY GivenPaths
<1>4. ResolvePath(main, s) = Missing \/ IsTree(ResolvePath(main, s))
  <2>1. CASE s = <<>>
    BY <1>0, <2>1, ResolveRoot DEF Good
  <2>2. CASE s \in Folders(main)
    BY <2>2 DEF Folders
  <2> QED BY <2>1, <2>2
<1>5. \A mode \in {"raw", "data", "metadata"} : Select(path, mode) = {Item(n) :
          n \in names \cap Shown(mode)}
  BY <1>3, <1>4, SelectIs
<1>6. \A n \in Name : Segments(Item(n).key) = Append(s, n) /\ Item(n).key \in Given
                      /\ ResolvePath(main, Item(n).key) = Item(n).node
  <2> SUFFICES ASSUME NEW n \in Name
               PROVE  Segments(Key(path, n)) = Append(s, n) /\ Key(path, n) \in Given
                      /\ ResolvePath(main, Key(path, n)) = ResolvePath(main, Append(s, n))
    OBVIOUS
  <2>1. Segments(Key(path, n)) = Append(s, n) /\ Key(path, n) \in Given
    BY <1>3, KeySegments
  <2> QED BY <2>1, ResolveGiven
<1>7. names \subseteq Name
  OBVIOUS
<1>8. ASSUME NEW n \in names PROVE /\ Append(s, n) \in Present(main)
                                   /\ Len(Append(s, n)) = Len(s) + 1
                                   /\ SubSeq(Append(s, n), 1, Len(s)) = s
  <2> DEFINE q == Append(s, n)
  <2>1. q \in Seq(Name) /\ Len(q) = Len(s) + 1 /\ Len(s) \in Nat
    BY <1>3, AppendProperties, LenProperties
  <2>2. ResolvePath(main, q) # Missing
    OBVIOUS
  <2>3. Begins(s, s)
    BY <1>3, LenProperties DEF Begins
  <2>4. Begins(s, q)
    BY <1>3, <2>3, BeginsAppend
  <2> HIDE DEF q
  <2>5. q \in Path
    <3>1. Len(q) <= MaxDepth
      BY <1>0, <2>1, <2>2, ResolveNode
    <3> QED BY <2>1, <3>1, PathSeq, MyceliumAssumption
  <2>6. SubSeq(q, 1, Len(s)) = s
    BY <1>3, <2>1, <2>4, BeginsPrefix
  <2>7. q \in Present(main) /\ Len(q) = Len(s) + 1 /\ SubSeq(q, 1, Len(s)) = s
    BY <2>1, <2>2, <2>5, <2>6 DEF Present
  <2> QED BY <2>7 DEF q
<1>9. ASSUME NEW p \in Present(main), Len(p) = Len(s) + 1, SubSeq(p, 1, Len(s)) = s
      PROVE \E n \in names : p = Append(s, n)
  <2>1. p \in Seq(Name) /\ Len(s) \in Nat /\ ResolvePath(main, p) # Missing
    BY <1>3, PathSeq, LenProperties DEF Present
  <2>2. p # <<>>
    BY <1>9, <2>1, EmptySeq
  <2>3. PICK q \in Seq(Name), n \in Name : p = Append(q, n)
    BY <2>1, <2>2, SequenceEmptyOrAppend
  <2>4. Len(p) = Len(q) + 1 /\ Len(q) \in Nat
    BY <2>3, AppendProperties, LenProperties
  <2>5. Begins(s, p) /\ s # p
    <3>1. Len(p) >= Len(s)
      BY <1>9, <2>1
    <3> QED BY <1>3, <1>9, <2>1, <3>1, BeginsSubSeq
  <2>6. Begins(s, q)
    BY <1>3, <2>3, <2>5, BeginsAppend
  <2>7. s = q
    <3>1. Len(s) = Len(q)
      BY <1>9, <2>1, <2>4
    <3> QED BY <1>3, <2>6, <3>1, BeginsLength
  <2> QED BY <2>1, <2>3, <2>7
<1>10. Shown("raw") = Name /\ Shown("data") \cup Shown("metadata") = Name
  BY MyceliumAssumption DEF Shown
<1> DEFINE all == Select(path, "data") \cup Select(path, "metadata")
<1>11. all = {Item(n) : n \in names}
  BY <1>5, <1>7, <1>10
<1>12. \A e \in Select(path, "raw") : ResolvePath(main, e.key) = e.node
  BY <1>5, <1>6, <1>7, <1>10
<1> HIDE DEF all, s, Item
<1>13. {Segments(e.key) : e \in all} = {Append(s, n) : n \in names}
  BY <1>6, <1>7, <1>11
<1> HIDE DEF names
<1>14. {Append(s, n) : n \in names} = {p \in Present(main) :
           Len(p) = Len(s) + 1 /\ SubSeq(p, 1, Len(s)) = s}
  BY <1>8, <1>9
<1>15. {Segments(e.key) : e \in all} = {p \in Present(main) :
           Len(p) = Len(s) + 1 /\ SubSeq(p, 1, Len(s)) = s}
  BY <1>13, <1>14
<1> QED BY <1>12, <1>15 DEF all, s

-----------------------------------------------------------------------------
(****************************************************************************)
(* The listings of a flat set of keys, whatever the keys (HyperdriveFs).   *)
(***************************************************************************)
\* list(path): a directory is a path that some key begins with.
LEMMA ListBegins == ASSUME NEW keys \in SUBSET Seq(Name), NEW p \in Seq(Name)
   PROVE List(keys, p) = {q \in keys : Begins(p, q) /\ q # p}
<1> SUFFICES ASSUME NEW q \in keys
             PROVE  Len(q) > Len(p) /\ SubSeq(q, 1, Len(p)) = p <=> Begins(p, q) /\ q # p
  BY DEF List
<1>1. q \in Seq(Name) /\ Len(q) \in Nat /\ Len(p) \in Nat
  BY LenProperties
<1>2. Begins(p, q) <=> Len(q) >= Len(p) /\ SubSeq(q, 1, Len(p)) = p
  BY <1>1, BeginsSubSeq
<1>3. Begins(p, q) /\ q # p => Len(p) # Len(q) /\ Len(p) <= Len(q)
  BY <1>1, BeginsLength
<1>4. q = p => Len(q) = Len(p)
  OBVIOUS
<1> QED BY <1>1, <1>2, <1>3, <1>4

\* A longer path has a next name,
LEMMA BeginsNext == ASSUME NEW p \in Seq(Name), NEW q \in Seq(Name), Begins(p, q), q # p
   PROVE q[Len(p) + 1] \in Name /\ Begins(Append(p, q[Len(p) + 1]), q)
<1> DEFINE A == Len(p)
           B == Len(q)
           n == q[A + 1]
<1>1. A \in Nat /\ B \in Nat /\ A < B
  BY BeginsLength
<1>2. n \in Name
  <2>1. A + 1 \in 1..B
    BY <1>1
  <2> HIDE DEF A
  <2> QED BY <2>1, ElementOfSeq
<1>3. Begins(Append(p, n), q)
  BY <1>1, <1>2, BeginsAppend
<1> QED BY <1>2, <1>3

\* which is the one after the prefix.
LEMMA BeginsElement == ASSUME NEW p \in Seq(Name), NEW q \in Seq(Name), NEW n \in Name,
                             Begins(Append(p, n), q)
   PROVE Begins(p, q) /\ q # p /\ q[Len(p) + 1] = n
<1>1. Begins(p, q) /\ Len(p) < Len(q) /\ n = q[Len(p) + 1]
  BY BeginsAppend
<1>2. q # p
  BY <1>1, LenProperties
<1> QED BY <1>1, <1>2

\* readdir shows the names that lstat finds, and those some key goes through.
LEMMA ReaddirIs == ASSUME NEW keys \in SUBSET Seq(Name), NEW p \in Seq(Name)
   PROVE /\ Readdir(keys, p) = {n \in Name : Lstat(keys, Append(p, n)) # "ENOENT"}
         /\ Readdir(keys, p) = {n \in Name : \E q \in keys : Begins(Append(p, n), q)}
<1>1. \A n \in Name : Append(p, n) \in Seq(Name)
  BY AppendProperties
<1>2. ASSUME NEW n \in Name
      PROVE  Lstat(keys, Append(p, n)) # "ENOENT" <=> \E q \in keys : Begins(Append(p, n), q)
  <2> DEFINE t == Append(p, n)
  <2>1. List(keys, t) = {q \in keys : Begins(t, q) /\ q # t}
    BY <1>1, ListBegins
  <2>2. Begins(t, t)
    BY <1>1, LenProperties DEF Begins
  <2> HIDE DEF t
  <2>3. Lstat(keys, t) # "ENOENT" <=> t \in keys \/ List(keys, t) # {}
    BY DEF Lstat
  <2>4. Lstat(keys, t) # "ENOENT" <=> \E q \in keys : Begins(t, q)
    BY <2>1, <2>2, <2>3
  <2> QED BY <2>4 DEF t
<1>3. List(keys, p) = {q \in keys : Begins(p, q) /\ q # p}
  BY ListBegins
<1>4. ASSUME NEW q \in List(keys, p)
      PROVE  q[Len(p) + 1] \in Name /\ q \in keys /\ Begins(Append(p, q[Len(p) + 1]), q)
  <2>1. q \in keys /\ q \in Seq(Name) /\ Begins(p, q) /\ q # p
    BY <1>3
  <2> QED BY <2>1, BeginsNext
<1>5. ASSUME NEW n \in Name, NEW q \in keys, Begins(Append(p, n), q)
      PROVE  q \in List(keys, p) /\ q[Len(p) + 1] = n
  <2>1. q \in Seq(Name)
    OBVIOUS
  <2>2. Begins(p, q) /\ q # p /\ q[Len(p) + 1] = n
    BY <1>5, <2>1, BeginsElement
  <2> QED BY <1>3, <2>2
<1>6. Readdir(keys, p) = {n \in Name : \E q \in keys : Begins(Append(p, n), q)}
  BY <1>4, <1>5 DEF Readdir
<1> QED BY <1>2, <1>6

\* The listing of the page: the same names, with the types that lstat gives.
LEMMA ListDirIs == ASSUME NEW keys \in SUBSET Seq(Name), NEW p \in Seq(Name)
   PROVE ListDir(keys, p) = {[name |-> n, type |-> Lstat(keys, Append(p, n))] : n \in Readdir(keys, p)}
<1>1. ASSUME NEW n \in Readdir(keys, p)
      PROVE  (IF Append(p, n) \in keys THEN "file" ELSE "dir") = Lstat(keys, Append(p, n))
  <2>1. Lstat(keys, Append(p, n)) # "ENOENT"
    BY ReaddirIs
  <2> QED BY <2>1 DEF Lstat
<1> QED BY <1>1 DEF ListDir

-----------------------------------------------------------------------------
(****************************************************************************)
(* The files of the trees, kept flat on a drive.                           *)
(***************************************************************************)
\* The keys of the drive that has the files of a tree.
Keys(root) == {p \in Path : FileAt(root, p) # Missing}

\* A key below a path means a folder at it.
LEMMA KeysTree == ASSUME NEW root \in Node(MaxDepth)
   PROVE /\ Keys(root) \in SUBSET Seq(Name)
         /\ \A p, q : p \in Keys(root) /\ q \in Keys(root) /\ Begins(p, q) => p = q
         /\ \A p \in Path : \A q \in Keys(root) : Begins(p, q) /\ p # q => IsTree(ResolvePath(root, p))
         /\ \A p \in Keys(root) : ~ IsTree(ResolvePath(root, p))
<1>1. \A p \in Keys(root) : /\ p \in Path /\ p \in Seq(Name)
                            /\ ResolvePath(root, p) # Missing /\ ~ IsTree(ResolvePath(root, p))
  BY PathSeq, FileAtType DEF Keys
<1>2. \A p \in Path : \A q \in Keys(root) : Begins(p, q) /\ p # q => IsTree(ResolvePath(root, p))
  BY <1>1, PathSeq, ResolveUp
<1> QED BY <1>1, <1>2

\* The drive with the same files answers as the tree does.
LEMMA FlatFromInv == ASSUME FilesInv PROVE FlatAgrees
<1> DEFINE store == StoreIn(main)
           flat(files) == {p \in Path : files[p] # Missing}
           keys == flat(store.files)
           after(p) == flat(Store!RemoveEntry(store, p).files)
<1>1. Good(main) /\ main \in Node(MaxDepth)
  BY GoodNode DEF FilesInv
<1>2. keys = Keys(main)
  BY <1>1, StoreParts DEF Keys
<1>3. keys \in SUBSET Seq(Name) /\ keys \subseteq Path
      /\ (\A p, q : p \in keys /\ q \in keys /\ Begins(p, q) => p = q)
      /\ (\A p \in Path : \A q \in keys : Begins(p, q) /\ p # q => IsTree(ResolvePath(main, p)))
      /\ \A p \in keys : ~ IsTree(ResolvePath(main, p))
  BY <1>1, <1>2, KeysTree DEF Keys
<1>4. \A p \in Path : store.files[p] = FileAt(main, p) /\ (p \in store.folders
          <=> IsTree(ResolvePath(main, p)))
  BY <1>1, StoreParts DEF Folders
<1>5. \A p \in Path : p \in keys <=> store.files[p] # Missing
  OBVIOUS
<1>6. \A p \in Path : after(p) = {q \in keys : ~ Begins(p, q)}
  <2> SUFFICES ASSUME NEW p \in Path PROVE after(p) = {q \in keys : ~ Begins(p, q)}
    OBVIOUS
  <2>1. Store!RemoveEntry(store, p).files = [q \in Path |-> IF q \in Store!Below(p) THEN Missing
            ELSE store.files[q]]
    BY DEF Store!RemoveEntry
  <2>2. \A q \in Path : q \in Store!Below(p) <=> Begins(p, q)
    BY BelowBegins
  <2> QED BY <2>1, <2>2
<1>7. \A p \in Path, v \in Value : flat(Store!PutFile(store, p, v).files) = keys \cup {p}
  <2> SUFFICES ASSUME NEW p \in Path, NEW v \in Value
        PROVE flat(Store!PutFile(store, p, v).files) = keys \cup {p}
    OBVIOUS
  <2>1. Store!PutFile(store, p, v).files = [store.files EXCEPT ![p] = v]
    BY DEF Store!PutFile
  <2>2. DOMAIN store.files = Path
    BY <1>1, StoreParts
  <2>3. \A q \in Path : [store.files EXCEPT ![p] = v][q] = IF q = p THEN v ELSE store.files[q]
    BY <2>2
  <2>4. v # Missing
    BY MyceliumAssumption
  <2> QED BY <2>1, <2>3, <2>4
<1> HIDE DEF keys, after, flat, store
<1>8. ASSUME NEW p \in Path
      PROVE /\ ReadFile(keys, p) = "content" <=> Get(p) # Missing
            /\ Lstat(keys, p) = "file" => ListDir(keys, p) = {}
            /\ Lstat(keys, p) = "dir" => IsTree(ResolvePath(main, p))
            /\ after(p) = Rm(keys, p, p \in store.folders)
            /\ p \notin keys /\ Store!CanPut(store, p) =>
                  \A v \in Value : flat(Store!PutFile(store, p, v).files) = WriteFile(keys, p)
  <2>0. p \in Seq(Name)
    BY PathSeq
  <2>1. List(keys, p) = {q \in keys : Begins(p, q) /\ q # p}
    BY <1>3, <2>0, ListBegins
  <2>2. ReadFile(keys, p) = "content" <=> Get(p) # Missing
    BY <1>4, <1>5, GetIs DEF ReadFile
  <2>3. Lstat(keys, p) = "file" => ListDir(keys, p) = {}
    <3>1. Lstat(keys, p) = "file" => p \in keys
      BY DEF Lstat
    <3>2. p \in keys => List(keys, p) = {}
      BY <1>3, <2>1
    <3> QED BY <3>1, <3>2 DEF ListDir, Readdir
  <2>4. Lstat(keys, p) = "dir" => IsTree(ResolvePath(main, p))
    <3>1. Lstat(keys, p) = "dir" => List(keys, p) # {}
      BY DEF Lstat
    <3> QED BY <1>3, <2>1, <3>1
  <2>5. after(p) = Rm(keys, p, p \in store.folders)
    <3>1. CASE p \in store.folders
      <4>1. Rm(keys, p, p \in store.folders) = keys \ List(keys, p)
        BY <3>1 DEF Rm, Rmdir
      <4>2. p \notin keys
        BY <1>3, <1>4, <3>1
      <4>3. after(p) = {q \in keys : ~ Begins(p, q)}
        BY <1>6
      <4> QED BY <2>1, <4>1, <4>2, <4>3
    <3>2. CASE p \notin store.folders
      <4>1. Rm(keys, p, p \in store.folders) = keys \ {p}
        BY <3>2 DEF Rm, Unlink
      <4>2. Begins(p, p)
        BY <2>0, LenProperties DEF Begins
      <4>3. \A q \in keys : Begins(p, q) => q = p
        BY <1>3, <1>4, <3>2
      <4>4. after(p) = {q \in keys : ~ Begins(p, q)}
        BY <1>6
      <4> QED BY <4>1, <4>2, <4>3, <4>4
    <3> QED BY <3>1, <3>2
  <2>6. \A v \in Value : flat(Store!PutFile(store, p, v).files) = WriteFile(keys, p)
    BY <1>7 DEF WriteFile
  <2> QED BY <2>2, <2>3, <2>4, <2>5, <2>6
<1>9. ASSUME NEW p \in Path \cup {<<>>}
      PROVE /\ Readdir(keys, p) = {n \in Name : Lstat(keys, Append(p, n)) # "ENOENT"}
            /\ ListDir(keys, p) = {[name |-> n, type |-> Lstat(keys, Append(p, n))] :
                   n \in Readdir(keys, p)}
  <2>1. p \in Seq(Name)
    BY PathSeq, EmptySeq
  <2> QED BY <1>3, <2>1, ReaddirIs, ListDirIs
<1> QED BY <1>8, <1>9 DEF FlatAgrees, keys, after, flat, store

-----------------------------------------------------------------------------
(****************************************************************************)
(* The mount of a drive with overlays.                                     *)
(***************************************************************************)
\* A shorter path that begins another is one of its proper prefixes.
LEMMA BeginsShorter == ASSUME NEW p \in Seq(Name), NEW q \in Seq(Name), Begins(p, q), q # p, p # <<>>
   PROVE \E k \in 1..(Len(q) - 1) : p = SubSeq(q, 1, k)
<1>1. Len(p) \in Nat /\ Len(q) \in Nat /\ Len(p) < Len(q) /\ Len(p) # 0
  BY BeginsLength, EmptySeq
<1>2. SubSeq(q, 1, Len(p)) = p
  BY BeginsPrefix
<1>3. Len(p) \in 1..(Len(q) - 1)
  BY <1>1
<1> QED BY <1>2, <1>3

\* The folders on the way to an overlay.
LEMMA OverlayDirsIs == ASSUME NEW overlays \in SUBSET Seq(Name), NEW t \in Seq(Name), t # <<>>
   PROVE t \in OverlayDirs(overlays) <=> \E o \in overlays : Begins(t, o) /\ o # t
<1>1. ASSUME NEW o \in overlays, NEW k \in 1..(Len(o) - 1)
      PROVE Begins(SubSeq(o, 1, k), o) /\ o # SubSeq(o, 1, k)
  <2> DEFINE q == SubSeq(o, 1, k)
  <2>1. o \in Seq(Name) /\ k \in 0..Len(o) /\ k # Len(o) /\ k \in Nat
    BY LenProperties
  <2>2. Len(q) = k /\ Begins(q, o)
    BY <2>1, Prefix, PrefixBegins
  <2> HIDE DEF q
  <2>3. q # o
    BY <2>1, <2>2
  <2> QED BY <2>2, <2>3 DEF q
<1>2. ASSUME NEW o \in overlays, Begins(t, o), o # t
      PROVE \E k \in 1..(Len(o) - 1) : t = SubSeq(o, 1, k)
  BY <1>2, BeginsShorter
<1>3. t \in OverlayDirs(overlays) <=> \E o \in overlays : \E k \in 1..(Len(o) - 1) : t = SubSeq(o, 1, k)
  BY DEF OverlayDirs
<1> QED BY <1>1, <1>2, <1>3

\* What stat finds is shown by ls; what ls shows and stat does not find is an overlay
\* missing on the host; and what stat calls a file can be read, but for such overlays.
MountFine(keys, overlays, host, p) ==
    LET found == {n \in Name : MountGetattr(keys, overlays, host, Append(p, n)) # "ENOENT"}
        shown == MountReaddir(keys, overlays, p)
    IN  /\ found \subseteq shown
        /\ \A n \in shown \ found : Append(p, n) \in overlays \ host
        /\ MountGetattr(keys, overlays, host, p) = "file" =>
              MountRead(keys, overlays, host, p) \in {"content", "host"} \/ p \in overlays \ host

\* readdir, getattr and read of fuse/mount.js with overlays, for whatever keys the
\* drive has, whatever overlays there are, whether below a key, above one or at one,
\* and whichever of them the host has: ls and stat show the same names but for
\* overlays that are missing on the host, and what stat calls a file can be read.
THEOREM MountShows == ASSUME NEW keys \in SUBSET Seq(Name), NEW overlays \in SUBSET Seq(Name), NEW host,
                             NEW p \in Seq(Name)
   PROVE MountFine(keys, overlays, host, p)
<1> DEFINE found == {n \in Name : MountGetattr(keys, overlays, host, Append(p, n)) # "ENOENT"}
           shown == MountReaddir(keys, overlays, p)
<1>1. /\ Readdir(keys, p) = {n \in Name : Lstat(keys, Append(p, n)) # "ENOENT"}
      /\ Readdir(overlays, p) = {n \in Name : \E o \in overlays : Begins(Append(p, n), o)}
  BY ReaddirIs
<1>2. shown = {n \in Name : \/ Lstat(keys, Append(p, n)) # "ENOENT"
                            \/ \E o \in overlays : Begins(Append(p, n), o)}
  BY <1>1 DEF MountReaddir, OverlayNamesIn
<1>3. ASSUME NEW n \in Name
      PROVE  n \in found <=> (\/ Append(p, n) \in overlays \cap host
                             \/ (\E o \in overlays : Begins(Append(p, n), o) /\ o # Append(p, n))
                             \/ Lstat(keys, Append(p, n)) # "ENOENT")
  <2> DEFINE t == Append(p, n)
  <2>1. t \in Seq(Name) /\ t # <<>>
    BY AppendProperties
  <2>2. n \in found <=> MountGetattr(keys, overlays, host, t) # "ENOENT"
    OBVIOUS
  <2> HIDE DEF t, found
  <2>3. t \in OverlayDirs(overlays) <=> \E o \in overlays : Begins(t, o) /\ o # t
    BY <2>1, OverlayDirsIs
  <2>4. MountGetattr(keys, overlays, host, t) =
           IF t \in overlays \cap host THEN "file"
           ELSE IF t \in OverlayDirs(overlays) THEN "dir" ELSE Lstat(keys, t)
    BY <2>1 DEF MountGetattr
  <2>5. n \in found <=> (\/ t \in overlays \cap host
                        \/ (\E o \in overlays : Begins(t, o) /\ o # t)
                        \/ Lstat(keys, t) # "ENOENT")
    BY <2>2, <2>3, <2>4
  <2> QED BY <2>5 DEF t
<1>4. \A o \in overlays : Begins(o, o)
  BY LenProperties DEF Begins
<1>5. found \subseteq shown
  <2>1. found \subseteq Name
    OBVIOUS
  <2> HIDE DEF found, shown
  <2> QED BY <1>2, <1>3, <1>4, <2>1
<1>6. ASSUME NEW n \in shown, n \notin found PROVE Append(p, n) \in overlays \ host
  <2> HIDE DEF found, shown
  <2>1. n \in Name
    BY <1>2
  <2>2. /\ Append(p, n) \notin overlays \cap host
        /\ \A o \in overlays : Begins(Append(p, n), o) => o = Append(p, n)
        /\ Lstat(keys, Append(p, n)) = "ENOENT"
    BY <1>3, <1>6, <2>1
  <2> QED BY <1>2, <2>2
<1>7. ASSUME MountGetattr(keys, overlays, host, p) = "file"
      PROVE  MountRead(keys, overlays, host, p) \in {"content", "host"} \/ p \in overlays \ host
  <2>1. CASE p \in overlays
    BY <2>1 DEF MountRead
  <2>2. CASE p \notin overlays
    <3>1. p # <<>>
      BY <1>7 DEF MountGetattr
    <3>2. Lstat(keys, p) = "file"
      BY <1>7, <2>2, <3>1 DEF MountGetattr
    <3>3. p \in keys
      BY <3>2 DEF Lstat
    <3> QED BY <2>2, <3>3 DEF MountRead, ReadFile
  <2> QED BY <2>1, <2>2
<1> QED BY <1>5, <1>6, <1>7, Zenon DEF MountFine

\* In particular for the files of the tree and one overlay.
LEMMA MountFromInv == ASSUME FilesInv PROVE MountAgrees
<1> DEFINE files == StoreIn(main).files
           keys == {p \in Path : files[p] # Missing}
<1>1. keys \in SUBSET Seq(Name)
  BY PathSeq
<1>2. ASSUME NEW o \in {<<n, n>> : n \in Name}, NEW host \in {{o}, {}}, NEW p \in Path \cup {<<>>}
      PROVE  /\ {n \in Name : MountGetattr(keys, {o}, host, Append(p, n)) # "ENOENT"}
                    \subseteq MountReaddir(keys, {o}, p)
             /\ \A n \in MountReaddir(keys, {o}, p) \
                     {k \in Name : MountGetattr(keys, {o}, host, Append(p, k)) # "ENOENT"} :
                   Append(p, n) = o /\ host = {}
             /\ MountGetattr(keys, {o}, host, p) = "file" =>
                   MountRead(keys, {o}, host, p) \in {"content", "host"} \/ (p = o /\ host = {})
  <2>1. PICK n \in Name : o = <<n, n>>
    OBVIOUS
  <2>2. {o} \in SUBSET Seq(Name)
    BY <2>1
  <2>3. p \in Seq(Name)
    BY PathSeq, EmptySeq
  <2> HIDE DEF keys
  <2>4. MountFine(keys, {o}, host, p)
    BY <1>1, <2>2, <2>3, MountShows
  <2>5. \A t : t \in {o} \ host => t = o /\ host = {}
    OBVIOUS
  <2> QED BY <2>4, <2>5 DEF MountFine
<1> QED BY <1>2, Zenon DEF MountAgrees

-----------------------------------------------------------------------------
(****************************************************************************)
(* Records and their headers.                                              *)
(***************************************************************************)
\* A list of headers, of whatever kind.
IsSeq(h) == \E X : h \in Seq(X)

\* Appending to it makes one, with that header last.
LEMMA SeqAppend == ASSUME NEW h, IsSeq(h), NEW e
   PROVE /\ IsSeq(Append(h, e))
         /\ Len(h) \in Nat /\ Len(Append(h, e)) = Len(h) + 1
         /\ DOMAIN Append(h, e) = 1..(Len(h) + 1) /\ DOMAIN h = 1..Len(h)
         /\ \A i \in 1..Len(h) : Append(h, e)[i] = h[i]
         /\ Append(h, e)[Len(h) + 1] = e
<1>1. PICK X : h \in Seq(X)
  BY DEF IsSeq
<1> DEFINE Y == X \cup {e}
<1>2. h \in Seq(Y)
  BY <1>1, SeqMonotonic
<1>3. e \in Y
  OBVIOUS
<1> HIDE DEF Y
<1>4. Append(h, e) \in Seq(Y)
  BY <1>2, <1>3, AppendProperties
<1>5. Len(h) \in Nat /\ Len(Append(h, e)) = Len(h) + 1 /\ DOMAIN h = 1..Len(h)
      /\ DOMAIN Append(h, e) = 1..Len(Append(h, e))
  BY <1>2, <1>3, <1>4, AppendProperties, LenProperties
<1>6. (\A i \in 1..Len(h) : Append(h, e)[i] = h[i]) /\ Append(h, e)[Len(h) + 1] = e
  BY <1>2, <1>3, AppendProperties
<1>7. IsSeq(Append(h, e))
  BY <1>4 DEF IsSeq
<1> QED BY <1>5, <1>6, <1>7

\* A record with one header more.
LEMMA Added == ASSUME NEW key, NEW value, NEW h, NEW k, NEW v
   PROVE AddHeader(Record(key, value, h), k, v) = Record(key, value, Append(h, Header(k, v)))
BY DEF AddHeader, Record

\* The last header with a key counts,
LEMMA LastCounts == ASSUME NEW key, NEW value, NEW h, IsSeq(h), NEW k, NEW v
   PROVE GetHeader(Record(key, value, Append(h, Header(k, v))), k) = v
<1> DEFINE g == Append(h, Header(k, v))
           A == Len(h)
           at == {i \in DOMAIN g : g[i].key = k}
           m == CHOOSE i \in at : \A j \in at : j <= i
<1>1. A \in Nat /\ DOMAIN g = 1..(A + 1) /\ g[A + 1] = Header(k, v)
  BY SeqAppend
<1>2. Header(k, v).key = k /\ Header(k, v).value = v
  BY DEF Header
<1>3. Record(key, value, g).headers = g
  BY DEF Record
<1> HIDE DEF g, A
<1>4. A + 1 \in at /\ \A j \in at : j \in Nat /\ j <= A + 1
  BY <1>1, <1>2
<1> HIDE DEF at
<1>5. m \in at /\ \A j \in at : j <= m
  BY <1>4
<1>6. m = A + 1
  BY <1>1, <1>4, <1>5
<1>7. GetHeader(Record(key, value, g), k) = IF at = {} THEN Missing ELSE g[m].value
  BY <1>3 DEF GetHeader, at
<1>8. GetHeader(Record(key, value, g), k) = v
  BY <1>1, <1>2, <1>4, <1>6, <1>7
<1> QED BY <1>8 DEF g

\* and one with another key changes nothing.
LEMMA OthersStay == ASSUME NEW key, NEW value, NEW h, IsSeq(h), NEW k, NEW v, NEW k2, k2 # k,
                           NEW key2, NEW value2
   PROVE GetHeader(Record(key, value, Append(h, Header(k, v))), k2)
             = GetHeader(Record(key2, value2, h), k2)
<1> DEFINE g == Append(h, Header(k, v))
           A == Len(h)
<1>1. /\ A \in Nat /\ DOMAIN g = 1..(A + 1) /\ DOMAIN h = 1..A /\ g[A + 1] = Header(k, v)
      /\ \A i \in 1..A : g[i] = h[i]
  BY SeqAppend
<1>2. Header(k, v).key = k
  BY DEF Header
<1>3. Record(key, value, g).headers = g /\ Record(key2, value2, h).headers = h
  BY DEF Record
<1> HIDE DEF g, A
<1> DEFINE at == {i \in DOMAIN g : g[i].key = k2}
           at2 == {i \in DOMAIN h : h[i].key = k2}
           m == CHOOSE i \in at : \A j \in at : j <= i
<1>4. at = at2 /\ at \subseteq 1..A
  BY <1>1, <1>2
<1>5. GetHeader(Record(key, value, g), k2) = IF at = {} THEN Missing ELSE g[m].value
  BY <1>3 DEF GetHeader
<1>6. GetHeader(Record(key2, value2, h), k2) =
         IF at2 = {} THEN Missing ELSE h[CHOOSE i \in at2 : \A j \in at2 : j <= i].value
  BY <1>3 DEF GetHeader
<1> HIDE DEF at, at2
<1>7. GetHeader(Record(key2, value2, h), k2) = IF at = {} THEN Missing ELSE h[m].value
  BY <1>4, <1>6
<1>8. at # {} => m \in at
  <2> SUFFICES ASSUME at # {} PROVE \E i \in at : \A j \in at : j <= i
    OBVIOUS
  <2> DEFINE D == {A - i : i \in at}
  <2>1. \A i \in at : i \in Nat /\ i <= A /\ A - i \in Nat
    BY <1>1, <1>4
  <2>2. D \subseteq Nat
    BY <2>1
  <2>3. D # {}
    OBVIOUS
  <2>4. \A i \in at : A - i \in D
    OBVIOUS
  <2>5. \A d \in D : \E i \in at : d = A - i
    OBVIOUS
  <2> HIDE DEF D
  <2>6. PICK d \in D : \A e \in D : d <= e
    BY <2>2, <2>3, LeastIn
  <2>7. PICK i \in at : d = A - i
    BY <2>5
  <2>8. \A j \in at : A - i <= A - j
    BY <2>4, <2>6, <2>7
  <2>9. \A j \in at : j <= i
    BY <1>1, <2>1, <2>8
  <2> QED BY <2>9
<1> HIDE DEF m
<1>9. at # {} => g[m] = h[m]
  BY <1>1, <1>4, <1>8
<1>10. GetHeader(Record(key, value, g), k2) = GetHeader(Record(key2, value2, h), k2)
  BY <1>5, <1>7, <1>9
<1> QED BY <1>10 DEF g

-----------------------------------------------------------------------------
(****************************************************************************)
(* dispatch.                                                               *)
(***************************************************************************)
\* As a caller tells: by the status header.
IsError(r) == GetHeader(r, "status") = "error"

\* An error reply says so, whatever the record already had,
LEMMA ErrorReply == ASSUME NEW key, NEW value, NEW h, IsSeq(h), NEW why
   PROVE IsError(WithError(Record(key, value, h), why))
<1> DEFINE g == Append(h, Header("status", "error"))
<1>1. WithError(Record(key, value, h), why) = Record(key, value, Append(g, Header("error", why)))
  BY Added DEF WithError, WithStatus
<1>2. IsSeq(g)
  BY SeqAppend
<1>3. GetHeader(Record(key, value, g), "status") = "error"
  BY LastCounts
<1> HIDE DEF g
<1>4. GetHeader(Record(key, value, Append(g, Header("error", why))), "status")
          = GetHeader(Record(key, value, g), "status")
  <2>1. "status" # "error"
    OBVIOUS
  <2> QED BY <1>2, <2>1, OthersStay
<1> QED BY <1>1, <1>3, <1>4 DEF IsError

\* and any reply says its status.
LEMMA StatusReply == ASSUME NEW key, NEW value, NEW h, IsSeq(h), NEW status
   PROVE GetHeader(WithStatus(Record(key, value, h), status), "status") = status
BY Added, LastCounts DEF WithStatus

\* A request: a record whose last operation is the one asked for.
LEMMA RequestOperation == ASSUME NEW key, NEW value, NEW h, IsSeq(h), NEW op
   PROVE /\ IsSeq(Append(h, Header("operation", op)))
         /\ GetHeader(Record(key, value, Append(h, Header("operation", op))), "operation") = op
BY SeqAppend, LastCounts

\* The reply to a get has the value, or is an error.
LEMMA DispatchGet == ASSUME NEW p, NEW value, NEW g, IsSeq(g),
                            GetHeader(Record(p, value, g), "operation") = "get"
   PROVE /\ IsError(Dispatch(Record(p, value, g))) <=> Get(p) = Missing
         /\ Get(p) # Missing => Dispatch(Record(p, value, g)).value = Get(p)
<1> DEFINE r == Record(p, value, g)
<1>1. r.key = p
  BY DEF Record
<1>2. CASE Get(p) # Missing
  <2>1. Dispatch(r) = WithStatus([r EXCEPT !.value = Get(p)], "ok")
    BY <1>1, <1>2 DEF Dispatch
  <2>2. [r EXCEPT !.value = Get(p)] = Record(p, Get(p), g)
    BY DEF Record
  <2>3. GetHeader(Dispatch(r), "status") = "ok"
    BY <2>1, <2>2, StatusReply
  <2>4. Dispatch(r).value = Get(p)
    <3>1. Dispatch(r) = Record(p, Get(p), Append(g, Header("status", "ok")))
      BY <2>1, <2>2, Added DEF WithStatus
    <3> QED BY <3>1 DEF Record
  <2>5. "ok" # "error"
    OBVIOUS
  <2> QED BY <1>2, <2>3, <2>4, <2>5 DEF IsError
<1>3. CASE Get(p) = Missing
  <2>1. Dispatch(r) = WithError(r, "no such entry or operation")
    BY <1>1, <1>3 DEF Dispatch
  <2>2. IsError(Dispatch(r))
    BY <2>1, ErrorReply
  <2> QED BY <1>3, <2>2
<1> QED BY <1>2, <1>3

\* The reply to a put or a remove has the walked tree, or is an error.
LEMMA StagedReply == ASSUME NEW p \in Path, NEW value, NEW g, IsSeq(g), NEW node
   PROVE /\ IsError(Staged(Record(p, value, g), node)) <=> Conflict(main, p, node)
         /\ ~ Conflict(main, p, node) =>
               GetHeader(Staged(Record(p, value, g), node), "tree") = Walk(main, p, node)
<1> DEFINE r == Record(p, value, g)
           new == Walk(main, p, node)
<1>1. r.key = p
  BY DEF Record
<1>2. Segments(p) = p
  BY PathSeq, SegmentsSame
<1>3. Staged(r, node) = IF Conflict(main, p, node) THEN WithError(r, "conflict")
                        ELSE WithStatus(AddHeader(r, "tree", new), "staged")
  <2> HIDE DEF r, new
  <2>1. Segments(r.key) = p
    BY <1>1, <1>2
  <2> QED BY <2>1, Zenon DEF Staged, new
<1>4. CASE Conflict(main, p, node)
  <2>1. IsError(Staged(r, node))
    BY <1>3, <1>4, ErrorReply
  <2> QED BY <1>4, <2>1
<1>5. CASE ~ Conflict(main, p, node)
  <2> DEFINE h == Append(g, Header("tree", new))
  <2> HIDE DEF new
  <2>1. IsSeq(h)
    BY SeqAppend
  <2>2. Staged(r, node) = WithStatus(Record(p, value, h), "staged")
    BY <1>3, <1>5, Added
  <2>3. GetHeader(Staged(r, node), "status") = "staged"
    BY <2>1, <2>2, StatusReply
  <2>4. GetHeader(Record(p, value, h), "tree") = new
    BY LastCounts
  <2> HIDE DEF h
  <2>5. Staged(r, node) = Record(p, value, Append(h, Header("status", "staged")))
    BY <2>2, Added DEF WithStatus
  <2>6. GetHeader(Record(p, value, Append(h, Header("status", "staged"))), "tree")
            = GetHeader(Record(p, value, h), "tree")
    <3>1. "tree" # "status"
      OBVIOUS
    <3> QED BY <2>1, <3>1, OthersStay
  <2>7. GetHeader(Staged(r, node), "tree") = new
    BY <2>4, <2>5, <2>6
  <2>8. ~ IsError(Staged(r, node))
    BY <2>3 DEF IsError
  <2> QED BY <1>5, <2>7, <2>8 DEF new
<1> QED BY <1>4, <1>5

\* Which replies those are.
LEMMA DispatchChange == ASSUME NEW p, NEW value, NEW g, IsSeq(g)
   PROVE /\ GetHeader(Record(p, value, g), "operation") = "put" =>
               Dispatch(Record(p, value, g)) = Staged(Record(p, value, g), File(value))
         /\ GetHeader(Record(p, value, g), "operation") = "remove" /\ main # Missing =>
               Dispatch(Record(p, value, g)) = Staged(Record(p, value, g), Missing)
         /\ GetHeader(Record(p, value, g), "operation") = "remove" /\ main = Missing =>
               IsError(Dispatch(Record(p, value, g)))
<1> DEFINE r == Record(p, value, g)
<1>1. r.value = value
  BY DEF Record
<1>2. ASSUME GetHeader(r, "operation") = "put" PROVE Dispatch(r) = Staged(r, File(value))
  BY <1>1, <1>2 DEF Dispatch
<1>3. ASSUME GetHeader(r, "operation") = "remove", main # Missing PROVE Dispatch(r) = Staged(r, Missing)
  BY <1>3 DEF Dispatch
<1>4. ASSUME GetHeader(r, "operation") = "remove", main = Missing PROVE IsError(Dispatch(r))
  <2>1. Dispatch(r) = WithError(r, "no such entry or operation")
    BY <1>4 DEF Dispatch
  <2> QED BY <2>1, ErrorReply
<1> QED BY <1>2, <1>3, <1>4

\* So a caller can tell from the replies what happened.
LEMMA DispatchFromInv == ASSUME FilesInv PROVE DispatchAgrees
<1> DEFINE failed == WithError(Record(<<>>, Missing, <<Header("operation", "put")>>), "conflict")
           store == StoreIn(main)
           reply(op, p, v) == Dispatch(AddHeader(Record(p, v, failed.headers), "operation", op))
           h(op) == Append(failed.headers, Header("operation", op))
           change(r) == StoreIn(GetHeader(r, "tree"))
<1>1. Good(main) /\ main \in Node(MaxDepth)
  BY GoodNode DEF FilesInv
<1>2. IsSeq(failed.headers)
  <2> DEFINE h0 == <<Header("operation", "put")>>
             h1 == Append(h0, Header("status", "error"))
             h2 == Append(h1, Header("error", "conflict"))
  <2>1. IsSeq(h0)
    <3>1. h0 \in Seq({Header("operation", "put")})
      OBVIOUS
    <3> QED BY <3>1 DEF IsSeq
  <2>2. failed = Record(<<>>, Missing, h2)
    BY Added DEF WithError, WithStatus
  <2> HIDE DEF h0
  <2>3. IsSeq(h1)
    BY <2>1, SeqAppend
  <2> HIDE DEF h1
  <2>4. IsSeq(h2)
    BY <2>3, SeqAppend
  <2>5. Record(<<>>, Missing, h2).headers = h2
    BY DEF Record
  <2> HIDE DEF h2, failed
  <2> QED BY <2>2, <2>4, <2>5
<1> HIDE DEF failed
<1>3. \A op, p, v : /\ reply(op, p, v) = Dispatch(Record(p, v, h(op)))
                    /\ IsSeq(h(op))
                    /\ GetHeader(Record(p, v, h(op)), "operation") = op
  <2> SUFFICES ASSUME NEW op, NEW p, NEW v
               PROVE  /\ reply(op, p, v) = Dispatch(Record(p, v, h(op)))
                      /\ IsSeq(h(op))
                      /\ GetHeader(Record(p, v, h(op)), "operation") = op
    OBVIOUS
  <2>1. AddHeader(Record(p, v, failed.headers), "operation", op) = Record(p, v, h(op))
    BY Added
  <2> QED BY <1>2, <2>1, RequestOperation
<1>4. \A p \in Path : /\ Get(p) = store.files[p]
                      /\ store.files[p] = Missing /\ p \notin store.folders
                             <=> ResolvePath(main, p) = Missing
  <2> SUFFICES ASSUME NEW p \in Path
               PROVE  /\ Get(p) = store.files[p]
                      /\ store.files[p] = Missing /\ p \notin store.folders
                             <=> ResolvePath(main, p) = Missing
    OBVIOUS
  <2>1. store.files[p] = FileAt(main, p) /\ (p \in store.folders <=> IsTree(ResolvePath(main, p)))
    BY <1>1, StoreParts DEF Folders
  <2>2. FileAt(main, p) # Missing <=> ResolvePath(main, p) # Missing /\ ~ IsTree(ResolvePath(main, p))
    BY <1>1, PathSeq, FileAtType
  <2> HIDE DEF store
  <2> QED BY <2>1, <2>2, GetIs DEF IsTree
<1> HIDE DEF h, reply
<1>5. ASSUME NEW p \in Path
      PROVE  /\ IsError(reply("get", p, Missing)) <=> store.files[p] = Missing
             /\ ~ IsError(reply("get", p, Missing)) => reply("get", p, Missing).value = store.files[p]
  <2>1. /\ IsError(Dispatch(Record(p, Missing, h("get")))) <=> Get(p) = Missing
        /\ Get(p) # Missing => Dispatch(Record(p, Missing, h("get"))).value = Get(p)
    BY <1>3, DispatchGet
  <2> QED BY <1>3, <1>4, <2>1
<1>6. ASSUME NEW p \in Path
      PROVE  /\ IsError(reply("remove", p, Missing))
                    <=> store.files[p] = Missing /\ p \notin store.folders
             /\ ~ IsError(reply("remove", p, Missing)) =>
                   change(reply("remove", p, Missing)) = Store!RemoveEntry(store, p)
  <2> DEFINE r == Record(p, Missing, h("remove"))
  <2>1. reply("remove", p, Missing) = Dispatch(r)
    BY <1>3
  <2>2. IsSeq(h("remove")) /\ GetHeader(r, "operation") = "remove"
    BY <1>3
  <2>3. CASE main = Missing
    <3>1. IsError(Dispatch(r))
      BY <2>2, <2>3, DispatchChange
    <3>2. ResolvePath(main, p) = Missing
      <4>1. main \notin Objects[MaxDepth]
        BY <2>3, MissingAssumption
      <4>2. StoreIn(main) = Store!Empty
        BY <2>3, StoreEmpty
      <4>3. store.files[p] = Missing /\ p \notin store.folders
        BY <4>2 DEF Store!Empty
      <4> QED BY <1>4, <4>3
    <3> QED BY <1>4, <2>1, <3>1, <3>2
  <2>4. CASE main # Missing
    <3>1. Dispatch(r) = Staged(r, Missing)
      BY <2>2, <2>4, DispatchChange
    <3>2. /\ IsError(Staged(r, Missing)) <=> Conflict(main, p, Missing)
          /\ ~ Conflict(main, p, Missing) => GetHeader(Staged(r, Missing), "tree")
                 = Walk(main, p, Missing)
      BY <2>2, StagedReply
    <3>3. Conflict(main, p, Missing) <=> ResolvePath(main, p) = Missing
      BY <1>1, CanRemoveClear
    <3>4. ~ Conflict(main, p, Missing) => StoreIn(Walk(main, p, Missing)) = Store!RemoveEntry(store, p)
      BY <1>1, StoreRemove DEF Clear
    <3> HIDE DEF store, r
    <3> QED BY <1>4, <2>1, <3>1, <3>2, <3>3, <3>4
  <2> QED BY <2>3, <2>4
<1>7. ASSUME NEW p \in Path, NEW v \in Value
      PROVE  /\ IsError(reply("put", p, v)) <=> ~ Store!CanPut(store, p)
             /\ ~ IsError(reply("put", p, v)) => change(reply("put", p, v)) = Store!PutFile(store, p, v)
  <2> DEFINE r == Record(p, v, h("put"))
  <2>1. reply("put", p, v) = Dispatch(r)
    BY <1>3
  <2>2. IsSeq(h("put")) /\ GetHeader(r, "operation") = "put"
    BY <1>3
  <2>3. Dispatch(r) = Staged(r, File(v))
    BY <2>2, DispatchChange
  <2>4. /\ IsError(Staged(r, File(v))) <=> Conflict(main, p, File(v))
        /\ ~ Conflict(main, p, File(v)) => GetHeader(Staged(r, File(v)), "tree")
               = Walk(main, p, File(v))
    BY <2>2, StagedReply
  <2>5. Store!CanPut(store, p) <=> ~ Conflict(main, p, File(v))
    BY <1>1, CanPutClear
  <2>6. ~ Conflict(main, p, File(v)) => StoreIn(Walk(main, p, File(v))) = Store!PutFile(store, p, v)
    BY <1>1, StorePut DEF Clear, Files
  <2> HIDE DEF store, r
  <2> QED BY <2>1, <2>3, <2>4, <2>5, <2>6
<1> HIDE DEF store
<1> QED BY <1>5, <1>6, <1>7, Zenon DEF DispatchAgrees, IsError, store, failed, reply

\* Whatever was put, removed and committed: get, select and the replies of dispatch,
\* the same files flat on a drive and the mount of that drive all answer from the one
\* map of files that the trees of main hold.
THEOREM ReadsCorrect == Spec => []ReadsAgree
<1>1. FilesInv => ReadsAgree
  BY GetFromInv, SelectFromInv, DispatchFromInv, FlatFromInv, MountFromInv DEF ReadsAgree
<1> QED BY <1>1, FilesInvAlways, PTL

-----------------------------------------------------------------------------
(****************************************************************************)
(* What puts and removes do to each other.                                 *)
(***************************************************************************)
\* Trees with the same entries are the same.
LEMMA TreeEqual == ASSUME NEW d \in 0..MaxDepth, NEW r \in Node(d), NEW t \in Node(d), IsTree(r), IsTree(t),
                          \A n \in Name : Entry(r, n) = Entry(t, n)
   PROVE r = t
<1>1. r \in Objects[d] /\ t \in Objects[d]
  BY DEF Node, IsTree
<1>2. PICK S \in SUBSET Name : \E e \in [S -> Objects[d - 1]] : r = Tree(e) /\ r.entries = e
  BY <1>1, TreeObject
<1>3. PICK T \in SUBSET Name : \E e \in [T -> Objects[d - 1]] : t = Tree(e) /\ t.entries = e
  BY <1>1, TreeObject
<1>4. PICK f \in [S -> Objects[d - 1]] : r = Tree(f) /\ r.entries = f
  BY <1>2
<1>5. PICK g \in [T -> Objects[d - 1]] : t = Tree(g) /\ t.entries = g
  BY <1>3
<1>6. \A n \in Name : /\ Entry(r, n) # Missing <=> n \in S
                      /\ n \in S => Entry(r, n) = f[n]
  <2>1. DOMAIN r.entries = S
    BY <1>4
  <2> QED BY <1>4, <2>1, EntryIn
<1>7. \A n \in Name : /\ Entry(t, n) # Missing <=> n \in T
                      /\ n \in T => Entry(t, n) = g[n]
  <2>1. DOMAIN t.entries = T
    BY <1>5
  <2> QED BY <1>5, <2>1, EntryIn
<1>8. S = T
  BY <1>6, <1>7
<1>9. f = g
  BY <1>6, <1>7, <1>8
<1> QED BY <1>4, <1>5, <1>9

\* A tree is determined by the files and the folders it contains: the trees walk()
\* builds have no hidden state, so two callers whose changes come to the same files
\* get the same object, with the same name in git.
THEOREM TreesDetermined ==
   ASSUME NEW a, Good(a), IsTree(a), NEW b, Good(b), IsTree(b), StoreIn(a) = StoreIn(b)
   PROVE  a = b
<1>0. a \in Node(MaxDepth) /\ b \in Node(MaxDepth) /\ MaxDepth \in Nat
  BY GoodNode, MyceliumAssumption
<1>1. ASSUME NEW p \in Path
      PROVE  /\ FileAt(a, p) = FileAt(b, p)
             /\ IsTree(ResolvePath(a, p)) <=> IsTree(ResolvePath(b, p))
  BY <1>0, StoreParts DEF Folders
<1> DEFINE Same(k) == \A p \in Seq(Name) : Len(p) + k = MaxDepth
        => ResolvePath(a, p) = ResolvePath(b, p)
           S == {k \in Nat : Same(k)}
<1>2. ASSUME NEW p \in Path, ~ IsTree(ResolvePath(a, p)) PROVE ResolvePath(a, p) = ResolvePath(b, p)
  <2>1. p \in Seq(Name) /\ ~ IsTree(ResolvePath(b, p))
    BY <1>1, <1>2, PathSeq
  <2>2. /\ FileAt(a, p) # Missing => ResolvePath(a, p) = File(FileAt(a, p))
        /\ FileAt(b, p) # Missing => ResolvePath(b, p) = File(FileAt(b, p))
        /\ FileAt(a, p) = Missing => ResolvePath(a, p) = Missing
        /\ FileAt(b, p) = Missing => ResolvePath(b, p) = Missing
    BY <1>0, <1>2, <2>1, FileAtType
  <2> QED BY <1>1, <2>2
<1>3. 0 \in S
  <2> SUFFICES ASSUME NEW p \in Seq(Name), Len(p) = MaxDepth PROVE ResolvePath(a, p) = ResolvePath(b, p)
    BY LenProperties
  <2>1. p \in Path
    BY PathSeq, MyceliumAssumption
  <2>2. ResolvePath(a, p) \in Node(MaxDepth - Len(p)) /\ MaxDepth - Len(p) = 0
    BY <1>0, ResolveNode
  <2>3. ~ IsTree(ResolvePath(a, p))
    <3> SUFFICES ASSUME IsTree(ResolvePath(a, p)) PROVE FALSE
      OBVIOUS
    <3> DEFINE r == ResolvePath(a, p)
    <3>1. r \in Objects[0] /\ 0 \in 0..MaxDepth
      BY <1>0, <2>2 DEF Node, IsTree
    <3> HIDE DEF r
    <3> QED BY <3>1, TreeObject DEF r
  <2> QED BY <1>2, <2>1, <2>3
<1>4. ASSUME NEW k \in Nat, k \in S PROVE k + 1 \in S
  <2> SUFFICES ASSUME NEW p \in Seq(Name), Len(p) + (k + 1) = MaxDepth
               PROVE  ResolvePath(a, p) = ResolvePath(b, p)
    OBVIOUS
  <2>1. Len(p) \in Nat /\ MaxDepth - Len(p) = k + 1 /\ k + 1 \in 0..MaxDepth /\ Len(p) <= MaxDepth
    BY <1>0, LenProperties
  <2>2. ResolvePath(a, p) \in Node(k + 1) /\ ResolvePath(b, p) \in Node(k + 1)
    BY <1>0, <2>1, ResolveNode
  <2>3. ASSUME NEW n \in Name PROVE Entry(ResolvePath(a, p), n) = Entry(ResolvePath(b, p), n)
    <3> DEFINE q == Append(p, n)
    <3>1. q \in Seq(Name) /\ Len(q) + k = MaxDepth
      BY <2>1, AppendProperties
    <3>2. ResolvePath(a, q) = ResolvePath(b, q)
      BY <1>4, <3>1
    <3> QED BY <3>2, ResolveAppend
  <2>4. CASE IsTree(ResolvePath(a, p)) /\ IsTree(ResolvePath(b, p))
    BY <2>1, <2>2, <2>3, <2>4, TreeEqual
  <2>5. CASE p = <<>>
    <3>1. ResolvePath(a, p) = a /\ ResolvePath(b, p) = b
      BY <2>5, ResolveRoot
    <3> QED BY <2>4, <3>1
  <2>6. CASE p # <<>>
    <3>1. Len(p) # 0
      BY <2>6, EmptySeq
    <3>2. p \in Path
      BY <1>0, <2>1, <3>1, PathSeq
    <3> QED BY <1>1, <1>2, <2>4, <3>2
  <2> QED BY <2>5, <2>6
<1> HIDE DEF S
<1>5. Nat \subseteq S
  BY <1>3, <1>4, Climb
<1>6. Same(MaxDepth)
  BY <1>0, <1>5 DEF S
<1>7. ResolvePath(a, <<>>) = ResolvePath(b, <<>>)
  <2>1. <<>> \in Seq(Name) /\ Len(<<>>) + MaxDepth = MaxDepth
    BY <1>0, EmptySeq
  <2> QED BY <1>6, <2>1
<1> QED BY <1>7, ResolveRoot

\* A put that goes through, on trees and on the map.
LEMMA PutGood == ASSUME NEW root, Good(root), NEW s, NEW v \in Value, Clear(root, s, File(v))
   PROVE /\ Good(Walk(root, s, File(v))) /\ IsTree(Walk(root, s, File(v)))
         /\ StoreIn(Walk(root, s, File(v))) = Store!PutFile(StoreIn(root), s, v)
         /\ Store!CanPut(StoreIn(root), s)
BY WalkResolves, StorePut, CanPutClear DEF Good, Clear

\* The map can, so modifyTree does not throw.
LEMMA PutClear == ASSUME NEW root, Good(root), NEW s \in Path, NEW v \in Value, Store!CanPut(StoreIn(root), s)
   PROVE Clear(root, s, File(v))
BY CanPutClear DEF Clear, Files

\* The parts of the map after a put.
LEMMA PutFiles == ASSUME NEW root, Good(root), NEW s \in Path, NEW v \in Value
   PROVE LET new == Store!PutFile(StoreIn(root), s, v) IN
         /\ new.files = [StoreIn(root).files EXCEPT ![s] = v]
         /\ DOMAIN StoreIn(root).files = Path
         /\ new.folders = StoreIn(root).folders \cup Store!Above(s)
         /\ new = [files |-> new.files, folders |-> new.folders]
BY GoodNode, StoreParts DEF Store!PutFile

\* Two puts at paths of which neither begins with the other make the same tree in
\* either order, whatever folders both of them create: neither put of lib/mycelium.js
\* makes the other throw.
THEOREM PutsCommute ==
   ASSUME NEW root, Good(root), NEW s, NEW t, NEW v \in Value, NEW w \in Value,
          Clear(root, s, File(v)), Clear(root, t, File(w)), ~ Begins(s, t), ~ Begins(t, s)
   PROVE  /\ Clear(Walk(root, s, File(v)), t, File(w))
          /\ Clear(Walk(root, t, File(w)), s, File(v))
          /\ Walk(Walk(root, s, File(v)), t, File(w)) = Walk(Walk(root, t, File(w)), s, File(v))
<1> DEFINE a == Walk(root, s, File(v))
           b == Walk(root, t, File(w))
           store == StoreIn(root)
<1>1. s \in Path /\ t \in Path /\ s \in Seq(Name) /\ t \in Seq(Name)
  BY PathSeq DEF Clear
<1>2. /\ Good(a) /\ IsTree(a) /\ StoreIn(a) = Store!PutFile(store, s, v) /\ Store!CanPut(store, s)
      /\ Good(b) /\ IsTree(b) /\ StoreIn(b) = Store!PutFile(store, t, w) /\ Store!CanPut(store, t)
  BY PutGood
<1>3. s # t /\ s \notin Store!Above(t) /\ t \notin Store!Above(s)
  <2>1. Begins(s, s)
    BY <1>1, LenProperties DEF Begins
  <2> QED BY <1>1, <2>1, AboveBegins
<1>4. Store!Above(s) \subseteq Path /\ Store!Above(t) \subseteq Path
  BY <1>1, AboveBegins
<1> HIDE DEF a, b, store
<1>5. /\ StoreIn(a).files = [store.files EXCEPT ![s] = v] /\ DOMAIN store.files = Path
      /\ StoreIn(a).folders = store.folders \cup Store!Above(s)
      /\ StoreIn(b).files = [store.files EXCEPT ![t] = w]
      /\ StoreIn(b).folders = store.folders \cup Store!Above(t)
  BY <1>1, <1>2, PutFiles DEF store
<1>6. Store!CanPut(StoreIn(a), t) /\ Store!CanPut(StoreIn(b), s)
  <2>1. /\ t \notin store.folders /\ s \notin store.folders
        /\ \A q \in Store!Above(t) : store.files[q] = Missing
        /\ \A q \in Store!Above(s) : store.files[q] = Missing
    BY <1>2 DEF Store!CanPut
  <2>2. \A q \in Store!Above(t) : StoreIn(a).files[q] = store.files[q]
    BY <1>3, <1>4, <1>5
  <2>3. \A q \in Store!Above(s) : StoreIn(b).files[q] = store.files[q]
    BY <1>3, <1>4, <1>5
  <2> QED BY <1>3, <1>5, <2>1, <2>2, <2>3 DEF Store!CanPut
<1> DEFINE c == Walk(a, t, File(w))
           d == Walk(b, s, File(v))
<1>7. Clear(a, t, File(w)) /\ Clear(b, s, File(v))
  BY <1>1, <1>2, <1>6, PutClear
<1>8. /\ Good(c) /\ IsTree(c) /\ StoreIn(c) = Store!PutFile(StoreIn(a), t, w)
      /\ Good(d) /\ IsTree(d) /\ StoreIn(d) = Store!PutFile(StoreIn(b), s, v)
  BY <1>2, <1>7, PutGood
<1> HIDE DEF c, d
<1>9. /\ StoreIn(c).files = [StoreIn(a).files EXCEPT ![t] = w]
      /\ StoreIn(c).folders = StoreIn(a).folders \cup Store!Above(t)
      /\ StoreIn(d).files = [StoreIn(b).files EXCEPT ![s] = v]
      /\ StoreIn(d).folders = StoreIn(b).folders \cup Store!Above(s)
      /\ StoreIn(c) = [files |-> StoreIn(c).files, folders |-> StoreIn(c).folders]
      /\ StoreIn(d) = [files |-> StoreIn(d).files, folders |-> StoreIn(d).folders]
  BY <1>1, <1>2, <1>8, PutFiles
<1>10. StoreIn(c).files = StoreIn(d).files
  BY <1>1, <1>3, <1>5, <1>9
<1>11. StoreIn(c).folders = StoreIn(d).folders
  BY <1>5, <1>9
<1>12. c = d
  BY <1>8, <1>9, <1>10, <1>11, TreesDetermined
<1> QED BY <1>7, <1>12 DEF a, b, c, d

\* A put where a file was just put makes the tree of the last put alone.
THEOREM PutAgain ==
   ASSUME NEW root, Good(root), NEW s, NEW v \in Value, NEW w \in Value, Clear(root, s, File(v))
   PROVE  /\ Clear(Walk(root, s, File(v)), s, File(w))
          /\ Walk(Walk(root, s, File(v)), s, File(w)) = Walk(root, s, File(w))
<1> DEFINE a == Walk(root, s, File(v))
           b == Walk(root, s, File(w))
           store == StoreIn(root)
<1>1. s \in Path /\ s \in Seq(Name)
  BY PathSeq DEF Clear
<1>2. Good(a) /\ IsTree(a) /\ StoreIn(a) = Store!PutFile(store, s, v) /\ Store!CanPut(store, s)
  BY PutGood
<1>3. Good(b) /\ IsTree(b) /\ StoreIn(b) = Store!PutFile(store, s, w)
  BY <1>1, <1>2, PutGood, PutClear
<1>4. s \notin Store!Above(s) /\ Store!Above(s) \subseteq Path
  BY <1>1, AboveBegins
<1> HIDE DEF a, b, store
<1>5. /\ StoreIn(a).files = [store.files EXCEPT ![s] = v] /\ DOMAIN store.files = Path
      /\ StoreIn(a).folders = store.folders \cup Store!Above(s)
      /\ StoreIn(b).files = [store.files EXCEPT ![s] = w]
      /\ StoreIn(b).folders = store.folders \cup Store!Above(s)
      /\ StoreIn(b) = [files |-> StoreIn(b).files, folders |-> StoreIn(b).folders]
  BY <1>1, <1>2, <1>3, PutFiles DEF store
<1>6. Store!CanPut(StoreIn(a), s)
  <2>1. s \notin store.folders /\ \A q \in Store!Above(s) : store.files[q] = Missing
    BY <1>2 DEF Store!CanPut
  <2>2. \A q \in Store!Above(s) : StoreIn(a).files[q] = store.files[q]
    BY <1>4, <1>5
  <2> QED BY <1>4, <1>5, <2>1, <2>2 DEF Store!CanPut
<1> DEFINE c == Walk(a, s, File(w))
<1>7. Clear(a, s, File(w)) /\ Good(c) /\ IsTree(c) /\ StoreIn(c) = Store!PutFile(StoreIn(a), s, w)
  BY <1>1, <1>2, <1>6, PutGood, PutClear
<1> HIDE DEF c
<1>8. /\ StoreIn(c).files = [StoreIn(a).files EXCEPT ![s] = w]
      /\ StoreIn(c).folders = StoreIn(a).folders \cup Store!Above(s)
      /\ StoreIn(c) = [files |-> StoreIn(c).files, folders |-> StoreIn(c).folders]
  BY <1>1, <1>2, <1>7, PutFiles
<1>9. StoreIn(c).files = StoreIn(b).files /\ StoreIn(c).folders = StoreIn(b).folders
  BY <1>1, <1>5, <1>8
<1>10. c = b
  BY <1>3, <1>5, <1>7, <1>8, <1>9, TreesDetermined
<1> QED BY <1>7, <1>10 DEF a, b, c

\* Removing a file that was just put into a folder that existed makes the tree there
\* was; where the put created folders the remove leaves them, as the code does.
THEOREM PutUndone ==
   ASSUME NEW root, Good(root), IsTree(root), NEW s, NEW v \in Value, Clear(root, s, File(v)),
          ResolvePath(root, s) = Missing,
          \A k \in 1..(Len(s) - 1) : IsTree(ResolvePath(root, SubSeq(s, 1, k)))
   PROVE  /\ Clear(Walk(root, s, File(v)), s, Missing)
          /\ Walk(Walk(root, s, File(v)), s, Missing) = root
<1> DEFINE a == Walk(root, s, File(v))
           store == StoreIn(root)
<1>1. s \in Path /\ s \in Seq(Name) /\ root \in Node(MaxDepth)
  BY PathSeq, GoodNode DEF Clear
<1>2. Good(a) /\ IsTree(a) /\ StoreIn(a) = Store!PutFile(store, s, v)
  BY PutGood
<1>3. ResolvePath(a, s) # Missing
  BY WalkResolves, FileObject
<1> HIDE DEF a
<1>4. Clear(a, s, Missing)
  BY <1>1, <1>2, <1>3, CanRemoveClear DEF Clear
<1> DEFINE c == Walk(a, s, Missing)
<1>5. Good(c) /\ IsTree(c) /\ StoreIn(c) = Store!RemoveEntry(StoreIn(a), s)
  BY <1>2, <1>4, WalkResolves, StoreRemove DEF Good
<1>6. /\ store.files = [p \in Path |-> FileAt(root, p)] /\ store.folders = Folders(root)
      /\ store = [files |-> store.files, folders |-> store.folders]
  BY <1>1, StoreIs
<1> HIDE DEF c
<1>7. /\ StoreIn(a).files = [store.files EXCEPT ![s] = v] /\ DOMAIN store.files = Path
      /\ StoreIn(a).folders = store.folders \cup Store!Above(s)
  BY <1>1, <1>2, PutFiles
<1>8. Store!Above(s) \subseteq Folders(root) /\ s \notin Store!Above(s)
  <2>1. Store!Above(s) \subseteq Path /\ s \notin Store!Above(s)
    BY <1>1, AboveBegins
  <2>2. \A q \in Store!Above(s) : IsTree(ResolvePath(root, q))
    BY DEF Store!Above
  <2> QED BY <2>1, <2>2 DEF Folders
<1>9. ASSUME NEW q \in Path, q \in Store!Below(s)
      PROVE FileAt(root, q) = Missing /\ q \notin Folders(root)
  <2>1. q \in Seq(Name) /\ Begins(s, q)
    BY <1>1, <1>9, BelowBegins, PathSeq
  <2>2. ResolvePath(root, q) = Missing
    <3>1. CASE q = s
      BY <3>1
    <3>2. CASE q # s
      <4>1. ~ IsTree(ResolvePath(root, s))
        BY DEF IsTree
      <4> QED BY <1>1, <2>1, <3>2, <4>1, ResolveUp
    <3> QED BY <3>1, <3>2
  <2> QED BY <2>2 DEF FileAt, Folders, IsTree
<1>10. StoreIn(c) = [files |-> [q \in Path |-> IF q \in Store!Below(s) THEN Missing
           ELSE StoreIn(a).files[q]],
                     folders |-> StoreIn(a).folders \ Store!Below(s)]
  BY <1>5 DEF Store!RemoveEntry
<1>11. [q \in Path |-> IF q \in Store!Below(s) THEN Missing ELSE StoreIn(a).files[q]] = store.files
  <2>1. s \in Store!Below(s)
    <3>1. Begins(s, s)
      BY <1>1, LenProperties DEF Begins
    <3> QED BY <1>1, <3>1, BelowBegins
  <2> HIDE DEF store
  <2>2. \A q \in Path : q \notin Store!Below(s) => StoreIn(a).files[q] = store.files[q]
    BY <1>7, <2>1
  <2>3. \A q \in Path : q \in Store!Below(s) => store.files[q] = Missing
    BY <1>6, <1>9
  <2> QED BY <1>6, <2>2, <2>3
<1>12. StoreIn(a).folders \ Store!Below(s) = store.folders
  <2>1. store.folders \subseteq Path
    BY <1>6 DEF Folders
  <2> HIDE DEF store
  <2> QED BY <1>6, <1>7, <1>8, <1>9, <2>1
<1>13. StoreIn(c) = StoreIn(root)
  BY <1>6, <1>10, <1>11, <1>12
<1>14. c = root
  BY <1>5, <1>13, TreesDetermined
<1> QED BY <1>4, <1>14 DEF a, c
===============================================================================
