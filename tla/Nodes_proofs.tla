---------------------------- MODULE Nodes_proofs ----------------------------
(***************************************************************************)
(* The programs that only exchange messages: what a client of phase-3      *)
(* says of its call, what a member of phase-4 receives, and what workers   *)
(* and clients of phase-5 find on the drive and behind their channels, for *)
(* any members of each and any number of connections, lines, starts and    *)
(* calls; and that the same holds where each behaviour is that of one.     *)
(***************************************************************************)
EXTENDS MCNodes, FiniteSetTheorems, TLAPS

-----------------------------------------------------------------------------
(***************************************************************************)
(* Routing.                                                                *)
(***************************************************************************)
-----------------------------------------------------------------------------
(***************************************************************************)
(* Types.                                                                  *)
(***************************************************************************)
\* A call that changes its state is a call.
LEMMA SetCallType ==
    ASSUME RoutingTypeOK, NEW c \in Client, NEW k \in DOMAIN calls[c],
           NEW st \in {"sent", "served", "cut", "done"}
    PROVE  SetCall(c, k, st) \in [Client -> Seq(Call)]
<1>1. calls[c] \in Seq(Call)
  BY DEF RoutingTypeOK
<1>2. [calls[c][k] EXCEPT !.st = st] \in Call
  <2>1. calls[c][k] \in Call
    BY <1>1
  <2> QED
    BY <2>1 DEF Call
<1>3. [calls[c] EXCEPT ![k].st = st] \in Seq(Call)
  BY <1>1, <1>2
<1> QED
  BY <1>3 DEF SetCall, RoutingTypeOK

\* Calls that are cut are calls.
LEMMA CutType ==
    ASSUME RoutingTypeOK, NEW gone, Cut(gone)
    PROVE  calls' \in [Client -> Seq(Call)]
<1> DEFINE cutAt(c, k) == IF <<c, calls[c][k].to>> \in gone /\ calls[c][k].st \in {"sent", "served"}
                          THEN [calls[c][k] EXCEPT !.st = "cut"] ELSE calls[c][k]
<1>1. ASSUME NEW c \in Client
      PROVE  [k \in DOMAIN calls[c] |-> cutAt(c, k)] \in Seq(Call)
  <2>1. calls[c] \in Seq(Call)
    BY DEF RoutingTypeOK
  <2>2. ASSUME NEW k \in DOMAIN calls[c] PROVE cutAt(c, k) \in Call
    <3>1. calls[c][k] \in Call
      BY <2>1
    <3> QED
      BY <3>1 DEF Call
  <2>3. DOMAIN calls[c] = 1..Len(calls[c]) /\ Len(calls[c]) \in Nat
    BY <2>1
  <2> HIDE DEF cutAt
  <2> QED
    BY <2>2, <2>3
<1>2. calls' = [c \in Client |-> [k \in DOMAIN calls[c] |-> cutAt(c, k)]]
  BY DEF Cut
<1> QED
  BY <1>1, <1>2

\* Every action keeps the types.
LEMMA RoutingTypeStep == RoutingTypeOK /\ [RoutingNext]_routingVars => RoutingTypeOK'
<1> SUFFICES ASSUME RoutingTypeOK, [RoutingNext]_routingVars PROVE RoutingTypeOK'
  OBVIOUS
<1>1. ASSUME NEW p \in Server \cup Client, RoutingStart(p) PROVE RoutingTypeOK'
  BY <1>1 DEF RoutingStart, RoutingTypeOK
<1>2. ASSUME NEW p \in Server \cup Client, RoutingStop(p) PROVE RoutingTypeOK'
  <2>1. calls' \in [Client -> Seq(Call)]
    BY <1>2, CutType DEF RoutingStop
  <2> QED
    BY <1>2, <2>1 DEF RoutingStop, RoutingTypeOK
<1>3. ASSUME NEW c \in Client, NEW s \in Server, Connect(c, s) PROVE RoutingTypeOK'
  <2>1. conns' \in [Client -> 0..MaxConns]
    BY <1>3, RoutingAssumption DEF Connect, RoutingTypeOK
  <2>2. ASSUME NEW n \in Nat PROVE Append(calls[c], CallTo(s, n)) \in Seq(Call)
    <3>1. CallTo(s, n) \in Call
      BY DEF Call, CallTo
    <3>2. calls[c] \in Seq(Call)
      BY DEF RoutingTypeOK
    <3> QED
      BY <3>1, <3>2
  <2>3. conns[c] \in Nat
    BY DEF RoutingTypeOK
  <2>4. calls' \in [Client -> Seq(Call)]
    BY <1>3, <2>2, <2>3 DEF Connect, Place, RoutingTypeOK
  <2> QED
    BY <1>3, <2>1, <2>4 DEF Connect, Place, RoutingTypeOK
<1>4. ASSUME NEW c \in Client, NEW s \in Server, Lose(c, s) PROVE RoutingTypeOK'
  <2>1. calls' \in [Client -> Seq(Call)]
    BY <1>4, CutType DEF Lose
  <2> QED
    BY <1>4, <2>1 DEF Lose, RoutingTypeOK
<1>5. ASSUME NEW c \in Client, NEW k \in DOMAIN calls[c], Serve(c, k) PROVE RoutingTypeOK'
  BY <1>5, SetCallType DEF Serve, RoutingTypeOK
<1>6. ASSUME NEW c \in Client, NEW k \in DOMAIN calls[c], Finish(c, k) PROVE RoutingTypeOK'
  BY <1>6, SetCallType DEF Finish, RoutingTypeOK, Outcome
<1>7. ASSUME NEW c \in Client, NoPeer(c) PROVE RoutingTypeOK'
  BY <1>7 DEF NoPeer, RoutingTypeOK, Outcome
<1>8. CASE UNCHANGED routingVars
  BY <1>8 DEF routingVars, RoutingTypeOK
<1> QED
  BY <1>1, <1>2, <1>3, <1>4, <1>5, <1>6, <1>7, <1>8 DEF RoutingNext

\* The variables keep their shapes, and a client never makes more than MaxConns
\* connections.
THEOREM RoutingTypeCorrect == RoutingSpec => []RoutingTypeOK
<1>1. RoutingInit => RoutingTypeOK
  BY RoutingAssumption DEF RoutingInit, RoutingTypeOK
<1> QED
  BY <1>1, RoutingTypeStep, PTL DEF RoutingSpec

-----------------------------------------------------------------------------
(***************************************************************************)
(* The fallback.                                                           *)
(***************************************************************************)
\* While the timer is set and no call has been called back, nothing was said.
Silent == \A c \in Routed : timer[c] /\ ~ answered[c] => said[c] = <<>>

Spoken == FallbackComesFirst /\ Silent

\* Calls that end are the last thing said.
LEMMA FinishSpeaks ==
    ASSUME RoutingTypeOK, Spoken, NEW c \in Client, NEW k \in DOMAIN calls[c], Finish(c, k)
    PROVE  Spoken'
<1>1. PICK o \in {"response", "error"} :
         /\ said' = [said EXCEPT ![c] = Append(@, o)]
         /\ answered' = [answered EXCEPT ![c] = TRUE] /\ timer' = timer
  BY DEF Finish
<1>2. ASSUME NEW d \in Routed, NEW j \in DOMAIN said'[d], said'[d][j] = "no-peer"
      PROVE  j = 1
  <2>1. d \in Client /\ said[d] \in Seq(Outcome)
    BY RoutingAssumption DEF RoutingTypeOK
  <2>2. CASE d # c
    BY <1>1, <1>2, <2>1, <2>2 DEF Spoken, FallbackComesFirst, RoutingTypeOK
  <2>3. CASE d = c
    <3>1. said'[d] = Append(said[d], o)
      BY <1>1, <2>1, <2>3 DEF RoutingTypeOK
    <3>2. j \in DOMAIN said[d] /\ said[d][j] = "no-peer"
      BY <1>2, <2>1, <3>1
    <3> QED
      BY <3>2 DEF Spoken, FallbackComesFirst
  <2> QED
    BY <2>2, <2>3
<1>3. Silent'
  BY <1>1, RoutingAssumption DEF Spoken, Silent, RoutingTypeOK
<1> QED
  BY <1>2, <1>3 DEF Spoken, FallbackComesFirst

\* The timer finds that nothing was said, or says nothing.
LEMMA NoPeerSpeaks ==
    ASSUME RoutingTypeOK, Spoken, NEW c \in Client, NoPeer(c)
    PROVE  Spoken'
<1>1. /\ timer[c]
      /\ timer' = [timer EXCEPT ![c] = FALSE] /\ answered' = answered
      /\ said' = [said EXCEPT ![c] = IF answered[c] THEN @ ELSE Append(@, "no-peer")]
  BY DEF NoPeer
<1>2. ASSUME NEW d \in Routed, NEW j \in DOMAIN said'[d], said'[d][j] = "no-peer"
      PROVE  j = 1
  <2>1. d \in Client /\ said[d] \in Seq(Outcome)
    BY RoutingAssumption DEF RoutingTypeOK
  <2>2. CASE d # c \/ answered[c]
    BY <1>1, <1>2, <2>1, <2>2 DEF Spoken, FallbackComesFirst, RoutingTypeOK
  <2>3. CASE d = c /\ ~ answered[c]
    <3>1. said[d] = <<>>
      BY <1>1, <2>3 DEF Spoken, Silent
    <3>2. said'[d] = Append(<<>>, "no-peer")
      BY <1>1, <2>1, <2>3, <3>1 DEF RoutingTypeOK
    <3> QED
      BY <1>2, <3>2
  <2> QED
    BY <2>2, <2>3
<1>3. Silent'
  BY <1>1, RoutingAssumption DEF Spoken, Silent, RoutingTypeOK
<1> QED
  BY <1>2, <1>3 DEF Spoken, FallbackComesFirst

\* Nobody else speaks.
LEMMA SpokenStep == RoutingTypeOK /\ Spoken /\ [RoutingNext]_routingVars => Spoken'
<1> SUFFICES ASSUME RoutingTypeOK, Spoken, [RoutingNext]_routingVars PROVE Spoken'
  OBVIOUS
<1>1. ASSUME UNCHANGED <<said, timer, answered>> PROVE Spoken'
  BY <1>1 DEF Spoken, FallbackComesFirst, Silent
<1>2. ASSUME NEW p \in Server \cup Client, RoutingStart(p) PROVE Spoken'
  BY <1>1, <1>2 DEF RoutingStart
<1>3. ASSUME NEW p \in Server \cup Client, RoutingStop(p) PROVE Spoken'
  BY <1>1, <1>3 DEF RoutingStop
<1>4. ASSUME NEW c \in Client, NEW s \in Server, Connect(c, s) PROVE Spoken'
  BY <1>1, <1>4 DEF Connect, Place
<1>5. ASSUME NEW c \in Client, NEW s \in Server, Lose(c, s) PROVE Spoken'
  BY <1>1, <1>5 DEF Lose
<1>6. ASSUME NEW c \in Client, NEW k \in DOMAIN calls[c], Serve(c, k) PROVE Spoken'
  BY <1>1, <1>6 DEF Serve
<1>7. CASE UNCHANGED routingVars
  BY <1>1, <1>7 DEF routingVars
<1> QED
  BY <1>2, <1>3, <1>4, <1>5, <1>6, <1>7, FinishSpeaks, NoPeerSpeaks DEF RoutingNext

\* A client says 'no-peer' at most once, and never after the outcome of a call,
\* however many connections and calls there are and however they end.
THEOREM FallbackFirst == RoutingSpec => []FallbackComesFirst
<1>1. RoutingInit => Spoken
  BY RoutingAssumption DEF RoutingInit, Spoken, FallbackComesFirst, Silent
<1>2. Spoken => FallbackComesFirst
  BY DEF Spoken
<1> QED
  BY <1>1, <1>2, SpokenStep, RoutingTypeCorrect, PTL DEF RoutingSpec

-----------------------------------------------------------------------------
(***************************************************************************)
(* The mesh.                                                               *)
(***************************************************************************)
\* Even and odd.
LEMMA Halves == \A i \in Nat : \E j \in Nat : i = 2 * j \/ i = 2 * j + 1
<1> SUFFICES ASSUME NEW i \in Nat PROVE \E j \in Nat : i = 2 * j \/ i = 2 * j + 1
  OBVIOUS
<1> DEFINE j == i \div 2
<1>1. j \in Nat /\ (i = 2 * j \/ i = 2 * j + 1)
  OBVIOUS
<1> QED BY <1>1

\* Lines, with perhaps the text of one more: m newlines, one in every two characters.
Aligned(chars, m) ==
    /\ Len(chars) \in {2 * m, 2 * m + 1}
    /\ \A j \in 1..m : chars[2 * j - 1].kind = "text" /\ chars[2 * j].kind = "newline"
    /\ Len(chars) = 2 * m + 1 => chars[2 * m + 1].kind = "text"

LEMMA NewlinesAt ==
    ASSUME NEW chars \in Seq(Char), NEW m \in Nat, Aligned(chars, m)
    PROVE  {k \in DOMAIN chars : chars[k].kind = "newline"} = {2 * j : j \in 1..m}
<1>1. ASSUME NEW k \in DOMAIN chars, chars[k].kind = "newline"
      PROVE  \E j \in 1..m : k = 2 * j
  <2>1. k \in 1..Len(chars) /\ k \in Nat
    OBVIOUS
  <2>2. PICK j \in Nat : k = 2 * j \/ k = 2 * j + 1
    BY <2>1, Halves
  <2>3. CASE k = 2 * j
    BY <2>1, <2>3 DEF Aligned
  <2>4. CASE k = 2 * j + 1
    <3>1. CASE j < m
      <4>1. j + 1 \in 1..m /\ k = 2 * (j + 1) - 1
        BY <2>4, <3>1
      <4> QED BY <1>1, <4>1 DEF Aligned
    <3>2. CASE j >= m
      <4>1. j = m /\ k = 2 * m + 1 /\ Len(chars) = 2 * m + 1
        BY <2>1, <2>4, <3>2 DEF Aligned
      <4> QED BY <1>1, <4>1 DEF Aligned
    <3> QED BY <3>1, <3>2
  <2> QED BY <2>2, <2>3, <2>4
<1>2. ASSUME NEW j \in 1..m
      PROVE  2 * j \in DOMAIN chars /\ chars[2 * j].kind = "newline"
  BY DEF Aligned
<1> QED BY <1>1, <1>2

\* What stays in the buffer.
LEMMA RestFacts ==
    ASSUME NEW chars \in Seq(Char), NEW m \in Nat, Aligned(chars, m)
    PROVE  Rest(chars) = SubSeq(chars, 2 * m + 1, Len(chars))
<1> DEFINE cut == {k \in DOMAIN chars : chars[k].kind = "newline"}
           last == CHOOSE k \in cut \cup {0} : \A j \in cut : j <= k
<1>1. cut = {2 * j : j \in 1..m}
  BY NewlinesAt
<1> HIDE DEF cut
<1>2. 2 * m \in cut \cup {0} /\ \A j \in cut : j <= 2 * m
  BY <1>1
<1>3. ASSUME NEW k \in cut \cup {0}, \A j \in cut : j <= k
      PROVE  k = 2 * m
  <2>1. k = 0 \/ \E j \in 1..m : k = 2 * j
    BY <1>1
  <2>2. 2 * m <= k
    <3>1. CASE m = 0
      BY <2>1, <3>1
    <3>2. CASE m # 0
      BY <1>1, <1>3, <3>2
    <3> QED BY <3>1, <3>2
  <2> QED BY <2>1, <2>2
<1>4. last = 2 * m
  BY <1>2, <1>3
<1> QED BY <1>4 DEF Rest, cut

\* The numbers below 2 * i that are even.
LEMMA EvenCount ==
    ASSUME NEW m \in Nat, NEW i \in 0..m
    PROVE  /\ IsFiniteSet({2 * j : j \in 1..i})
           /\ Cardinality({2 * j : j \in 1..i}) = i
<1> DEFINE T == {2 * j : j \in 1..i}
           f == [j \in 1..i |-> 2 * j]
<1>1. IsFiniteSet(1..i) /\ Cardinality(1..i) = i
  BY FS_Interval
<1>2. f \in Bijection(1..i, T)
  <2>1. f \in [1..i -> T] /\ \A a, b \in 1..i : f[a] = f[b] => a = b
    OBVIOUS
  <2>2. \A t \in T : \E a \in 1..i : f[a] = t
    OBVIOUS
  <2> HIDE DEF f, T
  <2> QED BY <2>1, <2>2 DEF Bijection, Injection, Surjection, IsInjective
<1>3. ExistsBijection(1..i, T)
  BY <1>2 DEF ExistsBijection
<1> QED BY <1>1, <1>3, FS_Bijection

LEMMA ParsedFacts ==
    ASSUME NEW chars \in Seq(Char), NEW m \in Nat, Aligned(chars, m)
    PROVE  Parsed(chars) = [i \in 1..m |-> chars[2 * i - 1].seq]
<1> DEFINE whole == {k \in DOMAIN chars :
                       /\ chars[k].kind = "newline" /\ k > 1 /\ chars[k - 1].kind = "text"
                       /\ k = 2 \/ chars[k - 2].kind = "newline"}
           nth(i) == CHOOSE k \in whole : Cardinality({j \in whole : j <= k}) = i
<1>1. whole = {2 * j : j \in 1..m}
  <2>1. {k \in DOMAIN chars : chars[k].kind = "newline"} = {2 * j : j \in 1..m}
    BY NewlinesAt
  <2>2. ASSUME NEW j \in 1..m
        PROVE  /\ 2 * j > 1 /\ chars[2 * j - 1].kind = "text"
               /\ 2 * j = 2 \/ chars[2 * j - 2].kind = "newline"
    <3>1. chars[2 * j - 1].kind = "text"
      BY DEF Aligned
    <3>2. CASE j = 1
      BY <3>1, <3>2
    <3>3. CASE j # 1
      <4>1. j - 1 \in 1..m /\ 2 * (j - 1) = 2 * j - 2
        BY <3>3
      <4>2. chars[2 * (j - 1)].kind = "newline"
        BY <4>1 DEF Aligned
      <4> QED BY <3>1, <4>1, <4>2
    <3> QED BY <3>2, <3>3
  <2> QED BY <2>1, <2>2
<1> HIDE DEF whole
<1>2. Cardinality(whole) = m
  BY <1>1, EvenCount, m \in 0..m
<1>3. ASSUME NEW i \in 1..m
      PROVE  {j \in whole : j <= 2 * i} = {2 * j : j \in 1..i}
  BY <1>1
<1>4. ASSUME NEW i \in 1..m
      PROVE  Cardinality({j \in whole : j <= 2 * i}) = i
  BY <1>3, EvenCount, i \in Nat, i \in 0..i
<1>5. ASSUME NEW i \in 1..m
      PROVE  nth(i) = 2 * i
  <2>1. 2 * i \in whole
    BY <1>1
  <2>2. ASSUME NEW k \in whole, Cardinality({j \in whole : j <= k}) = i
        PROVE  k = 2 * i
    <3>1. PICK h \in 1..m : k = 2 * h
      BY <1>1
    <3>2. h = i
      BY <1>4, <2>2, <3>1
    <3> QED BY <3>1, <3>2
  <2> QED BY <1>4, <2>1, <2>2
<1> HIDE DEF nth
<1>6. [i \in 1..Cardinality(whole) |-> chars[nth(i) - 1].seq] = [i \in 1..m |-> chars[2 * i - 1].seq]
  BY <1>2, <1>5
<1> QED BY <1>6 DEF Parsed, whole, nth

\* all is chars and then left.
Splits(all, chars, left) ==
    /\ Len(all) = Len(chars) + Len(left)
    /\ \A i \in 1..Len(chars) : all[i] = chars[i]
    /\ \A i \in 1..Len(left) : all[Len(chars) + i] = left[i]

\* One sequence after another.
LEMMA Concat ==
    ASSUME NEW S, NEW a \in Seq(S), NEW b \in Seq(S)
    PROVE  a \o b \in Seq(S) /\ Splits(a \o b, a, b)
BY DEF Splits

\* t is what follows the first i of a.
Follows(t, a, i) ==
    /\ Len(t) = Len(a) - i
    /\ \A j \in 1..(Len(a) - i) : t[j] = a[i + j]

LEMMA Tails ==
    ASSUME NEW S, NEW a \in Seq(S), NEW i \in Nat, i <= Len(a)
    PROVE  /\ SubSeq(a, i + 1, Len(a)) \in Seq(S)
           /\ Follows(SubSeq(a, i + 1, Len(a)), a, i)
BY DEF Follows

\* What a chunk of k characters brings, and what it leaves.
LEMMA ChunkFacts ==
    ASSUME NEW b \in Seq(Char), NEW w \in Seq(Char), NEW k \in 1..Len(w),
           NEW chars, chars = b \o SubSeq(w, 1, k), NEW all, all = b \o w,
           NEW left, left = SubSeq(w, k + 1, Len(w))
    PROVE  /\ chars \in Seq(Char) /\ all \in Seq(Char) /\ left \in Seq(Char)
           /\ Splits(all, chars, left)
<1>1. SubSeq(w, 1, k) \in Seq(Char) /\ Len(SubSeq(w, 1, k)) = k
      /\ \A i \in 1..k : SubSeq(w, 1, k)[i] = w[i]
  OBVIOUS
<1>2. SubSeq(w, k + 1, Len(w)) \in Seq(Char) /\ Len(SubSeq(w, k + 1, Len(w))) = Len(w) - k
      /\ \A i \in 1..(Len(w) - k) : SubSeq(w, k + 1, Len(w))[i] = w[k + i]
  OBVIOUS
<1>3. \A i \in 1..Len(b) : chars[i] = b[i] /\ all[i] = b[i]
  BY <1>1
<1>4. \A i \in 1..k : chars[Len(b) + i] = w[i]
  BY <1>1
<1>5. \A i \in 1..Len(w) : all[Len(b) + i] = w[i]
  OBVIOUS
<1>6. chars \in Seq(Char) /\ Len(chars) = Len(b) + k
  BY <1>1
<1>7. all \in Seq(Char) /\ Len(all) = Len(b) + Len(w)
  OBVIOUS
<1>8. ASSUME NEW i \in 1..Len(chars) PROVE chars[i] = all[i]
  <2>1. CASE i <= Len(b)
    BY <1>3, <1>6, <2>1
  <2>2. CASE i > Len(b)
    <3>1. i - Len(b) \in 1..k /\ Len(b) + (i - Len(b)) = i /\ i - Len(b) \in 1..Len(w)
      BY <1>6, <2>2
    <3>2. chars[Len(b) + (i - Len(b))] = w[i - Len(b)]
      BY <1>4, <3>1
    <3>3. all[Len(b) + (i - Len(b))] = w[i - Len(b)]
      BY <1>5, <3>1
    <3> QED BY <3>1, <3>2, <3>3
  <2> QED BY <2>1, <2>2
<1>9. ASSUME NEW i \in 1..Len(left)
      PROVE  left[i] = all[Len(chars) + i]
  <2>1. i \in 1..(Len(w) - k) /\ k + i \in 1..Len(w) /\ Len(b) + (k + i) = Len(chars) + i
    BY <1>2, <1>6
  <2>2. all[Len(b) + (k + i)] = w[k + i]
    BY <1>5, <2>1
  <2>3. left[i] = w[k + i]
    BY <1>2, <2>1
  <2> QED BY <2>1, <2>2, <2>3
<1>10. Len(all) = Len(chars) + Len(left)
  <2> DEFINE B == Len(b)
             W == Len(w)
  <2>1. B \in Nat /\ W \in Nat /\ k \in 1..W
    OBVIOUS
  <2>2. Len(all) = B + W /\ Len(chars) = B + k /\ Len(left) = W - k
    BY <1>2, <1>6, <1>7
  <2> HIDE DEF B, W
  <2>3. B + W = (B + k) + (W - k)
    BY <2>1
  <2> QED BY <2>2, <2>3
<1>11. chars \in Seq(Char) /\ all \in Seq(Char) /\ left \in Seq(Char)
  BY <1>2, <1>6, <1>7
<1> QED BY <1>8, <1>9, <1>10, <1>11 DEF Splits

-----------------------------------------------------------------------------
(***************************************************************************)
(* Streams.                                                                *)
(***************************************************************************)
\* g is the beginning of s.
Begins(g, s) == Len(g) <= Len(s) /\ \A j \in 1..Len(g) : g[j] = s[j]

\* chars are the lines of s that follow g.
Carries(chars, g, s) ==
    /\ Len(chars) = 2 * (Len(s) - Len(g))
    /\ \A j \in 1..(Len(s) - Len(g)) :
          /\ chars[2 * j - 1] = Text(s[Len(g) + j])
          /\ chars[2 * j] = Newline(s[Len(g) + j])

\* Taking a chunk of what is under way keeps it so.
LEMMA ChunkCarries ==
    ASSUME NEW g \in Seq(Nat), NEW s \in Seq(Nat), Begins(g, s),
           NEW all \in Seq(Char), Carries(all, g, s),
           NEW chars \in Seq(Char), NEW left \in Seq(Char),
           Splits(all, chars, left)
    PROVE  /\ Rest(chars) \in Seq(Char)
           /\ g \o Parsed(chars) \in Seq(Nat)
           /\ Begins(g \o Parsed(chars), s)
           /\ Carries(Rest(chars) \o left, g \o Parsed(chars), s)
<1> DEFINE n == Len(s) - Len(g)
           G == Len(g)
           C == Len(chars)
           L == Len(left)
<1>1. n \in Nat /\ G \in Nat /\ C \in Nat /\ L \in Nat
  BY DEF Begins
<1>2. Len(s) = G + n
  BY DEF Begins
<1>3. Len(all) = 2 * n /\ \A j \in 1..n : all[2 * j - 1] = Text(s[G + j]) /\ all[2 * j] = Newline(s[G + j])
  BY DEF Carries
<1>4. Len(all) = C + L
  BY DEF Splits
<1>5. \A i \in 1..C : chars[i] = all[i]
  BY DEF Splits
<1>6. \A i \in 1..L : left[i] = all[C + i]
  BY DEF Splits
<1>7. Len(g) = G /\ Len(chars) = C /\ Len(left) = L
  OBVIOUS
<1> HIDE DEF n, G, C, L
<1>8. C + L = 2 * n
  BY <1>3, <1>4
<1>9. PICK m \in Nat : C = 2 * m \/ C = 2 * m + 1
  BY <1>1, Halves
<1>10. m <= n /\ n - m \in Nat /\ (C = 2 * m + 1 => m < n)
  BY <1>1, <1>8, <1>9
<1>11. Aligned(chars, m)
  <2>1. ASSUME NEW j \in 1..m
        PROVE  chars[2 * j - 1].kind = "text" /\ chars[2 * j].kind = "newline"
    <3>1. 2 * j - 1 \in 1..C /\ 2 * j \in 1..C /\ j \in 1..n
      BY <1>1, <1>9, <1>10
    <3>2. chars[2 * j - 1] = Text(s[G + j]) /\ chars[2 * j] = Newline(s[G + j])
      BY <1>3, <1>5, <3>1
    <3> QED BY <3>2 DEF Text, Newline
  <2>2. ASSUME C = 2 * m + 1
        PROVE  chars[2 * m + 1].kind = "text"
    <3>1. m + 1 \in 1..n /\ 2 * (m + 1) - 1 = 2 * m + 1 /\ 2 * m + 1 \in 1..C
      BY <1>1, <1>10, <2>2
    <3>2. all[2 * m + 1] = Text(s[G + (m + 1)])
      BY <1>3, <3>1
    <3> QED BY <1>5, <3>1, <3>2 DEF Text
  <2> QED BY <1>7, <1>9, <2>1, <2>2 DEF Aligned
<1>12. Rest(chars) = SubSeq(chars, 2 * m + 1, Len(chars))
  BY <1>11, RestFacts
<1>13. Parsed(chars) = [i \in 1..m |-> chars[2 * i - 1].seq]
  BY <1>11, ParsedFacts
<1>14. \A i \in 1..m : chars[2 * i - 1].seq = s[G + i]
  <2> TAKE i \in 1..m
  <2>1. 2 * i - 1 \in 1..C /\ i \in 1..n
    BY <1>1, <1>9, <1>10
  <2>2. chars[2 * i - 1] = Text(s[G + i])
    BY <1>3, <1>5, <2>1
  <2> QED BY <2>2 DEF Text
<1> DEFINE p == [i \in 1..m |-> s[G + i]]
           h == g \o p
<1>15. Parsed(chars) = p
  BY <1>13, <1>14
<1>16. p \in Seq(Nat) /\ Len(p) = m /\ \A i \in 1..m : p[i] = s[G + i]
  <2>1. ASSUME NEW i \in 1..m PROVE s[G + i] \in Nat
    <3>1. G + i \in 1..Len(s)
      BY <1>1, <1>2, <1>10
    <3> QED BY <3>1
  <2> QED BY <2>1
<1> HIDE DEF p
<1>17. h \in Seq(Nat) /\ Len(h) = G + m
       /\ (\A j \in 1..G : h[j] = g[j]) /\ \A i \in 1..m : h[G + i] = p[i]
  <2>1. h \in Seq(Nat) /\ Splits(h, g, p)
    BY <1>16, Concat
  <2> HIDE DEF h
  <2> QED BY <1>7, <1>16, <2>1 DEF Splits
<1> HIDE DEF h
<1>18. Begins(h, s)
  <2>1. Len(h) <= Len(s)
    BY <1>1, <1>2, <1>10, <1>17
  <2>2. ASSUME NEW j \in 1..(G + m) PROVE h[j] = s[j]
    <3>1. CASE j <= G
      <4>1. j \in 1..G /\ g[j] = s[j]
        BY <1>1, <1>7, <3>1 DEF Begins
      <4> QED BY <1>17, <4>1
    <3>2. CASE j > G
      <4>1. j - G \in 1..m /\ G + (j - G) = j
        BY <1>1, <3>2
      <4>2. h[G + (j - G)] = p[j - G] /\ p[j - G] = s[G + (j - G)]
        BY <1>16, <1>17, <4>1
      <4> QED BY <4>1, <4>2
    <3> QED BY <1>1, <3>1, <3>2
  <2> QED BY <1>17, <2>1, <2>2 DEF Begins
<1> DEFINE rest == SubSeq(chars, 2 * m + 1, Len(chars))
           R == C - 2 * m
<1>19. R \in Nat /\ C = 2 * m + R /\ R + L = 2 * (n - m)
  BY <1>1, <1>8, <1>9, <1>10
<1> HIDE DEF R
<1>20. /\ rest \in Seq(Char) /\ Len(rest) = R
       /\ \A i \in 1..R : rest[i] = chars[2 * m + i]
  <2>1. 2 * m \in Nat /\ 2 * m <= Len(chars)
    BY <1>1, <1>7, <1>19
  <2>2. rest \in Seq(Char) /\ Follows(rest, chars, 2 * m)
    BY <2>1, Tails
  <2>3. C - 2 * m = R
    BY DEF R
  <2> HIDE DEF rest
  <2> QED BY <1>7, <2>2, <2>3 DEF Follows
<1> HIDE DEF rest
<1>21. /\ rest \o left \in Seq(Char) /\ Len(rest \o left) = R + L
       /\ \A i \in 1..R : (rest \o left)[i] = rest[i]
       /\ \A i \in 1..L : (rest \o left)[R + i] = left[i]
  <2> DEFINE u == rest \o left
  <2>1. u \in Seq(Char) /\ Splits(u, rest, left)
    BY <1>20, Concat
  <2> HIDE DEF u
  <2>2. u \in Seq(Char) /\ Len(u) = R + L /\ (\A i \in 1..R : u[i] = rest[i])
        /\ \A i \in 1..L : u[R + i] = left[i]
    BY <1>7, <1>20, <2>1 DEF Splits
  <2> QED BY <2>2 DEF u
<1>22. \A i \in 1..(2 * (n - m)) : (rest \o left)[i] = all[2 * m + i]
  <2> TAKE i \in 1..(2 * (n - m))
  <2>1. CASE i <= R
    <3>1. i \in 1..R /\ 2 * m + i \in 1..C
      BY <1>1, <1>10, <1>19, <2>1
    <3> QED BY <1>5, <1>20, <1>21, <3>1
  <2>2. CASE i > R
    <3>1. i - R \in 1..L /\ C + (i - R) = 2 * m + i /\ R + (i - R) = i
      BY <1>1, <1>10, <1>19, <2>2
    <3>2. (rest \o left)[R + (i - R)] = left[i - R] /\ left[i - R] = all[C + (i - R)]
      BY <1>6, <1>21, <3>1
    <3> QED BY <3>1, <3>2
  <2>3. i <= R \/ i > R
    BY <1>10, <1>19
  <2> QED BY <2>1, <2>2, <2>3
<1>23. Carries(rest \o left, h, s)
  <2>1. Len(s) - Len(h) = n - m
    BY <1>1, <1>2, <1>10, <1>17
  <2>2. ASSUME NEW j \in 1..(n - m)
        PROVE  /\ (rest \o left)[2 * j - 1] = Text(s[(G + m) + j])
               /\ (rest \o left)[2 * j] = Newline(s[(G + m) + j])
    <3>1. /\ 2 * j - 1 \in 1..(2 * (n - m)) /\ 2 * j \in 1..(2 * (n - m))
          /\ m + j \in 1..n /\ 2 * m + (2 * j - 1) = 2 * (m + j) - 1 /\ 2 * m + 2 * j = 2 * (m + j)
          /\ (G + m) + j = G + (m + j)
      BY <1>1, <1>10
    <3> QED BY <1>3, <1>22, <3>1
  <2> QED BY <1>17, <1>19, <1>21, <2>1, <2>2 DEF Carries
<1> QED BY <1>12, <1>15, <1>17, <1>18, <1>20, <1>23 DEF rest, h

\* Writing one more line.
LEMMA WriteCarries ==
    ASSUME NEW g \in Seq(Nat), NEW s \in Seq(Nat), Begins(g, s),
           NEW all \in Seq(Char), Carries(all, g, s), NEW q \in Nat,
           NEW t, t = s \o <<q>>, NEW more, more = all \o Line(q)
    PROVE  Begins(g, t) /\ Carries(more, g, t)
<1> DEFINE n == Len(s) - Len(g)
           G == Len(g)
           S == Len(s)
<1>1. n \in Nat /\ G \in Nat /\ S \in Nat /\ S = G + n
  BY DEF Begins
<1>2. Len(all) = 2 * n /\ \A j \in 1..n : all[2 * j - 1] = Text(s[G + j]) /\ all[2 * j] = Newline(s[G + j])
  BY DEF Carries
<1>3. Len(t) = S + 1 /\ t[S + 1] = q /\ \A i \in 1..S : t[i] = s[i]
  OBVIOUS
<1>4. Len(g) = G /\ Len(s) = S
  OBVIOUS
<1> HIDE DEF n, G, S
<1>5. /\ Len(more) = 2 * n + 2 /\ more[2 * n + 1] = Text(q) /\ more[2 * n + 2] = Newline(q)
      /\ \A i \in 1..(2 * n) : more[i] = all[i]
  <2>1. Text(q) \in Char /\ Newline(q) \in Char
    BY DEF Text, Newline, Char
  <2>2. /\ Line(q) \in Seq(Char) /\ Len(Line(q)) = 2
        /\ Line(q)[1] = Text(q) /\ Line(q)[2] = Newline(q)
    BY <2>1 DEF Line
  <2>3. Splits(more, all, Line(q))
    BY <2>2, Concat
  <2> QED BY <1>1, <1>2, <2>2, <2>3 DEF Splits
<1>6. ASSUME NEW j \in 1..(n + 1)
      PROVE  more[2 * j - 1] = Text(t[G + j]) /\ more[2 * j] = Newline(t[G + j])
  <2>1. CASE j <= n
    <3>1. /\ j \in 1..n /\ 2 * j - 1 \in 1..(2 * n) /\ 2 * j \in 1..(2 * n)
          /\ G + j \in 1..S
      BY <1>1, <2>1
    <3> QED BY <1>2, <1>3, <1>5, <3>1
  <2>2. CASE j = n + 1
    <3>1. 2 * j - 1 = 2 * n + 1 /\ 2 * j = 2 * n + 2 /\ G + j = S + 1
      BY <1>1, <2>2
    <3> QED BY <1>3, <1>5, <3>1
  <2>3. j <= n \/ j = n + 1
    BY <1>1
  <2> QED BY <2>1, <2>2, <2>3
<1>7. Len(t) - Len(g) = n + 1
  BY <1>1, <1>3, <1>4
<1>8. Carries(more, g, t)
  <2>1. 2 * n + 2 = 2 * (n + 1)
    BY <1>1
  <2> QED BY <1>4, <1>5, <1>6, <1>7, <2>1 DEF Carries
<1>9. Begins(g, t)
  <2>1. G <= S + 1 /\ \A j \in 1..G : j \in 1..S
    BY <1>1
  <2> QED BY <1>3, <1>4, <2>1 DEF Begins
<1> QED BY <1>8, <1>9

\* What has begun goes on when more is added.
LEMMA BeginsMore ==
    ASSUME NEW g \in Seq(Nat), NEW s \in Seq(Nat), Begins(g, s), NEW q \in Nat
    PROVE  Begins(g, s \o <<q>>)
<1> DEFINE G == Len(g)
           S == Len(s)
           t == s \o <<q>>
<1>1. G \in Nat /\ S \in Nat /\ G <= S /\ \A j \in 1..G : g[j] = s[j]
  BY DEF Begins
<1>2. Len(t) = S + 1 /\ \A i \in 1..S : t[i] = s[i]
  OBVIOUS
<1>3. Len(g) = G
  OBVIOUS
<1> HIDE DEF G, S, t
<1>4. G <= S + 1 /\ \A j \in 1..G : j \in 1..S
  BY <1>1
<1>5. Begins(g, t)
  BY <1>1, <1>2, <1>3, <1>4 DEF Begins
<1> QED BY <1>5 DEF t

\* The written line goes behind what is under way.
LEMMA LineBehind ==
    ASSUME NEW b \in Seq(Char), NEW w \in Seq(Char), NEW q \in Nat
    PROVE  /\ w \o Line(q) \in Seq(Char) /\ b \o w \in Seq(Char)
           /\ b \o (w \o Line(q)) = (b \o w) \o Line(q)
<1>1. Line(q) \in Seq(Char)
  BY DEF Line, Text, Newline, Char
<1>2. \A S, a, c, d : a \in Seq(S) /\ c \in Seq(S) /\ d \in Seq(S) => a \o (c \o d) = (a \o c) \o d
  OBVIOUS
<1> QED BY <1>1, <1>2

-----------------------------------------------------------------------------
(***************************************************************************)
(* Connections.                                                            *)
(***************************************************************************)
\* A number without a connection has no stream.
Unused ==
    \A l \in Link \ DOMAIN ends, n \in Member :
        /\ wire[l][n] = <<>> /\ buf[l][n] = <<>>
        /\ got[l][n] = <<>> /\ sent[l][n] = <<>>

\* A member's connections are its own, and it has read nothing of the others.
OwnEnds ==
    /\ \A n \in Member : \A l \in peers[n] : n \in ends[l]
    /\ \A l \in alive, n \in Member : l \notin peers[n] => buf[l][n] = <<>>

\* What was received begins what was written; while the connection lasts, the rest
\* of it is under way.
Flowing ==
    /\ \A l \in Link, n \in Member : Begins(got[l][n], sent[l][n])
    /\ \A l \in alive, n \in Member :
          Carries(buf[l][n] \o wire[l][n], got[l][n], sent[l][n])

MeshBase == MeshTypeOK /\ Len(ends) <= MaxLinks

MeshInv == MeshBase /\ Unused /\ OwnEnds /\ Flowing

\* Connections have numbers.
LEMMA LinkNumbers ==
    ASSUME MeshBase
    PROVE  /\ DOMAIN ends \subseteq Link /\ DOMAIN ends = 1..Len(ends) /\ Len(ends) \in Nat
           /\ alive \subseteq Link
           /\ \A n \in Member : peers[n] \subseteq DOMAIN ends
           /\ \A l \in Link, n \in Member :
                 /\ wire[l][n] \in Seq(Char) /\ buf[l][n] \in Seq(Char)
                 /\ got[l][n] \in Seq(Nat) /\ sent[l][n] \in Seq(Nat)
<1>1. ends \in Seq({{n, m} : n, m \in Member}) /\ Len(ends) <= MaxLinks
  BY DEF MeshBase, MeshTypeOK
<1>2. DOMAIN ends = 1..Len(ends) /\ Len(ends) \in Nat
  BY <1>1
<1>3. DOMAIN ends \subseteq Link
  BY <1>1, <1>2, MeshAssumption DEF Link
<1>4. \A n \in Member : peers[n] \subseteq DOMAIN ends
  BY DEF MeshBase, MeshTypeOK
<1>5. alive \subseteq DOMAIN ends
  BY DEF MeshBase, MeshTypeOK
<1>6. \A l \in Link, n \in Member :
         /\ wire[l][n] \in Seq(Char) /\ buf[l][n] \in Seq(Char)
         /\ got[l][n] \in Seq(Nat) /\ sent[l][n] \in Seq(Nat)
  BY DEF MeshBase, MeshTypeOK
<1> QED BY <1>2, <1>3, <1>4, <1>5, <1>6

LEMMA MeshInitial == MeshInit => MeshInv
<1> SUFFICES ASSUME MeshInit PROVE MeshInv
  OBVIOUS
<1>1. MeshBase
  BY MeshAssumption DEF MeshInit, MeshBase, MeshTypeOK
<1>2. Unused /\ OwnEnds
  BY DEF MeshInit, Unused, OwnEnds
<1>3. Begins(<<>>, <<>>)
  BY DEF Begins
<1>4. Flowing
  BY <1>3 DEF MeshInit, Flowing
<1> QED BY <1>1, <1>2, <1>4 DEF MeshInv

\* Members come and go.
LEMMA MeshMembers ==
    ASSUME MeshInv, NEW n \in Member,
           MemberJoins(n) \/ MemberStops(n) \/ \E m \in Member : Open(n, m)
    PROVE  MeshInv'
<1> USE DEF MeshInv
<1>0. /\ DOMAIN ends \subseteq Link /\ DOMAIN ends = 1..Len(ends) /\ Len(ends) \in Nat
      /\ alive \subseteq Link
      /\ \A k \in Member : peers[k] \subseteq DOMAIN ends
  BY LinkNumbers
<1>1. CASE MemberJoins(n)
  <2>1. /\ ends' = ends /\ alive' = alive /\ wire' = wire /\ buf' = buf /\ got' = got
        /\ sent' = sent /\ next' = next
    BY <1>1 DEF MemberJoins
  <2>2. /\ peers' \in [Member -> SUBSET DOMAIN ends] /\ joined' \subseteq Member
        /\ \A k \in Member : peers'[k] \subseteq peers[k]
        /\ \A k \in Member : \A c \in alive : c \in peers[k] => c \in peers'[k]
    BY <1>1 DEF MemberJoins, MeshBase, MeshTypeOK
  <2>3. MeshBase' /\ Unused'
    BY <2>1, <2>2 DEF MeshBase, MeshTypeOK, Unused
  <2>4. OwnEnds' /\ Flowing'
    BY <2>1, <2>2 DEF OwnEnds, Flowing
  <2> QED BY <2>3, <2>4
<1>2. CASE MemberStops(n)
  <2> DEFINE broken == {c \in alive : n \in ends[c]}
  <2>1. /\ joined' = joined \ {n} /\ alive' = alive \ broken
        /\ wire' = [c \in Link |-> IF c \in broken THEN [m \in Member |-> <<>>] ELSE wire[c]]
        /\ peers' = [peers EXCEPT ![n] = {}] /\ next' = [next EXCEPT ![n] = 0]
        /\ UNCHANGED <<ends, buf, got, sent>>
    BY <1>2 DEF MemberStops
  <2>2. wire' \in [Link -> [Member -> Seq(Char)]]
    BY <2>1 DEF MeshBase, MeshTypeOK
  <2>3. MeshBase'
    BY <2>1, <2>2 DEF MeshBase, MeshTypeOK
  <2>4. Unused'
    BY <1>0, <2>1 DEF Unused
  <2>5. OwnEnds'
    <3>1. \A m \in Member : peers'[m] = IF m = n THEN {} ELSE peers[m]
      BY <2>1 DEF MeshBase, MeshTypeOK
    <3>2. \A c \in alive' : c \in alive /\ n \notin ends[c]
      BY <2>1
    <3> QED BY <2>1, <3>1, <3>2 DEF OwnEnds
  <2>6. Flowing'
    BY <1>0, <2>1 DEF Flowing
  <2> QED BY <2>3, <2>4, <2>5, <2>6
<1>3. ASSUME NEW m \in Member, Open(n, m)
      PROVE  MeshInv'
  <2> DEFINE new == Len(ends) + 1
  <2>1. /\ Len(ends) < MaxLinks /\ ends' = Append(ends, {n, m}) /\ alive' = alive \cup {new}
        /\ UNCHANGED <<joined, peers, wire, buf, got, sent, next>>
    BY <1>3 DEF Open
  <2>2. new \in Link /\ new \notin DOMAIN ends
    BY <1>0, <2>1, MeshAssumption DEF Link
  <2>3. /\ ends' \in Seq({{a, b} : a, b \in Member}) /\ Len(ends') = new
        /\ DOMAIN ends' = DOMAIN ends \cup {new}
        /\ \A c \in DOMAIN ends : ends'[c] = ends[c]
    BY <1>0, <2>1 DEF MeshBase, MeshTypeOK
  <2>4. Len(ends') <= MaxLinks
    BY <1>0, <2>1, <2>3, MeshAssumption
  <2>5. peers' \in [Member -> SUBSET DOMAIN ends'] /\ alive' \subseteq DOMAIN ends'
    BY <2>1, <2>3 DEF MeshBase, MeshTypeOK
  <2>6. MeshBase'
    BY <2>1, <2>3, <2>4, <2>5 DEF MeshBase, MeshTypeOK
  <2>7. Unused'
    BY <2>1, <2>3 DEF Unused
  <2>8. \A k \in Member : wire[new][k] = <<>> /\ buf[new][k] = <<>> /\ got[new][k] = <<>>
                          /\ sent[new][k] = <<>>
    BY <2>2 DEF Unused
  <2>9. OwnEnds'
    <3>1. \A k \in Member : \A c \in peers'[k] : k \in ends'[c]
      BY <1>0, <2>1, <2>3 DEF OwnEnds
    <3> QED BY <2>1, <2>8, <3>1 DEF OwnEnds
  <2>10. Flowing'
    <3>1. Carries(<<>> \o <<>>, <<>>, <<>>)
      BY DEF Carries
    <3> QED BY <2>1, <2>8, <3>1 DEF Flowing
  <2> QED BY <2>6, <2>7, <2>9, <2>10
<1> QED BY <1>1, <1>2, <1>3

\* A connection breaks, and its ends find it up or down.
LEMMA MeshLinks ==
    ASSUME MeshInv,
           \/ \E l \in Link : Break(l) \/ \E n \in Member : PeerUp(l, n) \/ PeerDown(l, n)
           \/ UNCHANGED meshVars
    PROVE  MeshInv'
<1> USE DEF MeshInv
<1>0. /\ DOMAIN ends \subseteq Link /\ DOMAIN ends = 1..Len(ends) /\ Len(ends) \in Nat
      /\ alive \subseteq Link
      /\ \A k \in Member : peers[k] \subseteq DOMAIN ends
  BY LinkNumbers
<1>1. ASSUME NEW l \in Link, NEW n \in Member, PeerDown(l, n)
      PROVE  MeshInv'
  <2>1. /\ ends' = ends /\ alive' = alive /\ wire' = wire /\ buf' = buf /\ got' = got
        /\ sent' = sent /\ next' = next
    BY <1>1 DEF PeerDown
  <2>2. /\ peers' \in [Member -> SUBSET DOMAIN ends] /\ joined' \subseteq Member
        /\ \A k \in Member : peers'[k] \subseteq peers[k]
        /\ \A k \in Member : \A c \in alive : c \in peers[k] => c \in peers'[k]
    <3>1. /\ peers' = [peers EXCEPT ![n] = @ \ {l}] /\ l \notin alive /\ joined' = joined
      BY <1>1 DEF PeerDown
    <3>2. peers \in [Member -> SUBSET DOMAIN ends] /\ joined \subseteq Member
      BY DEF MeshBase, MeshTypeOK
    <3> QED BY <3>1, <3>2
  <2>3. MeshBase' /\ Unused'
    BY <2>1, <2>2 DEF MeshBase, MeshTypeOK, Unused
  <2>4. OwnEnds' /\ Flowing'
    BY <2>1, <2>2 DEF OwnEnds, Flowing
  <2> QED BY <2>3, <2>4
<1>2. ASSUME NEW l \in Link, Break(l)
      PROVE  MeshInv'
  <2>1. /\ alive' = alive \ {l} /\ wire' = [wire EXCEPT ![l] = [m \in Member |-> <<>>]]
        /\ UNCHANGED <<joined, ends, peers, buf, got, sent, next>>
    BY <1>2 DEF Break
  <2>2. \A c \in Link : wire'[c] = IF c = l THEN [m \in Member |-> <<>>] ELSE wire[c]
    BY <2>1 DEF MeshBase, MeshTypeOK
  <2>3. wire' \in [Link -> [Member -> Seq(Char)]]
    BY <2>1 DEF MeshBase, MeshTypeOK
  <2>4. MeshBase'
    BY <2>1, <2>3 DEF MeshBase, MeshTypeOK
  <2>5. Unused' /\ OwnEnds' /\ Flowing'
    BY <1>0, <2>1, <2>2 DEF Unused, OwnEnds, Flowing
  <2> QED BY <2>4, <2>5
<1>3. ASSUME NEW l \in Link, NEW n \in Member, PeerUp(l, n)
      PROVE  MeshInv'
  <2>1. /\ n \in ends[l] /\ l \in alive /\ l \notin peers[n]
        /\ peers' = [peers EXCEPT ![n] = @ \cup {l}]
        /\ buf' = [buf EXCEPT ![l][n] = <<>>]
        /\ UNCHANGED <<joined, ends, alive, wire, got, sent, next>>
    BY <1>3 DEF PeerUp
  <2>2. buf[l][n] = <<>>
    BY <2>1 DEF OwnEnds
  <2>3. buf' = buf
    BY <2>1, <2>2 DEF MeshBase, MeshTypeOK
  <2>4. /\ peers' \in [Member -> SUBSET DOMAIN ends]
        /\ \A m \in Member : peers[m] \subseteq peers'[m]
        /\ \A m \in Member : \A c \in peers'[m] : c \in peers[m] \/ (c = l /\ m = n)
    <3>1. peers \in [Member -> SUBSET DOMAIN ends] /\ l \in DOMAIN ends
      BY <2>1 DEF MeshBase, MeshTypeOK
    <3> QED BY <2>1, <3>1
  <2>5. MeshBase' /\ Unused'
    <3>1. MeshTypeOK'
      <4>1. /\ joined' = joined /\ ends' = ends /\ alive' = alive /\ wire' = wire
            /\ got' = got /\ sent' = sent /\ next' = next
        BY <2>1
      <4>2. peers' \in [Member -> SUBSET DOMAIN ends']
        BY <2>4, <4>1
      <4> QED BY <2>3, <4>1, <4>2 DEF MeshBase, MeshTypeOK
    <3> QED BY <2>1, <2>3, <3>1 DEF MeshBase, Unused
  <2>6. OwnEnds'
    BY <2>1, <2>3, <2>4 DEF OwnEnds
  <2>7. Flowing'
    BY <2>1, <2>3 DEF Flowing
  <2> QED BY <2>5, <2>6, <2>7
<1>4. CASE UNCHANGED meshVars
  BY <1>4 DEF meshVars, MeshBase, MeshTypeOK, Unused, OwnEnds, Flowing
<1> QED BY <1>1, <1>2, <1>3, <1>4

\* A line is written to every connection of the member.
LEMMA MeshPublish ==
    ASSUME MeshInv, NEW n \in Member, Publish(n)
    PROVE  MeshInv'
<1> USE DEF MeshInv
<1> DEFINE q == next[n]
           goes(l, m) == l \in peers[n] /\ m = Other(l, n)
<1>0. /\ DOMAIN ends \subseteq Link /\ alive \subseteq Link /\ q \in Nat
      /\ \A k \in Member : peers[k] \subseteq DOMAIN ends
  BY LinkNumbers DEF MeshBase, MeshTypeOK
<1>1. /\ next' = [next EXCEPT ![n] = @ + 1]
      /\ UNCHANGED <<joined, ends, alive, peers, buf, got>>
      /\ sent' = [l \in Link |-> [m \in Member |->
                    sent[l][m] \o (IF goes(l, m) THEN <<q>> ELSE <<>>)]]
      /\ wire' = [l \in Link |-> [m \in Member |->
                    IF l \in alive /\ goes(l, m) THEN wire[l][m] \o Line(q) ELSE wire[l][m]]]
  BY DEF Publish
<1> HIDE DEF q, goes
<1>2. ASSUME NEW l \in Link, NEW m \in Member
      PROVE  /\ sent'[l][m] \in Seq(Nat) /\ wire'[l][m] \in Seq(Char)
             /\ goes(l, m) => sent'[l][m] = sent[l][m] \o <<q>>
             /\ goes(l, m) /\ l \in alive => wire'[l][m] = wire[l][m] \o Line(q)
             /\ ~ goes(l, m) => sent'[l][m] = sent[l][m] /\ wire'[l][m] = wire[l][m]
  <2>1. wire[l][m] \in Seq(Char) /\ buf[l][m] \in Seq(Char) /\ sent[l][m] \in Seq(Nat)
    BY LinkNumbers
  <2>2. wire[l][m] \o Line(q) \in Seq(Char)
    BY <1>0, <2>1, LineBehind
  <2>3. sent[l][m] \o <<>> = sent[l][m] /\ sent[l][m] \o <<q>> \in Seq(Nat)
    BY <1>0, <2>1
  <2> QED BY <1>1, <2>1, <2>2, <2>3
<1>3. MeshBase'
  <2>1. sent' \in [Link -> [Member -> Seq(Nat)]] /\ wire' \in [Link -> [Member -> Seq(Char)]]
    BY <1>1, <1>2
  <2>2. next' \in [Member -> Nat]
    BY <1>1 DEF MeshBase, MeshTypeOK
  <2> QED BY <1>1, <2>1, <2>2 DEF MeshBase, MeshTypeOK
<1>4. Unused'
  <2>1. \A l \in Link \ DOMAIN ends, m \in Member : ~ goes(l, m)
    BY <1>0 DEF goes
  <2> QED BY <1>1, <1>2, <2>1 DEF Unused
<1>5. OwnEnds'
  BY <1>1 DEF OwnEnds
<1>6. ASSUME NEW l \in Link, NEW m \in Member
      PROVE  Begins(got'[l][m], sent'[l][m])
  <2>1. got[l][m] \in Seq(Nat) /\ sent[l][m] \in Seq(Nat) /\ Begins(got[l][m], sent[l][m])
    BY LinkNumbers DEF Flowing
  <2>2. Begins(got[l][m], sent[l][m] \o <<q>>)
    BY <1>0, <2>1, BeginsMore
  <2> QED BY <1>1, <1>2, <2>1, <2>2
<1>7. ASSUME NEW l \in alive, NEW m \in Member
      PROVE  Carries(buf'[l][m] \o wire'[l][m], got'[l][m], sent'[l][m])
  <2>1. /\ l \in Link /\ got[l][m] \in Seq(Nat) /\ sent[l][m] \in Seq(Nat)
        /\ buf[l][m] \in Seq(Char) /\ wire[l][m] \in Seq(Char)
    BY <1>0, LinkNumbers
  <2>2. Begins(got[l][m], sent[l][m])
        /\ Carries(buf[l][m] \o wire[l][m], got[l][m], sent[l][m])
    BY <2>1 DEF Flowing
  <2>3. /\ buf[l][m] \o wire[l][m] \in Seq(Char)
        /\ buf[l][m] \o (wire[l][m] \o Line(q)) = (buf[l][m] \o wire[l][m]) \o Line(q)
    BY <1>0, <2>1, LineBehind
  <2>4. Carries((buf[l][m] \o wire[l][m]) \o Line(q), got[l][m], sent[l][m] \o <<q>>)
    BY <1>0, <2>1, <2>2, <2>3, WriteCarries
  <2>5. CASE goes(l, m)
    BY <1>1, <1>2, <2>1, <2>3, <2>4, <2>5
  <2>6. CASE ~ goes(l, m)
    BY <1>1, <1>2, <2>1, <2>2, <2>6
  <2> QED BY <2>5, <2>6
<1>8. Flowing'
  BY <1>1, <1>6, <1>7 DEF Flowing
<1> QED BY <1>3, <1>4, <1>5, <1>8

\* A chunk arrives.
LEMMA MeshData ==
    ASSUME MeshInv, NEW l \in Link, NEW n \in Member, Data(l, n)
    PROVE  MeshInv'
<1> USE DEF MeshInv
<1> DEFINE b == buf[l][n]
           w == wire[l][n]
           g == got[l][n]
           s == sent[l][n]
<1>0. /\ DOMAIN ends \subseteq Link /\ alive \subseteq Link /\ l \in alive /\ l \in peers[n]
      /\ b \in Seq(Char) /\ w \in Seq(Char) /\ g \in Seq(Nat) /\ s \in Seq(Nat)
      /\ l \in DOMAIN ends
  BY LinkNumbers DEF Data
<1>1. PICK k \in 1..Len(w) :
        LET chars == b \o SubSeq(w, 1, k)
        IN  /\ wire' = [wire EXCEPT ![l][n] = SubSeq(w, k + 1, Len(w))]
            /\ buf' = [buf EXCEPT ![l][n] = Rest(chars)]
            /\ got' = [got EXCEPT ![l][n] = g \o Parsed(chars)]
            /\ UNCHANGED <<joined, ends, alive, peers, sent, next>>
  BY DEF Data, Collect
<1> DEFINE chars == b \o SubSeq(w, 1, k)
           left == SubSeq(w, k + 1, Len(w))
           h == g \o Parsed(chars)
           r == Rest(chars)
<1>2. Begins(g, s) /\ Carries(b \o w, g, s)
  BY <1>0 DEF Flowing
<1>3. /\ chars \in Seq(Char) /\ b \o w \in Seq(Char) /\ left \in Seq(Char)
      /\ Splits(b \o w, chars, left)
  <2> HIDE DEF b, w
  <2> QED BY <1>0, ChunkFacts
<1>4. r \in Seq(Char) /\ h \in Seq(Nat) /\ Begins(h, s) /\ Carries(r \o left, h, s)
  <2> HIDE DEF b, w, g, s, chars, left
  <2>1. r \in Seq(Char) /\ h \in Seq(Nat) /\ Begins(h, s) /\ Carries(r \o left, h, s)
    BY <1>0, <1>2, <1>3, ChunkCarries
  <2> QED BY <2>1
<1>5. /\ wire' = [wire EXCEPT ![l][n] = left] /\ buf' = [buf EXCEPT ![l][n] = r]
      /\ got' = [got EXCEPT ![l][n] = h]
      /\ UNCHANGED <<joined, ends, alive, peers, sent, next>>
  BY <1>1
<1> HIDE DEF b, w, g, chars, left, h, r
<1>6. /\ wire' \in [Link -> [Member -> Seq(Char)]] /\ buf' \in [Link -> [Member -> Seq(Char)]]
      /\ got' \in [Link -> [Member -> Seq(Nat)]]
      /\ wire'[l][n] = left /\ buf'[l][n] = r /\ got'[l][n] = h
      /\ \A c \in Link, m \in Member : c # l \/ m # n =>
            wire'[c][m] = wire[c][m] /\ buf'[c][m] = buf[c][m] /\ got'[c][m] = got[c][m]
  <2>1. /\ wire \in [Link -> [Member -> Seq(Char)]] /\ buf \in [Link -> [Member -> Seq(Char)]]
        /\ got \in [Link -> [Member -> Seq(Nat)]]
    BY DEF MeshBase, MeshTypeOK
  <2>2. /\ wire' \in [Link -> [Member -> Seq(Char)]] /\ wire'[l][n] = left
        /\ \A c \in Link, m \in Member : c # l \/ m # n => wire'[c][m] = wire[c][m]
    BY <1>3, <1>5, <2>1
  <2>3. /\ buf' \in [Link -> [Member -> Seq(Char)]] /\ buf'[l][n] = r
        /\ \A c \in Link, m \in Member : c # l \/ m # n => buf'[c][m] = buf[c][m]
    BY <1>4, <1>5, <2>1
  <2>4. /\ got' \in [Link -> [Member -> Seq(Nat)]] /\ got'[l][n] = h
        /\ \A c \in Link, m \in Member : c # l \/ m # n => got'[c][m] = got[c][m]
    BY <1>4, <1>5, <2>1
  <2> QED BY <2>2, <2>3, <2>4
<1>7. MeshBase'
  BY <1>5, <1>6 DEF MeshBase, MeshTypeOK
<1>8. Unused'
  BY <1>0, <1>5, <1>6 DEF Unused
<1>9. OwnEnds'
  BY <1>0, <1>5, <1>6 DEF OwnEnds
<1>10. Flowing'
  BY <1>0, <1>4, <1>5, <1>6 DEF Flowing, s
<1> QED BY <1>7, <1>8, <1>9, <1>10

LEMMA MeshInvStep == MeshInv /\ [MeshNext]_meshVars => MeshInv'
<1> SUFFICES ASSUME MeshInv, [MeshNext]_meshVars PROVE MeshInv'
  OBVIOUS
<1>1. DOMAIN ends \subseteq Link
  BY LinkNumbers DEF MeshInv
<1> QED BY <1>1, MeshMembers, MeshLinks, MeshPublish, MeshData DEF MeshNext

\* The shapes of the variables.
THEOREM MeshTypeCorrect == MeshSpec => []MeshTypeOK
BY MeshInitial, MeshInvStep, PTL DEF MeshSpec, MeshInv, MeshBase

\* What an end of a connection has received is the beginning of what was written for
\* it, for any members, any number of connections and lines, and however the stream
\* is cut into chunks.
THEOREM ArrivesInOrder == MeshSpec => []ReceivedInOrder
<1>1. MeshInv => ReceivedInOrder
  <2> SUFFICES ASSUME MeshInv, NEW l \in Link, NEW n \in Member
               PROVE  IsPrefix(got[l][n], sent[l][n])
    BY DEF ReceivedInOrder
  <2> DEFINE g == got[l][n]
             s == sent[l][n]
  <2>1. g \in Seq(Nat) /\ s \in Seq(Nat) /\ Begins(g, s)
    BY LinkNumbers DEF MeshInv, Flowing
  <2> HIDE DEF g, s
  <2>2. SubSeq(g, 1, Len(g)) = SubSeq(s, 1, Len(g))
    BY <2>1 DEF Begins
  <2>3. IsPrefix(g, s)
    BY <2>1, <2>2 DEF IsPrefix, Begins
  <2> QED BY <2>3 DEF g, s
<1> QED BY <1>1, MeshInitial, MeshInvStep, PTL DEF MeshSpec

-----------------------------------------------------------------------------
(***************************************************************************)
(* Managed code.                                                           *)
(***************************************************************************)
\* How far each start of the manager is.
PutCount ==
    /\ manager = "seeding" => put < Len(Keys)
    /\ manager = "serving" => put = Len(Keys)

\* A worker runs its roles from the first on, and none before it has read them.
RunsInOrder ==
    \A w \in Worker :
        /\ Len(running[w]) <= Len(RolesOf[w])
        /\ \A k \in 1..Len(running[w]) : running[w][k] = RolesOf[w][k]
        /\ mpc[w] \in {"off", "joining", "registry"} => running[w] = <<>>
        /\ mpc[w] = "pulling" => Len(running[w]) < Len(RolesOf[w])

ManagedBase == ManagedTypeOK /\ PutCount /\ RunsInOrder

\* Everything is on the drive at version v.
WholeDrive(v) == Role \cup {Registry} \subseteq On(v)

\* What this start of the manager has put is there, and who has a version of the
\* drive and still reads has a whole one.
ReadsWhole ==
    /\ manager # "off" => \A k \in 1..put : Keys[k] \in On(Len(drive))
    /\ \A p \in Node : mpc[p] \in {"registry", "pulling"} => WholeDrive(view[p])

-----------------------------------------------------------------------------
(***************************************************************************)
(* Lemmas about the constants and the drive.                               *)
(***************************************************************************)
\* The keys a start puts are the roles and the registry.
LEMMA KeysAreAll ==
    /\ Keys \in Seq(Role \cup {Registry}) /\ Len(Keys) \in Nat \ {0}
    /\ \A key \in Role \cup {Registry} : \E k \in 1..Len(Keys) : Keys[k] = key
<1>1. RoleOrder \in Seq(Role) /\ Range(RoleOrder) = Role
  BY ManagedAssumption
<1>2. Keys \in Seq(Role \cup {Registry}) /\ Len(Keys) = Len(RoleOrder) + 1
  BY <1>1 DEF Keys
<1>3. Keys[Len(Keys)] = Registry
  BY <1>1, <1>2 DEF Keys
<1>4. ASSUME NEW key \in Role PROVE \E k \in 1..Len(Keys) : Keys[k] = key
  <2>1. PICK k \in DOMAIN RoleOrder : RoleOrder[k] = key
    BY <1>1 DEF Range
  <2>2. k \in 1..Len(RoleOrder) /\ Keys[k] = RoleOrder[k]
    BY <1>1, <2>1 DEF Keys
  <2> QED
    BY <1>1, <1>2, <2>1, <2>2
<1> QED
  BY <1>1, <1>2, <1>3, <1>4

\* Later versions have what earlier ones have.
LEMMA OnGrows ==
    ASSUME drive \in Seq(Role \cup {Registry}), NEW v \in 0..Len(drive), NEW u \in v..Len(drive)
    PROVE  On(v) \subseteq On(u)
  BY DEF On

\* Versions stay what they are when another key is put.
LEMMA OnStays ==
    ASSUME drive \in Seq(Role \cup {Registry}), NEW key \in Role \cup {Registry},
           drive' = Append(drive, key), NEW v \in 0..Len(drive)
    PROVE  /\ On(v)' = On(v)
           /\ On(Len(drive))' = On(Len(drive)) \cup {key}
<1>1. \A k \in 1..Len(drive) : drive'[k] = drive[k]
  OBVIOUS
<1>2. Len(drive') = Len(drive) + 1 /\ drive'[Len(drive')] = key
  OBVIOUS
<1> QED
  BY <1>1, <1>2 DEF On

-----------------------------------------------------------------------------
(***************************************************************************)
(* Types, and how far everybody is.                                        *)
(***************************************************************************)
LEMMA BaseInit == ManagedInit => ManagedBase
<1> SUFFICES ASSUME ManagedInit PROVE ManagedBase
  OBVIOUS
<1>1. ManagedTypeOK
  BY KeysAreAll, ManagedAssumption DEF ManagedInit, ManagedTypeOK, MainStage, NoLink
<1>2. PutCount
  BY DEF ManagedInit, PutCount
<1>3. RunsInOrder
  <2>1. \A w \in Worker : running[w] = <<>> /\ mpc[w] = "off" /\ Len(RolesOf[w]) \in Nat
    BY ManagedAssumption DEF ManagedInit, Node
  <2> QED
    BY <2>1 DEF RunsInOrder
<1> QED
  BY <1>1, <1>2, <1>3 DEF ManagedBase

\* The next role of a worker that pulls, and what running it leaves.
LEMMA PullsNext ==
    ASSUME ManagedBase, NEW w \in Worker, mpc[w] = "pulling"
    PROVE  LET role == RolesOf[w][Len(running[w]) + 1]
           IN  /\ role \in Role
               /\ Append(running[w], role) \in Seq(Role)
               /\ Len(Append(running[w], role)) = Len(running[w]) + 1
               /\ Len(running[w]) + 1 <= Len(RolesOf[w])
               /\ \A k \in 1..(Len(running[w]) + 1) : Append(running[w], role)[k] = RolesOf[w][k]
<1>1. RolesOf[w] \in Seq(Role) /\ running[w] \in Seq(Role)
  BY ManagedAssumption DEF ManagedBase, ManagedTypeOK
<1>2. Len(running[w]) < Len(RolesOf[w])
  BY DEF ManagedBase, RunsInOrder
<1>3. \A k \in 1..Len(running[w]) : running[w][k] = RolesOf[w][k]
  BY DEF ManagedBase, RunsInOrder
<1> QED
  BY <1>1, <1>2, <1>3

LEMMA BaseManager ==
    ASSUME ManagedBase, ManagerStarts \/ Seed \/ ManagerStops
    PROVE  ManagedBase'
<1>1. CASE ManagerStarts
  <2>1. ManagedTypeOK'
    BY <1>1, KeysAreAll, ManagedAssumption DEF ManagedBase, ManagerStarts, clientVars, ManagedTypeOK
  <2>2. PutCount'
    BY <1>1, KeysAreAll DEF ManagerStarts, PutCount
  <2> QED
    BY <1>1, <2>1, <2>2 DEF ManagedBase, ManagerStarts, RunsInOrder
<1>2. CASE Seed
  <2>1. put \in Nat /\ put < Len(Keys) /\ Keys[put + 1] \in Role \cup {Registry}
    BY <1>2, KeysAreAll DEF ManagedBase, Seed, PutCount, ManagedTypeOK
  <2>2. drive' = Append(drive, Keys[put + 1]) /\ drive \in Seq(Role \cup {Registry})
    BY <1>2 DEF ManagedBase, Seed, ManagedTypeOK
  <2>3. drive' \in Seq(Role \cup {Registry}) /\ Len(drive') = Len(drive) + 1
    BY <2>1, <2>2
  <2>4. view \in [Node -> 0..Len(drive')]
    BY <2>2, <2>3 DEF ManagedBase, ManagedTypeOK
  <2>5. put' = put + 1 /\ put' \in 0..Len(Keys)
    BY <1>2, <2>1, KeysAreAll DEF Seed
  <2>6. ManagedTypeOK'
    BY <1>2, <2>3, <2>4, <2>5 DEF ManagedBase, Seed, clientVars, ManagedTypeOK
  <2>7. PutCount'
    BY <1>2, <2>1, <2>5, KeysAreAll DEF Seed, PutCount
  <2> QED
    BY <1>2, <2>6, <2>7 DEF ManagedBase, Seed, RunsInOrder
<1>3. CASE ManagerStops
  BY <1>3 DEF ManagedBase, ManagerStops, clientVars, ManagedTypeOK, PutCount, RunsInOrder
<1> QED
  BY <1>1, <1>2, <1>3

LEMMA BaseJoining ==
    ASSUME ManagedBase, NEW p \in Node, Joins(p) \/ Update(p) \/ ReadRegistry(p)
    PROVE  ManagedBase'
<1>1. CASE Joins(p)
  BY <1>1 DEF ManagedBase, Joins, managerVars, clientVars, ManagedTypeOK, MainStage, PutCount, RunsInOrder
<1>2. CASE Update(p)
  BY <1>2 DEF ManagedBase, Update, managerVars, clientVars, ManagedTypeOK, MainStage, PutCount, RunsInOrder
<1>3. CASE ReadRegistry(p)
  <2>1. PICK v \in 1..Len(drive), stage \in {"fatal", "targeting", "up", "pulling"} :
           /\ v \in view[p]..Len(drive) /\ view' = [view EXCEPT ![p] = v]
           /\ mpc' = [mpc EXCEPT ![p] = stage]
           /\ p \in Worker /\ stage = "pulling" => RolesOf[p] # <<>>
    BY <1>3, ManagedAssumption DEF ReadRegistry, ReadAt, Onwards, Node
  <2>2. mpc[p] = "registry" /\ UNCHANGED <<managerVars, running, clientVars>>
    BY <1>3 DEF ReadRegistry
  <2>3. ManagedTypeOK'
    BY <2>1, <2>2 DEF ManagedBase, managerVars, clientVars, ManagedTypeOK, MainStage
  <2>4. \A w \in Worker : RolesOf[w] \in Seq(Role) /\ (RolesOf[w] # <<>> => Len(RolesOf[w]) > 0)
    BY ManagedAssumption
  <2>5. RunsInOrder'
    BY <2>1, <2>2, <2>4 DEF ManagedBase, ManagedTypeOK, RunsInOrder, Node
  <2> QED
    BY <2>2, <2>3, <2>5 DEF ManagedBase, PutCount, managerVars
<1> QED
  BY <1>1, <1>2, <1>3

\* The variables of the clients keep their types when connections end.
LEMMA DropsType ==
    ASSUME ManagedTypeOK, NEW cs, Drops(cs)
    PROVE  /\ link' \in [Caller -> [up : BOOLEAN, offers : SUBSET Role]]
           /\ channel' \in [Caller -> {"none", "open", "closed"}]
           /\ lost' \in [Caller -> BOOLEAN]
<1>1. NoLink \in [up : BOOLEAN, offers : SUBSET Role]
  BY DEF NoLink
<1>2. link' \in [Caller -> [up : BOOLEAN, offers : SUBSET Role]]
  BY <1>1 DEF Drops, ManagedTypeOK
<1>3. channel' \in [Caller -> {"none", "open", "closed"}]
  BY DEF Drops, ManagedTypeOK
<1>4. lost' \in [Caller -> BOOLEAN]
  BY DEF Drops, ManagedTypeOK
<1> QED
  BY <1>2, <1>3, <1>4

LEMMA BaseWorker ==
    ASSUME ManagedBase, NEW w \in Worker, RunRole(w) \/ WorkerStops(w)
    PROVE  ManagedBase'
<1> DEFINE role == RolesOf[w][Len(running[w]) + 1]
<1>1. CASE RunRole(w)
  <2>1. PICK v \in 1..Len(drive) :
           /\ v \in view[w]..Len(drive) /\ view' = [view EXCEPT ![w] = v]
           /\ \/ /\ running' = [running EXCEPT ![w] = Append(@, role)]
                 /\ mpc' = [mpc EXCEPT ![w] =
                              IF Len(running[w]) + 1 = Len(RolesOf[w]) THEN "up" ELSE "pulling"]
              \/ mpc' = [mpc EXCEPT ![w] = "fatal"] /\ UNCHANGED running
    BY <1>1 DEF RunRole, ReadAt
  <2>2. mpc[w] = "pulling" /\ UNCHANGED <<managerVars, clientVars>>
    BY <1>1 DEF RunRole
  <2>3. /\ Append(running[w], role) \in Seq(Role)
        /\ Len(Append(running[w], role)) = Len(running[w]) + 1
        /\ Len(running[w]) + 1 <= Len(RolesOf[w])
        /\ \A k \in 1..(Len(running[w]) + 1) : Append(running[w], role)[k] = RolesOf[w][k]
    BY <2>2, PullsNext
  <2>4. Len(running[w]) \in Nat /\ Len(RolesOf[w]) \in Nat
    BY ManagedAssumption DEF ManagedBase, ManagedTypeOK
  <2> HIDE DEF role
  <2>5. ManagedTypeOK'
    <3>1. v \in 0..Len(drive) /\ w \in Node /\ view \in [Node -> 0..Len(drive)]
      BY DEF ManagedBase, ManagedTypeOK, Node
    <3>2. view' \in [Node -> 0..Len(drive)]
      BY <2>1, <3>1
    <3>3. running' \in [Worker -> Seq(Role)]
      BY <2>1, <2>3 DEF ManagedBase, ManagedTypeOK
    <3>4. mpc' \in [Node -> MainStage]
      BY <2>1 DEF ManagedBase, ManagedTypeOK, MainStage
    <3> QED
      BY <2>2, <3>2, <3>3, <3>4 DEF ManagedBase, managerVars, clientVars, ManagedTypeOK
  <2>6. RunsInOrder'
    <3> SUFFICES ASSUME NEW u \in Worker
                 PROVE  /\ Len(running'[u]) <= Len(RolesOf[u])
                        /\ \A k \in 1..Len(running'[u]) : running'[u][k] = RolesOf[u][k]
                        /\ mpc'[u] \in {"off", "joining", "registry"} => running'[u] = <<>>
                        /\ mpc'[u] = "pulling" => Len(running'[u]) < Len(RolesOf[u])
      BY DEF RunsInOrder
    <3>1. CASE u # w
      BY <2>1, <3>1 DEF ManagedBase, ManagedTypeOK, RunsInOrder, Node
    <3>2. CASE u = w /\ UNCHANGED running
      BY <2>1, <2>2, <2>3, <2>4, <3>2 DEF ManagedBase, ManagedTypeOK, RunsInOrder, Node
    <3>3. CASE u = w /\ running' = [running EXCEPT ![w] = Append(@, role)]
      <4>1. running'[w] = Append(running[w], role)
        BY <3>3 DEF ManagedBase, ManagedTypeOK
      <4>2. mpc'[w] = "fatal" \/ mpc'[w] = IF Len(running[w]) + 1 = Len(RolesOf[w]) THEN "up" ELSE "pulling"
        BY <2>1 DEF ManagedBase, ManagedTypeOK, Node
      <4> QED
        BY <2>2, <2>3, <2>4, <3>3, <4>1, <4>2
    <3> QED
      BY <2>1, <3>1, <3>2, <3>3
  <2> QED
    BY <2>2, <2>5, <2>6 DEF ManagedBase, PutCount, managerVars
<1>2. CASE WorkerStops(w)
  <2>1. ManagedTypeOK'
    BY <1>2, DropsType DEF ManagedBase, WorkerStops, managerVars, ManagedTypeOK, MainStage, Node
  <2>2. Len(<<>>) = 0 /\ \A u \in Worker : Len(RolesOf[u]) \in Nat
    BY ManagedAssumption
  <2>3. RunsInOrder'
    BY <1>2, <2>2 DEF ManagedBase, WorkerStops, ManagedTypeOK, RunsInOrder, Node
  <2> QED
    BY <1>2, <2>1, <2>3 DEF ManagedBase, PutCount, WorkerStops, managerVars
<1> QED
  BY <1>1, <1>2

LEMMA BaseClient ==
    ASSUME ManagedBase, NEW c \in Caller,
           Reach(c) \/ LinkLost(c) \/ Ask(c) \/ Handle(c) \/ Returned(c) \/ ClientStops(c)
    PROVE  ManagedBase'
<1>1. CASE Reach(c)
  <2>1. Range(running[Target[c]]) \subseteq Role
    BY ManagedAssumption DEF ManagedBase, ManagedTypeOK, Range
  <2>2. Offering(Range(running[Target[c]])) \in [up : BOOLEAN, offers : SUBSET Role]
    BY <2>1 DEF Offering
  <2>3. reaches' \in [Caller -> 0..MaxReaches]
    BY <1>1, ManagedAssumption DEF ManagedBase, Reach, ManagedTypeOK
  <2>4. channel' \in [Caller -> {"none", "open", "closed"}]
    BY <1>1 DEF ManagedBase, Reach, ManagedTypeOK
  <2>5. ManagedTypeOK'
    BY <1>1, <2>2, <2>3, <2>4 DEF ManagedBase, Reach, managerVars, ManagedTypeOK
  <2> QED
    BY <1>1, <2>5 DEF ManagedBase, Reach, managerVars, PutCount, RunsInOrder
<1>2. CASE LinkLost(c)
  <2>1. ManagedTypeOK'
    BY <1>2, DropsType DEF ManagedBase, LinkLost, managerVars, ManagedTypeOK
  <2> QED
    BY <1>2, <2>1 DEF ManagedBase, LinkLost, managerVars, PutCount, RunsInOrder
<1>3. CASE Ask(c)
  <2>1. seq' \in [Caller -> 0..MaxCalls]
    BY <1>3, ManagedAssumption DEF ManagedBase, Ask, ManagedTypeOK
  <2> QED
    BY <1>3, <2>1 DEF ManagedBase, Ask, managerVars, ManagedTypeOK, PutCount, RunsInOrder
<1>4. CASE Handle(c)
  BY <1>4 DEF ManagedBase, Handle, managerVars, ManagedTypeOK, PutCount, RunsInOrder
<1>5. CASE Returned(c)
  BY <1>5 DEF ManagedBase, Returned, managerVars, ManagedTypeOK, PutCount, RunsInOrder
<1>6. CASE ClientStops(c)
  <2>1. NoLink \in [up : BOOLEAN, offers : SUBSET Role]
    BY DEF NoLink
  <2>2. ManagedTypeOK'
    BY <1>6, <2>1 DEF ManagedBase, ClientStops, managerVars, ManagedTypeOK, MainStage, Node
  <2>3. RunsInOrder'
    BY <1>6, ManagedAssumption DEF ManagedBase, ClientStops, ManagedTypeOK, RunsInOrder, Node
  <2> QED
    BY <1>6, <2>2, <2>3 DEF ManagedBase, ClientStops, managerVars, PutCount
<1> QED
  BY <1>1, <1>2, <1>3, <1>4, <1>5, <1>6

LEMMA BaseStep == ManagedBase /\ [ManagedNext]_managedVars => ManagedBase'
<1>1. ManagedBase /\ UNCHANGED managedVars => ManagedBase'
  BY DEF ManagedBase, managedVars, managerVars, clientVars, ManagedTypeOK, PutCount, RunsInOrder
<1> QED
  BY <1>1, BaseManager, BaseJoining, BaseWorker, BaseClient DEF ManagedNext

\* The variables keep their shapes; no start puts more keys than there are, and no
\* worker runs more roles than it was given.
THEOREM ManagedTypeCorrect == ManagedSpec => []ManagedTypeOK
<1>1. ManagedBase => ManagedTypeOK
  BY DEF ManagedBase
<1> QED
  BY <1>1, BaseInit, BaseStep, PTL DEF ManagedSpec

-----------------------------------------------------------------------------
(***************************************************************************)
(* Reads of the drive.                                                     *)
(***************************************************************************)
\* A manager that serves has put everything, in this start or an earlier one.
LEMMA ServedIsWhole ==
    ASSUME ManagedBase, ReadsWhole, Serving
    PROVE  WholeDrive(Len(drive))
<1>1. put = Len(Keys) /\ \A k \in 1..put : Keys[k] \in On(Len(drive))
  BY DEF ManagedBase, PutCount, ReadsWhole, Serving
<1> QED
  BY <1>1, KeysAreAll DEF WholeDrive

\* A read finds what the version before it had.
LEMMA ReadFinds ==
    ASSUME ManagedBase, NEW p \in Node, WholeDrive(view[p]), NEW v \in 1..Len(drive), v \in view[p]..Len(drive)
    PROVE  WholeDrive(v)
<1>1. drive \in Seq(Role \cup {Registry}) /\ view[p] \in 0..Len(drive)
  BY DEF ManagedBase, ManagedTypeOK
<1> QED
  BY <1>1, OnGrows DEF WholeDrive

\* The next put keeps what is there.
LEMMA SeedKeepsWhole == ASSUME ManagedBase, ReadsWhole, Seed PROVE ReadsWhole'
<1>1. put \in Nat /\ put < Len(Keys) /\ Keys[put + 1] \in Role \cup {Registry}
  BY KeysAreAll DEF ManagedBase, Seed, PutCount, ManagedTypeOK
<1>2. /\ drive' = Append(drive, Keys[put + 1]) /\ put' = put + 1 /\ manager = "seeding"
      /\ UNCHANGED <<mpc, view>>
  BY DEF Seed
<1>3. drive \in Seq(Role \cup {Registry}) /\ view \in [Node -> 0..Len(drive)]
  BY DEF ManagedBase, ManagedTypeOK
<1>4. On(Len(drive))' = On(Len(drive)) \cup {Keys[put + 1]}
  BY <1>1, <1>2, <1>3, OnStays
<1>5. \A k \in 1..put' : Keys[k] \in On(Len(drive))'
  <2>1. \A k \in 1..put : Keys[k] \in On(Len(drive))
    BY <1>2 DEF ReadsWhole
  <2> QED
    BY <1>1, <1>2, <1>4, <2>1
<1>6. ASSUME NEW p \in Node PROVE On(view[p])' = On(view[p])
  <2>1. view[p] \in 0..Len(drive) /\ view' = view
    BY <1>2, <1>3
  <2>2. \A k \in 1..view[p] : drive'[k] = drive[k]
    BY <1>1, <1>2, <1>3, <2>1
  <2> QED
    BY <2>1, <2>2 DEF On
<1> QED
  BY <1>2, <1>5, <1>6 DEF ReadsWhole, WholeDrive

\* Where nothing is put, it is enough that who goes on reading had a whole version
\* or comes to a whole one.
LEMMA StaysWhole ==
    ASSUME ReadsWhole, drive' = drive, put' = put, manager' # "off" => manager # "off" \/ put = 0,
           \A p \in Node : mpc'[p] \in {"registry", "pulling"} =>
              \/ mpc[p] \in {"registry", "pulling"} /\ view'[p] = view[p]
              \/ WholeDrive(view'[p])
    PROVE  ReadsWhole'
<1>1. ASSUME NEW p \in Node, mpc'[p] \in {"registry", "pulling"} PROVE WholeDrive(view'[p])
  BY <1>1 DEF ReadsWhole
<1>2. \A p \in Node : WholeDrive(view'[p]) => WholeDrive(view[p])'
  BY DEF WholeDrive, On
<1>3. manager' # "off" => \A k \in 1..put : Keys[k] \in On(Len(drive))
  BY DEF ReadsWhole
<1>4. manager' # "off" => \A k \in 1..put' : Keys[k] \in On(Len(drive))'
  BY <1>3 DEF On
<1> QED
  BY <1>1, <1>2, <1>4 DEF ReadsWhole

\* A read by p is of a whole version.
LEMMA ReadStaysWhole ==
    ASSUME ManagedBase, ReadsWhole, NEW p \in Node, ReadRegistry(p) \/ (p \in Worker /\ RunRole(p))
    PROVE  ReadsWhole'
<1>1. PICK v \in 1..Len(drive) : v \in view[p]..Len(drive) /\ view' = [view EXCEPT ![p] = v]
  BY DEF ReadRegistry, RunRole, ReadAt
<1>2. mpc[p] \in {"registry", "pulling"} /\ UNCHANGED managerVars
  BY DEF ReadRegistry, RunRole
<1>3. WholeDrive(v)
  BY <1>1, <1>2, ReadFinds DEF ReadsWhole
<1>4. \A q \in Node \ {p} : mpc'[q] = mpc[q] /\ view'[q] = view[q]
  BY <1>1 DEF ManagedBase, ManagedTypeOK, ReadRegistry, RunRole
<1>5. view'[p] = v
  BY <1>1 DEF ManagedBase, ManagedTypeOK
<1> QED
  BY <1>2, <1>3, <1>4, <1>5, StaysWhole DEF managerVars

\* An update brings everything, and whoever then reads finds everything.
LEMMA ReadsWholeStep == ManagedBase /\ ReadsWhole /\ [ManagedNext]_managedVars => ReadsWhole'
<1> SUFFICES ASSUME ManagedBase, ReadsWhole, [ManagedNext]_managedVars PROVE ReadsWhole'
  OBVIOUS
<1>1. CASE ManagerStarts
  <2>1. drive' = drive /\ put' = 0 /\ UNCHANGED <<mpc, view>>
    BY <1>1 DEF ManagerStarts
  <2> QED
    BY <2>1 DEF ReadsWhole, WholeDrive, On
<1>2. CASE ManagerStops
  BY <1>2, StaysWhole DEF ManagerStops
<1>3. ASSUME NEW p \in Node, Joins(p) PROVE ReadsWhole'
  <2>1. \A q \in Node : mpc'[q] = mpc[q] \/ mpc'[q] = "joining"
    BY <1>3 DEF ManagedBase, ManagedTypeOK, Joins
  <2> QED
    BY <1>3, <2>1, StaysWhole DEF Joins, managerVars
<1>4. ASSUME NEW p \in Node, Update(p) PROVE ReadsWhole'
  <2>1. WholeDrive(Len(drive))
    BY <1>4, ServedIsWhole DEF Update
  <2>2. \A q \in Node : (mpc'[q] = mpc[q] /\ view'[q] = view[q]) \/ view'[q] = Len(drive)
    BY <1>4 DEF ManagedBase, ManagedTypeOK, Update
  <2> QED
    BY <1>4, <2>1, <2>2, StaysWhole DEF Update, managerVars
<1>5. ASSUME NEW w \in Worker, WorkerStops(w) PROVE ReadsWhole'
  <2>1. \A q \in Node : (mpc'[q] = mpc[q] /\ view'[q] = view[q]) \/ mpc'[q] = "off"
    BY <1>5 DEF ManagedBase, ManagedTypeOK, WorkerStops
  <2> QED
    BY <1>5, <2>1, StaysWhole DEF WorkerStops, managerVars
<1>6. ASSUME NEW c \in Caller, ClientStops(c) PROVE ReadsWhole'
  <2>1. \A q \in Node : (mpc'[q] = mpc[q] /\ view'[q] = view[q]) \/ mpc'[q] = "off"
    BY <1>6 DEF ManagedBase, ManagedTypeOK, ClientStops
  <2> QED
    BY <1>6, <2>1, StaysWhole DEF ClientStops, managerVars
<1>7. ASSUME NEW c \in Caller,
             Reach(c) \/ LinkLost(c) \/ Ask(c) \/ Handle(c) \/ Returned(c) PROVE ReadsWhole'
  <2>1. UNCHANGED <<managerVars, mpc, view>>
    BY <1>7 DEF Reach, LinkLost, Ask, Handle, Returned
  <2> QED
    BY <2>1, StaysWhole DEF managerVars
<1>8. CASE UNCHANGED managedVars
  BY <1>8, StaysWhole DEF managedVars, managerVars
<1>9. \A w \in Worker : w \in Node
  BY DEF Node
<1> QED
  BY <1>1, <1>2, <1>3, <1>4, <1>5, <1>6, <1>7, <1>8, <1>9, SeedKeepsWhole, ReadStaysWhole DEF ManagedNext

\* Nobody who reads the drive finds something missing, however often the manager
\* was stopped while it was seeding.
NobodyFails == ManagedBase /\ ReadsWhole /\ NeverFatal

LEMMA NobodyFailsStep == NobodyFails /\ [ManagedNext]_managedVars => NobodyFails'
<1> SUFFICES ASSUME NobodyFails, [ManagedNext]_managedVars PROVE NeverFatal'
  BY BaseStep, ReadsWholeStep DEF NobodyFails
<1>1. ASSUME NEW p \in Node, ReadRegistry(p) PROVE NeverFatal'
  <2>1. PICK v \in 1..Len(drive) :
           /\ v \in view[p]..Len(drive)
           /\ mpc' = [mpc EXCEPT ![p] = IF Registry \in On(v) THEN Onwards(p) ELSE "fatal"]
    BY <1>1 DEF ReadRegistry, ReadAt
  <2>2. mpc[p] = "registry"
    BY <1>1 DEF ReadRegistry
  <2>3. Registry \in On(v)
    BY <2>1, <2>2, ReadFinds DEF NobodyFails, ReadsWhole, WholeDrive
  <2>4. mpc' = [mpc EXCEPT ![p] = Onwards(p)] /\ Onwards(p) # "fatal"
    BY <2>1, <2>3 DEF Onwards
  <2> QED
    BY <2>4 DEF NobodyFails, ManagedBase, ManagedTypeOK, NeverFatal
<1>2. ASSUME NEW w \in Worker, RunRole(w) PROVE NeverFatal'
  <2> DEFINE role == RolesOf[w][Len(running[w]) + 1]
  <2>1. PICK v \in 1..Len(drive) :
           /\ v \in view[w]..Len(drive)
           /\ role \in On(v) => mpc' = [mpc EXCEPT ![w] =
                IF Len(running[w]) + 1 = Len(RolesOf[w]) THEN "up" ELSE "pulling"]
    BY <1>2 DEF RunRole, ReadAt
  <2>2. mpc[w] = "pulling" /\ w \in Node
    BY <1>2 DEF RunRole, Node
  <2>3. role \in Role
    BY <2>2, PullsNext DEF NobodyFails
  <2>4. role \in On(v)
    BY <2>1, <2>2, <2>3, ReadFinds DEF NobodyFails, ReadsWhole, WholeDrive
  <2> QED
    BY <2>1, <2>4 DEF NobodyFails, ManagedBase, ManagedTypeOK, NeverFatal
<1>3. CASE ManagerStarts \/ Seed \/ ManagerStops \/ UNCHANGED managedVars
  BY <1>3 DEF ManagerStarts, Seed, ManagerStops, managedVars, NobodyFails, NeverFatal
<1>4. ASSUME NEW p \in Node, Joins(p) \/ Update(p) PROVE NeverFatal'
  BY <1>4 DEF Joins, Update, NobodyFails, ManagedBase, ManagedTypeOK, NeverFatal
<1>5. ASSUME NEW w \in Worker, WorkerStops(w) PROVE NeverFatal'
  BY <1>5 DEF WorkerStops, NobodyFails, ManagedBase, ManagedTypeOK, NeverFatal
<1>6. ASSUME NEW c \in Caller,
             Reach(c) \/ LinkLost(c) \/ Ask(c) \/ Handle(c) \/ Returned(c) PROVE NeverFatal'
  BY <1>6 DEF Reach, LinkLost, Ask, Handle, Returned, NobodyFails, NeverFatal
<1>7. ASSUME NEW c \in Caller, ClientStops(c) PROVE NeverFatal'
  BY <1>7 DEF ClientStops, NobodyFails, ManagedBase, ManagedTypeOK, NeverFatal
<1> QED
  BY <1>1, <1>2, <1>3, <1>4, <1>5, <1>6, <1>7 DEF ManagedNext

\* Whatever the manager's starts and stops, no worker and no client finds the
\* registry or one of its roles missing on the drive it has got hold of.
THEOREM ReadsNeverFail == ManagedSpec => []NeverFatal
<1>1. ManagedInit => ReadsWhole /\ NeverFatal
  BY DEF ManagedInit, ReadsWhole, NeverFatal
<1>2. NobodyFails => NeverFatal
  BY DEF NobodyFails
<1> QED
  BY <1>1, <1>2, BaseInit, NobodyFailsStep, PTL DEF ManagedSpec, NobodyFails

-----------------------------------------------------------------------------
(***************************************************************************)
(* Channels.                                                               *)
(***************************************************************************)
\* The role that client c calls is the first its worker runs.
CallsFirst(c) == RolesOf[Target[c]] # <<>> /\ Service[c] = RolesOf[Target[c]][1]

\* What a worker that listens offers includes the first of its roles.
LEMMA FirstIsOffered ==
    ASSUME ManagedBase, NEW c \in Caller, Listens(Target[c]), CallsFirst(c)
    PROVE  Service[c] \in Range(running[Target[c]])
<1> DEFINE w == Target[c]
<1>1. w \in Worker
  BY ManagedAssumption
<1>2. running[w] \in Seq(Role) /\ running[w] # <<>>
  BY <1>1 DEF ManagedBase, ManagedTypeOK, Listens
<1>3. Len(running[w]) \in Nat /\ Len(running[w]) >= 1
  BY <1>2
<1>4. running[w][1] = RolesOf[w][1]
  BY <1>1, <1>3 DEF ManagedBase, RunsInOrder
<1> QED
  BY <1>2, <1>3, <1>4 DEF CallsFirst, Range

\* The channel of a client of the first role is closed with its connection only.
ServedFirst == ManagedBase /\ FirstRoleIsServed

LEMMA ServedFirstStep == ServedFirst /\ [ManagedNext]_managedVars => ServedFirst'
<1> SUFFICES ASSUME ServedFirst, [ManagedNext]_managedVars,
                    NEW c \in Caller, CallsFirst(c), channel'[c] = "closed"
             PROVE  lost'[c]
  BY BaseStep DEF ServedFirst, FirstRoleIsServed, CallsFirst
<1>1. channel[c] = "closed" => lost[c]
  BY DEF ServedFirst, FirstRoleIsServed, CallsFirst
<1>2. ASSUME NEW d \in Caller, Reach(d) PROVE lost'[c]
  <2>1. c = d => Service[c] \in Range(running[Target[c]])
    BY <1>2, FirstIsOffered DEF Reach, ServedFirst
  <2> QED
    BY <1>1, <1>2, <2>1 DEF Reach, ServedFirst, ManagedBase, ManagedTypeOK
<1>3. ASSUME NEW cs, Drops(cs) PROVE lost'[c]
  BY <1>1, <1>3 DEF Drops
<1>4. ASSUME NEW d \in Caller, LinkLost(d) PROVE lost'[c]
  BY <1>3, <1>4 DEF LinkLost
<1>5. ASSUME NEW w \in Worker, WorkerStops(w) PROVE lost'[c]
  BY <1>3, <1>5 DEF WorkerStops
<1>6. ASSUME NEW d \in Caller, ClientStops(d) PROVE lost'[c]
  BY <1>1, <1>6 DEF ClientStops, ServedFirst, ManagedBase, ManagedTypeOK
<1>7. ASSUME UNCHANGED <<channel, lost>> PROVE lost'[c]
  BY <1>1, <1>7
<1>8. ASSUME NEW d \in Caller, Ask(d) \/ Handle(d) \/ Returned(d) PROVE lost'[c]
  BY <1>7, <1>8 DEF Ask, Handle, Returned
<1>9. ASSUME NEW p \in Node, Joins(p) \/ Update(p) \/ ReadRegistry(p) PROVE lost'[c]
  BY <1>7, <1>9 DEF Joins, Update, ReadRegistry, clientVars
<1>10. ASSUME NEW w \in Worker, RunRole(w) PROVE lost'[c]
  BY <1>7, <1>10 DEF RunRole, clientVars
<1>11. CASE ManagerStarts \/ Seed \/ ManagerStops \/ UNCHANGED managedVars
  BY <1>7, <1>11 DEF ManagerStarts, Seed, ManagerStops, managedVars, clientVars
<1> QED
  BY <1>2, <1>4, <1>5, <1>6, <1>8, <1>9, <1>10, <1>11 DEF ManagedNext

\* A connection made while the worker still pulls offers the first of its roles:
\* a client of that role has a channel that only the loss of the connection ends.
THEOREM FirstRoleServed == ManagedSpec => []FirstRoleIsServed
<1>1. ManagedInit => FirstRoleIsServed
  BY DEF ManagedInit, FirstRoleIsServed
<1>2. ServedFirst => FirstRoleIsServed
  BY DEF ServedFirst
<1> QED
  BY <1>1, <1>2, BaseInit, ServedFirstStep, PTL DEF ManagedSpec, ServedFirst

-----------------------------------------------------------------------------
(***************************************************************************)
(* One program at a time.                                                  *)
(***************************************************************************)
\* A behaviour of one of the programs is a behaviour of each of the modules: the
\* variables of the others stay what they are.
LEMMA OneOfThem ==
    /\ MCSpec => RoutingSpec
    /\ MCSpec => MeshSpec
    /\ MCSpec => ManagedSpec
<1>1. MCInit => RoutingInit /\ MeshInit /\ ManagedInit
  BY DEF MCInit
<1>2. [MCNext]_vars => [RoutingNext]_routingVars
  BY DEF MCNext, vars
<1>3. [MCNext]_vars => [MeshNext]_meshVars
  BY DEF MCNext, vars
<1>4. [MCNext]_vars => [ManagedNext]_managedVars
  BY DEF MCNext, vars
<1> QED BY <1>1, <1>2, <1>3, <1>4, PTL DEF MCSpec, RoutingSpec, MeshSpec, ManagedSpec

\* The shapes of the variables of the three modules.
THEOREM NodesTypeCorrect == MCSpec => []NodesTypeOK
<1>1. RoutingTypeOK /\ MeshTypeOK /\ ManagedTypeOK => NodesTypeOK
  BY DEF NodesTypeOK
<1> QED BY <1>1, OneOfThem, RoutingTypeCorrect, MeshTypeCorrect, ManagedTypeCorrect, PTL
=============================================================================
