---------------------------- MODULE Page_proofs ----------------------------
(***************************************************************************)
(* What the two browser pages show, for any files, apps and panels of the  *)
(* world view, any number of requests under way and any clicks.            *)
(***************************************************************************)
EXTENDS MCPage, FiniteSetTheorems, SequenceTheorems, TLAPS

PathPanel == {"listing", "fcontent"}

IsRequest(r) ==
    /\ r = Request(r.api, r.arg, r.into, r.held)
    /\ r.into # "bc"
    /\ r.into \in PathPanel => r.api \in {"ls", "file"}

\* Requests under way: none is for the breadcrumb, and those for a listing or a file ask
\* for one.
Sent(rs) ==
    /\ rs \in Seq({rs[k] : k \in 1..Len(rs)})
    /\ \A k \in 1..Len(rs) : IsRequest(rs[k])

\* The last request for a panel is for this path.
LastAsks(rs, id, p) ==
    \E k \in 1..Len(rs) :
        /\ rs[k].into = id /\ rs[k].arg = p
        /\ \A j \in (k + 1)..Len(rs) : rs[j].into # id

NoneAsks(rs, id) == \A k \in 1..Len(rs) : rs[k].into # id

\* Where no answer was overtaken, a panel of the path either waits for an answer, and
\* the last one to come is for the path in the breadcrumb, or shows it.
Waits ==
    ~ overtaken =>
        \A id \in OfPath :
            \/ LastAsks(requests, id, panels["bc"].arg)
            \/ /\ NoneAsks(requests, id)
               /\ panels[id].arg = panels["bc"].arg /\ panels[id] # Loading

PageInv ==
    /\ Sent(requests)
    /\ OfPath # {} => "bc" \in DOMAIN panels
    /\ Waits

-----------------------------------------------------------------------------
(***************************************************************************)
(* Sequences of requests.                                                  *)
(***************************************************************************)
\* Requests may be typed by any set they are in.
LEMMA SentIn ==
    ASSUME NEW S, NEW rs \in Seq(S), \A k \in 1..Len(rs) : IsRequest(rs[k])
    PROVE  Sent(rs)
<1>1. rs \in [1..Len(rs) -> {rs[k] : k \in 1..Len(rs)}] /\ Len(rs) \in Nat
  BY LenProperties
<1>2. rs \in Seq({rs[k] : k \in 1..Len(rs)})
  BY <1>1, SeqDef
<1> QED
  BY <1>2 DEF Sent

\* What Request makes is such a request, unless it is for the breadcrumb or asks a
\* panel of the path for something other than a listing or a file.
LEMMA IsAsk ==
    ASSUME NEW api, NEW arg, NEW into, NEW held,
           into # "bc", into \in PathPanel => api \in {"ls", "file"}
    PROVE  IsRequest(Request(api, arg, into, held))
<1> DEFINE r == Request(api, arg, into, held)
<1>1. r.api = api /\ r.arg = arg /\ r.into = into /\ r.held = held
  BY DEF Request
<1>2. r = Request(r.api, r.arg, r.into, r.held)
  BY <1>1
<1> HIDE DEF r
<1>3. IsRequest(r)
  BY <1>1, <1>2 DEF IsRequest
<1> QED
  BY <1>3 DEF r

\* One request, and two.
LEMMA OneSent ==
    ASSUME NEW r, IsRequest(r)
    PROVE  Sent(<<r>>) /\ Len(<<r>>) = 1 /\ LastAsks(<<r>>, r.into, r.arg)
<1> DEFINE rs == <<r>>
<1>1. rs \in Seq({r}) /\ Len(rs) = 1 /\ rs[1] = r
  OBVIOUS
<1> HIDE DEF rs
<1>2. Sent(rs)
  BY <1>1, SentIn
<1>3. LastAsks(rs, r.into, r.arg)
  BY <1>1 DEF LastAsks
<1> QED
  BY <1>1, <1>2, <1>3 DEF rs

LEMMA TwoSent ==
    ASSUME NEW q, NEW r, IsRequest(q), IsRequest(r)
    PROVE  Sent(<<q, r>>) /\ LastAsks(<<q, r>>, r.into, r.arg)
<1> DEFINE rs == <<q, r>>
<1>1. rs \in Seq({q, r}) /\ Len(rs) = 2 /\ rs[1] = q /\ rs[2] = r
  OBVIOUS
<1> HIDE DEF rs
<1>2. Sent(rs)
  BY <1>1, SentIn
<1>3. LastAsks(rs, r.into, r.arg)
  BY <1>1 DEF LastAsks
<1> QED
  BY <1>2, <1>3 DEF rs

\* What is known of each panel when more is sent.
Joins(qs, bs, cs) ==
    /\ Sent(cs)
    /\ \A id, p : LastAsks(bs, id, p) => LastAsks(cs, id, p)
    /\ \A id, p : LastAsks(qs, id, p) /\ NoneAsks(bs, id) => LastAsks(cs, id, p)
    /\ \A id : NoneAsks(qs, id) /\ NoneAsks(bs, id) => NoneAsks(cs, id)

LEMMA Joined ==
    ASSUME NEW qs, NEW bs, Sent(qs), Sent(bs)
    PROVE  Joins(qs, bs, qs \o bs)
<1> DEFINE S == {qs[k] : k \in 1..Len(qs)} \cup {bs[k] : k \in 1..Len(bs)}
           A == Len(qs)
           B == Len(bs)
           cs == qs \o bs
<1>1. qs \in Seq(S) /\ bs \in Seq(S)
  BY SeqMonotonic DEF Sent
<1>2. A \in Nat /\ B \in Nat
  BY <1>1, LenProperties
<1>3. /\ cs \in Seq(S) /\ Len(cs) = A + B
      /\ \A i \in 1..(A + B) : cs[i] = IF i <= A THEN qs[i] ELSE bs[i - A]
  BY <1>1, ConcatProperties
<1>4. (\A k \in 1..A : IsRequest(qs[k])) /\ (\A k \in 1..B : IsRequest(bs[k]))
  BY DEF Sent
<1> HIDE DEF cs, S, A, B
<1>0. \A i \in 1..(A + B) : cs[i] = IF i <= A THEN qs[i] ELSE bs[i - A]
  BY <1>3
<1>a. cs \in Seq(S)
  BY <1>3
<1>b. Len(cs) = A + B
  BY <1>3
<1>5. \A k \in 1..A : cs[k] = qs[k]
  <2> TAKE k \in 1..A
  <2>1. k \in 1..(A + B) /\ k <= A
    BY <1>2
  <2> QED
    BY <1>0, <2>1
<1>6. \A k \in 1..B : A + k \in 1..(A + B) /\ cs[A + k] = bs[k]
  <2> TAKE k \in 1..B
  <2>1. A + k \in 1..(A + B) /\ ~ (A + k <= A) /\ (A + k) - A = k
    BY <1>2
  <2> QED
    BY <1>0, <2>1
<1>7. \A k \in 1..(A + B) : k \in 1..A \/ (k - A \in 1..B /\ k = A + (k - A))
  BY <1>2
<1>8. \A k \in 1..Len(cs) : IsRequest(cs[k])
  <2> SUFFICES ASSUME NEW k \in 1..(A + B) PROVE IsRequest(cs[k])
    BY <1>b
  <2>1. CASE k \in 1..A
    BY <1>4, <1>5, <2>1
  <2>2. CASE k - A \in 1..B /\ k = A + (k - A)
    <3>1. PICK j \in 1..B : k = A + j
      BY <2>2
    <3> QED
      BY <1>4, <1>6, <3>1
  <2> QED
    BY <1>7, <2>1, <2>2
<1>9. Sent(cs)
  BY <1>a, <1>8, SentIn
<1>10. ASSUME NEW id, NEW p, LastAsks(bs, id, p) PROVE LastAsks(cs, id, p)
  <2>1. PICK k \in 1..B : bs[k].into = id /\ bs[k].arg = p /\ \A j \in (k + 1)..B : bs[j].into # id
    BY <1>10 DEF LastAsks, B
  <2>2. \A j \in (A + k + 1)..(A + B) : j - A \in (k + 1)..B /\ cs[j] = bs[j - A]
    <3> TAKE j \in (A + k + 1)..(A + B)
    <3>1. j \in 1..(A + B) /\ ~ (j <= A) /\ j - A \in (k + 1)..B
      BY <1>2, <2>1
    <3> QED
      BY <1>0, <3>1
  <2>3. A + k \in 1..(A + B) /\ cs[A + k] = bs[k]
    BY <1>6, <2>1
  <2> QED
    BY <1>b, <2>1, <2>2, <2>3 DEF LastAsks
<1>11. ASSUME NEW id, NEW p, LastAsks(qs, id, p), NoneAsks(bs, id) PROVE LastAsks(cs, id, p)
  <2>1. PICK k \in 1..A : qs[k].into = id /\ qs[k].arg = p /\ \A j \in (k + 1)..A : qs[j].into # id
    BY <1>11 DEF LastAsks, A
  <2>2. \A j \in 1..B : bs[j].into # id
    BY <1>11 DEF NoneAsks, B
  <2>3. \A j \in (k + 1)..(A + B) : cs[j].into # id
    <3> TAKE j \in (k + 1)..(A + B)
    <3>1. CASE j <= A
      <4>1. j \in 1..A /\ j \in (k + 1)..A
        BY <1>2, <2>1, <3>1
      <4> QED
        BY <1>5, <2>1, <4>1
    <3>2. CASE ~ (j <= A)
      <4>1. j \in 1..(A + B) /\ j - A \in 1..B
        BY <1>2, <2>1, <3>2
      <4>2. cs[j] = bs[j - A]
        BY <1>0, <3>2, <4>1
      <4> QED
        BY <2>2, <4>1, <4>2
    <3> QED
      BY <3>1, <3>2
  <2>4. k \in 1..(A + B)
    BY <1>2, <2>1
  <2>5. cs[k] = qs[k]
    BY <1>5, <2>1
  <2> QED
    BY <1>b, <2>5, <2>1, <2>3, <2>4 DEF LastAsks
<1>12. ASSUME NEW id, NoneAsks(qs, id), NoneAsks(bs, id) PROVE NoneAsks(cs, id)
  <2>1. (\A j \in 1..A : qs[j].into # id) /\ (\A j \in 1..B : bs[j].into # id)
    BY <1>12 DEF NoneAsks, A, B
  <2>2. \A j \in 1..(A + B) : cs[j].into # id
    <3> TAKE j \in 1..(A + B)
    <3>1. CASE j \in 1..A
      BY <1>5, <2>1, <3>1
    <3>2. CASE j - A \in 1..B /\ j = A + (j - A)
      <4>1. PICK i \in 1..B : j = A + i
        BY <3>2
      <4> QED
        BY <1>6, <2>1, <4>1
    <3> QED
      BY <1>7, <3>1, <3>2
  <2> QED
    BY <1>b, <2>2 DEF NoneAsks
<1>13. Joins(qs, bs, cs)
  BY <1>9, <1>10, <1>11, <1>12 DEF Joins
<1> QED
  BY <1>13 DEF cs

\* What is known of each panel when one answer has come.
Leaves(rs, k, new) ==
    /\ Sent(new)
    /\ \A id : NoneAsks(rs, id) => NoneAsks(new, id)
    /\ \A id, p : LastAsks(rs, id, p) /\ rs[k].into # id => LastAsks(new, id, p)
    /\ \A id, p : LastAsks(rs, id, p) /\ (\A j \in 1..(k - 1) : rs[j].into # id) =>
          LastAsks(new, id, p) \/ (NoneAsks(new, id) /\ rs[k].into = id /\ rs[k].arg = p)

LEMMA Removed ==
    ASSUME NEW rs, Sent(rs), NEW k \in 1..Len(rs)
    PROVE  Leaves(rs, k, RemoveAt(rs, k))
<1> DEFINE S == {rs[j] : j \in 1..Len(rs)}
           N == Len(rs)
           before == SubSeq(rs, 1, k - 1)
           after == SubSeq(rs, k + 1, N)
           new == before \o after
<1>1. rs \in Seq(S) /\ N \in Nat /\ k \in 1..N /\ k \in Int
  BY LenProperties DEF Sent
<1>2. before \in Seq(S) /\ Len(before) = k - 1 /\ \A i \in 1..(k - 1) : before[i] = rs[i]
  <2>1. \A i \in 1..(k - 1) : rs[i] \in S
    BY <1>1
  <2> HIDE DEF S
  <2> QED
    BY <1>1, <2>1, SubSeqProperties
<1>3. after \in Seq(S) /\ Len(after) = N - k /\ \A i \in 1..(N - k) : after[i] = rs[k + i]
  <2>1. \A i \in (k + 1)..N : rs[i] \in S
    BY <1>1
  <2> HIDE DEF S
  <2> QED
    BY <1>1, <2>1, SubSeqProperties
<1> DEFINE P == Len(before)
           Q == Len(after)
<1> HIDE DEF S, before, after
<1>a. /\ new \in Seq(S) /\ Len(new) = P + Q
      /\ \A i \in 1..(P + Q) : new[i] = IF i <= P THEN before[i] ELSE after[i - P]
  BY <1>2, <1>3, ConcatProperties
<1>b. P = k - 1 /\ Q = N - k
  BY <1>2, <1>3
<1> HIDE DEF new, N, P, Q
<1>c. P + Q = N - 1
  BY <1>1, <1>b
<1>4. Len(new) = N - 1
  BY <1>a, <1>c
<1>5. \A i \in 1..(N - 1) : new[i] = IF i <= k - 1 THEN before[i] ELSE after[i - (k - 1)]
  BY <1>a, <1>b, <1>c
<1>6. \A i \in 1..(k - 1) : i \in 1..(N - 1) /\ new[i] = rs[i]
  <2> TAKE i \in 1..(k - 1)
  <2>1. i \in 1..(N - 1) /\ i <= k - 1
    BY <1>1
  <2>2. before[i] = rs[i]
    BY <1>2
  <2>3. new[i] = before[i]
    BY <1>5, <2>1
  <2> QED
    BY <2>1, <2>2, <2>3
<1>7. \A i \in k..(N - 1) : i \in 1..(N - 1) /\ i + 1 \in 1..N /\ new[i] = rs[i + 1]
  <2> TAKE i \in k..(N - 1)
  <2>1. i \in 1..(N - 1) /\ ~ (i <= k - 1) /\ i - (k - 1) \in 1..(N - k) /\ i + 1 \in 1..N
    BY <1>1
  <2>2. after[i - (k - 1)] = rs[k + (i - (k - 1))] /\ k + (i - (k - 1)) = i + 1
    BY <1>1, <1>3, <2>1
  <2> QED
    BY <1>5, <2>1, <2>2
<1>8. \A i \in 1..(N - 1) : i \in 1..(k - 1) \/ i \in k..(N - 1)
  BY <1>1
<1>9. \A j \in 1..N : IsRequest(rs[j])
  BY DEF Sent, N
<1>10. Sent(new)
  <2>1. ASSUME NEW i \in 1..(N - 1) PROVE IsRequest(new[i])
    <3>1. CASE i \in 1..(k - 1)
      <4>1. i \in 1..N /\ new[i] = rs[i]
        BY <1>1, <1>6, <3>1
      <4> QED
        BY <1>9, <4>1
    <3>2. CASE i \in k..(N - 1)
      <4>1. i + 1 \in 1..N /\ new[i] = rs[i + 1]
        BY <1>7, <3>2
      <4> QED
        BY <1>9, <4>1
    <3> QED
      BY <1>8, <3>1, <3>2
  <2>2. new \in Seq(S)
    BY <1>a
  <2>3. \A i \in 1..Len(new) : IsRequest(new[i])
    BY <1>4, <2>1
  <2> QED
    BY <2>2, <2>3, SentIn
<1>11. ASSUME NEW id, NoneAsks(rs, id) PROVE NoneAsks(new, id)
  <2>1. \A j \in 1..N : rs[j].into # id
    BY <1>11 DEF NoneAsks, N
  <2>2. \A j \in 1..(N - 1) : new[j].into # id
    BY <1>1, <1>6, <1>7, <1>8, <2>1
  <2> QED
    BY <1>4, <2>2 DEF NoneAsks
<1>12. ASSUME NEW id, NEW p, NEW l \in 1..N, l # k, rs[l].into = id, rs[l].arg = p,
              \A j \in (l + 1)..N : rs[j].into # id
       PROVE  LastAsks(new, id, p)
  <2>1. CASE l < k
    <3>1. l \in 1..(N - 1) /\ new[l] = rs[l]
      BY <1>1, <1>6, <2>1
    <3>2. \A j \in (l + 1)..(N - 1) : new[j].into # id
      <4> TAKE j \in (l + 1)..(N - 1)
      <4>1. \/ j \in 1..(k - 1) /\ j \in (l + 1)..N
            \/ j \in k..(N - 1) /\ j + 1 \in (l + 1)..N
        BY <1>1, <2>1
      <4> QED
        BY <1>6, <1>7, <1>12, <4>1
    <3> QED
      BY <1>4, <1>12, <3>1, <3>2 DEF LastAsks
  <2>2. CASE l > k
    <3>1. l - 1 \in k..(N - 1)
      BY <1>1, <2>2
    <3>2. l - 1 \in 1..(N - 1) /\ new[l - 1] = rs[l]
      <4>1. new[l - 1] = rs[(l - 1) + 1] /\ (l - 1) + 1 = l /\ l - 1 \in 1..(N - 1)
        BY <1>1, <1>7, <3>1
      <4> QED
        BY <4>1
    <3>3. \A j \in l..(N - 1) : new[j].into # id
      <4> TAKE j \in l..(N - 1)
      <4>1. j \in k..(N - 1) /\ j + 1 \in (l + 1)..N
        BY <1>1, <2>2
      <4> QED
        BY <1>7, <1>12, <4>1
    <3>4. (l - 1) + 1 = l
      BY <1>1
    <3> QED
      BY <1>4, <1>12, <3>2, <3>3, <3>4 DEF LastAsks
  <2> QED
    BY <1>1, <1>12, <2>1, <2>2
<1>13. ASSUME NEW id, NEW p, LastAsks(rs, id, p) PROVE
          /\ rs[k].into # id => LastAsks(new, id, p)
          /\ (\A j \in 1..(k - 1) : rs[j].into # id) =>
                LastAsks(new, id, p) \/ (NoneAsks(new, id) /\ rs[k].into = id /\ rs[k].arg = p)
  <2>1. PICK l \in 1..N : rs[l].into = id /\ rs[l].arg = p /\ \A j \in (l + 1)..N : rs[j].into # id
    BY <1>13 DEF LastAsks, N
  <2>2. CASE l # k
    BY <1>12, <2>1, <2>2
  <2>3. CASE l = k
    <3>1. ASSUME \A j \in 1..(k - 1) : rs[j].into # id PROVE NoneAsks(new, id)
      <4>1. \A i \in k..(N - 1) : i + 1 \in (k + 1)..N
        BY <1>1
      <4>2. \A i \in 1..(N - 1) : new[i].into # id
        BY <1>6, <1>7, <1>8, <2>1, <2>3, <3>1, <4>1
      <4> QED
        BY <1>4, <4>2 DEF NoneAsks
    <3> QED
      BY <2>1, <2>3, <3>1
  <2> QED
    BY <2>2, <2>3
<1>14. Leaves(rs, k, new)
  BY <1>10, <1>11, <1>13 DEF Leaves
<1>15. RemoveAt(rs, k) = new
  BY DEF RemoveAt, new, before, after, N
<1> QED
  BY <1>14, <1>15

\* Requests whose element has left the page are still under way.
LEMMA Detached == ASSUME NEW rs, Sent(rs), NEW ids PROVE Sent(Detach(rs, ids))
<1> DEFINE N == Len(rs)
           new == Detach(rs, ids)
           S == {new[k] : k \in 1..N}
<1>1. N \in Nat /\ DOMAIN rs = 1..N
  BY LenProperties DEF Sent
<1>2. new = [k \in 1..N |-> IF rs[k].held /\ rs[k].into \in ids
                            THEN [rs[k] EXCEPT !.into = Nowhere] ELSE rs[k]]
  BY <1>1 DEF Detach
<1> HIDE DEF new
<1>3. new \in [1..N -> S]
  BY <1>2
<1>4. new \in Seq(S) /\ Len(new) = N
  <2>1. new \in Seq(S)
    BY <1>1, <1>3, SeqDef
  <2> QED
    BY <1>1, <1>3, <2>1, LenProperties
<1>5. \A k \in 1..N : IsRequest(new[k])
  <2> TAKE k \in 1..N
  <2>1. IsRequest(rs[k])
    BY DEF Sent
  <2>2. CASE rs[k].held /\ rs[k].into \in ids
    <3>1. new[k] = [rs[k] EXCEPT !.into = Nowhere]
      BY <1>2, <2>2
    <3>2. new[k] = Request(rs[k].api, rs[k].arg, Nowhere, rs[k].held)
      BY <2>1, <3>1 DEF IsRequest, Request
    <3> QED
      BY <3>2, IsAsk DEF Nowhere, PathPanel
  <2>3. CASE ~ (rs[k].held /\ rs[k].into \in ids)
    BY <1>2, <2>1, <2>3
  <2> QED
    BY <2>2, <2>3
<1> QED
  BY <1>4, <1>5, SentIn DEF new

-----------------------------------------------------------------------------
(***************************************************************************)
(* The steps that both pages are made of.                                  *)
(***************************************************************************)
\* A view is rendered: what it has of the path it asks for last.
LEMMA RenderStep ==
    ASSUME PageInv, NEW view, NEW dom, NEW rs, Render(view, dom, rs), Sent(rs),
           PathPanel \cap DOMAIN dom # {} => "bc" \in DOMAIN dom,
           \A id \in PathPanel \cap DOMAIN dom : LastAsks(rs, id, dom["bc"].arg)
    PROVE  PageInv'
<1> DEFINE old == Detach(requests, DOMAIN panels)
<1>1. panels' = dom /\ requests' = old \o rs
  BY DEF Render
<1>2. Sent(old)
  BY Detached DEF PageInv
<1> HIDE DEF old
<1>3. Joins(old, rs, old \o rs)
  BY <1>2, Joined
<1>4. OfPath' = PathPanel \cap DOMAIN dom
  BY <1>1 DEF OfPath, PathPanel
<1>5. \A id \in OfPath' : LastAsks(requests', id, panels'["bc"].arg)
  BY <1>1, <1>3, <1>4 DEF Joins
<1>6. Sent(requests')
  BY <1>1, <1>3 DEF Joins
<1> QED
  BY <1>1, <1>4, <1>5, <1>6 DEF PageInv, Waits

\* More is asked for, of no panel of the path, and the panels of the path stay.
LEMMA AskStep ==
    ASSUME PageInv, NEW r, IsRequest(r), r.into \notin PathPanel,
           requests' = Append(requests, r), overtaken' = overtaken,
           DOMAIN panels' = DOMAIN panels,
           \A id \in PathPanel \cup {"bc"} : id \in DOMAIN panels => panels'[id] = panels[id]
    PROVE  PageInv'
<1> DEFINE more == <<r>>
<1>1. Sent(more) /\ Len(more) = 1 /\ more[1] = r
  BY OneSent
<1>2. \A id \in PathPanel : NoneAsks(more, id)
  BY <1>1 DEF NoneAsks
<1>3. requests' = requests \o more
  <2> DEFINE S == {requests[k] : k \in 1..Len(requests)} \cup {r}
  <2>1. requests \in Seq(S) /\ r \in S
    BY SeqMonotonic DEF PageInv, Sent
  <2> HIDE DEF S
  <2> QED
    BY <2>1, AppendIsConcat
<1> HIDE DEF more
<1>4. Joins(requests, more, requests')
  BY <1>1, <1>3, Joined DEF PageInv
<1>5. OfPath' = OfPath /\ OfPath \subseteq PathPanel /\ OfPath \subseteq DOMAIN panels
  BY DEF OfPath, PathPanel
<1>6. OfPath # {} => "bc" \in DOMAIN panels /\ panels'["bc"] = panels["bc"]
  BY DEF PageInv
<1>7. \A id \in OfPath : panels'[id] = panels[id]
  BY <1>5
<1>8. Waits'
  <2> SUFFICES ASSUME ~ overtaken, NEW id \in OfPath
               PROVE  \/ LastAsks(requests', id, panels'["bc"].arg)
                      \/ /\ NoneAsks(requests', id)
                         /\ panels'[id].arg = panels'["bc"].arg /\ panels'[id] # Loading
    BY <1>5 DEF Waits, Loading
  <2>1. \/ LastAsks(requests, id, panels["bc"].arg)
        \/ /\ NoneAsks(requests, id)
           /\ panels[id].arg = panels["bc"].arg /\ panels[id] # Loading
    BY DEF PageInv, Waits
  <2>2. NoneAsks(more, id)
    BY <1>2, <1>5
  <2> QED
    BY <1>4, <1>6, <1>7, <2>1, <2>2 DEF Joins
<1> QED
  BY <1>4, <1>5, <1>6, <1>8 DEF PageInv, Joins

\* An answer comes: the one there was to wait for, if it is not out of turn.
LEMMA AnswerStep ==
    ASSUME PageInv, NEW k \in DOMAIN requests, NEW replies, Answered(k, replies)
    PROVE  PageInv'
<1> DEFINE r == requests[k]
           rest == RemoveAt(requests, k)
<1>1. PICK ok \in replies \cup {FALSE} :
          /\ panels' = IF r.into \in DOMAIN panels
                       THEN [panels EXCEPT ![r.into] = Shows(r.api, r.arg, ok)] ELSE panels
          /\ requests' = rest
          /\ overtaken' = (overtaken \/ \E j \in 1..(k - 1) :
                              r.into # Nowhere /\ requests[j].into = r.into)
  BY DEF Answered
<1>2. k \in 1..Len(requests) /\ Sent(requests)
  BY LenProperties DEF PageInv, Sent
<1>3. Leaves(requests, k, rest)
  BY <1>2, Removed
<1>4. IsRequest(r)
  BY <1>2 DEF Sent
<1>5. DOMAIN panels' = DOMAIN panels /\ OfPath' = OfPath /\ OfPath \subseteq PathPanel
      /\ OfPath \subseteq DOMAIN panels
  BY <1>1 DEF OfPath, PathPanel
<1>6. OfPath # {} => "bc" \in DOMAIN panels
  BY DEF PageInv
<1>7. panels'["bc"] = panels["bc"]
  BY <1>1, <1>4 DEF IsRequest
<1> HIDE DEF rest
<1>8. Waits'
  <2> SUFFICES ASSUME ~ overtaken', NEW id \in OfPath
               PROVE  \/ LastAsks(rest, id, panels["bc"].arg)
                      \/ /\ NoneAsks(rest, id)
                         /\ panels'[id].arg = panels["bc"].arg /\ panels'[id] # Loading
    BY <1>1, <1>5, <1>7 DEF Waits, Loading
  <2>1. ~ overtaken /\ (r.into # Nowhere => \A j \in 1..(k - 1) : requests[j].into # r.into)
    BY <1>1
  <2>2. \/ LastAsks(requests, id, panels["bc"].arg)
        \/ /\ NoneAsks(requests, id)
           /\ panels[id].arg = panels["bc"].arg /\ panels[id] # Loading
    BY <2>1 DEF PageInv, Waits
  <2>3. id # Nowhere /\ id \in PathPanel /\ id \in DOMAIN panels
    BY <1>5 DEF PathPanel, Nowhere
  <2>4. CASE r.into # id
    <3>1. panels'[id] = panels[id]
      BY <1>1, <2>3, <2>4
    <3> QED
      BY <1>3, <2>2, <2>4, <3>1 DEF Leaves
  <2>5. CASE r.into = id
    <3>1. LastAsks(requests, id, panels["bc"].arg)
      BY <1>2, <2>2, <2>5 DEF NoneAsks
    <3>2. \A j \in 1..(k - 1) : requests[j].into # id
      BY <2>1, <2>3, <2>5
    <3>3. \/ LastAsks(rest, id, panels["bc"].arg)
          \/ NoneAsks(rest, id) /\ r.arg = panels["bc"].arg
      BY <1>3, <3>1, <3>2 DEF Leaves
    <3>4. panels'[id] = Shows(r.api, r.arg, ok)
      BY <1>1, <2>3, <2>5
    <3>5. r.api \in {"ls", "file"}
      BY <1>4, <2>3, <2>5 DEF IsRequest
    <3>6. panels'[id].arg = r.arg /\ panels'[id] # Loading
      <4>1. panels'[id].arg = r.arg /\ panels'[id].api = r.api
        BY <3>4 DEF Shows
      <4>2. Loading.api = "loading"
        BY DEF Loading, Shows
      <4> QED
        BY <3>5, <4>1, <4>2
    <3> QED
      BY <3>3, <3>6
  <2> QED
    BY <2>4, <2>5
<1> QED
  BY <1>1, <1>3, <1>5, <1>6, <1>8 DEF PageInv, Leaves

\* Nothing is shown, and nothing under way is for a panel of the path.
LEMMA PageStart == PageInit => PageInv
<1> SUFFICES ASSUME PageInit PROVE PageInv
  OBVIOUS
<1>1. requests = <<>> /\ DOMAIN panels = {}
  BY DEF PageInit
<1>2. OfPath = {}
  BY <1>1 DEF OfPath
<1>3. Sent(requests)
  <2>1. Len(requests) = 0 /\ requests \in Seq({requests[k] : k \in 1..Len(requests)})
    BY <1>1
  <2> QED
    BY <2>1 DEF Sent
<1> QED
  BY <1>2, <1>3 DEF PageInv, Waits

LEMMA PageStays == PageInv /\ UNCHANGED pageVars => PageInv'
<1> SUFFICES ASSUME PageInv, UNCHANGED pageVars PROVE PageInv'
  OBVIOUS
<1>1. panels' = panels /\ requests' = requests /\ overtaken' = overtaken
  BY DEF pageVars
<1>2. OfPath' = OfPath
  BY <1>1 DEF OfPath
<1>3. Sent(requests')
  BY <1>1 DEF PageInv
<1>4. Waits'
  BY <1>1, <1>2 DEF PageInv, Waits, Loading
<1> QED
  BY <1>1, <1>2, <1>3, <1>4 DEF PageInv

LEMMA SettledAgrees == PageInv => SettledPageAgrees
<1> SUFFICES ASSUME PageInv, ~ overtaken, NEW id \in OfPath,
                    \A k \in DOMAIN requests : requests[k].into # id
             PROVE  panels[id].arg = panels["bc"].arg /\ panels[id] # Loading
  BY DEF SettledPageAgrees
<1>1. DOMAIN requests = 1..Len(requests)
  BY LenProperties DEF PageInv, Sent
<1>2. ~ LastAsks(requests, id, panels["bc"].arg)
  BY <1>1 DEF LastAsks
<1> QED
  BY <1>2 DEF PageInv, Waits

-----------------------------------------------------------------------------
(***************************************************************************)
(* The page of spl7-phase-4.                                               *)
(***************************************************************************)
LEMMA BrowseStep == ASSUME PageInv, NEW p, Browse(p) PROVE PageInv'
<1> DEFINE r == Request("ls", p, "listing", FALSE)
           dom == Dom({"bc", "listing"}, p)
<1>1. Render("browse", dom, <<r>>)
  BY DEF Browse
<1>2. IsRequest(r) /\ r.into = "listing" /\ r.arg = p
  <2>1. IsRequest(r)
    BY IsAsk
  <2>2. r.into = "listing" /\ r.arg = p
    BY DEF Request
  <2> QED
    BY <2>1, <2>2
<1>3. Sent(<<r>>) /\ LastAsks(<<r>>, "listing", p)
  BY <1>2, OneSent
<1>4. DOMAIN dom = {"bc", "listing"} /\ dom["bc"].arg = p
  BY DEF Dom, Crumb, Shows
<1> HIDE DEF dom, r
<1>5. PathPanel \cap DOMAIN dom = {"listing"}
  BY <1>4 DEF PathPanel
<1> QED
  BY <1>1, <1>3, <1>4, <1>5, RenderStep

LEMMA NodeViewFileStep == ASSUME PageInv, NEW p, NodeViewFile(p) PROVE PageInv'
<1> DEFINE r == Request("file", p, "fcontent", FALSE)
           dom == Dom({"bc", "fcontent"}, p)
<1>1. Render("browse", dom, <<r>>)
  BY DEF NodeViewFile
<1>2. IsRequest(r) /\ r.into = "fcontent" /\ r.arg = p
  <2>1. IsRequest(r)
    BY IsAsk
  <2>2. r.into = "fcontent" /\ r.arg = p
    BY DEF Request
  <2> QED
    BY <2>1, <2>2
<1>3. Sent(<<r>>) /\ LastAsks(<<r>>, "fcontent", p)
  BY <1>2, OneSent
<1>4. DOMAIN dom = {"bc", "fcontent"} /\ dom["bc"].arg = p
  BY DEF Dom, Crumb, Shows
<1> HIDE DEF dom, r
<1>5. PathPanel \cap DOMAIN dom = {"fcontent"}
  BY <1>4 DEF PathPanel
<1> QED
  BY <1>1, <1>3, <1>4, <1>5, RenderStep

LEMMA ShowStatusStep == ASSUME PageInv, ShowStatus PROVE PageInv'
<1> DEFINE r == Request("status", <<>>, "sd", FALSE)
           dom == Dom({"sd"}, <<>>)
<1>1. Render("status", dom, <<r>>)
  BY DEF ShowStatus
<1>2. IsRequest(r)
  BY IsAsk DEF PathPanel
<1>3. Sent(<<r>>)
  BY <1>2, OneSent
<1>4. DOMAIN dom = {"sd"}
  BY DEF Dom
<1> HIDE DEF dom, r
<1>5. PathPanel \cap DOMAIN dom = {}
  BY <1>4 DEF PathPanel
<1> QED
  BY <1>1, <1>3, <1>5, RenderStep

LEMMA NodePageStep == PageInv /\ [NodeNext]_pageVars => PageInv'
<1> SUFFICES ASSUME PageInv, [NodeNext]_pageVars PROVE PageInv'
  OBVIOUS
<1>1. CASE NodeClick
  BY <1>1, BrowseStep, NodeViewFileStep, ShowStatusStep DEF NodeClick, NodeGo
<1>2. CASE Browse(<<>>)
  BY <1>2, BrowseStep
<1>3. ASSUME NEW k \in DOMAIN requests, NodeAnswered(k) PROVE PageInv'
  BY <1>3, AnswerStep DEF NodeAnswered
<1>4. CASE UNCHANGED pageVars
  BY <1>4, PageStays
<1> QED
  BY <1>1, <1>2, <1>3, <1>4 DEF NodeNext

-----------------------------------------------------------------------------
(***************************************************************************)
(* The page of phase-7.                                                    *)
(***************************************************************************)
\* Its only panel of the path is the listing.
SwarmInv == PageInv /\ "fcontent" \notin DOMAIN panels

LEMMA OtherPanels ==
    \A id \in App \cup WorldPanels : id \notin {"bc", "listing", "fcontent"}
  BY SwarmPageAssumption

LEMMA WorldSent == Sent(WorldRequests)
<1> DEFINE n == Cardinality(WorldPanels)
           f == SetToSeq(WorldPanels)
<1>1. n \in Nat /\ ExistsBijection(1..n, WorldPanels)
  BY SwarmPageAssumption, FS_CardinalityType
<1>2. \E g \in [1..n -> WorldPanels] : IsInjective(g)
  BY <1>1 DEF ExistsBijection, Bijection, Injection, IsInjective
<1>3. f \in [1..n -> WorldPanels]
  BY <1>2 DEF SetToSeq
<1> DEFINE rs == [k \in 1..n |-> Request("world", <<>>, f[k], FALSE)]
           S == {rs[k] : k \in 1..n}
<1> HIDE DEF f, n
<1>4. WorldRequests = rs
  BY <1>3 DEF WorldRequests, f
<1>5. \A k \in 1..n : IsRequest(rs[k])
  <2> TAKE k \in 1..n
  <2>1. f[k] \in WorldPanels
    BY <1>3
  <2>2. f[k] # "bc" /\ f[k] \notin PathPanel
    BY <2>1, OtherPanels DEF PathPanel
  <2>3. rs[k] = Request("world", <<>>, f[k], FALSE)
    OBVIOUS
  <2> QED
    BY <2>2, <2>3, IsAsk
<1>6. rs \in [1..n -> S]
  OBVIOUS
<1> HIDE DEF rs, S
<1>7. rs \in Seq(S) /\ Len(rs) = n
  <2>1. rs \in Seq(S)
    BY <1>1, <1>6, SeqDef
  <2> QED
    BY <1>1, <1>6, <2>1, LenProperties
<1> QED
  BY <1>4, <1>5, <1>7, SentIn

LEMMA RenderBrowseStep == ASSUME SwarmInv, NEW p, RenderBrowse(p) PROVE SwarmInv'
<1> DEFINE r == Request("ls", p, "listing", FALSE)
           dom == [id \in {"sbar", "bc", "listing"} |-> IF id = "bc" THEN Crumb(p) ELSE Loading]
<1>1. Render("browse", dom, <<LoadStatusBar, r>>)
  BY DEF RenderBrowse
<1>2. IsRequest(r) /\ r.into = "listing" /\ r.arg = p /\ IsRequest(LoadStatusBar)
  <2>1. IsRequest(r)
    BY IsAsk
  <2>2. r.into = "listing" /\ r.arg = p
    BY DEF Request
  <2>3. IsRequest(LoadStatusBar)
    BY IsAsk DEF PathPanel, LoadStatusBar
  <2> QED
    BY <2>1, <2>2, <2>3
<1>3. Sent(<<LoadStatusBar, r>>) /\ LastAsks(<<LoadStatusBar, r>>, "listing", p)
  BY <1>2, TwoSent
<1>4. DOMAIN dom = {"sbar", "bc", "listing"} /\ dom["bc"].arg = p
  BY DEF Crumb, Shows
<1> HIDE DEF dom, r
<1>5. PathPanel \cap DOMAIN dom = {"listing"}
  BY <1>4 DEF PathPanel
<1>6. panels' = dom
  BY <1>1 DEF Render
<1>7. PageInv'
  BY <1>1, <1>3, <1>4, <1>5, RenderStep DEF SwarmInv
<1> QED
  BY <1>4, <1>6, <1>7 DEF SwarmInv

\* The views that show nothing of the path.
LEMMA OtherViewStep ==
    ASSUME SwarmInv, RenderStatus \/ RenderApps \/ RenderWorld
    PROVE  SwarmInv'
<1>1. ASSUME NEW view, NEW dom, NEW rs, Render(view, dom, rs), Sent(rs),
             DOMAIN dom \cap {"bc", "listing", "fcontent"} = {}
      PROVE  SwarmInv'
  <2>1. PathPanel \cap DOMAIN dom = {} /\ panels' = dom
    BY <1>1 DEF PathPanel, Render
  <2>2. PageInv'
    BY <1>1, <2>1, RenderStep DEF SwarmInv
  <2> QED
    BY <1>1, <2>1, <2>2 DEF SwarmInv
<1>2. CASE RenderStatus
  <2> DEFINE r == Request("status", <<>>, "sd", FALSE)
             dom == [id \in {"sd"} |-> Loading]
  <2>1. Render("status", dom, <<r>>) /\ DOMAIN dom = {"sd"}
    BY <1>2 DEF RenderStatus
  <2>2. IsRequest(r)
    BY IsAsk DEF PathPanel
  <2>3. Sent(<<r>>)
    BY <2>2, OneSent
  <2> HIDE DEF r, dom
  <2> QED
    BY <1>1, <2>1, <2>3
<1>3. CASE RenderApps
  <2> DEFINE r == Request("apps", <<>>, "app-list", FALSE)
             dom == [id \in {"app-list"} |-> Loading]
  <2>1. Render("apps", dom, <<r>>) /\ DOMAIN dom = {"app-list"}
    BY <1>3 DEF RenderApps
  <2>2. IsRequest(r)
    BY IsAsk DEF PathPanel
  <2>3. Sent(<<r>>)
    BY <2>2, OneSent
  <2> HIDE DEF r, dom
  <2> QED
    BY <1>1, <2>1, <2>3
<1>4. CASE RenderWorld
  <2> DEFINE dom == [id \in WorldPanels |-> Loading]
  <2>1. Render("world", dom, WorldRequests) /\ DOMAIN dom = WorldPanels
    BY <1>4 DEF RenderWorld
  <2>2. DOMAIN dom \cap {"bc", "listing", "fcontent"} = {}
    BY <2>1, OtherPanels
  <2> HIDE DEF dom
  <2> QED
    BY <1>1, <2>1, <2>2, WorldSent
<1> QED
  BY <1>2, <1>3, <1>4

LEMMA ViewFileStep == ASSUME SwarmInv, NEW p, ViewFile(p) PROVE SwarmInv'
<1> DEFINE r == Request("file", p, "listing", TRUE)
           more == <<r>>
<1>1. /\ "listing" \in DOMAIN panels /\ panels' = [panels EXCEPT !["bc"] = Crumb(p)]
      /\ requests' = Append(requests, r) /\ overtaken' = overtaken
  BY DEF ViewFile
<1>2. IsRequest(r) /\ r.into = "listing" /\ r.arg = p
  <2>1. IsRequest(r)
    BY IsAsk
  <2>2. r.into = "listing" /\ r.arg = p
    BY DEF Request
  <2> QED
    BY <2>1, <2>2
<1>3. Sent(more) /\ LastAsks(more, "listing", p)
  BY <1>2, OneSent
<1>4. requests' = requests \o more
  <2> DEFINE S == {requests[k] : k \in 1..Len(requests)} \cup {r}
  <2>1. requests \in Seq(S) /\ r \in S
    BY SeqMonotonic DEF SwarmInv, PageInv, Sent
  <2> HIDE DEF S
  <2> QED
    BY <1>1, <2>1, AppendIsConcat
<1> HIDE DEF more, r
<1>5. Joins(requests, more, requests')
  BY <1>3, <1>4, Joined DEF SwarmInv, PageInv
<1>6. OfPath = {"listing"} /\ OfPath' = {"listing"} /\ DOMAIN panels' = DOMAIN panels
  BY <1>1 DEF SwarmInv, OfPath
<1>7. "bc" \in DOMAIN panels /\ panels'["bc"].arg = p
  <2>1. "bc" \in DOMAIN panels
    BY <1>6 DEF SwarmInv, PageInv
  <2>2. panels'["bc"] = Crumb(p)
    BY <1>1, <2>1
  <2> QED
    BY <2>1, <2>2 DEF Crumb, Shows
<1>8. LastAsks(requests', "listing", panels'["bc"].arg)
  BY <1>3, <1>5, <1>7 DEF Joins
<1>9. Waits'
  BY <1>6, <1>8 DEF Waits
<1> QED
  BY <1>5, <1>6, <1>7, <1>9 DEF SwarmInv, PageInv, Joins

LEMMA RunAppStep == ASSUME SwarmInv, NEW k \in App, RunApp(k) PROVE SwarmInv'
<1> DEFINE r == Request("run", <<k>>, k, TRUE)
<1>1. /\ panels' = [panels EXCEPT ![k] = Loading] /\ overtaken' = overtaken
      /\ requests' = Append(requests, r)
  BY DEF RunApp
<1>2. k \notin {"bc", "listing", "fcontent"}
  BY OtherPanels
<1>3. IsRequest(r) /\ r.into \notin PathPanel
  <2>1. k # "bc" /\ k \notin PathPanel
    BY <1>2 DEF PathPanel
  <2>2. IsRequest(r)
    BY <2>1, IsAsk
  <2>3. r.into = k
    BY DEF Request
  <2> QED
    BY <2>1, <2>2, <2>3
<1>4. DOMAIN panels' = DOMAIN panels
  BY <1>1
<1>5. \A id \in PathPanel \cup {"bc"} : id \in DOMAIN panels => panels'[id] = panels[id]
  BY <1>1, <1>2 DEF PathPanel
<1> HIDE DEF r
<1>6. PageInv'
  BY <1>1, <1>3, <1>4, <1>5, AskStep DEF SwarmInv
<1> QED
  BY <1>4, <1>6 DEF SwarmInv

LEMMA IntervalStep == ASSUME SwarmInv, Interval PROVE SwarmInv'
<1>1. CASE RenderWorld
  BY <1>1, OtherViewStep
<1>2. CASE requests' = Append(requests, LoadStatusBar) /\ UNCHANGED <<tab, path, panels, overtaken>>
  <2>1. IsRequest(LoadStatusBar) /\ LoadStatusBar.into \notin PathPanel
    <3>1. IsRequest(LoadStatusBar)
      BY IsAsk DEF LoadStatusBar, PathPanel
    <3>2. LoadStatusBar.into \notin PathPanel
      BY DEF LoadStatusBar, Request, PathPanel
    <3> QED
      BY <3>1, <3>2
  <2>2. PageInv'
    BY <1>2, <2>1, AskStep DEF SwarmInv
  <2> QED
    BY <1>2, <2>2 DEF SwarmInv
<1> QED
  BY <1>1, <1>2 DEF Interval

LEMMA AppsAnsweredStep ==
    ASSUME SwarmInv, NEW k \in DOMAIN requests, AppsAnswered(k)
    PROVE  SwarmInv'
<1>1. DOMAIN panels' \subseteq {"app-list"} \cup App /\ requests' = Detach(RemoveAt(requests, k), App)
  BY DEF AppsAnswered
<1>2. k \in 1..Len(requests) /\ Sent(requests)
  BY LenProperties DEF SwarmInv, PageInv, Sent
<1>3. Sent(RemoveAt(requests, k))
  BY <1>2, Removed DEF Leaves
<1>4. Sent(requests')
  BY <1>1, <1>3, Detached
<1>5. DOMAIN panels' \cap {"bc", "listing", "fcontent"} = {}
  BY <1>1, OtherPanels
<1>6. OfPath' = {}
  BY <1>5 DEF OfPath
<1> QED
  BY <1>4, <1>5, <1>6 DEF SwarmInv, PageInv, Waits

LEMMA SwarmPageStep == SwarmInv /\ [SwarmNext]_pageVars => SwarmInv'
<1> SUFFICES ASSUME SwarmInv, [SwarmNext]_pageVars PROVE SwarmInv'
  OBVIOUS
<1>1. ASSUME NEW view, Go(view) PROVE SwarmInv'
  BY <1>1, RenderBrowseStep, OtherViewStep DEF Go
<1>2. CASE SwarmClick
  BY <1>1, <1>2, RenderBrowseStep, ViewFileStep, RunAppStep DEF SwarmClick, Source
<1>3. CASE Interval
  BY <1>3, IntervalStep
<1>4. ASSUME NEW k \in DOMAIN requests, SwarmAnswered(k) PROVE SwarmInv'
  <2>1. CASE AppsAnswered(k)
    BY <2>1, AppsAnsweredStep
  <2>2. CASE Answered(k, SwarmReplies(requests[k].api, requests[k].arg))
    <3>1. PageInv'
      BY <2>2, AnswerStep DEF SwarmInv
    <3>2. DOMAIN panels' = DOMAIN panels
      BY <2>2 DEF Answered
    <3> QED
      BY <3>1, <3>2 DEF SwarmInv
  <2> QED
    BY <1>4, <2>1, <2>2 DEF SwarmAnswered
<1>5. CASE UNCHANGED pageVars
  BY <1>5, PageStays DEF SwarmInv, pageVars
<1> QED
  BY <1>1, <1>2, <1>3, <1>4, <1>5 DEF SwarmNext

-----------------------------------------------------------------------------
\* Whichever page it is, for any files, apps and panels, any number of requests under
\* way and whatever is clicked: if no answer was overtaken, a listing or a file that
\* nothing is under way to is that of the path above it.  It takes Waits: that the last
\* request under way to a panel of the path is for the path in the breadcrumb.
THEOREM PageAgrees == MCSpec => []SettledPageAgrees
<1> DEFINE Inv == PageInv /\ page \in {"node", "swarm"} /\ (page = "swarm" => SwarmInv)
<1>1. MCInit => Inv
  <2>1. PageInit => "fcontent" \notin DOMAIN panels
    BY DEF PageInit
  <2> QED
    BY <2>1, PageStart DEF MCInit, SwarmInv
<1>2. Inv /\ [MCNext]_vars => Inv'
  <2>1. SwarmInv => PageInv
    BY DEF SwarmInv
  <2>2. ASSUME Inv, page = "node", NodeNext, page' = page PROVE Inv'
    BY <2>2, NodePageStep
  <2>3. ASSUME Inv, page = "swarm", SwarmNext, page' = page PROVE Inv'
    <3>1. SwarmInv'
      BY <2>3, SwarmPageStep
    <3>2. PageInv'
      BY <3>1 DEF SwarmInv
    <3> QED
      BY <2>3, <3>1, <3>2
  <2>4. ASSUME Inv, UNCHANGED vars PROVE Inv'
    <3>1. UNCHANGED pageVars /\ page' = page
      BY <2>4 DEF vars
    <3>2. PageInv'
      BY <2>4, <3>1, PageStays
    <3>3. page = "swarm" => SwarmInv'
      BY <2>4, <3>1, SwarmPageStep
    <3> QED
      BY <2>4, <3>1, <3>2, <3>3
  <2> QED
    BY <2>2, <2>3, <2>4 DEF MCNext
<1>3. Inv => SettledPageAgrees
  BY SettledAgrees
<1> QED
  BY <1>1, <1>2, <1>3, PTL DEF MCSpec
=============================================================================
