-------------------------------- MODULE Mesh --------------------------------
(***************************************************************************)
(* Publish and subscribe without a hub: phase-4-pubsub-mesh/node.js.       *)
(*                                                                         *)
(* Every member connects to every other, holds its live connections in     *)
(* peers, and every 3 s writes one numbered line to each of them.  A       *)
(* connection is a stream: what arrives is cut into chunks anywhere, so    *)
(* each end of it collects characters until a newline ends a line.         *)
(*                                                                         *)
(* A line is two characters here, "text" with its number and "newline":    *)
(* enough for every way a chunk can cut it.                                *)
(*                                                                         *)
(* External: hyperswarm opens at most one connection at a time between two *)
(* members; each end handles 'connection' and 'close' in its own time; a   *)
(* connection delivers the characters written at one end in order, until   *)
(* it goes away.                                                           *)
(***************************************************************************)
EXTENDS Naturals, FiniteSets, Sequences, SequencesExt

CONSTANTS
    Member,
    MaxLinks,     \* connections opened between members (bound)
    MaxSeq        \* lines a member publishes (bound)

ASSUME MeshAssumption == MaxLinks \in Nat /\ MaxSeq \in Nat

VARIABLES
    joined,       \* the members that run
    ends,         \* the ends of each connection there has been, by its number
    alive,        \* the connections that still are
    peers,        \* each member's Set of connections
    wire,         \* characters under way to an end of a connection
    buf,          \* the characters an end has that no newline has ended yet
    got,          \* the lines an end has received
    sent,         \* history: the lines that were written for an end
    next          \* each member's seq

meshVars == <<joined, ends, alive, peers, wire, buf, got, sent, next>>

Link == 1..MaxLinks
Char == [kind : {"text", "newline"}, seq : Nat]

Text(n)    == [kind |-> "text", seq |-> n]
Newline(n) == [kind |-> "newline", seq |-> n]
Line(n)    == <<Text(n), Newline(n)>>

MeshInit ==
    /\ joined = {}
    /\ ends = <<>>
    /\ alive = {}
    /\ peers = [n \in Member |-> {}]
    /\ wire = [l \in Link |-> [n \in Member |-> <<>>]]
    /\ buf = [l \in Link |-> [n \in Member |-> <<>>]]
    /\ got = [l \in Link |-> [n \in Member |-> <<>>]]
    /\ sent = [l \in Link |-> [n \in Member |-> <<>>]]
    /\ next = [n \in Member |-> 0]

\* Mutation: the buffer starts anew with every chunk.
CollectFresh(old, chunk) == chunk

\* buf += data
Collect(old, chunk) == old \o chunk

\* What follows the last newline stays in the buffer.
Rest(chars) ==
    LET cut == {k \in DOMAIN chars : chars[k].kind = "newline"}
        last == CHOOSE k \in cut \cup {0} : \A j \in cut : j <= k
    IN  SubSeq(chars, last + 1, Len(chars))

\* The lines of the text, in order: a newline ends the text since the one before
\* it.  Anything that is not one published line does not parse, and is skipped.
Parsed(chars) ==
    LET whole == {k \in DOMAIN chars :
                    /\ chars[k].kind = "newline" /\ k > 1 /\ chars[k - 1].kind = "text"
                    /\ k = 2 \/ chars[k - 2].kind = "newline"}
        nth(i) == CHOOSE k \in whole : Cardinality({j \in whole : j <= k}) = i
    IN  [i \in 1..Cardinality(whole) |-> chars[nth(i) - 1].seq]

-----------------------------------------------------------------------------
MemberJoins(n) ==
    /\ n \notin joined
    /\ joined' = joined \cup {n}
    /\ UNCHANGED <<ends, alive, peers, wire, buf, got, sent, next>>

Open(n, m) ==
    /\ n # m /\ {n, m} \subseteq joined
    /\ Len(ends) < MaxLinks
    /\ \A l \in alive : ends[l] # {n, m}
    /\ ends' = Append(ends, {n, m})
    /\ alive' = alive \cup {Len(ends) + 1}
    /\ UNCHANGED <<joined, peers, wire, buf, got, sent, next>>

\* 'connection': into the set, and an empty buffer of its own.
PeerUp(l, n) ==
    /\ n \in ends[l] /\ l \in alive /\ l \notin peers[n] /\ n \in joined
    /\ peers' = [peers EXCEPT ![n] = @ \cup {l}]
    /\ buf' = [buf EXCEPT ![l][n] = <<>>]
    /\ UNCHANGED <<joined, ends, alive, wire, got, sent, next>>

\* SIGTERM or a kill; a member started again counts from 0.
MemberStops(n) ==
    LET lost == {l \in alive : n \in ends[l]}
    IN  /\ n \in joined
        /\ joined' = joined \ {n}
        /\ alive' = alive \ lost
        /\ wire' = [l \in Link |-> IF l \in lost THEN [m \in Member |-> <<>>] ELSE wire[l]]
        /\ peers' = [peers EXCEPT ![n] = {}]
        /\ next' = [next EXCEPT ![n] = 0]
        /\ UNCHANGED <<ends, buf, got, sent>>

\* The connection goes away, and what is under way with it.
Break(l) ==
    /\ l \in alive
    /\ alive' = alive \ {l}
    /\ wire' = [wire EXCEPT ![l] = [n \in Member |-> <<>>]]
    /\ UNCHANGED <<joined, ends, peers, buf, got, sent, next>>

\* 'close'
PeerDown(l, n) ==
    /\ n \in joined /\ l \in peers[n] /\ l \notin alive
    /\ peers' = [peers EXCEPT ![n] = @ \ {l}]
    /\ UNCHANGED <<joined, ends, alive, wire, buf, got, sent, next>>

\* The other end of n's connection l.
Other(l, n) == CHOOSE m \in ends[l] : m # n

\* Every 3 s: one line to every connection in the set, closed ones included
\* that have not said so yet; with none there is nothing to publish, and the
\* number is not used up.
Publish(n) ==
    LET out == [l \in Link |-> [m \in Member |->
                  IF l \in peers[n] /\ m = Other(l, n) THEN <<next[n]>> ELSE <<>>]]
    IN  /\ n \in joined /\ peers[n] # {} /\ next[n] < MaxSeq
        /\ sent' = [l \in Link |-> [m \in Member |-> sent[l][m] \o out[l][m]]]
        /\ wire' = [l \in Link |-> [m \in Member |->
                      IF l \in alive /\ out[l][m] # <<>> THEN wire[l][m] \o Line(next[n])
                      ELSE wire[l][m]]]
        /\ next' = [next EXCEPT ![n] = @ + 1]
        /\ UNCHANGED <<joined, ends, alive, peers, buf, got>>

\* Mutation: one line is taken from each chunk, the others wait for the next.
DataIf(l, n) ==
    /\ n \in joined /\ l \in peers[n] /\ l \in alive
    /\ \E k \in 1..Len(wire[l][n]) :
          LET chars == Collect(buf[l][n], SubSeq(wire[l][n], 1, k))
              one == Len(chars) >= 2
          IN  /\ wire' = [wire EXCEPT ![l][n] = SubSeq(@, k + 1, Len(@))]
              /\ buf' = [buf EXCEPT ![l][n] = IF one THEN SubSeq(chars, 3, Len(chars)) ELSE chars]
              /\ got' = [got EXCEPT ![l][n] = IF one THEN Append(@, chars[1].seq) ELSE @]
    /\ UNCHANGED <<joined, ends, alive, peers, sent, next>>

\* 'data': a chunk of any size.
Data(l, n) ==
    /\ n \in joined /\ l \in peers[n] /\ l \in alive
    /\ \E k \in 1..Len(wire[l][n]) :
          LET chars == Collect(buf[l][n], SubSeq(wire[l][n], 1, k))
          IN  /\ wire' = [wire EXCEPT ![l][n] = SubSeq(@, k + 1, Len(@))]
              /\ buf' = [buf EXCEPT ![l][n] = Rest(chars)]
              /\ got' = [got EXCEPT ![l][n] = @ \o Parsed(chars)]
    /\ UNCHANGED <<joined, ends, alive, peers, sent, next>>

MeshNext ==
    \/ \E n \in Member : MemberJoins(n) \/ MemberStops(n) \/ Publish(n) \/ \E m \in Member : Open(n, m)
    \/ \E l \in DOMAIN ends : Break(l) \/ \E n \in Member : PeerUp(l, n) \/ PeerDown(l, n) \/ Data(l, n)

\* What happened to a connection is handled at both ends, and what is written
\* arrives.  Nothing makes members join, connect or publish.
MeshFairness ==
    \A l \in Link, n \in Member :
        /\ WF_meshVars(l \in DOMAIN ends /\ (PeerUp(l, n) \/ PeerDown(l, n)))
        /\ WF_meshVars(l \in DOMAIN ends /\ Data(l, n))

MeshSpec == MeshInit /\ [][MeshNext]_meshVars /\ MeshFairness

-----------------------------------------------------------------------------
(***************************************************************************)
(* Properties.                                                             *)
(***************************************************************************)
\* The shapes of the variables.
MeshTypeOK ==
    /\ joined \subseteq Member
    /\ ends \in Seq({{n, m} : n, m \in Member})
    /\ alive \subseteq DOMAIN ends
    /\ peers \in [Member -> SUBSET DOMAIN ends]
    /\ wire \in [Link -> [Member -> Seq(Char)]]
    /\ buf \in [Link -> [Member -> Seq(Char)]]
    /\ got \in [Link -> [Member -> Seq(Nat)]]
    /\ sent \in [Link -> [Member -> Seq(Nat)]]
    /\ next \in [Member -> Nat]

\* However chunks cut the stream, and whatever connections were lost and opened
\* again meanwhile, what an end of a connection has received is the beginning of
\* what was written for it: nothing is skipped, garbled, repeated or out of order.
ReceivedInOrder ==
    \A l \in Link, n \in Member : IsPrefix(got[l][n], sent[l][n])

\* A line written to a connection that stays is received at its other end.
PublishedArrives ==
    \A l \in Link, n \in Member :
        (l \in alive /\ Len(got[l][n]) < Len(sent[l][n]))
            ~> (l \notin alive \/ Len(got[l][n]) = Len(sent[l][n]))
=============================================================================
