--------------------------- MODULE SwarmDirectory ---------------------------
(***************************************************************************)
(* What the swarm folder promises its readers: a listing that changes one  *)
(* entry at a time.  As registrations overlap, an entry is put into any    *)
(* listing there has been, not only into the present one.                  *)
(***************************************************************************)
CONSTANTS Name, Platform, Info, PlatformInfo, None

VARIABLES
    dir,    \* the listing
    past    \* every listing so far, the present one included

dvars == <<dir, past>>

Nobody == [m \in Name \cup {Platform} |-> None]

Init == dir = Nobody /\ past = {Nobody}

Becomes(d) == dir' = d /\ past' = past \cup {d}

\* The seed: only while nobody is listed.
Seed ==
    /\ dir = Nobody
    /\ Becomes([Nobody EXCEPT ![Platform] = PlatformInfo])

PutInto(d) == \E n \in Name, i \in Info : Becomes([d EXCEPT ![n] = i])

\* Entries are put only into a seeded listing.
SnapshotNext == Seed \/ \E d \in past \ {Nobody} : PutInto(d)

SnapshotSpec == Init /\ [][SnapshotNext]_dvars
=============================================================================
