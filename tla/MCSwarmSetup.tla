---------------------------- MODULE MCSwarmSetup ----------------------------
(* Small instances of SwarmSetup for TLC: the seed has one fixed folder.  One *)
(* run holds two instances, so that their state spaces add: registrations    *)
(* that overlap and write the same entry, and registrations one at a time    *)
(* that write different ones.                                                *)
EXTENDS SwarmSetup

CONSTANT Slot   \* the slot the "contents" instance uses

VARIABLE instance

MCFolder == {"config", "swarm"}
MCOrder == <<"config", "swarm">>

\* No other content, or no other slot, is ever in use.
Within ==
    IF instance = "overlap" THEN \A t \in Task : act[t].info = PlatformInfo
    ELSE \A t \in Task \ {Slot} : act[t].pc = "idle"

MCInit == SetupInit /\ instance \in {"overlap", "contents"}
MCNext == SetupNext /\ UNCHANGED instance /\ Within'

MCSpec == MCInit /\ [][MCNext]_<<allVars, instance>> /\ SetupFairness
=============================================================================
