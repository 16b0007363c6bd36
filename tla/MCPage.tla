------------------------------- MODULE MCPage -------------------------------
(* Both browser pages: each behaviour is that of one of them. *)
EXTENDS NodePage, SwarmPage

VARIABLE page    \* "node" (spl7-phase-4) or "swarm" (phase-7)

MCFiles == {<<"a">>, <<"d", "b">>}
MCAppPath == [k \in {"app"} |-> <<"a">>]
MCWorldPanels == {"wv-status", "wv-runs"}

vars == <<pageVars, page>>

MCInit == PageInit /\ page \in {"node", "swarm"}

MCNext ==
    /\ \/ page = "node" /\ NodeNext
       \/ page = "swarm" /\ SwarmNext
    /\ UNCHANGED page

\* NodeFairness or SwarmFairness.
MCFairness ==
    /\ WF_pageVars(page = "node" /\ requests # <<>> /\ NodeAnswered(1))
    /\ WF_pageVars(page = "swarm" /\ requests # <<>> /\ SwarmAnswered(1))

MCSpec == MCInit /\ [][MCNext]_vars /\ MCFairness
=============================================================================
