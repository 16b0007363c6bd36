------------------------------ MODULE NodePage ------------------------------
(***************************************************************************)
(* The page of a node of spl7-phase-4 (nodeJS in ui/http.js): a browser of *)
(* the drive and a status tab.  Every answer looks its panel up by id.     *)
(***************************************************************************)
EXTENDS PageDom

Dom(ids, p) == [id \in ids |-> IF id = "bc" THEN Crumb(p) ELSE Loading]

\* browse: also what the page starts with.
Browse(p) ==
    /\ path' = p
    /\ Render("browse", Dom({"bc", "listing"}, p), <<Request("ls", p, "listing", FALSE)>>)

NodeViewFile(p) ==
    /\ path' = p
    /\ Render("browse", Dom({"bc", "fcontent"}, p), <<Request("file", p, "fcontent", FALSE)>>)

ShowStatus ==
    /\ Render("status", Dom({"sd"}, <<>>), <<Request("status", <<>>, "sd", FALSE)>>)
    /\ UNCHANGED path

NodeGo(view) ==
    \/ view = "browse" /\ Browse(path)
    \/ view = "status" /\ ShowStatus

\* handleRequest: of what the page asks for only a file can be missing, and is then
\* shown as an empty one.
NodeReplies(api, arg) == {api = "file" => ReadFile(Files, arg) # "ENOENT"}

NodeAnswered(k) == Answered(k, NodeReplies(requests[k].api, requests[k].arg))

\* What the user can do: the tabs, the links of breadcrumb and listing, 'back'.
NodeClick ==
    \/ \E view \in {"browse", "status"} : NodeGo(view)
    \/ \E p \in Folders("listing") : Browse(p)
    \/ \E e \in Entries("listing") : e.type = "file" /\ NodeViewFile(e.to)

NodeNext ==
    \/ tab = "none" /\ Browse(<<>>)
    \/ tab # "none" /\ NodeClick
    \/ \E k \in DOMAIN requests : NodeAnswered(k)

\* Every request is answered or fails in the end.
NodeFairness == WF_pageVars(requests # <<>> /\ NodeAnswered(1))

NodeSpec == PageInit /\ [][NodeNext]_pageVars /\ NodeFairness
=============================================================================
