------------------------------ MODULE PageDom ------------------------------
(***************************************************************************)
(* What the two browser pages have in common: a view made of named panels, *)
(* requests under way, and answers that come in any order.                 *)
(*                                                                         *)
(* An answer is applied by a callback that either looks its panel up by id *)
(* when it runs, and so finds whatever has that id by then, or holds on to *)
(* the element there was when it was sent, which may have left the page.   *)
(***************************************************************************)
EXTENDS Naturals, Sequences, SequencesExt, HyperdriveFs

CONSTANTS
    Files,        \* the keys of the drive the page shows: paths
    MaxPending    \* requests under way at once (bound)

ASSUME PageAssumption ==
    /\ \A p \in Files : p \in Seq(STRING) /\ p # <<>>
    /\ MaxPending \in Nat

VARIABLES
    tab,          \* the view: "none" until the page is loaded
    path,         \* the path the browse view goes back to
    panels,       \* what each panel in the page shows
    requests,     \* the requests under way, in the order they were sent
    overtaken     \* history: an answer came before that of an earlier request

pageVars == <<tab, path, panels, requests, overtaken>>

Shows(api, arg, ok) == [api |-> api, arg |-> arg, ok |-> ok]

Loading  == Shows("loading", <<>>, TRUE)
Hidden   == Shows("hidden", <<>>, TRUE)
Crumb(p) == Shows("path", p, TRUE)

Request(api, arg, into, held) == [api |-> api, arg |-> arg, into |-> into, held |-> held]

Nowhere == "nowhere"

PageInit ==
    /\ tab = "none"
    /\ path = <<>>
    /\ panels = [id \in {} |-> Loading]
    /\ requests = <<>>
    /\ overtaken = FALSE

\* Elements that are replaced leave the page, and who holds them writes nowhere.
Detach(rs, ids) ==
    [k \in DOMAIN rs |->
        IF rs[k].held /\ rs[k].into \in ids THEN [rs[k] EXCEPT !.into = Nowhere] ELSE rs[k]]

HasRoom(n) == Len(requests) + n <= MaxPending

\* v.innerHTML = ...: new panels for old ones, and the requests that fill them.
Render(view, dom, rs) ==
    /\ HasRoom(Len(rs))
    /\ tab' = view
    /\ panels' = dom
    /\ requests' = Detach(requests, DOMAIN panels) \o rs
    /\ UNCHANGED overtaken

\* The k-th request is answered with one of replies, or fails, and its panel shows
\* what came if it is in the page.
Answered(k, replies) ==
    LET r == requests[k]
    IN  \E ok \in replies \cup {FALSE} :
          /\ panels' = IF r.into \in DOMAIN panels
                       THEN [panels EXCEPT ![r.into] = Shows(r.api, r.arg, ok)] ELSE panels
          /\ requests' = RemoveAt(requests, k)
          /\ overtaken' = (overtaken \/ \E j \in 1..(k - 1) :
                              r.into # Nowhere /\ requests[j].into = r.into)
          /\ UNCHANGED <<tab, path>>

\* The entries of a listing that is shown: what there is to click on.
Entries(id) ==
    IF id \in DOMAIN panels /\ panels[id].api = "ls" /\ panels[id].ok
    THEN {[to |-> Append(panels[id].arg, e.name), type |-> e.type] :
             e \in ListDir(Files, panels[id].arg)}
    ELSE {}

\* The folders a breadcrumb links to.
Above(p) == {SubSeq(p, 1, n) : n \in 0..(Len(p) - 1)}

Folders(id) ==
    {e.to : e \in {x \in Entries(id) : x.type = "dir"}}
        \cup (IF "bc" \in DOMAIN panels THEN Above(panels["bc"].arg) ELSE {})

-----------------------------------------------------------------------------
(***************************************************************************)
(* Properties of both pages.                                               *)
(***************************************************************************)
\* The panels that show something of the path in the breadcrumb.
OfPath == {"listing", "fcontent"} \cap DOMAIN panels

\* Whatever is clicked before an answer has come: as long as the answers come in
\* the order of the requests, the listing or file on the page is that of the path
\* above it as soon as nothing more is under way to it.
SettledPageAgrees ==
    ~ overtaken =>
        \A id \in OfPath :
            (\A k \in DOMAIN requests : requests[k].into # id)
                => panels[id].arg = panels["bc"].arg /\ panels[id] # Loading

\* No panel loads for ever, although the world view is rendered anew every 5 s,
\* perhaps before an answer has come: an answer to an earlier round fills it too.
PanelsLoad ==
    \A id \in {"listing", "fcontent", "sbar", "sd", "app-list", "wv-status", "wv-runs"} :
        (id \in DOMAIN panels /\ panels[id] = Loading)
            ~> (id \notin DOMAIN panels \/ panels[id] # Loading)
=============================================================================
