----------------------------- MODULE SwarmPage -----------------------------
(***************************************************************************)
(* The page of a node of phase-7-swarm-app (nodeJS in ui/http.js): a       *)
(* browser of the drive with a status bar, the apps with their output, and *)
(* the world view, rendered anew every 5 s.  viewFile and runApp hold on   *)
(* to their element; everything else looks its panel up by id.             *)
(***************************************************************************)
EXTENDS PageDom, FiniteSets

CONSTANTS
    AppPath,      \* where the apps of the registry are, by name
    WorldPanels   \* the panels of the world view

App == DOMAIN AppPath

\* The panels of the world view are some, and no app's is any other: its id is 'out-'
\* and the name.
ASSUME SwarmPageAssumption ==
    /\ \A k \in App : AppPath[k] \in Files
    /\ IsFiniteSet(WorldPanels)
    /\ (App \cup WorldPanels) \cap {"sbar", "bc", "listing", "fcontent", "sd", "app-list"} = {}

View == {"browse", "apps", "world", "status"}

\* Mutation: the answer is for the panel there was when it was asked for.
WorldRequestsHeld ==
    [k \in DOMAIN SetToSeq(WorldPanels) |-> Request("world", <<>>, SetToSeq(WorldPanels)[k], TRUE)]

\* loadWorldStatus, loadWorldPeers, loadWorldRuns, loadWorldFiles.
WorldRequests ==
    [k \in DOMAIN SetToSeq(WorldPanels) |-> Request("world", <<>>, SetToSeq(WorldPanels)[k], FALSE)]

-----------------------------------------------------------------------------
LoadStatusBar == Request("status", <<>>, "sbar", FALSE)

RenderBrowse(p) ==
    /\ path' = p
    /\ Render("browse",
              [id \in {"sbar", "bc", "listing"} |-> IF id = "bc" THEN Crumb(p) ELSE Loading],
              <<LoadStatusBar, Request("ls", p, "listing", FALSE)>>)

\* Mutation: the breadcrumb is left as it was.
ViewFileOnly(p) ==
    /\ path' = p
    /\ "listing" \in DOMAIN panels /\ HasRoom(1)
    /\ requests' = Append(requests, Request("file", p, "listing", TRUE))
    /\ UNCHANGED <<tab, panels, overtaken>>

\* From a listing: the breadcrumb changes at once, the listing stays until then.
ViewFile(p) ==
    /\ path' = p
    /\ "listing" \in DOMAIN panels /\ HasRoom(1)
    /\ panels' = [panels EXCEPT !["bc"] = Crumb(p)]
    /\ requests' = Append(requests, Request("file", p, "listing", TRUE))
    /\ UNCHANGED <<tab, overtaken>>

RenderStatus ==
    /\ Render("status", [id \in {"sd"} |-> Loading], <<Request("status", <<>>, "sd", FALSE)>>)
    /\ UNCHANGED path

RenderApps ==
    /\ Render("apps", [id \in {"app-list"} |-> Loading], <<Request("apps", <<>>, "app-list", FALSE)>>)
    /\ UNCHANGED path

RenderWorld ==
    /\ Render("world", [id \in WorldPanels |-> Loading], WorldRequests)
    /\ UNCHANGED path

Go(view) ==
    \/ view = "browse" /\ RenderBrowse(path)
    \/ view = "apps" /\ RenderApps
    \/ view = "world" /\ RenderWorld
    \/ view = "status" /\ RenderStatus

\* The output panel of an app exists while its card does.
RunApp(k) ==
    /\ k \in DOMAIN panels /\ HasRoom(1)
    /\ panels' = [panels EXCEPT ![k] = Loading]
    /\ requests' = Append(requests, Request("run", <<k>>, k, TRUE))
    /\ UNCHANGED <<tab, path, overtaken>>

\* The Source button: viewFile finds no listing among the apps and only sets the
\* path; go('browse') then lists the file as if it were a folder.
Source(k) == k \in DOMAIN panels /\ RenderBrowse(AppPath[k])

\* Every 5 s.
Interval ==
    \/ tab = "world" /\ RenderWorld
    \/ /\ tab = "browse" /\ HasRoom(1)
       /\ requests' = Append(requests, LoadStatusBar)
       /\ UNCHANGED <<tab, path, panels, overtaken>>

\* The apps come with cards of their own, in place of those there were.
AppsAnswered(k) ==
    \E ok \in BOOLEAN :
        LET cards == IF ok THEN App ELSE {}
        IN  /\ panels' = [id \in {"app-list"} \cup cards |->
                            IF id \in cards THEN Hidden ELSE Shows("apps", <<>>, ok)]
            /\ requests' = Detach(RemoveAt(requests, k), App)
            /\ UNCHANGED <<tab, path, overtaken>>

\* handleRequest: what the world view has not written yet is an error, and so is an
\* app that throws; of a file that is not there the text of the error is shown.
SwarmReplies(api, arg) ==
    IF api \in {"world", "run"} THEN BOOLEAN
    ELSE {api = "file" => ReadFile(Files, arg) # "ENOENT"}

\* An answer that finds its panel gone is dropped like any other.
SwarmAnswered(k) ==
    LET forCards == requests[k].api = "apps" /\ "app-list" \in DOMAIN panels
    IN  IF forCards THEN AppsAnswered(k)
        ELSE Answered(k, SwarmReplies(requests[k].api, requests[k].arg))

\* What the user can do: the tabs, the links of breadcrumb and listing, 'back',
\* and the buttons of the apps.
SwarmClick ==
    \/ \E view \in View : Go(view)
    \/ \E p \in Folders("listing") : RenderBrowse(p)
    \/ \E e \in Entries("listing") : e.type = "file" /\ ViewFile(e.to)
    \/ \E k \in App : RunApp(k) \/ Source(k)

\* The page starts with the view its address names.
SwarmNext ==
    \/ tab = "none" /\ \E view \in View : Go(view)
    \/ tab # "none" /\ (SwarmClick \/ Interval)
    \/ \E k \in DOMAIN requests : SwarmAnswered(k)

\* Every request is answered or fails in the end.
SwarmFairness == WF_pageVars(requests # <<>> /\ SwarmAnswered(1))

SwarmSpec == PageInit /\ [][SwarmNext]_pageVars /\ SwarmFairness
=============================================================================
