\* Three files, two peers, at most three puts under way, two milliseconds; one node joins the tree, and any
\* other would not affect it; two join the commit, which is seeded three times at most.
SPECIFICATION MCSpec
CONSTANTS
    readme = readme
    registry = registry
    app = app
    Visitor = p1
    SeedOrder <- MCSeedOrder
    Probe = readme
    Registry = registry
    App = {app}
    Peer = {p1, p2}
    MaxQueue = 3
    MaxTime = 1
    None = None
    Joiner = {n1}
    FolderOrder <- MCFolderOrder
    Config = Config
    Packages = Packages
    MaxSeeds = 3
    Reader = {r1, r2}
INVARIANTS
    TypesOK
    SeededComplete
    SettledViewAgrees
PROPERTIES
    ViewCatchesUp
    RunsLogged
