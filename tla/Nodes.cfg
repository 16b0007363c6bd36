SPECIFICATION MCSpec
CONSTANTS
    Server = {"s1", "s2"}
    Client = {"c1", "c2", "c3"}
    Routed = {"c1", "c3"}
    ServiceOf <- MCServiceOf
    MaxConns = 3
    Member = {"a", "b"}
    MaxLinks = 2
    MaxSeq = 2
    Worker = {"w"}
    Caller = {"k1", "k2"}
    Role = {"echo", "reverse"}
    RoleOrder <- MCRoleOrder
    RolesOf <- MCRolesOf
    Target <- MCTarget
    Service <- MCService
    Registry = "registry"
    MaxSeeds = 2
    MaxReaches = 2
    MaxCalls = 2
INVARIANTS
    NodesTypeOK
    FallbackComesFirst
    ReceivedInOrder
    NeverFatal
    FirstRoleIsServed
PROPERTIES
    RoutesEnd
    PublishedArrives
    WorkGetsDone
CHECK_DEADLOCK FALSE
