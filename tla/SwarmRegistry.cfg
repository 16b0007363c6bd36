\* Three registrations, two in flight at once, a file among the names; any crash.
SPECIFICATION Spec
CONSTANTS
    Name = {a, b, file}
    Platform = platform
    Folder <- MCFolder
    Swarm = "swarm"
    Info = {i0}
    None = None
    Task = {t1, t2}
    FolderOrder <- MCOrder
    PlatformInfo = i0
    FileName = {file}
    MaxRegs = 3
SYMMETRY RegistrySymmetry
INVARIANTS
    TypeOK
    EveryVersionResolves
    TreeComplete
    UncontendedKept
    HistoryKept
PROPERTIES
    AloneOnPresent
    ImplementsSnapshots
