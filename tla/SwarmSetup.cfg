\* One node that joins at any moment, may be started again and posts at most two
\* registrations, one of two contents or two at once; any crash; fairness.
SPECIFICATION MCSpec
CONSTANTS
    Name = {a}
    Platform = platform
    Folder <- MCFolder
    Swarm = "swarm"
    Info = {i0, i1}
    None = None
    Task = {t1, t2}
    Slot = t1
    FolderOrder <- MCOrder
    PlatformInfo = i0
    FileName = {}
    MaxRegs = 2
    Config = "config"
    MaxReads = 2
INVARIANTS
    SetupTypeOK
    BrowseNeverFails
    DropdownAgrees
PROPERTIES
    RegistrationSettles
    BootCompletes
    ListedReachReplicas
