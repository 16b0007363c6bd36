\* One node under fairness.
SPECIFICATION MCSpec
CONSTANTS
    Name = {a}
    Platform = platform
    Folder <- MCFolder
    Swarm = "swarm"
    Info = {i0}
    Slot = t1
    None = None
    Task = {t1}
    FolderOrder <- MCOrder
    PlatformInfo = i0
    FileName = {}
    MaxRegs = 2
    Config = "config"
    MaxReads = 2
PROPERTY ReadyNodesListed
