\* Two overlapping registrations: the later forced ref drops the earlier entry.
SPECIFICATION Spec
CONSTANTS
    Name = {a, b, file}
    Platform = platform
    Folder <- MCFolder
    Swarm = "swarm"
    Info = {i0}
    None = None
    Task = {t1, t2}
    FolderOrder <- MCOrder
    PlatformInfo = i0
    FileName = {file}
    MaxRegs = 2
INVARIANT RegisteredVisible
