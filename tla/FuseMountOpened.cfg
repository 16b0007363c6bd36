\* One descriptor on a file that exists.
SPECIFICATION Spec
CONSTANTS
    File = {f}
    Fd = {d1}
    Query = {}
    Byte = {1}
    MaxLen = 2
    TTL = 1
    MaxTime = 0
    None = None
SYMMETRY CallSymmetry
INVARIANTS
    OpenedFileHolds
