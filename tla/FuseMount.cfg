\* One descriptor and one lookup on one path, files of up to two bytes, one tick.
SPECIFICATION Spec
CONSTANTS
    File = {f}
    Fd = {d1}
    Query = {q1}
    Byte = {1}
    MaxLen = 2
    TTL = 1
    MaxTime = 1
    None = None
SYMMETRY CallSymmetry
INVARIANTS
    TypeOK
    CacheNoOlder
    FinishedChangeListed
    CreatedFileHolds
