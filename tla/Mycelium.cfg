\* Paths of up to three segments, one name metadata, two contents, five entries.
SPECIFICATION Spec
CONSTANTS
    Name = {a, _meta}
    Metadata = {_meta}
    Value = {v1, v2}
    MaxDepth = 3
    Blank = Blank
    Missing = Missing
    MaxEntries = 5
CONSTRAINT FewEntries
INVARIANTS
    TypeOK
    ReadsAgree
PROPERTIES
    ImplementsFiles
