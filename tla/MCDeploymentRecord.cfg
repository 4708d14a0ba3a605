CONSTANTS
    c1 = c1
    c2 = c2
    Commands = {c1, c2}
    Bundles = 2
    MaxTokens = 2
    MaxFactories = 2
    MaxStarts = 4
SPECIFICATION Spec
SYMMETRY Symmetry
INVARIANTS
    TypeOK
    RecordedIsReal
    RecordedFactoryCanCreate
PROPERTIES
    AllUpgradeConverges
    EntriesLostOnlyByOverlap
    ExportsAgree
CHECK_DEADLOCK FALSE
