CONSTANTS
    c1 = c1
    c2 = c2
    Commands = {c1}
    Bundles = 1
    MaxTokens = 1
    MaxFactories = 1
    MaxStarts = 3
SPECIFICATION Spec
PROPERTIES
    SnapshotHasEveryDeployment
CHECK_DEADLOCK FALSE
