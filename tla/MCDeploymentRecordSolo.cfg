CONSTANTS
    c1 = c1
    c2 = c2
    Commands = {c1}
    Bundles = 1
    MaxTokens = 2
    MaxFactories = 2
    MaxStarts = 5
SPECIFICATION Spec
INVARIANTS
    SequentialCommandsKeepRecord
    NoRouterLeftBehind
PROPERTIES
    CreatedIsLatest
CHECK_DEADLOCK FALSE
