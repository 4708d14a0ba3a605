CONSTANTS
    K = 3
    TaxBefore = 1
    Reserves = {2}
    Amounts = {1, 2}
    Deadline = 0
    MaxMoves = 3
    MaxPending = 2
SPECIFICATION FairSpec
INVARIANTS
    TypeOK
    RefusedOnlyIfOvertaken
    SuccessMeansMigrated
PROPERTIES
    KeeperMigrates
CHECK_DEADLOCK FALSE
