CONSTANTS
    Balances = {0, 2, 9}
    Limits = {1, 2, 3, 10}
    Allowances = {0, 4, 10}
    Chunks = {4, 10}
    Dusts = {0, 1}
    Quotes = {0, 3}
    slippageBps = 100
    MIN_SELL_BACKOFF_WEI = 2
    MaxAttempts = 4
    max = 10
    MaxMoves = 1
SPECIFICATION Spec
INVARIANTS
    TypeOK
    SwapIsCovered
PROPERTIES
    LimitsAreOvercome
CHECK_DEADLOCK FALSE
