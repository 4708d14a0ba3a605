CONSTANTS
    Balances = {2, 7}
    Limits = {10}
    Allowances = {0, 10}
    Chunks = {4}
    Dusts = {0}
    Quotes = {0}
    slippageBps = 100
    MIN_SELL_BACKOFF_WEI = 2
    MaxAttempts = 4
    max = 10
    MaxMoves = 0
SPECIFICATION Spec
PROPERTIES
    SellAllSells
CHECK_DEADLOCK FALSE
