CONSTANTS
    Users = {u1}
    Hook = hook
    Target = target
    Unit <- MCUnit
    MaxExpInput = 144
    Exp <- MCExp
    Ln <- MCLn
    RoundTripDust = 4
    K = 20
    S = 4
    FeeBps = 2500
    BurnTaxMinBps = 2500
    BurnTaxMaxBps = 5000
    SelfDeprecationBps = 8000
    MaxBuyOkb = 4
    BuyAmounts = {4}
    MinAmounts = {0, 1}
    TransferAmounts = {6}
    DonationAmounts = {1}
    MaxBlock = 2
    MaxSells = 2
    MaxDonated = 1
SPECIFICATION Spec
INVARIANTS
    GraduatedMeansThresholdReached
CHECK_DEADLOCK FALSE
