CONSTANTS
    u1 = u1
    u2 = u2
    Users = {owner, u1, u2}
    Hook = hook
    Target = target
    Unit <- MCUnit
    MaxExpInput = 144
    Exp <- MCExp
    Ln <- MCLn
    RoundTripDust = 4
    K = 20
    S = 4
    FeeBps = 2500
    BurnTaxMinBps = 2500
    BurnTaxMaxBps = 5000
    SelfDeprecationBps = 8000
    MaxBuyOkb = 4
    BuyAmounts = {4}
    MinAmounts = {1}
    TransferAmounts = {6}
    DonationAmounts = {}
    MaxBlock = 2
    MaxSells = 100
    MaxDonated = 0
    MintedUnits <- MCMintedUnits
    MirrorDust = 1
    OkbUnits <- MCOkbUnits
    OkbDust = 1
    Owner = owner
    Wallets = {4}
    OwnerWallet = 20
    RecordedParams <- MCRecordedParams
    Floors = {1, 20}
    Slippages = {0, 5000, 10000}
    SellAmounts = {5}
    TenOkb = 4
    BuyLimits = {2}
    WalletFiles <- MCWalletFiles
    Limits = {0, 1, 2}
    LocalChain = 31337
    Networks = {"anvil", "hashkeytest", "forge-local"}
    Endpoints = {0, 133}
    DustLimit = 4
    Concurrency = 1
    MinBalance = 5
    FundBalance = 6
    SmokeBuy = 2
    SmokeSell = 1
    Keys = {owner, u1}
    Recipients = {u1}
    MaxCommands = 3
SPECIFICATION CommandsSpec
INVARIANTS
    CommandsTypeOK
    TradesAsShownUnlessOvertaken
    SmokeSellsUnlessOvertaken
    CreateRefusedOnlyByRounding
PROPERTIES
    CommandsEnd
CHECK_DEADLOCK FALSE
