CONSTANTS
    team = team
    v4 = v4
    nocode = nocode
    unset = unset
    ownpair = ownpair
    empty = empty
    other = other
    elsewhere = elsewhere
    deployer = deployer
    Recipients = {team, deployer}
    Venues = {v4, nocode}
    VenuesWithCode = {v4}
    localVenue = ownpair
    PoolSettings <- MCPools
    Liquidities = {0, 1}
    HookData = {empty, other}
    Chains = {xlayer, elsewhere}
    xlayer = xlayer
    Unset = unset
    UINT24_MAX = 3
    INT24_MAX = 3
    UINT128_MAX = 3
    MaxTargets = 2
    MaxFactories = 2
    MaxEdits = 2
SPECIFICATION Spec
INVARIANTS
    TypeOK
    RecordDescribesTarget
    OnlyHookDataCanBeWrong
    GateMeansAccepted
    GateMeansCustody
