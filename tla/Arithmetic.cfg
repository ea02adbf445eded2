SPECIFICATION ArithmeticSpec
CONSTANTS
    MaxReward = 60
    Percents <- SomePercents
    Numbers <- SomeNumbers
    Templates <- SomeTemplates
    Configurations <- SomeConfigurations
    Ratings <- SomeRatings
    Base = 4
    Width = 3
    MAX_TARGET = 63
    DIFF1_TARGET = 20
    REFERENCE_SHARE_TARGET = 30
    NoTarget = NoTarget
    a1 = a1
    a2 = a2
    Addr = {a1, a2}
    Works = {0, 490, 700}
    Difficulties = {0, 1190, 5000}
    Multiplier = 1
    Fixed = 0
    Rewards = {1, 5, 101}
    FeePercent = 1000
    Noise = 1
    MaxShares = 4
INVARIANTS
    PoolCoversMiners
    VarintReadsBack
    CoinbaseReadsBack
    RootBindsTemplate
    BlockIsShare
    NoOverAllocation
    DustBound
    FairShare
    WindowIsMinimal
CHECK_DEADLOCK FALSE
