SPECIFICATION FairSpec
CONSTANTS
    a1 = a1  a2 = a2  t1 = t1  t2 = t2  t3 = t3  b1 = b1  b2 = b2  Nobody = Nobody
    Addr = {a1, a2}
    Task = {t1, t2}
    Block = {b1, b2}
    BlockOf <- TwoBlocks
    Awards <- SplitAwards
    Reward = 3
    Maturity = 2
    MinPayout = 2
    DryRunSettings = {FALSE}
    TxFee = 0
    Reserve = 0
    MaxFaults = 0
    MaxReorgs = 2
CHECK_DEADLOCK FALSE
INVARIANTS
    CreditedIsMature
    BooksExact
    PaidIsSent
    WalletCoversBalances
PROPERTIES
    ImplementsAccounts
    MatureIsCredited
    PayableIsPaid
