SPECIFICATION DatabaseSpec
CONSTANTS
    w1 = w1
    w2 = w2
    a1 = a1
    a2 = a2
    b1 = b1
    Name = {w1, w2}
    Legacy <- MCLegacy
    Payees <- MCPayees
    Block = {b1}
    Credit <- MCCredit
    Columns <- MCColumns
    MaxShares = 1
    NoRow = NoRow
    Method <- PoolMethod
    Statements <- PoolStatements
    Execute <- PoolExecute
    Tables <- PoolTables
    MaxFaults = 2
    Nobody = Nobody
INVARIANTS
    TablesAgree
PROPERTIES
    ImplementsAtomicStore
    MinersKept
    EventuallyServes
CHECK_DEADLOCK FALSE
