SPECIFICATION Spec
CONSTANTS
    Tx <- Txs
    Expiration <- EarlyExpiration
    Ref <- OtherRefersToB
    Needs <- Dependent
    Excludes <- Exclusive
    Size <- Sizes
    MaxUntil = 6
    MaxSize = 10
    HeaderRoom = 3
    HeaderSize = 5
    HardFork9 = FALSE
    Root <- Top
    Foreign <- AllForks
    Slots = {2}
INVARIANTS NoReplay PendingIsApplied
PROPERTIES NothingLost GeneratedApplies
CHECK_DEADLOCK FALSE
