SPECIFICATION Spec
CONSTANTS
    Account <- Accounts
    Asset = {"GLD"}
    FeePercent <- Fees
    Creator <- Issuer
    MaxCanceled = 0
    Balance <- Start
    Feeds <- Prices
    OrderOps <- Orders
    ConvertOps <- Conversions
    SavingsOps <- Savings
    WithdrawOps <- Withdrawals
    EscrowOps <- Escrows
    ConversionDelay = 1
    ConvertFee = 5000
    WithdrawTime = 1
    RequestLimit = 1
    DebtInterval = 2
    DebtThreshold = 2000
    DebtRate = 9000
    BlockOps = 5
    MaxTime = 4
INVARIANTS ValidateInvariants BookSound RequestsServed
PROPERTIES MakerGetsPrice
CHECK_DEADLOCK FALSE
