SPECIFICATION Spec
CONSTANTS
    Account <- Accounts
    Witness = {"v", "w"}
    ProxyDepth = 2
    Start <- Stakes
    VestOps <- Vests
    WithdrawOps <- Withdraws
    RouteOps <- Routes
    ProxyOps <- Proxies
    VoteOps <- Votes
    DeclineOps <- Declines
    DelegateOps <- Delegations
    RejectOps <- Rejects
    SharePrice = 2
    MaxVotes = 2
    MaxRoutes = 2
    Full = 2
    Intervals = 2
    Interval = 1
    CashoutWindow = 1
    DeclineDelay = 1
    MinDelegation = 4
    MinUpdate = 2
    MinPowerdown = 2
    IdleMin = 2
    IdleKeep = 4
    Dormant = {"b"}
    Silent = {"w"}
    MaxOps = 4
    MaxTime = 3
INVARIANTS StakeConserved SumsMatch
PROPERTY WithdrawalProgresses
CHECK_DEADLOCK FALSE
