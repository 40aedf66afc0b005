SPECIFICATION Spec
CONSTANTS
    Account <- MCAccounts
    PlanOps = {}
    PayOps = {}
    CollectionOps = {}
    IssueOps = {}
    TransferOps = {}
    SellOps = {}
    BuyOps <- TwoBuyOps
    AuctionOps <- TwoAuctionOps
    StartBal <- MCBal
    StartColl <- MCColl
    StartTokens <- MCTokens
    MaxCollections = 2
    MaxEmpty = 1
    IssueCost = 2
    Late = 1
    Extension = 1
    MaxOps = 4
    MaxTime = 5
INVARIANT Conserved
CHECK_DEADLOCK FALSE
