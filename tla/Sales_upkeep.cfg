SPECIFICATION Spec
CONSTANTS
    Account <- MCAccounts
    PlanOps <- MCPlanOps
    PayOps <- MCPayOps
    CollectionOps <- MCCollectionOps
    IssueOps <- MCIssueOps
    TransferOps <- MCTransferOps
    SellOps <- MCSellOps
    BuyOps <- MCBuyOps
    AuctionOps <- MCAuctionOps
    StartBal <- MCBal
    StartColl <- MCColl
    StartTokens <- MCTokens
    MaxCollections = 2
    MaxEmpty = 1
    IssueCost = 2
    Late = 1
    Extension = 1
    MaxOps = 6
    MaxTime = 5
INVARIANTS Conserved CountersMatch NothingStale
PROPERTIES AuctionGoesToBest
CHECK_DEADLOCK FALSE
