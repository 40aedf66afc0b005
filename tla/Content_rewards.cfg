SPECIFICATION Spec
CONSTANTS
    Account <- MCAccounts
    CommentOps <- MCCommentOps
    OptionsOps <- MCOptionsOps
    DeleteOps <- MCDeleteOps
    VoteOps <- MCVoteOps
    Props <- MCProps
    BlankBill <- MCBill
    PostWeights = {6, 10}
    Full = 10
    CashoutWindow = 3
    Lockout = 1
    MaxChanges = 1
    Never = 99
    MaxTime = 4
    Workers <- Pool
    Producer <- Witness
    Emission <- MCEmission
    PrintRate = 6
    MinPayout = 10
    MinEmission = 4
    Disreputed = {5}
    Curves <- MCCurves
    Width = 6
    ContentS = 3
    AccumInterval = 2
    ClaimOps <- MCClaimOps
    RequestOps <- MCRequestOps
    BallotOps <- MCBallotOps
    RequestFee = 1
    ApproveMin = 3
    WorkerInterval = 2
    StartMoney <- MCMoney
    StartPosts <- MCPosts
    Budgets <- MCBudgets
INVARIANTS ContentSound
PROPERTIES PayoutsFair
CHECK_DEADLOCK FALSE
