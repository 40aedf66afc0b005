SPECIFICATION Spec
CONSTANTS
    Account = {1, 2, 3}
    Key <- MCKeys
    Authority <- MCAuthorities
    MaxDepth = 1
    UpdateLimit = 1
    RecoveryPeriod = 3
    RequestPeriod = 1
    Start <- AtStart
    Ops <- MCOps
    Drafts <- MCDrafts
    Signatures <- MCSignatures
    Changes <- MCChanges
    MaxLifetime = 3
    MaxOps = 4
    MaxTime = 4
INVARIANTS OnlyByConsent RecoverableUntilChanged NothingLeftBehind
PROPERTY RunsWhenDue
CHECK_DEADLOCK FALSE
