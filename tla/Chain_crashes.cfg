SPECIFICATION FairSpec
CONSTANTS
    Block <- Forks
    Witness = {"A", "B"}
    StartVoting = 0
    MaxWitnesses = 2
    TransitBlock = 1
    CanStop = TRUE
    RevisionEvery = 2
INVARIANTS UndoChain LogOnChain LoggedIsCommitted StateIsReplayed FollowsLongest
PROPERTIES IrreversibleStays CallsReturn UnwoundOrCommitted
CHECK_DEADLOCK FALSE
