SPECIFICATION Spec
CONSTANTS
    Block <- LongPartition
    Witness = {"A", "B", "C", "D"}
    StartVoting = 0
    MaxWitnesses = 2
    TransitBlock = 0
    CanStop = FALSE
    RevisionEvery = 2
PROPERTY AllOrNothing
