SPECIFICATION Spec
CONSTANTS
    LastHardfork = 1
    Required = 2
    Witnesses = 3
    MaxVoted = 1
    MaxWitnesses = 2
    Interval = 2
    Window = 3
    Width = 3
    Cycle = 2
    ResetBlocks <- MCResetBlocks
    InitVotes <- MCInitVotes
    MaxVotes = 3
    MaxGap = 5
    Budgets <- MCBudgets
CHECK_DEADLOCK FALSE
INVARIANTS ScheduleSound HardforkSupported
PROPERTIES VotedTakeTurns HardforkHappens
