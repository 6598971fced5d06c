\* Three turns or agent transfers with every interleaving of the tasks and a
\* failure of every append and provider.
SPECIFICATION FairSpec
CONSTANTS
    MaxRequests = 3
INVARIANTS
    TypeOK
    TurnHasOneAgent
PROPERTIES
    OneWriterOfHistory
    HistoryOnlyGrows
    BargeInSilencesTurn
    DeafCallEnds
    TurnEnds
    TurnLockIsFreed
CHECK_DEADLOCK FALSE
