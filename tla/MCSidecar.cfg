SPECIFICATION FairSpec
CONSTANTS
    Watch = Watch
    Free = Free
    Threads <- MCThreads
    Requests <- MCRequests
    Statements = 1
    MaxEdits = 2
INVARIANTS
    TypeOK
    UnnotedAnswersAreFresh
PROPERTIES
    NeverGoesBack
    LastEditIsSynced
    
    EveryRequestIsAnswered
CHECK_DEADLOCK FALSE
