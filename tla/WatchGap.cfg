SPECIFICATION Spec
CONSTANTS
    Watch = Watch
    Free = Free
    Threads <- MCThreads
    Requests <- MCRequests
    Statements = 1
    MaxEdits = 2
PROPERTY
    CurrentBeforeFirstEvent
CHECK_DEADLOCK FALSE
