SPECIFICATION FairSpec
CONSTANTS
    k1 = k1
    b1 = b1
    b2 = b2
    g1 = g1
    g2 = g2
    x1 = x1
    x2 = x2
    NoHash = NoHash
    NoEnd = NoEnd
    Unset = Unset
    Symbols <- MCSymbols
    Files <- MCFiles
    FileOf <- MCFileOf
    Rank <- MCRank
    Sites <- MCSites
    MaxDepth = 3
    Cap = 4
    Truncated = NoEnd
    Tests = {1, 2}
    Unreached = Unset
    FileCap = 1
    NoIndex = Unset
    GroupCap = 1
    Keys = {k1}
    Bodies = {b1, b2}
    NoBody = NoHash
    Signatures = {g1, g2}
    Ends = {x1, x2}
    Asks <- MCAsks
    Inputs <- MCInputs
    Graphs <- MCGraphs
INVARIANTS
    TypeOK
    AnswerIsExact
    NearestFirst
    AffectedIsExact
    ComponentsAreClosed
    GroupsAreCycles
    ChangedMeansChanged
    MovedCallsCancel
PROPERTIES
    EveryQueryAnswers
CHECK_DEADLOCK FALSE
