SPECIFICATION FairSpec
CONSTANTS
    f1 = f1
    f2 = f2
    upper = upper
    lower = lower
    Files <- MCFiles
    Twins <- MCTwins
    Layouts <- MCLayouts
    Place <- MCPlace
    OldId <- MCOldId
    NewId <- MCNewId
    MaxFaults = 3
PROPERTY
    EdgesRebuildEitherWay
