SPECIFICATION FairSpec
CONSTANTS
    f1 = f1
    f2 = f2
    f3 = f3
    w1 = w1
    w2 = w2
    caller = caller
    definer = definer
    both = both
    garbage = garbage
    fn = fn
    main = main
    topic = topic
    Files <- TwoFiles
    Contents <- TwoContents
    Garbage = garbage
    Missing = Missing
    SizeOf <- MCSizeOf
    Names <- MCNames
    Defines <- MCDefines
    Calls <- MCCalls
    Branches <- TwoBranches
    Nobody = Nobody
    Workers <- OneWorker
    LockWorks = TRUE
    QuietEdits = TRUE
    MaxTime = 2
    MaxEdits = 2
    MaxFingerprint = 2
INVARIANTS
    TypeOK
    FreshMeansInSync
PROPERTIES
    IncrementalIsFull
    Converges
