SPECIFICATION Spec
CONSTANTS
    f1 = f1
    f2 = f2
    f3 = f3
    w1 = w1
    w2 = w2
    caller = caller
    definer = definer
    both = both
    garbage = garbage
    fn = fn
    main = main
    topic = topic
    Files <- TwoFiles
    Contents <- ThreeContents
    Garbage = garbage
    Missing = Missing
    SizeOf <- MCSizeOf
    Names <- MCNames
    Defines <- MCDefines
    Calls <- MCCalls
    Branches <- OneBranch
    Nobody = Nobody
    Workers <- OneWorker
    LockWorks = TRUE
    QuietEdits = FALSE
    MaxTime = 1
    MaxEdits = 1
    MaxFingerprint = 1
INVARIANT
    FreshMeansInSync
