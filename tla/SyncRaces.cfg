SPECIFICATION Spec
CONSTANTS
    f1 = f1
    f2 = f2
    f3 = f3
    w1 = w1
    w2 = w2
    caller = caller
    definer = definer
    both = both
    garbage = garbage
    fn = fn
    main = main
    topic = topic
    Files <- ThreeFiles
    Contents <- TwoContents
    Garbage = garbage
    Missing = Missing
    SizeOf <- MCSizeOf
    Names <- MCNames
    Defines <- MCDefines
    Calls <- MCCalls
    Branches <- OneBranch
    Nobody = Nobody
    Workers <- TwoWorkers
    LockWorks = FALSE
    QuietEdits = FALSE
    MaxTime = 0
    MaxEdits = 1
    MaxFingerprint = 1
INVARIANTS
    RowsDescribeFacts
    EdgesAreResolved
PROPERTIES
    ImplementsStore
SYMMETRY Interchangeable
