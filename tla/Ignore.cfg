SPECIFICATION FairSpec
CONSTANTS
    Files <- AllFiles
    Paths <- SomePaths
INVARIANT LastMatchDecides
PROPERTY PlainReturns
CHECK_DEADLOCK FALSE
