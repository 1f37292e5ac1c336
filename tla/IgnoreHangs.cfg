SPECIFICATION FairSpec
CONSTANTS
    Files <- DoubleFiles
    Paths <- SomePaths
PROPERTY Returns
CHECK_DEADLOCK FALSE
