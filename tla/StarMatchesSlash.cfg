SPECIFICATION Spec
CONSTANTS
    Files <- PlainFiles
    Paths <- SomePaths
INVARIANT StarStopsAtSlash
CHECK_DEADLOCK FALSE
