SPECIFICATION Spec
CONSTANTS
    bookA = bookA
    bookB = bookB
    bookC = bookC
    shared = shared
    Procs = {p1, p2}
    Books <- MCBooks
    OldPaths = {shared}
    OldPath <- MCOldPath
    NoPath = NoPath
    Free = Free
    Old = Old
    OldRunning = FALSE
    Positions <- MCPositions
    NoBook = NoBook
INVARIANT ForeignProgressIsNoObstacle
