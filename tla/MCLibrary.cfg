\* A sample has no step, and a unit may have none left: a chain that a call has
\* broken, an emission that lost its place, an endless pass of the event loop.
SPECIFICATION MCSpec
CONSTANTS
    Ctxts = {1, 2} Funs = {"f", "g"} Items = {"a", "b"} Names = {"f", "g"} UserEmpty = TRUE
    Priority <- Event1First Routes <- RouteTables
    LineMax = 7 ReadMax = 3
    Pages <- Entries Folders = {"d"} Asked <- ContentRequests ErrorPages <- ErrorHandlers MaxPages = 3
    Priorities = {0, 1, 2}
    Events = {1, 2, 3} FdSize = 3
    Iterators = {1, 2, 3}
    Objects = {1, 2} Slots = {1, 2, 3} NoObject = 0
    MaxRefused = 2
    MaxOpen = 2 MaxLost = 2
    Bits = 3 Tries = 2
INVARIANTS SeesWhatWasSent SavedIsWhole ConversionsKept LatestServed TasksRun ReadyRuns
    ContentsKept SlotsCalled SocketsKept PortsInTurn
CHECK_DEADLOCK FALSE
