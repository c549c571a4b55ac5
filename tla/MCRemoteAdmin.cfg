SPECIFICATION RemoteFairSpec
CONSTANTS
    Fds <- ServerFds
    Cli = {c1}
    Links <- FourLinks
    Ids = {1}
    Kinds = {1}
    Ips = {a1}
    InitWhite = {a1}
    Begins <- NoneBegins
    Listen = Listen
    Nil = Nil
    PartMax = 0
    CtlMax = 0
    CFds <- DeviceFds
    Services = {1}
    Local = Local
    Id = 1
    UpsetMax = 2
INVARIANTS OfferIsWaiting SessionsMeet
PROPERTIES AlwaysReachableAgain
