SPECIFICATION MCSpec
CONSTANTS
    Fds = {11, 12, 13, 14}
    Cli = {c1, c2}
    Links = {k1, k2}
    Ids = {1}
    Kinds = {1}
    Ips = {17}
    InitWhite = {}
    Begins <- TextBegins
    Listen = Listen
    Nil = Nil
    PartMax = 0
    CtlMax = 2
SYMMETRY Symmetry
PROPERTIES DeleteEndsNoSession
