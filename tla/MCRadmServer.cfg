SPECIFICATION MCSpec
CONSTANTS
    Fds = {11, 12, 13, 14, 15}
    Cli = {c1, c2}
    Links = {k1, k2, k3}
    Ids = {1, 2}
    Kinds = {1, 2}
    Ips = {1, 17}
    InitWhite = {1}
    Begins <- TextBegins
    Listen = Listen
    Nil = Nil
    PartMax = 1
    CtlMax = 2
SYMMETRY Symmetry
INVARIANTS TypeOK FdOwnership RegistryExact KeystreamInSync ClientsSorted
PROPERTIES ImplementsBroker
