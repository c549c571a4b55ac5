SPECIFICATION Spec
CONSTANTS
    Fds = {11, 12, 13, 14, 15, 16}
    Links = {k1, k2, k3, k4, k5}
    Services = {0, 1}
    Local = Local
    Nil = Nil
SYMMETRY Symmetry
INVARIANTS AlwaysWaits SocketsOwned RegistryExact
PROPERTIES ImplementsDevice
