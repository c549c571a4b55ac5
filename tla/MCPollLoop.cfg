SPECIFICATION FairSpec
CONSTANTS
    Socks = {s1, s2, s3}
    Objects = {o1}
    Callbacks = {read}
    Requestable = {"IN"}
    Err = "ERR"
    Nil = Nil
    PfdMax = 3
INVARIANTS UniqueRegistration
PROPERTIES ImplementsSockSet NoEventLost LoopProgresses
