SPECIFICATION BothSpec
CONSTANTS
    BufSize = 2
    Room = 2
    Noise = Noise
    SentMax = 2
INVARIANTS OnlySessionEnds
