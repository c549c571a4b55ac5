SPECIFICATION BothFairSpec
CONSTANTS
    BufSize = 2
    Room = 1
    Noise = Noise
    SentMax = 3
PROPERTIES ImplementsPipe Delivered SendEnds
