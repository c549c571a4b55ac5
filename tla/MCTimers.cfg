SPECIFICATION MCSpec
CONSTANTS
    Timers = {t1, t2, t3}
    Few = {t1, t2}
    Soon = 3
    Intervals = {0, 1}
    Counts = {1, Forever}
    Forever = Forever
    MsPerSec = 2
    Ms = 2
    IntHalf = 1000
    Horizon = 5
INVARIANTS ArmedAreOn
PROPERTIES NoneOverdue WakesInTime ImplementsAlarms PassEnds
