SPECIFICATION FairSpec
CONSTANTS
    Reqs = {r1, r2}
    Kids = {p1, p2}
    Nil = Nil
    CtlMax = 4
INVARIANTS SavedIsObeyed
PROPERTIES Answered UpAgain DeafUntilLogin SessionCloses
