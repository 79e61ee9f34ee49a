SPECIFICATION FairSpec
CONSTANTS
    p1 = p1
    p2 = p2
    Nobody = Nobody
    Pages <- PageSet
    Faults = 2
    BadReads = 1
CHECK_DEADLOCK FALSE
PROPERTIES ExpiryHandledAlive BacklogWorkedOff
