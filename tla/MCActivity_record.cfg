SPECIFICATION Spec
CONSTANTS
    g1 = g1
    g2 = g2
    w1 = w1
    w2 = w2
    NoWorker = NoWorker
    Grants <- GrantSet
    Workers <- WorkerSet
    MaxActions = 1
    MaxEvents = 1
    Faults = 1
    Forgets = 1
CHECK_DEADLOCK FALSE
SYMMETRY Symmetry
INVARIANTS NotifiedOnce HistoryOwned EndedMoved
PROPERTY LiveRecordKept
