SPECIFICATION FairSpec
CONSTANTS
    p1 = p1
    g1 = g1
    Pages <- OnePage
    Grants <- OneGrant
    Failures = TRUE
INVARIANTS
    RevokedStaysHidden
    CleanupOwed
    LiveNotRetired
PROPERTIES
    OverIsRetired
