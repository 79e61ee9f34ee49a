SPECIFICATION FairSpec
CONSTANTS
    MaxGrants = 1
    MaxGeneration = 1
    ScanLimit = 50
    SlowMints = {TRUE, FALSE}
    Modes = {"guest", "page"}
    p1 = p1
    None = None
    Gone = Gone
    Pages <- MCPages
    PageOf <- MCPageOf
PROPERTIES  Withdrawn ConfirmedPoolsRetired
