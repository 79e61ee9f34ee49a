SPECIFICATION Spec
CONSTANTS
    MaxGrants = 2
    MaxGeneration = 1
    ScanLimit = 50
    SlowMints = {TRUE}
    Modes = {"guest", "page"}
    p1 = p1
    None = None
    Gone = Gone
    Pages <- MCPages
    PageOf <- MCPageOf
INVARIANTS  Traceable
 
