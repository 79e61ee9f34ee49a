CONSTANTS
    Pages = {p1}
    MaxVersion = 5
    Failures = TRUE
    LateCalls = TRUE
SPECIFICATION FairSpec
INVARIANTS OnlyOverdueUnmarked
PROPERTIES Converges
