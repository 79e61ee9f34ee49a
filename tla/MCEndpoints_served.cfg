SPECIFICATION FairSpec
CONSTANTS
    p1 = p1
    p2 = p2
    Pages <- PageSet
    Instances <- InstanceSet
INVARIANTS RightPage NoDuplicate CapabilityCurrent
PROPERTY EndpointsConverge
