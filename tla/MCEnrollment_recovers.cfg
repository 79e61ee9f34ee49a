SPECIFICATION EnrollmentFairSpec
INVARIANTS OneLogin ChildrenStopped
PROPERTY Recovers
