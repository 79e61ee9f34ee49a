CONSTANTS
    p1 = p1
    r1 = r1
    p2 = p2
    e1 = e1
    e2 = e2
    NoEntity = NoEntity
    Pages = {p1}
    GrantIds = {g1}
    Tokens = {t1, t2}
    Resources = {r1}
    Entities = {e1, e2}
    Ops = {"bootstrap", "resume", "status", "challenge", "verify", "state", "view", "camera", "action"}
    GrantChoices <- MidGrants
    PolicyChoices <- MCPolicies
    Failures = TRUE
    ReadErrors = TRUE
    MaxTime = 3
    MaxChallenges = 2
    MaxAttempts = 2
    ResendDelay = 1
    ChallengeLife = 2
    VerifiedLife = 2
SPECIFICATION Spec
INVARIANTS TypeOK EffectAuthorized PolicyHonoured BoundedGuesses AuthorityNested OneTimeOnce
PROPERTIES ActionInTime
SYMMETRY EntitySymmetry
