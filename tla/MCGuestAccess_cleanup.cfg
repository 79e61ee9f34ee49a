CONSTANTS
    p1 = p1
    r1 = r1
    p2 = p2
    e1 = e1
    e2 = e2
    NoEntity = NoEntity
    Pages = {p1}
    GrantIds = {g1, g2}
    Tokens = {t1, t2}
    Resources = {r1}
    Entities = {e1, e2}
    Ops = {"bootstrap"}
    GrantChoices <- PlainGrants
    PolicyChoices <- OnePolicy
    Failures = FALSE
    ReadErrors = FALSE
    MaxTime = 2
    MaxChallenges = 1
    MaxAttempts = 1
    ResendDelay = 1
    ChallengeLife = 2
    VerifiedLife = 1
SPECIFICATION FairSpec
PROPERTIES LiveSessionsKept RemovedGrantsLoseSessions
