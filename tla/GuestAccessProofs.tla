-------------------------- MODULE GuestAccessProofs --------------------------
(* Proofs about GuestAccess for every value of its constants. *)
EXTENDS GuestAccess, TLAPS

\* The idle request is a request.
LEMMA IdleType == Idle \in Request
  BY NonEmptyAssumption, BoundsAssumption
  DEF Idle, Request, PCs, AllOps, Time, NoPolicy, Policy, Bindings

\* Every field of a request has its type, and setting one to a value of that type
\* gives a request again.
LEMMA RequestFields ==
  ASSUME NEW q \in Request
  PROVE  /\ q.pc \in PCs /\ q.op \in AllOps /\ q.page \in Pages /\ q.grant \in GrantIds
         /\ q.token \in Tokens /\ q.res \in Resources /\ q.phase \in {1, 2, 3}
         /\ q.exp \in Time /\ q.verify \in BOOLEAN /\ q.snap \in Policy
         /\ \A pc \in PCs : [q EXCEPT !.pc = pc] \in Request
         /\ \A ph \in {1, 2, 3} : [q EXCEPT !.phase = ph] \in Request
         /\ \A e \in Time : [q EXCEPT !.exp = e] \in Request
         /\ \A v \in BOOLEAN : [q EXCEPT !.verify = v] \in Request
         /\ \A s \in Policy : [q EXCEPT !.snap = s] \in Request
  BY DEF Request

\* What an idle request says of itself.
LEMMA IdleFacts == Idle.pc = "idle" /\ Idle.op = "status" /\ Idle.phase = 1
  BY DEF Idle

\* Which actions write which variable.
LEMMA Writers ==
  ASSUME [Next]_vars
  PROVE  /\ UNCHANGED now \/ Tick
         /\ UNCHANGED grant \/ \E g \in GrantIds, rec \in GrantChoices : CreateGrant(g, rec)
         /\ \/ UNCHANGED grantState
            \/ \E g \in GrantIds : RemoveGrant(g) \/ \E rec \in GrantChoices : CreateGrant(g, rec)
         /\ UNCHANGED policy \/ \E p \in Pages, new \in PolicyChoices : Publish(p, new)
         /\ UNCHANGED <<consumed, minted>> \/ \E t \in Tokens : ConsumeBootstrap(t)
         /\ \/ UNCHANGED sessions
            \/ \E t \in Tokens : ConsumeBootstrap(t)
            \/ \E g \in GrantIds : CleanupRevoke(g)
            \/ UndoBootstrap
         /\ \/ UNCHANGED verified
            \/ \E code \in 0..MaxChallenges : VerifyChallenge(code)
            \/ \E g \in GrantIds : CleanupRevoke(g)
            \/ UndoBootstrap
         /\ \/ UNCHANGED <<challenges, lastId, guesses>>
            \/ \E code \in 0..MaxChallenges : VerifyChallenge(code)
            \/ \E replace \in BOOLEAN : IssueChallenge(replace)
            \/ \E g \in GrantIds : CleanupRevoke(g)
            \/ UndoBootstrap \/ CancelChallenge
         /\ UNCHANGED req \/ GuestListener
         /\ UNCHANGED atHA \/ ReadHA
         /\ UNCHANGED touched \/ ReadHA \/ \E p \in Pages, new \in PolicyChoices : Publish(p, new)
         /\ \/ UNCHANGED cleanup \/ Crash
            \/ \E g \in GrantIds : \/ RemoveGrant(g) \/ CleanupCheck(g) \/ CleanupReadError(g)
                                   \/ CleanupRevoke(g) \/ CleanupLost(g)
<1> USE DEF gatewayVars, storeVars, history
<1>1. CASE Tick
  BY <1>1 DEF Tick
<1>2. CASE Gateway
  BY <1>2 DEF Gateway, CreateGrant, RemoveGrant, Publish
<1>3. CASE AdminListener
  <2>1. ASSUME NEW g \in GrantIds, CleanupCheck(g) \/ CleanupReadError(g) \/ CleanupLost(g)
        PROVE  UNCHANGED <<now, gatewayVars, storeVars, req, history>>
    BY <2>1 DEF CleanupCheck, CleanupReadError, CleanupLost
  <2>2. ASSUME NEW g \in GrantIds, CleanupRevoke(g)
        PROVE  UNCHANGED <<now, gatewayVars, consumed, lastId, req, history>>
    BY <2>2 DEF CleanupRevoke, Revoke
  <2> QED
    BY <1>3, <2>1, <2>2 DEF AdminListener
<1>4. CASE GuestListener
  <2>1. CASE Exchange
    <3>1. CASE UndoBootstrap
      BY <1>4, <3>1 DEF UndoBootstrap, Revoke
    <3>2. CASE Exchange /\ ~UndoBootstrap
      BY <1>4, <3>2 DEF Exchange, LoadGrant, ConsumeBootstrap, RecheckBootstrap
    <3> QED
      BY <2>1, <3>1, <3>2
  <2>2. CASE Status
    BY <1>4, <2>2 DEF Status, CheckSession, CheckGrant, CheckVerified, Resume
  <2>3. CASE Verification
    BY <1>4, <2>3 DEF Verification, Context, SendEmail, CancelChallenge, IssueChallenge, VerifyChallenge
  <2>4. CASE Serve
    BY <1>4, <2>4 DEF Serve, LoadPolicy, ReadHA, RecheckPolicy, Effect
  <2>5. CASE Refuse \/ ReadError \/ Crash
    BY <1>4, <2>5 DEF Refuse, ReadError, Crash
  <2>6. ASSUME NEW op \in Ops, NEW p \in Pages, NEW g \in GrantIds, NEW t \in Tokens,
               NEW r \in Resources, Receive(op, p, g, t, r)
        PROVE  UNCHANGED <<now, gatewayVars, storeVars, cleanup, history>>
    BY <2>6 DEF Receive
  <2> QED
    BY <1>4, <2>1, <2>2, <2>3, <2>4, <2>5, <2>6 DEF GuestListener
<1>5. CASE UNCHANGED vars
  BY <1>5 DEF vars
<1> QED
  BY <1>1, <1>2, <1>3, <1>4, <1>5 DEF Next
\* The request that a step continues.
SameRequest ==
    /\ req'.op = req.op /\ req'.page = req.page /\ req'.grant = req.grant
    /\ req'.token = req.token /\ req'.res = req.res

\* The first read of an exchange: the grant is in force, and its expiry is kept.
LEMMA LoadGrantMove ==
  ASSUME TypeOK, NEW secret \in GrantIds, LoadGrant(secret)
  PROVE  \/ req' = Idle
         \/ /\ SameRequest /\ req'.pc = "mint" /\ req'.phase = req.phase
            /\ CurrentGrant(req.page, req.grant) /\ req'.exp = grant[req.grant].expires
  <1> DEFINE e == grant[req.grant].expires
             v == grant[req.grant].verify
  <1>1. \/ req' = Idle
        \/ /\ req' = [req EXCEPT !.pc = "mint", !.exp = e, !.verify = v]
           /\ CurrentGrant(req.page, req.grant)
    BY DEF LoadGrant, Finish
  <1> HIDE DEF e, v
  <1>2. CASE req' = [req EXCEPT !.pc = "mint", !.exp = e, !.verify = v]
    <2>1. SameRequest /\ req'.pc = "mint" /\ req'.phase = req.phase /\ req'.exp = e
      BY <1>2 DEF TypeOK, SameRequest, Request
    <2>2. req' # Idle
      BY <2>1, IdleFacts
    <2> QED
      BY <1>1, <2>1, <2>2 DEF e
  <1> QED
    BY <1>1, <1>2

\* A session that is in force leads to the grant; its expiry is kept.
LEMMA CheckSessionMove ==
  ASSUME TypeOK, CheckSession
  PROVE  \/ req' = Idle
         \/ /\ SameRequest /\ req'.phase = req.phase /\ req'.snap = req.snap
            /\ \/ /\ req'.pc = "grant" /\ req'.exp = sessions[req.token].expires
                  /\ LiveSession(req.token, req.page, req.grant)
               \/ req'.pc = "cancel" /\ req.op = "challenge"
  BY DEF TypeOK, CheckSession, Ended, Finish, Goto, SameRequest, Request

\* A grant that is in force caps the expiry and says whether a code is asked for.
LEMMA CheckGrantMove ==
  ASSUME TypeOK, CheckGrant
  PROVE  \/ req' = Idle
         \/ /\ SameRequest /\ req'.phase = req.phase /\ req'.snap = req.snap
            /\ \/ /\ req'.pc = "verified" /\ CurrentGrant(req.page, req.grant)
                  /\ req'.exp = Least(req.exp, grant[req.grant].expires)
                  /\ req'.verify = grant[req.grant].verify
               \/ req'.pc = "cancel" /\ req.op = "challenge"
  <1> DEFINE e == Least(req.exp, grant[req.grant].expires)
             v == grant[req.grant].verify
  <1>1. \/ req' = Idle
        \/ req' = [req EXCEPT !.pc = "cancel"] /\ req.op = "challenge"
        \/ /\ req' = [req EXCEPT !.pc = "verified", !.exp = e, !.verify = v]
           /\ CurrentGrant(req.page, req.grant)
    BY DEF CheckGrant, Ended, Finish, Goto
  <1> HIDE DEF e, v
  <1>2. CASE req' = [req EXCEPT !.pc = "cancel"] /\ req.op = "challenge"
    BY <1>2 DEF TypeOK, SameRequest, Request
  <1>3. CASE /\ req' = [req EXCEPT !.pc = "verified", !.exp = e, !.verify = v]
             /\ CurrentGrant(req.page, req.grant)
    <2>1. /\ SameRequest /\ req'.phase = req.phase /\ req'.snap = req.snap
          /\ req'.pc = "verified" /\ req'.exp = e /\ req'.verify = v
      BY <1>3 DEF TypeOK, SameRequest, Request
    <2> QED
      BY <1>3, <2>1 DEF e, v
  <1> QED
    BY <1>1, <1>2, <1>3

\* A status that is ready leads on, and is capped by the verification.
LEMMA CheckVerifiedMove ==
  ASSUME TypeOK, CheckVerified
  PROVE  \/ req' = Idle
         \/ /\ SameRequest /\ req'.phase = req.phase /\ req'.snap = req.snap
            /\ req'.pc = AfterReady /\ req.op # "status"
            /\ req.op \in ServeOps /\ req.verify => Verified(req.token)
            /\ req'.exp = IF req.verify /\ Verified(req.token)
                          THEN Least(req.exp, verified[req.token]) ELSE req.exp
  <1>1. CASE req' = Idle
    BY <1>1
  <1>2. CASE req' # Idle
    <2> DEFINE e == IF req.verify /\ Verified(req.token)
                    THEN Least(req.exp, verified[req.token]) ELSE req.exp
    <2>1. /\ req' = [req EXCEPT !.pc = AfterReady, !.exp = e]
          /\ req.op # "status"
          /\ req.op \in ServeOps /\ req.verify => Verified(req.token)
      BY <1>2 DEF CheckVerified, Finish, ServeOps
    <2> HIDE DEF e
    <2>2. SameRequest /\ req'.phase = req.phase /\ req'.snap = req.snap
            /\ req'.pc = AfterReady /\ req'.exp = e
      BY <2>1 DEF TypeOK, Request, SameRequest
    <2> QED
      BY <2>1, <2>2 DEF e
  <1> QED
    BY <1>1, <1>2

\* The code may be issued or checked; after the e-mail it may be taken back.
LEMMA ContextMove ==
  ASSUME TypeOK, Context
  PROVE  \/ req' = Idle
         \/ /\ SameRequest /\ req'.phase = req.phase /\ req'.snap = req.snap
            /\ \/ /\ req'.pc \in {"issue", "check"} /\ CurrentGrant(req.page, req.grant)
                  /\ req.phase # 3 /\ req'.exp = grant[req.grant].expires
                  /\ req'.pc = "check" <=> req.op = "verify"
               \/ req'.pc = "cancel" /\ req.phase = 3
  <1> DEFINE e == grant[req.grant].expires
  <1>1. \/ req' = Idle
        \/ req' = [req EXCEPT !.pc = "cancel"] /\ req.phase = 3
        \/ /\ CurrentGrant(req.page, req.grant) /\ req.phase # 3
           /\ \/ req' = [req EXCEPT !.exp = e, !.pc = "check"] /\ req.op = "verify"
              \/ req' = [req EXCEPT !.exp = e, !.pc = "issue"] /\ req.op # "verify"
    BY DEF Context, Ended, Finish, Goto
  <1> HIDE DEF e
  <1>2. CASE req' = [req EXCEPT !.pc = "cancel"] /\ req.phase = 3
    BY <1>2 DEF TypeOK, SameRequest, Request
  <1>3. ASSUME NEW pc \in {"issue", "check"}, req' = [req EXCEPT !.exp = e, !.pc = pc]
        PROVE  /\ SameRequest /\ req'.phase = req.phase /\ req'.snap = req.snap
               /\ req'.pc = pc /\ req'.exp = e
    BY <1>3 DEF TypeOK, SameRequest, Request
  <1> QED
    BY <1>1, <1>2, <1>3 DEF e

\* A failed read of the grant ends a request, takes its code back or undoes it.
LEMMA ReadErrorMove ==
  ASSUME TypeOK, ReadError
  PROVE  \/ req' = Idle
         \/ /\ SameRequest /\ req'.phase = req.phase /\ ReadErrors
            /\ \/ req'.pc = "cancel" /\ req.op = "challenge"
               \/ req'.pc = "undo" /\ req.pc = "recheck"
  BY DEF TypeOK, ReadError, Ended, Finish, Goto, SameRequest, Request

\* After the e-mail the status is asked again, or the code is taken back.
LEMMA SendEmailMove ==
  ASSUME TypeOK, SendEmail
  PROVE  /\ SameRequest
         /\ \/ req'.pc = "session" /\ req'.phase = 3
            \/ req'.pc = "cancel" /\ req'.phase = req.phase
  BY DEF TypeOK, SendEmail, Goto, SameRequest, Request

\* A view asks for the status again; the others go to Home Assistant.
LEMMA LoadPolicyMove ==
  ASSUME TypeOK, LoadPolicy
  PROVE  \/ req' = Idle
         \/ /\ SameRequest
            /\ \/ req'.pc = "session" /\ req'.phase = 2 /\ req.op = "view"
               \/ req'.pc = "ha" /\ req'.phase = 1
  <1>1. \/ req' = Idle
        \/ req.op = "view" /\ req' = [req EXCEPT !.snap = policy[req.page], !.pc = "session", !.phase = 2]
        \/ req' = [req EXCEPT !.snap = policy[req.page], !.pc = "ha", !.phase = 1]
    BY DEF LoadPolicy, Finish
  <1>2. CASE req.op = "view" /\ req' = [req EXCEPT !.snap = policy[req.page], !.pc = "session", !.phase = 2]
    BY <1>2 DEF TypeOK, SameRequest, Request
  <1>3. CASE req' = [req EXCEPT !.snap = policy[req.page], !.pc = "ha", !.phase = 1]
    BY <1>3 DEF TypeOK, SameRequest, Request
  <1> QED
    BY <1>1, <1>2, <1>3

\* The request goes on only if the policy is still the one it loaded.
LEMMA RecheckPolicyMove ==
  ASSUME TypeOK, RecheckPolicy
  PROVE  \/ req' = Idle
         \/ /\ SameRequest /\ req'.phase = req.phase /\ req'.snap = req.snap
            /\ SamePolicy /\ req'.exp = req.exp
            /\ req'.pc = IF req.op = "state" THEN "effect" ELSE "session"
  BY DEF TypeOK, RecheckPolicy, Finish, Goto, SameRequest, Request

\* After Home Assistant has answered comes the second half of the checks.
LEMMA ReadHAMove ==
  ASSUME TypeOK, ReadHA
  PROVE  /\ SameRequest /\ req'.phase = 3 /\ req'.snap = req.snap
         /\ req'.pc = IF req.op = "state" THEN "session" ELSE "repolicy"
  BY DEF TypeOK, ReadHA, SameRequest, Request

\* The steps by which a request goes on.
LEMMA Progress ==
  ASSUME [Next]_vars, req' # req, req' # Idle
  PROVE  \/ \E op \in Ops, p \in Pages, g \in GrantIds, t \in Tokens, r \in Resources :
               Receive(op, p, g, t, r)
         \/ \E secret \in GrantIds : LoadGrant(secret)
         \/ \E t \in Tokens : ConsumeBootstrap(t)
         \/ RecheckBootstrap \/ ReadError
         \/ CheckSession \/ CheckGrant \/ CheckVerified \/ Context
         \/ \E replace \in BOOLEAN : IssueChallenge(replace)
         \/ SendEmail \/ LoadPolicy \/ ReadHA \/ RecheckPolicy
  BY Writers
  DEF GuestListener, Exchange, Status, Verification, Serve, Finish, Refuse, Crash,
      UndoBootstrap, Resume, CancelChallenge, VerifyChallenge, Effect

\* VerificationStore.revoke, row by row.
LEMMA RevokeRows ==
  ASSUME TypeOK, NEW p \in Pages, NEW g \in GrantIds, Revoke(p, g), NEW t \in Tokens
  PROVE  \/ /\ ~OfGrant(t, p, g) /\ sessions'[t] = sessions[t]
            /\ challenges'[t] = challenges[t] /\ verified'[t] = verified[t]
         \/ /\ OfGrant(t, p, g) /\ sessions'[t].st = "deleted"
            /\ sessions'[t].page = sessions[t].page /\ sessions'[t].grant = sessions[t].grant
            /\ challenges'[t] = NoChallenge /\ verified'[t] = 0
  <1>1. sessions[t] \in SessionRec
    BY DEF TypeOK
  <1> QED
    BY <1>1 DEF Revoke, SessionRec

\* verify_guest_challenge either leaves the tables alone or counts a guess at the
\* code of the session's challenge.
LEMMA VerifyMove ==
  ASSUME TypeOK, NEW code \in 0..MaxChallenges, VerifyChallenge(code)
  PROVE  \/ UNCHANGED <<challenges, verified, guesses>>
         \/ /\ LiveSession(req.token, req.page, req.grant) /\ Acceptable(req.token, req.exp)
            /\ guesses' = [guesses EXCEPT ![challenges[req.token].id] = @ + 1]
            /\ \/ /\ challenges' = [challenges EXCEPT ![req.token] = NoChallenge]
                  /\ verified' = [verified EXCEPT ![req.token] =
                         Least(now + VerifiedLife, Least(sessions[req.token].expires, req.exp))]
               \/ /\ challenges' = [challenges EXCEPT ![req.token].attempts = @ + 1]
                  /\ verified' = verified
  BY DEF VerifyChallenge

\* VerificationStore.revoke keeps the tables' types.
LEMMA RevokeType ==
  ASSUME TypeOK, NEW p \in Pages, NEW g \in GrantIds, Revoke(p, g)
  PROVE  /\ sessions' \in [Tokens -> SessionRec]
         /\ challenges' \in [Tokens -> ChallengeRec]
         /\ verified' \in [Tokens -> Time]
         /\ consumed' \in SUBSET GrantIds /\ lastId' \in 0..MaxChallenges
<1>1. \A t \in Tokens : [sessions[t] EXCEPT !.st = "deleted"] \in SessionRec
  BY DEF TypeOK, SessionRec
<1>2. NoChallenge \in ChallengeRec /\ 0 \in Time
  BY BoundsAssumption DEF NoChallenge, ChallengeRec, Time
<1> QED
  BY <1>1, <1>2 DEF TypeOK, Revoke

\* The fields of the other records.
LEMMA RecordFields ==
  ASSUME TypeOK
  PROVE  /\ \A g \in GrantIds : /\ grant[g].page \in Pages
                                /\ grant[g].expires \in Time
                                /\ grant[g].verify \in BOOLEAN
                                /\ grant[g].oneTime \in BOOLEAN
         /\ \A t \in Tokens : /\ sessions[t].page \in Pages
                              /\ sessions[t].grant \in GrantIds
                              /\ sessions[t].expires \in Time
                              /\ sessions[t].st \in {"unused", "row", "deleted"}
         /\ \A t \in Tokens : /\ challenges[t].id \in 0..MaxChallenges
                              /\ challenges[t].expires \in Nat
                              /\ challenges[t].attempts \in Nat
                              /\ challenges[t].sent \in Time
  <1>1. \A g \in GrantIds : grant[g] \in GrantRec
    BY DEF TypeOK
  <1>2. \A t \in Tokens : sessions[t] \in SessionRec
    BY DEF TypeOK
  <1>3. \A t \in Tokens : challenges[t] \in ChallengeRec
    BY DEF TypeOK
  <1> QED
    BY <1>1, <1>2, <1>3 DEF GrantRec, SessionRec, ChallengeRec

\* A whole-second minimum is one of its arguments.
LEMMA LeastTime ==
  ASSUME NEW a \in Time, NEW b \in Time
  PROVE  /\ Least(a, b) \in Time
         /\ Least(a, b) <= a /\ Least(a, b) <= b
         /\ \A c \in Int : c <= a /\ c <= b => c <= Least(a, b)
  BY BoundsAssumption DEF Least, Time

\* Every step leaves a request, or an idle one.
LEMMA RequestType ==
  ASSUME TypeOK, [Next]_vars
  PROVE  req' \in Request
<1> req \in Request /\ req.grant \in GrantIds /\ req.token \in Tokens /\ req.page \in Pages
  BY RequestFields DEF TypeOK
<1>1. ASSUME NEW pc \in PCs, Goto(pc) PROVE req' \in Request
  BY <1>1, RequestFields DEF Goto
<1>2. grant[req.grant].expires \in Time /\ grant[req.grant].verify \in BOOLEAN
  BY RecordFields
<1>3. ASSUME NEW op \in Ops, NEW p \in Pages, NEW g \in GrantIds, NEW t \in Tokens,
             NEW r \in Resources, Receive(op, p, g, t, r)
      PROVE  req' \in Request
  BY <1>3, IdleType, OpsAssumption DEF Receive, Request, PCs
<1>4. ASSUME NEW secret \in GrantIds, LoadGrant(secret), req' # Idle PROVE req' \in Request
  <2>1. req' = [req EXCEPT !.pc = "mint", !.exp = grant[req.grant].expires,
                           !.verify = grant[req.grant].verify]
    BY <1>4 DEF LoadGrant, Finish
  <2> QED
    BY <1>2, <2>1 DEF Request, PCs
<1>5. ASSUME NEW t \in Tokens, ConsumeBootstrap(t) PROVE req' \in Request
  BY <1>1, <1>5 DEF ConsumeBootstrap, PCs
<1>6. ASSUME RecheckBootstrap \/ ReadError, req' # Idle PROVE req' \in Request
  BY <1>1, <1>6 DEF RecheckBootstrap, ReadError, Ended, Finish, PCs
<1>7. ASSUME CheckSession, req' # Idle PROVE req' \in Request
  <2>1. CASE req' = [req EXCEPT !.pc = "grant", !.exp = sessions[req.token].expires]
    BY <2>1, RecordFields DEF Request, PCs
  <2> QED
    BY <1>1, <1>7, <2>1 DEF CheckSession, Ended, Finish, PCs
<1>8. ASSUME CheckGrant, req' # Idle PROVE req' \in Request
  <2>1. Least(req.exp, grant[req.grant].expires) \in Time
    BY <1>2, RequestFields, LeastTime
  <2>2. CASE req' = [req EXCEPT !.pc = "verified",
                                !.exp = Least(req.exp, grant[req.grant].expires),
                                !.verify = grant[req.grant].verify]
    BY <1>2, <2>1, <2>2 DEF Request, PCs
  <2> QED
    BY <1>1, <1>8, <2>2 DEF CheckGrant, Ended, Finish, PCs
<1>9. ASSUME CheckVerified, req' # Idle PROVE req' \in Request
  <2> DEFINE e == IF req.verify /\ Verified(req.token)
                  THEN Least(req.exp, verified[req.token]) ELSE req.exp
  <2>1. e \in Time
    BY RequestFields, LeastTime DEF TypeOK
  <2>2. AfterReady \in PCs
    BY DEF AfterReady, PCs
  <2>3. req' = [req EXCEPT !.pc = AfterReady, !.exp = e]
    BY <1>9 DEF CheckVerified, Finish
  <2> HIDE DEF e
  <2> QED
    BY <2>1, <2>2, <2>3 DEF Request
<1>10. ASSUME Context, req' # Idle PROVE req' \in Request
  <2>1. CASE req' = [req EXCEPT !.exp = grant[req.grant].expires, !.pc = "check"]
    BY <1>2, <2>1 DEF Request, PCs
  <2>2. CASE req' = [req EXCEPT !.exp = grant[req.grant].expires, !.pc = "issue"]
    BY <1>2, <2>2 DEF Request, PCs
  <2> QED
    BY <1>1, <1>10, <2>1, <2>2 DEF Context, Ended, Finish, PCs
<1>11. ASSUME NEW replace \in BOOLEAN, IssueChallenge(replace), req' # Idle PROVE req' \in Request
  BY <1>1, <1>11 DEF IssueChallenge, Finish, PCs
<1>12. ASSUME SendEmail PROVE req' \in Request
  <2>1. CASE req' = [req EXCEPT !.pc = "session", !.phase = 3]
    BY <2>1 DEF Request, PCs
  <2> QED
    BY <1>1, <1>12, <2>1 DEF SendEmail, PCs
<1>13. ASSUME LoadPolicy, req' # Idle PROVE req' \in Request
  <2>1. policy[req.page] \in Policy
    BY DEF TypeOK
  <2>2. CASE req' = [req EXCEPT !.snap = policy[req.page], !.pc = "session", !.phase = 2]
    BY <2>1, <2>2 DEF Request, PCs
  <2>3. CASE req' = [req EXCEPT !.snap = policy[req.page], !.pc = "ha", !.phase = 1]
    BY <2>1, <2>3 DEF Request, PCs
  <2> QED
    BY <1>13, <2>2, <2>3 DEF LoadPolicy, Finish
<1>14. ASSUME ReadHA PROVE req' \in Request
  <2>1. CASE req' = [req EXCEPT !.phase = 3, !.pc = "session"]
    BY <2>1 DEF Request, PCs
  <2>2. CASE req' = [req EXCEPT !.phase = 3, !.pc = "repolicy"]
    BY <2>2 DEF Request, PCs
  <2> QED
    BY <1>14, <2>1, <2>2 DEF ReadHA
<1>15. ASSUME RecheckPolicy, req' # Idle PROVE req' \in Request
  BY <1>1, <1>15 DEF RecheckPolicy, Finish, PCs
<1> QED
  BY <1>3, <1>4, <1>5, <1>6, <1>7, <1>8, <1>9, <1>10, <1>11, <1>12, <1>13, <1>14, <1>15,
     IdleType, Progress

\* A step keeps the types: variable by variable, through the actions that write it.
LEMMA TypeStep ==
  ASSUME TypeOK, OpInv, ChallengeInv, [Next]_vars
  PROVE  TypeOK'
<1> USE BoundsAssumption
<1>1. now' \in Time
  BY Writers DEF TypeOK, Tick, Time
<1>2. /\ grantState' \in [GrantIds -> {"unissued", "live", "removed"}]
      /\ grant' \in [GrantIds -> GrantRec]
  <2>1. ASSUME NEW g \in GrantIds, NEW rec \in GrantChoices, CreateGrant(g, rec)
        PROVE  /\ grantState' \in [GrantIds -> {"unissued", "live", "removed"}]
               /\ grant' \in [GrantIds -> GrantRec]
    BY <2>1, ChoicesAssumption DEF TypeOK, CreateGrant
  <2>2. ASSUME NEW g \in GrantIds, RemoveGrant(g)
        PROVE  grantState' \in [GrantIds -> {"unissued", "live", "removed"}]
    BY <2>2 DEF TypeOK, RemoveGrant
  <2> QED
    BY <2>1, <2>2, Writers DEF TypeOK
<1>3. policy' \in [Pages -> Policy]
  BY Writers, ChoicesAssumption DEF TypeOK, Publish
<1>4. consumed' \in SUBSET GrantIds /\ minted' \in [GrantIds -> Nat]
  <2>1. req.grant \in GrantIds
    BY RequestFields DEF TypeOK
  <2>2. ASSUME NEW t \in Tokens, ConsumeBootstrap(t)
        PROVE  consumed' \in SUBSET GrantIds /\ minted' \in [GrantIds -> Nat]
    BY <2>1, <2>2 DEF TypeOK, ConsumeBootstrap
  <2> QED
    BY <2>2, Writers DEF TypeOK
<1>5. ASSUME \/ \E g \in GrantIds : CleanupRevoke(g)
             \/ UndoBootstrap
      PROVE  /\ sessions' \in [Tokens -> SessionRec]
             /\ challenges' \in [Tokens -> ChallengeRec]
             /\ verified' \in [Tokens -> Time]
             /\ UNCHANGED <<lastId, guesses>>
  <2>1. PICK p \in Pages, g \in GrantIds : Revoke(p, g)
    BY <1>5, RecordFields, RequestFields DEF TypeOK, CleanupRevoke, UndoBootstrap
  <2>2. UNCHANGED guesses
    BY <1>5 DEF CleanupRevoke, UndoBootstrap, history
  <2> QED
    BY <2>1, <2>2, RevokeType DEF Revoke
<1>6. sessions' \in [Tokens -> SessionRec]
  <2>1. ASSUME NEW t \in Tokens, ConsumeBootstrap(t) PROVE sessions' \in [Tokens -> SessionRec]
    <3>1. [st |-> "row", page |-> req.page, grant |-> req.grant, expires |-> req.exp] \in SessionRec
      BY RequestFields DEF TypeOK, SessionRec
    <3> QED
      BY <2>1, <3>1 DEF TypeOK, ConsumeBootstrap
  <2> QED
    BY <1>5, <2>1, Writers DEF TypeOK
<1>7. ASSUME NEW code \in 0..MaxChallenges, VerifyChallenge(code)
      PROVE  /\ challenges' \in [Tokens -> ChallengeRec]
             /\ verified' \in [Tokens -> Time]
             /\ guesses' \in [1..MaxChallenges -> Nat]
             /\ UNCHANGED lastId
  <2> DEFINE T == req.token
             row == [challenges[T] EXCEPT !.attempts = @ + 1]
  <2>1. T \in Tokens /\ req.exp \in Time /\ challenges[T] \in ChallengeRec
    BY RequestFields DEF TypeOK
  <2>2. row \in ChallengeRec /\ NoChallenge \in ChallengeRec
    BY <2>1 DEF ChallengeRec, NoChallenge, Time
  <2>3. challenges[T].id # 0 => challenges[T].id \in 1..MaxChallenges
    BY <2>1 DEF ChallengeRec
  <2>4. Least(now + VerifiedLife, Least(sessions[T].expires, req.exp)) \in Time
    <3>1. Least(sessions[T].expires, req.exp) \in Time
      BY <2>1, RecordFields, LeastTime
    <3> QED
      BY <3>1 DEF TypeOK, Least, Time
  <2>5. /\ challenges \in [Tokens -> ChallengeRec] /\ verified \in [Tokens -> Time]
        /\ guesses \in [1..MaxChallenges -> Nat]
    BY DEF TypeOK
  <2>6. challenges' \in {challenges, [challenges EXCEPT ![T] = NoChallenge],
                         [challenges EXCEPT ![T] = row]}
    BY <1>7, VerifyMove
  <2>7. \/ guesses' = guesses
        \/ challenges[T].id # 0 /\ guesses' = [guesses EXCEPT ![challenges[T].id] = @ + 1]
    BY <1>7, VerifyMove DEF Acceptable
  <2>8. verified' \in [Tokens -> Time]
    BY <1>7, <2>1, <2>4, <2>5, VerifyMove
  <2>9. guesses' \in [1..MaxChallenges -> Nat]
    BY <2>3, <2>5, <2>7
  <2>10. challenges' \in [Tokens -> ChallengeRec]
    <3> HIDE DEF row
    <3> QED
      BY <2>1, <2>2, <2>5, <2>6
  <2> QED
    BY <1>7, <2>8, <2>9, <2>10 DEF VerifyChallenge
<1>8. ASSUME NEW replace \in BOOLEAN, IssueChallenge(replace)
      PROVE  challenges' \in [Tokens -> ChallengeRec] /\ lastId' \in 0..MaxChallenges
             /\ UNCHANGED guesses
  <2> DEFINE row == [id |-> lastId + 1, expires |-> now + ChallengeLife, attempts |-> 0, sent |-> now]
  <2>1. lastId + 1 \in 0..MaxChallenges
    BY <1>8 DEF TypeOK, OpInv, ChallengeInv, IssueChallenge
  <2>2. row \in ChallengeRec
    BY <2>1 DEF TypeOK, ChallengeRec, Time
  <2>3. UNCHANGED <<challenges, lastId>>
        \/ (lastId' = lastId + 1 /\ challenges' = [challenges EXCEPT ![req.token] = row])
    BY <1>8 DEF IssueChallenge
  <2>4. UNCHANGED guesses
    BY <1>8 DEF IssueChallenge, history
  <2> HIDE DEF row
  <2>5. challenges' \in [Tokens -> ChallengeRec]
    BY <2>2, <2>3 DEF TypeOK
  <2>6. lastId' \in 0..MaxChallenges
    BY <2>1, <2>3 DEF TypeOK
  <2> QED
    BY <2>4, <2>5, <2>6
<1>9. ASSUME CancelChallenge
      PROVE  challenges' \in [Tokens -> ChallengeRec] /\ UNCHANGED <<lastId, guesses>>
  <2>1. NoChallenge \in ChallengeRec
    BY DEF NoChallenge, ChallengeRec, Time
  <2> QED
    BY <1>9, <2>1 DEF TypeOK, CancelChallenge, history
<1>10. /\ challenges' \in [Tokens -> ChallengeRec] /\ lastId' \in 0..MaxChallenges
       /\ verified' \in [Tokens -> Time] /\ guesses' \in [1..MaxChallenges -> Nat]
  <2>1. verified' \in [Tokens -> Time]
    BY <1>5, <1>7, Writers DEF TypeOK
  <2> QED
    BY <1>5, <1>7, <1>8, <1>9, <2>1, Writers DEF TypeOK
<1>11. cleanup' \in [GrantIds -> {"none", "asked", "checked"}]
  <2>1. ASSUME NEW g \in GrantIds,
               \/ RemoveGrant(g) \/ CleanupCheck(g) \/ CleanupReadError(g)
               \/ CleanupRevoke(g) \/ CleanupLost(g)
        PROVE  \E st \in {"none", "asked", "checked"} : cleanup' = [cleanup EXCEPT ![g] = st]
    BY <2>1 DEF RemoveGrant, CleanupCheck, CleanupReadError, CleanupRevoke, CleanupLost
  <2>2. ASSUME NEW g \in GrantIds, NEW st \in {"none", "asked", "checked"},
               cleanup' = [cleanup EXCEPT ![g] = st]
        PROVE  cleanup' \in [GrantIds -> {"none", "asked", "checked"}]
    BY <2>2 DEF TypeOK
  <2>3. CASE Crash
    BY <2>3 DEF Crash
  <2>4. CASE UNCHANGED cleanup
    BY <2>4 DEF TypeOK
  <2> QED
    BY <2>1, <2>2, <2>3, <2>4, Writers
<1>12. atHA' \in [session: BOOLEAN, grant: BOOLEAN, verified: BOOLEAN] /\ touched' \in BOOLEAN
  <2>1. CASE ReadHA
    BY <2>1 DEF ReadHA, LiveSession, CurrentGrant, Verified
  <2>2. ASSUME NEW p \in Pages, NEW new \in PolicyChoices, Publish(p, new)
        PROVE  UNCHANGED atHA /\ touched' \in BOOLEAN
    BY <2>2 DEF Publish
  <2> QED
    BY <2>1, <2>2, Writers DEF TypeOK
<1> QED
  BY <1>1, <1>2, <1>3, <1>4, <1>6, <1>10, <1>11, <1>12, RequestType DEF TypeOK

\* An operation stays on its own steps.
LEMMA OpStep ==
  ASSUME TypeOK, OpInv, [Next]_vars
  PROVE  OpInv'
<1> USE DEF OpInv, ServeOps, SameRequest
<1>1. req.op \in AllOps /\ req.phase \in {1, 2, 3}
  BY RequestFields DEF TypeOK
<1>2. lastId' = lastId \/ \E replace \in BOOLEAN : IssueChallenge(replace)
  BY Writers DEF VerifyChallenge, CleanupRevoke, UndoBootstrap, Revoke, CancelChallenge
<1>3. CASE req' = Idle
  BY <1>3, IdleFacts
<1>4. CASE req' = req
  <2>1. \A replace \in BOOLEAN : ~IssueChallenge(replace)
    BY <1>4, IdleFacts DEF IssueChallenge, Finish, Goto, TypeOK, Request
  <2> QED
    BY <1>2, <1>4, <2>1
<1>5. ASSUME NEW op \in Ops, NEW p \in Pages, NEW g \in GrantIds, NEW t \in Tokens,
             NEW r \in Resources, Receive(op, p, g, t, r)
      PROVE  OpInv'
  <2>1. /\ req'.op = op /\ req'.phase = 1
        /\ req'.pc = IF op = "bootstrap" THEN "load" ELSE "session"
    BY <1>5, IdleType DEF Receive, Idle, Request
  <2> QED
    BY <1>5, <2>1, OpsAssumption DEF Receive, storeVars, AllOps
<1>6. ASSUME NEW secret \in GrantIds, LoadGrant(secret) PROVE OpInv'
  BY <1>6, LoadGrantMove, IdleFacts DEF LoadGrant, storeVars
<1>7. ASSUME NEW t \in Tokens, ConsumeBootstrap(t) PROVE OpInv'
  BY <1>7 DEF TypeOK, Request, ConsumeBootstrap, Goto
<1>8. CASE RecheckBootstrap
  BY <1>8, IdleFacts DEF TypeOK, Request, RecheckBootstrap, Goto, Finish, storeVars
<1>9. CASE ReadError
  BY <1>9, ReadErrorMove, IdleFacts DEF ReadError, storeVars
<1>10. CASE CheckSession
  BY <1>10, CheckSessionMove, IdleFacts DEF CheckSession, storeVars
<1>11. CASE CheckGrant
  BY <1>11, CheckGrantMove, IdleFacts DEF CheckGrant, storeVars
<1>12. CASE CheckVerified
  <2>1. UNCHANGED lastId /\ req.pc = "verified"
    BY <1>12 DEF CheckVerified, storeVars
  <2>2. CASE SameRequest /\ req'.phase = req.phase /\ req'.pc = AfterReady /\ req.op # "status"
    <3>1. CASE req.op \in {"challenge", "verify"}
      <4>1. AfterReady = "context"
        BY <3>1 DEF AfterReady
      <4> QED
        BY <2>1, <2>2, <3>1, <4>1
    <3>2. CASE req.op = "resume"
      <4>1. AfterReady = "resume"
        BY <3>2 DEF AfterReady
      <4> QED
        BY <2>1, <2>2, <3>2, <4>1
    <3>3. CASE req.op \in ServeOps
      <4>1. /\ AfterReady \in {"policy", "ha", "repolicy", "effect"}
            /\ AfterReady \in {"repolicy", "effect"} => req.phase = 3
        BY <1>1, <3>3 DEF AfterReady
      <4> QED
        BY <2>1, <2>2, <3>3, <4>1
    <3> QED
      BY <1>1, <2>1, <2>2, <3>1, <3>2, <3>3 DEF AllOps
  <2> QED
    BY <1>12, <2>2, <1>3, CheckVerifiedMove
<1>13. CASE Context
  BY <1>1, <1>13, ContextMove, IdleFacts DEF Context, storeVars, AllOps
<1>14. ASSUME NEW replace \in BOOLEAN, IssueChallenge(replace) PROVE OpInv'
  <2>1. CASE Goto("email")
    BY <1>14, <2>1 DEF TypeOK, Request, IssueChallenge, Goto
  <2> QED
    BY <1>3, <1>14, <2>1 DEF IssueChallenge, Finish
<1>15. CASE SendEmail
  BY <1>15, SendEmailMove DEF SendEmail, storeVars
<1>16. CASE LoadPolicy
  BY <1>16, LoadPolicyMove, IdleFacts DEF LoadPolicy, storeVars
<1>17. CASE ReadHA
  BY <1>17, ReadHAMove DEF ReadHA, storeVars
<1>18. CASE RecheckPolicy
  BY <1>18, RecheckPolicyMove, IdleFacts DEF RecheckPolicy, storeVars
<1> QED
  BY <1>3, <1>4, <1>5, <1>6, <1>7, <1>8, <1>9, <1>10, <1>11, <1>12, <1>13, <1>14, <1>15,
     <1>16, <1>17, <1>18, Progress

\* VerificationStore.revoke, on either listener, only empties rows.
LEMMA RevokeCases ==
  ASSUME TypeOK, (\E g \in GrantIds : CleanupRevoke(g)) \/ UndoBootstrap
  PROVE  /\ UNCHANGED <<now, gatewayVars, consumed, lastId, history>>
         /\ \A t \in Tokens :
               \/ /\ sessions'[t] = sessions[t]
                  /\ challenges'[t] = challenges[t] /\ verified'[t] = verified[t]
               \/ /\ sessions[t].st = "row" /\ sessions'[t].st = "deleted"
                  /\ challenges'[t] = NoChallenge /\ verified'[t] = 0
<1>1. PICK p \in Pages, g \in GrantIds : Revoke(p, g)
  BY RecordFields, RequestFields DEF TypeOK, CleanupRevoke, UndoBootstrap
<1>2. UNCHANGED <<now, gatewayVars, history>>
  BY DEF CleanupRevoke, UndoBootstrap
<1>3. UNCHANGED <<consumed, lastId>>
  BY <1>1 DEF Revoke
<1> QED
  BY <1>1, <1>2, <1>3, RevokeRows DEF OfGrant

\* Sessions and cleanups refer to grants that were issued.
LEMMA IssuedStep ==
  ASSUME TypeOK, IssuedInv, ReadInv, [Next]_vars
  PROVE  IssuedInv'
<1> USE DEF IssuedInv
<1>1. \A t \in Tokens : sessions[t].grant \in GrantIds
  BY RecordFields
<1>2. req.grant \in GrantIds /\ req.token \in Tokens
  BY RequestFields DEF TypeOK
<1>3. \A g \in GrantIds : grantState'[g] = "unissued" => grantState[g] = "unissued"
  BY Writers DEF TypeOK, CreateGrant, RemoveGrant
<1>4. \A g \in GrantIds : grantState[g] # "unissued" => grant'[g] = grant[g]
  BY Writers DEF TypeOK, CreateGrant
<1>5. \A g \in GrantIds : grantState'[g] = "unissued" => minted'[g] = 0 /\ cleanup'[g] = "none"
  <2>1. \A g \in GrantIds : grantState'[g] = "unissued" => minted'[g] = 0
    BY <1>2, <1>3, Writers DEF TypeOK, ReadInv, ConsumeBootstrap
  <2>2. \A g \in GrantIds : grantState'[g] = "unissued" => cleanup'[g] = "none"
    BY <1>3, Writers DEF TypeOK, Crash, RemoveGrant, CleanupCheck, CleanupReadError,
                         CleanupRevoke, CleanupLost
  <2> QED
    BY <2>1, <2>2
<1>6. CASE UNCHANGED <<sessions, verified>>
  BY <1>1, <1>3, <1>4, <1>5, <1>6
<1>7. ASSUME NEW t \in Tokens, ConsumeBootstrap(t) PROVE IssuedInv'
  <2>1. /\ sessions'[t].st = "row" /\ sessions'[t].grant = req.grant /\ sessions'[t].page = req.page
        /\ \A u \in Tokens \ {t} : sessions'[u] = sessions[u]
        /\ UNCHANGED <<verified, grant, grantState>>
    BY <1>7 DEF TypeOK, ConsumeBootstrap, gatewayVars
  <2>2. grantState[req.grant] # "unissued" /\ grant[req.grant].page = req.page
    BY <1>7 DEF ReadInv, ConsumeBootstrap
  <2> QED
    BY <1>1, <1>5, <2>1, <2>2
<1>8. ASSUME NEW code \in 0..MaxChallenges, VerifyChallenge(code) PROVE IssuedInv'
  <2>1. UNCHANGED <<sessions, gatewayVars>>
    BY <1>8 DEF VerifyChallenge
  <2>2. \A u \in Tokens : verified'[u] = verified[u] \/ sessions[u].st = "row"
    BY <1>2, <1>8, VerifyMove DEF TypeOK, LiveSession
  <2> QED
    BY <1>1, <1>5, <2>1, <2>2 DEF gatewayVars
<1>9. CASE (\E g \in GrantIds : CleanupRevoke(g)) \/ UndoBootstrap
  BY <1>1, <1>5, <1>9, RevokeCases DEF gatewayVars
<1> QED
  BY <1>6, <1>7, <1>8, <1>9, Writers

\* A grant that was issued stays issued and is never rewritten.
LEMMA GrantsKept ==
  ASSUME TypeOK, [Next]_vars, NEW g \in GrantIds, grantState[g] # "unissued"
  PROVE  grantState'[g] # "unissued" /\ grant'[g] = grant[g]
<1>1. ASSUME NEW h \in GrantIds, NEW rec \in GrantChoices, CreateGrant(h, rec)
      PROVE  grantState'[g] = grantState[g] /\ grant'[g] = grant[g]
  BY <1>1 DEF TypeOK, CreateGrant
<1>2. ASSUME NEW h \in GrantIds, RemoveGrant(h)
      PROVE  grantState'[g] # "unissued"
  BY <1>2 DEF TypeOK, RemoveGrant
<1> QED
  BY <1>1, <1>2, Writers

\* A grant that is not in force, once issued, never comes into force again.
LEMMA GrantsShrink ==
  ASSUME TypeOK, [Next]_vars, NEW g \in GrantIds, grantState[g] # "unissued",
         NEW p, CurrentGrant(p, g)'
  PROVE  CurrentGrant(p, g)
<1>1. grant'[g] = grant[g] /\ grant[g].expires \in Time
  BY GrantsKept, RecordFields
<1>2. grantState'[g] = "live" => grantState[g] = "live"
  <2>1. ASSUME NEW h \in GrantIds, NEW rec \in GrantChoices, CreateGrant(h, rec)
        PROVE  grantState'[g] = grantState[g]
    BY <2>1 DEF TypeOK, CreateGrant
  <2>2. ASSUME NEW h \in GrantIds, RemoveGrant(h)
        PROVE  grantState'[g] \in {grantState[g], "removed"}
    BY <2>2 DEF TypeOK, RemoveGrant
  <2> QED
    BY <2>1, <2>2, Writers
<1>3. now' \in Time /\ now' >= now
  BY Writers, BoundsAssumption DEF TypeOK, Tick, Time
<1> QED
  BY <1>1, <1>2, <1>3, BoundsAssumption DEF CurrentGrant, TypeOK, Time

\* The grant that a request has read was issued.
LEMMA ReadStep ==
  ASSUME TypeOK, OpInv, ReadInv, [Next]_vars
  PROVE  ReadInv'
<1> USE DEF ReadInv, SameRequest
<1>1. req.grant \in GrantIds
  BY RequestFields DEF TypeOK
<1>2. grantState[req.grant] # "unissued" =>
        grantState'[req.grant] # "unissued" /\ grant'[req.grant] = grant[req.grant]
  BY <1>1, GrantsKept
<1>3. CASE req' = Idle
  BY <1>3, IdleFacts
<1>4. CASE req' = req
  BY <1>2, <1>4
<1>5. ASSUME NEW op \in Ops, NEW p \in Pages, NEW g \in GrantIds, NEW t \in Tokens,
             NEW r \in Resources, Receive(op, p, g, t, r)
      PROVE  ReadInv'
  <2>1. req'.phase = 1 /\ req'.pc \in {"load", "session"}
    BY <1>5, IdleType DEF Receive, Idle, Request
  <2> QED
    BY <2>1
<1>6. ASSUME NEW secret \in GrantIds, LoadGrant(secret) PROVE ReadInv'
  BY <1>6, LoadGrantMove, IdleFacts DEF LoadGrant, CurrentGrant, gatewayVars
<1>7. ASSUME NEW t \in Tokens, ConsumeBootstrap(t) PROVE ReadInv'
  BY <1>2, <1>7 DEF TypeOK, Request, ConsumeBootstrap, Goto
<1>8. CASE RecheckBootstrap
  BY <1>2, <1>3, <1>8 DEF TypeOK, Request, RecheckBootstrap, Goto, Finish
<1>9. CASE ReadError
  BY <1>2, <1>9, ReadErrorMove, IdleFacts
<1>10. CASE CheckSession
  BY <1>2, <1>10, CheckSessionMove, IdleFacts
<1>11. CASE CheckGrant
  BY <1>2, <1>11, CheckGrantMove, IdleFacts DEF CheckGrant, CurrentGrant, gatewayVars
<1>12. CASE CheckVerified
  <2>1. AfterReady \notin {"mint", "recheck", "undo"}
    BY DEF AfterReady
  <2> QED
    BY <1>2, <1>12, <2>1, CheckVerifiedMove, IdleFacts DEF CheckVerified
<1>13. CASE Context
  BY <1>2, <1>13, ContextMove, IdleFacts DEF Context
<1>14. ASSUME NEW replace \in BOOLEAN, IssueChallenge(replace) PROVE ReadInv'
  <2>1. CASE Goto("email")
    BY <1>2, <1>14, <2>1 DEF TypeOK, Request, IssueChallenge, Goto
  <2> QED
    BY <1>3, <1>14, <2>1 DEF IssueChallenge, Finish
<1>15. CASE SendEmail
  BY <1>2, <1>15, SendEmailMove DEF SendEmail
<1>16. CASE LoadPolicy
  BY <1>2, <1>16, LoadPolicyMove, IdleFacts DEF LoadPolicy
<1>17. CASE ReadHA
  BY <1>2, <1>17, ReadHAMove DEF ReadHA
<1>18. CASE RecheckPolicy
  BY <1>2, <1>18, RecheckPolicyMove, IdleFacts DEF RecheckPolicy
<1> QED
  BY <1>3, <1>4, <1>5, <1>6, <1>7, <1>8, <1>9, <1>10, <1>11, <1>12, <1>13, <1>14, <1>15,
     <1>16, <1>17, <1>18, Progress

\* The steps that bring a request to the places that the invariant speaks of.
LEMMA Arrivals ==
  ASSUME TypeOK, OpInv, [Next]_vars, req' # req
  PROVE  /\ req'.pc = "undo" => RecheckBootstrap \/ ReadError
         /\ req'.pc = "session" => req'.phase # 3 \/ SendEmail \/ ReadHA \/ RecheckPolicy
         /\ req'.pc = "grant" => CheckSession
         /\ req'.pc = "verified" => CheckGrant
         /\ req'.pc = "repolicy" => CheckVerified \/ (ReadHA /\ req.op # "state")
         /\ req'.pc = "effect" => (CheckVerified /\ req.op # "state")
                                  \/ (RecheckPolicy /\ req.op = "state")
<1>1. CASE req' = Idle
  BY <1>1, IdleFacts
<1>2. ASSUME NEW op \in Ops, NEW p \in Pages, NEW g \in GrantIds, NEW t \in Tokens,
             NEW r \in Resources, Receive(op, p, g, t, r)
      PROVE  req'.phase = 1 /\ req'.pc \in {"load", "session"}
  BY <1>2, IdleType DEF Receive, Idle, Request
<1>3. ASSUME NEW t \in Tokens, ConsumeBootstrap(t) PROVE req'.pc = "recheck"
  BY <1>3 DEF TypeOK, Request, ConsumeBootstrap, Goto
<1>4. ASSUME NEW replace \in BOOLEAN, IssueChallenge(replace), req' # Idle PROVE req'.pc = "email"
  BY <1>4 DEF TypeOK, Request, IssueChallenge, Goto, Finish
<1>5. CASE RecheckBootstrap
  BY <1>1, <1>5 DEF TypeOK, Request, RecheckBootstrap, Goto, Finish
<1>6. CASE CheckVerified
  <2>1. /\ AfterReady \notin {"undo", "session", "grant", "verified"}
        /\ AfterReady = "effect" => req.op # "state" \/ req.phase \notin {1, 2, 3}
    BY DEF AfterReady, ServeOps
  <2>2. req.phase \in {1, 2, 3}
    BY RequestFields DEF TypeOK
  <2> QED
    BY <1>1, <1>6, <2>1, <2>2, CheckVerifiedMove
<1>7. CASE CheckSession \/ CheckGrant
  BY <1>1, <1>7, CheckSessionMove, CheckGrantMove
<1>8. CASE Context \/ SendEmail \/ ReadError
  BY <1>1, <1>8, ContextMove, SendEmailMove, ReadErrorMove
<1>9. CASE LoadPolicy \/ ReadHA \/ RecheckPolicy
  BY <1>1, <1>9, LoadPolicyMove, ReadHAMove, RecheckPolicyMove
<1>10. ASSUME NEW secret \in GrantIds, LoadGrant(secret), req' # Idle PROVE req'.pc = "mint"
  BY <1>10, LoadGrantMove
<1> QED
  BY <1>1, <1>2, <1>3, <1>4, <1>5, <1>6, <1>7, <1>8, <1>9, <1>10, Progress

\* Only sessions of grants that are over are revoked.
LEMMA RevokeStep ==
  ASSUME TypeOK, OpInv, IssuedInv, ReadInv, RevokeInv, [Next]_vars
  PROVE  RevokeInv'
<1>1. ASSUME req'.pc = "undo", ~ReadErrors PROVE ~CurrentGrant(req.page, req.grant)'
  <2>1. req.grant \in GrantIds
    BY RequestFields DEF TypeOK
  <2>2. CASE req' = req
    BY <1>1, <2>1, <2>2, GrantsShrink DEF RevokeInv, ReadInv
  <2>3. CASE RecheckBootstrap
    <3>1. ~CurrentGrant(req.page, req.grant) /\ SameRequest
      BY <1>1, <2>3, IdleFacts DEF TypeOK, Request, RecheckBootstrap, Finish, Goto, SameRequest
    <3> QED
      BY <2>3, <3>1 DEF RecheckBootstrap, CurrentGrant, SameRequest, gatewayVars
  <2> QED
    BY <1>1, <2>2, <2>3, Arrivals DEF ReadError
<1>2. ASSUME NEW g \in GrantIds, cleanup'[g] # "none" PROVE ~CurrentGrant(grant[g].page, g)'
  <2>1. CASE cleanup[g] # "none"
    <3>1. grantState[g] # "unissued" /\ ~CurrentGrant(grant[g].page, g)
      BY <2>1 DEF IssuedInv, RevokeInv
    <3>2. ASSUME NEW p, p = grant[g].page PROVE ~CurrentGrant(p, g)'
      BY <3>1, <3>2, GrantsShrink
    <3> QED
      BY <3>1, <3>2, GrantsKept
  <2>2. CASE cleanup[g] = "none"
    <3>1. RemoveGrant(g)
      BY <1>2, <2>2, Writers
      DEF TypeOK, Crash, RemoveGrant, CleanupCheck, CleanupReadError, CleanupRevoke, CleanupLost
    <3> QED
      BY <3>1 DEF TypeOK, RemoveGrant, CurrentGrant
  <2> QED
    BY <2>1, <2>2
<1> QED
  BY <1>1, <1>2 DEF RevokeInv

\* Authority stays nested.
LEMMA NestedStep ==
  ASSUME TypeOK, IssuedInv, ReadInv, AuthorityNested, [Next]_vars
  PROVE  AuthorityNested'
<1> USE DEF AuthorityNested
<1>1. \A t \in Tokens : sessions[t].grant \in GrantIds
  BY RecordFields
<1>2. \A t \in Tokens : sessions[t].st = "row" => grant'[sessions[t].grant] = grant[sessions[t].grant]
  BY <1>1, GrantsKept DEF IssuedInv
<1>3. CASE UNCHANGED <<sessions, verified>>
  BY <1>2, <1>3
<1>4. CASE (\E g \in GrantIds : CleanupRevoke(g)) \/ UndoBootstrap
  BY <1>2, <1>4, RevokeCases
<1>5. ASSUME NEW t \in Tokens, ConsumeBootstrap(t) PROVE AuthorityNested'
  <2>1. req.exp \in Time /\ req.exp = grant[req.grant].expires /\ grant' = grant /\ verified' = verified
    BY <1>5, RequestFields DEF TypeOK, ReadInv, ConsumeBootstrap, gatewayVars
  <2>2. verified[t] = 0
    BY <1>5 DEF ConsumeBootstrap, IssuedInv
  <2>3. /\ sessions'[t].grant = req.grant /\ sessions'[t].expires = req.exp
        /\ \A u \in Tokens \ {t} : sessions'[u] = sessions[u]
    BY <1>5 DEF TypeOK, ConsumeBootstrap
  <2> QED
    BY <2>1, <2>2, <2>3, BoundsAssumption DEF Time
<1>6. ASSUME NEW code \in 0..MaxChallenges, VerifyChallenge(code) PROVE AuthorityNested'
  <2> DEFINE T == req.token
             until == Least(now + VerifiedLife, Least(sessions[T].expires, req.exp))
  <2>1. T \in Tokens /\ req.exp \in Time /\ sessions[T].expires \in Time
    BY RequestFields, RecordFields DEF TypeOK
  <2>2. until <= sessions[T].expires
    BY <2>1, BoundsAssumption DEF TypeOK, Least, Time
  <2> HIDE DEF until
  <2>3. \A u \in Tokens : verified'[u] = verified[u] \/ (u = T /\ verified'[u] = until)
    BY <1>6, <2>1, VerifyMove DEF TypeOK, until
  <2> QED
    BY <1>6, <2>1, <2>2, <2>3 DEF gatewayVars, VerifyChallenge
<1> QED
  BY <1>3, <1>4, <1>5, <1>6, Writers

\* A one-time invitation is consumed by its first session.
LEMMA OneTimeStep ==
  ASSUME TypeOK, IssuedInv, OneTimeInv, OneTimeOnce, [Next]_vars
  PROVE  OneTimeInv' /\ OneTimeOnce'
<1> USE DEF OneTimeInv, OneTimeOnce
<1>1. CASE UNCHANGED <<grant, consumed, minted>>
  BY <1>1
<1>2. ASSUME NEW g \in GrantIds, NEW rec \in GrantChoices, CreateGrant(g, rec)
      PROVE  OneTimeInv' /\ OneTimeOnce'
  BY <1>2 DEF TypeOK, CreateGrant, IssuedInv, storeVars, history
<1>3. ASSUME NEW t \in Tokens, ConsumeBootstrap(t) PROVE OneTimeInv' /\ OneTimeOnce'
  <2>1. req.grant \in GrantIds
    BY RequestFields DEF TypeOK
  <2>2. grant' = grant /\ minted' = [minted EXCEPT ![req.grant] = @ + 1]
    BY <1>3 DEF ConsumeBootstrap, gatewayVars
  <2>3. CASE grant[req.grant].oneTime
    <3>1. minted[req.grant] = 0 /\ consumed' = consumed \union {req.grant}
      BY <1>3, <2>1, <2>3 DEF ConsumeBootstrap
    <3> QED
      BY <2>1, <2>2, <3>1 DEF TypeOK
  <2>4. CASE ~grant[req.grant].oneTime
    <3>1. consumed' = consumed
      BY <1>3, <2>4 DEF ConsumeBootstrap
    <3> QED
      BY <2>1, <2>2, <2>4, <3>1 DEF TypeOK
  <2> QED
    BY <2>3, <2>4
<1> QED
  BY <1>1, <1>2, <1>3, Writers

\* Every code has its own count of guesses.
LEMMA ChallengeStep ==
  ASSUME TypeOK, OpInv, ChallengeInv, BoundedGuesses, [Next]_vars
  PROVE  ChallengeInv' /\ BoundedGuesses'
<1> USE BoundsAssumption DEF ChallengeInv, BoundedGuesses
<1>1. /\ \A u \in Tokens : challenges[u].id \in 0..MaxChallenges /\ challenges[u].attempts \in Nat
      /\ req.token \in Tokens /\ NoChallenge.id = 0 /\ lastId \in 0..MaxChallenges
      /\ guesses \in [1..MaxChallenges -> Nat]
  BY RecordFields, RequestFields DEF TypeOK, NoChallenge
<1>2. CASE UNCHANGED <<challenges, lastId, guesses>>
  BY <1>2
<1>3. ASSUME UNCHANGED <<lastId, guesses>>,
             \A u \in Tokens : challenges'[u] \in {challenges[u], NoChallenge}
      PROVE  ChallengeInv' /\ BoundedGuesses'
  <2>1. \A u \in Tokens : challenges'[u] = challenges[u] \/ challenges'[u].id = 0
    BY <1>1, <1>3
  <2>2. /\ \A t \in Tokens : challenges'[t].id <= lastId'
        /\ \A t, u \in Tokens :
              t # u /\ challenges'[t].id # 0 => challenges'[t].id # challenges'[u].id
    BY <1>1, <1>3, <2>1
  <2>3. \A t \in Tokens : challenges'[t].id # 0 =>
          /\ guesses'[challenges'[t].id] = challenges'[t].attempts
          /\ challenges'[t].attempts <= MaxAttempts
    BY <1>3, <2>1
  <2> QED
    BY <1>3, <2>2, <2>3
<1>4. CASE (\E g \in GrantIds : CleanupRevoke(g)) \/ UndoBootstrap
  BY <1>3, <1>4, RevokeCases DEF history
<1>5. CASE CancelChallenge
  <2>1. \A u \in Tokens : challenges'[u] \in {challenges[u], NoChallenge}
    BY <1>1, <1>5 DEF TypeOK, CancelChallenge
  <2> QED
    BY <1>3, <1>5, <2>1 DEF CancelChallenge, history
<1>6. ASSUME NEW replace \in BOOLEAN, IssueChallenge(replace) PROVE ChallengeInv' /\ BoundedGuesses'
  <2> DEFINE T == req.token
             row == [id |-> lastId + 1, expires |-> now + ChallengeLife, attempts |-> 0, sent |-> now]
  <2>1. row.id = lastId + 1 /\ row.attempts = 0
    OBVIOUS
  <2>2. CASE lastId' = lastId + 1 /\ challenges' = [challenges EXCEPT ![T] = row]
    <3> HIDE DEF row
    <3>1. challenges'[T] = row /\ \A u \in Tokens \ {T} : challenges'[u] = challenges[u]
      BY <1>1, <2>2 DEF TypeOK
    <3>2. lastId + 1 \in 1..MaxChallenges /\ guesses' = guesses
      BY <1>6 DEF TypeOK, history, IssueChallenge, OpInv
    <3> QED
      BY <1>1, <2>1, <2>2, <3>1, <3>2
  <2> QED
    BY <1>2, <1>6, <2>2 DEF IssueChallenge, history
<1>7. ASSUME NEW code \in 0..MaxChallenges, VerifyChallenge(code) PROVE ChallengeInv' /\ BoundedGuesses'
  <2> DEFINE T == req.token
             c == challenges[T].id
  <2>1. UNCHANGED lastId
    BY <1>7 DEF VerifyChallenge
  <2>2. CASE /\ Acceptable(T, req.exp) /\ guesses' = [guesses EXCEPT ![c] = @ + 1]
             /\ \/ challenges' = [challenges EXCEPT ![T] = NoChallenge]
                \/ challenges' = [challenges EXCEPT ![T].attempts = @ + 1]
    <3>1. c \in 1..lastId /\ c \in 1..MaxChallenges /\ challenges[T].attempts < MaxAttempts
      BY <1>1, <2>2 DEF Acceptable
    <3>2. guesses[c] = challenges[T].attempts
      BY <1>1, <3>1
    <3>3. /\ guesses'[c] = challenges[T].attempts + 1
          /\ \A d \in 1..MaxChallenges \ {c} : guesses'[d] = guesses[d]
      BY <1>1, <2>2, <3>1, <3>2
    <3>4. \A u \in Tokens \ {T} : challenges'[u] = challenges[u] /\ challenges[u].id # c
      BY <1>1, <2>2, <3>1 DEF TypeOK
    <3>5. \/ challenges'[T].id = 0
          \/ challenges'[T].id = c /\ challenges'[T].attempts = challenges[T].attempts + 1
      <4>1. challenges[T] \in ChallengeRec /\ challenges \in [Tokens -> ChallengeRec]
        BY <1>1 DEF TypeOK
      <4>2. CASE challenges' = [challenges EXCEPT ![T].attempts = @ + 1]
        BY <1>1, <4>1, <4>2 DEF ChallengeRec
      <4> QED
        BY <1>1, <2>2, <4>1, <4>2
    <3> HIDE DEF c
    <3>6. BoundedGuesses'
      BY <1>1, <3>1, <3>3
    <3>7. /\ \A t \in Tokens : challenges'[t].id <= lastId'
          /\ \A t, u \in Tokens :
                t # u /\ challenges'[t].id # 0 => challenges'[t].id # challenges'[u].id
      BY <1>1, <2>1, <3>1, <3>4, <3>5 DEF c
    <3>8. \A t \in Tokens : challenges'[t].id # 0 =>
            /\ guesses'[challenges'[t].id] = challenges'[t].attempts
            /\ challenges'[t].attempts <= MaxAttempts
      <4>1. ASSUME NEW t \in Tokens \ {T}, challenges[t].id # 0
            PROVE  guesses'[challenges[t].id] = challenges[t].attempts
        BY <1>1, <3>3, <3>4, <4>1
      <4>2. challenges'[T].id # 0 =>
              /\ guesses'[challenges'[T].id] = challenges'[T].attempts
              /\ challenges'[T].attempts <= MaxAttempts
        BY <1>1, <3>1, <3>3, <3>5
      <4> QED
        BY <1>1, <3>4, <4>1, <4>2
    <3>9. \A d \in 1..MaxChallenges : d > lastId' => guesses'[d] = 0
      BY <1>1, <2>1, <3>1, <3>3
    <3> QED
      BY <3>6, <3>7, <3>8, <3>9
  <2> QED
    BY <1>2, <1>7, <2>1, <2>2, VerifyMove
<1> QED
  BY <1>2, <1>4, <1>5, <1>6, <1>7, Writers

\* A request that has Home Assistant's answer keeps its credentials, and had the
\* answer before unless this is the step that brings it.
LEMMA ServingKept ==
  ASSUME TypeOK, OpInv, [Next]_vars, Serving'
  PROVE  \/ ReadHA
         \/ /\ Serving /\ ~ReadHA /\ SameRequest /\ req'.phase = req.phase /\ UNCHANGED atHA
            /\ req'.snap = req.snap
            /\ \A t \in Tokens : ~ConsumeBootstrap(t)
            /\ \A code \in 0..MaxChallenges : ~VerifyChallenge(code)
<1> USE DEF SameRequest, Serving, ServeOps
<1>1. req' # Idle
  BY IdleFacts
<1>2. ASSUME NEW code \in 0..MaxChallenges, VerifyChallenge(code) PROVE FALSE
  BY <1>1, <1>2 DEF VerifyChallenge, Finish
<1>3. ASSUME NEW t \in Tokens, ConsumeBootstrap(t) PROVE FALSE
  BY <1>3 DEF TypeOK, Request, ConsumeBootstrap, Goto, OpInv
<1>4. ASSUME NEW op \in Ops, NEW p \in Pages, NEW g \in GrantIds, NEW t \in Tokens,
             NEW r \in Resources, Receive(op, p, g, t, r)
      PROVE  FALSE
  <2>1. req'.phase = 1
    BY <1>4, IdleType DEF Receive, Idle, Request
  <2> QED
    BY <2>1
<1>5. ASSUME NEW replace \in BOOLEAN, IssueChallenge(replace) PROVE FALSE
  BY <1>1, <1>5 DEF TypeOK, Request, IssueChallenge, Goto, Finish, OpInv
<1>6. ASSUME NEW secret \in GrantIds, LoadGrant(secret) PROVE FALSE
  BY <1>1, <1>6, LoadGrantMove DEF LoadGrant, OpInv
<1>7. CASE req' = req \/ RecheckBootstrap \/ ReadError
  <2>1. req' = req
    BY <1>1, <1>7, ReadErrorMove DEF TypeOK, Request, RecheckBootstrap, Goto, Finish, OpInv
  <2> QED
    BY <1>2, <1>3, <1>7, <2>1, Writers
<1>8. CASE CheckSession \/ CheckGrant \/ CheckVerified \/ Context \/ SendEmail
          \/ LoadPolicy \/ RecheckPolicy
  BY <1>1, <1>2, <1>3, <1>8, Writers, CheckSessionMove, CheckGrantMove, CheckVerifiedMove,
     ContextMove, SendEmailMove, LoadPolicyMove, RecheckPolicyMove
  DEF SendEmail, OpInv, LoadPolicy
<1> QED
  BY <1>1, <1>3, <1>4, <1>5, <1>6, <1>7, <1>8, Progress

\* Sessions and verifications come into force only by an exchange and by a code.
LEMMA TablesShrink ==
  ASSUME TypeOK, [Next]_vars, \A u \in Tokens : ~ConsumeBootstrap(u),
         \A code \in 0..MaxChallenges : ~VerifyChallenge(code), NEW t \in Tokens
  PROVE  /\ \/ sessions'[t] = sessions[t] /\ verified'[t] = verified[t]
            \/ sessions'[t].st = "deleted" /\ verified'[t] = 0
         /\ \A p, g : LiveSession(t, p, g)' => LiveSession(t, p, g)
         /\ Verified(t)' => Verified(t)
<1>1. \/ sessions'[t] = sessions[t] /\ verified'[t] = verified[t]
      \/ sessions'[t].st = "deleted" /\ verified'[t] = 0
  BY Writers, RevokeCases
<1>2. now' >= now /\ now \in Time /\ now' \in Time
  BY Writers, BoundsAssumption DEF TypeOK, Tick, Time
<1>3. sessions[t].expires \in Time /\ verified[t] \in Time
  BY RecordFields DEF TypeOK
<1> QED
  BY <1>1, <1>2, <1>3, BoundsAssumption DEF LiveSession, Verified, Time

\* While an answer is being prepared authority only shrinks.
LEMMA ShrinkStep ==
  ASSUME TypeOK, OpInv, ReadInv, ShrinkInv, [Next]_vars
  PROVE  ShrinkInv'
<1> SUFFICES ASSUME Serving' PROVE ShrinkInv'
  BY DEF ShrinkInv
<1>1. req.token \in Tokens /\ req.grant \in GrantIds
  BY RequestFields DEF TypeOK
<1>2. CASE ReadHA
  <2>1. UNCHANGED <<now, gatewayVars, storeVars>>
    BY <1>2 DEF ReadHA
  <2>2. atHA' = [session |-> LiveSession(req.token, req.page, req.grant),
                 grant |-> CurrentGrant(req.page, req.grant),
                 verified |-> grant[req.grant].verify => Verified(req.token)]
    BY <1>2 DEF ReadHA
  <2>3. SameRequest
    BY <1>2, ReadHAMove
  <2> QED
    BY <2>1, <2>2, <2>3
    DEF ShrinkInv, LiveSession, CurrentGrant, Verified, SameRequest, gatewayVars, storeVars
<1>3. CASE ~ReadHA
  <2>1. /\ Serving /\ SameRequest /\ UNCHANGED atHA
        /\ \A t \in Tokens : ~ConsumeBootstrap(t)
        /\ \A code \in 0..MaxChallenges : ~VerifyChallenge(code)
    BY <1>3, ServingKept
  <2>2. grantState[req.grant] # "unissued"
    BY <2>1 DEF ReadInv, Serving
  <2>3. grant'[req.grant] = grant[req.grant]
    BY <1>1, <2>2, GrantsKept
  <2>4. CurrentGrant(req.page, req.grant)' => CurrentGrant(req.page, req.grant)
    <3>1. ASSUME NEW p, NEW g, p = req.page, g = req.grant, CurrentGrant(p, g)'
          PROVE  CurrentGrant(p, g)
      BY <1>1, <2>2, <3>1, GrantsShrink
    <3> QED
      BY <2>1, <3>1 DEF SameRequest
  <2>5. /\ LiveSession(req.token, req.page, req.grant)' => LiveSession(req.token, req.page, req.grant)
        /\ Verified(req.token)' => Verified(req.token)
    <3>1. ASSUME NEW t, NEW p, NEW g, t = req.token, p = req.page, g = req.grant
          PROVE  /\ LiveSession(t, p, g)' => LiveSession(t, p, g)
                 /\ Verified(t)' => Verified(t)
      BY <1>1, <2>1, <3>1, TablesShrink
    <3> QED
      BY <2>1, <3>1 DEF SameRequest
  <2> QED
    BY <2>1, <2>3, <2>4, <2>5 DEF ShrinkInv, SameRequest
<1> QED
  BY <1>2, <1>3

\* The last status of a request has found everything that Home Assistant's answer
\* relied on still in force.
LEMMA StatusStep ==
  ASSUME TypeOK, OpInv, ReadInv, ShrinkInv, StatusInv, EffectAuthorized, [Next]_vars
  PROVE  StatusInv' /\ EffectAuthorized'
<1> DEFINE Auth == atHA.session /\ atHA.grant /\ atHA.verified
<1>1. /\ req.token \in Tokens /\ req.grant \in GrantIds /\ req.exp \in Time
      /\ req.verify \in BOOLEAN /\ grant[req.grant].expires \in Time /\ verified[req.token] \in Time
  BY RequestFields, RecordFields DEF TypeOK
<1>2. grantState[req.grant] # "unissued" => grant'[req.grant] = grant[req.grant]
  BY <1>1, GrantsKept
<1>3. ASSUME req'.pc = "verified"
      PROVE  /\ req'.verify = grant'[req'.grant].verify
             /\ req'.exp <= grant'[req'.grant].expires
  <2>1. CASE req' = req
    BY <1>2, <1>3, <2>1 DEF StatusInv, ReadInv
  <2>2. CASE CheckGrant
    <3>1. UNCHANGED grant
      BY <2>2 DEF CheckGrant, gatewayVars
    <3>2. /\ req'.grant = req.grant /\ req'.exp = Least(req.exp, grant[req.grant].expires)
          /\ req'.verify = grant[req.grant].verify
      BY <1>3, <2>2, CheckGrantMove, IdleFacts DEF SameRequest
    <3> QED
      BY <1>1, <3>1, <3>2, LeastTime
  <2> QED
    BY <1>3, <2>1, <2>2, Arrivals
<1>4. ASSUME Serving', req'.pc \in {"grant", "verified"}
      PROVE  atHA'.session /\ (req'.pc = "verified" => atHA'.grant)
  <2>1. ~ReadHA
    BY <1>4, ReadHAMove
  <2>2. Serving /\ UNCHANGED atHA /\ SameRequest
    BY <1>4, <2>1, ServingKept
  <2>3. CASE req' = req
    BY <1>4, <2>2, <2>3 DEF StatusInv
  <2>4. CASE CheckSession
    BY <1>4, <2>2, <2>4, CheckSessionMove, IdleFacts DEF ShrinkInv
  <2>5. CASE CheckGrant
    BY <1>4, <2>2, <2>5, CheckGrantMove, IdleFacts DEF ShrinkInv, StatusInv, CheckGrant
  <2> QED
    BY <1>4, <2>3, <2>4, <2>5, Arrivals
<1>5. ASSUME CheckVerified, Serving, req' # Idle
      PROVE  Auth
  <2>1. req.verify => Verified(req.token)
    BY <1>5, CheckVerifiedMove DEF Serving
  <2> QED
    BY <1>5, <2>1 DEF CheckVerified, StatusInv, ShrinkInv
<1>6. ASSUME Serving', req'.pc = "effect" \/ (req'.pc = "repolicy" /\ req'.op = "state")
      PROVE  Auth'
  <2>1. ~ReadHA
    BY <1>6, ReadHAMove DEF SameRequest
  <2>2. Serving /\ UNCHANGED atHA /\ SameRequest
    BY <1>6, <2>1, ServingKept
  <2>3. CASE req' = req
    BY <1>6, <2>2, <2>3 DEF StatusInv, EffectAuthorized
  <2>4. CASE CheckVerified
    BY <1>5, <1>6, <2>2, <2>4, IdleFacts
  <2>5. CASE RecheckPolicy /\ req.op = "state"
    BY <2>2, <2>5 DEF RecheckPolicy, StatusInv
  <2> QED
    BY <1>6, <2>1, <2>3, <2>4, <2>5, Arrivals
<1>7. ASSUME req'.pc = "effect", req'.op = "action"
      PROVE  /\ req'.exp <= grant'[req'.grant].expires
             /\ grant'[req'.grant].verify /\ sessions'[req'.token].st = "row"
                   => req'.exp <= verified'[req'.token]
  <2>1. CASE req' = req
    <3>1. Serving'
      BY <1>7, <2>1 DEF Serving, OpInv, ServeOps
    <3>2. /\ \A t \in Tokens : ~ConsumeBootstrap(t)
          /\ \A code \in 0..MaxChallenges : ~VerifyChallenge(code)
      BY <1>7, <3>1, ServingKept, ReadHAMove
    <3>3. \/ UNCHANGED <<sessions[req.token], verified[req.token]>>
          \/ sessions'[req.token].st = "deleted"
      BY <1>1, <2>1, <3>2, TablesShrink
    <3> QED
      BY <1>2, <1>7, <2>1, <3>3 DEF StatusInv, ReadInv
  <2>2. CASE CheckVerified
    <3>1. UNCHANGED <<grant, sessions, verified>>
      BY <2>2 DEF CheckVerified, gatewayVars, storeVars
    <3>2. SameRequest /\ (req.verify => Verified(req.token))
      BY <1>7, <2>2, CheckVerifiedMove, IdleFacts DEF SameRequest, ServeOps
    <3>3. req'.exp <= req.exp /\ (req.verify => req'.exp <= verified[req.token])
      <4>1. req'.exp = IF req.verify THEN Least(req.exp, verified[req.token]) ELSE req.exp
        BY <1>7, <2>2, <3>2, CheckVerifiedMove, IdleFacts
      <4>2. /\ Least(req.exp, verified[req.token]) <= req.exp
            /\ Least(req.exp, verified[req.token]) <= verified[req.token]
        BY <1>1, LeastTime
      <4>3. req.exp <= req.exp
        BY <1>1, BoundsAssumption DEF Time
      <4> QED
        BY <1>1, <4>1, <4>2, <4>3
    <3>4. /\ req.verify = grant[req.grant].verify /\ req.exp <= grant[req.grant].expires
      BY <2>2 DEF CheckVerified, StatusInv
    <3>5. req'.exp \in Time
      BY RequestType, RequestFields
    <3> QED
      BY <1>1, <3>1, <3>2, <3>3, <3>4, <3>5, BoundsAssumption DEF SameRequest, Time
  <2>3. CASE RecheckPolicy /\ req.op = "state"
    BY <1>7, <2>3, RecheckPolicyMove, IdleFacts DEF SameRequest
  <2> QED
    BY <1>7, <2>1, <2>2, <2>3, Arrivals
<1>8. EffectAuthorized'
  <2> SUFFICES ASSUME req'.pc = "effect" PROVE Auth'
    BY DEF EffectAuthorized
  <2>1. Serving'
    BY OpStep DEF OpInv, Serving
  <2> QED
    BY <1>6, <2>1
<1> QED
  BY <1>3, <1>4, <1>6, <1>7, <1>8 DEF StatusInv

\* Once compared, the policy stays the published one until the page is republished.
LEMMA PolicyStep ==
  ASSUME TypeOK, OpInv, PolicyInv, PolicyHonoured, [Next]_vars
  PROVE  PolicyInv' /\ PolicyHonoured'
<1>1. req.page \in Pages
  BY RequestFields DEF TypeOK
<1>2. ASSUME Serving', ~touched',
             req'.pc = "effect" \/ (req'.op # "state" /\ req'.pc \in {"session", "grant", "verified"})
      PROVE  SamePolicy'
  <2>1. ~ReadHA
    BY <1>2, ReadHAMove DEF SameRequest
  <2>2. Serving /\ SameRequest /\ req'.phase = req.phase /\ req'.snap = req.snap
    BY <1>2, <2>1, ServingKept
  <2>3. policy'[req.page] = policy[req.page] /\ ~touched
    <3>1. ASSUME NEW p \in Pages, NEW new \in PolicyChoices, Publish(p, new)
          PROVE  policy'[req.page] = policy[req.page] /\ ~touched
      BY <1>1, <1>2, <3>1 DEF TypeOK, Publish
    <3> QED
      BY <1>2, <2>1, <3>1, Writers
  <2>4. ASSUME SamePolicy PROVE SamePolicy'
    BY <2>2, <2>3, <2>4 DEF SamePolicy, SameRequest
  <2>5. CASE req' = req
    BY <1>2, <2>2, <2>3, <2>4, <2>5 DEF PolicyInv
  <2>6. CASE RecheckPolicy
    BY <1>2, <2>4, <2>6, RecheckPolicyMove, IdleFacts
  <2>7. CASE CheckSession \/ CheckGrant \/ (CheckVerified /\ req.op # "state")
    <3>1. req.op # "state"
      BY <1>2, <2>2, <2>7, CheckSessionMove, CheckGrantMove, IdleFacts DEF SameRequest
    <3>2. req.pc \in {"session", "grant", "verified"}
      BY <2>7 DEF CheckSession, CheckGrant, CheckVerified
    <3> QED
      BY <2>2, <2>3, <2>4, <3>1, <3>2 DEF PolicyInv
  <2>8. CASE SendEmail
    BY <2>2, <2>8 DEF SendEmail, OpInv, Serving, ServeOps
  <2> QED
    BY <1>2, <2>1, <2>2, <2>5, <2>6, <2>7, <2>8, Arrivals DEF Serving
<1>3. PolicyHonoured'
  BY <1>2, OpStep DEF OpInv, PolicyHonoured, Serving
<1> QED
  BY <1>2, <1>3 DEF PolicyInv

\* The invariant holds when the broker starts with empty tables.
LEMMA InitIInv == Init => IInv
<1> SUFFICES ASSUME Init PROVE IInv
  OBVIOUS
<1> USE IdleFacts, BoundsAssumption DEF Init
<1>1. Idle.page \in Pages /\ Idle.grant \in GrantIds /\ NoPolicy \in Policy
  BY IdleType, RequestFields DEF NoPolicy, Policy, Bindings
<1>2. TypeOK
  <2>1. req \in Request
    BY IdleType
  <2>2. /\ grant \in [GrantIds -> GrantRec] /\ sessions \in [Tokens -> SessionRec]
        /\ challenges \in [Tokens -> ChallengeRec]
    BY <1>1 DEF GrantRec, SessionRec, ChallengeRec, NoChallenge, Time
  <2>3. /\ grantState \in [GrantIds -> {"unissued", "live", "removed"}]
        /\ policy \in [Pages -> Policy] /\ minted \in [GrantIds -> Nat]
        /\ cleanup \in [GrantIds -> {"none", "asked", "checked"}]
        /\ guesses \in [1..MaxChallenges -> Nat] /\ verified \in [Tokens -> Time]
    BY <1>1 DEF Time
  <2>4. /\ now \in Time /\ consumed \in SUBSET GrantIds /\ lastId \in 0..MaxChallenges
    BY DEF Time
  <2>5. atHA \in [session: BOOLEAN, grant: BOOLEAN, verified: BOOLEAN]
    OBVIOUS
  <2>6. touched \in BOOLEAN
    OBVIOUS
  <2> QED
    BY <2>1, <2>2, <2>3, <2>4, <2>5, <2>6 DEF TypeOK
<1>3. OpInv /\ ReadInv /\ RevokeInv
  BY DEF OpInv, ReadInv, RevokeInv
<1>4. IssuedInv /\ AuthorityNested
  BY DEF IssuedInv, AuthorityNested
<1>5. OneTimeInv /\ OneTimeOnce
  BY DEF OneTimeInv, OneTimeOnce
<1>6. ChallengeInv /\ BoundedGuesses
  BY DEF ChallengeInv, BoundedGuesses, NoChallenge
<1>7. ShrinkInv /\ StatusInv /\ EffectAuthorized /\ PolicyInv /\ PolicyHonoured
  BY DEF ShrinkInv, StatusInv, EffectAuthorized, PolicyInv, PolicyHonoured, Serving, ServeOps
<1> QED
  BY <1>2, <1>3, <1>4, <1>5, <1>6, <1>7 DEF IInv

\* Every step of the broker, the Gateway and the clock keeps the invariant.
LEMMA StepIInv == IInv /\ [Next]_vars => IInv'
<1> SUFFICES ASSUME IInv, [Next]_vars PROVE IInv'
  OBVIOUS
<1> USE DEF IInv
<1>1. TypeOK' /\ OpInv' /\ IssuedInv' /\ ReadInv' /\ RevokeInv' /\ AuthorityNested'
  BY TypeStep, OpStep, IssuedStep, ReadStep, RevokeStep, NestedStep
<1>2. OneTimeInv' /\ OneTimeOnce' /\ ChallengeInv' /\ BoundedGuesses'
  BY OneTimeStep, ChallengeStep
<1>3. ShrinkInv' /\ StatusInv' /\ EffectAuthorized' /\ PolicyInv' /\ PolicyHonoured'
  BY ShrinkStep, StatusStep, PolicyStep
<1> QED
  BY <1>1, <1>2, <1>3

\* IInv is an invariant of the guest authority.
THEOREM Inductive == Spec => []IInv
  BY InitIInv, StepIInv, PTL DEF Spec

\* Every variable keeps its type (the tables, the files, the request in flight).
THEOREM TypeCorrect == Spec => []TypeOK
<1>1. IInv => TypeOK
  BY DEF IInv
<1> QED
  BY <1>1, Inductive, PTL

\* No answer is given and no action sent unless session, grant and verification were
\* all in force when Home Assistant had answered, whatever the Gateway, the cleanup
\* calls, read errors and restarts did meanwhile.
THEOREM EffectsAuthorized == Spec => []EffectAuthorized
<1>1. IInv => EffectAuthorized
  BY DEF IInv
<1> QED
  BY <1>1, Inductive, PTL

\* A policy published while Home Assistant was asked is noticed before the answer
\* is given or the action sent.
THEOREM PoliciesHonoured == Spec => []PolicyHonoured
<1>1. IInv => PolicyHonoured
  BY DEF IInv
<1> QED
  BY <1>1, Inductive, PTL

\* A one-time invitation opens at most one session, for any number of restarts,
\* revocations and undone exchanges.
THEOREM OneTimeInvitations == Spec => []OneTimeOnce
<1>1. IInv => OneTimeOnce
  BY DEF IInv
<1> QED
  BY <1>1, Inductive, PTL

\* No code is compared with more than MaxAttempts guesses.
THEOREM GuessesBounded == Spec => []BoundedGuesses
<1>1. IInv => BoundedGuesses
  BY DEF IInv
<1> QED
  BY <1>1, Inductive, PTL

\* A session never outlives its grant, nor a verification its session.
THEOREM AuthorityIsNested == Spec => []AuthorityNested
<1>1. IInv => AuthorityNested
  BY DEF IInv
<1> QED
  BY <1>1, Inductive, PTL

\* An action is sent only before its grant and its verification expire.
THEOREM ActionsInTime == Spec => ActionInTime
<1>1. ASSUME IInv, [Next]_vars
      PROVE  [Effect /\ req.op = "action" =>
                /\ now < grant[req.grant].expires
                /\ grant[req.grant].verify /\ sessions[req.token].st = "row"
                      => now < verified[req.token]]_vars
  <2> SUFFICES ASSUME Effect, req.op = "action"
               PROVE  /\ now < grant[req.grant].expires
                      /\ grant[req.grant].verify /\ sessions[req.token].st = "row"
                            => now < verified[req.token]
    OBVIOUS
  <2>1. req.pc = "effect" /\ req.exp > now
    BY DEF Effect
  <2>2. /\ req.exp <= grant[req.grant].expires
        /\ grant[req.grant].verify /\ sessions[req.token].st = "row"
              => req.exp <= verified[req.token]
    BY <1>1, <2>1 DEF IInv, StatusInv
  <2>3. /\ req.exp \in Time /\ now \in Time /\ grant[req.grant].expires \in Time
        /\ verified[req.token] \in Time
    BY <1>1, RequestFields, RecordFields DEF IInv, TypeOK
  <2> QED
    BY <2>1, <2>2, <2>3, BoundsAssumption DEF Time
<1> QED
  BY <1>1, Inductive, PTL DEF Spec, ActionInTime

\* If the grant file can always be read, no session of a grant in force is deleted.
THEOREM LiveSessionsAreKept ==
  ASSUME ~ReadErrors
  PROVE  Spec => LiveSessionsKept
<1>1. ASSUME IInv, [Next]_vars, NEW t \in Tokens, sessions[t].st = "row",
             CurrentGrant(sessions[t].page, sessions[t].grant)
      PROVE  sessions'[t] = sessions[t]
  <2>1. ASSUME NEW u \in Tokens, ConsumeBootstrap(u) PROVE sessions'[t] = sessions[t]
    BY <1>1, <2>1 DEF ConsumeBootstrap
  <2>2. ASSUME NEW g \in GrantIds, CleanupRevoke(g) PROVE sessions'[t] = sessions[t]
    <3>1. ~CurrentGrant(grant[g].page, g)
      BY <1>1, <2>2 DEF CleanupRevoke, IInv, RevokeInv
    <3> QED
      BY <1>1, <2>2, <3>1 DEF CleanupRevoke, Revoke, OfGrant
  <2>3. CASE UndoBootstrap
    <3>1. ~CurrentGrant(req.page, req.grant)
      BY <1>1, <2>3 DEF UndoBootstrap, IInv, RevokeInv
    <3> QED
      BY <1>1, <2>3, <3>1 DEF UndoBootstrap, Revoke, OfGrant
  <2> QED
    BY <1>1, <2>1, <2>2, <2>3, Writers
<1>2. IInv /\ [Next]_vars =>
        [\A t \in Tokens :
           sessions[t].st = "row" /\ CurrentGrant(sessions[t].page, sessions[t].grant)
             => sessions'[t] = sessions[t]]_vars
  BY <1>1
<1> QED
  BY <1>2, Inductive, PTL DEF Spec, LiveSessionsKept

=============================================================================
