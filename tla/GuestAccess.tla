---------------------------- MODULE GuestAccess ----------------------------
(***************************************************************************)
(* The guest authority of the Home Assistant broker: the Unix listener     *)
(* that answers the Guest Service (ha_broker.py, GuestHandler) together    *)
(* with the session database it owns (verification.py) and the grant and   *)
(* policy files that the admin Gateway owns and the broker only reads.     *)
(*                                                                         *)
(* The guest listener is serial (socketserver.UnixStreamServer), so there  *)
(* is at most one guest request in flight; but every file read, database   *)
(* transaction, e-mail and Home Assistant call of that request is a        *)
(* separate step, and the Gateway, the broker's threaded admin listener    *)
(* and the clock may move between any two of them.                         *)
(*                                                                         *)
(* Data abstraction.  A grant's invitation secret is represented by the    *)
(* grant's id: ids and secrets are drawn fresh and together (server.py     *)
(* 826-960) and a stored token_hash is never rewritten, so a hash          *)
(* comparison is a comparison of grants.  The six-digit code of a          *)
(* challenge is represented by the challenge's id.                         *)
(***************************************************************************)
EXTENDS Integers, FiniteSets

CONSTANTS
    Pages,          \* page ids
    GrantIds,       \* grant ids (with the invitation secret each one carries)
    Tokens,         \* guest session cookies
    Resources,      \* resource ids of a page
    Entities,       \* Home Assistant entities
    NoEntity,       \* a resource that the published policy does not have
    Ops,            \* the guest operations that a run exercises
    GrantChoices,   \* the grants that the admin may create
    PolicyChoices,  \* the page policies that the admin may publish
    Failures,       \* may the broker restart, a database call fail, a cleanup call get lost
    ReadErrors,     \* may a read of the grant file fail
    MaxTime,        \* bound on the clock (seconds of the model)
    MaxChallenges,  \* bound on the number of codes ever issued
    MaxAttempts,    \* guesses per code                  (5 in verification.py)
    ResendDelay,    \* seconds between two codes         (60)
    ChallengeLife,  \* life of a code                    (600)
    VerifiedLife    \* life of a verification            (12 * 3600)

AllOps == {"bootstrap", "resume", "status", "challenge", "verify",
           "state", "view", "camera", "action"}
ServeOps == {"state", "view", "camera", "action"}   \* the ones that reach Home Assistant

ASSUME OpsAssumption ==
    Ops \subseteq AllOps /\ Failures \in BOOLEAN /\ ReadErrors \in BOOLEAN
ASSUME BoundsAssumption ==
    /\ MaxTime \in Nat
    /\ MaxChallenges \in Nat
    /\ MaxAttempts \in Nat
    /\ ResendDelay \in Nat
    /\ ChallengeLife \in Nat
    /\ VerifiedLife \in Nat
ASSUME NonEmptyAssumption ==
    Pages # {} /\ GrantIds # {} /\ Tokens # {} /\ Resources # {}

VARIABLES
    now,         \* wall clock
    grantState,  \* [GrantIds -> {"unissued", "live", "removed"}]: is it in the page file
    grant,       \* [GrantIds -> GrantRec]: what the page file says of it
    policy,      \* [Pages -> Policy]: the published page policy
    sessions,    \* table guest_sessions JOIN guest_session_grants
    consumed,    \* table consumed_bootstraps
    challenges,  \* table guest_challenges
    lastId,      \* the last challenge_id drawn
    verified,    \* table guest_verifications: expiry, 0 when there is no row
    cleanup,     \* [GrantIds -> ...]: /v1/revoke-guest-sessions on the admin listener
    req,         \* the guest request in flight
    \* History variables: no action reads them.
    minted,      \* [GrantIds -> Nat]: sessions ever created for the grant
    guesses,     \* [1..MaxChallenges -> Nat]: codes ever compared with the challenge
    atHA,        \* what was authorized when Home Assistant had answered
    touched      \* was the request's page republished since then

storeVars == <<sessions, consumed, challenges, lastId, verified>>
gatewayVars == <<grantState, grant, policy>>
history == <<minted, guesses, atHA, touched>>
vars == <<now, gatewayVars, storeVars, cleanup, req, history>>

-----------------------------------------------------------------------------
(* Records and types *)

Time == 0..MaxTime
Bindings == Entities \union {NoEntity}
Policy == [published: BOOLEAN, binds: [Resources -> Bindings]]
GrantRec == [page: Pages, expires: Time, verify: BOOLEAN, oneTime: BOOLEAN]
SessionRec == [st: {"unused", "row", "deleted"}, page: Pages, grant: GrantIds,
               expires: Time]
ChallengeRec == [id: 0..MaxChallenges, expires: Nat, attempts: Nat, sent: Time]
PCs == {"idle", "load", "mint", "recheck", "undo", "session", "grant",
        "verified", "resume", "context", "issue", "email", "cancel", "check",
        "policy", "ha", "repolicy", "effect"}
Request == [pc: PCs, op: AllOps, page: Pages, grant: GrantIds, token: Tokens,
            res: Resources, phase: {1, 2, 3}, exp: Time, verify: BOOLEAN, snap: Policy]

ASSUME ChoicesAssumption == GrantChoices \subseteq GrantRec /\ PolicyChoices \subseteq Policy

NoPolicy == [published |-> FALSE, binds |-> [r \in Resources |-> NoEntity]]
NoChallenge == [id |-> 0, expires |-> 0, attempts |-> 0, sent |-> 0]
Idle == [pc |-> "idle", op |-> "status", page |-> CHOOSE p \in Pages : TRUE,
         grant |-> CHOOSE g \in GrantIds : TRUE, token |-> CHOOSE t \in Tokens : TRUE,
         res |-> CHOOSE r \in Resources : TRUE, phase |-> 1, exp |-> 0,
         verify |-> FALSE, snap |-> NoPolicy]

Least(a, b) == IF a <= b THEN a ELSE b

-----------------------------------------------------------------------------
(* What the broker reads *)

\* _current_guest_grant(page_id, grant_id): the grant is in the page file and
\* has not expired.
CurrentGrant(p, g) ==
    /\ grantState[g] = "live"
    /\ grant[g].page = p
    /\ grant[g].expires > now

\* guest_session_info(token, page_id), and the caller's test of the grant id.
LiveSession(t, p, g) ==
    /\ sessions[t].st = "row"
    /\ sessions[t].page = p
    /\ sessions[t].grant = g
    /\ sessions[t].expires > now

\* guest_verified_until(token, page_id, grant_id)
Verified(t) == verified[t] > now

\* VerificationStore.revoke(page_id, grant_id): the tables afterwards.
OfGrant(t, p, g) == sessions[t].st = "row" /\ sessions[t].page = p /\ sessions[t].grant = g

\* Mutants: the revocation also forgets that the invitation was used; it goes by
\* the page alone.
RevokeForgets(p, g) ==
    /\ sessions' = [t \in Tokens |-> IF OfGrant(t, p, g)
                                     THEN [sessions[t] EXCEPT !.st = "deleted"]
                                     ELSE sessions[t]]
    /\ consumed' = consumed \ {g}
    /\ UNCHANGED <<challenges, verified, lastId>>
RevokePage(p, g) ==
    /\ sessions' = [t \in Tokens |-> IF sessions[t].st = "row" /\ sessions[t].page = p
                                     THEN [sessions[t] EXCEPT !.st = "deleted"]
                                     ELSE sessions[t]]
    /\ UNCHANGED <<challenges, verified, consumed, lastId>>

Revoke(p, g) ==
    /\ sessions' = [t \in Tokens |-> IF OfGrant(t, p, g)
                                     THEN [sessions[t] EXCEPT !.st = "deleted"]
                                     ELSE sessions[t]]
    /\ challenges' = [t \in Tokens |-> IF OfGrant(t, p, g) THEN NoChallenge
                                       ELSE challenges[t]]
    /\ verified' = [t \in Tokens |-> IF OfGrant(t, p, g) THEN 0 ELSE verified[t]]
    /\ UNCHANGED <<consumed, lastId>>

-----------------------------------------------------------------------------
(* The clock and the Gateway's files *)

Tick ==
    /\ now < MaxTime
    /\ now' = now + 1
    /\ UNCHANGED <<gatewayVars, storeVars, cleanup, req, history>>

\* _create_qurl inserts a grant with a fresh id and secret.
CreateGrant(g, rec) ==
    /\ grantState[g] = "unissued"
    /\ rec.expires > now
    /\ grantState' = [grantState EXCEPT ![g] = "live"]
    /\ grant' = [grant EXCEPT ![g] = rec]
    /\ UNCHANGED <<now, policy, storeVars, cleanup, req, history>>

\* Revocation and expiry: the page file loses the grant, then the Gateway asks
\* the broker to drop its sessions (cleanup_guest_sessions).
RemoveGrant(g) ==
    /\ grantState[g] = "live"
    /\ grantState' = [grantState EXCEPT ![g] = "removed"]
    /\ cleanup' = [cleanup EXCEPT ![g] = "asked"]
    /\ UNCHANGED <<now, grant, policy, storeVars, req, history>>

\* The Gateway publishes or deletes the policy of a page.
Publish(p, new) ==
    /\ policy[p] # new
    /\ policy' = [policy EXCEPT ![p] = new]
    /\ touched' = (touched \/ p = req.page)
    /\ UNCHANGED <<now, grantState, grant, storeVars, cleanup, req, minted, guesses, atHA>>

-----------------------------------------------------------------------------
(* The admin listener: POST /v1/revoke-guest-sessions, on its own thread *)

\* The request is refused while the grant is still live; otherwise it goes on.
CleanupCheck(g) ==
    /\ cleanup[g] = "asked"
    /\ cleanup' = [cleanup EXCEPT ![g] = IF CurrentGrant(grant[g].page, g)
                                         THEN "none" ELSE "checked"]
    /\ UNCHANGED <<now, gatewayVars, storeVars, req, history>>

\* _current_guest_grant returns None when the file cannot be read.
CleanupReadError(g) ==
    /\ ReadErrors
    /\ cleanup[g] = "asked"
    /\ cleanup' = [cleanup EXCEPT ![g] = "checked"]
    /\ UNCHANGED <<now, gatewayVars, storeVars, req, history>>

CleanupRevoke(g) ==
    /\ cleanup[g] = "checked"
    /\ cleanup' = [cleanup EXCEPT ![g] = "none"]
    /\ Revoke(grant[g].page, g)
    /\ UNCHANGED <<now, gatewayVars, req, history>>

\* The call fails: the Gateway records the failure and does not retry.
CleanupLost(g) ==
    /\ Failures
    /\ cleanup[g] = "asked"
    /\ cleanup' = [cleanup EXCEPT ![g] = "none"]
    /\ UNCHANGED <<now, gatewayVars, storeVars, req, history>>

-----------------------------------------------------------------------------
(* The guest request.  Goto moves it to its next step; Finish answers it;    *)
(* Ended refuses it, and takes back the code that it may just have sent.     *)

Goto(pc) == req' = [req EXCEPT !.pc = pc]
Finish == req' = Idle
Ended == IF req.op = "challenge" /\ req.phase = 3 THEN Goto("cancel") ELSE Finish

\* GuestHandler.do_POST: any credentials may arrive, for a page whose endpoint
\* capability resolves to a published page (_bound_page).
Receive(op, p, g, t, r) ==
    /\ req.pc = "idle"
    /\ policy[p].published
    /\ op = "challenge" => lastId < MaxChallenges
    /\ req' = [Idle EXCEPT !.pc = IF op = "bootstrap" THEN "load" ELSE "session",
                           !.op = op, !.page = p, !.grant = g, !.token = t, !.res = r]
    /\ UNCHANGED <<now, gatewayVars, storeVars, cleanup, history>>

\* A limiter, a validation, Home Assistant or an expired action lifetime
\* refuses the request, or a database call of it fails.
Refuse ==
    /\ \/ req.pc \in {"mint", "check", "policy", "ha", "effect"}
       \/ Failures /\ req.pc # "idle"
    /\ Finish
    /\ UNCHANGED <<now, gatewayVars, storeVars, cleanup, history>>

\* The grant file cannot be read: _current_guest_grant returns None, as if there
\* were no such grant.
ReadError ==
    /\ ReadErrors
    /\ \/ req.pc \in {"load", "grant", "resume", "context"} /\ Ended
       \/ req.pc = "recheck" /\ Goto("undo")
    /\ UNCHANGED <<now, gatewayVars, storeVars, cleanup, history>>

\* A process dies: app_runner then stops them all and everything in flight, on
\* both listeners and in the Gateway, is gone.
Crash ==
    /\ Failures
    /\ req.pc # "idle" \/ \E g \in GrantIds : cleanup[g] # "none"
    /\ Finish
    /\ cleanup' = [g \in GrantIds |-> "none"]
    /\ UNCHANGED <<now, gatewayVars, storeVars, history>>

-----------------------------------------------------------------------------
(* _exchange_guest_bootstrap *)

\* The current grant and the secret's hash; the secret that arrives is secret's.
LoadGrant(secret) ==
    /\ req.pc = "load"
    /\ IF CurrentGrant(req.page, req.grant) /\ secret = req.grant
       THEN req' = [req EXCEPT !.pc = "mint", !.exp = grant[req.grant].expires,
                               !.verify = grant[req.grant].verify]
       ELSE Finish
    /\ UNCHANGED <<now, gatewayVars, storeVars, cleanup, history>>

\* Mutant: the session outlasts its grant by a period of grace.
ConsumeGenerous(t) ==
    /\ req.pc = "mint"
    /\ sessions[t].st = "unused"
    /\ req.exp > now
    /\ grant[req.grant].oneTime => req.grant \notin consumed
    /\ consumed' = IF grant[req.grant].oneTime THEN consumed \union {req.grant}
                   ELSE consumed
    /\ sessions' = [sessions EXCEPT ![t] =
                        [st |-> "row", page |-> req.page, grant |-> req.grant,
                         expires |-> req.exp + VerifiedLife]]
    /\ minted' = [minted EXCEPT ![req.grant] = @ + 1]
    /\ Goto("recheck")
    /\ UNCHANGED <<now, gatewayVars, challenges, lastId, verified, cleanup,
                   guesses, atHA, touched>>

\* consume_bootstrap: one transaction.  grant[g] is immutable once created, so
\* reading one_time_use here is reading the record loaded above; t is the fresh
\* cookie.  An expired or used invitation is refused (Refuse).
ConsumeBootstrap(t) ==
    /\ req.pc = "mint"
    /\ sessions[t].st = "unused"
    /\ req.exp > now
    /\ grant[req.grant].oneTime => req.grant \notin consumed
    /\ consumed' = IF grant[req.grant].oneTime THEN consumed \union {req.grant}
                   ELSE consumed
    /\ sessions' = [sessions EXCEPT ![t] =
                        [st |-> "row", page |-> req.page, grant |-> req.grant,
                         expires |-> req.exp]]
    /\ minted' = [minted EXCEPT ![req.grant] = @ + 1]
    /\ Goto("recheck")
    /\ UNCHANGED <<now, gatewayVars, challenges, lastId, verified, cleanup,
                   guesses, atHA, touched>>

\* Mutant: the grant is not read again after the transaction.
RecheckTrusts ==
    /\ req.pc = "recheck"
    /\ Finish
    /\ UNCHANGED <<now, gatewayVars, storeVars, cleanup, history>>

\* The grant is read again after the transaction; a session minted for a grant
\* that has gone meanwhile is revoked.
RecheckBootstrap ==
    /\ req.pc = "recheck"
    /\ IF CurrentGrant(req.page, req.grant) THEN Finish ELSE Goto("undo")
    /\ UNCHANGED <<now, gatewayVars, storeVars, cleanup, history>>

UndoBootstrap ==
    /\ req.pc = "undo"
    /\ Revoke(req.page, req.grant)
    /\ Finish
    /\ UNCHANGED <<now, gatewayVars, cleanup, history>>

-----------------------------------------------------------------------------
(* _guest_session_status, in three reads.  phase tells why it is asked: 1 at *)
(* the start of a request, 2 for a page view before Home Assistant is read,  *)
(* 3 after the slow step (Home Assistant or e-mail).                         *)

CheckSession ==
    /\ req.pc = "session"
    /\ IF LiveSession(req.token, req.page, req.grant)
       THEN req' = [req EXCEPT !.pc = "grant", !.exp = sessions[req.token].expires]
       ELSE Ended
    /\ UNCHANGED <<now, gatewayVars, storeVars, cleanup, history>>

CheckGrant ==
    /\ req.pc = "grant"
    /\ IF CurrentGrant(req.page, req.grant) /\ req.exp > now
       THEN req' = [req EXCEPT !.pc = "verified",
                               !.exp = Least(req.exp, grant[req.grant].expires),
                               !.verify = grant[req.grant].verify]
       ELSE Ended
    /\ UNCHANGED <<now, gatewayVars, storeVars, cleanup, history>>

\* The step that follows a status that is session_ready.
AfterReady ==
    CASE req.op \in {"challenge", "verify"} -> "context"
      [] req.op = "resume" -> "resume"
      [] req.op \in ServeOps /\ req.phase = 1 -> "policy"
      [] req.op \in ServeOps /\ req.phase = 2 -> "ha"
      [] req.op = "state" /\ req.phase = 3 -> "repolicy"
      [] OTHER -> "effect"

\* _guest_session_result: a pending verification stops every operation but the
\* ones that ask for the status or for the code itself.
CheckVerified ==
    /\ req.pc = "verified"
    /\ LET pending == req.verify /\ ~Verified(req.token)
           exp == IF req.verify /\ ~pending THEN Least(req.exp, verified[req.token])
                  ELSE req.exp
       IN  IF req.op = "status" \/ (pending /\ req.op \notin {"challenge", "verify", "resume"})
           THEN Finish
           ELSE req' = [req EXCEPT !.pc = AfterReady, !.exp = exp]
    /\ UNCHANGED <<now, gatewayVars, storeVars, cleanup, history>>

\* _resume_guest_bootstrap: the invitation is compared too; nothing is written.
Resume ==
    /\ req.pc = "resume"
    /\ Finish
    /\ UNCHANGED <<now, gatewayVars, storeVars, cleanup, history>>

-----------------------------------------------------------------------------
(* E-mail verification *)

\* _verified_guest_context: the grant once more; its expiry bounds the code's.
Context ==
    /\ req.pc = "context"
    /\ IF CurrentGrant(req.page, req.grant) /\ grant[req.grant].verify
       THEN IF req.phase = 3 THEN Finish
            ELSE req' = [req EXCEPT !.exp = grant[req.grant].expires,
                                    !.pc = IF req.op = "verify" THEN "check" ELSE "issue"]
       ELSE Ended
    /\ UNCHANGED <<now, gatewayVars, storeVars, cleanup, history>>

\* issue_guest_challenge: one transaction.
IssueChallenge(replace) ==
    LET current == challenges[req.token] IN
    /\ req.pc = "issue"
    /\ IF /\ LiveSession(req.token, req.page, req.grant)
          /\ current.id # 0 => \/ current.expires <= now
                               \/ current.attempts >= MaxAttempts
                               \/ replace
          /\ current.id # 0 => now - current.sent >= ResendDelay
       THEN /\ lastId' = lastId + 1
            /\ challenges' = [challenges EXCEPT ![req.token] =
                                  [id |-> lastId + 1, expires |-> now + ChallengeLife,
                                   attempts |-> 0, sent |-> now]]
            /\ Goto("email")
       ELSE Finish /\ UNCHANGED <<challenges, lastId>>
    /\ UNCHANGED <<now, gatewayVars, sessions, consumed, verified, cleanup, history>>

\* The Gateway's e-mail route either delivers, and the context is checked again,
\* or fails, and the challenge is cancelled.
SendEmail ==
    /\ req.pc = "email"
    /\ \/ req' = [req EXCEPT !.pc = "session", !.phase = 3]
       \/ Goto("cancel")
    /\ UNCHANGED <<now, gatewayVars, storeVars, cleanup, history>>

\* cancel_guest_challenge(token, challenge_id): the id is the last one drawn,
\* because the listener is serial.
CancelChallenge ==
    /\ req.pc = "cancel"
    /\ challenges' = IF challenges[req.token].id = lastId
                     THEN [challenges EXCEPT ![req.token] = NoChallenge] ELSE challenges
    /\ Finish
    /\ UNCHANGED <<now, gatewayVars, sessions, consumed, lastId, verified, cleanup, history>>

\* verify_guest_challenge: one transaction.  code is the id of the challenge
\* whose code the guest types, 0 for a code that was never sent.
Acceptable(t, exp) ==
    /\ challenges[t].id # 0
    /\ challenges[t].expires > now
    /\ challenges[t].attempts < MaxAttempts
    /\ exp > now

\* Mutants: the attempt is rolled back when the code is wrong; the verification is
\* not capped by the session and the grant.
VerifyRolledBack(code) ==
    LET t == req.token IN
    /\ req.pc = "check"
    /\ IF LiveSession(t, req.page, req.grant) /\ Acceptable(t, req.exp)
       THEN /\ guesses' = [guesses EXCEPT ![challenges[t].id] = @ + 1]
            /\ challenges' = IF code = challenges[t].id
                             THEN [challenges EXCEPT ![t] = NoChallenge] ELSE challenges
       ELSE UNCHANGED <<challenges, guesses>>
    /\ Finish
    /\ UNCHANGED <<now, gatewayVars, sessions, consumed, lastId, verified, cleanup,
                   minted, atHA, touched>>
VerifyUncapped(code) ==
    LET t == req.token IN
    /\ req.pc = "check"
    /\ LiveSession(t, req.page, req.grant) /\ Acceptable(t, req.exp)
    /\ code = challenges[t].id
    /\ challenges' = [challenges EXCEPT ![t] = NoChallenge]
    /\ verified' = [verified EXCEPT ![t] = now + VerifiedLife]
    /\ guesses' = [guesses EXCEPT ![challenges[t].id] = @ + 1]
    /\ Finish
    /\ UNCHANGED <<now, gatewayVars, sessions, consumed, lastId, cleanup,
                   minted, atHA, touched>>

VerifyChallenge(code) ==
    LET t == req.token
        good == code = challenges[t].id
    IN
    /\ req.pc = "check"
    /\ IF LiveSession(t, req.page, req.grant) /\ Acceptable(t, req.exp)
       THEN /\ challenges' = IF good THEN [challenges EXCEPT ![t] = NoChallenge]
                             ELSE [challenges EXCEPT ![t].attempts = @ + 1]
            /\ verified' = IF good
                           THEN [verified EXCEPT ![t] =
                                   Least(now + VerifiedLife, Least(sessions[t].expires, req.exp))]
                           ELSE verified
            /\ guesses' = [guesses EXCEPT ![challenges[t].id] = @ + 1]
       ELSE UNCHANGED <<challenges, verified, guesses>>
    /\ Finish
    /\ UNCHANGED <<now, gatewayVars, sessions, consumed, lastId, cleanup,
                   minted, atHA, touched>>

-----------------------------------------------------------------------------
(* Page views, resource states, camera images and actions *)

\* The policy is loaded and the resource resolved in it.
LoadPolicy ==
    /\ req.pc = "policy"
    /\ LET pol == policy[req.page] IN
       IF pol.published /\ (req.op # "view" => pol.binds[req.res] # NoEntity)
       THEN req' = [req EXCEPT !.snap = pol,
                               !.pc = IF req.op = "view" THEN "session" ELSE "ha",
                               !.phase = IF req.op = "view" THEN 2 ELSE 1]
       ELSE Finish
    /\ UNCHANGED <<now, gatewayVars, storeVars, cleanup, history>>

\* Home Assistant has answered (states, camera image, capabilities, proximity).
ReadHA ==
    /\ req.pc = "ha"
    /\ req' = [req EXCEPT !.phase = 3,
                          !.pc = IF req.op = "state" THEN "session" ELSE "repolicy"]
    /\ atHA' = [session |-> LiveSession(req.token, req.page, req.grant),
                grant |-> CurrentGrant(req.page, req.grant),
                verified |-> grant[req.grant].verify => Verified(req.token)]
    /\ touched' = FALSE
    /\ UNCHANGED <<now, gatewayVars, storeVars, cleanup, minted, guesses>>

\* Is what the answer or the action relies on still the published policy?
SamePolicy ==
    LET pol == policy[req.page] IN
    /\ pol.published
    /\ IF req.op \in {"view", "camera"} THEN pol = req.snap
       ELSE pol.binds[req.res] = req.snap.binds[req.res]

\* Mutants: the status is not asked again; the policy is not compared.
RecheckPolicyOnly ==
    /\ req.pc = "repolicy"
    /\ IF SamePolicy THEN Goto("effect") ELSE Finish
    /\ UNCHANGED <<now, gatewayVars, storeVars, cleanup, history>>
RecheckStatusOnly ==
    /\ req.pc = "repolicy"
    /\ Goto(IF req.op = "state" THEN "effect" ELSE "session")
    /\ UNCHANGED <<now, gatewayVars, storeVars, cleanup, history>>

RecheckPolicy ==
    /\ req.pc = "repolicy"
    /\ IF SamePolicy THEN Goto(IF req.op = "state" THEN "effect" ELSE "session")
       ELSE Finish
    /\ UNCHANGED <<now, gatewayVars, storeVars, cleanup, history>>

\* Mutant: the action is sent without looking at the deadline.
EffectAnytime ==
    /\ req.pc = "effect"
    /\ Finish
    /\ UNCHANGED <<now, gatewayVars, storeVars, cleanup, history>>

\* The answer is returned; an action is sent to Home Assistant, but only before
\* the deadline that the last status gave it (validate_dispatch_deadline).
Effect ==
    /\ req.pc = "effect"
    /\ req.op = "action" => req.exp > now
    /\ Finish
    /\ UNCHANGED <<now, gatewayVars, storeVars, cleanup, history>>

-----------------------------------------------------------------------------
Init ==
    /\ now = 0
    /\ grantState = [g \in GrantIds |-> "unissued"]
    /\ grant = [g \in GrantIds |-> [page |-> Idle.page, expires |-> 0,
                                    verify |-> FALSE, oneTime |-> FALSE]]
    /\ policy = [p \in Pages |-> NoPolicy]
    /\ sessions = [t \in Tokens |-> [st |-> "unused", page |-> Idle.page,
                                     grant |-> Idle.grant, expires |-> 0]]
    /\ consumed = {}
    /\ challenges = [t \in Tokens |-> NoChallenge]
    /\ lastId = 0
    /\ verified = [t \in Tokens |-> 0]
    /\ cleanup = [g \in GrantIds |-> "none"]
    /\ req = Idle
    /\ minted = [g \in GrantIds |-> 0]
    /\ guesses = [c \in 1..MaxChallenges |-> 0]
    /\ atHA = [session |-> FALSE, grant |-> FALSE, verified |-> FALSE]
    /\ touched = FALSE

Gateway ==
    \/ \E g \in GrantIds, rec \in GrantChoices : CreateGrant(g, rec)
    \/ \E g \in GrantIds : RemoveGrant(g)
    \/ \E p \in Pages, new \in PolicyChoices : Publish(p, new)

AdminListener ==
    \E g \in GrantIds : CleanupCheck(g) \/ CleanupReadError(g) \/ CleanupRevoke(g) \/ CleanupLost(g)

Exchange ==
    \/ \E secret \in GrantIds : LoadGrant(secret)
    \/ \E t \in Tokens : ConsumeBootstrap(t)
    \/ RecheckBootstrap \/ UndoBootstrap

Status == CheckSession \/ CheckGrant \/ CheckVerified \/ Resume

Verification ==
    \/ Context \/ SendEmail \/ CancelChallenge
    \/ \E replace \in BOOLEAN : IssueChallenge(replace)
    \/ \E code \in 0..MaxChallenges : VerifyChallenge(code)

Serve == LoadPolicy \/ ReadHA \/ RecheckPolicy \/ Effect

GuestListener ==
    \/ \E op \in Ops, p \in Pages, g \in GrantIds, t \in Tokens, r \in Resources :
          Receive(op, p, g, t, r)
    \/ Exchange \/ Status \/ Verification \/ Serve \/ Refuse \/ ReadError \/ Crash

Next == Tick \/ Gateway \/ AdminListener \/ GuestListener

Spec == Init /\ [][Next]_vars

\* The listeners keep running: every step of a request in flight and every
\* cleanup that has been asked for is eventually taken (each blocking call of
\* the code has a timeout).  Nobody is obliged to make a request.
FairSpec ==
    /\ Spec
    /\ WF_vars(Exchange \/ Status \/ Verification \/ Serve \/ Refuse)
    /\ \A g \in GrantIds : WF_vars(CleanupCheck(g) \/ CleanupRevoke(g))

-----------------------------------------------------------------------------
(* Properties *)

TypeOK ==
    /\ now \in Time
    /\ grantState \in [GrantIds -> {"unissued", "live", "removed"}]
    /\ grant \in [GrantIds -> GrantRec]
    /\ policy \in [Pages -> Policy]
    /\ sessions \in [Tokens -> SessionRec]
    /\ consumed \in SUBSET GrantIds
    /\ challenges \in [Tokens -> ChallengeRec]
    /\ lastId \in 0..MaxChallenges
    /\ verified \in [Tokens -> Time]
    /\ cleanup \in [GrantIds -> {"none", "asked", "checked"}]
    /\ req \in Request
    /\ minted \in [GrantIds -> Nat]
    /\ guesses \in [1..MaxChallenges -> Nat]
    /\ atHA \in [session: BOOLEAN, grant: BOOLEAN, verified: BOOLEAN]
    /\ touched \in BOOLEAN

\* "Revocation and policy changes committed while HA was queried fail closed"
\* (ha_broker.py 1016): an answer is given or an action sent only if, when Home
\* Assistant had answered, the session, its grant and (where the grant asks for
\* it) its verification were all still in force.  A revocation that commits
\* later than that may miss the request, but none that commits before.
EffectAuthorized ==
    req.pc = "effect" => atHA.session /\ atHA.grant /\ atHA.verified

\* The same for the published policy: unless the page has been republished since
\* Home Assistant answered, what the request is about to use is what the policy
\* says now.  A policy change during the Home Assistant call is noticed.
PolicyHonoured ==
    req.pc = "effect" /\ ~touched => SamePolicy

\* An action never reaches Home Assistant at or after the expiry of the grant it
\* was authorized by, nor, while its session exists, after its verification ran
\* out, however long the checks took (deadline of _guest_action).
ActionInTime ==
    [][Effect /\ req.op = "action" =>
          /\ now < grant[req.grant].expires
          /\ grant[req.grant].verify /\ sessions[req.token].st = "row"
                => now < verified[req.token]]_vars

\* A one-time invitation opens at most one session, ever: through restarts,
\* revocations and exchanges that were undone (consumed_bootstraps).
OneTimeOnce ==
    \A g \in GrantIds : grant[g].oneTime => minted[g] <= 1

\* No code is ever compared with more than MaxAttempts guesses, in whatever order
\* guesses, resends, expiry and restarts come (attempts in guest_challenges).
BoundedGuesses ==
    \A c \in 1..MaxChallenges : guesses[c] <= MaxAttempts

\* Authority is nested: a session never outlives its grant and a verification
\* never outlives its session (the min of verify_guest_challenge).
AuthorityNested ==
    \A t \in Tokens : sessions[t].st = "row" =>
        /\ sessions[t].expires <= grant[sessions[t].grant].expires
        /\ verified[t] <= sessions[t].expires

\* "Never delete a session for a grant that is still live" (ha_broker.py 475),
\* neither by a cleanup call nor by an exchange that is undone.
LiveSessionsKept ==
    [][\A t \in Tokens :
          sessions[t].st = "row" /\ CurrentGrant(sessions[t].page, sessions[t].grant)
             => sessions'[t] = sessions[t]]_vars

\* Without restarts and lost calls, a grant that was removed ends up with no
\* session, even if an exchange of its invitation was in flight: either the
\* cleanup call or the recheck of the exchange sees the other.
RemovedGrantsLoseSessions ==
    \A g \in GrantIds :
        grantState[g] = "removed" ~> [](\A t \in Tokens : ~OfGrant(t, grant[g].page, g))
-----------------------------------------------------------------------------
(* The inductive invariant behind the safety properties (GuestAccessProofs). *)

\* A request that has Home Assistant's answer.
Serving == req.op \in ServeOps /\ req.phase = 3

\* Which steps an operation goes through, and the bound on the codes it may issue.
OpInv ==
    /\ req.op = "bootstrap" <=> req.pc \in {"load", "mint", "recheck", "undo"}
    /\ req.pc = "context" => req.op \in {"challenge", "verify"}
    /\ req.pc \in {"issue", "email", "cancel"} => req.op = "challenge"
    /\ req.pc \in {"policy", "ha", "repolicy", "effect"} => req.op \in ServeOps
    /\ req.op \notin ServeOps \union {"challenge"} => req.phase = 1
    /\ req.phase = 2 => req.op = "view"
    /\ req.pc = "issue" => req.phase = 1
    /\ req.pc \in {"repolicy", "effect"} => req.phase = 3
    /\ req.op = "challenge" /\ req.phase = 1
         /\ req.pc \in {"session", "grant", "verified", "context", "issue"} => lastId < MaxChallenges

\* A grant that a session or a cleanup refers to has been issued, for the same page.
IssuedInv ==
    /\ \A g \in GrantIds : grantState[g] = "unissued" => minted[g] = 0 /\ cleanup[g] = "none"
    /\ \A t \in Tokens : sessions[t].st = "row" =>
          /\ grantState[sessions[t].grant] # "unissued"
          /\ grant[sessions[t].grant].page = sessions[t].page
    /\ \A t \in Tokens : sessions[t].st = "unused" => verified[t] = 0

\* So has the grant that a request has read.
ReadInv ==
    /\ req.pc \in {"mint", "recheck", "undo"} =>
          grantState[req.grant] # "unissued" /\ grant[req.grant].page = req.page
    /\ req.pc = "mint" => req.exp = grant[req.grant].expires
    /\ (req.phase # 1 \/ req.pc \in {"verified", "resume", "context", "issue", "email",
                                     "check", "policy", "ha", "repolicy", "effect"})
          => grantState[req.grant] # "unissued"

\* Sessions are revoked only for grants that are over.
RevokeInv ==
    /\ req.pc = "undo" /\ ~ReadErrors => ~CurrentGrant(req.page, req.grant)
    /\ \A g \in GrantIds : cleanup[g] # "none" => ~CurrentGrant(grant[g].page, g)

OneTimeInv ==
    \A g \in GrantIds : grant[g].oneTime /\ g \notin consumed => minted[g] = 0

\* Challenge ids are drawn in order, and a row counts the guesses at its code.
ChallengeInv ==
    /\ \A t \in Tokens : challenges[t].id <= lastId
    /\ \A t, u \in Tokens : t # u /\ challenges[t].id # 0 => challenges[t].id # challenges[u].id
    /\ \A t \in Tokens : challenges[t].id # 0 =>
          /\ guesses[challenges[t].id] = challenges[t].attempts
          /\ challenges[t].attempts <= MaxAttempts
    /\ \A c \in 1..MaxChallenges : c > lastId => guesses[c] = 0

\* While an answer is being prepared authority only shrinks: what is in force now
\* was in force when Home Assistant had answered.
ShrinkInv ==
    Serving =>
        /\ LiveSession(req.token, req.page, req.grant) => atHA.session
        /\ CurrentGrant(req.page, req.grant) => atHA.grant
        /\ (grant[req.grant].verify => Verified(req.token)) => atHA.verified

\* What the reads of the last status have established so far.
StatusInv ==
    /\ req.pc = "verified" => req.verify = grant[req.grant].verify
    /\ req.pc = "verified" => req.exp <= grant[req.grant].expires
    /\ Serving /\ req.pc \in {"grant", "verified"} => atHA.session
    /\ Serving /\ req.pc = "verified" => atHA.grant
    /\ Serving /\ req.pc = "repolicy" /\ req.op = "state" =>
          atHA.session /\ atHA.grant /\ atHA.verified
    /\ req.pc = "effect" /\ req.op = "action" =>
          /\ req.exp <= grant[req.grant].expires
          /\ grant[req.grant].verify /\ sessions[req.token].st = "row"
                => req.exp <= verified[req.token]

\* The policy has been compared, and has not been republished since.
PolicyInv ==
    Serving /\ ~touched /\ (\/ req.pc = "effect"
                            \/ req.op # "state" /\ req.pc \in {"session", "grant", "verified"})
        => SamePolicy

IInv ==
    /\ TypeOK
    /\ OpInv
    /\ IssuedInv
    /\ ReadInv
    /\ RevokeInv
    /\ AuthorityNested
    /\ OneTimeInv /\ OneTimeOnce
    /\ ChallengeInv /\ BoundedGuesses
    /\ ShrinkInv
    /\ StatusInv /\ EffectAuthorized
    /\ PolicyInv /\ PolicyHonoured
=============================================================================
