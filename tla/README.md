# Verification of Access Pages

TLA+ models of Access Pages for Home Assistant, with TLC runs on small instances and
TLAPS proofs for all of them. The models are about authority: who may use a page, until
when, and what has to happen when that ends, with every process, thread and file operation
that takes part in it. References of the form `file.py:line` are to the repository.

## The system

Access Pages lets the owner of a Home Assistant installation publish pages of controls to
guests. The App is a set of processes that trust each other as little as possible:

| Part | State it keeps | Operations | Talks to |
|---|---|---|---|
| Admin Gateway (`server.py`, `admin.py`, `access.py`, `actions.py`) | a lock per page; the handlers in flight; a cleanup thread | create, edit, delete pages; create and revoke grants; reset | page store, policy store, LayerV broker, HA broker |
| Page store (`pages.py`) | one JSON file per page with its grants; a `.revoking` marker per page | load, create, update, replace, remove and expire grants, revoke a page, recover | cleanup queue |
| Cleanup queue (`upstream_cleanup.py`) | SQLite rows | enqueue, drain, complete | LayerV broker |
| Policy publication (`policy.py`, `policy_store.py`) | a `.policy-pending` marker per page; the published copy of each page | prepare, publish, delete, retry | HTTP between the two processes |
| HA broker, guest listener (`ha_broker.py`) | the request in flight (the listener is serial) | exchange, resume, status, code request and check, state, view, camera, action | reads grants and policies; Home Assistant |
| HA broker, admin listener (`ha_broker.py`) | none | revoke the sessions of a grant | verification store |
| Verification store (`verification.py`) | five SQLite tables: sessions, consumed invitations, challenges, verifications | consume, issue, cancel, verify, revoke | - |
| LayerV broker (`layerv_broker.py`, `guest_resources.py`, `layerv.py`) | grant mappings, deferred revocations, resources, retirements, pending invitations, the Connector's enrollment and its processes | mint, queue and drain revocations, retire resources and orphans, enrol | LayerV, the Connector |
| Guest Service and page endpoints (`guest_service.py`, `cmd/guest-endpoint`) | one request | forward scoped guest routes with a deadline | HA broker |
| Rate limiters (`rate_limit.py`) | windows per key | allow | - |
| Activity store, guest events (`activity.py`, `internal.py`) | guests, actions, security events | register, record, mark revoked, delete | - |
| App runner (`homeassistant-app/app_runner.py`) | the registry of page identities and its history, the capabilities of the pages, the processes | start, seed policies, bring the endpoints up to date, reset, stop | all |
| E-mail, onboarding, ingress, diagnostics, themes, browser client | recipients' addresses; otherwise none that matters here | - | - |

What is hard here is not any one function. A guest's request passes through four processes
and reads files that the Gateway is rewriting; a revocation is a sequence of file
operations, any of which can be the last one before a power cut; publication and cleanup
are retried calls whose answers may be lost; and three kinds of lock (per page, per store,
per database) are held at different levels, not always together. What has to be true
all the same:

- a guest is served only on authority that is in force *after* Home Assistant has answered;
- a one-time invitation opens one session, a code admits a bounded number of guesses;
- no authority outlives the one it was derived from;
- what was revoked stays revoked, and its session and invitation are cleaned up;
- what was not revoked is not taken away;
- the policy guests are held to is the one the owner sees, or the difference is known and
  goes away;
- an invitation at LayerV is usable while its grant is in force, and otherwise there is a
  record that leads to its removal, whenever the broker is stopped;
- the Connector's one-time authorization is used once, and its owner is never stuck;
- a route to a page never leads to another page;
- what a guest is told about a command, and what is logged about it, is true.

## Modules

| Module | Models | Run |
|---|---|---|
| `GuestAccess` | the HA broker's two listeners, the verification store, grants and policies as they read them | `requests`, `cleanup`; proofs in `GuestAccessProofs` |
| `PolicyPublication` | publication of pages to the policy store, its markers, rollbacks and retries | `policy`; proofs in `PolicyIdentityProofs` |
| `PageGrants` | grants in the page files, both locks, revocation and its recovery, expiry, reset, the cleanup queue, the broker's deferred revocations | `grants`; proofs in `PageGrantsProofs` |
| `Invitations` | the LayerV broker: how an invitation comes into being and how it is got rid of | `invite_life`, `invite_withdrawn`; proofs in `InvitationsProofs` |
| `InvitationLife` | the abstract specification of an invitation, which `Invitations` implements | `invite_life` (`LifeSpec`); implementation proved in `InvitationsProofs` |
| `Enrollment` | the identity of the Connector: enrolment, its processes, its removal by a reset | `enrollment`; proofs in `PolicyIdentityProofs` |
| `Endpoints` | identities, capabilities and processes of the pages in the App runner | `endpoints`; proofs in `EndpointsProofs` |
| `ActionRequest` | an action on its way through endpoint, service, broker and Home Assistant, and its answer | `action`; proofs in `ActionRequestProofs` |
| `Activity` | the activity store, the handlers that keep it in step with the page, guest events | `activity`; proofs in `ActivityProofs` |
| `RateLimit` | the two limiters | `limits`; proofs in `RateLimitProofs` |
| `CleanupRound` | the loop of the Gateway's background thread and the errors that end it | `rounds` |
| `MC...` | constants, instances and symmetry for TLC | |

Each model has one action per step of the code that another process, thread or the clock
can fall into: a read of a file, a transaction, a call, a write. A definition that is
commented as a mutant is not part of the model: it is the plausible bug that a property is
tested against (`mutants` in `PROJECT.json`).

The modules meet where one's step is another's sequence of steps. `PageGrants` reports a
grant to a broker that either has retired it or has not; `Invitations` says what the broker
does with that report, with a Gateway that only asks, commits and ends. `CleanupRound` runs
as single steps what `PageGrants`, `PolicyPublication` and `Activity` take apart.
`GuestAccess` follows an action to its dispatch, `ActionRequest` the same action through
the other processes. A connection reset is part of `PageGrants` (the grants), `Invitations`
(the resources), `Enrollment` (the identity) and `Endpoints` (the pages' identities).

### GuestAccess

`req` is the request that the serial guest listener works on, with its program counter and
the values it has read; `sessions`, `consumed`, `challenges` (with `lastId`) and
`verified` are the tables of `verification.py`; `grantState`, `grant` and `policy` are what
the broker reads of the Gateway's and the policy store's files; `cleanup` is the admin
listener's revocation of a grant's sessions; `now` the clock. `minted`, `guesses`, `atHA`
and `touched` only record what happened.

A status check is three steps (session row, grant file, verification row) because it is
three reads; a view, state, camera or action request goes through status, policy, Home
Assistant, policy again and status again in the order of its handler (a state request asks
for the status first); an action carries the earliest expiry of the last status to its
dispatch. The exchange of an invitation reads the grant, commits the session, and reads the
grant again, undoing the session if it is gone. Refusals by rate limits, validation and the
8-second lifetime of a request may happen at any step (`Refuse`); file reads may fail
(`ReadErrors`); calls get lost and processes die (`Failures`). When any process dies
app_runner stops all of them, so `Crash` ends everything in flight.

An invitation secret is identified with its grant: ids and secrets are drawn together, and
a stored hash is never rewritten. A code is identified with its challenge.

### PolicyPublication

`local[p]` is the version of the page in the Gateway's file and `published[p]` that in the
policy store's, 0 if there is none; `pending` the marked pages; `op[p]` the operation that
holds the page's lock, with the version to put back. `late` holds calls that their caller
has given up and the policy store has not. `Begin` takes the lock, reads the page and
writes the marker; `WriteLocal` is the page store's write; `Apply` is the policy store's
handler; `Clear`, `Rollback` end the operation. `Restart` includes
`_seed_authoritative_policy`, which copies the pages before any process is started.
`LateCalls` says whether the policy store may carry out a call after the caller's timeout
of 10 seconds; the code permits it.

### PageGrants

`page[p]` and `marker[p]` are the two files of a page; what a reader sees (`Visible`) is
nothing while the marker exists. `op[p]` is the handler that holds the page's lock and
`sec` the use of the page store that holds the store's lock, file operation by file
operation: mark, enqueue each cleanup, cut the page, unlink the marker, drop the page.
`reset` is the connection reset, which lists the pages, takes their locks one by one, and
revokes whatever pages there are by then. Expiry (`Expire`) and recovery (`Recover`) use
the store without a page's lock. `queue` and `taken` are the Gateway's cleanup queue,
`calls` the direct report of a handler, `broker` the state of a grant in the broker:
not reported, queued, found not to be live, retired.

A grant is created under the page's lock, but its page is read and written by two uses of
the store; an edit reads the page, writes it, and writes it back if publication fails. The
expiry by the cleanup thread holds the page's lock and the one by a GET handler does not;
the model has only the latter, which can do more.

### Invitations and InvitationLife

`gateway[g]` is the grant as the Gateway has it, from the request over the broker's answer
to the commit and the end; `posted` are requests that wait for the broker's `STORE_LOCK`.
The broker's durable records are `phase` (tables `resources` and `retirements`),
`generation`, `mapping` (a file per grant), `journal` (table `mints`) and `revq` (table
`revocations`); `up` and `inv` are what LayerV has. `op` is the holder of `STORE_LOCK`:
minting goes through row, publication, journal, invitation, mapping and answer; the round
of the reconciliation thread through the revocations that are due, the orphans, the pools
of deleted pages, the retirements and the journal. A failure, or a stop of all processes,
may come at every step, and a failed call may or may not have had its effect at LayerV. A
restart may choose the other isolation mode; a reset turns every row into one to be
retired. Of the times, the model keeps the order that the code relies on: a revocation is
due 15 seconds after it was queued, a row is an orphan only after 300 seconds, by which
time the Gateway has settled the grant unless minting itself took that long (`slow`).
`notice` holds the grants that ended less than 15 seconds ago, `pulled` those of them whose
page was deleted or whose connection was reset; both only record what happened.

`InvitationLife` says what all this amounts to for a grant: it is asked for, may come into
force and ends, its invitation appears at most once and is withdrawn at most once, no grant
comes into force without a usable invitation, and none loses it while it is in force. The
refinement maps the six states of `gateway` to `want` (`Want`) and resource and invitation
at LayerV to `have` (`Have`); every step of the broker is a step of it, or none.

### Enrollment

Status row, wrapping key, two sealed files and a marker are written one after the other,
and removed by a reset in another order; `call` is the holder of the publisher's lock,
`stray` and `daemon` are processes that the broker has started. `Lose` is a file that is
gone, `RestartApp` a stop of everything, `Kill` the end of a broker that has not stopped
within 10 seconds. `logins` counts the logins since the owner last authorised one.
Where `PolicyPublication` has a definition of the same name, the one here is prefixed
(`EnrollmentSpec`, `EnrollmentTypeOK`), so that `PolicyIdentityProofs` can extend both.

### Endpoints

`registry`, `history`, `secrets` and `hashes` are the four files, `uid` and `token` what a
running endpoint was started with, `routes` what LayerV still leads to an address. A round
allocates, writes history, then registry, lists and loads the pages again, writes
capabilities, then their hashes, and starts and stops processes; the owner, the broker, a
dying endpoint, a stop and a reset come in between. `key` is the LayerV API key: a reset
removes it first, and without it the App does nothing but wait for its owner to connect it
(`Onboard`). An error ends the App with its reason as the runner's step (`Ended`); only
`Restart` leads on from there, and nothing makes it happen.

### ActionRequest

`front`, `service` and `step` are the steps of the endpoint, of a service thread and of the
serial broker; `late` holds the requests whose 8 seconds are over, which every process
looks up for itself. `mark` is the evidence of dispatch (`stages[10]`), which the service
lowers before it sends and the broker's reply raises. Home Assistant may carry out a
command after everyone has given up, or never answer. A reply may be lost (`reply` is
`"closed"`), be unusable, which the service answers with 503 (`ReceiveInvalid`), or break
off between its headers and its body, which the service takes for a denial, or for an
invalid request if the status was 200 (`ReceiveCut`); `cut` remembers those.

### Activity, RateLimit, CleanupRound

`Activity` has the page file as a set of grants, the three tables, and threads with or
without the page's lock; every transaction ends with a purge, and an event may be carried
out after its grant is gone. A handler that creates a grant, or takes an edit back, reads
the page (`copy`) and writes it later; a reset revokes a page that came after its listing
without the lock (`ResetLists`, `ResetRevokes`), and the expiry by a listing holds none
either, so that grants which were removed meanwhile are written back (`back`). What a purge leaves of the events (`Remaining`) is stated by
their indices, because nothing can be proved about `SelectSeq`; TLC checks that both are the
same (`RemainingSelects` in `MCActivity`, for up to four events). `RateLimit` has threads
that read the clock and then wait for the lock, so that calls are decided out of the order
of their times. `CleanupRound` has the stages of `retry_cleanup` and tells apart the errors
that its `except` names, which end the round, from the one that it does not, which ends the
thread.

## Runs

Twelve runs, all passing; every property has a mutant of the code that TLC finds to violate
it under the same configuration. The state counts are of distinct states.

| Run | Checks | Instance | Shows |
|---|---|---|---|
| `requests` | `TypeOK`, `EffectAuthorized`, `PolicyHonoured`, `BoundedGuesses`, `AuthorityNested`, `OneTimeOnce`, `ActionInTime` | one grant, two browsers, two codes, two policies; 2.3 million states up to symmetry | nothing is served or dispatched on authority or policy that had ended when Home Assistant answered; no code is guessed too often; authority never outlives its source; a one-time invitation opens one session |
| `cleanup` | `LiveSessionsKept`, `RemovedGrantsLoseSessions` | two grants, fairness, no failures; 134,000 states | cleanup and exchange race without leaving or losing a session |
| `policy` | `OnlyOverdueUnmarked`, `Converges` | one page, five edits, late calls, fairness; 23,000 states | a difference between page and policy is marked and goes away, except by a late call |
| `grants` | `RevokedStaysHidden`, `CleanupOwed`, `LiveNotRetired`, `OverIsRetired` | one page, one grant, all failures, fairness; 26,000 states | revocation is final, its cleanup is owed until done and done in the end, and nothing else is retired |
| `invite_life` | `LiveUsable`, `Traceable`, `LifeSpec` | two grants of one page, both isolation modes, two generations of the pool; 2.2 million states | no live invitation is withdrawn, none is without a record, and `Invitations` implements `InvitationLife` |
| `invite_withdrawn` | `WindowKept`, `Withdrawn`, `ConfirmedPoolsRetired` | one grant, both modes, with and without slow mints, fairness; 28,000 states | what is over is gone in the end, and not within 15 seconds of a revocation or expiry, unless the page is deleted or the connection reset |
| `enrollment` | `OneLogin`, `ChildrenStopped`, `Recovers` | the whole state space; 2,200 states | one login per authorization, no child left when the files go, and never stuck |
| `endpoints` | `RightPage`, `NoDuplicate`, `CapabilityCurrent`, `EndpointsConverge` | two pages with two or with one identity, one page with misread files, fairness of the runner; 1.5 million states | no route leads to another page; the registry never contradicts itself; every page has its endpoint where the App watches in the end |
| `action` | `Truthful`, `Evidence`, `Released` | two requests, one slot; 65,000 states | answers and summaries are true, also in retrospect, except for a reply that was cut off; nothing waits for ever |
| `activity` | `NotifiedOnce`, `HistoryOwned`, `EndedMoved`, `LiveRecordKept` | two grants, two threads, one fault, one record forgotten; 1.7 million states up to symmetry | one alert, no history without its record, no live guest out of sight |
| `limits` | `WindowBounded`, `RefusedWithCause`, `IntervalKept` | two keys, two threads, a table for one key (window) or for two (interval); 390,000 states up to symmetry | the limit holds in every window, nobody is refused without cause |
| `rounds` | `ExpiryHandledAlive`, `BacklogWorkedOff` | two pages, two errors, one bad read; 22,000 states | the work is done in the end, as long as the thread lives |

The modules state a type invariant each (`TypeOK`). It is checked for `GuestAccess` and
proved for the nine models with proofs; in the others it documents the variables.

### Why these bounds

*GuestAccess*: two browsers race each other and the owner on one grant; two codes give a
resend; the grant ends while there is still time to use it; the second grant of `cleanup`
shows that one cleanup does not touch the other. *PolicyPublication*: five versions give
create, edit, delete and create again with a failure in each, and a late call for a page
that has moved on; pages share nothing but the counter of versions. *PageGrants*: one page
may be created, deleted, created again and reset; for more pages and grants the safety
properties are proved. *Invitations*: two grants share a pool, or follow each other in its
next generation, or have resources of their own after a change of mode; the queue, the
journal and the scan of one grant meet the mint of the other. Liveness needs one grant and
its page, since rows are dealt with one by one. *Endpoints*: one identity for two pages is
the exhausted range; with two, a removed page's identity could be given away. *Activity*:
two threads are a handler with a copy of the page and one without the lock; limits of one
action and one event are reached and passed. *RateLimit*: a table for one key is full with two;
the clock runs for more than two windows. *CleanupRound*: an error before and after each
stage, and one that kills.

Where a question needs several instances, one run looks at them together, by a variable
that is chosen initially and never changes: `inst` in `Endpoints`, `slow` in
`Invitations`, `kind` in `RateLimit`.

Symmetry is used in runs without liveness properties only. `CHECK_DEADLOCK FALSE` stands
where the environment may end: no more requests, records or ticks of the clock.

### Fairness

*GuestAccess*: a request in flight goes on (every blocking call of the code has a timeout)
and a session cleanup that was asked for is carried out; nobody is obliged to make a
request. *PolicyPublication* and *PageGrants*: handlers and threads go on, the cleanup
threads come back every few seconds, and a step that is tried again and again succeeds some
time (strong fairness of the successful outcome). *Invitations*, *Enrollment* and
*Endpoints*: failures stop some time for long enough (`Calm`), after which the lock holder,
the thread and the runner go on; in `Invitations` the Gateway's queue keeps reporting, in
`Enrollment` the owner resets when told to. In `Endpoints` only the runner's own steps are
fair: `main` returns when the App has ended and `config.yaml` names no watchdog, so nothing
need start it again, and nobody need connect it after a reset. These are assumptions about disks, networks and
owners; without them nothing can be promised. *ActionRequest*: the clock and every process
go on by themselves; nothing is assumed of Home Assistant. *CleanupRound*: the thread runs;
the number of errors is bounded, restarts need not come.

## Where the code departs from what it says

Some properties hold with an exception, which they name. Each was found as a
counterexample to the property without it.

| Property | Exception | Where |
|---|---|---|
| `OnlyOverdueUnmarked`, `Converges` | A publication that timed out at the Gateway, was rolled back and retried, and is then carried out. Guests are held to a page that the owner does not have, without a marker, until the App restarts: requests carry no version. | `policy.py:89` |
| `RevokedStaysHidden`, `LiveNotRetired`, `OverIsRetired` | A page that is created after a reset has listed the pages is revoked without its lock; an edit whose publication fails, or a commit, writes the revoked grant back. | `server.py:1175`, `server.py:1179` |
| `LiveSessionsKept` | Page files that can be read. A read that fails looks like a removed grant, and the recheck of an exchange then revokes the sessions of a live one, which the comment at `ha_broker.py:475` forbids. | `ha_broker.py:836`, `ha_broker.py:890` |
| `LiveRecordKept`, `NotifiedOnce` | The same reset, or a listing, removes a grant without the page's lock between the read and the write of a commit or of an edit that is taken back: the grant is in force again, and its record is ended, can be deleted, and is alerted of anew. | `server.py:943`, `server.py:1179`, `server.py:1186` |
| `Truthful` | A reply that breaks off after its headers. Without the body, a 200 does not parse and is answered with 400 "Invalid guest request", and an error loses its code: a command that was carried out can be told as denied. | `guest_service.py:582`, `guest_service.py:249`, `ha_broker.py:531` |
| `WindowKept` | A deleted page: its grants end, and the next round retires its pool with their invitations, although `homeassistant-app/CHANGELOG.md:361` speaks of a 15-second minimum. | `guest_resources.py:834`, `layerv_broker.py:479` |
| `WindowKept` | A connection reset, which marks every resource for retirement at once. | `app_runner.py:928` |
| `WindowKept` | A mint that took longer than the grace of the scan: the row that the scan queued is not replaced (`INSERT OR IGNORE`) and is due already when the grant ends. | `layerv_broker.py:315` |
| `Withdrawn` | Fewer live resources than the 50 rows that a scan reads: with 50 of them in front, an interrupted allocation is never looked at. | `guest_resources.py:806` |
| `ConfirmedPoolsRetired` | A pool whose publication was never confirmed: neither the deletion of its page nor the orphan scan sees it. | `guest_resources.py:838` |
| `ChildrenStopped` | A broker that was killed. Its `close()` waits for the lock of a command before it stops that command, so a long one outlives it. `RightPage` takes a reset to end all routes, and so has the same exception. | `guest_resources.py:441`, `app_runner.py:1075` |
| `EndpointsConverge` | An App that has ended: a page was deleted between listing and loading, a child or an endpoint exited, the set-up failed, or no UID is left. It stays down until its owner starts it. After a reset it waits for its owner to connect it. | `app_runner.py:855`, `app_runner.py:1213`, `app_runner.py:318`, `app_runner.py:1106` |
| `CapabilityCurrent` | A capabilities file that could not be read once is taken for an empty one: endpoints that are running keep a capability that the HA broker no longer accepts. | `app_runner.py:816` |
| `IntervalKept` | More keys in use than the table has entries (`Roomy`): the oldest entry goes although its interval is not over. | `rate_limit.py:59` |
| `EndedMoved` | A failed transaction or a stop between page file and record, or a listing that registers a guest whose record was just deleted: nothing compares them later. Nothing is said of behaviours in which any record was deleted or has run out. | `server.py:1022`, `admin.py:86` |
| `ExpiryHandledAlive`, `BacklogWorkedOff` | A recipients' file that cannot be read raises `EmailConfigError`, which the loop does not catch: the cleanup thread is gone until the App restarts. | `server.py:1438`, `server.py:1442` |

Five hazards have no property, and `PROJECT.json` says why: a session cleanup call that is
lost is not repeated (`server.py:226`; the rows that stay give no access, which is what
`EffectAuthorized` shows); a page file that cannot be read for once (`ha_broker.py:836`); a
grant that is created under the marker of an interrupted revocation (`server.py:945`); a scan
whose 50 rows are all taken (`guest_resources.py:806`); and the death of the cleanup thread
(`server.py:1438`). Others are excepted by the property that names them, which then confines
them: it shows that nothing else has the effect. Their notes say so.

## Proofs

Nine of the models have proofs, in eight modules. For every value of the constants that
satisfies the assumptions stated in the module, each proves that the invariant `IInv` of
the model is inductive (`Inductive`; `Invariance` in `PageGrantsProofs`,
`EnrollmentInductive` for `Enrollment`), and from it the type invariant (`TypeCorrect`,
`EnrollmentTypes`; for `PolicyPublication` it is part of `Inductive`) and the safety
properties of the runs:

| Module | Theorems | Properties |
|---|---|---|
| `GuestAccessProofs` | `EffectsAuthorized`, `PoliciesHonoured`, `OneTimeInvitations`, `GuessesBounded`, `AuthorityIsNested`, `ActionsInTime`; `LiveSessionsAreKept` assuming `~ReadErrors` | the safety properties of `requests`; `LiveSessionsKept` |
| `PolicyIdentityProofs` | `OnlyOverdue`; `DivergenceMarked` assuming `~LateCalls`; `OneLoginPerAuthorization`, `NoChildLeft` | `OnlyOverdueUnmarked`; `OneLogin`, `ChildrenStopped` |
| `PageGrantsProofs` | `RevocationIsFinal`, `CleanupIsOwed`, `LiveInvitationsStay` | `RevokedStaysHidden`, `CleanupOwed`, `LiveNotRetired` |
| `InvitationsProofs` | `LiveStaysUsable`, `NothingLost`, `WindowIsKept`, `BrokerImplementsLife`; `BrokerKeepsPromise`, `WithdrawnForGood` | `LiveUsable`, `Traceable`, `WindowKept`, `LifeSpec`; `Promise` and `NothingReturns` of `InvitationLife` |
| `EndpointsProofs` | `RouteLeadsToItsPage`, `FilesAgree`, `BrokerKnowsEndpoint`; `OwnersAreKept` | `RightPage`, `NoDuplicate`, `CapabilityCurrent`; `OwnerKept` |
| `ActionRequestProofs` | `AnswerTruthful`, `LogHasEvidence` | `Truthful`, `Evidence` |
| `ActivityProofs` | `OneAlertPerGuest`, `EveryRowOwned`, `EndedGuestsMoved`, `LiveRecordsKept` | `NotifiedOnce`, `HistoryOwned`, `EndedMoved`, `LiveRecordKept` |
| `RateLimitProofs` | `WindowIsBounded`, `RefusalsHaveCause`, `IntervalIsKept` | `WindowBounded`, `RefusedWithCause`, `IntervalKept` |

Failures, crashes and read errors are part of all of them; where a property has an
exception (see above), so has the theorem. No theorem uses fairness.

The assumptions are that bounds are natural numbers and that values such as `None` differ
from the others; for `RateLimit` also that a call waits for the lock for less than a window
or interval, and that there are finitely many keys.

Why `IInv` is needed in `GuestAccess`: that authority was in force when Home Assistant
answered is established by reads made *after* the answer. The argument is that authority
only shrinks while a request is being served (`ShrinkInv`: a session, grant or verification
that is in force now was in force then, since a token is never drawn twice, a removed grant
never returns, and a verification is only written by the serial listener itself), so each
read that succeeds proves something about the past (`StatusInv`). The bound on guesses
needs that the challenges have distinct ids and that a row counts the guesses at its code
(`ChallengeInv`); one-time use needs that the marker of a consumed invitation is written
with the session and never removed (`OneTimeInv`); that no live session is revoked needs
that a grant which was seen to be gone never returns (`RevokeInv`).

In `PolicyPublication` the invariant says that an operation in flight has its page marked
and that, once the policy store has answered, both copies agree unless a late call may
come in between (`OpInv`, `LateInv`).

In `PageGrants` the difficulty is the copies of a page that handlers have read and will
write back. `PrevInv` says of such a copy that it has all that is visible, nothing that was
revoked, and beyond what is visible only what has expired. That it is preserved needs that
no handler with a copy is there while the store revokes its page (`OpInv`, `HolderInv`: the
lock is held by the revoking handler or by the reset, or else the page becomes one of
`unlocked`), and that a revocation on one page cannot touch what a handler of another page
has read (`HomeInv`: pages have no grant in common). A commit also adds a grant that nobody
else has heard of yet (`KnownInv`). That cleanup is owed follows from what a use of the
store has done by each of its steps (`SecInv`): what it is about to cut is queued already.

In `Invitations` the broker decides about a grant by what it reads of the Gateway's file,
and acts later. `PromiseInv` says what is true from the broker's answer until the Gateway
gives up or ends the grant: the mapping names the resource that the invitation is on, and
that one is confirmed. The rest is needed to keep it: the holder of the lock who mints has
answered nobody yet (`MintInv`), the one who withdraws has a grant, or a resource, that no
promise hangs on (`WithdrawInv`), and the records of a grant, which are written one by one,
never disagree about the place of its invitation (`PlaceInv`, `RowInv`), so that what the
broker removes is what it looked at. `Traceable` is inductive together with these. The window
after the end of a grant prolongs the promise (`Kept`): the same parts say that nobody
withdraws its invitation, not even with the resource, until the 15 seconds are over, the page
is deleted or the connection reset. It also needs that a revocation is queued only after its
grant has ended (`WindowInv`), which fails after a slow mint.

`BrokerImplementsLife` is proved from the same invariant. `want` of a grant is computed
from `gateway`, `have` from where its invitation is and whether that resource is up. An
initial state maps to the one where nothing is asked for. Of the steps, few change the
image: the Gateway's map to asking, to coming into force (possible because `PromiseInv`
gives a usable invitation) and to ending; the creation of the invitation to its appearance
(possible once, by `PlaceInv` and `MintInv`); dropping it, or retiring a resource, to its
withdrawal. A resource may carry the invitations of several grants, so retiring it is a
withdrawal of all of them at once, of which `WithdrawInv` says that none is in force. All
other steps, among them every write of a record and every failure, are stuttering steps.
`BrokerKeepsPromise` and `WithdrawnForGood` are then proved of `InvitationLife` alone
(`LifePromise`, `LifeEffect`) and hold of the broker because it implements it.

In `Enrollment`, `LoginInv` says that no login has been made while the status still permits
to begin an enrolment, and that the call which is about to log in has made that status
durable before; `ChildInv` that only a broker that was killed leaves processes behind.

In `Endpoints` everything rests on who owns a UID (`Owns`: the registry or the history says
so). `OwnerInv` says that there is one owner and that the two files do not contradict each
other; `EntryInv` that what a round is about to write gives nobody's UID away and forgets no
owner that the history does not have by then, which is where the order of the two writes
matters; `UsedInv` that whatever runs or is published has a UID of its page, and that a
reset forgets the owners after the routes, and those after the key. `OwnersAreKept` says the same of every step: only
the reset takes a UID away from its page. `SecretInv` follows a capability from its file
over the hash to the process.

In `ActionRequest`, what an answer says about the past and the future of a command is
turned into the position of the request in the pipeline: it was sent to the broker at most
once (`PipeInv`), Home Assistant gets it in the broker's last step only (`CommandInv`), and
every mark or reply that says "not dispatched" is given when the broker will not serve the
request any more (`MarkInv`, `ReplyInv`, `Never`), so that it stays true (`ToldInv`); a
denial out of a reply that was cut off is the one that says nothing (`cut`).

In `Activity`, `JobInv` says for whom a thread may still be at work: those that end records
have grants that were removed, and the removal of a page's records holds the lock under which
grants are created. `CopyInv` says what a handler may write back: while it holds its copy of
the page, grants can only go, and one that was removed and is in the page again came back in
that way (`back`). So a record that is ended belongs to a grant that was removed
(`RecordInv`), and what was seen of a grant that was always in the page stays seen, which
makes its first visit happen once (`AlertInv`). `MoveInv` says that what is over has been marked or is the
work of a thread. `HistoryOwned` needs only what a deletion leaves of the rows
(`RemainingPart`).

In `RateLimit` the table and the history of allowed calls are two sequences, and the
difficulty is that calls come to the lock in another order than that of their times.
`Tracks` says that the entry of a key holds the times of its last allowed calls, each not
earlier than the call by more than the wait, and that the calls it does not hold have left
the window. `Spaced` is `WindowBounded` in the form that is inductive: of any `Limit` + 1
successive calls the first had left the window when the last came, up to the wait. An
allowed call extends both, because what is popped from the front is too old and fewer than
`Limit` remain (`PoppedIsSuffix`, `TracksAppend`, `SpacedAppend`). A refusal has its cause
because what remains was allowed within the window (`KeptIsRecent`, `KeptCounts`). For the
intervals, `LastKept` says that a key which is missing from the table was not used within
the interval. A full table drops its oldest entry even for a key that has one; with no more
keys than entries that one is at least an interval old (`EvictsOld`).

The proofs are by action: lemmas say which variables a group of actions writes and how,
one lemma per part of the invariant shows that it is preserved, and the theorems combine
them.

Only model-checked:

- the liveness properties (`RemovedGrantsLoseSessions`, `Converges`, `OverIsRetired`,
  `Withdrawn`, `ConfirmedPoolsRetired`, `Recovers`, `EndpointsConverge`, `Released`,
  `ExpiryHandledAlive`, `BacklogWorkedOff`): TLAPS does not prove them;
- that `Remaining` selects as `SelectSeq` does, which is an induction over the sequence. The
  theorems use only that it is a part of the events without those of the deleted records.

## Not modelled

Formatting and validation of pages, entities and parameters; discovery and normalisation of
Home Assistant's data (`ha.py`); what LayerV's answers look like (`layerv.py` beyond its
outcomes) and the parsing of the Connector's output; e-mail (a delivery is one of two
outcomes); diagnostics, audit and logging; onboarding beyond its outcome and the ingress proxy; options,
certificates, users and permissions set up before the processes start; the browser client.
They keep no state that the properties are about, or are I/O. `PROJECT.json` lists every
component with its status.

## What could follow

1. A shorter account of the invariant of `Invitations`, where parts of `PlaceInv` and
   `MintInv` overlap.
2. Runs of their own for `OwnerKept`, `Promise` and `NothingReturns`, which are proved and
   were checked on the instances of `endpoints` and `invite_life`.
