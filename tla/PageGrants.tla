----------------------------- MODULE PageGrants -----------------------------
(***************************************************************************)
(* The life of an access grant in the admin Gateway: from the page file it *)
(* is committed to, through its revocation, to the retirement of its       *)
(* invitation by the LayerV broker (server.py, admin.py, pages.py,         *)
(* upstream_cleanup.py; drain_revocations of layerv_broker.py).            *)
(*                                                                         *)
(* Two locks are held at different levels.  A handler holds the            *)
(* page_action_lock of its page (op[p]) through several calls of the page  *)
(* store; each call holds the store's own lock (sec) through several file  *)
(* operations.  The expiry of grants, the recovery of an interrupted       *)
(* revocation and a connection reset use the store without, or with only   *)
(* some of, the page locks; the cleanup queue and the broker use neither.  *)
(* Any file operation may fail, and the App may be stopped, at any step.   *)
(***************************************************************************)
EXTENDS Naturals

CONSTANTS
    Pages,     \* page ids
    Grants,    \* grant ids; each is drawn once
    Failures   \* may a file operation or a call fail, and the App be stopped

ASSUME FailuresAssumption == Failures \in BOOLEAN
ASSUME PagesAssumption == Pages # {}

VARIABLES
    page,      \* [Pages -> PageFile]: <page>.json
    marker,    \* [Pages -> PageFile]: <page>.revoking
    queue,     \* grants in the Gateway's cleanup queue
    broker,    \* [Grants -> {"none", "row", "dead", "retired"}]: the broker's queue
    op,        \* [Pages -> Operation]: the handler that holds the page's lock
    sec,       \* the use of the page store that holds the store's lock
    reset,     \* the connection reset
    calls,     \* grants a handler is about to report to the broker itself
    taken,     \* rows of the cleanup queue accepted by the broker, not yet removed
    used,      \* grants that were drawn
    expired,   \* grants whose time is over
    up,        \* has the Gateway finished its recovery at start
    \* History variables: no action reads them.
    revoked,   \* grants that a revocation has hidden
    seen,      \* grants that guests could use at some time
    unlocked   \* pages a reset revoked without holding their lock

files == <<page, marker, queue, broker>>
threads == <<op, sec, reset, calls, taken>>
clock == <<used, expired, up>>
history == <<revoked, seen, unlocked>>
vars == <<files, threads, clock, history>>

PageFile == [there: BOOLEAN, grants: SUBSET Grants]
NoFile == [there |-> FALSE, grants |-> {}]
File(gs) == [there |-> TRUE, grants |-> gs]

Kinds == {"none", "new", "grant", "edit", "revoke", "revokeAll", "delete"}
OpPCs == {"idle", "mint", "load", "commit", "update", "publish", "restore", "start", "section"}
\* prev: the grants the handler has read: to write back, or to report as revoked
Operation == [pc: OpPCs, kind: Kinds, grants: SUBSET Grants, prev: SUBSET Grants]
Free == [pc |-> "idle", kind |-> "none", grants |-> {}, prev |-> {}]

\* out: the grants to be cut from the page; all: the whole page is being revoked
Users == {"op", "thread", "reset"}
SecPCs == {"free", "mark", "enqueue", "unlink", "drop", "next"}
Section(p, pc, by, out, all) ==
    [pc |-> pc, page |-> p, by |-> by, out |-> out, todo |-> out, all |-> all]
SectionRec == [pc: SecPCs, page: Pages, by: Users, out: SUBSET Grants,
               todo: SUBSET Grants, all: BOOLEAN]
NoSection == Section(CHOOSE p \in Pages : TRUE, "free", "thread", {}, FALSE)

NoReset == [pc |-> "idle", todo |-> {}, held |-> {}, grants |-> {}]
ResetRec == [pc: {"idle", "lock", "section"}, todo: SUBSET Pages, held: SUBSET Pages,
             grants: SUBSET Grants]

-----------------------------------------------------------------------------
\* What PageStore.load returns, to the Gateway and to the brokers.
Visible(p) == IF marker[p].there THEN {} ELSE page[p].grants
Live(g) == \E p \in Pages : g \in Visible(p)

StoreFree == sec.pc = "free"
\* Mutant: a reset holds no locks.
LockFreeDuringReset(p) == up /\ op[p].pc = "idle"
LockFree(p) == up /\ op[p].pc = "idle" /\ p \notin reset.held
Goto(p, pc) == op' = [op EXCEPT ![p].pc = pc]
EndOp(p) == op' = [op EXCEPT ![p] = Free]
Write(p, gs) == page' = [page EXCEPT ![p] = File(gs)]

\* A handler takes the lock of p and loads the page.
Take(p, pc, kind, gs) ==
    /\ LockFree(p) /\ StoreFree
    /\ page[p].there
    /\ op' = [op EXCEPT ![p] = [pc |-> pc, kind |-> kind, grants |-> gs, prev |-> Visible(p)]]

-----------------------------------------------------------------------------
(* Pages and their edits: what they do to the grants *)

\* POST /api/admin/pages: the page is written and then published.
NewPage(p) ==
    /\ LockFree(p) /\ StoreFree
    /\ ~page[p].there
    /\ Write(p, {})
    /\ op' = [op EXCEPT ![p] = [pc |-> "publish", kind |-> "new", grants |-> {}, prev |-> {}]]
    /\ UNCHANGED <<marker, queue, broker, sec, reset, calls, taken, clock, history>>

\* PUT: the page is loaded, so that it can be put back.
Edit(p) ==
    /\ Take(p, "update", "edit", {})
    /\ UNCHANGED <<files, sec, reset, calls, taken, clock, history>>

\* PageStore.update keeps the grants that are visible to it.
Update(p) ==
    /\ op[p].pc = "update" /\ StoreFree
    /\ Write(p, Visible(p))
    /\ Goto(p, "publish")
    /\ UNCHANGED <<marker, queue, broker, sec, reset, calls, taken, clock, history>>

Published(p) ==
    /\ op[p].pc = "publish"
    /\ EndOp(p)
    /\ UNCHANGED <<files, sec, reset, calls, taken, clock, history>>

\* PolicyPublishError: a new page is deleted, an old one put back.
PublishFails(p) ==
    /\ Failures
    /\ op[p].pc = "publish"
    /\ Goto(p, IF op[p].kind = "new" THEN "start" ELSE "restore")
    /\ UNCHANGED <<files, sec, reset, calls, taken, clock, history>>

Restore(p) ==
    /\ op[p].pc = "restore" /\ StoreFree
    /\ Write(p, op[p].prev)
    /\ EndOp(p)
    /\ UNCHANGED <<marker, queue, broker, sec, reset, calls, taken, clock, history>>

-----------------------------------------------------------------------------
(* _create_qurl: the page's lock is held throughout *)

Create(p, g) ==
    /\ g \notin used
    /\ Take(p, "mint", "grant", {g})
    /\ used' = used \union {g}
    /\ UNCHANGED <<files, sec, reset, calls, taken, expired, up, history>>

\* The LayerV broker has made the invitation.
Minted(p) ==
    /\ op[p].pc = "mint"
    /\ Goto(p, "load")
    /\ UNCHANGED <<files, sec, reset, calls, taken, clock, history>>

\* "Reload before committing so a stale page snapshot can never restore revoked
\* grants": the page is read again, and written by another call of the store.
Reload(p) ==
    /\ op[p].pc = "load" /\ StoreFree
    /\ op' = [op EXCEPT ![p] = [pc |-> "commit", kind |-> op[p].kind,
                                grants |-> op[p].grants, prev |-> Visible(p)]]
    /\ UNCHANGED <<files, sec, reset, calls, taken, clock, history>>

Commit(p) ==
    /\ op[p].pc = "commit" /\ StoreFree
    /\ Write(p, op[p].prev \union op[p].grants)
    /\ seen' = IF marker[p].there THEN seen ELSE seen \union op[p].grants
    /\ EndOp(p)
    /\ UNCHANGED <<marker, queue, broker, sec, reset, calls, taken, clock, revoked, unlocked>>

\* The call or the file operation a handler is at fails: it ends, and says so.
OpFails(p) ==
    /\ Failures
    /\ op[p].pc \in {"mint", "load", "commit", "update", "restore", "start"}
    /\ EndOp(p)
    /\ UNCHANGED <<files, sec, reset, calls, taken, clock, history>>

-----------------------------------------------------------------------------
(* Revocation by a handler *)

\* DELETE of one grant, of all grants of a page, and of the page.
Revoke(p, g) ==
    /\ g \in Visible(p)
    /\ Take(p, "start", "revoke", {g})
    /\ UNCHANGED <<files, sec, reset, calls, taken, clock, history>>

RevokePage(p, kind) ==
    /\ Take(p, "start", kind, {})
    /\ UNCHANGED <<files, sec, reset, calls, taken, clock, history>>

\* The grants a handler reports to the broker when it is done.
Reported(p) ==
    CASE op[p].kind = "revoke" -> op[p].grants
      [] op[p].kind \in {"revokeAll", "delete"} -> op[p].prev
      [] OTHER -> {}

\* remove_access_grant: there may be nothing left to remove.
StartRemove(p) ==
    /\ op[p].pc = "start" /\ op[p].kind = "revoke" /\ StoreFree
    /\ IF op[p].grants \subseteq Visible(p)
       THEN /\ Goto(p, "section")
            /\ sec' = Section(p, "enqueue", "op", op[p].grants, FALSE)
       ELSE EndOp(p) /\ UNCHANGED sec
    /\ UNCHANGED <<files, reset, calls, taken, clock, history>>

\* Where revoke_page_access_grants begins: it finishes an interrupted revocation,
\* after which no grant is left, or marks the page, if it has any grant.
Wipe(p, by, otherwise) ==
    IF marker[p].there THEN Section(p, "enqueue", by, marker[p].grants, TRUE)
    ELSE Section(p, IF page[p].grants # {} THEN "mark" ELSE otherwise, by, page[p].grants, TRUE)

\* revoke_page_access_grants, or delete, which begins with it.
StartWipe(p) ==
    /\ op[p].pc = "start" /\ op[p].kind # "revoke" /\ StoreFree
    /\ IF op[p].kind = "revokeAll" /\ ~marker[p].there /\ page[p].grants = {}
       THEN EndOp(p) /\ UNCHANGED sec
       ELSE Goto(p, "section") /\ sec' = Wipe(p, "op", "drop")
    /\ UNCHANGED <<files, reset, calls, taken, clock, history>>

-----------------------------------------------------------------------------
(* The steps of a use of the page store that writes more than one file *)

\* The store's lock is released; a handler goes on to report what it revoked, or
\* what it found expired, a reset to its next page.
EndSection(p) ==
    CASE sec.by = "op" -> /\ sec' = NoSection
                          /\ EndOp(p)
                          /\ calls' = calls \union Reported(p)
      [] sec.by = "thread" -> /\ sec' = NoSection
                              /\ calls' = IF sec.all THEN calls ELSE calls \union sec.out
                              /\ UNCHANGED op
      [] sec.by = "reset" -> /\ sec' = [sec EXCEPT !.pc = "next"]
                             /\ UNCHANGED <<op, calls>>

\* "Durably mask local access before queueing each remote cleanup."
Mark(p) ==
    /\ sec.pc = "mark" /\ sec.page = p
    /\ marker' = [marker EXCEPT ![p] = File(sec.out)]
    /\ sec' = [sec EXCEPT !.pc = "enqueue"]
    /\ revoked' = revoked \union sec.out
    /\ unlocked' = IF sec.by = "reset" /\ p \notin reset.held THEN unlocked \union {p}
                   ELSE unlocked
    /\ UNCHANGED <<page, queue, broker, op, reset, calls, taken, clock, seen>>

\* CleanupQueue.enqueue, one transaction for each grant.
Enqueue(g) ==
    /\ sec.pc = "enqueue"
    /\ g \in sec.todo
    /\ queue' = queue \union {g}
    /\ sec' = [sec EXCEPT !.todo = @ \ {g}]
    /\ UNCHANGED <<page, marker, broker, op, reset, calls, taken, clock, history>>

\* The page is written without the grants.
Cut(p) ==
    /\ sec.pc = "enqueue" /\ sec.todo = {} /\ sec.page = p
    /\ Write(p, IF sec.all THEN {} ELSE page[p].grants \ sec.out)
    /\ IF sec.all THEN sec' = [sec EXCEPT !.pc = "unlink"] /\ UNCHANGED <<op, calls>>
       ELSE EndSection(p)
    /\ revoked' = IF sec.by = "op" THEN revoked \union sec.out ELSE revoked
    /\ UNCHANGED <<marker, queue, broker, reset, taken, clock, seen, unlocked>>

Unlink(p) ==
    /\ sec.pc = "unlink" /\ sec.page = p
    /\ marker' = [marker EXCEPT ![p] = NoFile]
    /\ IF sec.by = "op" /\ op[p].kind \in {"new", "delete"}
       THEN sec' = [sec EXCEPT !.pc = "drop"] /\ UNCHANGED <<op, calls>>
       ELSE EndSection(p)
    /\ UNCHANGED <<page, queue, broker, reset, taken, clock, history>>

Drop(p) ==
    /\ sec.pc = "drop" /\ sec.page = p
    /\ page' = [page EXCEPT ![p] = NoFile]
    /\ EndSection(p)
    /\ UNCHANGED <<marker, queue, broker, reset, taken, clock, history>>

\* A file operation or a transaction fails: whoever is using the store gives up.
SectionFails(p) ==
    /\ Failures
    /\ sec.pc # "free" /\ sec.page = p
    /\ sec' = NoSection
    /\ op' = IF sec.by = "op" THEN [op EXCEPT ![p] = Free] ELSE op
    /\ reset' = IF sec.by = "reset" THEN NoReset ELSE reset
    /\ UNCHANGED <<files, calls, taken, clock, history>>

-----------------------------------------------------------------------------
(* Uses of the store that do not hold the page's lock *)

Elapse(g) ==
    /\ g \in used \ expired
    /\ expired' = expired \union {g}
    /\ UNCHANGED <<files, threads, used, up, history>>

\* expire_access_grants, from the cleanup thread or a GET of the admin pages.
Expire(p) ==
    /\ up /\ StoreFree
    /\ Visible(p) \intersect expired # {}
    /\ sec' = Section(p, "enqueue", "thread", Visible(p) \intersect expired, FALSE)
    /\ UNCHANGED <<files, op, reset, calls, taken, clock, history>>

\* Mutant: the grants of an interrupted revocation are cut, but not queued.
RecoverUnqueued(p) ==
    /\ StoreFree
    /\ marker[p].there
    /\ sec' = [Wipe(p, "thread", "drop") EXCEPT !.todo = {}]
    /\ UNCHANGED <<files, op, reset, calls, taken, clock, history>>

\* recover_pending_revocations, at start and every 5 seconds.
Recover(p) ==
    /\ StoreFree
    /\ marker[p].there
    /\ sec' = Wipe(p, "thread", "drop")
    /\ UNCHANGED <<files, op, reset, calls, taken, clock, history>>

\* _reset_layer_v_connection: the pages are listed, their locks taken one by one,
\* and then every page there is at that time is revoked in one use of the store.
ResetList ==
    /\ up /\ StoreFree
    /\ reset.pc = "idle"
    /\ reset' = [pc |-> "lock", todo |-> {p \in Pages : page[p].there}, held |-> {}, grants |-> {}]
    /\ UNCHANGED <<files, op, sec, calls, taken, clock, history>>

ResetLock(p) ==
    /\ reset.pc = "lock"
    /\ p \in reset.todo
    /\ LockFree(p)
    /\ reset' = [reset EXCEPT !.todo = @ \ {p}, !.held = @ \union {p}]
    /\ UNCHANGED <<files, op, sec, calls, taken, clock, history>>

ResetRevoke ==
    /\ reset.pc = "lock" /\ reset.todo = {}
    /\ StoreFree
    /\ reset' = [reset EXCEPT !.pc = "section"]
    /\ sec' = Section(NoSection.page, "next", "reset", {}, TRUE)
    /\ UNCHANGED <<files, op, calls, taken, clock, history>>

\* Interrupted revocations first, then the pages that have grants.
ResetNext(p) ==
    /\ sec.pc = "next"
    /\ \/ marker[p].there
       \/ page[p].grants # {} /\ \A q \in Pages : ~marker[q].there
    /\ sec' = Wipe(p, "reset", "next")
    /\ reset' = [reset EXCEPT !.grants = @ \union Visible(p)]
    /\ UNCHANGED <<files, op, calls, taken, clock, history>>

ResetDone ==
    /\ sec.pc = "next"
    /\ \A p \in Pages : ~marker[p].there /\ page[p].grants = {}
    /\ sec' = NoSection
    /\ calls' = calls \union reset.grants
    /\ reset' = NoReset
    /\ UNCHANGED <<files, op, taken, clock, history>>

-----------------------------------------------------------------------------
(* Handing over to the LayerV broker, and the broker's own queue *)

Accept(g) == broker' = [broker EXCEPT ![g] = IF @ = "none" THEN "row" ELSE @]

\* The handler's own call (queue_revocation, delete_qurl), after the locks are
\* released; if it fails, the cleanup queue still has the grant.
Report(g) ==
    /\ g \in calls
    /\ Accept(g)
    /\ calls' = calls \ {g}
    /\ UNCHANGED <<page, marker, queue, op, sec, reset, taken, clock, history>>

ReportFails(g) ==
    /\ Failures
    /\ g \in calls
    /\ calls' = calls \ {g}
    /\ UNCHANGED <<files, op, sec, reset, taken, clock, history>>

\* CleanupQueue.drain: the broker accepts the row, which is then removed.
Drain(g) ==
    /\ up
    /\ g \in queue
    /\ taken = {}
    /\ Accept(g)
    /\ taken' = {g}
    /\ UNCHANGED <<page, marker, queue, op, sec, reset, calls, clock, history>>

Complete(g) ==
    /\ g \in taken
    /\ queue' = queue \ {g}
    /\ taken' = {}
    /\ UNCHANGED <<page, marker, broker, op, sec, reset, calls, clock, history>>

\* Mutant: the broker believes what its queue says.
BrokerTrusts(g) ==
    /\ broker[g] = "row"
    /\ broker' = [broker EXCEPT ![g] = "dead"]
    /\ UNCHANGED <<page, marker, queue, threads, clock, history>>

\* Mutant: the broker acts only while the Gateway's queue still has the grant.
BrokerWaits(g) ==
    /\ broker[g] = "row" /\ g \in queue
    /\ ~Live(g)
    /\ broker' = [broker EXCEPT ![g] = "dead"]
    /\ UNCHANGED <<page, marker, queue, threads, clock, history>>

\* drain_revocations of the broker: "never retire an invitation that is still
\* authorized"; it reads the Gateway's files, and deletes the invitation later.
BrokerCheck(g) ==
    /\ broker[g] = "row"
    /\ ~Live(g)
    /\ broker' = [broker EXCEPT ![g] = "dead"]
    /\ UNCHANGED <<page, marker, queue, threads, clock, history>>

Retire(g) ==
    /\ broker[g] = "dead"
    /\ broker' = [broker EXCEPT ![g] = "retired"]
    /\ UNCHANGED <<page, marker, queue, threads, clock, history>>

RetireFails(g) ==
    /\ Failures
    /\ broker[g] = "dead"
    /\ broker' = [broker EXCEPT ![g] = "row"]
    /\ UNCHANGED <<page, marker, queue, threads, clock, history>>

\* app_runner stops all processes; at start the Gateway first recovers.
Stop ==
    /\ Failures /\ up
    /\ up' = FALSE
    /\ op' = [p \in Pages |-> Free]
    /\ sec' = NoSection
    /\ reset' = NoReset
    /\ calls' = {}
    /\ taken' = {}
    /\ broker' = [g \in Grants |-> IF broker[g] = "dead" THEN "row" ELSE broker[g]]
    /\ UNCHANGED <<page, marker, queue, used, expired, history>>

Start ==
    /\ ~up /\ StoreFree
    /\ \A p \in Pages : ~marker[p].there
    /\ up' = TRUE
    /\ UNCHANGED <<files, threads, used, expired, history>>

-----------------------------------------------------------------------------
Init ==
    /\ page = [p \in Pages |-> NoFile]
    /\ marker = [p \in Pages |-> NoFile]
    /\ queue = {}
    /\ broker = [g \in Grants |-> "none"]
    /\ op = [p \in Pages |-> Free]
    /\ sec = NoSection
    /\ reset = NoReset
    /\ calls = {} /\ taken = {} /\ used = {} /\ expired = {}
    /\ up = TRUE
    /\ revoked = {} /\ seen = {} /\ unlocked = {}

Handler(p) ==
    \/ NewPage(p) \/ Edit(p) \/ Update(p) \/ Published(p) \/ PublishFails(p) \/ Restore(p)
    \/ Minted(p) \/ Reload(p) \/ Commit(p) \/ OpFails(p)
    \/ \E g \in Grants : Create(p, g) \/ Revoke(p, g)
    \/ \E kind \in {"revokeAll", "delete"} : RevokePage(p, kind)
    \/ StartRemove(p) \/ StartWipe(p)

StoreSteps(p) == Mark(p) \/ Cut(p) \/ Unlink(p) \/ Drop(p) \/ SectionFails(p)

Reset ==
    ResetList \/ ResetRevoke \/ ResetDone \/ \E p \in Pages : ResetLock(p) \/ ResetNext(p)

Cleanup(g) ==
    \/ Enqueue(g) \/ Elapse(g)
    \/ Report(g) \/ ReportFails(g) \/ Drain(g) \/ Complete(g)
    \/ BrokerCheck(g) \/ Retire(g) \/ RetireFails(g)

Next ==
    \/ \E p \in Pages : Handler(p) \/ StoreSteps(p) \/ Expire(p) \/ Recover(p)
    \/ \E g \in Grants : Cleanup(g)
    \/ Reset \/ Stop \/ Start

Spec == Init /\ [][Next]_vars

\* Handlers and threads keep running, the cleanup thread of the Gateway and the
\* loop of the broker come back every few seconds, and nothing fails for ever: a
\* step that is tried again and again succeeds some time.
FairSpec ==
    /\ Spec
    /\ WF_vars(Start)
    /\ WF_vars(ResetRevoke \/ ResetDone \/ \E p \in Pages : ResetLock(p) \/ ResetNext(p))
    /\ \A p \in Pages :
          /\ WF_vars(\/ Update(p) \/ Published(p) \/ PublishFails(p) \/ Restore(p)
                     \/ Minted(p) \/ Reload(p) \/ Commit(p) \/ OpFails(p)
                     \/ StartRemove(p) \/ StartWipe(p) \/ Mark(p) \/ Drop(p) \/ SectionFails(p))
          /\ SF_vars(Recover(p)) /\ SF_vars(Expire(p)) /\ SF_vars(Cut(p)) /\ SF_vars(Unlink(p))
    /\ \A g \in Grants :
          /\ SF_vars(Enqueue(g)) /\ SF_vars(Drain(g) \/ Complete(g))
          /\ SF_vars(BrokerCheck(g)) /\ SF_vars(Retire(g))

-----------------------------------------------------------------------------
(* Properties *)

TypeOK ==
    /\ page \in [Pages -> PageFile]
    /\ marker \in [Pages -> PageFile]
    /\ queue \in SUBSET Grants
    /\ broker \in [Grants -> {"none", "row", "dead", "retired"}]
    /\ op \in [Pages -> Operation]
    /\ sec \in SectionRec
    /\ reset \in ResetRec
    /\ calls \in SUBSET Grants
    /\ taken \in SUBSET Grants
    /\ used \in SUBSET Grants
    /\ expired \in SUBSET Grants
    /\ up \in BOOLEAN
    /\ revoked \in SUBSET Grants
    /\ seen \in SUBSET Grants
    /\ unlocked \in SUBSET Pages

\* A grant that a revocation has hidden is never seen again, whatever a handler
\* with an older copy of the page writes: neither the commit of another grant
\* nor the rollback of an edit brings it back, and no failure or restart does.
\* A page that a reset revoked without its lock is excepted: there a handler that
\* has reloaded the page may write back what the reset has just revoked.
RevokedStaysHidden ==
    \A p \in Pages \ unlocked : Visible(p) \intersect revoked = {}

\* The cleanup of an invitation that a guest could use is never lost: while it is
\* not retired, the grant can be seen, or the revocation is recorded, or the
\* cleanup is queued in the Gateway or in the broker.
CleanupOwed ==
    \A g \in seen : \/ Live(g)
                    \/ \E p \in Pages : g \in marker[p].grants
                    \/ g \in queue
                    \/ broker[g] # "none"

\* "Never retire an invitation that is still authorized" (layerv_broker.py 337),
\* although a revocation queues the cleanup before it removes the grant, and may
\* then fail: unless a grant was brought back, or is over anyway.
LiveNotRetired ==
    \A p \in Pages \ unlocked : \A g \in Visible(p) \ expired : broker[g] # "retired"

\* A grant that guests could use and that was revoked, or is over, has its
\* invitation retired in the end, whatever failed on the way and however often the
\* App was stopped (again unless a reset revoked the page without its lock).
OverIsRetired ==
    \A g \in Grants : g \in seen /\ g \in revoked \union expired
                        ~> broker[g] = "retired" \/ unlocked # {}

-----------------------------------------------------------------------------
(* The inductive invariant behind the safety properties (PageGrantsProofs). *)

\* A handler that will write back the copy of the page it has read.
Writer(p) == op[p].pc = "commit" \/ op[p].kind = "edit"

\* A grant whose cleanup is queued somewhere, or done.
Owed(g) == g \in queue \/ broker[g] # "none"

\* The grants that a page, its marker and its handler refer to.
Has(p) == page[p].grants \union marker[p].grants \union op[p].grants \union op[p].prev

\* The grants that no handler is still creating.
Settled == {g \in used : \A p \in Pages : op[p].kind = "grant" => g \notin op[p].grants}

\* Which steps a handler of each kind goes through; a reset excludes handlers.
OpInv ==
    \A p \in Pages :
        /\ op[p].pc = "idle" => op[p].kind = "none"
        /\ op[p].pc \in {"mint", "load", "commit"} => op[p].kind = "grant"
        /\ op[p].pc \in {"update", "restore"} => op[p].kind = "edit"
        /\ op[p].pc = "publish" => op[p].kind \in {"new", "edit"}
        /\ op[p].pc \in {"start", "section"} => op[p].kind \notin {"none", "grant", "edit"}
        /\ op[p].kind = "revoke" => op[p].grants # {}
        /\ p \in reset.held => op[p].pc = "idle"

\* What is known of a grant anywhere but in the handler that is creating it is
\* known of a grant that has been created, and on one page only.
KnownInv ==
    /\ queue \union calls \union taken \union revoked \union seen
         \union reset.grants \union sec.out \subseteq Settled
    /\ \A g \in Grants : broker[g] # "none" => g \in Settled
    /\ \A p \in Pages :
          /\ page[p].grants \union marker[p].grants \union op[p].prev \subseteq Settled
          /\ op[p].grants \subseteq used
          /\ op[p].kind # "grant" => op[p].grants \subseteq Settled

HomeInv == \A p, q \in Pages : p # q => Has(p) \intersect Has(q) = {}

\* A handler waits for the store if and only if the store works for it.
HolderInv ==
    \A p \in Pages :
        op[p].pc = "section" <=> sec.pc # "free" /\ sec.by = "op" /\ sec.page = p

\* What a use of the page store has done so far.
SecInv ==
    /\ sec.todo \subseteq sec.out
    /\ sec.pc = "next" => sec.by = "reset"
    /\ sec.pc = "mark" =>
          /\ sec.all /\ sec.by # "thread"
          /\ ~marker[sec.page].there
          /\ sec.out = page[sec.page].grants
          /\ sec.todo = sec.out
    /\ sec.pc = "enqueue" => \A g \in sec.out \ sec.todo : Owed(g)
    /\ sec.pc = "enqueue" /\ sec.all => marker[sec.page] = File(sec.out)
    /\ sec.pc = "enqueue" /\ ~sec.all =>
          /\ ~marker[sec.page].there
          /\ sec.out \subseteq page[sec.page].grants
          /\ sec.by # "reset"
          /\ sec.by = "thread" => sec.out \subseteq expired
    /\ sec.pc = "unlink" => \A g \in marker[sec.page].grants : Owed(g)
    /\ sec.pc \in {"unlink", "drop"} => page[sec.page].grants = {}

FileInv ==
    \A p \in Pages : /\ ~page[p].there => page[p].grants = {}
                     /\ ~marker[p].there => marker[p].grants = {}

TakenInv == \A g \in taken : broker[g] # "none"

\* The copy a handler will write back: all that is visible; unless the page was
\* revoked without its lock, nothing that was revoked, and beyond what is visible
\* only what has expired.
PrevInv ==
    \A p \in Pages : Writer(p) =>
        /\ Visible(p) \subseteq op[p].prev
        /\ p \notin unlocked => op[p].prev \ expired \subseteq Visible(p)
        /\ p \notin unlocked => op[p].prev \intersect revoked = {}

\* Nor has the broker found a grant dead that is in force.
LiveNotDead ==
    \A p \in Pages \ unlocked : \A g \in Visible(p) \ expired : broker[g] \notin {"dead", "retired"}

IInv ==
    /\ TypeOK /\ OpInv
    /\ KnownInv /\ HomeInv
    /\ HolderInv /\ SecInv /\ FileInv /\ TakenInv
    /\ PrevInv
    /\ RevokedStaysHidden /\ CleanupOwed /\ LiveNotDead
=============================================================================
