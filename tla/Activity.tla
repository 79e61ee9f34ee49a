------------------------------ MODULE Activity ------------------------------
(***************************************************************************)
(* What the owner sees of the guests of one page: the activity store       *)
(* (activity.py, three tables of an SQLite database), the handlers of the  *)
(* Gateway that keep it in step with the grants of the page (server.py,    *)
(* admin.py), and the events that the broker reports (internal.py).        *)
(*                                                                         *)
(* The page file and the database are written one after the other, by the  *)
(* threads of the Gateway.  Some hold the page's lock, others do not: the  *)
(* activity listing, the removal of expired grants when the owner opens    *)
(* the page list, the events, and a reset of the connection for a page     *)
(* that was created after it had listed the pages.  A handler that writes  *)
(* back the page as it has read it can restore what they removed.  The     *)
(* files of a page are the subject of PageGrants; here removing grants     *)
(* from a page is one step.                                                *)
(***************************************************************************)
EXTENDS Naturals, Sequences, SequencesExt, FiniteSets

CONSTANTS
    Grants,       \* the grants the page ever has
    Workers,      \* threads of the Gateway
    NoWorker,     \* nobody holds the page's lock
    MaxActions,   \* MAX_ACTIONS_PER_GUEST, 1000
    MaxEvents,    \* MAX_SECURITY_EVENTS_PER_PAGE, 1000
    Faults,       \* bound: stops of the App and failed transactions
    Forgets       \* bound: records that are deleted or run out

ASSUME ConstantsAssumption ==
    /\ MaxActions \in Nat \ {0} /\ MaxEvents \in Nat \ {0} /\ Faults \in Nat /\ Forgets \in Nat
    /\ NoWorker \notin Workers

VARIABLES
    page,       \* the page exists
    grants,     \* the grants in its file
    over,       \* those that were removed from it
    back,       \* history: those that a stale copy of the page has written back
    lock,       \* who holds page_action_lock
    copy,       \* the grants in the page as its holder has read it
    job,        \* what each thread is doing, and for which grants still
    guests,     \* the record of each grant: none, active, ended (revoked_at is set)
    due,        \* the ended ones whose purge_after has passed
    seen,       \* those with a first_access_at
    actions,    \* how many rows of the actions table a grant has
    events,     \* the security events of the page, oldest first
    notified,   \* alerts of a first login that were sent
    faults, forgets

file == <<page, grants, over, back>>
store == <<guests, due, seen, actions, events>>
bounds == <<faults, forgets>>
vars == <<file, lock, copy, job, store, notified, bounds>>

Idle == [op |-> "idle", todo |-> {}]
Job(o, s) == [op |-> o, todo |-> s]

Init ==
    /\ page \in BOOLEAN /\ grants = {} /\ over = {} /\ back = {}
    /\ lock = NoWorker /\ copy = {} /\ job = [w \in Workers |-> Idle]
    /\ guests = [g \in Grants |-> "none"] /\ due = {} /\ seen = {}
    /\ actions = [g \in Grants |-> 0] /\ events = <<>>
    /\ notified = [g \in Grants |-> 0]
    /\ faults = 0 /\ forgets = 0

-----------------------------------------------------------------------------
(* The store                                                               *)

\* The events of all others, in their order: what SelectSeq gives, as a set of this one
\* sequence, so that its elements can be told from those of e (see MCActivity).
Remaining(e, gone) ==
    LET kept == {i \in DOMAIN e : e[i] \notin gone}
        ranks == 1 .. Cardinality(kept)
    IN  {[n \in ranks |-> e[f[n]]] :
            f \in {f \in [ranks -> kept] : \A m, n \in ranks : m < n => f[m] < f[n]}}
\* Deleting a record deletes its actions and its events (ON DELETE CASCADE).
Without(gone, r, d, s, a, e) ==
    /\ guests' = [g \in Grants |-> IF g \in gone THEN "none" ELSE r[g]]
    /\ due' = d \ gone /\ seen' = s \ gone
    /\ actions' = [g \in Grants |-> IF g \in gone THEN 0 ELSE a[g]]
    /\ events' \in Remaining(e, gone)
\* Every transaction ends with _purge.
Commit(r, d, s, a, e) == Without(d, r, d, s, a, e)

RegisterGuest(g) ==
    Commit([guests EXCEPT ![g] = IF @ = "none" THEN "active" ELSE @], due, seen, actions, events)
\* The newest MaxEvents events are kept.
Newest(e) == IF Len(e) > MaxEvents THEN Tail(e) ELSE e
\* An expired grant is marked with the time when it expired: that may be long ago.
MarkRevoked(g, long, e) ==
    Commit([guests EXCEPT ![g] = "ended"], IF long THEN due \union {g} ELSE due, seen, actions, e)

-----------------------------------------------------------------------------
(* The threads of the Gateway                                              *)

Starts(w, o, s) == job[w] = Idle /\ job' = [job EXCEPT ![w] = Job(o, s)]
Locks(w) == lock = NoWorker /\ lock' = w
\* The thread goes on with what is left of its work, or ends and gives the lock back.
Continues(w, s) ==
    /\ job' = [job EXCEPT ![w] = IF s = {} THEN Idle ELSE Job(@.op, s)]
    /\ lock' = IF s = {} /\ lock = w THEN NoWorker ELSE lock

\* The page is loaded once more, the new grant is put into it, and it is written: in
\* between, what holds no lock may remove grants that are in the copy.
CreateGrant(w, g) ==
    /\ page /\ g \notin grants \union over
    /\ Starts(w, "create", {g}) /\ Locks(w)
    /\ copy' = grants
    /\ UNCHANGED <<file, store, notified, bounds>>
WritesBack(new) ==
    /\ grants' = copy \union new /\ back' = back \union (copy \ grants)
    /\ copy' = {}
CommitGrant(w, g) ==
    /\ job[w] = Job("create", {g})
    /\ WritesBack({g})
    /\ job' = [job EXCEPT ![w] = Job("register", {g})]
    /\ UNCHANGED <<page, over, lock, store, notified, bounds>>

\* The owner edits the page.  If the new policy cannot be published, the page is replaced
\* by what it was before.
Edit(w) ==
    /\ page /\ Starts(w, "edit", {}) /\ Locks(w)
    /\ copy' = grants
    /\ UNCHANGED <<file, store, notified, bounds>>
EditDone(w) ==
    /\ job[w].op = "edit" /\ Continues(w, {}) /\ copy' = {}
    /\ UNCHANGED <<file, store, notified, bounds>>
EditUndone(w) ==
    /\ job[w].op = "edit" /\ Continues(w, {})
    /\ WritesBack({})
    /\ UNCHANGED <<page, over, store, notified, bounds>>

Removes(s) == s # {} /\ grants' = grants \ s /\ over' = over \union s

\* A grant or all of the page are revoked, or all there are: a reset holds the lock of
\* every page that it has listed.
Revoke(w, s) ==
    /\ page /\ Removes(s)
    /\ Starts(w, "mark", s) /\ Locks(w)
    /\ UNCHANGED <<page, back, copy, store, notified, bounds>>

\* A page that comes after the listing is revoked without its lock.
ResetLists(w) ==
    /\ ~page /\ Starts(w, "reset", {})
    /\ UNCHANGED <<file, lock, copy, store, notified, bounds>>
ResetRevokes(w) ==
    /\ job[w].op = "reset"
    /\ grants' = {} /\ over' = over \union grants
    /\ job' = [job EXCEPT ![w] = IF grants = {} THEN Idle ELSE Job("mark", grants)]
    /\ UNCHANGED <<page, back, lock, copy, store, notified, bounds>>

\* The cleanup thread removes what has expired.
Sweep(w, s) ==
    /\ page /\ Removes(s)
    /\ Starts(w, "sweep", s) /\ Locks(w)
    /\ UNCHANGED <<page, back, copy, store, notified, bounds>>

\* So does the listing of the pages, without the lock.
Expire(w, s) ==
    /\ page /\ Removes(s)
    /\ Starts(w, "expire", s)
    /\ UNCHANGED <<page, back, lock, copy, store, notified, bounds>>

DeletePage(w) ==
    /\ page /\ page' = FALSE /\ forgets < Forgets /\ forgets' = forgets + 1
    /\ grants' = {} /\ over' = over \union grants
    /\ Starts(w, IF grants = {} THEN "wipe" ELSE "delete", grants) /\ Locks(w)
    /\ UNCHANGED <<back, copy, store, notified, faults>>

CreatePage ==
    /\ ~page /\ lock = NoWorker /\ page' = TRUE
    /\ UNCHANGED <<grants, over, back, lock, copy, job, store, notified, bounds>>

\* The activity listing: it reads the page, and then records the grants that it read.
View(w) ==
    /\ page /\ grants # {}
    /\ Starts(w, "register", grants)
    /\ UNCHANGED <<file, lock, copy, store, notified, bounds>>

Register(w, g) ==
    /\ job[w].op = "register" /\ g \in job[w].todo
    /\ RegisterGuest(g)
    /\ Continues(w, job[w].todo \ {g})
    /\ UNCHANGED <<file, copy, notified, bounds>>

\* No thread takes 30 days: when they have passed, only w can be at work for g.
Alone(w, g) == \A v \in Workers \ {w} : g \notin job[v].todo

\* Mutant: the record is ended only if there is one.
MarkOnly(w, g) ==
    /\ job[w].op \in {"mark", "sweep", "expire", "delete"} /\ g \in job[w].todo
    /\ \E long \in BOOLEAN :
          /\ long => job[w].op \in {"sweep", "expire"} /\ Alone(w, g) /\ forgets < Forgets
          /\ forgets' = forgets + (IF long THEN 1 ELSE 0)
          /\ IF guests[g] = "none" THEN UNCHANGED store ELSE MarkRevoked(g, long, events)
    /\ IF job[w].op = "delete" /\ job[w].todo = {g}
       THEN job' = [job EXCEPT ![w] = Job("wipe", {})] /\ UNCHANGED lock
       ELSE Continues(w, job[w].todo \ {g})
    /\ UNCHANGED <<file, copy, notified, faults>>
\* The listing records an event of the expiry too, unless that transaction fails; a record
\* that is purged at once takes it along.
Mark(w, g) ==
    /\ job[w].op \in {"mark", "sweep", "expire", "delete"} /\ g \in job[w].todo
    /\ \E long, noted \in BOOLEAN :
          /\ noted => job[w].op = "expire"
          /\ long => job[w].op \in {"sweep", "expire"} /\ Alone(w, g) /\ forgets < Forgets
          /\ forgets' = forgets + (IF long THEN 1 ELSE 0)
          /\ MarkRevoked(g, long, IF noted THEN Newest(Append(events, g)) ELSE events)
    /\ IF job[w].op = "delete" /\ job[w].todo = {g}
       THEN job' = [job EXCEPT ![w] = Job("wipe", {})] /\ UNCHANGED lock
       ELSE Continues(w, job[w].todo \ {g})
    /\ UNCHANGED <<file, copy, notified, faults>>

\* delete_page, which does not purge.
Wipe(w) ==
    /\ job[w].op = "wipe"
    /\ Without(Grants, guests, due, seen, actions, events)
    /\ Continues(w, {})
    /\ UNCHANGED <<file, copy, notified, bounds>>

\* Mutant: any record can be deleted.
DeleteAnyGuest(g) ==
    /\ guests[g] # "none" /\ forgets < Forgets /\ forgets' = forgets + 1
    /\ Without({g}, guests, due, seen, actions, events)
    /\ UNCHANGED <<file, lock, copy, job, notified, faults>>
DeleteRevokedGuest(g) ==
    /\ guests[g] = "ended" /\ forgets < Forgets /\ forgets' = forgets + 1
    /\ Without({g}, guests, due, seen, actions, events)
    /\ UNCHANGED <<file, lock, copy, job, notified, faults>>

\* The 30 days pass.
Elapse(g) ==
    /\ guests[g] = "ended" /\ g \notin due /\ Alone(NoWorker, g)
    /\ forgets < Forgets /\ forgets' = forgets + 1
    /\ due' = due \union {g}
    /\ UNCHANGED <<file, lock, copy, job, guests, seen, actions, events, notified, faults>>

-----------------------------------------------------------------------------
(* The events                                                              *)

\* The broker reports what a guest has done.  It waits for 3 seconds and goes on, so that
\* several reports may be under way, and be carried out after the grant has been removed.
Emit(w, g, o) ==
    /\ g \in grants
    /\ Starts(w, o, {g})
    /\ UNCHANGED <<file, lock, copy, store, notified, bounds>>

\* Mutant: every visit is the first.
InitialAlways(w, g) ==
    /\ job[w] = Job("initial", {g})
    /\ Commit(guests, due, IF guests[g] # "none" THEN seen \union {g} ELSE seen, actions, events)
    /\ job' = [job EXCEPT ![w] = IF guests[g] # "none" THEN Job("notify", {g}) ELSE Idle]
    /\ UNCHANGED <<file, lock, copy, notified, bounds>>
InitialAccess(w, g) ==
    LET first == guests[g] # "none" /\ g \notin seen
    IN  /\ job[w] = Job("initial", {g})
        /\ Commit(guests, due, IF first THEN seen \union {g} ELSE seen, actions, events)
        /\ job' = [job EXCEPT ![w] = IF first THEN Job("notify", {g}) ELSE Idle]
        /\ UNCHANGED <<file, lock, copy, notified, bounds>>

\* The grant must still be in the page.
Notify(w, g) ==
    /\ job[w] = Job("notify", {g})
    /\ notified' = [notified EXCEPT ![g] = IF g \in grants THEN @ + 1 ELSE @]
    /\ Continues(w, {})
    /\ UNCHANGED <<file, copy, store, bounds>>

\* Mutant: the row needs no guest.
RecordUnowned(w, g) ==
    /\ \E o \in {"success", "failed"} :
          /\ job[w] = Job(o, {g})
          /\ job' = [job EXCEPT ![w] = IF o = "failed" THEN Job("event", {g}) ELSE Idle]
    /\ Commit(guests, due, seen, [actions EXCEPT ![g] = IF @ < MaxActions THEN @ + 1 ELSE @], events)
    /\ UNCHANGED <<file, lock, copy, notified, bounds>>
\* The newest MaxActions rows are kept.  A failed action is an event too.
RecordAction(w, g) ==
    /\ guests[g] # "none"
    /\ \E o \in {"success", "failed"} :
          /\ job[w] = Job(o, {g})
          /\ job' = [job EXCEPT ![w] = IF o = "failed" THEN Job("event", {g}) ELSE Idle]
    /\ Commit(guests, due, seen, [actions EXCEPT ![g] = IF @ < MaxActions THEN @ + 1 ELSE @], events)
    /\ UNCHANGED <<file, lock, copy, notified, bounds>>

RecordSecurityEvent(w, g) ==
    /\ guests[g] # "none"
    /\ job[w] = Job("event", {g})
    /\ Commit(guests, due, seen, actions, Newest(Append(events, g)))
    /\ job' = [job EXCEPT ![w] = Idle]
    /\ UNCHANGED <<file, lock, copy, notified, bounds>>

\* Events older than 30 days are deleted by any later transaction.
EventsAge ==
    /\ events # <<>> /\ events' = Tail(events)
    /\ UNCHANGED <<file, lock, copy, job, guests, due, seen, actions, notified, bounds>>

\* There is no record of the guest: the foreign key fails, and the event is lost.
RecordRefused(w, g) ==
    /\ guests[g] = "none"
    /\ \E o \in {"success", "failed", "event"} : job[w] = Job(o, {g})
    /\ job' = [job EXCEPT ![w] = Idle]
    /\ UNCHANGED <<file, lock, copy, store, notified, bounds>>

-----------------------------------------------------------------------------
(* Faults                                                                  *)

\* A transaction fails.  Creating, revoking and deleting go on with the next grant; the
\* cleanup thread and the listing give up.
Fail(w, g) ==
    /\ g \in job[w].todo /\ faults < Faults /\ faults' = faults + 1
    /\ copy' = IF lock = w THEN {} ELSE copy
    /\ LET left == IF job[w].op \in {"mark", "expire", "delete"} THEN job[w].todo \ {g} ELSE {}
       IN  IF job[w].op = "delete" /\ left = {}
           THEN job' = [job EXCEPT ![w] = Job("wipe", {})] /\ UNCHANGED lock
           ELSE Continues(w, left)
    /\ UNCHANGED <<file, store, notified, forgets>>
FailWipe(w) ==
    /\ job[w].op = "wipe" /\ faults < Faults /\ faults' = faults + 1
    /\ Continues(w, {})
    /\ UNCHANGED <<file, copy, store, notified, forgets>>

\* The App is stopped and started again.  Nothing compares the records with the pages.
Stop ==
    /\ faults < Faults /\ faults' = faults + 1
    /\ job' = [w \in Workers |-> Idle] /\ lock' = NoWorker /\ copy' = {}
    /\ UNCHANGED <<file, store, notified, forgets>>

-----------------------------------------------------------------------------
OwnerStep(w) ==
    \/ \E g \in Grants : CreateGrant(w, g) \/ CommitGrant(w, g)
    \/ \E s \in SUBSET grants : Revoke(w, s)
    \/ Edit(w) \/ EditDone(w) \/ EditUndone(w)
    \/ ResetLists(w) \/ ResetRevokes(w)
    \/ DeletePage(w) \/ View(w)
CleanupStep(w) == \E s \in SUBSET grants : Sweep(w, s) \/ Expire(w, s)
StoreStep(w) == Wipe(w) \/ \E g \in Grants : Register(w, g) \/ Mark(w, g)
EventStep(w) ==
    \E g \in Grants :
        \/ \E o \in {"initial", "success", "failed", "event"} : Emit(w, g, o)
        \/ InitialAccess(w, g) \/ Notify(w, g)
        \/ RecordAction(w, g) \/ RecordSecurityEvent(w, g) \/ RecordRefused(w, g)
FaultStep(w) == FailWipe(w) \/ \E g \in Grants : Fail(w, g)

Next ==
    \/ \E w \in Workers :
          OwnerStep(w) \/ CleanupStep(w) \/ StoreStep(w) \/ EventStep(w) \/ FaultStep(w)
    \/ \E g \in Grants : DeleteRevokedGuest(g) \/ Elapse(g)
    \/ CreatePage \/ EventsAge \/ Stop

Spec == Init /\ [][Next]_vars

-----------------------------------------------------------------------------
Ending == {"mark", "sweep", "expire", "delete"}
Holding == {"create", "edit"}
Ops == Ending \union Holding \union
    {"idle", "register", "reset", "wipe", "initial", "notify", "success", "failed", "event"}
TypeOK ==
    /\ page \in BOOLEAN /\ grants \subseteq Grants /\ over \subseteq Grants
    /\ back \subseteq Grants
    /\ lock \in Workers \union {NoWorker} /\ copy \subseteq Grants
    /\ job \in [Workers -> [op: Ops, todo: SUBSET Grants]]
    /\ guests \in [Grants -> {"none", "active", "ended"}]
    /\ due \subseteq {g \in Grants : guests[g] = "ended"}
    /\ seen \subseteq {g \in Grants : guests[g] # "none"}
    /\ actions \in [Grants -> 0 .. MaxActions]
    /\ events \in Seq(Grants) /\ Len(events) <= MaxEvents
    /\ notified \in [Grants -> Nat] /\ faults \in 0 .. Faults /\ forgets \in 0 .. Forgets

\* The owner is alerted of a guest's first login once, however many reports of it are
\* under way, whatever becomes of the record (CHANGELOG.md, 0.1.112: "Successful
\* authorized login is recorded once").  The exception is a grant that was written back
\* after its removal (server.py:943, 1179): its record can be deleted and made again.
NotifiedOnce == \A g \in Grants \ back : notified[g] <= 1

\* An event that arrives after its guest's record was deleted leaves nothing behind: all
\* history has a record, through which the owner can delete it (CHANGELOG.md, 0.1.31).
HistoryOwned ==
    \A g \in Grants : guests[g] = "none" => actions[g] = 0 /\ ~Contains(events, g)

\* While a guest has access, the owner does not lose sight of it: no purge, deletion or
\* late revocation takes the record of a grant that is in the page, nor ends it.  The
\* exception is a grant that was removed without the page's lock and that a handler with
\* an older copy of the page has written back: a reset ends the record of a guest who has
\* access again (server.py:943, 1179, 1186).
LiveRecordKept ==
    [][\A g \in (grants \intersect grants') \ back :
          guests[g] # "none" => guests'[g] = "active" /\ actions'[g] >= actions[g]]_vars

\* When no thread is at work, no guest whose access is over is listed as active: its
\* record has been moved, or deleted (DOCS.md:353, "Revoked and expired guest records move
\* to Recently ended guests and are retained for 30 days unless deleted earlier").  One
\* that is listed as active is never purged and cannot be deleted.  The exceptions: a
\* transaction that failed or a stop, after which nothing tries again, and a record that
\* was deleted, by itself or with its page, or has run out, which a listing of the page under
\* way, or one of a page into which the grant was written back, registers once more.  The
\* property says nothing of behaviours in which any of that has happened.
EndedMoved ==
    faults = 0 /\ forgets = 0 /\ (\A w \in Workers : job[w] = Idle)
        => \A g \in over : guests[g] # "active"

-----------------------------------------------------------------------------
(* The inductive invariant behind NotifiedOnce, HistoryOwned, EndedMoved   *)
(* and LiveRecordKept (ActivityProofs).                                    *)

\* A thread is at work for grants that the page has or had, or for one that is to come, and
\* ends only what was removed.  While the records of a deleted page are removed, no grant
\* can come.
JobInv ==
    \A w \in Workers :
        /\ job[w].op # "create" => job[w].todo \subseteq grants \union over
        /\ job[w].op = "create" => job[w].todo \intersect (grants \union over) = {}
        /\ job[w].op \in Ending => job[w].todo \subseteq over
        /\ job[w].op \in {"delete", "wipe"} => lock = w /\ ~page /\ grants = {} /\ forgets # 0

\* Grants may have been removed since the page was read, but none has come; only those
\* can be written back.
CopyInv ==
    /\ back \subseteq over /\ grants \intersect over \subseteq back
    /\ \A w \in Workers : job[w].op \in Holding =>
          lock = w /\ page /\ grants \subseteq copy /\ copy \subseteq grants \union over

\* Only what is over is marked as ended, and only what was marked runs out.
RecordInv ==
    /\ \A g \in Grants : guests[g] = "ended" => g \in over
    /\ forgets = 0 => due = {}

\* For a grant that was always in the page there is one alert, sent or about to be sent, if
\* it was seen.
Alerts(w, g) == job[w] = Job("notify", {g})
AlertInv ==
    /\ \A g \in Grants \ back : notified[g] <= 1 /\ (g \notin grants \union over => notified[g] = 0)
    /\ \A g \in grants \ back : notified[g] = 1 => g \in seen
    /\ \A g \in grants \ back, w \in Workers : Alerts(w, g) =>
          g \in seen /\ notified[g] = 0 /\ \A v \in Workers : Alerts(v, g) => v = w

\* What is over has been marked, or some thread is about to.
MoveInv ==
    faults = 0 /\ forgets = 0 =>
        \A g \in over : \/ guests[g] = "ended"
                        \/ \E w \in Workers : job[w].op \in Ending /\ g \in job[w].todo

IInv == TypeOK /\ JobInv /\ CopyInv /\ RecordInv /\ AlertInv /\ MoveInv /\ HistoryOwned
=============================================================================
