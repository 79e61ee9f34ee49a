------------------------- MODULE PolicyPublication -------------------------
(***************************************************************************)
(* How a page that the owner edits becomes the policy that guests are held *)
(* to.  The admin Gateway keeps the pages (admin.py, pages.py) and         *)
(* publishes each change to the policy store, a process with its own copy  *)
(* (policy_store.py), over HTTP with a 10 second timeout (policy.py).  A   *)
(* marker file per page records, before anything changes, that a           *)
(* publication is owed; a thread of the Gateway retries every 5 seconds    *)
(* (server.py, retry_pending_policies).                                    *)
(*                                                                         *)
(* All operations on one page hold its page_action_lock, so op[p] is a     *)
(* single operation; the pages are independent.  A page's content is a     *)
(* version number; 0 stands for a page that does not exist.                *)
(***************************************************************************)
EXTENDS Naturals

CONSTANTS
    Pages,       \* page ids
    MaxVersion,  \* bound on the number of edits the owner attempts
    Failures,    \* may a file operation fail, a call fail, the App restart
    LateCalls    \* may the policy store apply a call after its caller gave up

ASSUME FlagsAssumption == Failures \in BOOLEAN /\ LateCalls \in BOOLEAN
ASSUME VersionAssumption == MaxVersion \in Nat

VARIABLES
    local,      \* [Pages -> Versions]: the Gateway's page file
    published,  \* [Pages -> Versions]: the policy store's file
    pending,    \* pages with a .policy-pending marker
    op,         \* [Pages -> Operation]: the operation that holds the page's lock
    late,       \* calls that the policy store may still apply
    last,       \* number of the last edit, which is the version it writes
    \* History variable: no action reads it.
    overdue     \* pages with a call that outlived its caller since the last restart

vars == <<local, published, pending, op, late, last, overdue>>

Versions == 0..MaxVersion
Edits == {"create", "update"}
Kinds == Edits \union {"delete", "retry"}
PCs == {"idle", "write", "send", "reply", "clear", "failed"}
Operation == [pc: PCs, kind: Kinds, prev: Versions, new: Versions]
Call == [page: Pages, version: Versions]
Free == [pc |-> "idle", kind |-> "retry", prev |-> 0, new |-> 0]

Goto(p, pc) == op' = [op EXCEPT ![p].pc = pc]
Done(p) == op' = [op EXCEPT ![p] = Free]

-----------------------------------------------------------------------------
\* Mutant: no intent is recorded before the local change.
BeginUnmarked(p, kind) ==
    /\ op[p].pc = "idle"
    /\ kind # "retry" => last < MaxVersion
    /\ kind \in {"update", "delete"} => local[p] # 0
    /\ kind = "retry" => p \in pending
    /\ last' = IF kind = "retry" THEN last ELSE last + 1
    /\ op' = [op EXCEPT ![p] = [pc |-> IF kind = "retry" THEN "send" ELSE "write",
                                kind |-> kind, prev |-> local[p],
                                new |-> IF kind \in Edits THEN last + 1 ELSE 0]]
    /\ UNCHANGED <<local, published, late, pending, overdue>>

\* The lock is taken, the page loaded and the marker written (prepare).  An
\* update or a deletion needs the page; creation looks for it later.  A retry
\* takes what is there and publishes it.
Begin(p, kind) ==
    /\ op[p].pc = "idle"
    /\ kind # "retry" => last < MaxVersion
    /\ kind \in {"update", "delete"} => local[p] # 0
    /\ kind = "retry" => p \in pending
    /\ last' = IF kind = "retry" THEN last ELSE last + 1
    /\ op' = [op EXCEPT ![p] = [pc |-> IF kind = "retry" THEN "send" ELSE "write",
                                kind |-> kind, prev |-> local[p],
                                new |-> IF kind \in Edits THEN last + 1 ELSE 0]]
    /\ pending' = pending \union {p}
    /\ UNCHANGED <<local, published, late, overdue>>

\* Mutant: only a page that exists is retried.
RetryExisting(p) == local[p] # 0 /\ Begin(p, "retry")
\* retry_pending_policies, for a page that is marked.
Retry(p) == Begin(p, "retry")

\* The marker could not be written, or is there but could not be made durable:
\* the operation is refused.
PrepareFails(p) ==
    /\ Failures
    /\ op[p].pc = "idle"
    /\ last < MaxVersion
    /\ last' = last + 1
    /\ pending' \in {pending, pending \union {p}}
    /\ UNCHANGED <<local, published, op, late, overdue>>

\* PAGE_STORE.create, update or delete; creation is refused if there is a page.
WriteLocal(p) ==
    /\ op[p].pc = "write"
    /\ IF op[p].kind = "create" /\ local[p] # 0
       THEN Done(p) /\ UNCHANGED local
       ELSE Goto(p, "send") /\ local' = [local EXCEPT ![p] = op[p].new]
    /\ UNCHANGED <<published, pending, late, last, overdue>>

\* An OSError before the file is replaced, or after it, when the directory is
\* synced; there is no rollback, and the marker stays.
WriteFails(p) ==
    /\ Failures
    /\ op[p].pc = "write"
    /\ Done(p)
    /\ \/ UNCHANGED local
       \/ /\ op[p].kind = "create" => local[p] = 0
          /\ local' = [local EXCEPT ![p] = op[p].new]
    /\ UNCHANGED <<published, pending, late, last, overdue>>

-----------------------------------------------------------------------------
(* PolicyPublisher.publish and delete, and the policy store's handler *)

\* do_PUT or do_DELETE of the policy store; the caller waits for the answer.
Apply(p) ==
    /\ op[p].pc = "send"
    /\ published' = [published EXCEPT ![p] = local[p]]
    /\ Goto(p, "reply")
    /\ UNCHANGED <<local, pending, late, last, overdue>>

Reply(p) ==
    /\ op[p].pc = "reply"
    /\ Goto(p, "clear")
    /\ UNCHANGED <<local, published, pending, late, last, overdue>>

\* The call was refused or never arrived, or its answer was lost.
CallFails(p) ==
    /\ Failures
    /\ op[p].pc \in {"send", "reply"}
    /\ Goto(p, "failed")
    /\ UNCHANGED <<local, published, pending, late, last, overdue>>

\* The caller gives up after 10 seconds while the policy store is still at it.
TimeOut(p) ==
    /\ LateCalls
    /\ op[p].pc = "send"
    /\ late' = late \union {[page |-> p, version |-> local[p]]}
    /\ overdue' = overdue \union {p}
    /\ Goto(p, "failed")
    /\ UNCHANGED <<local, published, pending, last>>

LateApply(call) ==
    /\ call \in late
    /\ published' = [published EXCEPT ![call.page] = call.version]
    /\ late' = late \ {call}
    /\ UNCHANGED <<local, pending, op, last, overdue>>

\* _clear: the publication was acknowledged; a marker that cannot be removed is
\* left for the retry.
Clear(p) ==
    /\ op[p].pc = "clear"
    /\ pending' = pending \ {p}
    /\ Done(p)
    /\ UNCHANGED <<local, published, late, last, overdue>>

ClearFails(p) ==
    /\ Failures
    /\ op[p].pc = "clear"
    /\ Done(p)
    /\ UNCHANGED <<local, published, pending, late, last, overdue>>

-----------------------------------------------------------------------------
\* The local page after a publication that failed.
RolledBack(p) ==
    CASE op[p].kind = "create" -> 0
      [] op[p].kind = "update" -> op[p].prev
      [] op[p].kind \in {"delete", "retry"} -> local[p]

\* Mutant: with the rollback, the intent is withdrawn as well.
RollbackClears(p) ==
    /\ op[p].pc = "failed"
    /\ local' = [local EXCEPT ![p] = RolledBack(p)]
    /\ pending' = pending \ {p}
    /\ Done(p)
    /\ UNCHANGED <<published, late, last, overdue>>

\* The handlers of PolicyPublishError: creation removes the page again, an update
\* puts the previous one back, a deletion stays.
Rollback(p) ==
    /\ op[p].pc = "failed"
    /\ local' = [local EXCEPT ![p] = RolledBack(p)]
    /\ Done(p)
    /\ UNCHANGED <<published, pending, late, last, overdue>>

RollbackFails(p) ==
    /\ Failures
    /\ op[p].pc = "failed"
    /\ Done(p)
    /\ UNCHANGED <<local, published, pending, late, last, overdue>>

\* A process dies and app_runner stops the others.  Before it starts them again
\* it copies the Gateway's pages to the policy store (_seed_authoritative_policy).
Restart ==
    /\ Failures
    /\ op' = [p \in Pages |-> Free]
    /\ late' = {}
    /\ overdue' = {}
    /\ published' = local
    /\ UNCHANGED <<local, pending, last>>

-----------------------------------------------------------------------------
Init ==
    /\ local = [p \in Pages |-> 0]
    /\ published = [p \in Pages |-> 0]
    /\ pending = {}
    /\ op = [p \in Pages |-> Free]
    /\ late = {}
    /\ last = 0
    /\ overdue = {}

Admin(p) == \E kind \in Kinds \ {"retry"} : Begin(p, kind)

Next ==
    \/ \E p \in Pages :
          \/ Admin(p) \/ Retry(p) \/ PrepareFails(p)
          \/ WriteLocal(p) \/ WriteFails(p)
          \/ Apply(p) \/ Reply(p) \/ CallFails(p) \/ TimeOut(p)
          \/ Clear(p) \/ ClearFails(p) \/ Rollback(p) \/ RollbackFails(p)
    \/ \E call \in late : LateApply(call)
    \/ Restart

Spec == Init /\ [][Next]_vars

\* The threads of the Gateway keep running, the retry thread comes back every 5
\* seconds, and nothing fails for ever: a step that is tried again and again
\* succeeds some time.
FairSpec ==
    /\ Spec
    /\ \A p \in Pages :
          /\ WF_vars(WriteLocal(p) \/ WriteFails(p))
          /\ WF_vars(Rollback(p) \/ RollbackFails(p))
          /\ SF_vars(Retry(p))
          /\ SF_vars(Apply(p)) /\ SF_vars(Reply(p)) /\ SF_vars(Clear(p))

-----------------------------------------------------------------------------
(* Properties *)

TypeOK ==
    /\ local \in [Pages -> Versions]
    /\ published \in [Pages -> Versions]
    /\ pending \in SUBSET Pages
    /\ op \in [Pages -> Operation]
    /\ late \in SUBSET Call
    /\ last \in Versions
    /\ overdue \in SUBSET Pages

\* Whenever guests are held to another policy than the page the owner sees, the
\* page is marked, so the difference is known (previews are refused) and retried:
\* at every step of an edit, after any failure, rollback or restart.
DivergenceIsMarked ==
    \A p \in Pages : published[p] # local[p] => p \in pending

\* The one exception: a call that timed out at the Gateway and was carried out by
\* the policy store later, after the retry.  Nothing else leaves an unmarked
\* difference, and a restart ends it.
OnlyOverdueUnmarked ==
    \A p \in Pages : published[p] # local[p] => p \in pending \union overdue

\* Once the owner stops editing, every page ends up published as it is, a deleted
\* one unpublished, and unmarked, whatever failed on the way; with the same exception,
\* and even that page ends up unmarked.
Converges ==
    <>[](\A p \in Pages : p \notin pending /\ (published[p] = local[p] \/ p \in overdue))

-----------------------------------------------------------------------------
\* The inductive invariant: what an operation in flight has established.
OpInv ==
    \A p \in Pages :
        /\ op[p].pc # "idle" => p \in pending
        /\ op[p].pc \in {"reply", "clear"} /\ p \notin overdue => published[p] = local[p]

LateInv ==
    /\ \A call \in late : call.page \in overdue
    /\ ~LateCalls => overdue = {}

IInv == TypeOK /\ OpInv /\ LateInv /\ OnlyOverdueUnmarked
=============================================================================
