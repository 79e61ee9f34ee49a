---------------------------- MODULE CleanupRound ----------------------------
(***************************************************************************)
(* The Gateway's background thread (retry_cleanup in server.py).  Every 5  *)
(* seconds it completes interrupted revocations, removes expired grants    *)
(* and what belongs to them, reports what is queued, and publishes the     *)
(* policies that are marked.  All of this is one loop body in one try: an  *)
(* error that the except clause names ends the round, any other ends the   *)
(* thread, and nobody starts it again before the App is restarted.         *)
(*                                                                         *)
(* A page has at most one grant here; what happens inside a step is the    *)
(* subject of PageGrants, PolicyPublication and Activity.                  *)
(***************************************************************************)
EXTENDS Naturals

CONSTANTS
    Pages,
    Nobody,     \* no page is in hand
    Faults,     \* bound: errors that end a round
    BadReads    \* bound: reads of the recipients' file that fail

ASSUME ConstantsAssumption == Faults \in Nat /\ BadReads \in Nat /\ Nobody \notin Pages

VARIABLES
    thread,       \* what the thread does next
    todo,         \* the pages that it has listed and not yet looked at
    hand,         \* the page whose expired grant it is removing
    grant,        \* the grant of each page: none, live, expired
    revoking,     \* pages with a marker of an interrupted revocation
    queued,       \* pages with a row in the cleanup queue
    unpublished,  \* pages with a marker of an unfinished publication
    faults, badReads

round == <<thread, todo, hand>>
work == <<grant, revoking, queued, unpublished>>
bounds == <<faults, badReads>>
vars == <<round, work, bounds>>

Stages == {"recover", "expire", "address", "record", "drain", "publish"}

Init ==
    /\ thread = "sleep" /\ todo = {} /\ hand = Nobody
    /\ grant = [p \in Pages |-> "none"] /\ revoking = {} /\ queued = {} /\ unpublished = {}
    /\ faults = 0 /\ badReads = 0

-----------------------------------------------------------------------------
(* What the others do                                                      *)

CreateGrant(p) ==
    /\ grant[p] = "none" /\ p \notin revoking /\ hand # p
    /\ grant' = [grant EXCEPT ![p] = "live"]
    /\ UNCHANGED <<round, revoking, queued, unpublished, bounds>>

Elapse(p) ==
    /\ grant[p] = "live"
    /\ grant' = [grant EXCEPT ![p] = "expired"]
    /\ UNCHANGED <<round, revoking, queued, unpublished, bounds>>

\* The owner's revocation of a page fails after its marker is written.
Interrupt(p) ==
    /\ grant[p] # "none" /\ p \notin revoking /\ hand # p
    /\ revoking' = revoking \union {p}
    /\ UNCHANGED <<round, grant, queued, unpublished, bounds>>

\* The publication of an edit fails.
Edit(p) ==
    /\ p \notin unpublished
    /\ unpublished' = unpublished \union {p}
    /\ UNCHANGED <<round, grant, revoking, queued, bounds>>

-----------------------------------------------------------------------------
(* A round                                                                 *)

Begin ==
    /\ thread = "sleep" /\ thread' = "recover" /\ todo' = revoking /\ hand' = Nobody
    /\ UNCHANGED <<work, bounds>>

\* The grant's cleanup is queued, the page is cut, the marker removed.
Recover(p) ==
    /\ thread = "recover" /\ p \in todo
    /\ todo' = todo \ {p}
    /\ revoking' = revoking \ {p} /\ queued' = queued \union {p}
    /\ grant' = [grant EXCEPT ![p] = "none"]
    /\ UNCHANGED <<thread, hand, unpublished, bounds>>
ListPages ==
    /\ thread = "recover" /\ todo = {}
    /\ thread' = "expire" /\ todo' = Pages
    /\ UNCHANGED <<hand, work, bounds>>

\* Mutant: the cleanup of an expired grant is left to the owner's next visit.
ExpireLater(p) ==
    /\ thread = "expire" /\ hand = Nobody /\ p \in todo
    /\ todo' = todo \ {p}
    /\ UNCHANGED <<thread, hand, work, bounds>>
\* expire_access_grants; the grants of a page with a marker are hidden from it.
Expire(p) ==
    /\ thread = "expire" /\ hand = Nobody /\ p \in todo
    /\ todo' = todo \ {p}
    /\ IF grant[p] = "expired" /\ p \notin revoking
       THEN /\ grant' = [grant EXCEPT ![p] = "none"] /\ queued' = queued \union {p}
            /\ thread' = "address" /\ hand' = p
       ELSE UNCHANGED <<thread, hand, grant, queued>>
    /\ UNCHANGED <<revoking, unpublished, bounds>>

\* The sessions, which raises nothing; the recipient's address; the activity record.
DeleteAddress ==
    /\ thread = "address" /\ thread' = "record"
    /\ UNCHANGED <<todo, hand, work, bounds>>
MarkRevoked ==
    /\ thread = "record" /\ thread' = "expire" /\ hand' = Nobody
    /\ UNCHANGED <<todo, work, bounds>>

DrainBegin ==
    /\ thread = "expire" /\ hand = Nobody /\ todo = {}
    /\ thread' = "drain" /\ todo' = queued
    /\ UNCHANGED <<hand, work, bounds>>
\* The broker accepts a row, or the row gets a later time: no error.
Drain(p) ==
    /\ thread = "drain" /\ p \in todo
    /\ todo' = todo \ {p} /\ queued' = queued \ {p}
    /\ UNCHANGED <<thread, hand, grant, revoking, unpublished, bounds>>
Defer(p) ==
    /\ thread = "drain" /\ p \in todo /\ faults < Faults /\ faults' = faults + 1
    /\ todo' = todo \ {p}
    /\ UNCHANGED <<thread, hand, work, badReads>>

PublishBegin ==
    /\ thread = "drain" /\ todo = {}
    /\ thread' = "publish" /\ todo' = unpublished
    /\ UNCHANGED <<hand, work, bounds>>
\* Mutant: a page is passed over in every round.
PublishOrDrop(p) ==
    /\ thread = "publish" /\ p \in todo
    /\ todo' = todo \ {p}
    /\ UNCHANGED <<thread, hand, work, bounds>>
Publish(p) ==
    /\ thread = "publish" /\ p \in todo
    /\ todo' = todo \ {p} /\ unpublished' = unpublished \ {p}
    /\ UNCHANGED <<thread, hand, grant, revoking, queued, bounds>>
End ==
    /\ thread = "publish" /\ todo = {} /\ thread' = "sleep"
    /\ UNCHANGED <<todo, hand, work, bounds>>

\* OSError, sqlite3.Error, PolicyPublishError or PageConfigError: a file that cannot be
\* read or written, a page that is gone, a store that does not answer.  The rest of the
\* round is dropped.
Caught ==
    /\ thread \in Stages /\ faults < Faults /\ faults' = faults + 1
    /\ thread' = "sleep" /\ todo' = {} /\ hand' = Nobody
    /\ UNCHANGED <<work, badReads>>

\* EmailConfigError, which is a ValueError: the recipients' file cannot be read or is not
\* JSON.  It is caught wherever else an address is deleted, but not here.  Any other error
\* outside the four kinds of Caught would end the thread in the same way, from any stage;
\* the properties except a thread that is dead, for whatever reason.
Uncaught ==
    /\ thread = "address" /\ badReads < BadReads /\ badReads' = badReads + 1
    /\ thread' = "dead" /\ todo' = {} /\ hand' = Nobody
    /\ UNCHANGED <<work, faults>>

\* The App is restarted, which begins with the recovery.
Restart ==
    /\ faults < Faults /\ faults' = faults + 1
    /\ thread' = "sleep" /\ todo' = {} /\ hand' = Nobody
    /\ grant' = [p \in Pages |-> IF p \in revoking THEN "none" ELSE grant[p]]
    /\ queued' = queued \union revoking /\ revoking' = {}
    /\ UNCHANGED <<unpublished, badReads>>

-----------------------------------------------------------------------------
OthersStep(p) == CreateGrant(p) \/ Elapse(p) \/ Interrupt(p) \/ Edit(p)
RoundStep ==
    \/ Begin \/ ListPages \/ DeleteAddress \/ MarkRevoked \/ DrainBegin \/ PublishBegin \/ End
    \/ \E p \in Pages : Recover(p) \/ Expire(p) \/ Drain(p) \/ Publish(p)
FaultStep == Caught \/ Uncaught \/ Restart \/ \E p \in Pages : Defer(p)
Next == RoundStep \/ FaultStep \/ \E p \in Pages : OthersStep(p)

Spec == Init /\ [][Next]_vars
\* The thread runs; the owner, the guests and a restart need not come.
FairSpec == Spec /\ WF_vars(RoundStep)

-----------------------------------------------------------------------------
TypeOK ==
    /\ thread \in Stages \union {"sleep", "dead"} /\ todo \subseteq Pages
    /\ hand \in Pages \union {Nobody} /\ (hand # Nobody) <=> (thread \in {"address", "record"})
    /\ grant \in [Pages -> {"none", "live", "expired"}]
    /\ revoking \subseteq Pages /\ queued \subseteq Pages /\ unpublished \subseteq Pages
    /\ faults \in 0 .. Faults /\ badReads \in 0 .. BadReads

\* Every expired grant is removed in the end, whatever else goes wrong in the rounds, and
\* although no owner or guest comes by (server.py:1431, "Expiry cleanup must not depend on
\* another visitor or the owner opening the admin page after the deadline").
ExpiryHandled == \A p \in Pages : grant[p] = "expired" ~> grant[p] = "none"

\* So it is, unless an error that the loop does not catch has ended the thread for good.
ExpiryHandledAlive == ExpiryHandled \/ <>[](thread = "dead")

\* What is queued is reported, and what is marked is published, in the end: the stages
\* before them, which may end the round, do not keep them from it for ever, as long as the
\* thread is there.
BacklogWorkedOff ==
    \/ \A p \in Pages : (p \in queued ~> p \notin queued) /\ (p \in unpublished ~> p \notin unpublished)
    \/ <>[](thread = "dead")
=============================================================================
