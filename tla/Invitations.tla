---------------------------- MODULE Invitations ----------------------------
(***************************************************************************)
(* The LayerV broker (layerv_broker.py, guest_resources.py, layerv.py):    *)
(* how the invitation of a grant comes into being at LayerV, and how the   *)
(* broker gets rid of it when it is not, or no longer, wanted.             *)
(*                                                                         *)
(* An invitation lives on a resource: one of the guest's own ("guest"      *)
(* isolation) or the current generation of its page's pool ("page").       *)
(* Minting allocates a row for the resource, publishes it, writes a        *)
(* journal entry (pools only), creates the invitation, saves the mapping,  *)
(* and answers the Gateway, which then commits the grant.  Every one of    *)
(* these may be the last before a crash, and every answer may be lost.     *)
(* What was left behind is found again by the reconciliation thread, from  *)
(* four durable records: resource rows, mappings, the journal, and the     *)
(* queue of deferred revocations.  STORE_LOCK serialises minting, deletion *)
(* and reconciliation (op); the Gateway and LayerV do not know it.         *)
(***************************************************************************)
EXTENDS Naturals, FiniteSets

CONSTANTS
    MaxGrants,      \* bound: grants that are ever asked for
    Pages,          \* page ids
    PageOf,         \* the page a grant is for
    MaxGeneration,  \* bound: generations of a page's pool
    Modes,          \* the isolation modes the owner chooses from
    ScanLimit,      \* rows that one orphan scan looks at (50 in the code)
    None, Gone,     \* no resource: never there, or deleted
    SlowMints       \* the values that slow may have

Grants == 1 .. MaxGrants   \* numbered in the order in which the broker starts them

ASSUME MaxGrantsAssumption == MaxGrants \in Nat
ASSUME PagesAssumption == PageOf \in [Grants -> Pages]
ASSUME PagesNotGrants == Pages \cap Grants = {}
ASSUME BoundsAssumption == MaxGeneration \in Nat /\ ScanLimit \in Nat /\ SlowMints \subseteq BOOLEAN

Resources == (Grants \X {0}) \cup (Pages \X (0 .. MaxGeneration))
Own(g) == <<g, 0>>         \* the resource of a guest
Pool(p, n) == <<p, n>>     \* the n-th resource of a page
ASSUME ModesAssumption == Modes \subseteq {"guest", "page"} /\ Modes # {}
ASSUME NoResource == {None, Gone} \cap Resources = {} /\ None # Gone

VARIABLES
    gateway,     \* [Grants -> ...]: the grant, as the Gateway's handlers and page file have it
    posted,      \* grants whose POST /v1/grants waits for STORE_LOCK
    pageUp,      \* pages that exist
    mode,        \* RESOURCE_ISOLATION of this start of the App
    enrolled,    \* has the Connector an identity
    phase,       \* [Resources -> ...]: table resources; a row is in table retirements iff it is
                 \* retiring; "void" is a revoked row whose resource was never confirmed
    generation,  \* [Pages -> 0 .. MaxGeneration]: table page_generations
    mapping,     \* [Grants -> Resources or None]: the mapping files
    journal,     \* [Grants -> Resources or None]: table mints
    revq,        \* [Grants -> {"none", "waiting", "due"}]: table revocations
    op,          \* what the holder of STORE_LOCK is doing
    up,          \* at LayerV: resources that exist
    inv,         \* at LayerV: the resource an invitation is on
    slow,        \* never changes: may a mint take longer than the grace of 300 seconds
    faulty,      \* may calls, files and processes still fail
    notice,      \* history: grants that ended less than 15 seconds ago
    pulled       \* history: those of them whose page was deleted, or the connection reset

gw == <<gateway, posted, pageUp>>
store == <<phase, generation, mapping, journal, revq>>
layerv == <<up, inv>>
env == <<mode, slow, faulty>>
history == <<notice, pulled>>
vars == <<gw, env, enrolled, store, op, layerv, history>>

Op(pc, g, r, pass) == [pc |-> pc, g |-> g, r |-> r, pass |-> pass]
Idle == Op("idle", 0, None, 0)
Passes == 1 .. 5  \* revocations, orphans, pools, retirements, journal
PCs == {"idle", "publish", "create", "save", "undo", "reply",           \* create_grant
        "retire",                                                       \* GuestResources.revoke
        "round", "drop", "unlink", "dequeue", "resume", "sweep"}        \* reconcile_once

Usable(g) == inv[g] \in up
Live(g) == mapping[g] # None /\ gateway[g] = "live"   \* _gateway_grant_live
Settled(g) == gateway[g] \notin {"asked", "answered"}

Goto(pc) == op' = Op(pc, op.g, op.r, op.pass)
\* Done with an item: a handler releases the lock, the thread goes on with its round.
Done == op' = IF op.pass = 0 THEN Idle ELSE Op("round", 0, None, op.pass)

Init ==
    /\ gateway = [g \in Grants |-> "none"]
    /\ posted = {}
    /\ pageUp = Pages
    /\ mode \in Modes
    /\ enrolled = FALSE
    /\ phase = [r \in Resources |-> "none"]
    /\ generation = [p \in Pages |-> 0]
    /\ mapping = [g \in Grants |-> None]
    /\ journal = [g \in Grants |-> None]
    /\ revq = [g \in Grants |-> "none"]
    /\ op = Idle
    /\ slow \in SlowMints
    /\ faulty = TRUE
    /\ up = {}
    /\ inv = [g \in Grants |-> None]
    /\ notice = {} /\ pulled = {}

-----------------------------------------------------------------------------
(* The Gateway.  A handler holds its page's lock from the request to the   *)
(* commit, so a page is not deleted, and no other grant of it asked for,   *)
(* in between.                                                             *)

PageFree(p) == \A g \in Grants : PageOf[g] = p => Settled(g)

Ask(g) ==
    /\ gateway[g] = "none" /\ PageOf[g] \in pageUp /\ PageFree(PageOf[g])
    /\ gateway' = [gateway EXCEPT ![g] = "asked"]
    /\ posted' = posted \cup {g}
    /\ UNCHANGED <<pageUp, env, enrolled, store, op, layerv, history>>

\* An error, a lost answer, or none for 360 seconds: the broker may still be at work.
GiveUp(g) ==
    /\ gateway[g] = "asked"
    /\ gateway' = [gateway EXCEPT ![g] = "failed"]
    /\ UNCHANGED <<posted, pageUp, env, enrolled, store, op, layerv, history>>

Commit(g) ==
    /\ gateway[g] = "answered"
    /\ gateway' = [gateway EXCEPT ![g] = "live"]
    /\ UNCHANGED <<posted, pageUp, env, enrolled, store, op, layerv, history>>

\* The recipient or the page could not be written.
CommitFails(g) ==
    /\ gateway[g] = "answered" /\ faulty
    /\ gateway' = [gateway EXCEPT ![g] = "failed"]
    /\ UNCHANGED <<posted, pageUp, env, enrolled, store, op, layerv, history>>

\* Revoked or expired: the local grant goes first.
End(g) ==
    /\ gateway[g] = "live"
    /\ gateway' = [gateway EXCEPT ![g] = "over"]
    /\ notice' = notice \cup {g}
    /\ UNCHANGED <<posted, pageUp, env, enrolled, store, op, layerv, pulled>>

DeletePage(p) ==
    /\ p \in pageUp /\ PageFree(p)
    /\ gateway' = [g \in Grants |->
                    IF PageOf[g] = p /\ gateway[g] = "live" THEN "over" ELSE gateway[g]]
    /\ pageUp' = pageUp \ {p}
    /\ notice' = notice \cup {g \in Grants : PageOf[g] = p /\ gateway[g] = "live"}
    /\ pulled' = pulled \cup {g \in notice' : PageOf[g] = p}
    /\ UNCHANGED <<posted, env, enrolled, store, op, layerv>>

CreatePage(p) ==
    /\ p \notin pageUp
    /\ pageUp' = pageUp \cup {p}
    /\ UNCHANGED <<gateway, posted, env, enrolled, store, op, layerv, history>>

-----------------------------------------------------------------------------
(* Deferred revocation.                                                    *)

\* Mutant: a new request makes the row due at once.
EnqueueDue(g) == revq' = [revq EXCEPT ![g] = "due"]
\* INSERT OR IGNORE: a row that is there keeps its time.
Enqueue(g) == revq' = [revq EXCEPT ![g] = IF @ = "none" THEN "waiting" ELSE @]

\* The Gateway's cleanup queue, or a handler, reports a grant that is over or was not
\* committed: DELETE ...?defer=15.  It does so without STORE_LOCK.
Report(g) ==
    /\ gateway[g] \in {"over", "failed"} /\ mapping[g] # None
    /\ Enqueue(g)
    /\ UNCHANGED <<gw, env, enrolled, phase, generation, mapping, journal, op, layerv, history>>

\* Without a mapping it is a deletion of what the grant owns (revoke_owned).  With no
\* row there is nothing to do; a row in creation is left to the orphan scan.
ReportUnmapped(g) ==
    /\ gateway[g] \in {"over", "failed"} /\ mapping[g] = None /\ op = Idle
    /\ phase[Own(g)] \in {"ready", "retiring"}
    /\ op' = Op("retire", g, Own(g), 0)
    /\ UNCHANGED <<gw, env, enrolled, store, layerv, history>>

\* 15 seconds pass.  A row is written after the mapping is; by the time it is due, the
\* Gateway has committed the grant or given up.
WindowPasses(g) ==
    /\ revq[g] = "waiting" /\ Settled(g)
    /\ revq' = [revq EXCEPT ![g] = "due"]
    /\ notice' = notice \ {g} /\ pulled' = pulled \ {g}
    /\ UNCHANGED <<gw, env, enrolled, phase, generation, mapping, journal, op, layerv>>

NoticeOver(g) ==
    /\ g \in notice /\ revq[g] # "waiting"
    /\ notice' = notice \ {g} /\ pulled' = pulled \ {g}
    /\ UNCHANGED <<gw, env, enrolled, store, op, layerv>>

-----------------------------------------------------------------------------
(* create_grant                                                            *)

\* A pool that was revoked is followed by the next one.
PoolGeneration(p) ==
    IF phase[Pool(p, generation[p])] \in {"revoked", "void"} THEN generation[p] + 1 ELSE generation[p]

\* Mutant: the request is carried out again.
MintRepeats(g) ==
    LET p == PageOf[g]
        n == PoolGeneration(p)
        r == IF mode = "guest" THEN Own(g) ELSE Pool(p, n)
    IN  /\ op = Idle /\ g \in posted
        /\ \A h \in Grants : h < g => gateway[h] # "none" /\ h \notin posted
        /\ p \in pageUp /\ mapping[g] = None
        /\ n <= MaxGeneration
        /\ phase[r] \in {"none", "creating", "ready"}
        /\ generation' = IF mode = "page" THEN [generation EXCEPT ![p] = n] ELSE generation
        /\ phase' = [phase EXCEPT ![r] = IF @ = "none" THEN "creating" ELSE @]
        /\ op' = Op("publish", g, r, 0)
        /\ UNCHANGED <<gw, env, enrolled, mapping, journal, revq, layerv, history>>
\* GuestResources.ensure up to the row of the resource
MintBegin(g) ==
    LET p == PageOf[g]
        n == PoolGeneration(p)
        r == IF mode = "guest" THEN Own(g) ELSE Pool(p, n)
    IN  /\ op = Idle /\ g \in posted
        /\ \A h \in Grants : h < g => gateway[h] # "none" /\ h \notin posted
        /\ p \in pageUp /\ mapping[g] = None
        /\ n <= MaxGeneration
        /\ phase[r] \in {"none", "creating", "ready"}
        /\ posted' = posted \ {g}
        /\ generation' = IF mode = "page" THEN [generation EXCEPT ![p] = n] ELSE generation
        /\ phase' = [phase EXCEPT ![r] = IF @ = "none" THEN "creating" ELSE @]
        /\ op' = Op("publish", g, r, 0)
        /\ UNCHANGED <<gateway, pageUp, env, enrolled, mapping, journal, revq, layerv, history>>

\* Validation, an endpoint that is not ready, a Connector to be recovered, a resource
\* that is being retired: the request is refused before anything is written.
MintRefuse(g) ==
    /\ op = Idle /\ g \in posted
    /\ \A h \in Grants : h < g => gateway[h] # "none" /\ h \notin posted
    /\ posted' = posted \ {g}
    /\ UNCHANGED <<gateway, pageUp, env, enrolled, store, op, layerv, history>>

\* Mutant: no journal.
PublishUnjournalled ==
    /\ op.pc = "publish"
    /\ up' = IF phase[op.r] = "creating" THEN up \cup {op.r} ELSE up
    /\ phase' = [phase EXCEPT ![op.r] = "ready"]
    /\ enrolled' = TRUE
    /\ Goto("create")
    /\ UNCHANGED <<gw, env, generation, mapping, journal, revq, inv, history>>
\* The publisher confirms the resource, after enrolling if it has to, and in page mode
\* the journal entry is written before the invitation is asked for.
Publish ==
    /\ op.pc = "publish"
    /\ up' = IF phase[op.r] = "creating" THEN up \cup {op.r} ELSE up
    /\ phase' = [phase EXCEPT ![op.r] = "ready"]
    /\ enrolled' = TRUE
    /\ journal' = IF op.r = Own(op.g) THEN journal ELSE [journal EXCEPT ![op.g] = op.r]
    /\ Goto("create")
    /\ UNCHANGED <<gw, env, generation, mapping, revq, inv, history>>

\* No answer from the Connector: LayerV may have the resource all the same.
PublishFails ==
    /\ op.pc \in {"publish", "resume"} /\ faulty
    /\ up' \in IF phase[op.r] = "creating" THEN {up, up \cup {op.r}} ELSE {up}
    /\ enrolled' \in {enrolled, TRUE}
    /\ Done
    /\ UNCHANGED <<gw, env, store, inv, history>>

CreateInvitation ==
    /\ op.pc = "create" /\ op.r \in up
    /\ inv' = [inv EXCEPT ![op.g] = op.r]
    /\ Goto("save")
    /\ UNCHANGED <<gw, env, enrolled, store, up, history>>

\* A refusal, a lost answer, or one without the confirmation asked for.  The guest's own
\* resource is retired rather than guessing the id of the invitation.
CreateFails ==
    /\ op.pc = "create" /\ faulty
    /\ inv' \in {inv} \cup IF op.r \in up THEN {[inv EXCEPT ![op.g] = op.r]} ELSE {}
    /\ IF op.r = Own(op.g) THEN Goto("retire") ELSE Done
    /\ UNCHANGED <<gw, env, enrolled, store, up, history>>

\* An answer about another resource is not acted upon.
CreateMismatch ==
    /\ op.pc = "create" /\ op.r \in up /\ faulty
    /\ inv' = [inv EXCEPT ![op.g] = op.r]
    /\ Done
    /\ UNCHANGED <<gw, env, enrolled, store, up, history>>

SaveMapping ==
    /\ op.pc = "save"
    /\ mapping' = [mapping EXCEPT ![op.g] = op.r]
    /\ Goto("reply")
    /\ UNCHANGED <<gw, env, enrolled, phase, generation, journal, revq, layerv, history>>

\* The write fails, or only the sync of the directory after it.
SaveFails ==
    /\ op.pc = "save" /\ faulty
    /\ mapping' \in {mapping, [mapping EXCEPT ![op.g] = op.r]}
    /\ Goto("undo")
    /\ UNCHANGED <<gw, env, enrolled, phase, generation, journal, revq, layerv, history>>

\* delete_qurl and, for a guest's own resource, its retirement; neither need succeed.
Undo ==
    /\ op.pc = "undo"
    /\ inv' \in {inv, [inv EXCEPT ![op.g] = Gone]}
    /\ IF op.r = Own(op.g) THEN Goto("retire") ELSE Done
    /\ UNCHANGED <<gw, env, enrolled, store, up, history>>

\* The answer; the Gateway may no longer be waiting.
Reply ==
    /\ op.pc = "reply"
    /\ gateway' = [gateway EXCEPT ![op.g] = IF @ = "asked" THEN "answered" ELSE @]
    /\ Done
    /\ UNCHANGED <<posted, pageUp, env, enrolled, store, layerv, history>>

-----------------------------------------------------------------------------
(* GuestResources.revoke.  The row is marked as retiring, with a row in    *)
(* table retirements, before LayerV is asked, and as revoked only after it *)
(* has confirmed; a crash in between leaves it retiring.                   *)

RetireOk(r) ==
    /\ up' = up \ {r}
    /\ phase' = [phase EXCEPT ![r] = "revoked"]
\* Mutant: what could not be retired is forgotten.
RetireForgets(r) ==
    /\ faulty
    /\ up' \in {up, up \ {r}}
    /\ phase' = [phase EXCEPT ![r] = "revoked"]
RetireFails(r) ==
    /\ faulty
    /\ up' \in {up, up \ {r}}
    /\ phase' = [phase EXCEPT ![r] = IF @ = "revoked" THEN @ ELSE "retiring"]

Retire ==
    /\ op.pc = "retire"
    /\ RetireOk(op.r)
    /\ Done
    /\ UNCHANGED <<gw, env, enrolled, generation, mapping, journal, revq, inv, history>>

RetireLater ==
    /\ op.pc = "retire"
    /\ RetireFails(op.r)
    /\ Done
    /\ UNCHANGED <<gw, env, enrolled, generation, mapping, journal, revq, inv, history>>

-----------------------------------------------------------------------------
(* reconcile_once                                                          *)

Pick(pc, g, r) == op' = Op(pc, g, r, op.pass)
InPass(n) == op.pc = "round" /\ op.pass = n

\* The first ScanLimit rows, in the order in which they were inserted.  A row that failed
\* is put off for a while and does not count; the row of a live grant does.
Row(g) == phase[Own(g)] \in {"creating", "ready"}
Scanned(g) ==
    /\ Row(g)
    /\ Cardinality({h \in Grants : h < g /\ Row(h) /\ Live(h)}) < ScanLimit
\* A row, or a journal entry, is looked at when it is 300 seconds old.  By then the
\* Gateway has settled the grant, unless the mint took that long itself.
Old(g) == Settled(g) \/ slow

\* Has the pass something to do?
Pending ==
    CASE op.pass = 1 -> \E g \in Grants : revq[g] = "due" /\ ~Live(g)
      [] op.pass = 2 -> \E g \in Grants : Scanned(g) /\ Old(g) /\ ~Live(g)
                                            /\ (mapping[g] # None => revq[g] = "none")
      [] op.pass = 3 -> \E p \in Pages \ pageUp : phase[Pool(p, generation[p])] = "ready"
      [] op.pass = 4 -> \E r \in Resources : phase[r] = "retiring"
      [] OTHER -> \E g \in Grants : journal[g] # None /\ Old(g)

RoundBegin ==
    /\ op = Idle /\ enrolled
    /\ op' = Op("round", 0, None, 1)
    /\ UNCHANGED <<gw, env, enrolled, store, layerv, history>>

\* Without failures a pass is over when it has nothing left to do; a row that failed is
\* put off, and a row may be too young.
NextPass ==
    /\ op.pc = "round" /\ (faulty \/ ~Pending)
    /\ op' = IF op.pass = 5 THEN Idle ELSE Op("round", 0, None, op.pass + 1)
    /\ UNCHANGED <<gw, env, enrolled, store, layerv, history>>

\* A file or a database that cannot be read ends the round.
RoundFails ==
    /\ op.pass > 0 /\ faulty
    /\ op' = Idle
    /\ UNCHANGED <<gw, env, enrolled, store, layerv, history>>

\* Mutant: the Gateway is not asked.
DrainUnchecked(g) ==
    /\ InPass(1) /\ revq[g] = "due"
    /\ Pick("drop", g, mapping[g])
    /\ UNCHANGED <<gw, env, enrolled, store, layerv, history>>
\* drain_revocations: never one that is still authorized
DrainCheck(g) ==
    /\ InPass(1) /\ revq[g] = "due" /\ ~Live(g)
    /\ Pick("drop", g, mapping[g])
    /\ UNCHANGED <<gw, env, enrolled, store, layerv, history>>

\* delete_grant of an invitation on a pool
DropInvitation ==
    /\ op.pc = "drop" /\ op.r \notin {None, Own(op.g)}
    /\ \/ /\ inv' = [inv EXCEPT ![op.g] = Gone]
          /\ Goto("unlink")
       \/ /\ faulty
          /\ inv' \in {inv, [inv EXCEPT ![op.g] = Gone]}
          /\ Done
    /\ UNCHANGED <<gw, env, enrolled, store, up, history>>

\* delete_grant of an invitation on the guest's own resource
DropResource ==
    /\ op.pc = "drop" /\ op.r = Own(op.g)
    /\ \/ RetireOk(op.r) /\ Goto("unlink")
       \/ RetireFails(op.r) /\ phase[op.r] # "revoked" /\ Done
    /\ UNCHANGED <<gw, env, enrolled, generation, mapping, journal, revq, inv, history>>

\* delete_grant without a mapping: revoke_owned
DropUnmapped ==
    /\ op.pc = "drop" /\ op.r = None
    /\ \/ /\ phase[Own(op.g)] \in {"none", "revoked"}
          /\ Goto("dequeue")
          /\ UNCHANGED <<phase, up>>
       \/ /\ phase[Own(op.g)] \in {"ready", "retiring"}
          /\ \/ RetireOk(Own(op.g)) /\ Goto("dequeue")
             \/ RetireFails(Own(op.g)) /\ Done
    /\ UNCHANGED <<gw, env, enrolled, generation, mapping, journal, revq, inv, history>>

Unlink ==
    /\ op.pc = "unlink"
    /\ mapping' = [mapping EXCEPT ![op.g] = None]
    /\ Goto("dequeue")
    /\ UNCHANGED <<gw, env, enrolled, phase, generation, journal, revq, layerv, history>>

Dequeue ==
    /\ op.pc = "dequeue"
    /\ revq' = [revq EXCEPT ![op.g] = "none"]
    /\ Done
    /\ UNCHANGED <<gw, env, enrolled, phase, generation, mapping, journal, layerv, history>>

\* retire_orphans: a grant with a mapping that is not live is left to the queue.
OrphanCheck(g) ==
    /\ InPass(2) /\ Scanned(g) /\ Old(g) /\ ~Live(g)
    /\ \/ /\ mapping[g] # None
          /\ Enqueue(g)
          /\ UNCHANGED op
       \/ /\ mapping[g] = None
          /\ Pick(IF phase[Own(g)] = "creating" THEN "resume" ELSE "retire", g, Own(g))
          /\ UNCHANGED revq
    /\ UNCHANGED <<gw, env, enrolled, phase, generation, mapping, journal, layerv, history>>

\* The stable id finds the resource whose publication was interrupted; then it is retired.
Resume ==
    /\ op.pc = "resume"
    /\ up' = up \cup {op.r}
    /\ phase' = [phase EXCEPT ![op.r] = "ready"]
    /\ Goto("retire")
    /\ UNCHANGED <<gw, env, enrolled, generation, mapping, journal, revq, inv, history>>

\* retire_deleted_page_pools
PoolCheck(p) ==
    /\ InPass(3) /\ p \notin pageUp /\ phase[Pool(p, generation[p])] = "ready"
    /\ Pick("retire", 0, Pool(p, generation[p]))
    /\ UNCHANGED <<gw, env, enrolled, store, layerv, history>>

\* drain_retirements
RetirementCheck(r) ==
    /\ InPass(4) /\ phase[r] = "retiring"
    /\ Pick("retire", 0, r)
    /\ UNCHANGED <<gw, env, enrolled, store, layerv, history>>

\* Mutant: a mapping is taken for a grant that was committed.
JournalTrusting(g) ==
    /\ InPass(5) /\ journal[g] # None /\ Old(g)
    /\ \/ /\ mapping[g] # None
          /\ journal' = [journal EXCEPT ![g] = None]
          /\ UNCHANGED <<op, revq>>
       \/ /\ mapping[g] = None
          /\ Pick("sweep", g, journal[g])
          /\ UNCHANGED <<journal, revq>>
    /\ UNCHANGED <<gw, env, enrolled, phase, generation, mapping, layerv, history>>
\* PendingInvitations.drain
JournalCheck(g) ==
    /\ InPass(5) /\ journal[g] # None /\ Old(g)
    /\ \/ /\ mapping[g] # None
          /\ journal' = [journal EXCEPT ![g] = None]
          /\ IF Live(g) THEN UNCHANGED revq ELSE Enqueue(g)
          /\ UNCHANGED op
       \/ /\ mapping[g] = None
          /\ Pick("sweep", g, journal[g])
          /\ UNCHANGED <<journal, revq>>
    /\ UNCHANGED <<gw, env, enrolled, phase, generation, mapping, layerv, history>>

\* The invitations of the resource with the label of this mint are deleted.
Sweep ==
    /\ op.pc = "sweep"
    /\ \/ /\ inv' = [inv EXCEPT ![op.g] = IF @ = op.r THEN Gone ELSE @]
          /\ journal' = [journal EXCEPT ![op.g] = None]
       \/ /\ faulty
          /\ inv' \in {inv, [inv EXCEPT ![op.g] = IF @ = op.r THEN Gone ELSE @]}
          /\ UNCHANGED journal
    /\ Done
    /\ UNCHANGED <<gw, env, enrolled, phase, generation, mapping, revq, up, history>>

-----------------------------------------------------------------------------
Stopped == [g \in Grants |-> IF Settled(g) THEN gateway[g] ELSE "failed"]

\* All processes stop, and start again, perhaps with another isolation mode.
Restart ==
    /\ faulty
    /\ gateway' = Stopped
    /\ posted' = {}
    /\ op' = Idle
    /\ mode' \in Modes
    /\ UNCHANGED <<pageUp, slow, faulty, enrolled, store, layerv, history>>

\* A reset of the connection: the Gateway has revoked all grants, the processes are
\* stopped, and invalidate_for_reset turns every row into one to be retired.
Renamed(p) == phase[Pool(p, generation[p])] \notin {"none", "revoked", "void"}
Reset ==
    /\ \A p \in Pages : Renamed(p) => generation[p] < MaxGeneration
    /\ gateway' = [g \in Grants |-> IF gateway[g] = "live" THEN "over" ELSE Stopped[g]]
    /\ posted' = {}
    /\ op' = Idle
    /\ phase' = [r \in Resources |-> CASE phase[r] = "creating" -> "void"
                                       [] phase[r] = "ready" -> "retiring"
                                       [] OTHER -> phase[r]]
    /\ generation' = [p \in Pages |-> IF Renamed(p) THEN generation[p] + 1 ELSE generation[p]]
    /\ enrolled' = FALSE
    /\ mode' \in Modes
    /\ notice' = notice \cup {g \in Grants : gateway[g] = "live"} /\ pulled' = notice'
    /\ UNCHANGED <<pageUp, slow, faulty, mapping, journal, revq, layerv>>

\* The last failure for a long time.
Calm ==
    /\ faulty
    /\ faulty' = FALSE
    /\ UNCHANGED <<gw, mode, slow, enrolled, store, op, layerv, history>>

-----------------------------------------------------------------------------
GatewayStep(g) ==
    Ask(g) \/ GiveUp(g) \/ Commit(g) \/ CommitFails(g) \/ End(g)
      \/ Report(g) \/ ReportUnmapped(g) \/ WindowPasses(g) \/ NoticeOver(g)
PageStep(p) == DeletePage(p) \/ CreatePage(p)
MintStep ==
    \/ \E g \in Grants : MintBegin(g) \/ MintRefuse(g)
    \/ Publish \/ PublishFails \/ CreateInvitation \/ CreateFails \/ CreateMismatch
    \/ SaveMapping \/ SaveFails \/ Undo \/ Reply
RetireStep == Retire \/ RetireLater
DropStep == DropInvitation \/ DropResource \/ DropUnmapped \/ Unlink \/ Dequeue
CheckStep ==
    \/ \E g \in Grants : DrainCheck(g) \/ OrphanCheck(g) \/ JournalCheck(g)
    \/ \E p \in Pages : PoolCheck(p)
    \/ \E r \in Resources : RetirementCheck(r)
RoundStep == RoundBegin \/ NextPass \/ RoundFails \/ CheckStep \/ DropStep \/ Resume \/ Sweep

Next ==
    \/ \E g \in Grants : GatewayStep(g)
    \/ \E p \in Pages : PageStep(p)
    \/ MintStep \/ RetireStep \/ RoundStep
    \/ Restart \/ Reset

\* The lock holder goes on (every call has a timeout), the thread comes back every 5
\* seconds, the Gateway's queue reports a grant that is over until it is gone, and some
\* time the failures stop for long enough.
Fairness ==
    /\ \A g \in Grants :
        /\ WF_vars(GiveUp(g)) /\ WF_vars(Commit(g)) /\ WF_vars(WindowPasses(g))
        /\ WF_vars(gateway[g] = "over" /\ Report(g))
    /\ WF_vars((MintStep \/ RetireStep \/ RoundStep) /\ op.pc # "idle")
    /\ WF_vars(RoundBegin)
    /\ WF_vars(Calm)

\* Anything may fail at any time; for liveness, only until the failures stop.
Spec == Init /\ [][Next]_vars
FairSpec == Init /\ [][Next \/ Calm]_vars /\ Fairness

-----------------------------------------------------------------------------
TypeOK ==
    /\ gateway \in [Grants -> {"none", "asked", "answered", "live", "failed", "over"}]
    /\ posted \subseteq Grants
    /\ pageUp \subseteq Pages
    /\ mode \in {"guest", "page"}
    /\ {enrolled, slow, faulty} \subseteq BOOLEAN
    /\ phase \in [Resources -> {"none", "creating", "ready", "retiring", "revoked", "void"}]
    /\ generation \in [Pages -> 0 .. MaxGeneration]
    /\ mapping \in [Grants -> Resources \cup {None}]
    /\ journal \in [Grants -> Resources \cup {None}]
    /\ revq \in [Grants -> {"none", "waiting", "due"}]
    /\ op \in [pc: PCs, g: Grants \cup {0}, r: Resources \cup {None}, pass: 0 .. 5]
    /\ up \subseteq Resources
    /\ inv \in [Grants -> Resources \cup {None, Gone}]
    /\ notice \subseteq Grants /\ pulled \subseteq notice

\* An invitation of a grant that the Gateway has in force is never withdrawn
\* (layerv_broker.py:337, "Never retire an invitation that is still authorized"): neither by
\* a queued revocation, nor by an orphan scan, nor with the pool of its page.
LiveUsable == \A g \in Grants : gateway[g] = "live" => Usable(g)

\* Whatever is usable at LayerV and not in force has a durable record from which the broker
\* will find it again, whenever it is stopped: the row of its own resource, a journal
\* entry, a retiring pool, or a mapping together with a queued revocation or with the
\* Gateway's own (create_grant, PendingInvitations, GuestResources.revoke).
Recorded(g) ==
    \/ inv[g] = Own(g) /\ phase[Own(g)] \in {"ready", "retiring"}
    \/ journal[g] = inv[g]
    \/ phase[inv[g]] = "retiring"
    \/ mapping[g] = inv[g] /\ (revq[g] # "none" \/ gateway[g] = "over")
Traceable == \A g \in Grants : Usable(g) /\ gateway[g] # "live" => Recorded(g)

\* For 15 seconds after a grant was revoked or has expired its invitation stays usable,
\* whatever the broker does and whatever fails (homeassistant-app/CHANGELOG.md:361,
\* "durably defer native LayerV cleanup for a 15-second minimum status-update window").
\* The exceptions: the page was deleted meanwhile, or its deletion ended the grant, so that
\* the next round retires its pool (guest_resources.py:834, layerv_broker.py:479); the
\* connection was reset, which retires everything (guest_resources.py, invalidate_for_reset);
\* and a mint that took so long that the orphan scan or the journal queued its grant before
\* the Gateway had committed it: that row is due already when the grant ends.
WindowKept ==
    [][\A g \in notice \ pulled : ~slow /\ Usable(g) => Usable(g)']_vars

\* The broker implements InvitationLife: whatever fails, an invitation appears at most
\* once, is never withdrawn while its grant is in force, and a grant comes into force only
\* with an invitation that is usable.
Want(g) == CASE gateway[g] = "none" -> "idle"
             [] gateway[g] \in {"asked", "answered"} -> "asked"
             [] gateway[g] = "live" -> "inforce"
             [] OTHER -> "over"
Have(g) == CASE inv[g] = None -> "unborn" [] inv[g] \in up -> "usable" [] OTHER -> "withdrawn"
Life == INSTANCE InvitationLife WITH
            want <- [g \in Grants |-> Want(g)], have <- [g \in Grants |-> Have(g)]
LifeSpec == Life!Spec

\* However often the broker is stopped and its calls fail, the invitation of a grant that
\* ended or never came into force is at last unusable for good, provided the Connector
\* stays enrolled (reconcile_once waits for that after a reset).
Withdrawn ==
    <>[]enrolled =>
        \A g \in Grants : gateway[g] \in {"over", "failed"} ~> [](~Usable(g))

\* The pool of a page that stays deleted is at last gone (guest_resources.py:835, "An
\* explicitly deleted page no longer owns shared infrastructure"), however often its
\* retirement fails or is interrupted, unless its publication was never confirmed.
ConfirmedPoolsRetired ==
    \A p \in Pages :
        <>[](p \notin pageUp /\ enrolled) =>
        <>[](\A n \in 0 .. MaxGeneration :
                Pool(p, n) \in up => phase[Pool(p, n)] \in {"creating", "void"})
-----------------------------------------------------------------------------
(* The inductive invariant behind LiveUsable, Traceable, WindowKept and    *)
(* LifeSpec (InvitationsProofs).                                           *)

\* The resources that the invitation of a grant may be on
Places(g) == ({g} \X {0}) \cup ({PageOf[g]} \X (0 .. MaxGeneration))
\* The broker has answered, and the Gateway has not given up: the invitation must stay, and
\* so it must for the 15 seconds of its window.
Promised(g) == gateway[g] \in {"answered", "live"}
Kept(g) == Promised(g) \/ (~slow /\ g \in notice \ pulled)

RowInv ==
    \A r \in Resources : (phase[r] = "ready" => r \in up) /\ (phase[r] = "revoked" => r \notin up)

\* An invitation is on a resource that was confirmed, where the records say, and a grant that
\* was not begun has none.
PlaceInv ==
    \A g \in Grants :
        /\ inv[g] \in Resources =>
              inv[g] \in Places(g) /\ phase[inv[g]] \in {"ready", "retiring", "revoked"}
        /\ mapping[g] # None => inv[g] \in {mapping[g], Gone}
        /\ journal[g] # None => inv[g] \in {journal[g], None, Gone}
        /\ gateway[g] = "none" \/ g \in posted =>
              inv[g] = None /\ mapping[g] = None /\ journal[g] = None /\ revq[g] = "none"
        /\ g \in posted => gateway[g] \in {"asked", "failed"}

PromiseInv ==
    \A g \in Grants :
        /\ Kept(g) => mapping[g] = inv[g] /\ inv[g] \in Resources /\ phase[inv[g]] = "ready"
        /\ Kept(g) \/ gateway[g] = "asked" => PageOf[g] \in pageUp
        /\ revq[g] = "due" => gateway[g] \in {"live", "failed", "over"}
        /\ g \in notice => gateway[g] = "over"

\* The holder of the lock who mints: nobody has been answered yet.
MintInv ==
    /\ op.pc \in {"publish", "create", "save", "undo", "reply"} =>
          /\ op.g \in Grants /\ op.r \in Places(op.g)
          /\ gateway[op.g] \in {"asked", "failed"} /\ op.g \notin posted
    /\ op.pc = "publish" => journal[op.g] = None /\ phase[op.r] \in {"creating", "ready"}
    /\ op.pc \in {"create", "save", "undo", "reply"} =>
          /\ phase[op.r] = "ready"
          /\ journal[op.g] = IF op.r = Own(op.g) THEN None ELSE op.r
    /\ op.pc \in {"publish", "create"} => inv[op.g] = None /\ mapping[op.g] = None
    /\ op.pc \in {"save", "undo", "reply"} => inv[op.g] = op.r
    /\ op.pc = "reply" => mapping[op.g] = op.r

\* The holder of the lock who withdraws: no grant that was promised, or whose window is
\* open, is hit.
WithdrawInv ==
    /\ op.pc = "retire" => op.r \in Resources /\ \A g \in Grants : inv[g] = op.r => ~Kept(g)
    /\ op.pc = "resume" => op.g \in Grants /\ op.r = Own(op.g) /\ phase[op.r] = "creating"
    /\ op.pc \in {"drop", "unlink", "dequeue", "sweep"} => op.g \in Grants /\ ~Kept(op.g)
    /\ op.pc \in {"drop", "unlink"} => op.r = mapping[op.g]
    /\ op.pc = "unlink" => op.r # None /\ (op.r # Own(op.g) => inv[op.g] = Gone)
    /\ op.pc = "dequeue" => mapping[op.g] = None
    /\ op.pc = "sweep" => op.r \in Resources /\ journal[op.g] = op.r

\* Unless a mint takes too long, a revocation is queued after the grant has ended.
WindowInv ==
    ~slow => \A g \in Grants :
        /\ revq[g] # "none" => gateway[g] \in {"over", "failed"}
        /\ revq[g] = "due" => g \notin notice

IInv == TypeOK /\ RowInv /\ PlaceInv /\ PromiseInv /\ MintInv /\ WithdrawInv /\ WindowInv /\ Traceable
=============================================================================
