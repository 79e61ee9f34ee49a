------------------------- MODULE InvitationsProofs -------------------------
(* Proofs about Invitations, for any number of grants, pages and generations. *)
EXTENDS Invitations, TLAPS

-----------------------------------------------------------------------------
(* Resources, and the steps of the lock holder                             *)

\* A guest's own resource is no other guest's, and a pool is only its page's.
LEMMA PlaceFacts ==
    /\ None \notin Resources /\ Gone \notin Resources /\ None # Gone
    /\ \A g \in Grants : PageOf[g] \in Pages /\ Own(g) \in Places(g) /\ Places(g) \subseteq Resources
    /\ \A g, h \in Grants : Own(g) \in Places(h) => g = h
    /\ \A p \in Pages, n \in 0 .. MaxGeneration : Pool(p, n) \in Resources
    /\ \A g \in Grants, n \in 0 .. MaxGeneration : Pool(PageOf[g], n) \in Places(g) \ {Own(g)}
    /\ \A g \in Grants, p \in Pages, n \in 0 .. MaxGeneration : Pool(p, n) \in Places(g) => PageOf[g] = p
<1>1. 0 \in 0 .. MaxGeneration
  BY BoundsAssumption
<1>2. None \notin Resources /\ Gone \notin Resources /\ None # Gone
  BY NoResource
<1>3. \A g \in Grants : PageOf[g] \in Pages /\ Own(g) \in Places(g) /\ Places(g) \subseteq Resources
  BY PagesAssumption DEF Own, Places, Resources
<1>4. \A g, h \in Grants : Own(g) \in Places(h) => g = h
  BY PagesAssumption, PagesNotGrants DEF Own, Places
<1>5. \A p \in Pages, n \in 0 .. MaxGeneration : Pool(p, n) \in Resources
  BY DEF Pool, Resources
<1>6. \A g \in Grants, n \in 0 .. MaxGeneration : Pool(PageOf[g], n) \in Places(g) \ {Own(g)}
  BY PagesAssumption, PagesNotGrants DEF Pool, Places, Own
<1>7. \A g \in Grants, p \in Pages, n \in 0 .. MaxGeneration : Pool(p, n) \in Places(g) => PageOf[g] = p
  BY PagesNotGrants DEF Pool, Places
<1> QED
  BY <1>2, <1>3, <1>4, <1>5, <1>6, <1>7

OpType == [pc: PCs, g: Grants \cup {0}, r: Resources \cup {None}, pass: 0 .. 5]

LEMMA OpFields ==
    ASSUME NEW pc \in PCs, NEW g \in Grants \cup {0}, NEW r \in Resources \cup {None},
           NEW pass \in 0 .. 5
    PROVE  /\ Op(pc, g, r, pass) \in OpType
           /\ Op(pc, g, r, pass).pc = pc /\ Op(pc, g, r, pass).g = g
           /\ Op(pc, g, r, pass).r = r /\ Op(pc, g, r, pass).pass = pass
  BY DEF Op, OpType

LEMMA OpParts ==
    ASSUME op \in OpType
    PROVE  op.pc \in PCs /\ op.g \in Grants \cup {0} /\ op.r \in Resources \cup {None} /\ op.pass \in 0 .. 5
  BY DEF OpType

LEMMA IdleFields == Idle \in OpType /\ Idle.pc = "idle" /\ Idle.pass = 0
  BY OpFields DEF Idle, PCs

\* The lock holder goes on to another step with the same item, or is done with it.
LEMMA GotoFields ==
    ASSUME op \in OpType, NEW pc \in PCs, Goto(pc)
    PROVE  op' \in OpType /\ op'.pc = pc /\ op'.g = op.g /\ op'.r = op.r
  BY OpFields, OpParts DEF Goto
LEMMA PickFields ==
    ASSUME op \in OpType, NEW pc \in PCs, NEW g \in Grants \cup {0}, NEW r \in Resources \cup {None},
           Pick(pc, g, r)
    PROVE  op' \in OpType /\ op'.pc = pc /\ op'.g = g /\ op'.r = r
  BY OpFields, OpParts DEF Pick
LEMMA DoneFields ==
    ASSUME op \in OpType, Done
    PROVE  op' \in OpType /\ op'.pc \in {"idle", "round"}
<1>1. "round" \in PCs /\ 0 \in Grants \cup {0} /\ None \in Resources \cup {None} /\ op.pass \in 0 .. 5
  BY OpParts DEF PCs
<1>2. /\ Op("round", 0, None, op.pass) \in OpType
      /\ Op("round", 0, None, op.pass).pc = "round"
  BY <1>1, OpFields
<1> QED
  BY <1>2, IdleFields DEF Done

-----------------------------------------------------------------------------
(* Types                                                                   *)

LEMMA TypeNext == ASSUME TypeOK, MintInv, WithdrawInv, [Next]_vars PROVE TypeOK'
<1> USE DEF TypeOK, gw, env, store, layerv, history, OpType
<1>1. op \in OpType /\ op.g \in Grants \cup {0}
  BY OpParts
<1>2. CASE UNCHANGED vars
  BY <1>2 DEF vars
<1>3. ASSUME NEW g \in Grants, GatewayStep(g) PROVE TypeOK'
  <2>1. CASE Ask(g) \/ GiveUp(g) \/ Commit(g) \/ CommitFails(g) \/ End(g)
    BY <2>1 DEF Ask, GiveUp, Commit, CommitFails, End
  <2>2. CASE Report(g) \/ WindowPasses(g) \/ NoticeOver(g)
    BY <2>2 DEF Report, Enqueue, WindowPasses, NoticeOver
  <2>3. CASE ReportUnmapped(g)
    BY <2>3, OpFields, PlaceFacts DEF ReportUnmapped, PCs
  <2> QED
    BY <1>3, <2>1, <2>2, <2>3 DEF GatewayStep
<1>4. ASSUME NEW p \in Pages, PageStep(p) PROVE TypeOK'
  BY <1>4 DEF PageStep, DeletePage, CreatePage
<1>5. CASE MintStep
  <2>1. ASSUME NEW g \in Grants, MintBegin(g) PROVE TypeOK'
    <3> DEFINE n == PoolGeneration(PageOf[g])
               r == IF mode = "guest" THEN Own(g) ELSE Pool(PageOf[g], n)
    <3>1. PageOf[g] \in Pages /\ n \in Nat
      BY PlaceFacts, BoundsAssumption DEF PoolGeneration
    <3>2. n \in 0 .. MaxGeneration
      BY <2>1, <3>1, BoundsAssumption DEF MintBegin
    <3>3. r \in Resources
      BY <3>1, <3>2, PlaceFacts
    <3>4. generation' \in [Pages -> 0 .. MaxGeneration]
      BY <2>1, <3>1, <3>2 DEF MintBegin
    <3>5. /\ posted' \subseteq Grants
          /\ phase' \in [Resources -> {"none", "creating", "ready", "retiring", "revoked", "void"}]
      BY <2>1, <3>3 DEF MintBegin
    <3>6. op' \in OpType
      BY <2>1, <3>3, OpFields DEF MintBegin, PCs
    <3> QED
      BY <2>1, <3>4, <3>5, <3>6 DEF MintBegin
  <2>2. ASSUME NEW g \in Grants, MintRefuse(g) PROVE TypeOK'
    BY <2>2 DEF MintRefuse
  <2>3. CASE op.pc \in {"publish", "create", "save", "undo", "reply"}
    <3>1. op.g \in Grants /\ op.r \in Resources
      BY <2>3, PlaceFacts DEF MintInv
    <3>2. CASE Publish
      <4>1. op' \in OpType
        BY <3>2, <1>1, GotoFields DEF Publish, PCs
      <4> QED
        BY <3>1, <3>2, <4>1 DEF Publish
    <3>3. CASE PublishFails
      <4>1. op' \in OpType /\ up' \subseteq Resources
        BY <3>1, <3>3, <1>1, DoneFields DEF PublishFails
      <4>2. {enrolled', slow', faulty'} \subseteq BOOLEAN
        BY <3>3, Zenon DEF PublishFails
      <4> QED
        BY <3>3, <4>1, <4>2 DEF PublishFails
    <3>4. CASE CreateInvitation \/ CreateFails \/ CreateMismatch \/ Undo
      <4>1. op' \in OpType
        BY <3>4, <1>1, GotoFields, DoneFields DEF CreateInvitation, CreateFails, CreateMismatch, Undo, PCs
      <4>2. inv' \in {inv, [inv EXCEPT ![op.g] = op.r], [inv EXCEPT ![op.g] = Gone]}
        BY <3>4 DEF CreateInvitation, CreateFails, CreateMismatch, Undo
      <4>3. inv' \in [Grants -> Resources \cup {None, Gone}]
        BY <3>1, <4>2
      <4> QED
        BY <3>4, <4>1, <4>3 DEF CreateInvitation, CreateFails, CreateMismatch, Undo
    <3>5. CASE SaveMapping \/ SaveFails
      <4>1. op' \in OpType
        BY <3>5, <1>1, GotoFields DEF SaveMapping, SaveFails, PCs
      <4> QED
        BY <3>1, <3>5, <4>1 DEF SaveMapping, SaveFails
    <3>6. CASE Reply
      BY <3>1, <3>6, <1>1, DoneFields DEF Reply
    <3> QED
      BY <1>5, <2>1, <2>2, <3>2, <3>3, <3>4, <3>5, <3>6 DEF MintStep
  <2>4. CASE op.pc = "resume" /\ PublishFails
    <3>1. op.r \in Resources
      BY <2>4, PlaceFacts DEF WithdrawInv
    <3>2. op' \in OpType /\ up' \subseteq Resources
      BY <2>4, <3>1, <1>1, DoneFields DEF PublishFails
    <3>3. {enrolled', slow', faulty'} \subseteq BOOLEAN
      BY <2>4, Zenon DEF PublishFails
    <3> QED
      BY <2>4, <3>2, <3>3 DEF PublishFails
  <2> QED
    BY <1>5, <2>1, <2>2, <2>3, <2>4
    DEF MintStep, Publish, PublishFails, CreateInvitation, CreateFails, CreateMismatch,
        SaveMapping, SaveFails, Undo, Reply
<1>6. CASE RetireStep
  <2>1. op.r \in Resources
    BY <1>6 DEF RetireStep, Retire, RetireLater, WithdrawInv
  <2>2. op' \in OpType
    BY <1>6, <1>1, DoneFields DEF RetireStep, Retire, RetireLater
  <2> QED
    BY <1>6, <2>1, <2>2 DEF RetireStep, Retire, RetireLater, RetireOk, RetireFails
<1>7. CASE RoundStep
  <2>1. CASE RoundBegin \/ NextPass \/ RoundFails
    <3>1. /\ "round" \in PCs /\ 0 \in Grants \cup {0} /\ None \in Resources \cup {None}
          /\ 1 \in 0 .. 5 /\ op.pass \in 0 .. 5
          /\ op.pass # 5 => op.pass + 1 \in 0 .. 5
      BY <1>1, OpParts DEF PCs
    <3>2. op' \in {Idle, Op("round", 0, None, 1)} \/ (op.pass # 5 /\ op' = Op("round", 0, None, op.pass + 1))
      BY <2>1 DEF RoundBegin, NextPass, RoundFails
    <3>3. op' \in OpType
      <4>1. \A n \in 0 .. 5 : Op("round", 0, None, n) \in OpType
        <5> HIDE DEF OpType
        <5> QED
          BY <3>1, OpFields
      <4> HIDE DEF OpType, TypeOK
      <4> QED
        BY <3>1, <3>2, <4>1, IdleFields
    <3> QED
      BY <2>1, <3>3 DEF RoundBegin, NextPass, RoundFails
  <2>2. CASE CheckStep
    <3>1. ASSUME NEW g \in Grants, DrainCheck(g) PROVE TypeOK'
      BY <1>1, <3>1, PickFields DEF DrainCheck, PCs
    <3>2. ASSUME NEW g \in Grants, OrphanCheck(g) PROVE TypeOK'
      <4>1. op' \in OpType
        BY <1>1, <3>2, PlaceFacts, PickFields DEF OrphanCheck, PCs
      <4> QED
        BY <3>2, <4>1 DEF OrphanCheck, Enqueue
    <3>3. ASSUME NEW g \in Grants, JournalCheck(g) PROVE TypeOK'
      <4>1. op' \in OpType
        BY <1>1, <3>3, PickFields DEF JournalCheck, PCs
      <4> QED
        BY <3>3, <4>1 DEF JournalCheck, Enqueue
    <3>4. ASSUME NEW p \in Pages, PoolCheck(p) PROVE TypeOK'
      BY <1>1, <3>4, PlaceFacts, PickFields DEF PoolCheck, PCs
    <3>5. ASSUME NEW r \in Resources, RetirementCheck(r) PROVE TypeOK'
      BY <1>1, <3>5, PickFields DEF RetirementCheck, PCs
    <3> QED
      BY <2>2, <3>1, <3>2, <3>3, <3>4, <3>5 DEF CheckStep
  <2>3. CASE DropStep
    <3>1. op' \in OpType
      BY <2>3, <1>1, GotoFields, DoneFields
      DEF DropStep, DropInvitation, DropResource, DropUnmapped, Unlink, Dequeue, PCs
    <3>2. op.g \in Grants /\ Own(op.g) \in Resources
      BY <2>3, PlaceFacts
      DEF DropStep, DropInvitation, DropResource, DropUnmapped, Unlink, Dequeue, WithdrawInv
    <3>3. CASE DropInvitation \/ Unlink \/ Dequeue
      BY <3>1, <3>2, <3>3 DEF DropInvitation, Unlink, Dequeue
    <3>4. CASE DropResource \/ DropUnmapped
      BY <3>1, <3>2, <3>4 DEF DropResource, DropUnmapped, RetireOk, RetireFails
    <3> QED
      BY <2>3, <3>3, <3>4 DEF DropStep
  <2>4. CASE Resume
    <3>1. op.r \in Resources
      BY <2>4, PlaceFacts DEF WithdrawInv, Resume
    <3> QED
      BY <2>4, <3>1, <1>1, GotoFields DEF Resume, PCs
  <2>5. CASE Sweep
    <3>1. op.g \in Grants
      BY <2>5 DEF WithdrawInv, Sweep
    <3> QED
      BY <2>5, <3>1, <1>1, DoneFields DEF Sweep
  <2> QED
    BY <1>7, <2>1, <2>2, <2>3, <2>4, <2>5 DEF RoundStep
<1>8. CASE Restart \/ Reset
  <2>1. Stopped \in [Grants -> {"none", "asked", "answered", "live", "failed", "over"}]
    BY DEF Stopped
  <2>2. mode' \in {"guest", "page"} /\ op' \in OpType
    BY <1>8, IdleFields, ModesAssumption DEF Restart, Reset
  <2>3. generation' \in [Pages -> 0 .. MaxGeneration]
    BY <1>8, BoundsAssumption DEF Restart, Reset
  <2>4. gateway' \in [Grants -> {"none", "asked", "answered", "live", "failed", "over"}]
    BY <1>8, <2>1 DEF Restart, Reset
  <2>5. phase' \in [Resources -> {"none", "creating", "ready", "retiring", "revoked", "void"}]
    BY <1>8 DEF Restart, Reset
  <2>6. {enrolled', slow', faulty'} \subseteq BOOLEAN
    BY <1>8, Zenon DEF Restart, Reset
  <2> QED
    BY <1>8, <2>2, <2>3, <2>4, <2>5, <2>6 DEF Restart, Reset
<1> QED
  BY <1>2, <1>3, <1>4, <1>5, <1>6, <1>7, <1>8 DEF Next

-----------------------------------------------------------------------------
(* The invariant, kind of step by kind of step                             *)

\* A lock holder that is idle, or between two items of a round, threatens nothing.
LEMMA FreeHolder == ASSUME op'.pc \in {"idle", "round"} PROVE MintInv' /\ WithdrawInv'
  BY DEF MintInv, WithdrawInv

\* The Gateway's own steps: a grant is asked for, given up, committed or ended.
LEMMA GatewayMoves ==
    ASSUME IInv, TypeOK',
           \A g \in Grants :
              \/ gateway'[g] = gateway[g]
              \/ gateway[g] = "none" /\ gateway'[g] = "asked"
              \/ gateway[g] = "asked" /\ gateway'[g] = "failed"
              \/ gateway[g] = "answered" /\ gateway'[g] \in {"live", "failed"}
              \/ gateway[g] = "live" /\ gateway'[g] = "over",
           \A g \in posted' : g \in posted \/ (gateway[g] = "none" /\ gateway'[g] = "asked"),
           \A g \in Grants : gateway'[g] \in {"asked", "answered", "live"} => PageOf[g] \in pageUp',
           \A g \in notice' : g \in notice \/ (gateway[g] = "live" /\ gateway'[g] = "over"),
           ~slow => \A g \in notice' \ pulled' :
                       (g \in notice \ pulled \/ gateway[g] = "live") /\ PageOf[g] \in pageUp',
           op' = op \/ op'.pc = "idle",
           UNCHANGED <<slow, store, layerv>>
    PROVE  IInv'
<1> USE DEF IInv, store, layerv, history
<1>1. RowInv'
  BY DEF RowInv
<1>2. PlaceInv'
  BY DEF PlaceInv, TypeOK
<1>3. PromiseInv'
  BY DEF PromiseInv, Promised, Kept, TypeOK, PlaceInv
<1>4. MintInv'
  <2>1. CASE op' = op
    BY <2>1 DEF MintInv, TypeOK
  <2> QED
    BY <2>1, FreeHolder
<1>5. WithdrawInv'
  <2>1. CASE op' = op
    BY <2>1 DEF WithdrawInv, Promised, Kept, TypeOK
  <2> QED
    BY <2>1, FreeHolder
<1>6. WindowInv'
  BY DEF WindowInv, TypeOK
<1>7. Traceable'
  BY DEF Traceable, Usable, Recorded, PromiseInv, Promised, Kept
<1> QED
  BY <1>1, <1>2, <1>3, <1>4, <1>5, <1>6, <1>7

LEMMA GatewaySteps ==
    ASSUME IInv, TypeOK',
           \/ \E g \in Grants : Ask(g) \/ GiveUp(g) \/ Commit(g) \/ CommitFails(g) \/ End(g)
           \/ \E p \in Pages : PageStep(p)
           \/ Restart
    PROVE  IInv'
<1> USE DEF IInv, TypeOK, gw, env, store, layerv, history
<1>1. ASSUME NEW g \in Grants, Ask(g) \/ GiveUp(g) \/ Commit(g) \/ CommitFails(g) \/ End(g)
      PROVE  IInv'
  <2>1. /\ op' = op /\ UNCHANGED <<slow, store, layerv>>
        /\ \A h \in posted' : h \in posted \/ (gateway[h] = "none" /\ gateway'[h] = "asked")
        /\ \A h \in notice' : h \in notice \/ (gateway[h] = "live" /\ gateway'[h] = "over")
    BY <1>1 DEF Ask, GiveUp, Commit, CommitFails, End
  <2>2. \A h \in Grants :
              \/ gateway'[h] = gateway[h]
              \/ gateway[h] = "none" /\ gateway'[h] = "asked"
              \/ gateway[h] = "asked" /\ gateway'[h] = "failed"
              \/ gateway[h] = "answered" /\ gateway'[h] \in {"live", "failed"}
              \/ gateway[h] = "live" /\ gateway'[h] = "over"
    BY <1>1 DEF Ask, GiveUp, Commit, CommitFails, End
  <2>3. \A h \in Grants : gateway'[h] \in {"asked", "answered", "live"} => PageOf[h] \in pageUp'
    BY <1>1 DEF Ask, GiveUp, Commit, CommitFails, End, PromiseInv, Promised, Kept
  <2>4. ~slow => \A h \in notice' \ pulled' :
                  (h \in notice \ pulled \/ gateway[h] = "live") /\ PageOf[h] \in pageUp'
    BY <1>1 DEF Ask, GiveUp, Commit, CommitFails, End, PromiseInv, Promised, Kept
  <2> QED
    BY <2>1, <2>2, <2>3, <2>4, GatewayMoves
<1>2. ASSUME NEW p \in Pages, PageStep(p) PROVE IInv'
  <2>1. /\ op' = op /\ UNCHANGED <<slow, store, layerv>>
        /\ \A h \in posted' : h \in posted \/ (gateway[h] = "none" /\ gateway'[h] = "asked")
        /\ \A h \in notice' : h \in notice \/ (gateway[h] = "live" /\ gateway'[h] = "over")
    BY <1>2 DEF PageStep, DeletePage, CreatePage
  <2>2. \A h \in Grants :
              \/ gateway'[h] = gateway[h]
              \/ gateway[h] = "live" /\ gateway'[h] = "over"
    BY <1>2 DEF PageStep, DeletePage, CreatePage
  <2>3. \A h \in Grants : gateway'[h] \in {"asked", "answered", "live"} => PageOf[h] \in pageUp'
    BY <1>2 DEF PageStep, DeletePage, CreatePage, PageFree, Settled, PromiseInv, Promised, Kept
  <2>4. ~slow => \A h \in notice' \ pulled' :
                  (h \in notice \ pulled \/ gateway[h] = "live") /\ PageOf[h] \in pageUp'
    BY <1>2 DEF PageStep, DeletePage, CreatePage, PromiseInv, Promised, Kept
  <2> QED
    BY <2>1, <2>2, <2>3, <2>4, GatewayMoves
<1>3. CASE Restart
  <2>1. /\ op'.pc = "idle" /\ UNCHANGED <<slow, store, layerv>>
        /\ \A h \in posted' : h \in posted \/ (gateway[h] = "none" /\ gateway'[h] = "asked")
        /\ \A h \in notice' : h \in notice \/ (gateway[h] = "live" /\ gateway'[h] = "over")
    BY <1>3, IdleFields DEF Restart
  <2>2. \A h \in Grants :
              \/ gateway'[h] = gateway[h]
              \/ gateway[h] \in {"asked", "answered"} /\ gateway'[h] = "failed"
    BY <1>3 DEF Restart, Stopped, Settled
  <2>3. \A h \in Grants : gateway'[h] \in {"asked", "answered", "live"} => PageOf[h] \in pageUp'
    BY <1>3 DEF Restart, Stopped, Settled, PromiseInv, Promised, Kept
  <2>4. ~slow => \A h \in notice' \ pulled' :
                  (h \in notice \ pulled \/ gateway[h] = "live") /\ PageOf[h] \in pageUp'
    BY <1>3 DEF Restart, PromiseInv, Promised, Kept
  <2> QED
    BY <2>1, <2>2, <2>3, <2>4, GatewayMoves
<1> QED
  BY <1>1, <1>2, <1>3

\* A reset ends everything that was in force, and leaves no row as it was.
LEMMA ResetStep == ASSUME IInv, TypeOK', Reset PROVE IInv'
<1> USE DEF IInv, store, layerv, history
<1>1. /\ op'.pc = "idle" /\ posted' = {} /\ UNCHANGED <<pageUp, slow, mapping, journal, revq, up, inv>>
      /\ pulled' = notice' /\ notice' = notice \cup {g \in Grants : gateway[g] = "live"}
      /\ \A g \in Grants : \/ gateway'[g] = gateway[g] /\ gateway[g] \in {"none", "failed", "over"}
                           \/ gateway[g] \in {"asked", "answered"} /\ gateway'[g] = "failed"
                           \/ gateway[g] = "live" /\ gateway'[g] = "over"
  BY IdleFields DEF Reset, Stopped, Settled, TypeOK
<1>2. \A r \in Resources : \/ phase'[r] = phase[r] /\ phase[r] \in {"none", "retiring", "revoked", "void"}
                           \/ phase[r] = "creating" /\ phase'[r] = "void"
                           \/ phase[r] = "ready" /\ phase'[r] = "retiring"
  BY DEF Reset, TypeOK
<1>3. RowInv'
  BY <1>1, <1>2 DEF RowInv
<1>4. PlaceInv'
  BY <1>1, <1>2 DEF PlaceInv
<1>5. PromiseInv'
  BY <1>1 DEF PromiseInv, Promised, Kept
<1>6. MintInv' /\ WithdrawInv'
  BY <1>1, FreeHolder
<1>7. WindowInv'
  BY <1>1 DEF WindowInv
<1>8. Traceable'
  <2> SUFFICES ASSUME NEW g \in Grants, Usable(g)' PROVE Recorded(g)'
    BY DEF Traceable
  <2>1. inv[g] \in up /\ inv[g] \in Resources
    BY <1>1 DEF Usable, TypeOK
  <2>2. CASE gateway[g] = "live"
    <3>1. mapping'[g] = inv'[g] /\ gateway'[g] = "over"
      BY <1>1, <2>2 DEF PromiseInv, Promised, Kept
    <3> QED
      BY <3>1 DEF Recorded
  <2>3. CASE gateway[g] # "live"
    <3>1. Recorded(g)
      BY <2>1, <2>3 DEF Traceable, Usable
    <3>2. phase[inv[g]] = "retiring" => phase'[inv[g]] = "retiring"
      BY <1>2, <2>1
    <3>3. phase[Own(g)] \in {"ready", "retiring"} => phase'[Own(g)] \in {"ready", "retiring"}
      BY <1>2, PlaceFacts
    <3> QED
      BY <1>1, <3>1, <3>2, <3>3 DEF Recorded
  <2> QED
    BY <2>2, <2>3
<1> QED
  BY <1>3, <1>4, <1>5, <1>6, <1>7, <1>8

\* Revocations are queued and become due, and a journal entry is no longer needed.
LEMMA QueueMoves ==
    ASSUME IInv, TypeOK', notice' \subseteq notice, notice' \ pulled' \subseteq notice \ pulled,
           \A g \in Grants :
              \/ revq'[g] = revq[g]
              \/ /\ revq[g] = "none" /\ revq'[g] = "waiting" /\ mapping[g] # None
                 /\ slow \/ gateway[g] \in {"over", "failed"}
              \/ revq[g] = "waiting" /\ revq'[g] = "due" /\ Settled(g) /\ g \notin notice',
           \/ UNCHANGED journal
           \/ /\ op.pc = "round"
              /\ \A g \in Grants :
                    \/ journal'[g] = journal[g]
                    \/ /\ journal'[g] = None /\ mapping[g] # None
                       /\ gateway[g] = "live" \/ revq'[g] # "none",
           UNCHANGED <<gateway, posted, pageUp, slow, phase, mapping, op, layerv>>
    PROVE  IInv'
<1> USE DEF IInv, layerv, history
<1>1. RowInv'
  BY DEF RowInv
<1>2. PlaceInv'
  BY DEF PlaceInv
<1>3. PromiseInv'
  BY DEF PromiseInv, Promised, Kept, PlaceInv, Settled, TypeOK
<1>4. MintInv' /\ WithdrawInv'
  <2>1. CASE UNCHANGED journal
    BY <2>1 DEF MintInv, WithdrawInv, Promised, Kept
  <2> QED
    BY <2>1, FreeHolder
<1>5. WindowInv'
  BY DEF WindowInv
<1>6. Traceable'
  <2> SUFFICES ASSUME NEW g \in Grants, Usable(g)', gateway'[g] # "live" PROVE Recorded(g)'
    BY DEF Traceable
  <2>1. inv[g] \in Resources /\ Recorded(g)
    BY DEF Usable, Traceable, TypeOK
  <2>2. CASE journal'[g] = journal[g]
    BY <2>1, <2>2 DEF Recorded
  <2>3. CASE journal'[g] # journal[g]
    <3>1. mapping[g] # None /\ revq'[g] # "none"
      BY <2>3
    <3>2. inv[g] = mapping[g]
      BY <2>1, <3>1, PlaceFacts DEF PlaceInv
    <3> QED
      BY <3>1, <3>2 DEF Recorded
  <2> QED
    BY <2>2, <2>3
<1> QED
  BY <1>1, <1>2, <1>3, <1>4, <1>5, <1>6

\* The lock is taken, and the lock holder chooses an item.
LEMMA HolderMoves ==
    ASSUME IInv, TypeOK', posted' \subseteq posted, MintInv', WithdrawInv',
           UNCHANGED <<gateway, pageUp, slow, store, layerv, history>>
    PROVE  IInv'
<1> USE DEF IInv, layerv, history, store
<1>1. RowInv' /\ PlaceInv'
  BY DEF RowInv, PlaceInv
<1>2. PromiseInv' /\ WindowInv'
  BY DEF PromiseInv, WindowInv, Promised, Kept
<1>3. Traceable'
  BY DEF Traceable, Usable, Recorded
<1> QED
  BY <1>1, <1>2, <1>3

LEMMA QueueSteps ==
    ASSUME IInv, TypeOK', NEW g \in Grants,
           Report(g) \/ WindowPasses(g) \/ NoticeOver(g) \/ OrphanCheck(g) \/ JournalCheck(g),
           UNCHANGED op
    PROVE  IInv'
<1> USE DEF IInv, gw, env, store, layerv, history
<1>1. /\ notice' \subseteq notice /\ notice' \ pulled' \subseteq notice \ pulled
      /\ UNCHANGED <<gateway, posted, pageUp, slow, phase, mapping, op, layerv>>
  BY DEF Report, WindowPasses, NoticeOver, OrphanCheck, JournalCheck
<1>2. CASE Report(g) \/ WindowPasses(g) \/ NoticeOver(g)
  <2>1. \A h \in Grants :
              \/ revq'[h] = revq[h]
              \/ /\ revq[h] = "none" /\ revq'[h] = "waiting" /\ mapping[h] # None
                 /\ slow \/ gateway[h] \in {"over", "failed"}
              \/ revq[h] = "waiting" /\ revq'[h] = "due" /\ Settled(h) /\ h \notin notice'
    BY <1>2 DEF Report, Enqueue, WindowPasses, NoticeOver, TypeOK
  <2> QED
    BY <1>1, <1>2, <2>1, QueueMoves DEF Report, WindowPasses, NoticeOver
<1>3. CASE OrphanCheck(g) \/ JournalCheck(g)
  <2>1. /\ Old(g) /\ op.pc = "round" /\ (UNCHANGED revq \/ (~Live(g) /\ mapping[g] # None /\ Enqueue(g)))
        /\ \/ UNCHANGED journal
           \/ /\ journal' = [journal EXCEPT ![g] = None]
              /\ mapping[g] # None /\ (Live(g) \/ Enqueue(g))
    BY <1>3 DEF OrphanCheck, JournalCheck, InPass
  <2>2. ~Live(g) /\ mapping[g] # None => slow \/ gateway[g] \in {"over", "failed"}
    BY <2>1 DEF Live, Old, Settled, PlaceInv, TypeOK
  <2>3. \A h \in Grants :
              \/ revq'[h] = revq[h]
              \/ /\ revq[h] = "none" /\ revq'[h] = "waiting" /\ mapping[h] # None
                 /\ slow \/ gateway[h] \in {"over", "failed"}
    BY <2>1, <2>2 DEF Enqueue, TypeOK
  <2>4. \/ UNCHANGED journal
        \/ \A h \in Grants :
              \/ journal'[h] = journal[h]
              \/ /\ journal'[h] = None /\ mapping[h] # None
                 /\ gateway[h] = "live" \/ revq'[h] # "none"
    BY <2>1 DEF Enqueue, Live, TypeOK
  <2> QED
    BY <1>1, <2>1, <2>3, <2>4, QueueMoves
<1> QED
  BY <1>2, <1>3

\* A resource is chosen for retirement, or for a search: nobody was promised what is on it.
LEMMA Condemned ==
    ASSUME IInv, TypeOK', posted' \subseteq posted,
           UNCHANGED <<gateway, pageUp, slow, store, layerv, history>>,
           op'.r \in Resources,
           \/ op'.pc = "retire" /\ \A g \in Grants : inv[g] = op'.r => ~Kept(g)
           \/ op'.pc = "resume" /\ op'.g \in Grants /\ op'.r = Own(op'.g) /\ phase[op'.r] = "creating"
    PROVE  IInv'
<1> USE DEF store, layerv, history
<1>1. MintInv'
  BY DEF MintInv
<1>2. WithdrawInv'
  BY DEF WithdrawInv, Promised, Kept
<1> QED
  BY <1>1, <1>2, HolderMoves

LEMMA RoundMoves == ASSUME IInv, TypeOK', RoundBegin \/ NextPass \/ RoundFails PROVE IInv'
<1> USE DEF gw, env, store, layerv, history
<1>1. /\ "round" \in PCs /\ 0 \in Grants \cup {0} /\ None \in Resources \cup {None}
      /\ 1 \in 0 .. 5 /\ op.pass \in 0 .. 5 /\ (op.pass # 5 => op.pass + 1 \in 0 .. 5)
  BY OpParts DEF PCs, IInv, TypeOK, OpType
<1>2. op' \in {Idle, Op("round", 0, None, 1)} \/ (op.pass # 5 /\ op' = Op("round", 0, None, op.pass + 1))
  BY DEF RoundBegin, NextPass, RoundFails
<1>3. op'.pc \in {"idle", "round"}
  BY <1>1, <1>2, OpFields, IdleFields
<1>4. posted' \subseteq posted /\ UNCHANGED <<gateway, pageUp, slow, store, layerv, history>>
  BY DEF RoundBegin, NextPass, RoundFails
<1> QED
  BY <1>3, <1>4, FreeHolder, HolderMoves

LEMMA HolderSteps ==
    ASSUME IInv, TypeOK',
           \/ \E g \in Grants : \/ ReportUnmapped(g) \/ MintRefuse(g) \/ DrainCheck(g)
                                \/ OrphanCheck(g) \/ JournalCheck(g)
           \/ \E p \in Pages : PoolCheck(p)
           \/ \E r \in Resources : RetirementCheck(r)
    PROVE  IInv'
<1> USE DEF IInv, gw, env, store, layerv, history
<1>1. op \in OpType
  BY DEF TypeOK, OpType
<1>2. \A g, h \in Grants : inv[h] = Own(g) => h = g
  BY PlaceFacts DEF PlaceInv, TypeOK
<1>3. \A g \in Grants : mapping[g] = None => ~Kept(g)
  BY PlaceFacts DEF PromiseInv
<1>4. ASSUME NEW g \in Grants, ReportUnmapped(g) PROVE IInv'
  <2>1. op'.pc = "retire" /\ op'.g = g /\ op'.r = Own(g) /\ Own(g) \in Resources
    BY <1>4, OpFields, PlaceFacts DEF ReportUnmapped, PCs
  <2>2. \A h \in Grants : inv[h] = Own(g) => ~Kept(h)
    BY <1>2, <1>3, <1>4 DEF ReportUnmapped
  <2> QED
    BY <1>4, <2>1, <2>2, Condemned DEF ReportUnmapped
<1>5. ASSUME NEW g \in Grants, MintRefuse(g) PROVE IInv'
  <2>1. posted' \subseteq posted /\ UNCHANGED <<op, gateway, pageUp, slow, store, layerv, history>>
    BY <1>5 DEF MintRefuse
  <2>2. op'.pc = "idle"
    BY <1>5, IdleFields DEF MintRefuse
  <2> QED
    BY <2>1, <2>2, FreeHolder, HolderMoves
<1>6. ASSUME NEW g \in Grants, DrainCheck(g) PROVE IInv'
  <2>1. op'.pc = "drop" /\ op'.g = g /\ op'.r = mapping[g]
    BY <1>1, <1>6, PickFields DEF DrainCheck, PCs, TypeOK
  <2>2. posted' \subseteq posted /\ UNCHANGED <<gateway, pageUp, slow, store, layerv, history>>
    BY <1>6 DEF DrainCheck
  <2>3. ~Kept(g) /\ revq[g] = "due"
    BY <1>3, <1>6 DEF DrainCheck, PromiseInv, WindowInv, Promised, Kept, Live
  <2>4. MintInv'
    BY <2>1 DEF MintInv
  <2>5. WithdrawInv'
    BY <2>1, <2>2, <2>3 DEF WithdrawInv, Promised, Kept
  <2> QED
    BY <2>1, <2>2, <2>4, <2>5, HolderMoves
<1>7. ASSUME NEW g \in Grants, OrphanCheck(g) PROVE IInv'
  <2>1. CASE UNCHANGED op
    BY <1>7, <2>1, QueueSteps
  <2>2. CASE mapping[g] = None
    <3>1. op'.pc = (IF phase[Own(g)] = "creating" THEN "resume" ELSE "retire")
          /\ op'.g = g /\ op'.r = Own(g) /\ Own(g) \in Resources
      BY <1>1, <1>7, <2>2, PickFields, PlaceFacts DEF OrphanCheck, PCs
    <3>2. UNCHANGED <<posted, gateway, pageUp, slow, store, layerv, history>>
      BY <1>7, <2>2 DEF OrphanCheck
    <3>3. \A h \in Grants : inv[h] = Own(g) => ~Kept(h)
      BY <1>2, <1>3, <2>2
    <3> QED
      BY <3>1, <3>2, <3>3, Condemned
  <2> QED
    BY <1>7, <2>1, <2>2 DEF OrphanCheck
<1>8. ASSUME NEW g \in Grants, JournalCheck(g) PROVE IInv'
  <2>1. CASE UNCHANGED op
    BY <1>8, <2>1, QueueSteps
  <2>2. CASE mapping[g] = None
    <3>1. op'.pc = "sweep" /\ op'.g = g /\ op'.r = journal[g] /\ journal[g] # None
      BY <1>1, <1>8, <2>2, PickFields DEF JournalCheck, PCs, TypeOK
    <3>2. UNCHANGED <<posted, gateway, pageUp, slow, store, layerv, history>>
      BY <1>8, <2>2 DEF JournalCheck
    <3>3. MintInv'
      BY <3>1 DEF MintInv
    <3>4. WithdrawInv'
      BY <1>3, <2>2, <3>1, <3>2 DEF WithdrawInv, Promised, Kept, TypeOK
    <3> QED
      BY <3>1, <3>2, <3>3, <3>4, HolderMoves
  <2> QED
    BY <1>8, <2>1, <2>2 DEF JournalCheck
<1>9. ASSUME NEW p \in Pages, PoolCheck(p) PROVE IInv'
  <2> DEFINE r == Pool(p, generation[p])
  <2>1. generation[p] \in 0 .. MaxGeneration /\ r \in Resources
    BY PlaceFacts DEF TypeOK
  <2>2. op'.pc = "retire" /\ op'.r = r
    BY <1>1, <1>9, <2>1, PickFields DEF PoolCheck, PCs
  <2>3. \A h \in Grants : inv[h] = r => PageOf[h] = p
    BY <2>1, PlaceFacts DEF PlaceInv
  <2>4. \A h \in Grants : inv[h] = r => ~Kept(h)
    BY <1>9, <2>3 DEF PromiseInv, PoolCheck
  <2> HIDE DEF r
  <2> QED
    BY <1>9, <2>1, <2>2, <2>4, Condemned DEF PoolCheck
<1>10. ASSUME NEW r \in Resources, RetirementCheck(r) PROVE IInv'
  <2>1. op'.pc = "retire" /\ op'.r = r
    BY <1>1, <1>10, PickFields DEF RetirementCheck, PCs
  <2>2. \A h \in Grants : inv[h] = r => ~Kept(h)
    BY <1>10 DEF PromiseInv, RetirementCheck
  <2> QED
    BY <1>10, <2>1, <2>2, Condemned DEF RetirementCheck
<1> QED
  BY <1>4, <1>5, <1>6, <1>7, <1>8, <1>9, <1>10

-----------------------------------------------------------------------------
(* Minting                                                                 *)

LEMMA BeginStep == ASSUME IInv, TypeOK', NEW g \in Grants, MintBegin(g) PROVE IInv'
<1> USE DEF IInv, gw, env, store, layerv, history
<1> DEFINE n == PoolGeneration(PageOf[g])
           r == IF mode = "guest" THEN Own(g) ELSE Pool(PageOf[g], n)
<1>1. n \in 0 .. MaxGeneration
  BY PlaceFacts, BoundsAssumption DEF PoolGeneration, MintBegin, TypeOK
<1>2. r \in Places(g) /\ r \in Resources
  BY <1>1, PlaceFacts
<1>3. /\ g \in posted /\ posted' = posted \ {g}
      /\ phase[r] \in {"none", "creating", "ready"}
      /\ phase' = [phase EXCEPT ![r] = IF @ = "none" THEN "creating" ELSE @]
      /\ op' = Op("publish", g, r, 0)
      /\ UNCHANGED <<gateway, pageUp, slow, mapping, journal, revq, layerv, history>>
  BY DEF MintBegin
<1> HIDE DEF r, n
<1>4. op'.pc = "publish" /\ op'.g = g /\ op'.r = r
  BY <1>2, <1>3, OpFields DEF PCs
<1>5. /\ \A q \in Resources : phase'[q] = phase[q] \/ (phase[q] = "none" /\ phase'[q] = "creating")
      /\ phase'[r] \in {"creating", "ready"}
  BY <1>2, <1>3 DEF TypeOK
<1>6. RowInv'
  BY <1>3, <1>5 DEF RowInv
<1>7. PlaceInv'
  BY <1>3, <1>5 DEF PlaceInv, TypeOK
<1>8. PromiseInv'
  BY <1>3, <1>5 DEF PromiseInv, Promised, Kept
<1>9. MintInv'
  BY <1>2, <1>3, <1>4, <1>5 DEF MintInv, PlaceInv
<1>10. WithdrawInv' /\ WindowInv'
  BY <1>3, <1>4 DEF WithdrawInv, WindowInv
<1>11. Traceable'
  <2> SUFFICES ASSUME NEW h \in Grants, Usable(h)', gateway'[h] # "live" PROVE Recorded(h)'
    BY DEF Traceable
  <2>1. inv[h] \in Resources /\ Own(h) \in Resources /\ Recorded(h)
    BY <1>3, PlaceFacts DEF Usable, Traceable, TypeOK
  <2> QED
    BY <1>3, <1>5, <2>1 DEF Recorded
<1> QED
  BY <1>6, <1>7, <1>8, <1>9, <1>10, <1>11

\* The publication is confirmed, or nobody knows.
LEMMA PublishSteps == ASSUME IInv, TypeOK', Publish \/ PublishFails \/ Resume PROVE IInv'
<1> USE DEF IInv, gw, env, store, layerv, history
<1>1. op \in OpType /\ op.r \in Resources
      /\ phase[op.r] \in {"creating", "ready"}
      /\ (op.pc = "resume" => phase[op.r] = "creating")
  <2>1. CASE op.pc = "publish"
    BY <2>1, PlaceFacts DEF MintInv, TypeOK, OpType
  <2>2. CASE op.pc = "resume"
    BY <2>2, PlaceFacts DEF WithdrawInv, TypeOK, OpType
  <2> QED
    BY <2>1, <2>2 DEF Publish, PublishFails, Resume
<1>2. \A h \in Grants : inv[h] = op.r => phase[op.r] = "ready"
  BY <1>1 DEF PlaceInv
<1>3. UNCHANGED <<gateway, posted, pageUp, slow, mapping, revq, inv, history>>
  BY DEF Publish, PublishFails, Resume
<1>4. /\ \A r \in Resources : \/ phase'[r] = phase[r]
                              \/ r = op.r /\ phase[r] = "creating" /\ phase'[r] = "ready" /\ r \in up'
      /\ \A r \in Resources : \/ (r \in up') <=> (r \in up)
                              \/ r = op.r /\ phase[r] = "creating"
  <2>1. CASE Publish
    BY <1>1, <2>1 DEF Publish, TypeOK
  <2>2. CASE PublishFails
    BY <1>1, <2>2 DEF PublishFails
  <2>3. CASE Resume
    BY <1>1, <2>3 DEF Resume, TypeOK
  <2> QED
    BY <2>1, <2>2, <2>3
<1>5. \/ UNCHANGED journal
      \/ /\ op.pc = "publish" /\ op.g \in Grants /\ journal[op.g] = None
         /\ journal' = [journal EXCEPT ![op.g] = op.r]
  BY DEF Publish, PublishFails, Resume, MintInv
<1>6. RowInv'
  BY <1>4 DEF RowInv
<1>7. PlaceInv'
  BY <1>1, <1>2, <1>3, <1>4, <1>5 DEF PlaceInv, MintInv, TypeOK
<1>8. PromiseInv'
  BY <1>3, <1>4 DEF PromiseInv, Promised, Kept
<1>9. MintInv' /\ WithdrawInv' /\ op'.pc # "drop"
  <2>1. CASE Publish
    <3>1. op'.pc = "create" /\ op'.g = op.g /\ op'.r = op.r
      BY <1>1, <2>1, GotoFields DEF Publish, PCs
    <3>2. /\ phase'[op.r] = "ready"
          /\ journal'[op.g] = IF op.r = Own(op.g) THEN None ELSE op.r
      BY <1>1, <2>1 DEF Publish, MintInv, TypeOK
    <3> QED
      BY <1>3, <2>1, <3>1, <3>2 DEF MintInv, WithdrawInv, Publish
  <2>2. CASE PublishFails
    BY <1>1, <2>2, DoneFields, FreeHolder DEF PublishFails
  <2>3. CASE Resume
    <3>1. op'.pc = "retire" /\ op'.g = op.g /\ op'.r = op.r
      BY <1>1, <2>3, GotoFields DEF Resume, PCs
    <3>2. \A h \in Grants : inv[h] # op.r
      BY <1>1, <1>2, <2>3 DEF Resume
    <3> QED
      BY <1>1, <1>3, <3>1, <3>2 DEF MintInv, WithdrawInv
  <2> QED
    BY <2>1, <2>2, <2>3
<1>10. WindowInv'
  BY <1>3, <1>9 DEF WindowInv
<1>11. Traceable'
  <2> SUFFICES ASSUME NEW h \in Grants, Usable(h)', gateway'[h] # "live" PROVE Recorded(h)'
    BY DEF Traceable
  <2>1. inv[h] \in Resources /\ Own(h) \in Resources
    BY <1>3, PlaceFacts DEF Usable, TypeOK
  <2>2. Recorded(h)
    BY <1>2, <1>3, <1>4, <2>1 DEF Traceable, Usable
  <2>3. journal[h] = inv[h] => journal'[h] = inv[h]
    BY <1>5, <2>1, PlaceFacts DEF TypeOK
  <2> QED
    BY <1>3, <1>4, <2>1, <2>2, <2>3 DEF Recorded
<1> QED
  BY <1>6, <1>7, <1>8, <1>9, <1>10, <1>11

\* The invitation is created, perhaps without an answer, or thrown away again.
LEMMA CreateSteps ==
    ASSUME IInv, TypeOK', CreateInvitation \/ CreateFails \/ CreateMismatch \/ Undo
    PROVE  IInv'
<1> USE DEF IInv, gw, env, store, layerv, history
<1>1. /\ op \in OpType /\ op.g \in Grants /\ op.r \in Places(op.g) /\ op.r \in Resources
      /\ gateway[op.g] \in {"asked", "failed"} /\ op.g \notin posted
      /\ phase[op.r] = "ready"
      /\ journal[op.g] = IF op.r = Own(op.g) THEN None ELSE op.r
  BY PlaceFacts DEF CreateInvitation, CreateFails, CreateMismatch, Undo, MintInv, TypeOK, OpType
<1>2. UNCHANGED <<gateway, posted, pageUp, slow, store, up, history>>
  BY DEF CreateInvitation, CreateFails, CreateMismatch, Undo
<1>3. \/ UNCHANGED inv
      \/ op.pc = "create" /\ inv' = [inv EXCEPT ![op.g] = op.r]
      \/ op.pc = "undo" /\ inv' = [inv EXCEPT ![op.g] = Gone]
  BY DEF CreateInvitation, CreateFails, CreateMismatch, Undo
<1>4. /\ \A h \in Grants \ {op.g} : inv'[h] = inv[h]
      /\ inv'[op.g] \in {inv[op.g], op.r, Gone}
      /\ op.pc = "create" => mapping[op.g] = None
      /\ op.pc = "undo" => inv'[op.g] \in {op.r, Gone}
  BY <1>1, <1>3 DEF TypeOK, MintInv
<1>5. RowInv'
  BY <1>2 DEF RowInv
<1>6. PlaceInv'
  <2> SUFFICES ASSUME NEW h \in Grants PROVE PlaceInv!(h)'
    BY DEF PlaceInv
  <2>1. CASE h # op.g
    BY <1>2, <1>4, <2>1 DEF PlaceInv
  <2>2. CASE h = op.g
    <3>1. CASE UNCHANGED inv
      BY <1>2, <3>1 DEF PlaceInv
    <3>2. CASE op.pc = "create" /\ inv'[op.g] = op.r
      BY <1>1, <1>2, <1>4, <2>2, <3>2
    <3>3. CASE op.pc = "undo" /\ inv'[op.g] = Gone
      <4>1. mapping[op.g] \in {None, op.r} /\ inv[op.g] = op.r
        BY <1>1, <3>3, PlaceFacts DEF PlaceInv, MintInv
      <4> QED
        BY <1>1, <1>2, <2>2, <3>3, <4>1, PlaceFacts
    <3> QED
      BY <1>1, <1>3, <3>1, <3>2, <3>3 DEF TypeOK
  <2> QED
    BY <2>1, <2>2
<1>7. PromiseInv'
  BY <1>1, <1>2, <1>4 DEF PromiseInv, Promised, Kept
<1>8. MintInv' /\ WithdrawInv' /\ op'.pc # "drop"
  <2>1. CASE CreateInvitation
    <3>1. op'.pc = "save" /\ op'.g = op.g /\ op'.r = op.r /\ inv'[op.g] = op.r
      BY <1>1, <2>1, GotoFields DEF CreateInvitation, PCs, TypeOK
    <3> QED
      BY <1>1, <1>2, <3>1 DEF MintInv, WithdrawInv
  <2>2. CASE (CreateFails \/ Undo) /\ op.r = Own(op.g)
    <3>1. op'.pc = "retire" /\ op'.g = op.g /\ op'.r = op.r
      BY <1>1, <2>2, GotoFields DEF CreateFails, Undo, PCs
    <3>2. \A h \in Grants : inv'[h] = op.r => h = op.g
      BY <1>1, <1>4, <2>2, PlaceFacts DEF PlaceInv
    <3>3. ~Kept(op.g)
      BY <1>1 DEF PromiseInv, Promised, Kept
    <3>4. \A h \in Grants : Kept(h)' <=> Kept(h)
      BY <1>2 DEF Promised, Kept
    <3> QED
      BY <1>1, <1>2, <3>1, <3>2, <3>3, <3>4 DEF MintInv, WithdrawInv
  <2>3. CASE CreateMismatch \/ ((CreateFails \/ Undo) /\ op.r # Own(op.g))
    BY <1>1, <2>3, DoneFields, FreeHolder DEF CreateMismatch, CreateFails, Undo
  <2> QED
    BY <2>1, <2>2, <2>3
<1>9. WindowInv'
  BY <1>2, <1>8 DEF WindowInv
<1>10. Traceable'
  <2> SUFFICES ASSUME NEW h \in Grants, Usable(h)', gateway'[h] # "live" PROVE Recorded(h)'
    BY DEF Traceable
  <2>1. CASE inv'[h] = inv[h]
    BY <1>2, <2>1 DEF Traceable, Usable, Recorded
  <2>2. CASE inv'[h] # inv[h]
    <3>1. h = op.g /\ inv'[h] = op.r
      BY <1>2, <1>4, <2>2, PlaceFacts DEF Usable, TypeOK
    <3> QED
      BY <1>1, <1>2, <3>1 DEF Recorded
  <2> QED
    BY <2>1, <2>2
<1> QED
  BY <1>5, <1>6, <1>7, <1>8, <1>9, <1>10

\* The mapping is saved, and the Gateway answered.
LEMMA SaveSteps == ASSUME IInv, TypeOK', SaveMapping \/ SaveFails \/ Reply PROVE IInv'
<1> USE DEF IInv, gw, env, store, layerv, history
<1>1. /\ op \in OpType /\ op.g \in Grants /\ op.r \in Places(op.g) /\ op.r \in Resources
      /\ gateway[op.g] \in {"asked", "failed"} /\ op.g \notin posted
      /\ phase[op.r] = "ready" /\ inv[op.g] = op.r
      /\ journal[op.g] = IF op.r = Own(op.g) THEN None ELSE op.r
  BY PlaceFacts DEF SaveMapping, SaveFails, Reply, MintInv, TypeOK, OpType
<1>2. UNCHANGED <<posted, pageUp, slow, phase, journal, revq, up, inv, history>>
  BY DEF SaveMapping, SaveFails, Reply
<1>3. /\ \A h \in Grants \ {op.g} : mapping'[h] = mapping[h] /\ gateway'[h] = gateway[h]
      /\ mapping'[op.g] \in {mapping[op.g], op.r}
      /\ op.pc # "reply" => UNCHANGED gateway
      /\ op.pc = "reply" => mapping'[op.g] = op.r
      /\ \/ gateway'[op.g] = gateway[op.g]
         \/ gateway[op.g] = "asked" /\ gateway'[op.g] = "answered" /\ op.pc = "reply"
  BY <1>1 DEF SaveMapping, SaveFails, Reply, TypeOK, MintInv
<1>4. RowInv'
  BY <1>2 DEF RowInv
<1>5. PlaceInv'
  BY <1>1, <1>2, <1>3 DEF PlaceInv
<1>6. PromiseInv'
  <2> SUFFICES ASSUME NEW h \in Grants PROVE PromiseInv!(h)'
    BY DEF PromiseInv
  <2>1. CASE h # op.g
    BY <1>2, <1>3, <2>1 DEF PromiseInv, Promised, Kept
  <2>2. CASE h = op.g
    BY <1>1, <1>2, <1>3, <2>2 DEF PromiseInv, Promised, Kept
  <2> QED
    BY <2>1, <2>2
<1>7. MintInv' /\ WithdrawInv' /\ op'.pc # "drop"
  <2>1. CASE SaveMapping \/ SaveFails
    <3>1. op'.pc \in {"reply", "undo"} /\ op'.g = op.g /\ op'.r = op.r /\ UNCHANGED gateway
          /\ (op'.pc = "reply" => mapping'[op.g] = op.r)
      BY <1>1, <2>1, GotoFields DEF SaveMapping, SaveFails, PCs, TypeOK
    <3> QED
      BY <1>1, <1>2, <3>1 DEF MintInv, WithdrawInv
  <2>2. CASE Reply
    BY <1>1, <2>2, DoneFields, FreeHolder DEF Reply
  <2> QED
    BY <2>1, <2>2
<1>8. WindowInv'
  BY <1>1, <1>2, <1>3, <1>7 DEF WindowInv, PromiseInv, TypeOK
<1>9. Traceable'
  <2> SUFFICES ASSUME NEW h \in Grants, Usable(h)', gateway'[h] # "live" PROVE Recorded(h)'
    BY DEF Traceable
  <2>1. CASE h # op.g
    BY <1>2, <1>3, <2>1 DEF Traceable, Usable, Recorded
  <2>2. CASE h = op.g
    BY <1>1, <1>2, <2>2 DEF Recorded
  <2> QED
    BY <2>1, <2>2
<1> QED
  BY <1>4, <1>5, <1>6, <1>7, <1>8, <1>9

-----------------------------------------------------------------------------
(* Withdrawing                                                             *)

\* A resource is retired, or is left as one to be retired.
LEMMA Retired ==
    ASSUME IInv, TypeOK', NEW r \in Resources, RetireOk(r) \/ RetireFails(r),
           \A g \in Grants : inv[g] = r => ~Kept(g),
           MintInv', WithdrawInv', op'.pc # "drop",
           UNCHANGED <<gateway, posted, pageUp, slow, mapping, journal, revq, inv, history>>
    PROVE  IInv'
<1> USE DEF IInv, history
<1>1. /\ \A q \in Resources \ {r} : phase'[q] = phase[q] /\ ((q \in up') <=> (q \in up))
      /\ \/ phase'[r] = "revoked" /\ r \notin up'
         \/ phase'[r] = "retiring"
         \/ phase'[r] = "revoked" /\ phase[r] = "revoked" /\ (r \in up' => r \in up)
  BY DEF RetireOk, RetireFails, TypeOK
<1>2. RowInv'
  BY <1>1 DEF RowInv
<1>3. PlaceInv'
  BY <1>1 DEF PlaceInv
<1>4. PromiseInv'
  BY <1>1 DEF PromiseInv, Promised, Kept
<1>5. WindowInv'
  BY DEF WindowInv
<1>6. Traceable'
  <2> SUFFICES ASSUME NEW h \in Grants, Usable(h)', gateway'[h] # "live" PROVE Recorded(h)'
    BY DEF Traceable
  <2>1. inv[h] \in Resources /\ inv[h] \in up' /\ Own(h) \in Resources
    BY PlaceFacts DEF Usable, TypeOK
  <2>2. CASE inv[h] = r
    <3>1. phase'[r] = "retiring"
      BY <1>1, <2>1, <2>2 DEF RowInv
    <3> QED
      BY <2>2, <3>1 DEF Recorded
  <2>3. CASE inv[h] # r
    <3>1. Recorded(h)
      BY <1>1, <2>1, <2>3 DEF Traceable, Usable
    <3> QED
      BY <1>1, <2>1, <2>3, <3>1 DEF Recorded
  <2> QED
    BY <2>2, <2>3
<1> QED
  BY <1>2, <1>3, <1>4, <1>5, <1>6

LEMMA RetireSteps == ASSUME IInv, TypeOK', Retire \/ RetireLater PROVE IInv'
<1> USE DEF IInv, gw, env
<1>1. /\ op.r \in Resources /\ (RetireOk(op.r) \/ RetireFails(op.r))
      /\ \A g \in Grants : inv[g] = op.r => ~Kept(g)
      /\ UNCHANGED <<gateway, posted, pageUp, slow, mapping, journal, revq, inv, history>>
  BY DEF Retire, RetireLater, WithdrawInv
<1>2. op'.pc \in {"idle", "round"}
  BY DoneFields DEF Retire, RetireLater, TypeOK, OpType
<1> QED
  BY <1>1, <1>2, FreeHolder, Retired

LEMMA DropOwnSteps == ASSUME IInv, TypeOK', DropResource \/ DropUnmapped PROVE IInv'
<1> USE DEF IInv, gw, env, store, layerv, history
<1>1. /\ op \in OpType /\ op.pc = "drop" /\ op.g \in Grants /\ ~Kept(op.g) /\ op.r = mapping[op.g]
      /\ Own(op.g) \in Resources
  BY PlaceFacts DEF DropResource, DropUnmapped, WithdrawInv, TypeOK, OpType
<1>2. \A h \in Grants : inv[h] = Own(op.g) => ~Kept(h)
  BY <1>1, PlaceFacts DEF PlaceInv
<1>3. UNCHANGED <<gateway, posted, pageUp, slow, mapping, journal, revq, inv, history>>
  BY DEF DropResource, DropUnmapped
<1>8. \A h \in Grants : Kept(h)' <=> Kept(h)
  BY <1>3 DEF Promised, Kept
<1>4. \/ op'.pc \in {"idle", "round"}
      \/ DropResource /\ op'.pc = "unlink" /\ op'.g = op.g /\ op'.r = op.r
      \/ DropUnmapped /\ op'.pc = "dequeue" /\ op'.g = op.g /\ op'.r = op.r
  BY <1>1, DoneFields, GotoFields DEF DropResource, DropUnmapped, PCs
<1>5. MintInv' /\ WithdrawInv' /\ op'.pc # "drop"
  <2>1. CASE op'.pc \in {"idle", "round"}
    BY <2>1, FreeHolder
  <2>2. CASE DropResource /\ op'.pc = "unlink" /\ op'.g = op.g /\ op'.r = op.r
    BY <1>1, <1>8, <1>3, <2>2, PlaceFacts DEF MintInv, WithdrawInv, DropResource
  <2>3. CASE DropUnmapped /\ op'.pc = "dequeue" /\ op'.g = op.g /\ op'.r = op.r
    BY <1>1, <1>8, <1>3, <2>3 DEF MintInv, WithdrawInv, DropUnmapped
  <2> QED
    BY <1>4, <2>1, <2>2, <2>3
<1>6. CASE RetireOk(Own(op.g)) \/ RetireFails(Own(op.g))
  BY <1>1, <1>2, <1>3, <1>5, <1>6, Retired
<1>7. CASE UNCHANGED <<phase, up>>
  <2>1. RowInv' /\ PlaceInv' /\ PromiseInv'
    BY <1>3, <1>7 DEF RowInv, PlaceInv, PromiseInv, Promised, Kept
  <2>2. WindowInv' /\ Traceable'
    BY <1>3, <1>5, <1>7 DEF WindowInv, Traceable, Usable, Recorded
  <2> QED
    BY <1>5, <2>1, <2>2
<1> QED
  BY <1>6, <1>7 DEF DropResource, DropUnmapped

\* An invitation on a pool is deleted.
LEMMA Deleted ==
    ASSUME IInv, TypeOK', NEW g \in Grants, ~Kept(g), inv[g] # None, g \notin posted, gateway[g] # "none",
           inv' \in {inv, [inv EXCEPT ![g] = Gone]},
           \/ UNCHANGED journal
           \/ journal' = [journal EXCEPT ![g] = None] /\ inv'[g] \notin Resources,
           MintInv', WithdrawInv', op'.pc # "drop",
           UNCHANGED <<gateway, posted, pageUp, slow, phase, mapping, revq, up, history>>
    PROVE  IInv'
<1> USE DEF IInv, history
<1>1. /\ \A h \in Grants \ {g} : inv'[h] = inv[h] /\ journal'[h] = journal[h]
      /\ inv'[g] \in {inv[g], Gone} /\ journal'[g] \in {journal[g], None}
      /\ journal'[g] # journal[g] => inv'[g] \notin Resources
  BY DEF TypeOK
<1>2. RowInv' /\ WindowInv'
  BY DEF RowInv, WindowInv
<1>3. PlaceInv'
  BY <1>1, PlaceFacts DEF PlaceInv
<1>4. PromiseInv'
  BY <1>1 DEF PromiseInv, Promised, Kept
<1>5. Traceable'
  <2> SUFFICES ASSUME NEW h \in Grants, Usable(h)', gateway'[h] # "live" PROVE Recorded(h)'
    BY DEF Traceable
  <2>1. inv'[h] \in Resources
    BY DEF Usable, TypeOK
  <2>2. inv'[h] = inv[h] /\ journal'[h] = journal[h]
    BY <1>1, <2>1, PlaceFacts
  <2> QED
    BY <2>2 DEF Traceable, Usable, Recorded
<1> QED
  BY <1>2, <1>3, <1>4, <1>5

LEMMA DeleteSteps == ASSUME IInv, TypeOK', DropInvitation \/ Sweep PROVE IInv'
<1> USE DEF IInv, gw, env, store, layerv, history
<1>1. op \in OpType /\ op.g \in Grants /\ ~Kept(op.g)
  BY DEF DropInvitation, Sweep, WithdrawInv, TypeOK, OpType
<1>2. CASE DropInvitation
  <2>1. op.pc = "drop" /\ op.r = mapping[op.g] /\ op.r # None /\ op.r # Own(op.g)
    BY <1>2 DEF DropInvitation, WithdrawInv
  <2>2. inv[op.g] # None /\ op.g \notin posted /\ gateway[op.g] # "none"
    BY <1>1, <2>1, PlaceFacts DEF PlaceInv, TypeOK
  <2>3. /\ inv' \in {inv, [inv EXCEPT ![op.g] = Gone]}
        /\ UNCHANGED <<gateway, posted, pageUp, slow, store, up, history>>
    BY <1>2 DEF DropInvitation
  <2>4. \/ op'.pc \in {"idle", "round"}
        \/ op'.pc = "unlink" /\ op'.g = op.g /\ op'.r = op.r /\ inv'[op.g] = Gone
    BY <1>1, <1>2, DoneFields, GotoFields DEF DropInvitation, PCs, TypeOK
  <2>5. MintInv' /\ WithdrawInv' /\ op'.pc # "drop"
    <3>1. CASE op'.pc \in {"idle", "round"}
      BY <3>1, FreeHolder
    <3>2. CASE op'.pc = "unlink" /\ op'.g = op.g /\ op'.r = op.r /\ inv'[op.g] = Gone
      BY <1>1, <2>1, <2>3, <3>2 DEF MintInv, WithdrawInv, Promised, Kept
    <3> QED
      BY <2>4, <3>1, <3>2
  <2> QED
    BY <1>1, <2>2, <2>3, <2>5, Deleted
<1>3. CASE Sweep
  <2>1. op.r \in Resources /\ journal[op.g] = op.r
    BY <1>3 DEF Sweep, WithdrawInv
  <2>2. op.g \notin posted /\ gateway[op.g] # "none" /\ inv[op.g] \in {op.r, None, Gone}
    BY <1>1, <2>1, PlaceFacts DEF PlaceInv
  <2>3. MintInv' /\ WithdrawInv' /\ op'.pc # "drop"
    BY <1>1, <1>3, DoneFields, FreeHolder DEF Sweep
  <2>4. UNCHANGED <<gateway, posted, pageUp, slow, phase, mapping, revq, up, history>>
    BY <1>3 DEF Sweep
  <2>5. CASE inv[op.g] = None
    <3>1. inv' = inv /\ (UNCHANGED journal \/ journal' = [journal EXCEPT ![op.g] = None])
      BY <1>1, <1>3, <2>1, <2>5, PlaceFacts DEF Sweep, TypeOK
    <3>2. \A h \in Grants : journal'[h] = journal[h] \/ (h = op.g /\ journal'[h] = None)
      BY <3>1 DEF TypeOK
    <3>3. RowInv' /\ WindowInv' /\ PlaceInv' /\ PromiseInv'
      BY <2>3, <2>4, <3>1, <3>2 DEF RowInv, WindowInv, PlaceInv, PromiseInv, Promised, Kept
    <3>4. Traceable'
      BY <2>4, <2>5, <3>1, <3>2, PlaceFacts DEF Traceable, Usable, Recorded, TypeOK
    <3> QED
      BY <2>3, <3>3, <3>4
  <2>6. CASE inv[op.g] # None
    <3>1. inv' \in {inv, [inv EXCEPT ![op.g] = Gone]}
      BY <1>1, <1>3 DEF Sweep, TypeOK
    <3>2. \/ UNCHANGED journal
          \/ journal' = [journal EXCEPT ![op.g] = None] /\ inv'[op.g] = Gone
      BY <1>1, <1>3, <2>2, <2>6 DEF Sweep, TypeOK
    <3> QED
      BY <1>1, <2>2, <2>3, <2>4, <2>6, <3>1, <3>2, PlaceFacts, Deleted
  <2> QED
    BY <2>5, <2>6
<1> QED
  BY <1>2, <1>3

\* What was withdrawn is forgotten.
LEMMA ForgetSteps == ASSUME IInv, TypeOK', Unlink \/ Dequeue PROVE IInv'
<1> USE DEF IInv, gw, env, store, layerv, history
<1>1. op \in OpType /\ op.g \in Grants /\ ~Kept(op.g)
  BY DEF Unlink, Dequeue, WithdrawInv, TypeOK, OpType
<1>2. UNCHANGED <<gateway, posted, pageUp, slow, phase, journal, up, inv, history>>
  BY DEF Unlink, Dequeue
<1>3. /\ \A h \in Grants \ {op.g} : mapping'[h] = mapping[h] /\ revq'[h] = revq[h]
      /\ mapping'[op.g] = None /\ revq'[op.g] \in {revq[op.g], "none"}
  BY <1>1 DEF Unlink, Dequeue, WithdrawInv, TypeOK
<1>4. RowInv'
  BY <1>2 DEF RowInv
<1>5. PlaceInv' /\ PromiseInv'
  BY <1>1, <1>2, <1>3 DEF PlaceInv, PromiseInv, Promised, Kept
<1>6. MintInv' /\ WithdrawInv' /\ op'.pc # "drop"
  <2>1. CASE Unlink
    <3>1. op'.pc = "dequeue" /\ op'.g = op.g
      BY <1>1, <2>1, GotoFields DEF Unlink, PCs
    <3> QED
      BY <1>1, <1>2, <1>3, <3>1 DEF MintInv, WithdrawInv, Promised, Kept
  <2>2. CASE Dequeue
    BY <1>1, <2>2, DoneFields, FreeHolder DEF Dequeue
  <2> QED
    BY <2>1, <2>2
<1>7. WindowInv'
  BY <1>2, <1>3, <1>6 DEF WindowInv
<1>8. Traceable'
  <2> SUFFICES ASSUME NEW h \in Grants, Usable(h)', gateway'[h] # "live" PROVE Recorded(h)'
    BY DEF Traceable
  <2>1. inv[h] \in Resources /\ inv[h] \in up /\ Recorded(h)
    BY <1>2 DEF Usable, Traceable, TypeOK
  <2>2. CASE h # op.g
    BY <1>2, <1>3, <2>1, <2>2 DEF Recorded
  <2>3. CASE h = op.g /\ inv[h] = Own(h)
    BY <1>2, <2>1, <2>3 DEF Recorded, PlaceInv, RowInv
  <2>4. CASE h = op.g /\ inv[h] # Own(h)
    <3>1. mapping[h] # inv[h]
      <4>1. CASE Unlink
        <5>1. op.r = mapping[op.g] /\ (op.r # Own(op.g) => inv[op.g] = Gone)
          BY <4>1 DEF Unlink, WithdrawInv
        <5> QED
          BY <2>1, <2>4, <5>1, PlaceFacts
      <4>2. CASE Dequeue
        BY <2>1, <2>4, <4>2, PlaceFacts DEF Dequeue, WithdrawInv
      <4> QED
        BY <4>1, <4>2
    <3> QED
      BY <1>2, <2>1, <2>4, <3>1 DEF Recorded
  <2> QED
    BY <2>2, <2>3, <2>4
<1> QED
  BY <1>4, <1>5, <1>6, <1>7, <1>8

-----------------------------------------------------------------------------
LEMMA InitIInv == Init => IInv
<1> SUFFICES ASSUME Init PROVE IInv
  OBVIOUS
<1> USE DEF Init
<1>1. op \in OpType /\ op.pc = "idle"
  BY IdleFields
<1>2. {enrolled, slow, faulty} \subseteq BOOLEAN
  BY BoundsAssumption, Zenon
<1>3. TypeOK
  BY <1>1, <1>2, ModesAssumption, BoundsAssumption DEF TypeOK, OpType
<1>4. RowInv /\ PlaceInv /\ PromiseInv
  BY PlaceFacts DEF RowInv, PlaceInv, PromiseInv, Promised, Kept
<1>5. MintInv /\ WithdrawInv /\ WindowInv
  BY <1>1 DEF MintInv, WithdrawInv, WindowInv
<1>6. Traceable
  BY DEF Traceable, Usable
<1> QED
  BY <1>3, <1>4, <1>5, <1>6 DEF IInv

LEMMA NextIInv == ASSUME IInv, [Next \/ Calm]_vars PROVE IInv'
<1>1. TypeOK'
  <2>1. CASE Calm
    <3>1. {enrolled', slow', faulty'} \subseteq BOOLEAN
      BY <2>1, Zenon DEF Calm, IInv, TypeOK, env
    <3> QED
      BY <2>1, <3>1 DEF Calm, IInv, TypeOK, gw, env, store, layerv, history
  <2> QED
    BY <2>1, TypeNext DEF IInv
<1>2. CASE Calm \/ UNCHANGED vars
  <2>1. posted' \subseteq posted /\ op' = op /\ UNCHANGED <<gateway, posted, pageUp, slow, store, layerv, history>>
    BY <1>2 DEF Calm, vars, gw, env, store, layerv, history
  <2>2. MintInv' /\ WithdrawInv'
    BY <2>1 DEF IInv, MintInv, WithdrawInv, Promised, Kept, store, layerv, history
  <2> QED
    BY <1>1, <2>1, <2>2, HolderMoves
<1>3. CASE \E g \in Grants : GatewayStep(g)
  <2>1. ASSUME NEW g \in Grants, Report(g) \/ WindowPasses(g) \/ NoticeOver(g) PROVE IInv'
    BY <1>1, <2>1, QueueSteps DEF Report, WindowPasses, NoticeOver
  <2> QED
    BY <1>1, <1>3, <2>1, GatewaySteps, HolderSteps DEF GatewayStep
<1>4. CASE (\E p \in Pages : PageStep(p)) \/ Restart
  BY <1>1, <1>4, GatewaySteps
<1>5. CASE MintStep
  BY <1>1, <1>5, HolderSteps, BeginStep, PublishSteps, CreateSteps, SaveSteps DEF MintStep
<1>6. CASE RetireStep
  BY <1>1, <1>6, RetireSteps DEF RetireStep
<1>7. CASE RoundStep
  <2>1. CASE CheckStep
    BY <1>1, <2>1, HolderSteps DEF CheckStep
  <2>2. CASE DropStep
    BY <1>1, <2>2, DropOwnSteps, DeleteSteps, ForgetSteps DEF DropStep
  <2> QED
    BY <1>1, <1>7, <2>1, <2>2, RoundMoves, PublishSteps, DeleteSteps DEF RoundStep
<1>8. CASE Reset
  BY <1>1, <1>8, ResetStep
<1> QED
  BY <1>2, <1>3, <1>4, <1>5, <1>6, <1>7, <1>8 DEF Next

-----------------------------------------------------------------------------
\* What the broker's records, the holder of its lock and the Gateway's page file say of an
\* invitation agrees with what is at LayerV, with failures that stop some time or never.
THEOREM Inductive == (Spec => []IInv) /\ (FairSpec => []IInv)
<1>1. IInv /\ [Next]_vars => IInv'
  BY NextIInv
<1>2. IInv /\ [Next \/ Calm]_vars => IInv'
  BY NextIInv
<1>3. Spec => []IInv
  BY <1>1, InitIInv, PTL DEF Spec
<1>4. FairSpec => []IInv
  BY <1>2, InitIInv, PTL DEF FairSpec
<1> QED
  BY <1>3, <1>4

\* Every variable has its type.
THEOREM TypeCorrect == Spec => []TypeOK
<1>1. IInv => TypeOK
  BY DEF IInv
<1> QED
  BY <1>1, Inductive, PTL

\* The invitation of a grant in force is usable, whatever the reconciliation thread, late
\* revocations, crashes and failed calls do (layerv_broker.py:337).
THEOREM LiveStaysUsable == Spec => []LiveUsable
<1>1. IInv => LiveUsable
  BY DEF IInv, PromiseInv, Promised, Kept, RowInv, LiveUsable, Usable
<1> QED
  BY <1>1, Inductive, PTL

\* After every step, and so after a stop between any two of them, an invitation that is
\* usable and not in force is found from what is on disk.
THEOREM NothingLost == Spec => []Traceable
<1>1. IInv => Traceable
  BY DEF IInv
<1> QED
  BY <1>1, Inductive, PTL

\* For 15 seconds after a grant has ended no step takes its invitation, unless its page was
\* deleted or the connection reset, or a mint took too long (layerv_broker.py, drain_revocations).
THEOREM WindowIsKept == (Spec => WindowKept) /\ (FairSpec => WindowKept)
<1>1. ASSUME IInv, IInv', [Next \/ Calm]_vars, NEW g \in notice \ pulled, ~slow, Usable(g)
      PROVE  Usable(g)'
  <2> USE DEF IInv, gw, env, store, layerv, history
  <2>0. g \in Grants /\ Kept(g) /\ inv[g] \in up /\ op \in OpType
    BY <1>1 DEF TypeOK, Kept, Usable, OpType
  <2>1. mapping[g] = inv[g] /\ inv[g] \in Resources /\ inv[g] # None /\ phase[inv[g]] = "ready" /\ gateway[g] = "over"
    BY <1>1, <2>0, PlaceFacts DEF PromiseInv
  <2>2. CASE UNCHANGED layerv
    BY <2>0, <2>2 DEF Usable
  \* What is published or created, is for others.
  <2>3. CASE Publish \/ PublishFails \/ Resume
    <3>1. inv' = inv /\ up \subseteq up'
      BY <2>3 DEF Publish, PublishFails, Resume
    <3> QED
      BY <2>0, <3>1 DEF Usable
  <2>4. CASE CreateInvitation \/ CreateFails \/ CreateMismatch \/ Undo
    <3>1. op.g # g
      BY <1>1, <2>1, <2>4 DEF CreateInvitation, CreateFails, CreateMismatch, Undo, MintInv
    <3>2. up' = up /\ \E x : inv' = inv \/ inv' = [inv EXCEPT ![op.g] = x]
      BY <2>4 DEF CreateInvitation, CreateFails, CreateMismatch, Undo
    <3>3. inv'[g] = inv[g]
      BY <1>1, <2>0, <3>1, <3>2 DEF TypeOK
    <3> QED
      BY <2>0, <3>2, <3>3 DEF Usable
  \* What is retired or deleted, is not kept.
  <2>5. CASE Retire \/ RetireLater
    <3>1. inv[g] # op.r /\ inv' = inv /\ up \ {op.r} \subseteq up'
      BY <1>1, <2>0, <2>5 DEF Retire, RetireLater, RetireOk, RetireFails, WithdrawInv
    <3> QED
      BY <2>0, <3>1 DEF Usable
  <2>6. CASE DropInvitation \/ Sweep
    <3>1. op.g # g
      BY <1>1, <2>0, <2>6 DEF DropInvitation, Sweep, WithdrawInv
    <3>2. up' = up /\ \E x : inv' = inv \/ inv' = [inv EXCEPT ![op.g] = x]
      BY <2>6 DEF DropInvitation, Sweep
    <3>3. inv'[g] = inv[g]
      BY <1>1, <2>0, <3>1, <3>2 DEF TypeOK
    <3> QED
      BY <2>0, <3>2, <3>3 DEF Usable
  <2>7. CASE DropResource \/ DropUnmapped
    <3>1. op.g # g /\ op.g \in Grants
      BY <1>1, <2>0, <2>7 DEF DropResource, DropUnmapped, WithdrawInv
    <3>2. inv[g] # Own(op.g)
      BY <1>1, <2>0, <3>1, PlaceFacts DEF PlaceInv
    <3>3. inv' = inv /\ up \ {Own(op.g)} \subseteq up'
      BY <2>7 DEF DropResource, DropUnmapped, RetireOk, RetireFails
    <3> QED
      BY <2>0, <3>2, <3>3 DEF Usable
  <2>8. CASE \E h \in Grants : GatewayStep(h) \/ MintBegin(h) \/ MintRefuse(h)
    BY <2>2, <2>8 DEF GatewayStep, Ask, GiveUp, Commit, CommitFails, End, Report, ReportUnmapped,
                      WindowPasses, NoticeOver, MintBegin, MintRefuse
  <2>9. CASE CheckStep \/ RoundBegin \/ NextPass \/ RoundFails \/ \E p \in Pages : PageStep(p)
    BY <2>2, <2>9 DEF CheckStep, DrainCheck, OrphanCheck, JournalCheck, PoolCheck, RetirementCheck,
                      RoundBegin, NextPass, RoundFails, PageStep, DeletePage, CreatePage
  <2>10. CASE SaveMapping \/ SaveFails \/ Reply \/ Unlink \/ Dequeue \/ Restart \/ Reset \/ Calm \/ UNCHANGED vars
    BY <2>2, <2>10 DEF SaveMapping, SaveFails, Reply, Unlink, Dequeue, Restart, Reset, Calm, vars
  <2> QED
    BY <1>1, <2>3, <2>4, <2>5, <2>6, <2>7, <2>8, <2>9, <2>10 DEF Next, MintStep, RetireStep, RoundStep, DropStep
<1>2. IInv /\ IInv' /\ [Next \/ Calm]_vars =>
         [\A g \in notice \ pulled : ~slow /\ Usable(g) => Usable(g)']_vars
  BY <1>1
<1>3. [][Next]_vars => [][Next \/ Calm]_vars
  <2>1. [Next]_vars => [Next \/ Calm]_vars
    OBVIOUS
  <2> QED
    BY <2>1, PTL
<1> QED
  BY <1>2, <1>3, Inductive, PTL DEF WindowKept, Spec, FairSpec

-----------------------------------------------------------------------------
(* The refinement of InvitationLife                                        *)

wanted == [g \in Grants |-> Want(g)]
held == [g \in Grants |-> Have(g)]

LEMMA LifeEnds ==
    ASSUME \A g \in Grants : held'[g] = held[g],
           \A g \in Grants : \/ wanted'[g] = wanted[g]
                             \/ wanted[g] \in {"asked", "inforce"} /\ wanted'[g] = "over"
    PROVE  Life!Next
<1> DEFINE G == {g \in Grants : wanted'[g] # wanted[g]}
<1>1. G \in SUBSET Grants
  OBVIOUS
<1>2. Life!End(G)
  BY DEF Life!End, wanted, held
<1> HIDE DEF G
<1> QED
  BY <1>1, <1>2 DEF Life!Next

LEMMA LifeWithdraws ==
    ASSUME \A g \in Grants : wanted'[g] = wanted[g],
           \A g \in Grants : \/ held'[g] = held[g]
                             \/ held[g] = "usable" /\ wanted[g] # "inforce" /\ held'[g] = "withdrawn"
    PROVE  Life!Next
<1> DEFINE G == {g \in Grants : held'[g] # held[g]}
<1>1. G \in SUBSET Grants
  OBVIOUS
<1>2. Life!Withdraw(G)
  BY DEF Life!Withdraw, wanted, held
<1> HIDE DEF G
<1> QED
  BY <1>1, <1>2 DEF Life!Next

LEMMA LifeAppears ==
    ASSUME NEW g \in Grants, wanted[g] \in {"asked", "over"}, held[g] = "unborn", held'[g] = "usable",
           \A h \in Grants : wanted'[h] = wanted[h],
           \A h \in Grants \ {g} : held'[h] = held[h]
    PROVE  Life!Next
<1>1. Life!Appear(g)
  BY DEF Life!Appear, wanted, held
<1> QED
  BY <1>1 DEF Life!Next

\* What a grant's part of the abstract state is made of
LEMMA WantSame == ASSUME NEW g \in Grants, gateway'[g] = gateway[g] PROVE wanted'[g] = wanted[g]
  BY DEF Want, wanted
LEMMA HaveSame ==
    ASSUME IInv, NEW g \in Grants, inv'[g] = inv[g],
           inv[g] \in Resources => ((inv[g] \in up') <=> (inv[g] \in up)),
           up' \subseteq Resources
    PROVE  held'[g] = held[g]
<1>1. up \subseteq Resources /\ inv[g] \in Resources \cup {None, Gone}
  BY DEF IInv, TypeOK
<1> QED
  BY <1>1, PlaceFacts DEF Have, held

\* The Gateway's steps
LEMMA LifeGateway ==
    ASSUME IInv, IInv',
           \/ \E g \in Grants : Ask(g) \/ GiveUp(g) \/ Commit(g) \/ CommitFails(g) \/ End(g)
           \/ \E p \in Pages : PageStep(p)
           \/ Restart \/ Reset
    PROVE  Life!Next
<1> USE DEF gw, env, store, layerv, history
<1>1. UNCHANGED <<up, inv>>
  BY DEF Ask, GiveUp, Commit, CommitFails, End, PageStep, DeletePage, CreatePage, Restart, Reset
<1>2. \A g \in Grants : held'[g] = held[g]
  BY <1>1 DEF Have, held
<1>3. CASE \E g \in Grants : Ask(g)
  <2>1. PICK g \in Grants : Ask(g)
    BY <1>3
  <2>2. /\ wanted[g] = "idle" /\ wanted'[g] = "asked"
        /\ \A h \in Grants \ {g} : wanted'[h] = wanted[h]
    BY <2>1 DEF Ask, Want, wanted, IInv, TypeOK
  <2>3. Life!Ask(g)
    BY <1>2, <2>2 DEF Life!Ask, wanted, held
  <2> QED
    BY <2>3 DEF Life!Next
<1>4. CASE \E g \in Grants : Commit(g)
  <2>1. PICK g \in Grants : Commit(g)
    BY <1>4
  <2>2. /\ wanted[g] = "asked" /\ wanted'[g] = "inforce"
        /\ \A h \in Grants \ {g} : wanted'[h] = wanted[h]
    BY <2>1 DEF Commit, Want, wanted, IInv, TypeOK
  <2>3. inv[g] \in up /\ inv[g] \in Resources
    BY <2>1 DEF Commit, IInv, PromiseInv, Promised, Kept, RowInv
  <2>4. held[g] = "usable"
    BY <2>3, PlaceFacts DEF Have, held
  <2>5. Life!Commit(g)
    BY <1>2, <2>2, <2>4 DEF Life!Commit, wanted, held
  <2> QED
    BY <2>5 DEF Life!Next
<1>5. ASSUME \A g \in Grants : \/ gateway'[g] = gateway[g]
                               \/ gateway[g] \in {"asked", "answered", "live"} /\ gateway'[g] \in {"failed", "over"}
      PROVE  Life!Next
  <2>1. \A g \in Grants : \/ wanted'[g] = wanted[g]
                          \/ wanted[g] \in {"asked", "inforce"} /\ wanted'[g] = "over"
    BY <1>5 DEF Want, wanted
  <2> QED
    BY <1>2, <2>1, LifeEnds
<1>6. ASSUME NEW g \in Grants, GiveUp(g) \/ CommitFails(g) \/ End(g) PROVE Life!Next
  BY <1>5, <1>6 DEF GiveUp, CommitFails, End, IInv, TypeOK
<1>7. ASSUME NEW p \in Pages, PageStep(p) PROVE Life!Next
  BY <1>5, <1>7 DEF PageStep, DeletePage, CreatePage, IInv, TypeOK
<1>8. CASE Restart \/ Reset
  BY <1>5, <1>8 DEF Restart, Reset, Stopped, Settled, IInv, TypeOK
<1> QED
  BY <1>3, <1>4, <1>6, <1>7, <1>8

\* The broker mints: an invitation appears once, and nobody has been promised it yet.
LEMMA LifeMint ==
    ASSUME IInv, IInv', CreateInvitation \/ CreateFails \/ CreateMismatch
    PROVE  Life!Next
<1> USE DEF gw, env, store
<1>1. /\ op.pc = "create" /\ op.g \in Grants /\ op.r \in Resources /\ op.r \in up
      /\ gateway[op.g] \in {"asked", "failed"} /\ inv[op.g] = None
  BY PlaceFacts DEF CreateInvitation, CreateFails, CreateMismatch, IInv, MintInv, RowInv
<1>2. UNCHANGED <<gateway, up>> /\ (UNCHANGED inv \/ inv' = [inv EXCEPT ![op.g] = op.r])
  BY DEF CreateInvitation, CreateFails, CreateMismatch
<1>3. \A h \in Grants : wanted'[h] = wanted[h]
  BY <1>2 DEF Want, wanted
<1>4. CASE UNCHANGED inv
  <2>1. \A h \in Grants : held'[h] = held[h]
    BY <1>2, <1>4 DEF Have, held
  <2> QED
    BY <1>3, <2>1, LifeWithdraws
<1>5. CASE inv' = [inv EXCEPT ![op.g] = op.r]
  <2>1. PICK g \in Grants : g = op.g
    BY <1>1
  <2>2. inv'[g] = op.r /\ (\A h \in Grants \ {g} : inv'[h] = inv[h])
    BY <1>5, <2>1 DEF IInv, TypeOK
  <2>3. held[g] = "unborn" /\ held'[g] = "usable" /\ wanted[g] \in {"asked", "over"}
    <3>1. held[g] = "unborn"
      BY <1>1, <2>1, PlaceFacts DEF Have, held, IInv, TypeOK
    <3>2. held'[g] = "usable"
      BY <1>1, <1>2, <2>2, PlaceFacts DEF Have, held
    <3>3. wanted[g] \in {"asked", "over"}
      BY <1>1, <2>1 DEF Want, wanted
    <3> QED
      BY <3>1, <3>2, <3>3
  <2>4. \A h \in Grants \ {g} : held'[h] = held[h]
    BY <1>2, <2>2 DEF Have, held
  <2> QED
    BY <1>3, <2>3, <2>4, LifeAppears
<1> QED
  BY <1>2, <1>4, <1>5

\* The broker publishes: no invitation is on a resource that is not confirmed.
LEMMA LifePublish == ASSUME IInv, IInv', Publish \/ PublishFails \/ Resume PROVE Life!Next
<1> USE DEF gw, env, store
<1>1. op.r \in Resources /\ (op.pc = "resume" => phase[op.r] = "creating")
  <2>1. CASE op.pc = "publish"
    BY <2>1, PlaceFacts DEF IInv, MintInv
  <2>2. CASE op.pc = "resume"
    BY <2>2, PlaceFacts DEF IInv, WithdrawInv
  <2> QED
    BY <2>1, <2>2 DEF Publish, PublishFails, Resume
<1>2. UNCHANGED <<gateway, inv>> /\ (UNCHANGED up \/ (phase[op.r] = "creating" /\ up' = up \cup {op.r}))
  BY <1>1 DEF Publish, PublishFails, Resume
<1>3. \A h \in Grants : inv[h] \in Resources => ((inv[h] \in up') <=> (inv[h] \in up))
  BY <1>2 DEF IInv, PlaceInv
<1>4. up' \subseteq Resources
  BY DEF IInv, TypeOK
<1>5. \A h \in Grants : wanted'[h] = wanted[h] /\ held'[h] = held[h]
  BY <1>2, <1>3, <1>4, WantSame, HaveSame
<1> QED
  BY <1>5, LifeWithdraws

\* A resource goes, and with it what is on it.
LEMMA LifeRetire ==
    ASSUME IInv, IInv', NEW r \in Resources, up' \in {up, up \ {r}},
           \A g \in Grants : inv[g] = r => ~Promised(g),
           UNCHANGED <<gateway, inv>>
    PROVE  Life!Next
<1>1. \A h \in Grants : wanted'[h] = wanted[h]
  BY WantSame
<1>2. up \subseteq Resources /\ up' \subseteq Resources
  BY DEF IInv, TypeOK
<1>3. ASSUME NEW h \in Grants, ~(inv[h] = r /\ r \in up /\ r \notin up') PROVE held'[h] = held[h]
  <2>1. (inv[h] \in up') <=> (inv[h] \in up)
    BY <1>3
  <2> QED
    BY <1>2, <2>1, HaveSame
<1>4. ASSUME NEW h \in Grants, inv[h] = r, r \in up, r \notin up'
      PROVE  held[h] = "usable" /\ wanted[h] # "inforce" /\ held'[h] = "withdrawn"
  BY <1>4, PlaceFacts DEF Have, held, Want, wanted, Promised, Kept
<1> QED
  BY <1>1, <1>3, <1>4, LifeWithdraws

\* An invitation is deleted.
LEMMA LifeDelete ==
    ASSUME IInv, IInv', NEW g \in Grants, inv[g] # None, ~Promised(g),
           inv' \in {inv, [inv EXCEPT ![g] = Gone]}, UNCHANGED <<gateway, up>>
    PROVE  Life!Next
<1>1. \A h \in Grants : wanted'[h] = wanted[h]
  BY WantSame
<1>2. up \subseteq Resources /\ inv \in [Grants -> Resources \cup {None, Gone}]
  BY DEF IInv, TypeOK
<1>3. ASSUME NEW h \in Grants, inv'[h] = inv[h] PROVE held'[h] = held[h]
  BY <1>3 DEF Have, held
<1>4. ASSUME inv'[g] # inv[g]
      PROVE  inv'[g] = Gone /\ wanted[g] # "inforce" /\ held'[g] = "withdrawn"
             /\ held[g] \in {"usable", "withdrawn"}
  BY <1>2, <1>4, PlaceFacts DEF Have, held, Want, wanted, Promised, Kept
<1>5. \A h \in Grants : h # g => inv'[h] = inv[h]
  BY <1>2
<1> QED
  BY <1>1, <1>3, <1>4, <1>5, LifeWithdraws

LEMMA LifeWithdrawal ==
    ASSUME IInv, IInv',
           \/ Undo \/ Retire \/ RetireLater \/ DropInvitation \/ DropResource \/ DropUnmapped \/ Sweep
    PROVE  Life!Next
<1> USE DEF gw, env, store, layerv, history
<1>1. CASE Undo
  <2>1. op.g \in Grants /\ inv[op.g] # None /\ ~Promised(op.g)
    BY <1>1, PlaceFacts DEF Undo, IInv, MintInv, Promised, Kept
  <2> QED
    BY <1>1, <2>1, LifeDelete DEF Undo
<1>2. CASE Retire \/ RetireLater
  <2>1. op.r \in Resources /\ \A g \in Grants : inv[g] = op.r => ~Promised(g)
    BY <1>2 DEF Retire, RetireLater, IInv, WithdrawInv, Kept
  <2> QED
    BY <1>2, <2>1, LifeRetire DEF Retire, RetireLater, RetireOk, RetireFails
<1>3. CASE DropInvitation
  <2>1. op.g \in Grants /\ ~Promised(op.g) /\ mapping[op.g] # None
    BY <1>3 DEF DropInvitation, IInv, WithdrawInv, Kept
  <2>2. inv[op.g] # None
    BY <2>1, PlaceFacts DEF IInv, PlaceInv, TypeOK
  <2> QED
    BY <1>3, <2>1, <2>2, LifeDelete DEF DropInvitation
<1>4. CASE DropResource \/ DropUnmapped
  <2>1. op.g \in Grants /\ ~Promised(op.g) /\ Own(op.g) \in Resources
    BY <1>4, PlaceFacts DEF DropResource, DropUnmapped, IInv, WithdrawInv, Kept
  <2>2. \A h \in Grants : inv[h] = Own(op.g) => ~Promised(h)
    BY <2>1, PlaceFacts DEF IInv, PlaceInv
  <2>3. up' \in {up, up \ {Own(op.g)}} /\ UNCHANGED <<gateway, inv>>
    BY <1>4 DEF DropResource, DropUnmapped, RetireOk, RetireFails
  <2> QED
    BY <2>1, <2>2, <2>3, LifeRetire
<1>5. CASE Sweep
  <2>1. op.g \in Grants /\ ~Promised(op.g) /\ op.r # None
    BY <1>5, PlaceFacts DEF Sweep, IInv, WithdrawInv, Kept
  <2>2. inv' \in {inv, [inv EXCEPT ![op.g] = Gone]} /\ UNCHANGED <<gateway, up>>
    BY <1>5, <2>1 DEF Sweep, IInv, TypeOK
  <2>3. CASE inv[op.g] = None
    <3>1. inv' = inv
      BY <1>5, <2>1, <2>3 DEF Sweep, IInv, TypeOK
    <3>2. \A h \in Grants : wanted'[h] = wanted[h] /\ held'[h] = held[h]
      BY <2>2, <3>1 DEF Want, wanted, Have, held
    <3> QED
      BY <3>2, LifeWithdraws
  <2>4. CASE inv[op.g] # None
    BY <2>1, <2>2, <2>4, LifeDelete
  <2> QED
    BY <2>3, <2>4
<1> QED
  BY <1>1, <1>2, <1>3, <1>4, <1>5

\* The other steps do not show.
LEMMA LifeStutters ==
    ASSUME UNCHANGED <<up, inv>>, \A g \in Grants : wanted'[g] = wanted[g]
    PROVE  Life!Next
<1>1. \A g \in Grants : held'[g] = held[g]
  BY DEF Have, held
<1> QED
  BY <1>1, LifeWithdraws

LEMMA LifeNext == ASSUME IInv, IInv', [Next]_vars PROVE Life!Next
<1> USE DEF gw, env, store, layerv, history
<1>1. ASSUME UNCHANGED <<gateway, up, inv>> PROVE Life!Next
  BY <1>1, WantSame, LifeStutters
<1>2. CASE UNCHANGED vars
  BY <1>1, <1>2 DEF vars
<1>3. ASSUME NEW g \in Grants, GatewayStep(g) PROVE Life!Next
  BY <1>1, <1>3, LifeGateway DEF GatewayStep, Report, ReportUnmapped, WindowPasses, NoticeOver
<1>4. CASE (\E p \in Pages : PageStep(p)) \/ Restart \/ Reset
  BY <1>4, LifeGateway
<1>5. CASE MintStep
  <2>1. CASE \/ \E g \in Grants : MintBegin(g) \/ MintRefuse(g)
             \/ SaveMapping \/ SaveFails
    BY <1>1, <2>1 DEF MintBegin, MintRefuse, SaveMapping, SaveFails
  <2>2. CASE Reply
    <3>1. \A g \in Grants : wanted'[g] = wanted[g]
      BY <2>2 DEF Reply, Want, wanted, IInv, TypeOK
    <3> QED
      BY <2>2, <3>1, LifeStutters DEF Reply
  <2> QED
    BY <1>5, <2>1, <2>2, LifePublish, LifeMint, LifeWithdrawal DEF MintStep
<1>6. CASE RetireStep
  BY <1>6, LifeWithdrawal DEF RetireStep
<1>7. CASE RoundStep
  <2>1. CASE RoundBegin \/ NextPass \/ RoundFails \/ CheckStep \/ Unlink \/ Dequeue
    BY <1>1, <2>1
    DEF RoundBegin, NextPass, RoundFails, CheckStep, DrainCheck, OrphanCheck, JournalCheck,
        PoolCheck, RetirementCheck, Unlink, Dequeue
  <2> QED
    BY <1>7, <2>1, LifePublish, LifeWithdrawal DEF RoundStep, DropStep
<1> QED
  BY <1>2, <1>3, <1>4, <1>5, <1>6, <1>7 DEF Next

\* The broker implements InvitationLife, for any number of grants and pages: an invitation
\* appears at most once, stays while its grant is in force, and is never usable again
\* once it was withdrawn.
THEOREM BrokerImplementsLife == Spec => LifeSpec
<1>1. Init => Life!Init
  BY PlaceFacts DEF Init, Life!Init, Want, wanted, Have, held
<1>2. IInv /\ IInv' /\ [Next]_vars => [Life!Next]_Life!vars
  BY LifeNext
<1> QED
  BY <1>1, <1>2, Inductive, PTL DEF Spec, LifeSpec, Life!Spec

-----------------------------------------------------------------------------
(* What the abstract specification says, and so the broker does             *)

\* What a step of InvitationLife does to the two functions.
LEMMA LifeEffect ==
    ASSUME [Life!Next]_Life!vars
    PROVE  \/ wanted' = wanted /\ held' = held
           \/ \E g \in Grants :
                 \/ wanted[g] = "idle" /\ wanted' = [wanted EXCEPT ![g] = "asked"] /\ held' = held
                 \/ /\ held[g] = "unborn" /\ wanted[g] \in {"asked", "over"}
                    /\ held' = [held EXCEPT ![g] = "usable"] /\ wanted' = wanted
                 \/ /\ wanted[g] = "asked" /\ held[g] = "usable"
                    /\ wanted' = [wanted EXCEPT ![g] = "inforce"] /\ held' = held
           \/ \E G \in SUBSET Grants :
                 \/ /\ \A g \in G : wanted[g] \in {"asked", "inforce"}
                    /\ wanted' = [g \in Grants |-> IF g \in G THEN "over" ELSE wanted[g]]
                    /\ held' = held
                 \/ /\ \A g \in G : held[g] = "usable" /\ wanted[g] # "inforce"
                    /\ held' = [g \in Grants |-> IF g \in G THEN "withdrawn" ELSE held[g]]
                    /\ wanted' = wanted
<1>1. ASSUME NEW g \in Grants, Life!Ask(g)
      PROVE  wanted[g] = "idle" /\ wanted' = [wanted EXCEPT ![g] = "asked"] /\ held' = held
  BY <1>1 DEF Life!Ask, wanted, held
<1>2. ASSUME NEW g \in Grants, Life!Appear(g)
      PROVE  /\ held[g] = "unborn" /\ wanted[g] \in {"asked", "over"}
             /\ held' = [held EXCEPT ![g] = "usable"] /\ wanted' = wanted
  BY <1>2 DEF Life!Appear, wanted, held
<1>3. ASSUME NEW g \in Grants, Life!Commit(g)
      PROVE  /\ wanted[g] = "asked" /\ held[g] = "usable"
             /\ wanted' = [wanted EXCEPT ![g] = "inforce"] /\ held' = held
  BY <1>3 DEF Life!Commit, wanted, held
<1>4. ASSUME NEW G \in SUBSET Grants, Life!End(G)
      PROVE  /\ \A g \in G : wanted[g] \in {"asked", "inforce"}
             /\ wanted' = [g \in Grants |-> IF g \in G THEN "over" ELSE wanted[g]]
             /\ held' = held
  BY <1>4 DEF Life!End, wanted, held
<1>5. ASSUME NEW G \in SUBSET Grants, Life!Withdraw(G)
      PROVE  /\ \A g \in G : held[g] = "usable" /\ wanted[g] # "inforce"
             /\ held' = [g \in Grants |-> IF g \in G THEN "withdrawn" ELSE held[g]]
             /\ wanted' = wanted
  BY <1>5 DEF Life!Withdraw, wanted, held
<1>6. CASE UNCHANGED Life!vars
  BY <1>6 DEF Life!vars, wanted, held
<1>7. CASE Life!Next
  <2>1. CASE \E g \in Grants : Life!Ask(g) \/ Life!Appear(g) \/ Life!Commit(g)
    BY <2>1, <1>1, <1>2, <1>3
  <2>2. CASE \E G \in SUBSET Grants : Life!End(G) \/ Life!Withdraw(G)
    BY <2>2, <1>4, <1>5
  <2> QED
    BY <1>7, <2>1, <2>2 DEF Life!Next
<1> QED
  BY <1>6, <1>7

LifeHolds(w, h) ==
    /\ w \in [Grants -> {"idle", "asked", "inforce", "over"}]
    /\ h \in [Grants -> {"unborn", "usable", "withdrawn"}]
    /\ \A g \in Grants : w[g] = "inforce" => h[g] = "usable"
    /\ \A g \in Grants : w[g] = "idle" => h[g] = "unborn"

\* Promise follows from the abstract specification alone.
LEMMA LifePromise == LifeSpec => []Life!Promise
<1>0. Life!Promise <=> LifeHolds(wanted, held)
  BY DEF Life!Promise, LifeHolds, wanted, held
<1>1. Life!Init => LifeHolds(wanted, held)
  <2>1. Life!Init => /\ wanted = [g \in Grants |-> "idle"]
                     /\ held = [g \in Grants |-> "unborn"]
    BY DEF Life!Init, wanted, held
  <2> QED
    BY <2>1 DEF LifeHolds
<1>2. LifeHolds(wanted, held) /\ [Life!Next]_Life!vars => LifeHolds(wanted, held)'
  BY LifeEffect DEF LifeHolds
<1> QED
  BY <1>0, <1>1, <1>2, PTL DEF LifeSpec, Life!Spec

\* A grant that is in force has a usable invitation, in the broker as in the abstract
\* specification that it implements, and no resource carries an invitation for a grant
\* that was not asked for (layerv_broker.py, create_grant).
THEOREM BrokerKeepsPromise == Spec => []Life!Promise
<1> QED
  BY BrokerImplementsLife, LifePromise, PTL

\* An invitation that was withdrawn is never usable again, and a grant that is over never
\* comes back into force, whatever is retried, recovered or reset.
THEOREM WithdrawnForGood == Spec => Life!NothingReturns
<1>1. LifeHolds(wanted, held) /\ [Life!Next]_Life!vars =>
        \A g \in Grants : /\ wanted[g] = "over" => wanted'[g] = "over"
                          /\ held[g] = "withdrawn" => held'[g] = "withdrawn"
  BY LifeEffect DEF LifeHolds
<1>2. Life!Promise <=> LifeHolds(wanted, held)
  BY DEF Life!Promise, LifeHolds, wanted, held
<1>3. Life!Promise /\ [Life!Next]_Life!vars => Life!AllFinal
  BY <1>1, <1>2 DEF Life!AllFinal, wanted, held
<1> QED
  BY <1>3, BrokerImplementsLife, LifePromise, PTL DEF LifeSpec, Life!Spec, Life!NothingReturns
=============================================================================
