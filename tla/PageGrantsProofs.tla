-------------------------- MODULE PageGrantsProofs --------------------------
(* Proofs about PageGrants, for any pages and any grants. *)
EXTENDS PageGrants, TLAPS

LEMMA NoSectionType == NoSection \in SectionRec /\ NoSection.pc = "free" /\ NoSection.todo = {}
  BY PagesAssumption DEF NoSection, Section, SectionRec, SecPCs, Users

LEMMA FileType ==
  /\ NoFile \in PageFile
  /\ \A gs \in SUBSET Grants : File(gs) \in PageFile
  BY DEF NoFile, File, PageFile

LEMMA FreeType == Free \in Operation
  BY DEF Free, Operation, OpPCs, Kinds

LEMMA VisibleType ==
  ASSUME TypeOK, NEW p \in Pages
  PROVE  Visible(p) \in SUBSET Grants /\ Visible(p) \subseteq page[p].grants
  BY DEF TypeOK, PageFile, Visible

\* Which actions may write each of the shared variables.
LEMMA Writers ==
  ASSUME [Next]_vars
  PROVE  /\ \/ UNCHANGED page
            \/ \E p \in Pages : \/ NewPage(p) \/ Update(p) \/ Restore(p) \/ Commit(p)
                                \/ Cut(p) \/ Drop(p)
         /\ UNCHANGED marker \/ \E p \in Pages : Mark(p) \/ Unlink(p)
         /\ UNCHANGED queue \/ \E g \in Grants : Enqueue(g) \/ Complete(g)
         /\ \/ UNCHANGED broker \/ Stop
            \/ \E g \in Grants : \/ Report(g) \/ Drain(g) \/ BrokerCheck(g)
                                 \/ Retire(g) \/ RetireFails(g)
         /\ \/ UNCHANGED op \/ Stop
            \/ \E p \in Pages : \/ Handler(p) \/ Cut(p) \/ Unlink(p) \/ Drop(p)
                                \/ SectionFails(p)
         /\ \/ UNCHANGED sec \/ Stop
            \/ \E p \in Pages : \/ StartRemove(p) \/ StartWipe(p) \/ StoreSteps(p)
                                \/ Expire(p) \/ Recover(p) \/ ResetNext(p)
            \/ \E g \in Grants : Enqueue(g)
            \/ ResetRevoke \/ ResetDone
         /\ \/ UNCHANGED reset \/ Stop \/ Reset \/ \E p \in Pages : SectionFails(p)
         /\ \/ UNCHANGED calls \/ Stop \/ ResetDone
            \/ \E p \in Pages : Cut(p) \/ Unlink(p) \/ Drop(p)
            \/ \E g \in Grants : Report(g) \/ ReportFails(g)
         /\ UNCHANGED taken \/ Stop \/ \E g \in Grants : Drain(g) \/ Complete(g)
         /\ UNCHANGED used \/ \E p \in Pages, g \in Grants : Create(p, g)
         /\ UNCHANGED expired \/ \E g \in Grants : Elapse(g)
         /\ UNCHANGED up \/ Stop \/ Start
         /\ UNCHANGED revoked \/ \E p \in Pages : Mark(p) \/ Cut(p)
         /\ UNCHANGED seen \/ \E p \in Pages : Commit(p)
         /\ UNCHANGED unlocked \/ \E p \in Pages : Mark(p)
<1> USE DEF files, clock, history, threads
<1>1. ASSUME NEW p \in Pages, NewPage(p) \/ Edit(p) \/ Update(p) \/ Published(p) \/ PublishFails(p)
      PROVE  UNCHANGED <<marker, queue, broker, sec, reset, calls, taken, clock, history>>
             /\ (UNCHANGED page \/ NewPage(p) \/ Update(p)) /\ Handler(p)
  BY <1>1 DEF NewPage, Edit, Update, Published, PublishFails, Handler
<1>2. ASSUME NEW p \in Pages, Restore(p) \/ Minted(p) \/ Reload(p) \/ OpFails(p)
      PROVE  UNCHANGED <<marker, queue, broker, sec, reset, calls, taken, clock, history>>
             /\ (UNCHANGED page \/ Restore(p)) /\ Handler(p)
  BY <1>2 DEF Restore, Minted, Reload, OpFails, Handler
<1>3. ASSUME NEW p \in Pages, Commit(p)
      PROVE  UNCHANGED <<marker, queue, broker, sec, reset, calls, taken, clock, revoked, unlocked>>
             /\ Handler(p)
  BY <1>3 DEF Commit, Handler
<1>4. ASSUME NEW p \in Pages, NEW g \in Grants, Create(p, g) \/ Revoke(p, g)
      PROVE  UNCHANGED <<files, sec, reset, calls, taken, expired, up, history>>
             /\ (UNCHANGED used \/ Create(p, g)) /\ Handler(p)
  BY <1>4 DEF Create, Revoke, Handler
<1>5. ASSUME NEW p \in Pages, NEW kind \in {"revokeAll", "delete"}, RevokePage(p, kind)
      PROVE  UNCHANGED <<files, sec, reset, calls, taken, clock, history>> /\ Handler(p)
  BY <1>5 DEF RevokePage, Handler
<1>6. ASSUME NEW p \in Pages, StartRemove(p) \/ StartWipe(p)
      PROVE  UNCHANGED <<files, reset, calls, taken, clock, history>> /\ Handler(p)
  BY <1>6 DEF StartRemove, StartWipe, Handler
<1>7. ASSUME NEW p \in Pages, Mark(p)
      PROVE  UNCHANGED <<page, queue, broker, op, reset, calls, taken, clock, seen>>
             /\ StoreSteps(p)
  BY <1>7 DEF Mark, StoreSteps
<1>8. ASSUME NEW p \in Pages, Cut(p) \/ Unlink(p) \/ Drop(p)
      PROVE  /\ UNCHANGED <<queue, broker, reset, taken, clock, seen, unlocked>>
             /\ UNCHANGED page \/ Cut(p) \/ Drop(p)
             /\ UNCHANGED marker \/ Unlink(p)
             /\ UNCHANGED revoked \/ Cut(p)
             /\ StoreSteps(p)
  BY <1>8 DEF Cut, Unlink, Drop, StoreSteps
<1>9. ASSUME NEW p \in Pages, SectionFails(p)
      PROVE  UNCHANGED <<files, calls, taken, clock, history>> /\ StoreSteps(p)
  BY <1>9 DEF SectionFails, StoreSteps
<1>10. ASSUME NEW p \in Pages, Expire(p) \/ Recover(p)
       PROVE  UNCHANGED <<files, op, reset, calls, taken, clock, history>>
  BY <1>10 DEF Expire, Recover
<1>11. CASE Reset
  BY <1>11 DEF Reset, ResetList, ResetLock, ResetRevoke, ResetNext, ResetDone
<1>12. ASSUME NEW g \in Grants, Enqueue(g) \/ Elapse(g)
       PROVE  /\ UNCHANGED <<page, marker, broker, op, reset, calls, taken, used, up, history>>
              /\ UNCHANGED queue \/ Enqueue(g)
              /\ UNCHANGED sec \/ Enqueue(g)
              /\ UNCHANGED expired \/ Elapse(g)
  BY <1>12 DEF Enqueue, Elapse
<1>13. ASSUME NEW g \in Grants, Report(g) \/ ReportFails(g) \/ Drain(g) \/ Complete(g)
       PROVE  /\ UNCHANGED <<page, marker, op, sec, reset, clock, history>>
              /\ UNCHANGED queue \/ Complete(g)
              /\ UNCHANGED broker \/ Report(g) \/ Drain(g)
              /\ UNCHANGED calls \/ Report(g) \/ ReportFails(g)
              /\ UNCHANGED taken \/ Drain(g) \/ Complete(g)
  BY <1>13 DEF Report, ReportFails, Drain, Complete
<1>14. ASSUME NEW g \in Grants, BrokerCheck(g) \/ Retire(g) \/ RetireFails(g)
       PROVE  UNCHANGED <<page, marker, queue, threads, clock, history>>
  BY <1>14 DEF BrokerCheck, Retire, RetireFails
<1>15. CASE Stop
  BY <1>15 DEF Stop
<1>16. CASE Start
  BY <1>16 DEF Start
<1>17. CASE UNCHANGED vars
  BY <1>17 DEF vars
<1>18. CASE \E p \in Pages : Handler(p)
  BY <1>1, <1>2, <1>3, <1>4, <1>5, <1>6, <1>18 DEF Handler
<1>19. CASE \E p \in Pages : StoreSteps(p)
  BY <1>7, <1>8, <1>9, <1>19 DEF StoreSteps
<1>20. CASE \E g \in Grants : Cleanup(g)
  BY <1>12, <1>13, <1>14, <1>20 DEF Cleanup
<1> QED
  BY <1>10, <1>11, <1>15, <1>16, <1>17, <1>18, <1>19, <1>20 DEF Next

\* What may become of the handler of a page.
OpMove(q) ==
    \/ op'[q] = op[q]
    \/ op'[q] = Free /\ (op[q].pc # "section" \/ sec' = NoSection)
    \/ NewPage(q) /\ op'[q] = [pc |-> "publish", kind |-> "new", grants |-> {}, prev |-> {}]
    \/ Edit(q) /\ op'[q] = [pc |-> "update", kind |-> "edit", grants |-> {}, prev |-> Visible(q)]
    \/ \E g \in Grants :
          Create(q, g) /\ op'[q] = [pc |-> "mint", kind |-> "grant", grants |-> {g}, prev |-> Visible(q)]
    \/ \E g \in Grants :
          Revoke(q, g) /\ op'[q] = [pc |-> "start", kind |-> "revoke", grants |-> {g}, prev |-> Visible(q)]
    \/ \E kind \in {"revokeAll", "delete"} :
          RevokePage(q, kind) /\ op'[q] = [pc |-> "start", kind |-> kind, grants |-> {}, prev |-> Visible(q)]
    \/ Reload(q) /\ op'[q] = [pc |-> "commit", kind |-> op[q].kind,
                               grants |-> op[q].grants, prev |-> Visible(q)]
    \/ Minted(q) /\ op'[q] = [op[q] EXCEPT !.pc = "load"]
    \/ Update(q) /\ op'[q] = [op[q] EXCEPT !.pc = "publish"]
    \/ PublishFails(q) /\ op'[q] = [op[q] EXCEPT !.pc = IF op[q].kind = "new" THEN "start" ELSE "restore"]
    \/ (StartRemove(q) \/ StartWipe(q)) /\ op'[q] = [op[q] EXCEPT !.pc = "section"]

LEMMA OpMoves ==
  ASSUME TypeOK, [Next]_vars, NEW q \in Pages
  PROVE  OpMove(q)
<1> USE DEF TypeOK
<1>1. ASSUME NEW p \in Pages, Handler(p) PROVE OpMove(q)
  <2>1. CASE NewPage(p) \/ Edit(p)
    BY <2>1 DEF OpMove, NewPage, Edit, Take
  <2>6. CASE Reload(p)
    BY <2>6 DEF OpMove, Reload
  <2>7. CASE Minted(p) \/ Update(p) \/ PublishFails(p)
    BY <2>7 DEF OpMove, Minted, Update, PublishFails, Goto
  <2>2. CASE Published(p) \/ Restore(p) \/ Commit(p) \/ OpFails(p)
    BY <2>2 DEF OpMove, Published, Restore, Commit, OpFails, EndOp
  <2>3. ASSUME NEW g \in Grants, Create(p, g) \/ Revoke(p, g) PROVE OpMove(q)
    BY <2>3 DEF OpMove, Create, Revoke, Take
  <2>4. ASSUME NEW kind \in {"revokeAll", "delete"}, RevokePage(p, kind) PROVE OpMove(q)
    BY <2>4 DEF OpMove, RevokePage, Take
  <2>5. CASE StartRemove(p) \/ StartWipe(p)
    BY <2>5 DEF OpMove, StartRemove, StartWipe, Goto, EndOp
  <2> QED
    BY <1>1, <2>1, <2>2, <2>3, <2>4, <2>5, <2>6, <2>7 DEF Handler
<1>2. ASSUME NEW p \in Pages, EndSection(p) PROVE OpMove(q)
  BY <1>2 DEF EndSection, EndOp, OpMove, SectionRec, Users
<1>3. ASSUME NEW p \in Pages, Cut(p) \/ Unlink(p) \/ Drop(p) \/ SectionFails(p) PROVE OpMove(q)
  <2>1. EndSection(p) \/ UNCHANGED op \/ (sec' = NoSection /\ op' = [op EXCEPT ![p] = Free])
    <3>1. CASE SectionFails(p)
      BY <3>1 DEF SectionFails
    <3>2. CASE Cut(p) \/ Unlink(p) \/ Drop(p)
      BY <3>2 DEF Cut, Unlink, Drop
    <3> QED
      BY <1>3, <3>1, <3>2
  <2> QED
    BY <1>2, <2>1 DEF OpMove
<1>4. CASE Stop
  BY <1>4 DEF Stop, OpMove
<1> QED
  BY <1>1, <1>3, <1>4, Writers DEF OpMove

\* A section that begins: where it is, and what it is about.
LEMMA SectionFields ==
  ASSUME NEW p \in Pages, NEW pc \in SecPCs, NEW by \in Users, NEW out \in SUBSET Grants,
         NEW all \in BOOLEAN
  PROVE  Section(p, pc, by, out, all) \in SectionRec
  BY DEF Section, SectionRec

LEMMA WipeFields ==
  ASSUME TypeOK, NEW p \in Pages, NEW by \in Users, NEW otherwise \in SecPCs
  PROVE  Wipe(p, by, otherwise) \in SectionRec
  BY SectionFields DEF TypeOK, PageFile, Wipe, SecPCs

LEMMA TypeStep ==
  ASSUME TypeOK, [Next]_vars
  PROVE  TypeOK'
<1>1. page' \in [Pages -> PageFile]
  <2>1. ASSUME NEW p \in Pages, NEW gs \in SUBSET Grants, Write(p, gs)
        PROVE  page' \in [Pages -> PageFile]
    BY <2>1, FileType DEF Write, TypeOK
  <2>2. ASSUME NEW p \in Pages, NewPage(p) \/ Update(p) \/ Restore(p) \/ Commit(p) \/ Cut(p)
        PROVE  \E gs \in SUBSET Grants : Write(p, gs)
    BY <2>2, VisibleType DEF NewPage, Update, Restore, Commit, Cut, TypeOK, Operation, PageFile
  <2>3. ASSUME NEW p \in Pages, Drop(p) PROVE page' \in [Pages -> PageFile]
    BY <2>3, FileType DEF Drop, TypeOK
  <2> QED
    BY <2>1, <2>2, <2>3, Writers DEF TypeOK
<1>2. marker' \in [Pages -> PageFile]
  BY FileType, Writers DEF TypeOK, Mark, Unlink, SectionRec
<1>3. op' \in [Pages -> Operation]
  <2>1. ASSUME NEW p \in Pages, Handler(p) PROVE op' \in [Pages -> Operation]
    <3>1. ASSUME NEW v \in Operation, op' = [op EXCEPT ![p] = v] PROVE op' \in [Pages -> Operation]
      BY <3>1 DEF TypeOK
    <3>2. ASSUME NEW pc \in OpPCs, Goto(p, pc) PROVE op' \in [Pages -> Operation]
      BY <3>2 DEF TypeOK, Goto, Operation
    <3>3. ASSUME NEW pc \in OpPCs, NEW kind \in Kinds, NEW gs \in SUBSET Grants, Take(p, pc, kind, gs)
          PROVE  op' \in [Pages -> Operation]
      BY <3>1, <3>3, VisibleType DEF Take, Operation
    <3>4. EndOp(p) => op' \in [Pages -> Operation]
      BY <3>1, FreeType DEF EndOp
    <3>5. CASE NewPage(p) \/ Edit(p)
      <4>1. [pc |-> "publish", kind |-> "new", grants |-> {}, prev |-> {}] \in Operation
        BY DEF Operation, OpPCs, Kinds
      <4>2. CASE NewPage(p)
        BY <3>1, <4>1, <4>2 DEF NewPage
      <4>3. CASE Edit(p)
        BY <3>3, <4>3 DEF Edit, OpPCs, Kinds
      <4> QED
        BY <3>5, <4>2, <4>3
    <3>6. CASE Reload(p)
      BY <3>1, <3>6, VisibleType DEF Reload, TypeOK, Operation, OpPCs
    <3>7. CASE Minted(p) \/ Update(p) \/ PublishFails(p)
      BY <3>2, <3>7 DEF Minted, Update, PublishFails, OpPCs
    <3>8. CASE Published(p) \/ Restore(p) \/ Commit(p) \/ OpFails(p)
      BY <3>4, <3>8 DEF Published, Restore, Commit, OpFails
    <3>9. ASSUME NEW g \in Grants, Create(p, g) \/ Revoke(p, g) PROVE op' \in [Pages -> Operation]
      BY <3>3, <3>9 DEF Create, Revoke, OpPCs, Kinds
    <3>10. ASSUME NEW kind \in {"revokeAll", "delete"}, RevokePage(p, kind)
           PROVE  op' \in [Pages -> Operation]
      BY <3>3, <3>10 DEF RevokePage, OpPCs, Kinds
    <3>11. CASE StartRemove(p) \/ StartWipe(p)
      BY <3>2, <3>4, <3>11 DEF StartRemove, StartWipe, OpPCs
    <3> QED
      BY <2>1, <3>5, <3>6, <3>7, <3>8, <3>9, <3>10, <3>11 DEF Handler
  <2>2. ASSUME NEW p \in Pages, Cut(p) \/ Unlink(p) \/ Drop(p) \/ SectionFails(p)
        PROVE  op' \in [Pages -> Operation]
    <3>1. UNCHANGED op \/ op' = [op EXCEPT ![p] = Free]
      BY <2>2 DEF Cut, Unlink, Drop, SectionFails, EndSection, EndOp, TypeOK, SectionRec, Users
    <3> QED
      BY <3>1, FreeType DEF TypeOK
  <2>3. CASE Stop
    BY <2>3, FreeType DEF Stop
  <2> QED
    BY <2>1, <2>2, <2>3, Writers DEF TypeOK
<1>4. sec' \in SectionRec
  <2>1. ASSUME NEW p \in Pages, EndSection(p) PROVE sec' \in SectionRec
    BY <2>1, NoSectionType DEF EndSection, TypeOK, SectionRec, Users, SecPCs
  <2>2. ASSUME NEW p \in Pages, StartRemove(p) \/ StartWipe(p) PROVE sec' \in SectionRec
    BY <2>2, SectionFields, WipeFields DEF StartRemove, StartWipe, TypeOK, Operation, SecPCs, Users
  <2>3. ASSUME NEW p \in Pages, Mark(p) PROVE sec' \in SectionRec
    BY <2>3 DEF Mark, TypeOK, SectionRec, SecPCs
  <2>4. ASSUME NEW p \in Pages, Cut(p) \/ Unlink(p) \/ Drop(p) \/ SectionFails(p)
        PROVE  sec' \in SectionRec
    <3>1. EndSection(p) \/ sec' = NoSection \/ \E pc \in SecPCs : sec' = [sec EXCEPT !.pc = pc]
      BY <2>4 DEF Cut, Unlink, Drop, SectionFails, SecPCs
    <3> QED
      BY <2>1, <3>1, NoSectionType DEF TypeOK, SectionRec
  <2>5. ASSUME NEW p \in Pages, Expire(p) \/ Recover(p) \/ ResetNext(p) PROVE sec' \in SectionRec
    BY <2>5, SectionFields, WipeFields, VisibleType DEF Expire, Recover, ResetNext, SecPCs, Users
  <2>6. ASSUME NEW g \in Grants, Enqueue(g) PROVE sec' \in SectionRec
    BY <2>6 DEF Enqueue, TypeOK, SectionRec
  <2>7. CASE ResetRevoke
    <3>1. NoSection.page \in Pages
      BY NoSectionType DEF SectionRec
    <3> QED
      BY <2>7, <3>1, SectionFields DEF ResetRevoke, SecPCs, Users
  <2>8. CASE ResetDone \/ Stop
    BY <2>8, NoSectionType DEF ResetDone, Stop
  <2> QED
    BY <2>2, <2>3, <2>4, <2>5, <2>6, <2>7, <2>8, Writers DEF StoreSteps, TypeOK
<1>5. reset' \in ResetRec
  <2>1. NoReset \in ResetRec
    BY DEF NoReset, ResetRec
  <2>2. CASE ResetList
    BY <2>2 DEF ResetList, ResetRec
  <2>3. ASSUME NEW p \in Pages, ResetLock(p) PROVE reset' \in ResetRec
    BY <2>3 DEF ResetLock, ResetRec, TypeOK
  <2>4. ASSUME NEW p \in Pages, ResetNext(p) PROVE reset' \in ResetRec
    <3>1. Visible(p) \in SUBSET Grants
      BY VisibleType
    <3> QED
      BY <2>4, <3>1 DEF ResetNext, ResetRec, TypeOK
  <2>5. CASE ResetRevoke
    BY <2>5 DEF ResetRevoke, ResetRec, TypeOK
  <2> QED
    BY <2>1, <2>2, <2>3, <2>4, <2>5, Writers DEF Reset, ResetDone, Stop, SectionFails, TypeOK
<1>6. calls' \in SUBSET Grants
  <2>1. ASSUME NEW p \in Pages PROVE Reported(p) \in SUBSET Grants
    BY DEF Reported, TypeOK, Operation
  <2>2. ASSUME NEW p \in Pages, Cut(p) \/ Unlink(p) \/ Drop(p) PROVE calls' \in SUBSET Grants
    <3>1. UNCHANGED calls \/ EndSection(p)
      BY <2>2 DEF Cut, Unlink, Drop
    <3> QED
      BY <2>1, <3>1 DEF EndSection, TypeOK, SectionRec, Users
  <2> QED
    BY <2>2, Writers DEF Stop, ResetDone, Report, ReportFails, TypeOK, ResetRec
<1>7. broker' \in [Grants -> {"none", "row", "dead", "retired"}]
  BY Writers DEF TypeOK, Stop, Report, Drain, Accept, BrokerCheck, Retire, RetireFails
<1>8. queue' \in SUBSET Grants /\ taken' \in SUBSET Grants
  BY Writers DEF TypeOK, Enqueue, Complete, Stop, Drain
<1>9. used' \in SUBSET Grants /\ expired' \in SUBSET Grants /\ up' \in BOOLEAN
  BY Writers DEF TypeOK, Create, Elapse, Stop, Start
<1>10. revoked' \in SUBSET Grants /\ unlocked' \in SUBSET Pages
  BY Writers DEF TypeOK, Mark, Cut, SectionRec
<1>11. seen' \in SUBSET Grants
  BY Writers DEF TypeOK, Commit, Operation
<1> QED
  BY <1>1, <1>2, <1>3, <1>4, <1>5, <1>6, <1>7, <1>8, <1>9, <1>10, <1>11 DEF TypeOK

\* A reset takes the locks of pages that no handler holds.
LEMMA HeldMoves ==
  ASSUME TypeOK, [Next]_vars
  PROVE  \/ reset'.held = reset.held
         \/ reset'.held = {}
         \/ UNCHANGED op /\ \E p \in Pages : LockFree(p) /\ reset'.held = reset.held \union {p}
<1>1. CASE ResetList
  BY <1>1 DEF ResetList
<1>2. ASSUME NEW p \in Pages, ResetLock(p)
      PROVE  UNCHANGED op /\ LockFree(p) /\ reset'.held = reset.held \union {p}
  BY <1>2 DEF ResetLock, TypeOK, ResetRec
<1>3. ASSUME NEW p \in Pages, ResetNext(p) PROVE reset'.held = reset.held
  BY <1>3 DEF ResetNext, TypeOK, ResetRec
<1>4. CASE ResetRevoke
  BY <1>4 DEF ResetRevoke, TypeOK, ResetRec
<1>5. NoReset.held = {}
  BY DEF NoReset
<1> QED
  BY <1>1, <1>2, <1>3, <1>4, <1>5, Writers DEF Reset, ResetDone, Stop, SectionFails

LEMMA OpStep ==
  ASSUME TypeOK, OpInv, [Next]_vars
  PROVE  OpInv'
<1> USE DEF TypeOK, Operation
<1>1. ASSUME NEW q \in Pages
      PROVE  /\ op'[q].pc = "idle" => op'[q].kind = "none"
             /\ op'[q].pc \in {"mint", "load", "commit"} => op'[q].kind = "grant"
             /\ op'[q].pc \in {"update", "restore"} => op'[q].kind = "edit"
             /\ op'[q].pc = "publish" => op'[q].kind \in {"new", "edit"}
             /\ op'[q].pc \in {"start", "section"} => op'[q].kind \notin {"none", "grant", "edit"}
             /\ op'[q].kind = "revoke" => op'[q].grants # {}
             /\ op[q].pc = "idle" /\ q \in reset.held => op'[q].pc = "idle"
  <2>1. OpMove(q)
    BY OpMoves
  <2>2. CASE op'[q] = op[q] \/ op'[q] = Free
    BY <2>2 DEF OpInv, Free
  <2>3. CASE NewPage(q) /\ op'[q] = [pc |-> "publish", kind |-> "new", grants |-> {}, prev |-> {}]
    BY <2>3 DEF NewPage, LockFree
  <2>4. CASE Edit(q) /\ op'[q] = [pc |-> "update", kind |-> "edit", grants |-> {}, prev |-> Visible(q)]
    BY <2>4 DEF Edit, Take, LockFree
  <2>5. ASSUME NEW g \in Grants, Create(q, g),
               op'[q] = [pc |-> "mint", kind |-> "grant", grants |-> {g}, prev |-> Visible(q)]
        PROVE  op'[q].pc = "mint" /\ op'[q].kind = "grant" /\ q \notin reset.held
    BY <2>5 DEF Create, Take, LockFree
  <2>6. ASSUME NEW g \in Grants, Revoke(q, g),
               op'[q] = [pc |-> "start", kind |-> "revoke", grants |-> {g}, prev |-> Visible(q)]
        PROVE  op'[q].pc = "start" /\ op'[q].grants = {g} /\ op'[q].kind = "revoke" /\ q \notin reset.held
    BY <2>6 DEF Revoke, Take, LockFree
  <2>7. ASSUME NEW kind \in {"revokeAll", "delete"}, RevokePage(q, kind),
               op'[q] = [pc |-> "start", kind |-> kind, grants |-> {}, prev |-> Visible(q)]
        PROVE  op'[q].pc = "start" /\ op'[q].kind = kind /\ q \notin reset.held
    BY <2>7 DEF RevokePage, Take, LockFree
  <2>8. CASE Reload(q) /\ op'[q] = [pc |-> "commit", kind |-> op[q].kind,
                                    grants |-> op[q].grants, prev |-> Visible(q)]
    BY <2>8 DEF Reload, OpInv
  <2>9. CASE Minted(q) /\ op'[q] = [op[q] EXCEPT !.pc = "load"]
    BY <2>9 DEF Minted, OpInv
  <2>10. CASE Update(q) /\ op'[q] = [op[q] EXCEPT !.pc = "publish"]
    BY <2>10 DEF Update, OpInv
  <2>11. CASE PublishFails(q) /\ op'[q] = [op[q] EXCEPT !.pc = IF op[q].kind = "new" THEN "start" ELSE "restore"]
    BY <2>11 DEF PublishFails, OpInv
  <2>12. CASE (StartRemove(q) \/ StartWipe(q)) /\ op'[q] = [op[q] EXCEPT !.pc = "section"]
    <3>1. op[q].pc = "start"
      BY <2>12 DEF StartRemove, StartWipe
    <3> QED
      BY <2>12, <3>1 DEF OpInv
  <2> QED
    BY <2>1, <2>2, <2>3, <2>4, <2>5, <2>6, <2>7, <2>8, <2>9, <2>10, <2>11, <2>12 DEF OpMove
<1>2. ASSUME NEW q \in Pages, q \in reset'.held PROVE op'[q].pc = "idle"
  BY <1>1, <1>2, HeldMoves DEF OpInv, LockFree
<1> QED
  BY <1>1, <1>2 DEF OpInv

\* The store is released; so is the lock of the handler it worked for.
Released ==
    /\ sec' = NoSection
    /\ \/ op' = [p \in Pages |-> Free]
       \/ sec.by # "op" /\ UNCHANGED op
       \/ sec.pc # "free" /\ sec.by = "op" /\ op' = [op EXCEPT ![sec.page] = Free]

NextPage == sec.by = "reset" /\ sec' = [sec EXCEPT !.pc = "next"] /\ UNCHANGED op

\* What may become of the use of the page store.
SecMove ==
    \/ sec' = sec \/ Released \/ NextPage
    \/ \E p \in Pages :
          \/ StartRemove(p) /\ sec' = Section(p, "enqueue", "op", op[p].grants, FALSE)
                            /\ op' = [op EXCEPT ![p].pc = "section"]
                            /\ op[p].grants \subseteq Visible(p)
          \/ StartWipe(p) /\ sec' = Wipe(p, "op", "drop") /\ op' = [op EXCEPT ![p].pc = "section"]
          \/ Expire(p) \/ Recover(p) \/ ResetNext(p)
          \/ Mark(p)
          \/ Cut(p) /\ sec.all /\ sec' = [sec EXCEPT !.pc = "unlink"] /\ UNCHANGED op
          \/ Unlink(p) /\ sec' = [sec EXCEPT !.pc = "drop"] /\ UNCHANGED op
    \/ ResetRevoke
    \/ \E g \in Grants : Enqueue(g)

LEMMA SecMoves ==
  ASSUME TypeOK, OpInv, SecInv, [Next]_vars
  PROVE  SecMove
<1>1. ASSUME NEW p \in Pages, StartRemove(p) PROVE SecMove
  BY <1>1 DEF StartRemove, SecMove, Goto
<1>2. ASSUME NEW p \in Pages, StartWipe(p) PROVE SecMove
  BY <1>2 DEF StartWipe, SecMove, Goto
<1>3. ASSUME NEW p \in Pages, sec.pc # "free", sec.page = p, EndSection(p) PROVE SecMove
  <2>1. CASE sec.by = "op"
    BY <1>3, <2>1 DEF EndSection, EndOp, SecMove, Released
  <2>2. CASE sec.by = "thread"
    BY <1>3, <2>2 DEF EndSection, SecMove, Released
  <2>3. CASE sec.by = "reset"
    BY <1>3, <2>3 DEF EndSection, SecMove, NextPage
  <2> QED
    BY <2>1, <2>2, <2>3 DEF TypeOK, SectionRec, Users
<1>4. ASSUME NEW p \in Pages, Cut(p) PROVE SecMove
  <2>1. CASE sec.all
    BY <1>4, <2>1 DEF Cut, SecMove
  <2> QED
    BY <1>3, <1>4, <2>1 DEF Cut
<1>5. ASSUME NEW p \in Pages, Unlink(p) PROVE SecMove
  <2>1. CASE sec.by = "op" /\ op[p].kind \in {"new", "delete"}
    BY <1>5, <2>1 DEF Unlink, SecMove
  <2> QED
    BY <1>3, <1>5, <2>1 DEF Unlink
<1>6. ASSUME NEW p \in Pages, Drop(p) PROVE SecMove
  BY <1>3, <1>6 DEF Drop
<1>7. ASSUME NEW p \in Pages, SectionFails(p) PROVE SecMove
  <2>1. CASE sec.by = "op"
    BY <1>7, <2>1 DEF SectionFails, SecMove, Released
  <2>2. CASE sec.by # "op"
    BY <1>7, <2>2 DEF SectionFails, SecMove, Released
  <2> QED
    BY <2>1, <2>2
<1>8. CASE Stop
  BY <1>8 DEF Stop, SecMove, Released
<1>9. CASE ResetDone
  <2>1. sec.pc = "next" /\ sec.by = "reset"
    BY <1>9 DEF ResetDone, SecInv
  <2> QED
    BY <1>9, <2>1 DEF ResetDone, SecMove, Released
<1> QED
  BY <1>1, <1>2, <1>4, <1>5, <1>6, <1>7, <1>8, <1>9, Writers DEF SecMove, StoreSteps

\* Nothing that is owed, over, revoked or seen ceases to be.
LEMMA Monotone ==
  ASSUME TypeOK, TakenInv, [Next]_vars
  PROVE  /\ \A g \in Grants : broker[g] # "none" => broker'[g] # "none"
         /\ \A g \in Grants : Owed(g) => Owed(g)'
         /\ used \subseteq used' /\ expired \subseteq expired' /\ revoked \subseteq revoked'
         /\ seen \subseteq seen' /\ unlocked \subseteq unlocked'
<1> USE DEF TypeOK
<1>1. ASSUME NEW g \in Grants, broker[g] # "none" PROVE broker'[g] # "none"
  BY <1>1, Writers DEF Stop, Report, Drain, Accept, BrokerCheck, Retire, RetireFails
<1>2. ASSUME NEW g \in Grants, g \in queue PROVE g \in queue' \/ broker[g] # "none"
  BY <1>2, Writers DEF Enqueue, Complete, TakenInv
<1>3. used \subseteq used' /\ expired \subseteq expired'
  BY Writers DEF Create, Elapse
<1>4. revoked \subseteq revoked' /\ unlocked \subseteq unlocked'
  BY Writers DEF Mark, Cut
<1>5. seen \subseteq seen'
  BY Writers DEF Commit
<1> QED
  BY <1>1, <1>2, <1>3, <1>4, <1>5 DEF Owed

LEMMA TakenStep ==
  ASSUME TypeOK, TakenInv, [Next]_vars
  PROVE  TakenInv'
<1>1. ASSUME NEW g \in Grants, Drain(g) PROVE TakenInv'
  BY <1>1 DEF Drain, Accept, TypeOK, TakenInv
<1> QED
  BY <1>1, Monotone, Writers DEF TypeOK, TakenInv, Stop, Complete

LEMMA FileStep ==
  ASSUME TypeOK, FileInv, [Next]_vars
  PROVE  FileInv'
<1>1. ASSUME NEW q \in Pages PROVE page'[q].there \/ page'[q] = page[q] \/ page'[q].grants = {}
  BY Writers DEF TypeOK, NewPage, Update, Restore, Commit, Cut, Drop, Write, File, NoFile
<1>2. ASSUME NEW q \in Pages PROVE marker'[q].there \/ marker'[q] = marker[q] \/ marker'[q].grants = {}
  BY Writers DEF TypeOK, Mark, Unlink, File, NoFile
<1> QED
  BY <1>1, <1>2 DEF FileInv

\* The files of pages do not change under a use of the store that stands still.
LEMMA StoreLocked ==
  ASSUME TypeOK, [Next]_vars, sec' = sec, sec.pc # "free"
  PROVE  UNCHANGED <<page, marker>>
<1>1. ASSUME NEW p \in Pages, NewPage(p) \/ Update(p) \/ Restore(p) \/ Commit(p) PROVE FALSE
  BY <1>1 DEF NewPage, Update, Restore, Commit, StoreFree
<1>2. ASSUME NEW p \in Pages, EndSection(p), sec.pc # "next" PROVE FALSE
  BY <1>2, NoSectionType DEF EndSection, TypeOK, SectionRec, Users
<1>3. ASSUME NEW p \in Pages, Cut(p) \/ Drop(p) PROVE FALSE
  BY <1>2, <1>3 DEF Cut, Drop, TypeOK, SectionRec
<1>4. ASSUME NEW p \in Pages, Mark(p) \/ Unlink(p) PROVE FALSE
  BY <1>2, <1>4 DEF Mark, Unlink, TypeOK, SectionRec
<1> QED
  BY <1>1, <1>3, <1>4, Writers

\* Where the revocation of a page begins.
LEMMA WipeIs ==
  ASSUME NEW p \in Pages, NEW by \in Users, NEW otherwise \in SecPCs
  PROVE  LET w == Wipe(p, by, otherwise) IN
         /\ w.page = p /\ w.by = by
         /\ w.all
         /\ w.todo = w.out
         /\ w.pc \in {"mark", "enqueue", otherwise}
         /\ marker[p].there => w.pc = "enqueue" /\ w.out = marker[p].grants
         /\ ~marker[p].there => w.out = page[p].grants
         /\ ~marker[p].there /\ page[p].grants # {} => w.pc = "mark"
         /\ ~marker[p].there /\ page[p].grants = {} => w.pc = otherwise
<1>1. CASE marker[p].there
  <2>1. Wipe(p, by, otherwise) = Section(p, "enqueue", by, marker[p].grants, TRUE)
    BY <1>1 DEF Wipe
  <2> QED
    BY <1>1, <2>1 DEF Section
<1>2. CASE ~marker[p].there /\ page[p].grants # {}
  <2>1. Wipe(p, by, otherwise) = Section(p, "mark", by, page[p].grants, TRUE)
    BY <1>2 DEF Wipe
  <2> QED
    BY <1>2, <2>1 DEF Section
<1>3. CASE ~marker[p].there /\ page[p].grants = {}
  <2>1. Wipe(p, by, otherwise) = Section(p, otherwise, by, page[p].grants, TRUE)
    BY <1>3 DEF Wipe
  <2> QED
    BY <1>3, <2>1 DEF Section
<1> QED
  BY <1>1, <1>2, <1>3

LEMMA HolderStep ==
  ASSUME TypeOK, OpInv, SecInv, HolderInv, [Next]_vars
  PROVE  HolderInv'
<1> SUFFICES ASSUME NEW q \in Pages
             PROVE  op'[q].pc = "section" <=> sec'.pc # "free" /\ sec'.by = "op" /\ sec'.page = q
  BY DEF HolderInv
<1> USE DEF TypeOK, SectionRec
<1>1. op[q].pc = "section" <=> sec.pc # "free" /\ sec.by = "op" /\ sec.page = q
  BY DEF HolderInv
<1>2. CASE sec' = sec
  <2>1. CASE op'[q] = op[q]
    BY <1>1, <1>2, <2>1
  <2>2. CASE op'[q] = Free /\ (op[q].pc # "section" \/ sec' = NoSection)
    BY <1>1, <1>2, <2>2, NoSectionType DEF Free
  <2>3. ASSUME StartRemove(q) \/ StartWipe(q), op'[q] = [op[q] EXCEPT !.pc = "section"]
        PROVE  FALSE
    <3>1. sec.pc = "free" /\ op[q].pc = "start"
      BY <2>3 DEF StartRemove, StartWipe, StoreFree
    <3>2. op'[q] # Free
      BY <2>3 DEF Free, Operation
    <3>3. CASE StartRemove(q)
      <4>1. sec' = Section(q, "enqueue", "op", op[q].grants, FALSE)
        BY <3>2, <3>3 DEF StartRemove, EndOp
      <4> QED
        BY <1>2, <3>1, <4>1 DEF Section
    <3>4. CASE StartWipe(q)
      <4>1. sec' = Wipe(q, "op", "drop")
        BY <3>2, <3>4 DEF StartWipe, EndOp
      <4>2. sec'.pc \in {"mark", "enqueue", "drop"}
        BY <4>1, WipeIs DEF Users, SecPCs
      <4> QED
        BY <1>2, <3>1, <4>2
    <3> QED
      BY <2>3, <3>3, <3>4
  <2>5. ASSUME NewPage(q), op'[q] = [pc |-> "publish", kind |-> "new", grants |-> {}, prev |-> {}]
        PROVE  op'[q].pc # "section" /\ op[q].pc # "section"
    BY <2>5 DEF NewPage, LockFree
  <2>6. ASSUME Edit(q), op'[q] = [pc |-> "update", kind |-> "edit", grants |-> {}, prev |-> Visible(q)]
        PROVE  op'[q].pc # "section" /\ op[q].pc # "section"
    BY <2>6 DEF Edit, Take, LockFree
  <2>7. ASSUME NEW g \in Grants, Create(q, g),
               op'[q] = [pc |-> "mint", kind |-> "grant", grants |-> {g}, prev |-> Visible(q)]
        PROVE  op'[q].pc # "section" /\ op[q].pc # "section"
    BY <2>7 DEF Create, Take, LockFree
  <2>8. ASSUME NEW g \in Grants, Revoke(q, g),
               op'[q] = [pc |-> "start", kind |-> "revoke", grants |-> {g}, prev |-> Visible(q)]
        PROVE  op'[q].pc # "section" /\ op[q].pc # "section"
    BY <2>8 DEF Revoke, Take, LockFree
  <2>9. ASSUME NEW kind \in {"revokeAll", "delete"}, RevokePage(q, kind),
               op'[q] = [pc |-> "start", kind |-> kind, grants |-> {}, prev |-> Visible(q)]
        PROVE  op'[q].pc # "section" /\ op[q].pc # "section"
    BY <2>9 DEF RevokePage, Take, LockFree
  <2>10. ASSUME Reload(q), op'[q] = [pc |-> "commit", kind |-> op[q].kind,
                                     grants |-> op[q].grants, prev |-> Visible(q)]
        PROVE  op'[q].pc # "section" /\ op[q].pc # "section"
    BY <2>10 DEF Reload
  <2>11. ASSUME Minted(q), op'[q] = [op[q] EXCEPT !.pc = "load"]
        PROVE  op'[q].pc # "section" /\ op[q].pc # "section"
    BY <2>11 DEF Minted, Operation
  <2>12. ASSUME Update(q), op'[q] = [op[q] EXCEPT !.pc = "publish"]
        PROVE  op'[q].pc # "section" /\ op[q].pc # "section"
    BY <2>12 DEF Update, Operation
  <2>13. ASSUME PublishFails(q), op'[q] = [op[q] EXCEPT !.pc = IF op[q].kind = "new" THEN "start" ELSE "restore"]
        PROVE  op'[q].pc # "section" /\ op[q].pc # "section"
    BY <2>13 DEF PublishFails, Operation
  <2>14. op'[q] = op[q] \/ (op'[q] = Free /\ (op[q].pc # "section" \/ sec' = NoSection))
         \/ (op'[q].pc # "section" /\ op[q].pc # "section")
    BY <2>3, <2>5, <2>6, <2>7, <2>8, <2>9, <2>10, <2>11, <2>12, <2>13, OpMoves DEF OpMove
  <2> QED
    BY <1>1, <1>2, <2>1, <2>2, <2>14
<1>3. CASE Released
  <2>1. op'[q].pc # "section"
    BY <1>1, <1>3 DEF Released, Free
  <2> QED
    BY <1>3, <2>1, NoSectionType DEF Released
<1>4. CASE NextPage
  BY <1>1, <1>4 DEF NextPage
<1>5. ASSUME NEW p \in Pages, StartRemove(p), sec' = Section(p, "enqueue", "op", op[p].grants, FALSE),
             op' = [op EXCEPT ![p].pc = "section"]
      PROVE  op'[q].pc = "section" <=> sec'.pc # "free" /\ sec'.by = "op" /\ sec'.page = q
  <2>1. sec.pc = "free"
    BY <1>5 DEF StartRemove, StoreFree
  <2>2. sec'.pc # "free" /\ sec'.by = "op" /\ sec'.page = p
    BY <1>5 DEF Section
  <2> QED
    BY <1>1, <1>5, <2>1, <2>2 DEF Operation
<1>6. ASSUME NEW p \in Pages, StartWipe(p), sec' = Wipe(p, "op", "drop"),
             op' = [op EXCEPT ![p].pc = "section"]
      PROVE  op'[q].pc = "section" <=> sec'.pc # "free" /\ sec'.by = "op" /\ sec'.page = q
  <2>1. sec.pc = "free"
    BY <1>6 DEF StartWipe, StoreFree
  <2>2. sec'.pc # "free" /\ sec'.by = "op" /\ sec'.page = p
    <3>1. sec' = Wipe(p, "op", "drop")
      BY <1>6
    <3> QED
      BY <3>1, WipeIs DEF Users, SecPCs
  <2> QED
    BY <1>1, <1>6, <2>1, <2>2 DEF Operation
<1>7. ASSUME NEW p \in Pages, Expire(p) \/ Recover(p) \/ ResetNext(p)
      PROVE  op'[q].pc = "section" <=> sec'.pc # "free" /\ sec'.by = "op" /\ sec'.page = q
  <2>1. UNCHANGED op /\ (sec.pc = "free" \/ sec.by = "reset")
    BY <1>7 DEF Expire, Recover, ResetNext, StoreFree, SecInv
  <2>2. sec'.by \in {"thread", "reset"}
    <3>1. CASE Expire(p)
      BY <3>1 DEF Expire, Section
    <3>2. CASE Recover(p)
      BY <3>2, WipeIs DEF Recover, Users, SecPCs
    <3>3. CASE ResetNext(p)
      BY <3>3, WipeIs DEF ResetNext, Users, SecPCs
    <3> QED
      BY <1>7, <3>1, <3>2, <3>3
  <2> QED
    BY <1>1, <2>1, <2>2
<1>8. ASSUME NEW p \in Pages, Mark(p)
      PROVE  op'[q].pc = "section" <=> sec'.pc # "free" /\ sec'.by = "op" /\ sec'.page = q
  BY <1>1, <1>8 DEF Mark
<1>9. ASSUME NEW p \in Pages, Cut(p), sec' = [sec EXCEPT !.pc = "unlink"], UNCHANGED op
      PROVE  op'[q].pc = "section" <=> sec'.pc # "free" /\ sec'.by = "op" /\ sec'.page = q
  <2>1. sec.pc = "enqueue"
    BY <1>9 DEF Cut
  <2> QED
    BY <1>1, <1>9, <2>1
<1>10. ASSUME NEW p \in Pages, Unlink(p), sec' = [sec EXCEPT !.pc = "drop"], UNCHANGED op
       PROVE  op'[q].pc = "section" <=> sec'.pc # "free" /\ sec'.by = "op" /\ sec'.page = q
  <2>1. sec.pc = "unlink"
    BY <1>10 DEF Unlink
  <2> QED
    BY <1>1, <1>10, <2>1
<1>11. CASE ResetRevoke
  <2>1. UNCHANGED op /\ sec.pc = "free" /\ sec'.by = "reset"
    BY <1>11 DEF ResetRevoke, StoreFree, Section
  <2> QED
    BY <1>1, <2>1
<1>12. ASSUME NEW g \in Grants, Enqueue(g)
       PROVE  op'[q].pc = "section" <=> sec'.pc # "free" /\ sec'.by = "op" /\ sec'.page = q
  BY <1>1, <1>12 DEF Enqueue
<1> QED
  BY <1>2, <1>3, <1>4, <1>5, <1>6, <1>7, <1>8, <1>9, <1>10, <1>11, <1>12, SecMoves DEF SecMove

\* The revocation of a page that begins has its invariant.
LEMMA WipeStarts ==
  ASSUME TypeOK, NEW p \in Pages, NEW by \in Users, NEW otherwise \in {"drop", "next"},
         sec' = Wipe(p, by, otherwise), UNCHANGED <<page, marker>>,
         by = "thread" => marker[p].there,
         otherwise = "next" => by = "reset"
  PROVE  SecInv'
<1>1. otherwise \in SecPCs
  BY DEF SecPCs
<1>2. /\ sec'.page = p /\ sec'.by = by
      /\ sec'.all
      /\ sec'.todo = sec'.out
      /\ sec'.pc \in {"mark", "enqueue", otherwise}
  BY <1>1, WipeIs
<1>3. /\ marker[p].there => sec'.pc = "enqueue" /\ sec'.out = marker[p].grants
      /\ ~marker[p].there => sec'.out = page[p].grants
      /\ ~marker[p].there /\ page[p].grants # {} => sec'.pc = "mark"
      /\ ~marker[p].there /\ page[p].grants = {} => sec'.pc = otherwise
  BY <1>1, WipeIs
<1>4. marker[p].there => marker[p] = File(marker[p].grants)
  BY DEF TypeOK, PageFile, File
<1> QED
  BY <1>2, <1>3, <1>4 DEF SecInv

LEMMA SecStep ==
  ASSUME TypeOK, OpInv, SecInv, HolderInv, TakenInv, [Next]_vars
  PROVE  SecInv'
<1>1. CASE sec' = sec
  <2>1. CASE sec.pc = "free"
    BY <1>1, <2>1 DEF SecInv
  <2>2. CASE sec.pc # "free"
    <3>1. UNCHANGED <<page, marker>>
      BY <1>1, <2>2, StoreLocked
    <3>2. marker[sec.page] \in PageFile /\ sec.out \subseteq Grants
      BY DEF TypeOK, SectionRec
    <3>3. \A g \in sec.out : Owed(g) => Owed(g)'
      BY <3>2, Monotone
    <3>4. \A g \in marker[sec.page].grants : Owed(g) => Owed(g)'
      BY <3>2, Monotone DEF PageFile
    <3>5. expired \subseteq expired'
      BY Monotone
    <3> QED
      BY <1>1, <3>1, <3>3, <3>4, <3>5 DEF SecInv
  <2> QED
    BY <2>1, <2>2
<1>2. CASE Released
  BY <1>2, NoSectionType DEF Released, SecInv
<1>3. CASE NextPage
  BY <1>3 DEF NextPage, SecInv, TypeOK, SectionRec
<1>4. ASSUME NEW p \in Pages, StartRemove(p), op[p].grants \subseteq Visible(p),
             sec' = Section(p, "enqueue", "op", op[p].grants, FALSE)
      PROVE  SecInv'
  <2>1. op[p].grants # {} /\ UNCHANGED <<page, marker>>
    BY <1>4 DEF StartRemove, files, OpInv
  <2>2. ~marker[p].there /\ op[p].grants \subseteq page[p].grants
    BY <1>4, <2>1 DEF Visible
  <2>3. /\ sec'.page = p /\ sec'.by = "op" /\ sec'.pc = "enqueue"
        /\ sec'.out = op[p].grants
        /\ sec'.todo = op[p].grants
        /\ ~sec'.all
    BY <1>4 DEF Section
  <2> QED
    BY <2>1, <2>2, <2>3 DEF SecInv
<1>5. ASSUME NEW p \in Pages, StartWipe(p), sec' = Wipe(p, "op", "drop") PROVE SecInv'
  BY <1>5, WipeStarts DEF StartWipe, files, Users
<1>6. ASSUME NEW p \in Pages, Expire(p) PROVE SecInv'
  <2>1. UNCHANGED <<page, marker, expired>> /\ Visible(p) \intersect expired # {}
    BY <1>6 DEF Expire, files, clock
  <2>2. ~marker[p].there /\ Visible(p) = page[p].grants
    BY <2>1 DEF Visible
  <2>3. /\ sec'.page = p /\ sec'.by = "thread" /\ sec'.pc = "enqueue"
        /\ sec'.out = Visible(p) \intersect expired
        /\ sec'.todo = Visible(p) \intersect expired
        /\ ~sec'.all
    BY <1>6 DEF Expire, Section
  <2> QED
    BY <2>1, <2>2, <2>3 DEF SecInv
<1>7. ASSUME NEW p \in Pages, Recover(p) PROVE SecInv'
  BY <1>7, WipeStarts DEF Recover, files, Users
<1>8. ASSUME NEW p \in Pages, ResetNext(p) PROVE SecInv'
  BY <1>8, WipeStarts DEF ResetNext, files, Users
<1>9. ASSUME NEW p \in Pages, Mark(p) PROVE SecInv'
  <2>1. sec.page = p /\ sec.all /\ sec.todo = sec.out
    BY <1>9 DEF Mark, SecInv
  <2>2. marker'[p] = File(sec.out)
    BY <1>9 DEF Mark, TypeOK
  <2>3. /\ sec'.page = p /\ sec'.pc = "enqueue" /\ sec'.out = sec.out /\ sec'.todo = sec.out
        /\ sec'.all
    BY <1>9, <2>1 DEF Mark, TypeOK, SectionRec
  <2> QED
    BY <2>2, <2>3 DEF SecInv
<1>10. ASSUME NEW p \in Pages, Cut(p), sec.all, sec' = [sec EXCEPT !.pc = "unlink"] PROVE SecInv'
  <2>1. sec.pc = "enqueue" /\ sec.page = p /\ sec.todo = {} /\ UNCHANGED <<marker, queue, broker>>
    BY <1>10 DEF Cut
  <2>2. page'[p].grants = {}
    BY <1>10 DEF Cut, Write, File, TypeOK
  <2>3. sec'.pc = "unlink" /\ sec'.page = p /\ sec'.todo = {}
    BY <1>10, <2>1 DEF TypeOK, SectionRec
  <2>4. marker[p].grants = sec.out /\ \A g \in sec.out : Owed(g)
    BY <1>10, <2>1 DEF SecInv, File
  <2>5. \A g \in marker'[p].grants : Owed(g)'
    BY <2>1, <2>4 DEF Owed
  <2> QED
    BY <2>2, <2>3, <2>5 DEF SecInv
<1>11. ASSUME NEW p \in Pages, Unlink(p), sec' = [sec EXCEPT !.pc = "drop"] PROVE SecInv'
  <2>1. sec.pc = "unlink" /\ UNCHANGED page
    BY <1>11 DEF Unlink
  <2>2. sec'.pc = "drop" /\ sec'.page = sec.page /\ sec'.todo = sec.todo /\ sec'.out = sec.out
    BY <1>11 DEF TypeOK, SectionRec
  <2> QED
    BY <2>1, <2>2 DEF SecInv
<1>12. CASE ResetRevoke
  <2>1. sec'.pc = "next" /\ sec'.by = "reset" /\ sec'.todo = {}
    BY <1>12 DEF ResetRevoke, Section
  <2> QED
    BY <2>1 DEF SecInv
<1>13. ASSUME NEW g \in Grants, Enqueue(g) PROVE SecInv'
  <2>1. /\ sec.pc = "enqueue" /\ g \in sec.todo /\ queue' = queue \union {g}
        /\ UNCHANGED <<page, marker, broker, expired>>
    BY <1>13 DEF Enqueue, clock
  <2>2. /\ sec'.pc = sec.pc /\ sec'.page = sec.page /\ sec'.by = sec.by /\ sec'.out = sec.out
        /\ sec'.todo = sec.todo \ {g}
        /\ sec'.all <=> sec.all
    BY <1>13 DEF Enqueue, TypeOK, SectionRec
  <2>3. \A h \in sec.out \ (sec.todo \ {g}) : Owed(h)'
    BY <2>1 DEF SecInv, Owed
  <2> QED
    BY <2>1, <2>2, <2>3 DEF SecInv
<1> QED
  BY <1>1, <1>2, <1>3, <1>4, <1>5, <1>6, <1>7, <1>8, <1>9, <1>10, <1>11, <1>12, <1>13, SecMoves DEF SecMove

\* The grants a handler works on, and the copy it has read.
LEMMA OpGrants ==
  ASSUME TypeOK, [Next]_vars, NEW q \in Pages
  PROVE  /\ \/ op'[q].kind = op[q].kind /\ op'[q].grants = op[q].grants
            \/ op'[q].kind # "grant" /\ op'[q].grants = {}
            \/ op'[q].kind # "grant" /\ \E g \in Visible(q) : op'[q].grants = {g}
            \/ op'[q].kind = "grant" /\ \E g \in Grants : Create(q, g) /\ op'[q].grants = {g}
         /\ op'[q].prev \in {op[q].prev, {}, Visible(q)}
<1> USE DEF TypeOK, Operation
<1>1. ASSUME NEW g \in Grants, Revoke(q, g) PROVE g \in Visible(q)
  BY <1>1 DEF Revoke
<1>2. Free.kind = "none" /\ Free.grants = {} /\ Free.prev = {}
  BY DEF Free
<1> DEFINE New(gs) == op'[q].kind # "grant" /\ op'[q].grants = gs /\ op'[q].prev \in {{}, Visible(q)}
           Made == op'[q].kind = "grant" /\ op'[q].prev = Visible(q)
                   /\ \E g \in Grants : Create(q, g) /\ op'[q].grants = {g}
<1>3. CASE \E pc \in OpPCs : op'[q] = [op[q] EXCEPT !.pc = pc]
  BY <1>3
<1>4. ASSUME NEW g \in Grants, Create(q, g),
             op'[q] = [pc |-> "mint", kind |-> "grant", grants |-> {g}, prev |-> Visible(q)]
      PROVE  Made
  BY <1>4
<1>5. ASSUME NEW g \in Grants, Revoke(q, g),
             op'[q] = [pc |-> "start", kind |-> "revoke", grants |-> {g}, prev |-> Visible(q)]
      PROVE  g \in Visible(q) /\ New({g})
  BY <1>1, <1>5
<1>6. ASSUME NEW kind \in {"revokeAll", "delete"},
             op'[q] = [pc |-> "start", kind |-> kind, grants |-> {}, prev |-> Visible(q)]
      PROVE  New({})
  BY <1>6
<1>7. CASE op'[q] = Free \/ op'[q] = [pc |-> "publish", kind |-> "new", grants |-> {}, prev |-> {}]
           \/ op'[q] = [pc |-> "update", kind |-> "edit", grants |-> {}, prev |-> Visible(q)]
  BY <1>2, <1>7
<1>8. CASE op'[q] = op[q] \/ op'[q] = [pc |-> "commit", kind |-> op[q].kind,
                                       grants |-> op[q].grants, prev |-> Visible(q)]
  BY <1>8
<1>9. \/ op'[q] = Free \/ op'[q] = [pc |-> "publish", kind |-> "new", grants |-> {}, prev |-> {}]
      \/ op'[q] = [pc |-> "update", kind |-> "edit", grants |-> {}, prev |-> Visible(q)]
      \/ op'[q] = op[q]
      \/ op'[q] = [pc |-> "commit", kind |-> op[q].kind, grants |-> op[q].grants, prev |-> Visible(q)]
      \/ \E pc \in OpPCs : op'[q] = [op[q] EXCEPT !.pc = pc]
      \/ Made \/ New({}) \/ \E g \in Visible(q) : New({g})
  <2> HIDE DEF Made, New
  <2> QED
    BY <1>4, <1>5, <1>6, OpMoves DEF OpMove, OpPCs
<1> QED
  BY <1>3, <1>7, <1>8, <1>9

\* A grant that is not being created will never be created again.
LEMMA SettledGrows ==
  ASSUME TypeOK, TakenInv, [Next]_vars
  PROVE  Settled \subseteq Settled'
<1> SUFFICES ASSUME NEW g \in Settled PROVE g \in Settled'
  OBVIOUS
<1>1. g \in used /\ g \in used'
  BY Monotone DEF Settled
<1>2. ASSUME NEW q \in Pages, op'[q].kind = "grant" PROVE g \notin op'[q].grants
  <2>1. ASSUME NEW h \in Grants, Create(q, h) PROVE g # h
    BY <1>1, <2>1 DEF Create
  <2> QED
    BY <1>2, <2>1, OpGrants DEF Settled
<1> QED
  BY <1>1, <1>2 DEF Settled

LEMMA CommitSettles ==
  ASSUME TypeOK, KnownInv, HomeInv, NEW p \in Pages, Commit(p)
  PROVE  op[p].grants \subseteq Settled'
<1>1. op' = [op EXCEPT ![p] = Free] /\ UNCHANGED used
  BY DEF Commit, EndOp, clock
<1>2. op[p].grants \subseteq used
  BY DEF KnownInv
<1>3. ASSUME NEW q \in Pages, op'[q].kind = "grant" PROVE op'[q].grants \intersect op[p].grants = {}
  <2>1. q # p /\ op'[q] = op[q]
    BY <1>1, <1>3 DEF Free, TypeOK
  <2>2. op[p].grants \subseteq Has(p) /\ op[q].grants \subseteq Has(q)
    BY DEF Has
  <2> QED
    BY <2>1, <2>2 DEF HomeInv
<1> QED
  BY <1>1, <1>2, <1>3 DEF Settled

LEMMA KnownStep ==
  ASSUME TypeOK, OpInv, KnownInv, HomeInv, SecInv, TakenInv, [Next]_vars
  PROVE  KnownInv'
<1> DEFINE S == Settled
<1>1. S \subseteq Settled'
  BY SettledGrows
<1>2. /\ queue \subseteq S /\ calls \subseteq S /\ taken \subseteq S /\ revoked \subseteq S
      /\ seen \subseteq S /\ reset.grants \subseteq S /\ sec.out \subseteq S
      /\ sec.todo \subseteq S
  BY DEF KnownInv, SecInv
<1>3. ASSUME NEW p \in Pages
      PROVE  /\ page[p].grants \subseteq S /\ marker[p].grants \subseteq S
             /\ op[p].prev \subseteq S
             /\ Visible(p) \subseteq S
             /\ op[p].kind # "grant" => op[p].grants \subseteq S
  BY VisibleType DEF KnownInv
<1>4. ASSUME NEW p \in Pages, Commit(p) PROVE op[p].grants \subseteq Settled'
  BY <1>4, CommitSettles
<1> HIDE DEF S
<1>5. queue' \subseteq S /\ taken' \subseteq S
  BY <1>2, Writers DEF Enqueue, Complete, Stop, Drain
<1>6. calls' \subseteq S
  <2>1. ASSUME NEW p \in Pages PROVE Reported(p) \subseteq S
    <3>1. CASE op[p].kind = "revoke"
      BY <1>3, <3>1 DEF Reported
    <3>2. CASE op[p].kind \in {"revokeAll", "delete"}
      BY <1>3, <3>2 DEF Reported
    <3>3. CASE op[p].kind \notin {"revoke", "revokeAll", "delete"}
      BY <3>3 DEF Reported
    <3> QED
      BY <3>1, <3>2, <3>3
  <2>2. ASSUME NEW p \in Pages, Cut(p) \/ Unlink(p) \/ Drop(p) PROVE calls' \subseteq S
    <3>1. UNCHANGED calls \/ EndSection(p)
      BY <2>2 DEF Cut, Unlink, Drop
    <3> QED
      BY <1>2, <2>1, <3>1 DEF EndSection, TypeOK, SectionRec, Users
  <2> QED
    BY <1>2, <2>2, Writers DEF Stop, ResetDone, Report, ReportFails
<1>7. revoked' \subseteq S
  BY <1>2, Writers DEF Mark, Cut
<1>8. seen' \subseteq Settled'
  BY <1>1, <1>2, <1>4, Writers DEF Commit
<1>9. reset'.grants \subseteq S
  <2>1. ASSUME NEW p \in Pages, ResetNext(p) PROVE reset'.grants \subseteq S
    BY <1>2, <1>3, <2>1 DEF ResetNext, TypeOK, ResetRec
  <2>2. ASSUME NEW p \in Pages, ResetLock(p) PROVE reset'.grants \subseteq S
    BY <1>2, <2>2 DEF ResetLock, TypeOK, ResetRec
  <2>3. CASE ResetRevoke
    BY <1>2, <2>3 DEF ResetRevoke, TypeOK, ResetRec
  <2>4. CASE ResetList
    BY <2>4 DEF ResetList
  <2>5. NoReset.grants = {}
    BY DEF NoReset
  <2> QED
    BY <1>2, <2>1, <2>2, <2>3, <2>4, <2>5, Writers DEF Reset, ResetDone, Stop, SectionFails
<1>10. sec'.out \subseteq S
  <2> USE DEF TypeOK, SectionRec
  <2>1. ASSUME NEW p \in Pages, StartRemove(p), sec' = Section(p, "enqueue", "op", op[p].grants, FALSE)
        PROVE  sec'.out \subseteq S
    BY <1>3, <2>1 DEF StartRemove, Section
  <2>2. ASSUME NEW p \in Pages, NEW by \in Users, NEW otherwise \in SecPCs, sec' = Wipe(p, by, otherwise)
        PROVE  sec'.out \subseteq S
    <3>1. sec'.out = marker[p].grants \/ sec'.out = page[p].grants
      BY <2>2, WipeIs
    <3> QED
      BY <1>3, <3>1
  <2>3. ASSUME NEW p \in Pages, StartWipe(p), sec' = Wipe(p, "op", "drop") PROVE sec'.out \subseteq S
    BY <2>2, <2>3 DEF Users, SecPCs
  <2>4. ASSUME NEW p \in Pages, Expire(p) PROVE sec'.out \subseteq S
    BY <1>3, <2>4 DEF Expire, Section
  <2>5. ASSUME NEW p \in Pages, Recover(p) \/ ResetNext(p) PROVE sec'.out \subseteq S
    BY <2>2, <2>5 DEF Recover, ResetNext, Users, SecPCs
  <2>6. CASE sec' = sec
    BY <1>2, <2>6
  <2>7. ASSUME NEW pc \in SecPCs, sec' = [sec EXCEPT !.pc = pc] PROVE sec'.out \subseteq S
    BY <1>2, <2>7
  <2>8. ASSUME NEW g \in Grants, Enqueue(g) PROVE sec'.out \subseteq S
    BY <1>2, <2>8 DEF Enqueue
  <2>9. CASE Released \/ ResetRevoke
    BY <2>9 DEF Released, ResetRevoke, NoSection, Section
  <2>10. ASSUME NEW p \in Pages, Mark(p) PROVE sec'.out \subseteq S
    BY <1>2, <2>10 DEF Mark
  <2>11. CASE NextPage
    BY <2>7, <2>11 DEF NextPage, SecPCs
  <2> QED
    BY <2>1, <2>3, <2>4, <2>5, <2>6, <2>7, <2>8, <2>9, <2>10, <2>11, SecMoves DEF SecMove, SecPCs
<1>11. ASSUME NEW g \in Grants, broker'[g] # "none" PROVE g \in S
  <2>1. broker[g] # "none" => g \in S
    BY DEF KnownInv, S
  <2> QED
    BY <1>2, <1>11, <2>1, Writers DEF Stop, Report, Drain, Accept, BrokerCheck, Retire, RetireFails, TypeOK
<1>12. ASSUME NEW p \in Pages PROVE page'[p].grants \subseteq Settled'
  <2>1. ASSUME NEW q \in Pages, NEW gs, gs \subseteq Settled', Write(q, gs)
        PROVE  page'[p].grants \subseteq Settled'
    BY <1>1, <1>3, <2>1 DEF Write, File, TypeOK
  <2>2. ASSUME NEW q \in Pages, Drop(q) PROVE page'[p].grants \subseteq Settled'
    BY <1>1, <1>3, <2>2 DEF Drop, NoFile, TypeOK
  <2>3. ASSUME NEW q \in Pages, NewPage(q) \/ Update(q) \/ Restore(q)
        PROVE  page'[p].grants \subseteq Settled'
    BY <1>1, <1>3, <2>1, <2>3 DEF NewPage, Update, Restore
  <2>4. ASSUME NEW q \in Pages, Commit(q) PROVE page'[p].grants \subseteq Settled'
    BY <1>1, <1>3, <1>4, <2>1, <2>4 DEF Commit
  <2>5. ASSUME NEW q \in Pages, Cut(q) PROVE page'[p].grants \subseteq Settled'
    BY <1>1, <1>3, <2>1, <2>5 DEF Cut
  <2> QED
    BY <1>1, <1>3, <2>2, <2>3, <2>4, <2>5, Writers
<1>13. ASSUME NEW p \in Pages PROVE marker'[p].grants \subseteq S
  BY <1>2, <1>3, Writers DEF Mark, Unlink, File, NoFile, TypeOK
<1>14. ASSUME NEW p \in Pages
       PROVE  /\ op'[p].prev \subseteq S
              /\ op'[p].kind # "grant" => op'[p].grants \subseteq S
  BY <1>3, OpGrants
<1>15. ASSUME NEW p \in Pages PROVE op'[p].grants \subseteq used'
  <2>1. op[p].grants \subseteq used /\ Visible(p) \subseteq used
    BY <1>3 DEF KnownInv, S, Settled
  <2>2. used \subseteq used' /\ \A g \in Grants : Create(p, g) => g \in used'
    BY Monotone DEF Create
  <2> QED
    BY <2>1, <2>2, OpGrants
<1> QED
  BY <1>1, <1>5, <1>6, <1>7, <1>8, <1>9, <1>10, <1>11, <1>12, <1>13, <1>14, <1>15 DEF KnownInv

\* A page comes to know of no grant but the one that is created on it.
LEMMA HasMoves ==
  ASSUME TypeOK, SecInv, [Next]_vars, NEW q \in Pages
  PROVE  \/ Has(q)' \subseteq Has(q)
         \/ \E g \in Grants : Create(q, g) /\ Has(q)' \subseteq Has(q) \union {g}
<1>1. Visible(q) \subseteq page[q].grants
  BY VisibleType
<1>2. page'[q].grants \subseteq Has(q)
  <2>1. ASSUME NEW p \in Pages, NEW gs, Write(p, gs), p = q => gs \subseteq Has(q)
        PROVE  page'[q].grants \subseteq Has(q)
    BY <2>1 DEF Write, File, TypeOK, Has
  <2>2. ASSUME NEW p \in Pages, Drop(p) PROVE page'[q].grants \subseteq Has(q)
    BY <2>2 DEF Drop, NoFile, TypeOK, Has
  <2>3. ASSUME NEW p \in Pages, NewPage(p) \/ Update(p) \/ Restore(p) \/ Commit(p) \/ Cut(p)
        PROVE  \E gs : Write(p, gs) /\ (p = q => gs \subseteq Has(q))
    BY <1>1, <2>3 DEF NewPage, Update, Restore, Commit, Cut, Has
  <2> QED
    BY <2>1, <2>2, <2>3, Writers DEF Has
<1>3. marker'[q].grants \subseteq Has(q)
  <2>1. ASSUME NEW p \in Pages, Mark(p) PROVE marker'[q].grants \subseteq Has(q)
    <3>1. sec.out = page[p].grants /\ marker' = [marker EXCEPT ![p] = File(sec.out)]
      BY <2>1 DEF Mark, SecInv
    <3> QED
      BY <3>1 DEF File, TypeOK, Has
  <2>2. ASSUME NEW p \in Pages, Unlink(p) PROVE marker'[q].grants \subseteq Has(q)
    BY <2>2 DEF Unlink, NoFile, TypeOK, Has
  <2> QED
    BY <2>1, <2>2, Writers DEF Has
<1>4. op'[q].prev \subseteq Has(q)
  BY <1>1, OpGrants DEF Has
<1>5. op'[q].grants \subseteq Has(q) \/ \E g \in Grants : Create(q, g) /\ op'[q].grants = {g}
  BY <1>1, OpGrants DEF Has
<1>6. Has(q)' = page'[q].grants \union marker'[q].grants \union op'[q].grants \union op'[q].prev
  BY DEF Has
<1> QED
  BY <1>2, <1>3, <1>4, <1>5, <1>6

LEMMA HomeStep ==
  ASSUME TypeOK, KnownInv, HomeInv, SecInv, [Next]_vars
  PROVE  HomeInv'
<1> SUFFICES ASSUME NEW p \in Pages, NEW q \in Pages, p # q
             PROVE  Has(p)' \intersect Has(q)' = {}
  BY DEF HomeInv
<1>1. Has(p) \intersect Has(q) = {}
  BY DEF HomeInv
<1>2. ASSUME NEW r \in Pages PROVE Has(r) \subseteq used
  BY DEF KnownInv, Has, Settled
<1>3. ASSUME NEW r \in Pages, NEW s \in Pages, r # s, NEW g \in Grants, Create(r, g)
      PROVE  Has(s)' \subseteq Has(s) /\ g \notin Has(s)
  <2>1. UNCHANGED <<page, marker>> /\ g \notin used
    BY <1>3 DEF Create, files
  <2>2. op'[s] = op[s]
    BY <1>3 DEF Create, Take, TypeOK
  <2> QED
    BY <1>2, <2>1, <2>2 DEF Has
<1>4. CASE Has(p)' \subseteq Has(p) /\ Has(q)' \subseteq Has(q)
  BY <1>1, <1>4
<1>5. ASSUME NEW g \in Grants, Create(p, g), Has(p)' \subseteq Has(p) \union {g}
      PROVE  Has(p)' \intersect Has(q)' = {}
  BY <1>1, <1>3, <1>5
<1>6. ASSUME NEW g \in Grants, Create(q, g), Has(q)' \subseteq Has(q) \union {g}
      PROVE  Has(p)' \intersect Has(q)' = {}
  BY <1>1, <1>3, <1>6
<1> QED
  BY <1>4, <1>5, <1>6, HasMoves

\* Grants become visible only by a commit or by the rollback of an edit.
LEMMA VisibleGrows ==
  ASSUME TypeOK, SecInv, [Next]_vars, NEW q \in Pages
  PROVE  \/ Visible(q)' \subseteq Visible(q)
         \/ Commit(q) /\ Visible(q)' \subseteq op[q].prev \union op[q].grants
         \/ Restore(q) /\ Visible(q)' \subseteq op[q].prev
<1> USE DEF TypeOK
<1>1. CASE UNCHANGED <<page, marker>>
  BY <1>1 DEF Visible
<1>2. ASSUME NEW p \in Pages, Mark(p) PROVE Visible(q)' \subseteq Visible(q)
  BY <1>2 DEF Mark, Visible, File
<1>3. ASSUME NEW p \in Pages, Unlink(p) PROVE Visible(q)' \subseteq Visible(q)
  <2>1. page[p].grants = {}
    BY <1>3 DEF Unlink, SecInv
  <2> QED
    BY <1>3, <2>1 DEF Unlink, Visible
<1>4. ASSUME NEW p \in Pages, NEW gs, Write(p, gs), UNCHANGED marker
      PROVE  Visible(q)' \subseteq Visible(q) \/ (p = q /\ Visible(q)' \subseteq gs)
  BY <1>4 DEF Write, File, Visible
<1>5. ASSUME NEW p \in Pages, Commit(p)
      PROVE  \/ Visible(q)' \subseteq Visible(q)
             \/ Commit(q) /\ Visible(q)' \subseteq op[q].prev \union op[q].grants
  BY <1>4, <1>5 DEF Commit
<1>6. ASSUME NEW p \in Pages, Restore(p)
      PROVE  Visible(q)' \subseteq Visible(q) \/ (Restore(q) /\ Visible(q)' \subseteq op[q].prev)
  BY <1>4, <1>6 DEF Restore
<1>7. ASSUME NEW p \in Pages, NewPage(p) PROVE Visible(q)' \subseteq Visible(q)
  BY <1>4, <1>7 DEF NewPage
<1>8. ASSUME NEW p \in Pages, Update(p) PROVE Visible(q)' \subseteq Visible(q)
  BY <1>4, <1>8 DEF Update
<1>9. ASSUME NEW p \in Pages, Cut(p) PROVE Visible(q)' \subseteq Visible(q)
  BY <1>9 DEF Cut, Write, File, Visible
<1>10. ASSUME NEW p \in Pages, Drop(p) PROVE Visible(q)' \subseteq Visible(q)
  BY <1>10 DEF Drop, NoFile, Visible
<1> QED
  BY <1>1, <1>2, <1>3, <1>5, <1>6, <1>7, <1>8, <1>9, <1>10, Writers

\* A grant is hidden only by the marker of its page, or when it is cut from it.
LEMMA VisibleShrinks ==
  ASSUME TypeOK, OpInv, SecInv, FileInv, PrevInv, [Next]_vars,
         NEW q \in Pages, NEW g \in Visible(q), g \notin Visible(q)'
  PROVE  \/ Mark(q) /\ g \in sec.out
         \/ Cut(q) /\ ~sec.all /\ g \in sec.out
<1> USE DEF TypeOK
<1>1. ~marker[q].there /\ g \in page[q].grants
  BY DEF Visible
<1>2. ~UNCHANGED <<page, marker>>
  BY DEF Visible
<1>3. ASSUME NEW p \in Pages, Mark(p) PROVE Mark(q) /\ g \in sec.out
  <2>1. p = q
    BY <1>1, <1>3 DEF Mark, Visible
  <2> QED
    BY <1>1, <1>3, <2>1 DEF Mark, SecInv
<1>4. ASSUME NEW p \in Pages, Unlink(p) PROVE FALSE
  BY <1>1, <1>4 DEF Unlink, Visible, NoFile
<1>5. ASSUME NEW p \in Pages, NEW gs, Write(p, gs), UNCHANGED marker PROVE p = q /\ g \notin gs
  BY <1>1, <1>5 DEF Write, File, Visible
<1>6. ASSUME NEW p \in Pages, NewPage(p) PROVE FALSE
  BY <1>1, <1>5, <1>6 DEF NewPage, FileInv
<1>7. ASSUME NEW p \in Pages, Update(p) PROVE FALSE
  BY <1>5, <1>7 DEF Update
<1>8. ASSUME NEW p \in Pages, Restore(p) \/ Commit(p) PROVE FALSE
  <2>1. Writer(p)
    BY <1>8 DEF Restore, Commit, Writer, OpInv
  <2>2. Visible(p) \subseteq op[p].prev
    BY <2>1 DEF PrevInv
  <2> QED
    BY <1>5, <1>8, <2>2 DEF Restore, Commit
<1>9. ASSUME NEW p \in Pages, Drop(p) PROVE FALSE
  <2>1. page[p].grants = {}
    BY <1>9 DEF Drop, SecInv
  <2> QED
    BY <1>1, <1>9, <2>1 DEF Drop, Visible
<1>10. ASSUME NEW p \in Pages, Cut(p) PROVE Cut(q) /\ ~sec.all /\ g \in sec.out
  <2>1. /\ Write(p, IF sec.all THEN {} ELSE page[p].grants \ sec.out)
        /\ UNCHANGED marker /\ sec.pc = "enqueue" /\ sec.page = p
    BY <1>10 DEF Cut
  <2>2. p = q /\ g \notin (IF sec.all THEN {} ELSE page[p].grants \ sec.out)
    BY <1>5, <2>1
  <2>3. ~sec.all
    BY <1>1, <2>1, <2>2 DEF SecInv, File
  <2> QED
    BY <1>1, <1>10, <2>2, <2>3
<1> QED
  BY <1>2, <1>3, <1>4, <1>6, <1>7, <1>8, <1>9, <1>10, Writers

\* No handler that will write to the page is there while the store revokes it.
LEMMA NoWriter ==
  ASSUME TypeOK, OpInv, HolderInv, SecInv, NEW p \in Pages, sec.page = p,
         sec.pc # "free", sec.by = "op" \/ (sec.by = "reset" /\ p \in reset.held)
  PROVE  ~Writer(p)
  BY DEF OpInv, HolderInv, Writer

\* What is newly revoked is known to its page, which hides it.
LEMMA NewlyRevoked ==
  ASSUME TypeOK, OpInv, HolderInv, SecInv, [Next]_vars, NEW g \in revoked', g \notin revoked
  PROVE  \E p \in Pages : /\ g \in Has(p)
                          /\ g \notin Visible(p)'
                          /\ Writer(p) => p \in unlocked'
<1>1. ASSUME NEW p \in Pages, Mark(p)
      PROVE  g \in Has(p) /\ g \notin Visible(p)' /\ (Writer(p) => p \in unlocked')
  <2>1. sec.pc = "mark" /\ sec.page = p /\ sec.out = page[p].grants /\ sec.by # "thread"
    BY <1>1 DEF Mark, SecInv
  <2>2. g \in sec.out
    BY <1>1 DEF Mark
  <2>3. marker'[p].there
    BY <1>1 DEF Mark, File, TypeOK
  <2>4. sec.by = "reset" /\ p \notin reset.held => p \in unlocked'
    BY <1>1 DEF Mark
  <2>5. Writer(p) => p \in unlocked'
    BY <2>1, <2>4, NoWriter DEF TypeOK, SectionRec, Users
  <2> QED
    BY <2>1, <2>2, <2>3, <2>5 DEF Has, Visible
<1>2. ASSUME NEW p \in Pages, Cut(p)
      PROVE  g \in Has(p) /\ g \notin Visible(p)' /\ (Writer(p) => p \in unlocked')
  <2>1. sec.pc = "enqueue" /\ sec.page = p /\ sec.by = "op" /\ g \in sec.out
    BY <1>2 DEF Cut
  <2>2. g \in Has(p)
    <3>1. CASE sec.all
      BY <2>1, <3>1 DEF SecInv, Has, File
    <3>2. CASE ~sec.all
      BY <2>1, <3>2 DEF SecInv, Has
    <3> QED
      BY <3>1, <3>2
  <2>3. g \notin page'[p].grants
    BY <1>2, <2>1 DEF Cut, Write, File, TypeOK
  <2>4. ~Writer(p)
    BY <2>1, NoWriter
  <2> QED
    BY <2>2, <2>3, <2>4 DEF Visible
<1> QED
  BY <1>1, <1>2, Writers

LEMMA RevokedStep ==
  ASSUME IInv, [Next]_vars
  PROVE  RevokedStaysHidden'
<1> USE DEF IInv
<1> SUFFICES ASSUME NEW q \in Pages, q \notin unlocked', NEW g \in Visible(q)', g \in revoked'
             PROVE  FALSE
  BY DEF RevokedStaysHidden
<1>1. q \notin unlocked
  BY Monotone
<1>2. CASE g \in revoked
  <2>1. g \notin Visible(q)
    BY <1>1, <1>2 DEF RevokedStaysHidden
  <2>2. ASSUME Commit(q) \/ Restore(q) PROVE g \notin op[q].prev
    <3>1. Writer(q)
      BY <2>2 DEF Commit, Restore, Writer, OpInv
    <3> QED
      BY <1>1, <1>2, <3>1 DEF PrevInv
  <2>3. ASSUME Commit(q) PROVE g \notin op[q].grants
    BY <1>2, <2>3 DEF Commit, OpInv, KnownInv, Settled
  <2> QED
    BY <2>1, <2>2, <2>3, VisibleGrows
<1>3. CASE g \notin revoked
  <2>1. PICK p \in Pages : g \in Has(p) /\ g \notin Visible(p)'
    BY <1>3, NewlyRevoked
  <2>2. g \in Has(q)
    BY VisibleGrows, VisibleType DEF Has
  <2> QED
    BY <2>1, <2>2 DEF HomeInv
<1> QED
  BY <1>2, <1>3

\* Which copies will be written back: one that was just read, or an older one.
LEMMA WriterMoves ==
  ASSUME TypeOK, OpInv, [Next]_vars, NEW q \in Pages, Writer(q)'
  PROVE  /\ ~Commit(q) /\ ~Restore(q)
         /\ \/ Writer(q) /\ op'[q].prev = op[q].prev
            \/ (Edit(q) \/ Reload(q)) /\ op'[q].prev = Visible(q)
<1> USE DEF TypeOK, Operation
<1>1. op'[q].pc = "commit" \/ op'[q].kind = "edit"
  BY DEF Writer
<1>2. Free.pc = "idle" /\ Free.kind = "none"
  BY DEF Free
<1>3. op'[q] # Free
  BY <1>1, <1>2
<1>4. ~Commit(q) /\ ~Restore(q)
  BY <1>3 DEF Commit, Restore, EndOp
<1>5. CASE op'[q] = op[q]
  BY <1>1, <1>4, <1>5 DEF Writer
<1>6. CASE NewPage(q) /\ op'[q] = [pc |-> "publish", kind |-> "new", grants |-> {}, prev |-> {}]
  BY <1>1, <1>6
<1>7. CASE Edit(q) /\ op'[q] = [pc |-> "update", kind |-> "edit", grants |-> {}, prev |-> Visible(q)]
  BY <1>4, <1>7
<1>8. ASSUME NEW g \in Grants,
             op'[q] = [pc |-> "mint", kind |-> "grant", grants |-> {g}, prev |-> Visible(q)]
      PROVE  FALSE
  BY <1>1, <1>8
<1>9. ASSUME NEW g \in Grants,
             op'[q] = [pc |-> "start", kind |-> "revoke", grants |-> {g}, prev |-> Visible(q)]
      PROVE  FALSE
  BY <1>1, <1>9
<1>10. ASSUME NEW kind \in {"revokeAll", "delete"},
              op'[q] = [pc |-> "start", kind |-> kind, grants |-> {}, prev |-> Visible(q)]
       PROVE  FALSE
  BY <1>1, <1>10
<1>11. CASE Reload(q) /\ op'[q] = [pc |-> "commit", kind |-> op[q].kind,
                                   grants |-> op[q].grants, prev |-> Visible(q)]
  BY <1>4, <1>11
<1>12. ASSUME Minted(q), op'[q] = [op[q] EXCEPT !.pc = "load"] PROVE FALSE
  BY <1>1, <1>12 DEF Minted, OpInv
<1>13. ASSUME Update(q), op'[q] = [op[q] EXCEPT !.pc = "publish"]
       PROVE  Writer(q) /\ op'[q].prev = op[q].prev
  BY <1>1, <1>13 DEF Writer
<1>14. ASSUME PublishFails(q),
              op'[q] = [op[q] EXCEPT !.pc = IF op[q].kind = "new" THEN "start" ELSE "restore"]
       PROVE  Writer(q) /\ op'[q].prev = op[q].prev
  BY <1>1, <1>14 DEF Writer
<1>15. ASSUME StartRemove(q) \/ StartWipe(q), op'[q] = [op[q] EXCEPT !.pc = "section"] PROVE FALSE
  <2>1. op[q].pc = "start"
    BY <1>15 DEF StartRemove, StartWipe
  <2> QED
    BY <1>1, <1>15, <2>1 DEF OpInv
<1> QED
  BY <1>3, <1>4, <1>5, <1>6, <1>7, <1>8, <1>9, <1>10, <1>11, <1>12, <1>13, <1>14, <1>15, OpMoves DEF OpMove

LEMMA PrevStep ==
  ASSUME IInv, [Next]_vars
  PROVE  PrevInv'
<1> USE DEF IInv
<1> SUFFICES ASSUME NEW q \in Pages, Writer(q)'
             PROVE  /\ Visible(q)' \subseteq op'[q].prev
                    /\ q \notin unlocked' => op'[q].prev \ expired' \subseteq Visible(q)'
                    /\ q \notin unlocked' => op'[q].prev \intersect revoked' = {}
  BY DEF PrevInv
<1>1. ASSUME Edit(q) \/ Reload(q), op'[q].prev = Visible(q)
      PROVE  /\ Visible(q)' \subseteq op'[q].prev
             /\ q \notin unlocked' => op'[q].prev \ expired' \subseteq Visible(q)'
             /\ q \notin unlocked' => op'[q].prev \intersect revoked' = {}
  <2>1. UNCHANGED <<page, marker, revoked, unlocked>>
    BY <1>1 DEF Edit, Reload, files, history
  <2>2. Visible(q)' = Visible(q)
    BY <2>1 DEF Visible
  <2> QED
    BY <1>1, <2>1, <2>2 DEF RevokedStaysHidden
<1>2. ASSUME Writer(q), op'[q].prev = op[q].prev, ~Commit(q), ~Restore(q)
      PROVE  /\ Visible(q)' \subseteq op'[q].prev
             /\ q \notin unlocked' => op'[q].prev \ expired' \subseteq Visible(q)'
             /\ q \notin unlocked' => op'[q].prev \intersect revoked' = {}
  <2>1. Visible(q)' \subseteq op'[q].prev
    BY <1>2, VisibleGrows DEF PrevInv
  <2>2. expired \subseteq expired' /\ (q \notin unlocked' => q \notin unlocked)
    BY Monotone
  <2>3. ASSUME q \notin unlocked', NEW g \in op[q].prev \ expired', g \notin Visible(q)'
        PROVE  FALSE
    <3>1. g \in Visible(q) /\ g \notin expired
      BY <1>2, <2>2, <2>3 DEF PrevInv
    <3>2. CASE Mark(q) /\ g \in sec.out
      <4>1. sec.pc = "mark" /\ sec.page = q /\ sec.by \in {"op", "reset"}
        BY <3>2 DEF Mark, SecInv, TypeOK, SectionRec, Users
      <4>2. sec.by = "reset" => q \in reset.held
        BY <2>3, <3>2 DEF Mark
      <4> QED
        BY <1>2, <4>1, <4>2, NoWriter
    <3>3. CASE Cut(q) /\ ~sec.all /\ g \in sec.out
      <4>1. sec.pc = "enqueue" /\ sec.page = q
        BY <3>3 DEF Cut
      <4>2. sec.by = "op"
        BY <3>1, <3>3, <4>1 DEF SecInv, TypeOK, SectionRec, Users
      <4> QED
        BY <1>2, <4>1, <4>2, NoWriter
    <3> QED
      BY <2>3, <3>1, <3>2, <3>3, VisibleShrinks
  <2>4. ASSUME q \notin unlocked', NEW g \in op[q].prev, g \in revoked' PROVE FALSE
    <3>1. g \notin revoked
      BY <1>2, <2>2, <2>4 DEF PrevInv
    <3>2. PICK p \in Pages : g \in Has(p) /\ (Writer(p) => p \in unlocked')
      BY <2>4, <3>1, NewlyRevoked
    <3>3. g \in Has(q)
      BY DEF Has
    <3> QED
      BY <1>2, <2>4, <3>2, <3>3 DEF HomeInv
  <2> QED
    BY <1>2, <2>1, <2>3, <2>4
<1> QED
  BY <1>1, <1>2, WriterMoves

LEMMA OwedStep ==
  ASSUME IInv, [Next]_vars
  PROVE  CleanupOwed'
<1> USE DEF IInv
<1>1. ASSUME NEW g \in Grants, Owed(g) PROVE Owed(g)'
  BY <1>1, Monotone
<1>2. ASSUME NEW p \in Pages, NEW g \in marker[p].grants PROVE g \in marker'[p].grants \/ Owed(g)'
  <2>1. g \in Grants
    BY DEF TypeOK, PageFile
  <2>2. ASSUME NEW q \in Pages, Mark(q) PROVE marker'[p] = marker[p]
    <3>1. ~marker[q].there /\ marker' = [marker EXCEPT ![q] = File(sec.out)]
      BY <2>2 DEF Mark, SecInv
    <3> QED
      BY <3>1 DEF FileInv, TypeOK
  <2>3. ASSUME NEW q \in Pages, Unlink(q) PROVE marker'[p] = marker[p] \/ Owed(g)
    <3>1. /\ marker' = [marker EXCEPT ![q] = NoFile]
          /\ \A h \in marker[q].grants : Owed(h)
      BY <2>3 DEF Unlink, SecInv
    <3> QED
      BY <3>1 DEF TypeOK
  <2> QED
    BY <1>1, <2>1, <2>2, <2>3, Writers
<1>3. ASSUME NEW p \in Pages, NEW g \in Visible(p)
      PROVE  g \in Visible(p)' \/ g \in marker'[p].grants \/ Owed(g)'
  <2>1. g \in Grants
    BY VisibleType
  <2>2. ASSUME Mark(p), g \in sec.out PROVE g \in marker'[p].grants
    BY <2>2 DEF Mark, File, TypeOK
  <2>3. ASSUME Cut(p), g \in sec.out PROVE Owed(g)
    BY <2>3 DEF Cut, SecInv
  <2> QED
    BY <1>1, <2>1, <2>2, <2>3, VisibleShrinks
<1>4. ASSUME NEW g \in seen
      PROVE  Live(g)' \/ (\E p \in Pages : g \in marker'[p].grants) \/ Owed(g)'
  <2>1. g \in Grants
    BY DEF TypeOK
  <2>2. Live(g) \/ (\E p \in Pages : g \in marker[p].grants) \/ Owed(g)
    BY DEF CleanupOwed, Owed
  <2> QED
    BY <1>1, <1>2, <1>3, <2>1, <2>2 DEF Live
<1>5. ASSUME NEW g \in seen', g \notin seen PROVE Live(g)'
  <2>1. PICK p \in Pages : Commit(p)
    BY <1>5, Writers
  <2>2. g \in op[p].grants /\ ~marker[p].there
    BY <1>5, <2>1 DEF Commit
  <2>3. page'[p].grants = op[p].prev \union op[p].grants /\ UNCHANGED marker
    BY <2>1 DEF Commit, Write, File, TypeOK
  <2> QED
    BY <2>2, <2>3 DEF Live, Visible
<1> QED
  BY <1>4, <1>5 DEF CleanupOwed, Owed

LEMMA LiveStep ==
  ASSUME IInv, [Next]_vars
  PROVE  LiveNotDead'
<1> USE DEF IInv
<1> SUFFICES ASSUME NEW q \in Pages, q \notin unlocked', NEW g \in Visible(q)', g \notin expired'
             PROVE  broker'[g] \notin {"dead", "retired"}
  BY DEF LiveNotDead
<1>1. q \notin unlocked /\ g \notin expired
  BY Monotone
<1>2. g \in Grants
  BY TypeStep, VisibleType, VisibleGrows DEF TypeOK, Operation
<1>3. g \in Visible(q) => broker[g] \notin {"dead", "retired"}
  BY <1>1 DEF LiveNotDead
<1>4. broker[g] \notin {"dead", "retired"}
  <2>1. ASSUME Commit(q) \/ Restore(q), g \in op[q].prev PROVE g \in Visible(q)
    <3>1. Writer(q)
      BY <2>1 DEF Commit, Restore, Writer, OpInv
    <3> QED
      BY <1>1, <2>1, <3>1 DEF PrevInv
  <2>2. ASSUME Commit(q), g \in op[q].grants PROVE broker[g] = "none"
    BY <1>2, <2>2 DEF Commit, OpInv, KnownInv, Settled
  <2> QED
    BY <1>3, <2>1, <2>2, VisibleGrows
<1>5. ASSUME NEW h \in Grants, BrokerCheck(h) PROVE h # g
  <2>1. UNCHANGED <<page, marker>> /\ ~Live(h)
    BY <1>5 DEF BrokerCheck
  <2>2. g \in Visible(q)
    BY <2>1 DEF Visible
  <2> QED
    BY <2>1, <2>2 DEF Live
<1> QED
  BY <1>2, <1>4, <1>5, Writers DEF TypeOK, Stop, Report, Drain, Accept, BrokerCheck, Retire, RetireFails

LEMMA InitInv == Init => IInv
<1> SUFFICES ASSUME Init PROVE IInv
  OBVIOUS
<1> USE DEF Init
<1>1. TypeOK
  BY NoSectionType, FileType, FreeType DEF TypeOK, NoReset, ResetRec
<1>2. \A p \in Pages : op[p].pc = "idle" /\ op[p].kind = "none" /\ op[p].grants = {} /\ op[p].prev = {}
  BY DEF Free
<1>3. \A p \in Pages : page[p] = NoFile /\ marker[p] = NoFile
  OBVIOUS
<1>4. NoFile.there = FALSE /\ NoFile.grants = {}
  BY DEF NoFile
<1>5. reset.held = {} /\ reset.grants = {}
  BY DEF NoReset
<1>6. sec.pc = "free" /\ sec.out = {} /\ sec.todo = {}
  BY DEF NoSection, Section
<1>7. \A p \in Pages : Visible(p) = {}
  BY <1>3, <1>4 DEF Visible
<1>8. OpInv /\ HolderInv /\ TakenInv
  BY <1>2, <1>5, <1>6 DEF OpInv, HolderInv, TakenInv
<1>9. KnownInv /\ HomeInv /\ FileInv
  BY <1>2, <1>3, <1>4, <1>5, <1>6 DEF KnownInv, HomeInv, FileInv, Has
<1>10. SecInv
  BY <1>6 DEF SecInv
<1>11. PrevInv /\ RevokedStaysHidden /\ CleanupOwed /\ LiveNotDead
  BY <1>2, <1>7 DEF PrevInv, Writer, RevokedStaysHidden, CleanupOwed, LiveNotDead
<1> QED
  BY <1>1, <1>8, <1>9, <1>10, <1>11 DEF IInv

LEMMA StepInv == IInv /\ [Next]_vars => IInv'
<1> SUFFICES ASSUME IInv, [Next]_vars PROVE IInv'
  OBVIOUS
<1>1. TypeOK' /\ OpInv' /\ TakenInv' /\ FileInv'
  BY TypeStep, OpStep, TakenStep, FileStep DEF IInv
<1>2. HolderInv' /\ SecInv'
  BY HolderStep, SecStep DEF IInv
<1>3. KnownInv' /\ HomeInv'
  BY KnownStep, HomeStep DEF IInv
<1>4. PrevInv' /\ RevokedStaysHidden' /\ CleanupOwed' /\ LiveNotDead'
  BY PrevStep, RevokedStep, OwedStep, LiveStep
<1> QED
  BY <1>1, <1>2, <1>3, <1>4 DEF IInv

\* The invariant of the files, locks and copies holds in every reachable state.
THEOREM Invariance == Spec => []IInv
  BY InitInv, StepInv, PTL DEF Spec

\* The state is always of its type.
THEOREM TypeCorrect == Spec => []TypeOK
<1>1. IInv => TypeOK
  BY DEF IInv
<1> QED
  BY <1>1, Invariance, PTL

\* For any number of pages, grants and handlers: a revoked grant is never seen
\* again, whatever fails and whoever writes an older copy of the page back, unless
\* a reset revoked the page without its lock.
THEOREM RevocationIsFinal == Spec => []RevokedStaysHidden
<1>1. IInv => RevokedStaysHidden
  BY DEF IInv
<1> QED
  BY <1>1, Invariance, PTL

\* The cleanup of a grant that guests could use is never lost.
THEOREM CleanupIsOwed == Spec => []CleanupOwed
<1>1. IInv => CleanupOwed
  BY DEF IInv
<1> QED
  BY <1>1, Invariance, PTL

\* The broker retires no invitation that is in force.
THEOREM LiveInvitationsStay == Spec => []LiveNotRetired
<1>1. IInv => LiveNotRetired
  BY DEF IInv, LiveNotDead, LiveNotRetired
<1> QED
  BY <1>1, Invariance, PTL
=============================================================================
