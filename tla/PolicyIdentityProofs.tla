------------------------ MODULE PolicyIdentityProofs ------------------------
(***************************************************************************)
(* Proofs about the two small components: PolicyPublication, for any set   *)
(* of pages and any number of edits, and Enrollment, the identity of the   *)
(* Connector.  They have no state in common.                               *)
(***************************************************************************)
EXTENDS PolicyPublication, Enrollment, TLAPS

\* A version number stays a version number when the next edit takes one.
LEMMA NextVersion ==
    ASSUME last \in Versions, last < MaxVersion
    PROVE  last + 1 \in Versions /\ 0 \in Versions
  BY VersionAssumption DEF Versions

LEMMA InitIInv == Init => IInv
  BY VersionAssumption
  DEF Init, IInv, TypeOK, OpInv, LateInv, OnlyOverdueUnmarked, Versions, Operation, PCs,
      Kinds, Edits, Free, Call

\* Every variable keeps its type.
LEMMA TypeStep == TypeOK /\ Next => TypeOK'
<1> SUFFICES ASSUME TypeOK, Next PROVE TypeOK'
  OBVIOUS
<1> USE DEF TypeOK
<1>0. 0 \in Versions
  BY VersionAssumption DEF Versions
<1>1. Free \in Operation
  BY <1>0 DEF Free, Operation, PCs, Kinds
<1>2. ASSUME NEW p \in Pages, NEW kind \in Kinds, Begin(p, kind) PROVE TypeOK'
  <2>1. [pc |-> IF kind = "retry" THEN "send" ELSE "write", kind |-> kind,
         prev |-> local[p], new |-> IF kind \in Edits THEN last + 1 ELSE 0] \in Operation
    BY <1>0, <1>2, NextVersion DEF Begin, Operation, PCs, Kinds, Edits
  <2>2. last' \in Versions
    BY <1>2, NextVersion DEF Begin
  <2> QED
    BY <1>2, <2>1, <2>2 DEF Begin
<1>3. ASSUME NEW p \in Pages, PrepareFails(p) PROVE TypeOK'
  BY <1>3, NextVersion DEF PrepareFails
<1>4. ASSUME NEW p \in Pages, NEW pc \in PCs, Goto(p, pc) PROVE op' \in [Pages -> Operation]
  BY <1>4 DEF Goto, Operation
<1>5. ASSUME NEW p \in Pages, Done(p) PROVE op' \in [Pages -> Operation]
  BY <1>1, <1>5 DEF Done
<1>6. ASSUME NEW p \in Pages, WriteLocal(p) \/ WriteFails(p) PROVE TypeOK'
  <2>1. op' \in [Pages -> Operation]
    BY <1>4, <1>5, <1>6 DEF WriteLocal, WriteFails, PCs
  <2>2. local' \in [Pages -> Versions]
    BY <1>6 DEF WriteLocal, WriteFails, Operation
  <2> QED
    BY <1>6, <2>1, <2>2 DEF WriteLocal, WriteFails
<1>7. ASSUME NEW p \in Pages, Apply(p) \/ Reply(p) \/ CallFails(p) \/ TimeOut(p) PROVE TypeOK'
  <2>1. op' \in [Pages -> Operation]
    BY <1>4, <1>7 DEF Apply, Reply, CallFails, TimeOut, PCs
  <2>2. published' \in [Pages -> Versions] /\ late' \in SUBSET Call
    BY <1>7 DEF Apply, Reply, CallFails, TimeOut, Call
  <2> QED
    BY <1>7, <2>1, <2>2 DEF Apply, Reply, CallFails, TimeOut
<1>8. ASSUME NEW p \in Pages, Clear(p) \/ ClearFails(p) \/ RollbackFails(p) PROVE TypeOK'
  BY <1>5, <1>8 DEF Clear, ClearFails, RollbackFails
<1>9. ASSUME NEW p \in Pages, Rollback(p) PROVE TypeOK'
  <2>1. RolledBack(p) \in Versions
    BY <1>0 DEF RolledBack, Operation, Kinds, Edits
  <2> QED
    BY <1>5, <1>9, <2>1 DEF Rollback
<1>10. ASSUME NEW c \in late, LateApply(c) PROVE TypeOK'
  BY <1>10 DEF LateApply, Call
<1>11. CASE Restart
  BY <1>1, <1>11 DEF Restart
<1> QED
  BY <1>2, <1>3, <1>6, <1>7, <1>8, <1>9, <1>10, <1>11 DEF Next, Admin, Retry, Kinds, Edits

\* The facts about an operation in flight, late calls and unmarked differences.
LEMMA StepIInv == IInv /\ [Next]_vars => IInv'
<1> SUFFICES ASSUME IInv, [Next]_vars PROVE IInv'
  OBVIOUS
<1> USE DEF IInv, OpInv, LateInv, OnlyOverdueUnmarked
<1>1. CASE UNCHANGED vars
  BY <1>1 DEF vars, TypeOK
<1>2. CASE Next
  <2>1. TypeOK'
    BY <1>2, TypeStep
  <2> SUFFICES (OpInv /\ LateInv /\ OnlyOverdueUnmarked)'
    BY <2>1
  <2> USE DEF TypeOK
  <2>2. ASSUME NEW p \in Pages, NEW kind \in Kinds, Begin(p, kind)
        PROVE  (OpInv /\ LateInv /\ OnlyOverdueUnmarked)'
    BY <2>2 DEF Begin
  <2>3. ASSUME NEW p \in Pages, PrepareFails(p)
        PROVE  (OpInv /\ LateInv /\ OnlyOverdueUnmarked)'
    BY <2>3 DEF PrepareFails
  <2>4. ASSUME NEW p \in Pages, WriteLocal(p) \/ WriteFails(p)
        PROVE  (OpInv /\ LateInv /\ OnlyOverdueUnmarked)'
    BY <2>4 DEF WriteLocal, WriteFails, Goto, Done, Free, Operation
  <2>5. ASSUME NEW p \in Pages, Apply(p) \/ Reply(p) \/ CallFails(p)
        PROVE  (OpInv /\ LateInv /\ OnlyOverdueUnmarked)'
    BY <2>5 DEF Apply, Reply, CallFails, Goto, Operation
  <2>6. ASSUME NEW p \in Pages, TimeOut(p)
        PROVE  (OpInv /\ LateInv /\ OnlyOverdueUnmarked)'
    BY <2>6 DEF TimeOut, Goto, Operation, Call
  <2>7. ASSUME NEW p \in Pages, Clear(p) \/ ClearFails(p) \/ Rollback(p) \/ RollbackFails(p)
        PROVE  (OpInv /\ LateInv /\ OnlyOverdueUnmarked)'
    BY <2>7 DEF Clear, ClearFails, Rollback, RollbackFails, Done, Free, Operation
  <2>8. ASSUME NEW c \in late, LateApply(c)
        PROVE  (OpInv /\ LateInv /\ OnlyOverdueUnmarked)'
    BY <2>8 DEF LateApply, Call
  <2>9. CASE Restart
    BY <2>9 DEF Restart, Free
  <2> QED
    BY <1>2, <2>2, <2>3, <2>4, <2>5, <2>6, <2>7, <2>8, <2>9 DEF Next, Admin, Retry, Kinds, Edits
<1> QED
  BY <1>1, <1>2

\* The inductive invariant holds of every behaviour.
THEOREM Inductive == Spec => []IInv
  BY InitIInv, StepIInv, PTL DEF Spec

\* An unmarked difference between page and policy needs a call that outlived its
\* caller, whatever fails in publish, rollback, retry or restart.
THEOREM OnlyOverdue == Spec => []OnlyOverdueUnmarked
<1>1. IInv => OnlyOverdueUnmarked
  BY DEF IInv
<1> QED
  BY <1>1, Inductive, PTL

\* As long as no call outlives its caller, every difference between the page and
\* the published policy is marked (PolicyPublisher.prepare before the change).
THEOREM DivergenceMarked ==
    ASSUME ~LateCalls
    PROVE  Spec => []DivergenceIsMarked
<1>1. IInv => DivergenceIsMarked
  BY DEF IInv, LateInv, OnlyOverdueUnmarked, DivergenceIsMarked
<1> QED
  BY <1>1, Inductive, PTL

-----------------------------------------------------------------------------
(* Enrollment: one login per authorization, no child left behind.          *)

\* Every step of a call under the publisher's lock keeps the types.
LEMMA LockType == EnrollmentTypeOK /\ LockStep => EnrollmentTypeOK'
<1> SUFFICES ASSUME EnrollmentTypeOK, LockStep PROVE EnrollmentTypeOK'
  OBVIOUS
<1> USE DEF EnrollmentTypeOK, files, history, Step
<1>1. CASE CallBegin
  BY <1>1 DEF CallBegin
<1>2. CASE MintToken
  BY <1>2 DEF MintToken
<1>3. CASE Advance
  BY <1>3 DEF Advance
<1>4. CASE WriteKey
  BY <1>4 DEF WriteKey
<1>5. CASE LoginBegin
  BY <1>5 DEF LoginBegin
<1>6. CASE Confirm
  BY <1>6 DEF Confirm
<1>7. CASE MarkBootstrapped
  BY <1>7 DEF MarkBootstrapped
<1>8. CASE StartDaemon
  BY <1>8 DEF StartDaemon
<1>9. CASE Publish \/ PublishRejected
  BY <1>9 DEF Publish, PublishRejected
<1>10. CASE PublisherFails
  BY <1>10 DEF PublisherFails
<1> QED
  BY <1>1, <1>2, <1>3, <1>4, <1>5, <1>6, <1>7, <1>8, <1>9, <1>10 DEF LockStep

\* So do the children, the App runner, a restart and a lost file.
LEMMA OtherType ==
    EnrollmentTypeOK /\ (ChildStep \/ RunnerStep \/ RestartApp \/ Lose \/ Calm) => EnrollmentTypeOK'
<1> SUFFICES ASSUME EnrollmentTypeOK, ChildStep \/ RunnerStep \/ RestartApp \/ Lose \/ Calm
             PROVE  EnrollmentTypeOK'
  OBVIOUS
<1> USE DEF EnrollmentTypeOK, files, procs, history, Step
<1>1. CASE LoginEnds \/ LoginFails
  BY <1>1 DEF LoginEnds, LoginFails
<1>2. CASE StrayEnds \/ DaemonDies
  BY <1>2 DEF StrayEnds, DaemonDies
<1>3. CASE Onboard \/ OnboardFails \/ RequestReset
  BY <1>3 DEF Onboard, OnboardFails, RequestReset
<1>4. CASE Start
  BY <1>4 DEF Start
<1>5. CASE StopBegin \/ Close
  BY <1>5 DEF StopBegin, Close
<1>6. CASE Kill
  <2>1. stray' \in BOOLEAN /\ killed' \in BOOLEAN
    BY <1>6, Zenon DEF Kill
  <2> QED
    BY <1>6, <2>1 DEF Kill
<1>7. CASE ResetStep
  <2>1. CASE Invalidate
    BY <2>1 DEF Invalidate
  <2>2. CASE DropToken
    BY <2>2 DEF DropToken
  <2>3. CASE DropState
    BY <2>3 DEF DropState
  <2>4. CASE DropMarker \/ DropKey
    BY <2>4 DEF DropMarker, DropKey
  <2>5. CASE DropRequest
    BY <2>5 DEF DropRequest
  <2> QED
    BY <1>7, <2>1, <2>2, <2>3, <2>4, <2>5 DEF ResetStep
<1>8. CASE RestartApp \/ Calm
  BY <1>8 DEF RestartApp, Calm
<1>9. CASE Lose
  BY <1>9 DEF Lose
<1> QED
  BY <1>1, <1>2, <1>3, <1>4, <1>5, <1>6, <1>7, <1>8, <1>9 DEF ChildStep, RunnerStep, StopStep

\* A login is counted only where the invariant says that there was none; the count goes
\* back to none only when the owner's reset authorizes the next.
LEMMA LoginInvStep == EnrollmentTypeOK /\ LoginInv /\ OneLogin /\ EnrollmentNext => LoginInv' /\ OneLogin'
<1> SUFFICES ASSUME EnrollmentTypeOK, LoginInv, OneLogin, EnrollmentNext PROVE LoginInv' /\ OneLogin'
  OBVIOUS
<1> USE DEF LoginInv, OneLogin, files, procs, history, Step
<1>1. CASE CallBegin \/ MintToken
  BY <1>1 DEF CallBegin, MintToken
<1>2. CASE Advance
  BY <1>2 DEF Advance
<1>3. CASE WriteKey
  BY <1>3 DEF WriteKey
<1>4. CASE LoginBegin
  BY <1>4 DEF LoginBegin
<1>5. CASE Confirm \/ MarkBootstrapped \/ StartDaemon
  BY <1>5 DEF Confirm, MarkBootstrapped, StartDaemon
<1>6. CASE Publish \/ PublishRejected \/ PublisherFails
  BY <1>6 DEF Publish, PublishRejected, PublisherFails
<1>7. CASE ChildStep
  BY <1>7 DEF ChildStep, LoginEnds, LoginFails, StrayEnds, DaemonDies
<1>8. CASE Onboard \/ OnboardFails \/ Start \/ RequestReset
  BY <1>8 DEF Onboard, OnboardFails, Start, RequestReset
<1>9. CASE StopStep
  BY <1>9 DEF StopStep, StopBegin, Close, Kill
<1>10. CASE ResetStep
  \* no call is in flight while a reset removes the files
  BY <1>10 DEF ResetStep, Invalidate, DropToken, DropState, DropMarker,
               DropKey, DropRequest, EnrollmentTypeOK
<1>11. CASE RestartApp \/ Lose \/ Calm
  BY <1>11 DEF RestartApp, Lose, Calm
<1> QED
  BY <1>1, <1>2, <1>3, <1>4, <1>5, <1>6, <1>7, <1>8, <1>9, <1>10, <1>11
  DEF EnrollmentNext, LockStep, RunnerStep

\* A child outlives its broker only in Kill; the App ends all of them.
LEMMA ChildInvStep == EnrollmentTypeOK /\ ChildInv /\ EnrollmentNext => ChildInv'
<1> SUFFICES ASSUME EnrollmentTypeOK, ChildInv, EnrollmentNext PROVE ChildInv'
  OBVIOUS
<1> USE DEF ChildInv, files, procs, history, Step
<1>1. CASE LockStep
  BY <1>1 DEF LockStep, CallBegin, MintToken, Advance, WriteKey, LoginBegin, Confirm,
              MarkBootstrapped, StartDaemon, Publish, PublishRejected, PublisherFails
<1>2. CASE ChildStep
  BY <1>2 DEF ChildStep, LoginEnds, LoginFails, StrayEnds, DaemonDies
<1>3. CASE RunnerStep
  BY <1>3 DEF RunnerStep, Onboard, OnboardFails, Start, RequestReset, StopStep,
              StopBegin, Close, Kill, ResetStep, Invalidate, DropToken, DropState,
              DropMarker, DropKey, DropRequest
<1>4. CASE RestartApp \/ Lose \/ Calm
  BY <1>4 DEF RestartApp, Lose, Calm
<1> QED
  BY <1>1, <1>2, <1>3, <1>4 DEF EnrollmentNext

\* The inductive invariant holds of every behaviour.
THEOREM EnrollmentInductive == EnrollmentSpec => []EnrollmentIInv
<1>1. EnrollmentInit => EnrollmentIInv
  <2>1. EnrollmentInit => EnrollmentTypeOK
    <3>1. EnrollmentInit => /\ {key, agent, runtime, complete, shares} \subseteq BOOLEAN
                  /\ {token, request, recovery, stray, faulty, killed} \subseteq BOOLEAN
      BY Zenon DEF EnrollmentInit
    <3>2. EnrollmentInit => logins \in 0 .. 2
      BY DEF EnrollmentInit
    <3> QED
      BY <3>1, <3>2, Zenon DEF EnrollmentInit, EnrollmentTypeOK
  <2>2. EnrollmentInit => LoginInv /\ OneLogin
    BY DEF EnrollmentInit, LoginInv, OneLogin
  <2>3. EnrollmentInit => ChildInv
    BY Zenon DEF EnrollmentInit, ChildInv
  <2> QED
    BY <2>1, <2>2, <2>3 DEF EnrollmentIInv
<1>2. EnrollmentIInv /\ [EnrollmentNext]_enrollmentVars => EnrollmentIInv'
  <2> SUFFICES ASSUME EnrollmentIInv, [EnrollmentNext]_enrollmentVars PROVE EnrollmentIInv'
    OBVIOUS
  <2>1. CASE EnrollmentNext
    BY <2>1, LockType, OtherType, LoginInvStep, ChildInvStep DEF EnrollmentIInv, EnrollmentNext
  <2>2. CASE UNCHANGED enrollmentVars
    BY <2>2 DEF enrollmentVars, files, procs, history, EnrollmentIInv, EnrollmentTypeOK, LoginInv, OneLogin,
                ChildInv
  <2> QED
    BY <2>1, <2>2
<1> QED
  BY <1>1, <1>2, PTL DEF EnrollmentSpec

\* Every variable of the enrolment keeps its type, and runner, broker and call agree.
THEOREM EnrollmentTypes == EnrollmentSpec => []EnrollmentTypeOK
<1>1. EnrollmentIInv => EnrollmentTypeOK
  BY DEF EnrollmentIInv
<1> QED
  BY <1>1, EnrollmentInductive, PTL

\* The authorization to enrol is used for at most one login (_advance_enrollment before
\* the login), through failures, kills, restarts and lost files.
THEOREM OneLoginPerAuthorization == EnrollmentSpec => []OneLogin
<1>1. EnrollmentIInv => OneLogin
  BY DEF EnrollmentIInv
<1> QED
  BY <1>1, EnrollmentInductive, PTL

\* Unless a broker was killed, no login and no daemon is left when _reset_connection_files
\* removes the identity.
THEOREM NoChildLeft == EnrollmentSpec => []ChildrenStopped
<1>1. EnrollmentIInv => ChildrenStopped
  BY DEF EnrollmentIInv, EnrollmentTypeOK, ChildInv, ChildrenStopped
<1> QED
  BY <1>1, EnrollmentInductive, PTL
=============================================================================
