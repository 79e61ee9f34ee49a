--------------------------- MODULE ActivityProofs ---------------------------
(* Proofs about Activity: what the owner sees of a guest is there once, as   *)
(* long as the guest has access, and is moved when the access is over.       *)
EXTENDS Activity, FiniteSetTheorems, SequenceTheorems, TLAPS

\* What is left of the events is a part of them, without those of the deleted records.
LEMMA RemainingPart ==
    ASSUME NEW e \in Seq(Grants), NEW gone, NEW x \in Remaining(e, gone)
    PROVE  /\ x \in Seq(Grants) /\ Len(x) <= Len(e)
           /\ \A i \in DOMAIN x : x[i] \notin gone /\ \E j \in DOMAIN e : x[i] = e[j]
<1> DEFINE kept == {i \in DOMAIN e : e[i] \notin gone}
           ranks == 1 .. Cardinality(kept)
<1>1. PICK f \in [ranks -> kept] : x = [n \in ranks |-> e[f[n]]]
  BY DEF Remaining
<1>2. kept \subseteq 1 .. Len(e) /\ DOMAIN e = 1 .. Len(e) /\ Len(e) \in Nat
  OBVIOUS
<1>3. IsFiniteSet(1 .. Len(e)) /\ Cardinality(1 .. Len(e)) = Len(e)
  <2>1. PICK k \in Nat : k = Len(e)
    BY <1>2
  <2>2. IsFiniteSet(1 .. k) /\ Cardinality(1 .. k) = IF 1 > k THEN 0 ELSE k - 1 + 1
    BY FS_Interval
  <2> QED
    BY <2>1, <2>2
<1>4. Cardinality(kept) \in Nat /\ Cardinality(kept) <= Len(e)
  <2>1. IsFiniteSet(kept) /\ Cardinality(kept) <= Cardinality(1 .. Len(e))
    BY <1>2, <1>3, FS_Subset
  <2>2. Cardinality(kept) \in Nat
    BY <2>1, FS_CardinalityType
  <2> HIDE DEF kept
  <2> QED
    BY <1>3, <2>1, <2>2
<1>5. \A n \in ranks : f[n] \in DOMAIN e /\ e[f[n]] \in Grants /\ e[f[n]] \notin gone
  BY <1>1, <1>2
<1> HIDE DEF kept
<1>6. x \in Seq(Grants) /\ Len(x) = Cardinality(kept)
  BY <1>1, <1>4, <1>5
<1>7. \A i \in DOMAIN x : x[i] = e[f[i]] /\ i \in ranks
  BY <1>1
<1> QED
  BY <1>4, <1>5, <1>6, <1>7

\* So is what is left when the oldest is dropped.
LEMMA TailPart ==
    ASSUME NEW e \in Seq(Grants), e # <<>>
    PROVE  /\ Tail(e) \in Seq(Grants) /\ Len(Tail(e)) = Len(e) - 1
           /\ \A i \in DOMAIN Tail(e) : \E j \in DOMAIN e : Tail(e)[i] = e[j]
<1>1. PICK t : t = Tail(e)
  OBVIOUS
<1>2. t \in Seq(Grants) /\ Len(t) = Len(e) - 1 /\ Len(e) \in Nat
  BY <1>1
<1>3. ASSUME NEW i \in DOMAIN t PROVE i + 1 \in DOMAIN e /\ t[i] = e[i + 1]
  BY <1>1, <1>2, <1>3
<1> QED
  BY <1>1, <1>2, <1>3

\* A new event is added, and the oldest one dropped if there are too many.
LEMMA NewestPart ==
    ASSUME NEW e \in Seq(Grants), Len(e) <= MaxEvents, NEW g \in Grants
    PROVE  /\ Newest(Append(e, g)) \in Seq(Grants) /\ Len(Newest(Append(e, g))) <= MaxEvents
           /\ \A i \in DOMAIN Newest(Append(e, g)) :
                 Newest(Append(e, g))[i] = g \/ \E j \in DOMAIN e : Newest(Append(e, g))[i] = e[j]
<1>1. PICK b, x : b = Append(e, g) /\ x = Newest(b)
  OBVIOUS
<1>2. /\ b \in Seq(Grants) /\ Len(b) = Len(e) + 1 /\ Len(e) \in Nat
      /\ \A i \in DOMAIN b : b[i] = g \/ \E j \in DOMAIN e : b[i] = e[j]
  BY <1>1
<1>3. b # <<>>
  BY <1>2
<1>4. CASE Len(b) > MaxEvents
  <2>1. x = Tail(b)
    BY <1>1, <1>4 DEF Newest
  <2>2. x \in Seq(Grants) /\ Len(x) = Len(b) - 1 /\ \A i \in DOMAIN x : \E j \in DOMAIN b : x[i] = b[j]
    BY <1>2, <1>3, <2>1, TailPart
  <2>3. Len(x) <= MaxEvents
    BY <1>2, <2>2, ConstantsAssumption
  <2> QED
    BY <1>1, <1>2, <2>2, <2>3
<1>5. CASE ~(Len(b) > MaxEvents)
  <2>1. x = b /\ Len(b) <= MaxEvents
    BY <1>1, <1>2, <1>5, ConstantsAssumption DEF Newest
  <2> QED
    BY <1>1, <1>2, <2>1
<1> QED
  BY <1>4, <1>5

\* The types of the store, and that its history is owned.
Fits(r, d, s, a, e) ==
    /\ r \in [Grants -> {"none", "active", "ended"}]
    /\ d \subseteq {g \in Grants : r[g] = "ended"}
    /\ s \subseteq {g \in Grants : r[g] # "none"}
    /\ a \in [Grants -> 0 .. MaxActions]
    /\ e \in Seq(Grants) /\ Len(e) <= MaxEvents
    /\ \A g \in Grants : r[g] = "none" => a[g] = 0
    /\ \A i \in DOMAIN e : r[e[i]] # "none"
StoreOK == Fits(guests, due, seen, actions, events)

LEMMA StoreOwned == TypeOK => (HistoryOwned <=> StoreOK)
BY DEF TypeOK, HistoryOwned, StoreOK, Fits, Contains

\* A transaction that deletes records deletes with them all that refers to them.
LEMMA WithoutStore ==
    ASSUME NEW gone, NEW r, NEW d, NEW s, NEW a, NEW e, Fits(r, d, s, a, e),
           Without(gone, r, d, s, a, e)
    PROVE  StoreOK'
<1> USE DEF Fits
<1>0. 0 \in 0 .. MaxActions
  BY ConstantsAssumption
<1>1. guests' \in [Grants -> {"none", "active", "ended"}]
  BY DEF Without
<1>2. due' \subseteq {g \in Grants : guests'[g] = "ended"} /\ seen' \subseteq {g \in Grants : guests'[g] # "none"}
  BY DEF Without
<1>3. actions' \in [Grants -> 0 .. MaxActions] /\ \A g \in Grants : guests'[g] = "none" => actions'[g] = 0
  BY <1>0 DEF Without
<1>4. /\ events' \in Seq(Grants) /\ Len(events') <= Len(e)
      /\ \A i \in DOMAIN events' : events'[i] \notin gone /\ \E j \in DOMAIN e : events'[i] = e[j]
  <2>1. PICK x : x = events' /\ x \in Remaining(e, gone)
    BY DEF Without
  <2> QED
    BY <2>1, RemainingPart
<1>5. \A i \in DOMAIN events' : guests'[events'[i]] # "none"
  BY <1>4 DEF Without
<1>6. Len(events') <= MaxEvents
  <2>1. Len(events') \in Nat /\ Len(e) \in Nat
    BY <1>4
  <2> QED
    BY <1>4, <2>1, ConstantsAssumption
<1> QED
  BY <1>1, <1>2, <1>3, <1>4, <1>5, <1>6 DEF StoreOK

-----------------------------------------------------------------------------
(* The store                                                                *)

\* Every step keeps the store.
LEMMA StoreNext ==
    ASSUME TypeOK, StoreOK, [Next]_vars
    PROVE  StoreOK'
<1> USE DEF file, store, bounds, StoreOK
<1>0. ASSUME NEW gone, NEW r, NEW d, NEW s, NEW a, NEW e, Fits(r, d, s, a, e),
             Without(gone, r, d, s, a, e)
      PROVE  StoreOK'
  BY <1>0, WithoutStore
<1>a. ASSUME NEW w \in Workers, OwnerStep(w) \/ CleanupStep(w) PROVE UNCHANGED store
  BY <1>a DEF OwnerStep, CleanupStep, CreateGrant, CommitGrant, Edit, EditDone, EditUndone, Revoke,
              ResetLists, ResetRevokes, DeletePage, View, Sweep, Expire
<1>b. ASSUME NEW w \in Workers, FaultStep(w) PROVE UNCHANGED store
  BY <1>b DEF FaultStep, FailWipe, Fail
<1>c. CASE UNCHANGED store
  BY <1>c
<1>1. ASSUME NEW w \in Workers, Wipe(w) PROVE StoreOK'
  <2>1. Without(Grants, guests, due, seen, actions, events)
    BY <1>1 DEF Wipe
  <2> QED
    BY <2>1, <1>0
<1>2. ASSUME NEW w \in Workers, NEW g \in Grants, Register(w, g) PROVE StoreOK'
  <2>1. PICK r : r = [guests EXCEPT ![g] = IF @ = "none" THEN "active" ELSE @]
    OBVIOUS
  <2>2. Without(due, r, due, seen, actions, events)
    BY <1>2, <2>1 DEF Register, RegisterGuest, Commit
  <2>3. Fits(r, due, seen, actions, events)
    BY <2>1 DEF Fits
  <2> QED
    BY <2>2, <2>3, <1>0
<1>3. ASSUME NEW w \in Workers, NEW g \in Grants, Mark(w, g) PROVE StoreOK'
  <2>1. PICK long \in BOOLEAN, e \in {events, Newest(Append(events, g))} : MarkRevoked(g, long, e)
    BY <1>3 DEF Mark
  <2>2. PICK r, d : r = [guests EXCEPT ![g] = "ended"] /\ d = IF long THEN due \union {g} ELSE due
    OBVIOUS
  <2>3. Without(d, r, d, seen, actions, e)
    BY <2>1, <2>2 DEF MarkRevoked, Commit
  <2>4. /\ e \in Seq(Grants) /\ Len(e) <= MaxEvents
        /\ \A i \in DOMAIN e : e[i] = g \/ \E k \in DOMAIN events : e[i] = events[k]
    BY NewestPart DEF Fits
  <2>5. Fits(r, d, seen, actions, e)
    BY <2>2, <2>4 DEF Fits
  <2> QED
    BY <2>3, <2>5, <1>0
<1>4. ASSUME NEW w \in Workers, NEW g \in Grants, InitialAccess(w, g) PROVE StoreOK'
  <2>1. PICK s : /\ Without(due, guests, due, s, actions, events)
                 /\ s = IF guests[g] # "none" /\ g \notin seen THEN seen \union {g} ELSE seen
    BY <1>4 DEF InitialAccess, Commit
  <2>2. Fits(guests, due, s, actions, events)
    BY <2>1 DEF Fits
  <2> QED
    BY <2>1, <2>2, <1>0
<1>5. ASSUME NEW w \in Workers, NEW g \in Grants, RecordAction(w, g) PROVE StoreOK'
  <2>1. PICK a : a = [actions EXCEPT ![g] = IF @ < MaxActions THEN @ + 1 ELSE @]
    OBVIOUS
  <2>2. Without(due, guests, due, seen, a, events) /\ guests[g] # "none"
    BY <1>5, <2>1 DEF RecordAction, Commit
  <2>3. a \in [Grants -> 0 .. MaxActions] /\ \A h \in Grants : guests[h] = "none" => a[h] = 0
    BY <2>1, <2>2, ConstantsAssumption DEF Fits
  <2>4. Fits(guests, due, seen, a, events)
    BY <2>3 DEF Fits
  <2> QED
    BY <2>2, <2>4, <1>0
<1>6. ASSUME NEW w \in Workers, NEW g \in Grants, RecordSecurityEvent(w, g) PROVE StoreOK'
  <2>1. PICK e : e = Newest(Append(events, g))
    OBVIOUS
  <2>2. Without(due, guests, due, seen, actions, e) /\ guests[g] # "none"
    BY <1>6, <2>1 DEF RecordSecurityEvent, Commit
  <2>3. /\ e \in Seq(Grants) /\ Len(e) <= MaxEvents
        /\ \A i \in DOMAIN e : e[i] = g \/ \E k \in DOMAIN events : e[i] = events[k]
    BY <2>1, NewestPart DEF Fits
  <2>4. \A i \in DOMAIN e : guests[e[i]] # "none"
    <3>1. \A k \in DOMAIN events : guests[events[k]] # "none"
      BY DEF Fits
    <3> QED
      BY <2>2, <2>3, <3>1
  <2>5. Fits(guests, due, seen, actions, e)
    BY <2>3, <2>4 DEF Fits
  <2> QED
    BY <2>2, <2>5, <1>0
<1>7. ASSUME NEW w \in Workers, NEW g \in Grants, Notify(w, g) \/ RecordRefused(w, g) PROVE UNCHANGED store
  BY <1>7 DEF Notify, RecordRefused
<1>8. ASSUME NEW w \in Workers, NEW g \in Grants, NEW o, Emit(w, g, o) PROVE UNCHANGED store
  BY <1>8 DEF Emit
<1>9. ASSUME NEW g \in Grants, DeleteRevokedGuest(g) PROVE StoreOK'
  <2>1. Without({g}, guests, due, seen, actions, events)
    BY <1>9 DEF DeleteRevokedGuest
  <2> QED
    BY <2>1, <1>0
<1>10. ASSUME NEW g \in Grants, Elapse(g) PROVE StoreOK'
  BY <1>10 DEF Elapse, Fits
<1>11. CASE EventsAge
  <2>1. events # <<>> /\ UNCHANGED <<guests, due, seen, actions>>
    BY <1>11 DEF EventsAge
  <2>2. PICK e : e = Tail(events) /\ e = events'
    BY <1>11 DEF EventsAge
  <2>3. e \in Seq(Grants) /\ Len(e) = Len(events) - 1 /\ \A i \in DOMAIN e : \E j \in DOMAIN events : e[i] = events[j]
    BY <2>1, <2>2, TailPart DEF Fits
  <2>4. Len(e) <= MaxEvents
    BY <2>3, ConstantsAssumption DEF Fits
  <2>5. Fits(guests, due, seen, actions, e)
    BY <2>3, <2>4 DEF Fits
  <2> QED
    BY <2>1, <2>2, <2>5
<1>12. CASE CreatePage \/ Stop \/ UNCHANGED vars
  BY <1>12, <1>c DEF CreatePage, Stop, vars
<1> QED
  BY <1>a, <1>b, <1>c, <1>1, <1>2, <1>3, <1>4, <1>5, <1>6, <1>7, <1>8, <1>9, <1>10, <1>11, <1>12
  DEF Next, StoreStep, EventStep

-----------------------------------------------------------------------------
(* The page and the threads                                                 *)

Jobs == [op: Ops, todo: SUBSET Grants]
RestOK ==
    /\ page \in BOOLEAN /\ grants \subseteq Grants /\ over \subseteq Grants
    /\ back \subseteq Grants
    /\ lock \in Workers \union {NoWorker} /\ copy \subseteq Grants
    /\ job \in [Workers -> Jobs]
    /\ notified \in [Grants -> Nat] /\ faults \in 0 .. Faults /\ forgets \in 0 .. Forgets

LEMMA TypeParts == TypeOK /\ HistoryOwned <=> RestOK /\ StoreOK
<1>1. TypeOK <=> RestOK /\ TypeOK
  BY DEF TypeOK, RestOK, Jobs
<1>2. RestOK /\ StoreOK => TypeOK
  BY DEF TypeOK, RestOK, Jobs, StoreOK, Fits
<1> QED
  BY <1>1, <1>2, StoreOwned

\* A thread that goes on works for fewer grants, and gives back only its own lock.
LEMMA ContinuesType ==
    ASSUME RestOK, NEW w \in Workers, NEW s \in SUBSET Grants, Continues(w, s)
    PROVE  /\ job' \in [Workers -> Jobs] /\ lock' \in {lock, NoWorker}
           /\ lock' \in Workers \union {NoWorker}
           /\ job'[w] = IF s = {} THEN Idle ELSE Job(job[w].op, s)
           /\ \A v \in Workers \ {w} : job'[v] = job[v] /\ (lock = v => lock' = v)
BY ConstantsAssumption DEF Continues, Idle, Job, RestOK, Jobs, Ops

LEMMA StartsType ==
    ASSUME RestOK, NEW w \in Workers, NEW o \in Ops, NEW s \in SUBSET Grants, Starts(w, o, s)
    PROVE  /\ job' \in [Workers -> Jobs] /\ job[w] = Idle /\ job'[w] = Job(o, s)
           /\ \A v \in Workers \ {w} : job'[v] = job[v]
BY DEF Starts, Job, RestOK, Jobs

\* Every step keeps the types of the page and of the threads.
LEMMA RestNext ==
    ASSUME RestOK, [Next]_vars
    PROVE  RestOK'
<1> USE DEF file, store, bounds
<1>0. Ops = {"mark", "sweep", "expire", "delete", "create", "edit", "idle", "register", "reset", "wipe",
             "initial", "notify", "success", "failed", "event"}
  BY DEF Ops, Ending, Holding
<1>a. Idle \in Jobs /\ \A g \in Grants : Job("notify", {g}) \in Jobs /\ Job("event", {g}) \in Jobs
  BY <1>0 DEF Idle, Job, Jobs
<1>b. /\ Job("wipe", {}) \in Jobs /\ \A g \in Grants : Job("register", {g}) \in Jobs
      /\ grants \subseteq Grants /\ Job("mark", grants) \in Jobs
  BY <1>0 DEF Job, Jobs, RestOK
<1>1. ASSUME NEW w \in Workers, NEW g \in Grants, CreateGrant(w, g) PROVE RestOK'
  <2>1. job' \in [Workers -> Jobs]
    BY <1>1, <1>0, StartsType DEF CreateGrant
  <2> QED
    BY <1>1, <2>1 DEF CreateGrant, Locks, RestOK
<1>g. ASSUME NEW w \in Workers, NEW g \in Grants, CommitGrant(w, g) PROVE RestOK'
  BY <1>g, <1>b DEF CommitGrant, WritesBack, RestOK
<1>h. ASSUME NEW w \in Workers, Edit(w) \/ ResetLists(w) PROVE RestOK'
  <2>1. job' \in [Workers -> Jobs]
    BY <1>h, <1>0, StartsType DEF Edit, ResetLists
  <2> QED
    BY <1>h, <2>1 DEF Edit, ResetLists, Locks, RestOK
<1>i. ASSUME NEW w \in Workers, EditDone(w) \/ EditUndone(w) PROVE RestOK'
  <2>1. job' \in [Workers -> Jobs] /\ lock' \in Workers \union {NoWorker}
    BY <1>i, ContinuesType DEF EditDone, EditUndone
  <2> QED
    BY <1>i, <2>1 DEF EditDone, EditUndone, WritesBack, RestOK
<1>j. ASSUME NEW w \in Workers, ResetRevokes(w) PROVE RestOK'
  <2>1. job' \in [Workers -> Jobs]
    BY <1>j, <1>a, <1>b DEF ResetRevokes, RestOK
  <2> QED
    BY <1>j, <2>1 DEF ResetRevokes, RestOK
<1>2. ASSUME NEW w \in Workers, NEW s \in SUBSET grants, Revoke(w, s) \/ Sweep(w, s) \/ Expire(w, s)
      PROVE  RestOK'
  <2>1. job' \in [Workers -> Jobs]
    BY <1>2, <1>0, StartsType DEF Revoke, Sweep, Expire, RestOK
  <2> QED
    BY <1>2, <2>1 DEF Revoke, Sweep, Expire, Removes, Locks, RestOK
<1>3. ASSUME NEW w \in Workers, DeletePage(w) PROVE RestOK'
  <2>1. PICK o \in {"wipe", "delete"} : Starts(w, o, grants)
    BY <1>3 DEF DeletePage
  <2>2. job' \in [Workers -> Jobs]
    BY <2>1, <1>0, StartsType DEF RestOK
  <2>3. forgets' \in 0 .. Forgets /\ faults' \in 0 .. Faults
    BY <1>3, ConstantsAssumption DEF DeletePage, RestOK
  <2>4. /\ page' = FALSE /\ lock' = w /\ grants' = {} /\ over' = over \union grants
        /\ UNCHANGED <<notified, back, copy>>
    BY <1>3 DEF DeletePage, Locks
  <2> QED
    BY <2>2, <2>3, <2>4, Zenon DEF RestOK
<1>4. ASSUME NEW w \in Workers, View(w) PROVE RestOK'
  <2>1. job' \in [Workers -> Jobs]
    BY <1>4, <1>0, StartsType DEF View, RestOK
  <2> QED
    BY <1>4, <2>1 DEF View, RestOK
<1>5. ASSUME NEW w \in Workers, NEW g \in Grants, NEW o \in {"initial", "success", "failed", "event"},
             Emit(w, g, o)
      PROVE  RestOK'
  <2>1. job' \in [Workers -> Jobs]
    BY <1>5, <1>0, StartsType DEF Emit
  <2> QED
    BY <1>5, <2>1 DEF Emit, RestOK
<1>c. ASSUME NEW w \in Workers, NEW s \in SUBSET Grants, Continues(w, s), UNCHANGED <<file, notified>>,
             copy' \in {copy, {}}, faults' \in 0 .. Faults, forgets' \in 0 .. Forgets
      PROVE  RestOK'
  <2>1. job' \in [Workers -> Jobs] /\ lock' \in Workers \union {NoWorker}
    BY <1>c, ContinuesType
  <2> QED
    BY <1>c, <2>1 DEF RestOK
<1>d. ASSUME NEW w \in Workers, NEW x \in Jobs, job' = [job EXCEPT ![w] = x],
             UNCHANGED <<file, lock, notified>>, copy' \in {copy, {}},
             faults' \in 0 .. Faults, forgets' \in 0 .. Forgets
      PROVE  RestOK'
  BY <1>d DEF RestOK
<1>e. \A w \in Workers : \A g : job[w].todo \in SUBSET Grants /\ job[w].todo \ {g} \in SUBSET Grants
  BY DEF RestOK, Jobs
<1>6. ASSUME NEW w \in Workers, NEW g \in Grants, Register(w, g) PROVE RestOK'
  BY <1>6, <1>c, <1>e DEF Register, RestOK
<1>7. ASSUME NEW w \in Workers, NEW g \in Grants, Mark(w, g) PROVE RestOK'
  <2>1. faults' \in 0 .. Faults /\ forgets' \in 0 .. Forgets
    BY <1>7, ConstantsAssumption DEF Mark, RestOK
  <2>2. CASE Continues(w, job[w].todo \ {g})
    BY <1>7, <2>1, <2>2, <1>c, <1>e DEF Mark
  <2> QED
    BY <1>7, <2>1, <2>2, <1>b, <1>d DEF Mark
<1>8. ASSUME NEW w \in Workers, Wipe(w) PROVE RestOK'
  BY <1>8, <1>c DEF Wipe, RestOK
<1>9. ASSUME NEW w \in Workers, NEW g \in Grants,
             InitialAccess(w, g) \/ RecordAction(w, g) \/ RecordSecurityEvent(w, g) \/ RecordRefused(w, g)
      PROVE  RestOK'
  <2>1. \E x \in Jobs : job' = [job EXCEPT ![w] = x]
    BY <1>9, <1>a DEF InitialAccess, RecordAction, RecordSecurityEvent, RecordRefused
  <2> QED
    BY <1>9, <2>1, <1>d DEF InitialAccess, RecordAction, RecordSecurityEvent, RecordRefused, RestOK
<1>10. ASSUME NEW w \in Workers, NEW g \in Grants, Notify(w, g) PROVE RestOK'
  <2>1. job' \in [Workers -> Jobs] /\ lock' \in Workers \union {NoWorker}
    BY <1>10, ContinuesType DEF Notify
  <2>2. notified' \in [Grants -> Nat]
    BY <1>10 DEF Notify, RestOK
  <2> QED
    BY <1>10, <2>1, <2>2 DEF Notify, RestOK
<1>11. ASSUME NEW w \in Workers, NEW g \in Grants, Fail(w, g) PROVE RestOK'
  <2>1. faults' \in 0 .. Faults /\ forgets' \in 0 .. Forgets
    BY <1>11, ConstantsAssumption DEF Fail, RestOK
  <2>2. PICK left \in SUBSET Grants :
           \/ Continues(w, left)
           \/ job' = [job EXCEPT ![w] = Job("wipe", {})] /\ UNCHANGED lock
    BY <1>11, <1>e DEF Fail
  <2> QED
    BY <1>11, <2>1, <2>2, <1>b, <1>c, <1>d DEF Fail
<1>12. ASSUME NEW w \in Workers, FailWipe(w) PROVE RestOK'
  <2>1. faults' \in 0 .. Faults /\ forgets' \in 0 .. Forgets
    BY <1>12, ConstantsAssumption DEF FailWipe, RestOK
  <2> QED
    BY <1>12, <2>1, <1>c DEF FailWipe
<1>13. ASSUME NEW g \in Grants, DeleteRevokedGuest(g) \/ Elapse(g) PROVE RestOK'
  BY <1>13, ConstantsAssumption DEF DeleteRevokedGuest, Elapse, RestOK
<1>14. CASE CreatePage \/ EventsAge \/ UNCHANGED vars
  BY <1>14 DEF CreatePage, EventsAge, vars, RestOK
<1>15. CASE Stop
  BY <1>15, <1>a, ConstantsAssumption DEF Stop, RestOK
<1> QED
  BY <1>1, <1>2, <1>3, <1>4, <1>5, <1>6, <1>7, <1>8, <1>9, <1>10, <1>11, <1>12, <1>13, <1>14, <1>15,
     <1>g, <1>h, <1>i, <1>j
  DEF Next, OwnerStep, CleanupStep, StoreStep, EventStep, FaultStep

\* What a thread does next: nothing for others, and it goes on with less of the same, ends,
\* or turns to what follows its work.
LEMMA JobNext ==
    ASSUME RestOK, StoreOK, JobInv, CopyInv, [Next]_vars
    PROVE  JobInv'
<1> USE DEF file, store, bounds
<1>0. RestOK' /\ Jobs' = Jobs
  BY RestNext DEF Jobs
<1>a. Idle.op = "idle" /\ Idle.todo = {} /\ \A o, x : Job(o, x).op = o /\ Job(o, x).todo = x
  BY DEF Idle, Job
<1>b. "idle" \notin Ending /\ "register" \notin Ending /\ "wipe" \notin Ending /\ "notify" \notin Ending
      /\ "event" \notin Ending /\ "delete" \in Ending /\ "create" \notin Ending /\ "edit" \notin Ending
      /\ "reset" \notin Ending
  BY DEF Ending
<1> DEFINE Right(v) ==
       /\ job[v].op # "create" => job[v].todo \subseteq grants \union over
       /\ job[v].op = "create" => job[v].todo \intersect (grants \union over) = {}
       /\ job[v].op \in Ending => job[v].todo \subseteq over
       /\ job[v].op \in {"delete", "wipe"} => lock = v /\ ~page /\ grants = {} /\ forgets # 0
<1>c. \A v \in Workers : Right(v)
  BY DEF JobInv
\* A thread that does nothing is right as before, unless the grants that it has to do with
\* have changed.
<1>o. ASSUME NEW v \in Workers, job'[v] = job[v],
             grants \union over \subseteq grants' \union over', over \subseteq over',
             job[v].op = "create" => grants' \union over' \subseteq grants \union over,
             job[v].op \in {"delete", "wipe"} =>
                 (lock = v => lock' = v) /\ page' = page /\ grants' \subseteq grants
                 /\ (forgets # 0 => forgets' # 0)
      PROVE  Right(v)'
  <2>1. Right(v)
    BY <1>c
  <2>2. job[v].op \in {"delete", "wipe"} => lock' = v /\ ~page' /\ grants' = {} /\ forgets' # 0
    BY <1>o, <2>1
  <2>3. job[v].op # "create" => job[v].todo \subseteq grants' \union over'
    BY <1>o, <2>1
  <2>4. job[v].op = "create" => job[v].todo \intersect (grants' \union over') = {}
    BY <1>o, <2>1
  <2>5. job[v].op \in Ending => job[v].todo \subseteq over'
    BY <1>o, <2>1
  <2> QED
    BY <1>o, <2>2, <2>3, <2>4, <2>5
<1>1. ASSUME NEW w \in Workers, NEW g \in Grants, CreateGrant(w, g) PROVE JobInv'
  <2>1. job' = [job EXCEPT ![w] = Job("create", {g})] /\ page /\ lock = NoWorker
        /\ g \notin grants \union over /\ UNCHANGED <<page, grants, over, forgets>>
    BY <1>1 DEF CreateGrant, Starts, Locks
  <2>2. ASSUME NEW v \in Workers PROVE Right(v)'
    <3>1. CASE v = w
      BY <2>1, <3>1, <1>a, <1>b DEF RestOK
    <3>2. CASE v # w
      BY <2>1, <3>2, <1>c DEF RestOK
    <3> QED
      BY <3>1, <3>2
  <2> QED
    BY <2>2 DEF JobInv
\* The page is written back by the one who holds its lock.
<1>g. ASSUME NEW w \in Workers, lock = w, page, UNCHANGED <<page, over, forgets>>,
             grants \subseteq grants', NEW new, new \intersect over = {},
             grants' \subseteq grants \union over \union new,
             new = {} \/ job[w].op = "create",
             \A v \in Workers \ {w} : job'[v] = job[v], Right(w)'
      PROVE  JobInv'
  <2>1. ASSUME NEW v \in Workers, v # w PROVE Right(v)'
    <3>1. job[v].op \notin {"delete", "wipe"}
      BY <1>g, <2>1, <1>c
    <3>2. job[v].op # "create"
      BY <1>g, <2>1 DEF CopyInv, Holding
    <3> HIDE DEF Right
    <3> QED
      BY <1>g, <2>1, <3>1, <3>2, <1>o
  <2> QED
    BY <1>g, <2>1 DEF JobInv
<1>h. ASSUME NEW w \in Workers, NEW g \in Grants, CommitGrant(w, g) PROVE JobInv'
  <2>1. /\ job[w].op = "create" /\ job[w].todo = {g} /\ job' = [job EXCEPT ![w] = Job("register", {g})]
        /\ grants' = copy \union {g} /\ UNCHANGED <<page, over, forgets>>
    BY <1>h, <1>a DEF CommitGrant, WritesBack
  <2>2. lock = w /\ page /\ grants \subseteq copy /\ copy \subseteq grants \union over
    BY <2>1 DEF CopyInv, Holding
  <2>3. g \notin over
    BY <2>1, <1>c
  <2>4. job'[w] = Job("register", {g}) /\ \A v \in Workers \ {w} : job'[v] = job[v]
    BY <2>1 DEF RestOK
  <2>5. Right(w)'
    BY <2>1, <2>4, <1>a, <1>b
  <2> HIDE DEF Right
  <2> QED
    BY <2>1, <2>2, <2>3, <2>4, <2>5, <1>g
<1>i. ASSUME NEW w \in Workers, EditDone(w) \/ EditUndone(w) PROVE JobInv'
  <2>1. /\ job[w].op = "edit" /\ Continues(w, {}) /\ UNCHANGED <<page, over, forgets>>
        /\ (grants' = grants \/ grants' = copy)
    BY <1>i DEF EditDone, EditUndone, WritesBack
  <2>2. lock = w /\ page /\ grants \subseteq copy /\ copy \subseteq grants \union over
    BY <2>1 DEF CopyInv, Holding
  <2>3. job'[w] = Idle /\ \A v \in Workers \ {w} : job'[v] = job[v]
    BY <2>1, ContinuesType
  <2>4. Right(w)'
    BY <2>3, <1>a, <1>b
  <2> HIDE DEF Right
  <2> QED
    BY <2>1, <2>2, <2>3, <2>4, <1>g
<1>j. ASSUME NEW w \in Workers, ResetRevokes(w) PROVE JobInv'
  <2>1. PICK x : /\ job' = [job EXCEPT ![w] = x] /\ (x = Idle \/ x = Job("mark", grants))
                 /\ grants' = {} /\ over' = over \union grants /\ UNCHANGED <<page, lock, forgets>>
    BY <1>j DEF ResetRevokes
  <2>2. job'[w] = x /\ \A v \in Workers \ {w} : job'[v] = job[v]
    BY <2>1 DEF RestOK
  <2>3. Right(w)'
    BY <2>1, <2>2, <1>a, <1>b
  <2>4. ASSUME NEW v \in Workers, v # w PROVE Right(v)'
    <3> HIDE DEF Right
    <3> QED
      BY <2>1, <2>2, <2>4, <1>o
  <2> QED
    BY <2>3, <2>4 DEF JobInv
<1>2. ASSUME NEW w \in Workers, NEW s \in SUBSET grants, Revoke(w, s) \/ Sweep(w, s) \/ Expire(w, s)
      PROVE  JobInv'
  <2>1. PICK o \in {"mark", "sweep", "expire"} :
           /\ job' = [job EXCEPT ![w] = Job(o, s)] /\ page
           /\ grants' = grants \ s /\ over' = over \union s /\ UNCHANGED <<page, forgets>>
    BY <1>2 DEF Revoke, Sweep, Expire, Removes, Starts
  <2>2. ASSUME NEW v \in Workers PROVE Right(v)'
    <3>1. CASE v = w
      BY <2>1, <3>1, <1>a DEF RestOK
    <3>2. CASE v # w
      BY <2>1, <3>2, <1>c DEF RestOK
    <3> QED
      BY <3>1, <3>2
  <2> QED
    BY <2>2 DEF JobInv
<1>3. ASSUME NEW w \in Workers, DeletePage(w) PROVE JobInv'
  <2>1. PICK o \in {"wipe", "delete"} :
           /\ job' = [job EXCEPT ![w] = Job(o, grants)] /\ page /\ ~page' /\ lock' = w
           /\ grants' = {} /\ over' = over \union grants /\ forgets' = forgets + 1
    BY <1>3 DEF DeletePage, Starts, Locks
  <2>2. forgets' # 0
    BY <2>1 DEF RestOK
  <2>3. ASSUME NEW v \in Workers PROVE Right(v)'
    <3>1. CASE v = w
      BY <2>1, <2>2, <3>1, <1>a DEF RestOK
    <3>2. CASE v # w
      BY <2>1, <3>2, <1>c DEF RestOK
    <3> QED
      BY <3>1, <3>2
  <2> QED
    BY <2>3 DEF JobInv
<1>d. ASSUME NEW w \in Workers, NEW o, NEW s, Starts(w, o, s), s \subseteq grants,
             o \notin Ending \union {"wipe", "create"}, UNCHANGED <<file, forgets>>,
             lock' = lock \/ lock = NoWorker
      PROVE  JobInv'
  <2>1. ASSUME NEW v \in Workers PROVE Right(v)'
    <3>1. CASE v = w
      BY <1>d, <3>1, <1>a, <1>b DEF Starts, RestOK
    <3>2. CASE v # w
      BY <1>d, <3>2, <1>c, ConstantsAssumption DEF Starts, RestOK
    <3> QED
      BY <3>1, <3>2
  <2> QED
    BY <2>1 DEF JobInv
<1>4. ASSUME NEW w \in Workers, View(w) PROVE JobInv'
  BY <1>4, <1>d, <1>b DEF View
<1>k. ASSUME NEW w \in Workers, Edit(w) \/ ResetLists(w) PROVE JobInv'
  BY <1>k, <1>d, <1>b DEF Edit, ResetLists, Locks
<1>5. ASSUME NEW w \in Workers, NEW g \in Grants, NEW o \in {"initial", "success", "failed", "event"},
             Emit(w, g, o)
      PROVE  JobInv'
  BY <1>5, <1>d DEF Emit, Ending
<1>e. ASSUME NEW w \in Workers, NEW s \in SUBSET job[w].todo, Continues(w, s), UNCHANGED file,
             forgets # 0 => forgets' # 0, job[w].op = "delete" => s # {}
      PROVE  JobInv'
  <2>0. s \in SUBSET Grants
    BY DEF RestOK, Jobs
  <2>1. /\ job'[w] = IF s = {} THEN Idle ELSE Job(job[w].op, s)
        /\ \A v \in Workers \ {w} : job'[v] = job[v] /\ (lock = v => lock' = v)
    BY <1>e, <2>0, ContinuesType
  <2>2. ASSUME NEW v \in Workers PROVE Right(v)'
    <3>1. CASE v = w /\ s = {}
      BY <2>1, <3>1, <1>a, <1>b
    <3>2. CASE v = w /\ s # {}
      <4>1. job'[v].op = job[v].op /\ job'[v].todo = s /\ lock' = lock
        BY <1>e, <2>1, <3>2, <1>a DEF Continues
      <4>2. (job[v].op # "create" => job[v].todo \subseteq grants \union over)
            /\ (job[v].op = "create" => job[v].todo \intersect (grants \union over) = {})
            /\ (job[v].op \in Ending => job[v].todo \subseteq over)
            /\ (job[v].op \in {"delete", "wipe"} => lock = v /\ ~page /\ grants = {} /\ forgets # 0)
        BY <1>c
      <4> QED
        BY <1>e, <3>2, <4>1, <4>2
    <3>3. CASE v # w
      BY <1>e, <2>1, <3>3, <1>c
    <3> QED
      BY <3>1, <3>2, <3>3
  <2> QED
    BY <2>2 DEF JobInv
<1>f. ASSUME NEW w \in Workers, NEW x, job' = [job EXCEPT ![w] = x], x.todo \subseteq job[w].todo,
             \/ x.op \notin Ending \union {"wipe", "create"} /\ job[w].op # "create"
             \/ x = Job("wipe", {}) /\ job[w].op = "delete",
             forgets # 0 => forgets' # 0, UNCHANGED <<file, lock>>
      PROVE  JobInv'
  <2>1. ASSUME NEW v \in Workers PROVE Right(v)'
    <3>1. CASE v = w
      BY <1>f, <3>1, <1>a, <1>b, <1>c DEF RestOK
    <3>2. CASE v # w
      BY <1>f, <3>2, <1>c DEF RestOK
    <3> QED
      BY <3>1, <3>2
  <2> QED
    BY <2>1 DEF JobInv
<1>6. ASSUME NEW w \in Workers, NEW g \in Grants, Register(w, g) PROVE JobInv'
  BY <1>6, <1>e DEF Register
<1>7. ASSUME NEW w \in Workers, NEW g \in Grants, Mark(w, g) PROVE JobInv'
  <2>1. (forgets # 0 => forgets' # 0) /\ UNCHANGED file
    BY <1>7 DEF Mark, RestOK
  <2>2. CASE job[w].op = "delete" /\ job[w].todo = {g}
    <3>1. job' = [job EXCEPT ![w] = Job("wipe", {})] /\ UNCHANGED lock
      BY <1>7, <2>2 DEF Mark
    <3> QED
      BY <2>1, <2>2, <3>1, <1>a, <1>f
  <2>3. CASE ~(job[w].op = "delete" /\ job[w].todo = {g})
    <3>1. Continues(w, job[w].todo \ {g}) /\ g \in job[w].todo
      BY <1>7, <2>3 DEF Mark
    <3> QED
      BY <2>1, <2>3, <3>1, <1>e
  <2> QED
    BY <2>2, <2>3
<1>8. ASSUME NEW w \in Workers, Wipe(w) PROVE JobInv'
  BY <1>8, <1>e DEF Wipe
<1>9. ASSUME NEW w \in Workers, NEW g \in Grants,
             InitialAccess(w, g) \/ RecordAction(w, g) \/ RecordSecurityEvent(w, g) \/ RecordRefused(w, g)
      PROVE  JobInv'
  <2>1. /\ \E x \in {Idle, Job("notify", {g}), Job("event", {g})} : job' = [job EXCEPT ![w] = x]
        /\ g \in job[w].todo /\ job[w].op # "create"
    BY <1>9, <1>a DEF InitialAccess, RecordAction, RecordSecurityEvent, RecordRefused
  <2>2. UNCHANGED <<file, lock, forgets>>
    BY <1>9 DEF InitialAccess, RecordAction, RecordSecurityEvent, RecordRefused
  <2>3. PICK x \in {Idle, Job("notify", {g}), Job("event", {g})} : job' = [job EXCEPT ![w] = x]
    BY <2>1
  <2>4. x.todo \subseteq job[w].todo /\ x.op \in {"idle", "notify", "event"}
    BY <2>1, <2>3, <1>a
  <2> QED
    BY <2>1, <2>2, <2>3, <2>4, <1>b, <1>f
<1>10. ASSUME NEW w \in Workers, NEW g \in Grants, Notify(w, g) PROVE JobInv'
  BY <1>10, <1>a, <1>e DEF Notify
<1>11. ASSUME NEW w \in Workers, NEW g \in Grants, Fail(w, g) PROVE JobInv'
  <2>1. PICK left \in SUBSET job[w].todo :
           /\ left = IF job[w].op \in {"mark", "expire", "delete"} THEN job[w].todo \ {g} ELSE {}
           /\ IF job[w].op = "delete" /\ left = {}
              THEN job' = [job EXCEPT ![w] = Job("wipe", {})] /\ UNCHANGED lock
              ELSE Continues(w, left)
    BY <1>11 DEF Fail
  <2>2. UNCHANGED file /\ forgets' = forgets
    BY <1>11 DEF Fail
  <2>3. CASE job[w].op = "delete" /\ left = {}
    BY <2>1, <2>2, <2>3, <1>a, <1>f
  <2>4. CASE ~(job[w].op = "delete" /\ left = {})
    BY <2>1, <2>2, <2>4, <1>e
  <2> QED
    BY <2>3, <2>4
<1>12. ASSUME NEW w \in Workers, FailWipe(w) PROVE JobInv'
  BY <1>12, <1>e DEF FailWipe
<1>13. ASSUME NEW g \in Grants, DeleteRevokedGuest(g) \/ Elapse(g) PROVE JobInv'
  BY <1>13 DEF DeleteRevokedGuest, Elapse, RestOK, JobInv
<1>14. CASE EventsAge \/ UNCHANGED vars
  BY <1>14 DEF EventsAge, vars, JobInv
<1>15. CASE Stop
  BY <1>15, <1>a, <1>b DEF Stop, JobInv
<1>16. CASE CreatePage
  BY <1>16, <1>c, ConstantsAssumption DEF CreatePage, JobInv
<1> QED
  BY <1>1, <1>2, <1>3, <1>4, <1>5, <1>6, <1>7, <1>8, <1>9, <1>10, <1>11, <1>12, <1>13, <1>14, <1>15,
     <1>16, <1>h, <1>i, <1>j, <1>k
  DEF Next, OwnerStep, CleanupStep, StoreStep, EventStep, FaultStep

\* The copy of the page that is written back holds what is in the page and what was
\* removed from it: nobody else puts a grant into the page meanwhile.
LEMMA CopyNext ==
    ASSUME RestOK, JobInv, CopyInv, [Next]_vars
    PROVE  CopyInv'
<1> USE DEF file, store, bounds
<1>a. Idle.op = "idle" /\ \A o, x : Job(o, x).op = o /\ Job(o, x).todo = x
  BY DEF Idle, Job
<1>b. /\ back \subseteq over /\ grants \intersect over \subseteq back
      /\ \A v \in Workers : job[v].op \in Holding =>
            lock = v /\ page /\ grants \subseteq copy /\ copy \subseteq grants \union over
  BY DEF CopyInv
\* Grants are removed, and no thread begins to hold a copy.
<1>c. ASSUME NEW s \in SUBSET grants, grants' = grants \ s, over' = over \union s, UNCHANGED <<back, copy>>,
             \A v \in Workers : job'[v].op \in Holding =>
                 job[v].op \in Holding /\ (lock = v => lock' = v) /\ page' = page
      PROVE  CopyInv'
  <2>1. back' \subseteq over' /\ grants' \intersect over' \subseteq back'
    BY <1>b, <1>c
  <2>2. ASSUME NEW v \in Workers, job'[v].op \in Holding
        PROVE  lock' = v /\ page' /\ grants' \subseteq copy' /\ copy' \subseteq grants' \union over'
    BY <1>b, <1>c, <2>2
  <2> QED
    BY <2>1, <2>2 DEF CopyInv
\* The page stays as it is.
<1>d. ASSUME UNCHANGED <<grants, over, back>>,
             \A v \in Workers : job'[v].op \in Holding =>
                 job[v].op \in Holding /\ (lock = v => lock' = v /\ copy' = copy) /\ page' = page
      PROVE  CopyInv'
  BY <1>b, <1>d DEF CopyInv
<1>e. ASSUME NEW w \in Workers, NEW x, job' = [job EXCEPT ![w] = x], x.op \notin Holding \/ x = job[w],
             UNCHANGED <<file, lock, copy>>
      PROVE  CopyInv'
  BY <1>e, <1>d DEF RestOK
<1>f. ASSUME NEW w \in Workers, NEW s \in SUBSET Grants, Continues(w, s), UNCHANGED file,
             copy' = copy \/ (lock = w /\ copy' = {} /\ s = {})
      PROVE  CopyInv'
  <2>1. /\ job'[w] = IF s = {} THEN Idle ELSE Job(job[w].op, s)
        /\ \A v \in Workers \ {w} : job'[v] = job[v] /\ (lock = v => lock' = v)
        /\ s # {} => lock' = lock
    BY <1>f, ContinuesType DEF Continues
  <2>2. ASSUME NEW v \in Workers, job'[v].op \in Holding
        PROVE  job[v].op \in Holding /\ (lock = v => lock' = v /\ copy' = copy) /\ page' = page
    <3>1. CASE v = w
      BY <1>f, <2>1, <2>2, <3>1, <1>a DEF Holding
    <3>2. CASE v # w
      BY <1>f, <2>1, <2>2, <3>2
    <3> QED
      BY <3>1, <3>2
  <2> QED
    BY <1>f, <2>2, <1>d
<1>g. \A w \in Workers, g \in Grants : job[w].todo \ {g} \in SUBSET Grants
  BY DEF RestOK, Jobs
\* A thread reads the page under its lock.
<1>1. ASSUME NEW w \in Workers, Edit(w) \/ \E g \in Grants : CreateGrant(w, g) PROVE CopyInv'
  <2>1. PICK x : /\ job' = [job EXCEPT ![w] = x] /\ page /\ lock = NoWorker /\ lock' = w /\ copy' = grants
                 /\ UNCHANGED file
    BY <1>1 DEF Edit, CreateGrant, Starts, Locks
  <2>2. ASSUME NEW v \in Workers, job'[v].op \in Holding PROVE v = w
    BY <2>1, <2>2, <1>b, ConstantsAssumption DEF RestOK
  <2> QED
    BY <2>1, <2>2, <1>b DEF CopyInv
\* It writes the page back.
<1>2. ASSUME NEW w \in Workers, job[w].op \in Holding, NEW new, new \intersect over = {}, WritesBack(new),
             UNCHANGED over, job'[w].op \notin Holding, \A v \in Workers \ {w} : job'[v] = job[v]
      PROVE  CopyInv'
  <2>1. lock = w /\ grants \subseteq copy /\ copy \subseteq grants \union over
    BY <1>2, <1>b
  <2>2. \A v \in Workers : job'[v].op \notin Holding
    BY <1>2, <2>1, <1>b
  <2>3. grants' = copy \union new /\ back' = back \union (copy \ grants) /\ over' = over
    BY <1>2 DEF WritesBack
  <2>4. back' \subseteq over' /\ grants' \intersect over' \subseteq back'
    BY <1>2, <2>1, <2>3, <1>b
  <2> QED
    BY <2>2, <2>4 DEF CopyInv
<1>3. ASSUME NEW w \in Workers, NEW g \in Grants, CommitGrant(w, g) PROVE CopyInv'
  <2>1. job[w].op = "create" /\ job[w].todo = {g} /\ WritesBack({g}) /\ UNCHANGED over
    BY <1>3, <1>a DEF CommitGrant
  <2>2. {g} \intersect over = {}
    BY <2>1 DEF JobInv
  <2>3. job'[w].op \notin Holding /\ \A v \in Workers \ {w} : job'[v] = job[v]
    BY <1>3, <1>a DEF CommitGrant, Holding, RestOK
  <2> QED
    BY <2>1, <2>2, <2>3, <1>2 DEF Holding
<1>4. ASSUME NEW w \in Workers, EditUndone(w) PROVE CopyInv'
  <2>1. job[w].op = "edit" /\ WritesBack({}) /\ UNCHANGED over /\ Continues(w, {})
    BY <1>4 DEF EditUndone
  <2>2. job'[w].op \notin Holding /\ \A v \in Workers \ {w} : job'[v] = job[v]
    BY <2>1, <1>a, ContinuesType DEF Holding
  <2> QED
    BY <2>1, <2>2, <1>2 DEF Holding
<1>5. ASSUME NEW w \in Workers, EditDone(w) PROVE CopyInv'
  <2>1. lock = w
    BY <1>5, <1>b DEF EditDone, Holding
  <2> QED
    BY <1>5, <2>1, <1>f DEF EditDone
<1>6. ASSUME NEW w \in Workers, NEW s \in SUBSET grants, Revoke(w, s) \/ Sweep(w, s) \/ Expire(w, s)
      PROVE  CopyInv'
  <2>1. PICK o \in {"mark", "sweep", "expire"} :
           /\ job' = [job EXCEPT ![w] = Job(o, s)] /\ grants' = grants \ s /\ over' = over \union s
           /\ UNCHANGED <<page, back, copy>> /\ (lock' = lock \/ lock = NoWorker)
    BY <1>6 DEF Revoke, Sweep, Expire, Removes, Starts, Locks
  <2>2. \A v \in Workers : job'[v].op \in Holding => job[v].op \in Holding /\ (lock = v => lock' = v)
    BY <2>1, <1>a, ConstantsAssumption DEF RestOK, Holding
  <2> QED
    BY <2>1, <2>2, <1>c
<1>7. ASSUME NEW w \in Workers, ResetRevokes(w) PROVE CopyInv'
  <2>1. PICK x : /\ job' = [job EXCEPT ![w] = x] /\ (x = Idle \/ x = Job("mark", grants))
                 /\ grants' = grants \ grants /\ over' = over \union grants
                 /\ UNCHANGED <<page, back, copy, lock>>
    BY <1>7 DEF ResetRevokes
  <2>2. \A v \in Workers : job'[v].op \in Holding => job[v].op \in Holding
    BY <2>1, <1>a DEF RestOK, Holding
  <2> QED
    BY <2>1, <2>2, <1>c
<1>8. ASSUME NEW w \in Workers, DeletePage(w) PROVE CopyInv'
  <2>1. PICK o \in {"wipe", "delete"} :
           /\ job' = [job EXCEPT ![w] = Job(o, grants)] /\ lock = NoWorker
           /\ grants' = grants \ grants /\ over' = over \union grants /\ UNCHANGED <<back, copy>>
    BY <1>8 DEF DeletePage, Starts, Locks
  <2>2. \A v \in Workers : job'[v].op \notin Holding
    BY <2>1, <1>a, <1>b, ConstantsAssumption DEF RestOK, Holding
  <2> QED
    BY <2>1, <2>2, <1>c
<1>9. ASSUME NEW w \in Workers, NEW o, NEW s, Starts(w, o, s), o \notin Holding, UNCHANGED <<file, lock, copy>>
      PROVE  CopyInv'
  <2>1. job' = [job EXCEPT ![w] = Job(o, s)] /\ Job(o, s).op \notin Holding
    BY <1>9, <1>a DEF Starts
  <2> QED
    BY <2>1, <1>9, <1>e
<1>10. ASSUME NEW w \in Workers, View(w) \/ ResetLists(w) PROVE CopyInv'
  BY <1>10, <1>9 DEF View, ResetLists, Holding
<1>11. ASSUME NEW w \in Workers, NEW g \in Grants, NEW o \in {"initial", "success", "failed", "event"},
              Emit(w, g, o)
       PROVE  CopyInv'
  BY <1>11, <1>9 DEF Emit, Holding
<1>12. ASSUME NEW w \in Workers, NEW g \in Grants, Register(w, g) \/ Notify(w, g) PROVE CopyInv'
  BY <1>12, <1>f, <1>g DEF Register, Notify
<1>13. ASSUME NEW w \in Workers, Wipe(w) \/ FailWipe(w) PROVE CopyInv'
  BY <1>13, <1>f DEF Wipe, FailWipe
<1>14. ASSUME NEW w \in Workers, NEW g \in Grants, Mark(w, g) PROVE CopyInv'
  <2>1. UNCHANGED <<file, copy>>
    BY <1>14 DEF Mark
  <2>2. CASE Continues(w, job[w].todo \ {g})
    BY <2>1, <2>2, <1>f, <1>g
  <2>3. CASE job' = [job EXCEPT ![w] = Job("wipe", {})] /\ UNCHANGED lock
    BY <2>1, <2>3, <1>a, <1>e DEF Holding
  <2> QED
    BY <1>14, <2>2, <2>3 DEF Mark
<1>15. ASSUME NEW w \in Workers, NEW g \in Grants,
              InitialAccess(w, g) \/ RecordAction(w, g) \/ RecordSecurityEvent(w, g) \/ RecordRefused(w, g)
       PROVE  CopyInv'
  <2>1. PICK x \in {Idle, Job("notify", {g}), Job("event", {g})} : job' = [job EXCEPT ![w] = x]
    BY <1>15 DEF InitialAccess, RecordAction, RecordSecurityEvent, RecordRefused
  <2>2. UNCHANGED <<file, lock, copy>>
    BY <1>15 DEF InitialAccess, RecordAction, RecordSecurityEvent, RecordRefused
  <2>3. x.op \notin Holding
    BY <2>1, <1>a DEF Holding
  <2> QED
    BY <2>1, <2>2, <2>3, <1>e
<1>16. ASSUME NEW w \in Workers, NEW g \in Grants, Fail(w, g) PROVE CopyInv'
  <2>1. /\ UNCHANGED file /\ copy' = IF lock = w THEN {} ELSE copy
        /\ \/ Continues(w, {})
           \/ Continues(w, job[w].todo \ {g}) /\ job[w].op \notin Holding
           \/ job' = [job EXCEPT ![w] = Job("wipe", {})] /\ UNCHANGED lock
    BY <1>16 DEF Fail, Holding
  <2>2. \A v \in Workers \ {w} : job'[v] = job[v] /\ (lock = v => lock' = v)
    BY <2>1, <1>g, ContinuesType DEF RestOK
  <2>3. job'[w].op \notin Holding
    <3>1. CASE Continues(w, {})
      BY <3>1, <1>a, ContinuesType DEF Holding
    <3>2. CASE Continues(w, job[w].todo \ {g}) /\ job[w].op \notin Holding
      BY <3>2, <1>a, <1>g, ContinuesType DEF Holding
    <3>3. CASE job' = [job EXCEPT ![w] = Job("wipe", {})]
      BY <3>3, <1>a DEF RestOK, Holding
    <3> QED
      BY <2>1, <3>1, <3>2, <3>3
  <2>4. ASSUME NEW v \in Workers, job'[v].op \in Holding
        PROVE  job[v].op \in Holding /\ (lock = v => lock' = v /\ copy' = copy) /\ page' = page
    <3>1. v # w
      BY <2>3, <2>4
    <3> QED
      BY <2>1, <2>2, <2>4, <3>1
  <2> QED
    BY <2>1, <2>4, <1>d
<1>17. ASSUME NEW g \in Grants, DeleteRevokedGuest(g) \/ Elapse(g) PROVE CopyInv'
  BY <1>17, <1>d DEF DeleteRevokedGuest, Elapse
<1>18. CASE EventsAge \/ UNCHANGED vars
  BY <1>18, <1>d DEF EventsAge, vars
<1>19. CASE CreatePage
  BY <1>19, <1>b, <1>d, ConstantsAssumption DEF CreatePage
<1>20. CASE Stop
  BY <1>20, <1>a, <1>b DEF Stop, CopyInv, Holding
<1> QED
  BY <1>1, <1>3, <1>4, <1>5, <1>6, <1>7, <1>8, <1>10, <1>11, <1>12, <1>13, <1>14, <1>15, <1>16, <1>17,
     <1>18, <1>19, <1>20
  DEF Next, OwnerStep, CleanupStep, StoreStep, EventStep, FaultStep

-----------------------------------------------------------------------------
(* The records                                                              *)

\* No step takes the record of a grant that was never removed and stays in the page, ends
\* it, or forgets what it has done and that it was seen.
LEMMA LiveStep ==
    ASSUME RestOK, StoreOK, JobInv, CopyInv, RecordInv, [Next]_vars,
           NEW h \in grants, h \notin back, h \in grants', guests[h] # "none"
    PROVE  guests'[h] = "active" /\ actions'[h] >= actions[h] /\ (h \in seen => h \in seen')
<1> USE DEF file, store, bounds
<1>0. /\ h \in Grants /\ h \notin over /\ guests[h] = "active" /\ h \notin due
      /\ actions[h] \in 0 .. MaxActions
  BY DEF RestOK, StoreOK, Fits, RecordInv, CopyInv
<1>a. CASE UNCHANGED <<guests, seen, actions>>
  BY <1>a, <1>0, ConstantsAssumption
<1>b. ASSUME NEW gone, NEW r, NEW d, NEW s, NEW a, NEW e, Without(gone, r, d, s, a, e),
             h \notin gone, r[h] = "active", h \in seen => h \in s, a[h] \in Nat, a[h] >= actions[h]
      PROVE  guests'[h] = "active" /\ actions'[h] >= actions[h] /\ (h \in seen => h \in seen')
  BY <1>b, <1>0 DEF Without
<1>c. actions[h] \in Nat /\ actions[h] >= actions[h]
  BY <1>0, ConstantsAssumption
<1>1. ASSUME NEW w \in Workers, OwnerStep(w) \/ CleanupStep(w) \/ FaultStep(w)
      PROVE  UNCHANGED <<guests, seen, actions>>
  BY <1>1 DEF OwnerStep, CleanupStep, FaultStep, CreateGrant, CommitGrant, Edit, EditDone, EditUndone,
              Revoke, ResetLists, ResetRevokes, DeletePage, View, Sweep, Expire, FailWipe, Fail
<1>2. ASSUME NEW w \in Workers, NEW g \in Grants, NEW o,
             Emit(w, g, o) \/ Notify(w, g) \/ RecordRefused(w, g)
      PROVE  UNCHANGED <<guests, seen, actions>>
  BY <1>2 DEF Emit, Notify, RecordRefused
<1>3. ASSUME NEW w \in Workers, Wipe(w) PROVE FALSE
  BY <1>3 DEF Wipe, JobInv
<1> DEFINE Kept == guests'[h] = "active" /\ actions'[h] >= actions[h] /\ (h \in seen => h \in seen')
<1>4. ASSUME NEW w \in Workers, NEW g \in Grants, Register(w, g) PROVE Kept
  <2>1. PICK r : r = [guests EXCEPT ![g] = IF @ = "none" THEN "active" ELSE @]
    OBVIOUS
  <2>2. Without(due, r, due, seen, actions, events)
    BY <1>4, <2>1 DEF Register, RegisterGuest, Commit
  <2>3. r[h] = "active"
    BY <2>1, <1>0 DEF StoreOK, Fits
  <2> QED
    BY <2>2, <2>3, <1>0, <1>b, <1>c
<1>5. ASSUME NEW w \in Workers, NEW g \in Grants, Mark(w, g) PROVE Kept
  <2>0. h # g
    BY <1>5, <1>0 DEF Mark, JobInv, Ending
  <2>1. PICK long, e : long \in BOOLEAN /\ MarkRevoked(g, long, e)
    BY <1>5 DEF Mark
  <2>2. PICK r, d : r = [guests EXCEPT ![g] = "ended"] /\ d = IF long THEN due \union {g} ELSE due
    OBVIOUS
  <2>3. Without(d, r, d, seen, actions, e)
    BY <2>1, <2>2 DEF MarkRevoked, Commit
  <2>4. r[h] = "active" /\ h \notin d
    BY <2>0, <2>2, <1>0 DEF StoreOK, Fits
  <2> QED
    BY <2>3, <2>4, <1>0, <1>b, <1>c
<1>6. ASSUME NEW w \in Workers, NEW g \in Grants, InitialAccess(w, g) PROVE Kept
  <2>1. PICK s : Without(due, guests, due, s, actions, events) /\ seen \subseteq s
    BY <1>6 DEF InitialAccess, Commit
  <2> QED
    BY <2>1, <1>0, <1>b, <1>c
<1>7. ASSUME NEW w \in Workers, NEW g \in Grants, RecordAction(w, g) PROVE Kept
  <2>1. PICK a : a = [actions EXCEPT ![g] = IF @ < MaxActions THEN @ + 1 ELSE @]
    OBVIOUS
  <2>2. Without(due, guests, due, seen, a, events)
    BY <1>7, <2>1 DEF RecordAction, Commit
  <2>3. a[h] \in Nat /\ a[h] >= actions[h]
    BY <2>1, <1>0, <1>c, ConstantsAssumption DEF StoreOK, Fits
  <2> QED
    BY <2>2, <2>3, <1>0, <1>b
<1>8. ASSUME NEW w \in Workers, NEW g \in Grants, RecordSecurityEvent(w, g) PROVE Kept
  <2>1. PICK e : Without(due, guests, due, seen, actions, e)
    BY <1>8 DEF RecordSecurityEvent, Commit
  <2> QED
    BY <2>1, <1>0, <1>b, <1>c
<1>9. ASSUME NEW g \in Grants, DeleteRevokedGuest(g) PROVE Kept
  <2>1. Without({g}, guests, due, seen, actions, events) /\ h # g
    BY <1>9, <1>0 DEF DeleteRevokedGuest
  <2> QED
    BY <2>1, <1>0, <1>b, <1>c
<1>10. CASE (\E g \in Grants : Elapse(g)) \/ CreatePage \/ EventsAge \/ Stop \/ UNCHANGED vars
  BY <1>10, <1>a DEF Elapse, CreatePage, EventsAge, Stop, vars
<1> QED
  BY <1>a, <1>1, <1>2, <1>3, <1>4, <1>5, <1>6, <1>7, <1>8, <1>9, <1>10
  DEF Next, StoreStep, EventStep

\* A record is ended only by a thread at work for it, and nothing runs out unless it was
\* ended for 30 days.
LEMMA RecordNext ==
    ASSUME RestOK, StoreOK, JobInv, RecordInv, [Next]_vars
    PROVE  RecordInv' /\ over \subseteq over'
<1> USE DEF file, store, bounds
<1>a. ASSUME UNCHANGED <<guests, due>>, over \subseteq over', forgets' = 0 => forgets = 0
      PROVE  RecordInv'
  BY <1>a DEF RecordInv
<1>b. ASSUME NEW gone, NEW r, NEW d, NEW s, NEW a, NEW e, Without(gone, r, d, s, a, e),
             over \subseteq over', \A g \in Grants : r[g] = "ended" => g \in over, d \subseteq gone
      PROVE  RecordInv'
  BY <1>b DEF Without, RecordInv
<1>c. \A g \in Grants : guests[g] = "ended" => g \in over
  BY DEF RecordInv
<1>1. ASSUME NEW w \in Workers, OwnerStep(w)
      PROVE  UNCHANGED <<guests, due>> /\ over \subseteq over' /\ (forgets' = 0 => forgets = 0)
  <2>1. CASE DeletePage(w)
    <3>1. forgets \in Nat /\ forgets' = forgets + 1
      BY <2>1 DEF DeletePage, RestOK
    <3>2. forgets' # 0
      BY <3>1
    <3> QED
      BY <2>1, <3>2 DEF DeletePage
  <2>2. CASE ~DeletePage(w)
    BY <1>1, <2>2 DEF OwnerStep, CreateGrant, CommitGrant, Edit, EditDone, EditUndone, Revoke, ResetLists,
                      ResetRevokes, View, Removes
  <2> QED
    BY <2>1, <2>2
<1>2. ASSUME NEW w \in Workers, CleanupStep(w) \/ FaultStep(w)
      PROVE  UNCHANGED <<guests, due>> /\ over \subseteq over' /\ forgets' = forgets
  BY <1>2 DEF CleanupStep, FaultStep, Sweep, Expire, Removes, FailWipe, Fail
<1>3. ASSUME NEW w \in Workers, NEW g \in Grants, NEW o,
             Emit(w, g, o) \/ Notify(w, g) \/ RecordRefused(w, g)
      PROVE  UNCHANGED <<guests, due, over, forgets>>
  BY <1>3 DEF Emit, Notify, RecordRefused
<1>4. ASSUME NEW w \in Workers, Wipe(w) PROVE RecordInv' /\ over \subseteq over'
  <2>1. Without(Grants, guests, due, seen, actions, events) /\ UNCHANGED over
    BY <1>4 DEF Wipe
  <2> QED
    BY <2>1, <1>b, <1>c DEF StoreOK, Fits
<1>5. ASSUME NEW w \in Workers, NEW g \in Grants, Register(w, g) PROVE RecordInv' /\ over \subseteq over'
  <2>1. PICK r : r = [guests EXCEPT ![g] = IF @ = "none" THEN "active" ELSE @]
    OBVIOUS
  <2>2. Without(due, r, due, seen, actions, events) /\ UNCHANGED over
    BY <1>5, <2>1 DEF Register, RegisterGuest, Commit
  <2>3. \A h \in Grants : r[h] = "ended" => h \in over
    BY <2>1, <1>c DEF StoreOK, Fits
  <2> QED
    BY <2>2, <2>3, <1>b
<1>6. ASSUME NEW w \in Workers, NEW g \in Grants, Mark(w, g) PROVE RecordInv' /\ over \subseteq over'
  <2>0. g \in over
    BY <1>6 DEF Mark, JobInv, Ending
  <2>1. PICK long, e : long \in BOOLEAN /\ MarkRevoked(g, long, e)
    BY <1>6 DEF Mark
  <2>2. PICK r, d : r = [guests EXCEPT ![g] = "ended"] /\ d = IF long THEN due \union {g} ELSE due
    OBVIOUS
  <2>3. Without(d, r, d, seen, actions, e) /\ UNCHANGED over
    BY <2>1, <2>2, <1>6 DEF MarkRevoked, Commit, Mark
  <2>4. \A h \in Grants : r[h] = "ended" => h \in over
    BY <2>0, <2>2, <1>c DEF StoreOK, Fits
  <2> QED
    BY <2>3, <2>4, <1>b
<1>7. ASSUME NEW w \in Workers, NEW g \in Grants,
             InitialAccess(w, g) \/ RecordAction(w, g) \/ RecordSecurityEvent(w, g)
      PROVE  RecordInv' /\ over \subseteq over'
  <2>1. PICK s, a, e : Without(due, guests, due, s, a, e) /\ UNCHANGED over
    BY <1>7 DEF InitialAccess, RecordAction, RecordSecurityEvent, Commit
  <2> QED
    BY <2>1, <1>b, <1>c
<1>8. ASSUME NEW g \in Grants, DeleteRevokedGuest(g) \/ Elapse(g) PROVE RecordInv' /\ over \subseteq over'
  <2>1. forgets' # 0 /\ UNCHANGED over
    BY <1>8 DEF DeleteRevokedGuest, Elapse, RestOK
  <2>2. \A h \in Grants : guests'[h] = "ended" => guests[h] = "ended"
    BY <1>8 DEF DeleteRevokedGuest, Elapse, Without
  <2> QED
    BY <2>1, <2>2, <1>c DEF RecordInv
<1>9. CASE CreatePage \/ EventsAge \/ Stop \/ UNCHANGED vars
  BY <1>9, <1>a DEF CreatePage, EventsAge, Stop, vars
<1> QED
  BY <1>a, <1>1, <1>2, <1>3, <1>4, <1>5, <1>6, <1>7, <1>8, <1>9
  DEF Next, StoreStep, EventStep

-----------------------------------------------------------------------------
(* The alert                                                                *)

\* A step that begins no alert, and brings no grant into the page, keeps AlertInv, because
\* what was seen stays seen.
LEMMA AlertKept ==
    ASSUME RestOK, StoreOK, JobInv, CopyInv, RecordInv, AlertInv, [Next]_vars,
           notified' = notified, grants' \ back' \subseteq grants \ back, back \subseteq back',
           grants \union over \subseteq grants' \union over',
           \A v \in Workers, g \in grants' : Alerts(v, g)' => Alerts(v, g)
    PROVE  AlertInv'
<1>1. ASSUME NEW g \in grants' \ back', g \in seen PROVE g \in seen'
  BY <1>1, LiveStep DEF RestOK, StoreOK, Fits
<1>2. AlertInv!1'
  BY DEF AlertInv
<1>3. AlertInv!2'
  BY <1>1 DEF AlertInv
<1>4. ASSUME NEW g \in grants' \ back', NEW w \in Workers, Alerts(w, g)'
      PROVE  g \in seen' /\ notified'[g] = 0 /\ \A v \in Workers : Alerts(v, g)' => v = w
  BY <1>1, <1>4 DEF AlertInv
<1> QED
  BY <1>2, <1>3, <1>4 DEF AlertInv

\* Every step keeps that there is at most one alert for a grant.
LEMMA AlertNext ==
    ASSUME RestOK, StoreOK, JobInv, CopyInv, RecordInv, AlertInv, [Next]_vars
    PROVE  AlertInv'
<1> USE DEF file, store, bounds
<1>0. RestOK'
  BY RestNext
<1>a. \A g : Idle # Job("notify", {g})
  BY DEF Idle, Job
<1>b. \A o, x, g : o # "notify" => Job(o, x) # Job("notify", {g})
  BY DEF Job
<1>c. ASSUME NEW w \in Workers, NEW x, job' = [job EXCEPT ![w] = x], \A g : x # Job("notify", {g})
      PROVE  \A v \in Workers, g \in Grants : Alerts(v, g)' => Alerts(v, g)
  BY <1>c DEF Alerts, RestOK
<1>d. grants' \subseteq Grants
  BY <1>0 DEF RestOK
<1>e. ASSUME NEW w \in Workers, NEW x, job' = [job EXCEPT ![w] = x], \A g : x # Job("notify", {g}),
             notified' = notified, grants' \ back' \subseteq grants \ back, back \subseteq back',
             grants \union over \subseteq grants' \union over'
      PROVE  AlertInv'
  <2>1. \A v \in Workers, g \in Grants : Alerts(v, g)' => Alerts(v, g)
    BY <1>c, <1>e
  <2> QED
    BY <2>1, <1>d, <1>e, AlertKept
<1>f. ASSUME NEW w \in Workers, NEW s, Continues(w, s), s = {} \/ job[w].op # "notify",
             UNCHANGED <<file, notified>>
      PROVE  AlertInv'
  <2>1. PICK x : x = IF s = {} THEN Idle ELSE Job(job[w].op, s)
    OBVIOUS
  <2>2. job' = [job EXCEPT ![w] = x]
    BY <1>f, <2>1 DEF Continues
  <2>3. \A g : x # Job("notify", {g})
    BY <1>f, <2>1, <1>a, <1>b
  <2> QED
    BY <2>2, <2>3, <1>e, <1>f
<1>1. ASSUME NEW w \in Workers, NEW g \in Grants, CommitGrant(w, g) PROVE AlertInv'
  <2>0. job[w].op = "create" /\ job[w].todo = {g}
    BY <1>1 DEF CommitGrant, Job
  <2>1. /\ job' = [job EXCEPT ![w] = Job("register", {g})] /\ grants' \ back' \subseteq (grants \ back) \union {g}
        /\ back \subseteq back' /\ grants \subseteq grants' /\ g \in grants'
        /\ g \notin grants \union over /\ g \notin back /\ UNCHANGED <<over, seen, notified>>
    <3>1. g \notin grants \union over
      BY <2>0 DEF JobInv
    <3>2. back \subseteq over /\ grants \subseteq copy
      BY <2>0 DEF CopyInv, Holding
    <3>3. /\ job' = [job EXCEPT ![w] = Job("register", {g})] /\ UNCHANGED <<over, seen, notified>>
          /\ grants' = copy \union {g} /\ back' = back \union (copy \ grants)
      BY <1>1 DEF CommitGrant, WritesBack
    <3> QED
      BY <3>1, <3>2, <3>3
  <2>2. \A v \in Workers, h \in Grants : Alerts(v, h)' => Alerts(v, h)
    BY <2>1, <1>b, <1>c
  <2>3. notified[g] = 0 /\ \A v \in Workers : ~Alerts(v, g)
    <3>1. notified[g] = 0
      BY <2>1 DEF AlertInv
    <3>2. \A v \in Workers : job[v].op # "create" => g \notin job[v].todo
      BY <2>1 DEF JobInv
    <3> QED
      BY <3>1, <3>2 DEF Alerts, Job
  <2>4. AlertInv!1' /\ AlertInv!2'
    BY <2>1, <2>3 DEF AlertInv
  <2>5. ASSUME NEW h \in grants' \ back', NEW v \in Workers, Alerts(v, h)'
        PROVE  h \in seen' /\ notified'[h] = 0 /\ \A u \in Workers : Alerts(u, h)' => u = v
    <3>1. h \in grants \ back /\ Alerts(v, h)
      BY <2>1, <2>2, <2>3, <2>5, <1>d
    <3> QED
      BY <2>1, <2>2, <3>1, <1>d DEF AlertInv
  <2> QED
    BY <2>4, <2>5 DEF AlertInv
<1>2. ASSUME NEW w \in Workers, NEW s \in SUBSET grants, Revoke(w, s) \/ Sweep(w, s) \/ Expire(w, s)
      PROVE  AlertInv'
  <2>1. PICK o \in {"mark", "sweep", "expire"} :
           /\ job' = [job EXCEPT ![w] = Job(o, s)]
           /\ grants' = grants \ s /\ over' = over \union s /\ UNCHANGED <<back, notified>>
    BY <1>2 DEF Revoke, Sweep, Expire, Removes, Starts
  <2> QED
    BY <2>1, <1>b, <1>e
<1>3. ASSUME NEW w \in Workers, DeletePage(w) PROVE AlertInv'
  <2>1. PICK o \in {"wipe", "delete"} :
           /\ job' = [job EXCEPT ![w] = Job(o, grants)]
           /\ grants' = {} /\ over' = over \union grants /\ UNCHANGED <<back, notified>>
    BY <1>3 DEF DeletePage, Starts
  <2> QED
    BY <2>1, <1>b, <1>e
<1>g. ASSUME NEW w \in Workers, ResetRevokes(w) PROVE AlertInv'
  <2>1. PICK x : /\ job' = [job EXCEPT ![w] = x] /\ (x = Idle \/ x = Job("mark", grants))
                 /\ grants' = {} /\ over' = over \union grants /\ UNCHANGED <<back, notified>>
    BY <1>g DEF ResetRevokes
  <2> QED
    BY <2>1, <1>a, <1>b, <1>e
<1>h. ASSUME NEW w \in Workers, EditUndone(w) PROVE AlertInv'
  <2>1. /\ job' = [job EXCEPT ![w] = Idle] /\ job[w].op = "edit" /\ UNCHANGED <<over, notified>>
        /\ grants' = copy /\ back' = back \union (copy \ grants)
    BY <1>h DEF EditUndone, Continues, WritesBack
  <2>2. grants \subseteq copy
    BY <2>1 DEF CopyInv, Holding
  <2>3. /\ grants' \ back' \subseteq grants \ back /\ back \subseteq back'
        /\ grants \union over \subseteq grants' \union over'
    BY <2>1, <2>2
  <2> QED
    BY <2>1, <2>3, <1>a, <1>e
<1>i. ASSUME NEW w \in Workers, EditDone(w) PROVE AlertInv'
  BY <1>i, <1>f DEF EditDone
<1>j. ASSUME NEW w \in Workers, Edit(w) \/ ResetLists(w) \/ \E g \in Grants : CreateGrant(w, g)
      PROVE  AlertInv'
  <2>1. PICK o, s : /\ job' = [job EXCEPT ![w] = Job(o, s)] /\ o # "notify"
                    /\ UNCHANGED <<file, notified>>
    BY <1>j DEF Edit, ResetLists, CreateGrant, Starts
  <2> QED
    BY <2>1, <1>b, <1>e
<1>4. ASSUME NEW w \in Workers, View(w) PROVE AlertInv'
  <2>1. job' = [job EXCEPT ![w] = Job("register", grants)] /\ UNCHANGED <<file, notified>>
    BY <1>4 DEF View, Starts
  <2> QED
    BY <2>1, <1>b, <1>e
<1>5. ASSUME NEW w \in Workers, NEW g \in Grants, NEW o \in {"initial", "success", "failed", "event"},
             Emit(w, g, o)
      PROVE  AlertInv'
  <2>1. job' = [job EXCEPT ![w] = Job(o, {g})] /\ UNCHANGED <<file, notified>>
    BY <1>5 DEF Emit, Starts
  <2> QED
    BY <2>1, <1>b, <1>e
<1>6. ASSUME NEW w \in Workers, NEW g \in Grants, Register(w, g) PROVE AlertInv'
  BY <1>6, <1>f DEF Register
<1>7. ASSUME NEW w \in Workers, NEW g \in Grants, Mark(w, g) PROVE AlertInv'
  <2>1. CASE Continues(w, job[w].todo \ {g})
    BY <1>7, <2>1, <1>f DEF Mark
  <2>2. CASE job' = [job EXCEPT ![w] = Job("wipe", {})]
    <3>1. UNCHANGED <<file, notified>>
      BY <1>7 DEF Mark
    <3> QED
      BY <2>2, <3>1, <1>b, <1>e
  <2> QED
    BY <1>7, <2>1, <2>2 DEF Mark
<1>8. ASSUME NEW w \in Workers, Wipe(w) \/ FailWipe(w) PROVE AlertInv'
  BY <1>8, <1>f DEF Wipe, FailWipe
<1>9. ASSUME NEW w \in Workers, NEW g \in Grants,
             RecordAction(w, g) \/ RecordSecurityEvent(w, g) \/ RecordRefused(w, g)
      PROVE  AlertInv'
  <2>1. PICK x \in {Idle, Job("event", {g})} : job' = [job EXCEPT ![w] = x]
    BY <1>9 DEF RecordAction, RecordSecurityEvent, RecordRefused
  <2>2. UNCHANGED <<file, notified>>
    BY <1>9 DEF RecordAction, RecordSecurityEvent, RecordRefused
  <2> QED
    BY <2>1, <2>2, <1>a, <1>b, <1>e
<1>10. ASSUME NEW w \in Workers, NEW g \in Grants, InitialAccess(w, g) PROVE AlertInv'
  <2>0. UNCHANGED <<file, notified>>
    BY <1>10 DEF InitialAccess
  <2>1. CASE ~(guests[g] # "none" /\ g \notin seen)
    <3>1. job' = [job EXCEPT ![w] = Idle]
      BY <1>10, <2>1 DEF InitialAccess
    <3> QED
      BY <2>0, <3>1, <1>a, <1>e
  <2>2. CASE guests[g] # "none" /\ g \notin seen
    <3>1. job' = [job EXCEPT ![w] = Job("notify", {g})] /\ seen' = (seen \union {g}) \ due
      BY <1>10, <2>2 DEF InitialAccess, Commit, Without
    <3>2. \A v \in Workers, h \in Grants : Alerts(v, h)' => Alerts(v, h) \/ (v = w /\ h = g)
      <4>1. \A h : Job("notify", {g}) = Job("notify", {h}) => h = g
        BY DEF Job
      <4> QED
        BY <3>1, <4>1 DEF Alerts, RestOK
    <3>3. \A h \in grants \ back : h \notin due
      BY DEF RecordInv, CopyInv, RestOK, StoreOK, Fits
    <3>4. g \in grants \ back => notified[g] = 0 /\ \A v \in Workers : ~Alerts(v, g)
      <4>1. g \in grants \ back => notified[g] # 1 /\ notified[g] \in Nat /\ notified[g] <= 1
        BY <2>2 DEF AlertInv, RestOK
      <4>2. g \in grants \ back => \A v \in Workers : ~Alerts(v, g)
        BY <2>2 DEF AlertInv
      <4> QED
        BY <4>1, <4>2
    <3>5. AlertInv!1' /\ AlertInv!2'
      BY <2>0, <3>1, <3>3 DEF AlertInv
    <3>6. ASSUME NEW h \in grants' \ back', NEW v \in Workers, Alerts(v, h)'
          PROVE  h \in seen' /\ notified'[h] = 0 /\ \A u \in Workers : Alerts(u, h)' => u = v
      <4>0. h \in grants \ back /\ h \in Grants /\ h \notin due /\ notified' = notified
        BY <2>0, <3>3 DEF RestOK
      <4>1. CASE h = g
        <5>1. v = w
          BY <3>2, <3>4, <3>6, <4>0, <4>1
        <5> QED
          BY <3>1, <3>2, <3>4, <4>0, <4>1, <5>1
      <4>2. CASE h # g
        <5>1. Alerts(v, h)
          BY <3>2, <3>6, <4>0, <4>2
        <5>2. h \in seen /\ notified[h] = 0 /\ \A u \in Workers : Alerts(u, h) => u = v
          BY <4>0, <5>1 DEF AlertInv
        <5> QED
          BY <3>1, <3>2, <4>0, <4>2, <5>2
      <4> QED
        BY <4>1, <4>2
    <3> QED
      BY <3>5, <3>6 DEF AlertInv
  <2> QED
    BY <2>1, <2>2
<1>11. ASSUME NEW w \in Workers, NEW g \in Grants, Notify(w, g) PROVE AlertInv'
  <2>1. /\ job' = [job EXCEPT ![w] = Idle] /\ UNCHANGED <<file, seen>> /\ Alerts(w, g)
        /\ notified' = [notified EXCEPT ![g] = IF g \in grants THEN @ + 1 ELSE @]
    BY <1>11 DEF Notify, Continues, Alerts
  <2>2. \A v \in Workers, h \in Grants : Alerts(v, h)' => Alerts(v, h) /\ v # w
    BY <2>1, <1>a DEF Alerts, RestOK
  <2>3. CASE g \notin grants
    <3>1. notified' = notified
      BY <2>1, <2>3 DEF RestOK
    <3> QED
      BY <2>1, <2>2, <3>1, <1>d, AlertKept
  <2>5. CASE g \in grants /\ g \in back
    <3>1. \A h \in Grants \ back : h # g /\ notified'[h] = notified[h]
      BY <2>1, <2>5 DEF RestOK
    <3>2. ASSUME NEW h \in grants' \ back', NEW v \in Workers, Alerts(v, h)'
          PROVE  h \in seen' /\ notified'[h] = 0 /\ \A u \in Workers : Alerts(u, h)' => u = v
      <4>1. Alerts(v, h) /\ h \in grants \ back /\ h \in Grants
        BY <2>1, <2>2, <3>2, <1>d
      <4> QED
        BY <2>1, <2>2, <3>1, <4>1 DEF AlertInv
    <3>3. AlertInv!1' /\ AlertInv!2'
      BY <2>1, <3>1 DEF AlertInv, RestOK
    <3> QED
      BY <3>2, <3>3 DEF AlertInv
  <2>4. CASE g \in grants /\ g \notin back
    <3>1. notified[g] = 0 /\ g \in seen /\ \A v \in Workers : Alerts(v, g) => v = w
      BY <2>1, <2>4 DEF AlertInv
    <3>2. notified'[g] = 1 /\ \A h \in Grants \ {g} : notified'[h] = notified[h]
      BY <2>1, <2>4, <3>1 DEF RestOK
    <3>3. AlertInv!1' /\ AlertInv!2'
      BY <2>1, <2>4, <3>1, <3>2 DEF AlertInv, RestOK
    <3>4. ASSUME NEW h \in grants' \ back', NEW v \in Workers, Alerts(v, h)'
          PROVE  h \in seen' /\ notified'[h] = 0 /\ \A u \in Workers : Alerts(u, h)' => u = v
      <4>1. Alerts(v, h) /\ v # w /\ h \in grants \ back /\ h \in Grants
        BY <2>1, <2>2, <3>4, <1>d
      <4>2. h # g
        BY <3>1, <4>1
      <4> QED
        BY <2>1, <2>2, <3>2, <4>1, <4>2 DEF AlertInv
    <3> QED
      BY <3>3, <3>4 DEF AlertInv
  <2> QED
    BY <2>3, <2>4, <2>5
<1>12. ASSUME NEW w \in Workers, NEW g \in Grants, Fail(w, g) PROVE AlertInv'
  <2>1. PICK left :
           /\ left = {} \/ job[w].op # "notify"
           /\ Continues(w, left) \/ job' = [job EXCEPT ![w] = Job("wipe", {})]
    BY <1>12 DEF Fail
  <2>2. UNCHANGED <<file, notified>>
    BY <1>12 DEF Fail
  <2>3. CASE Continues(w, left)
    BY <2>1, <2>2, <2>3, <1>f
  <2>4. CASE job' = [job EXCEPT ![w] = Job("wipe", {})]
    BY <2>2, <2>4, <1>b, <1>e
  <2> QED
    BY <2>1, <2>3, <2>4
<1>13. ASSUME NEW g \in Grants, DeleteRevokedGuest(g) \/ Elapse(g) PROVE AlertInv'
  BY <1>13, AlertKept DEF DeleteRevokedGuest, Elapse, Alerts
<1>14. CASE CreatePage \/ EventsAge \/ UNCHANGED vars
  BY <1>14, AlertKept DEF CreatePage, EventsAge, vars, Alerts
<1>15. CASE Stop
  BY <1>15, <1>a, AlertKept DEF Stop, Alerts
<1> QED
  BY <1>1, <1>2, <1>3, <1>4, <1>5, <1>6, <1>7, <1>8, <1>9, <1>10, <1>11, <1>12, <1>13, <1>14, <1>15,
     <1>g, <1>h, <1>i, <1>j
  DEF Next, OwnerStep, CleanupStep, StoreStep, EventStep, FaultStep

-----------------------------------------------------------------------------
(* The move to the ended guests                                             *)

\* Whether a thread is about to end the record of g.
Ends(w, g) == job[w].op \in Ending /\ g \in job[w].todo

\* Without faults, and unless records are forgotten, nothing un-ends a record, and a thread
\* that has it to end does so before it is done with it.
LEMMA MoveNext ==
    ASSUME RestOK, StoreOK, JobInv, RecordInv, MoveInv, [Next]_vars
    PROVE  MoveInv'
<1> USE DEF file, store, bounds
<1>0. RestOK' /\ faults \in Nat /\ forgets \in Nat
  BY RestNext DEF RestOK
<1> SUFFICES ASSUME faults' = 0, forgets' = 0, NEW h \in over',
                    ~(guests'[h] = "ended"), \A w \in Workers : ~Ends(w, h)'
             PROVE  FALSE
  BY DEF MoveInv, Ends
<1>h. h \in Grants
  BY <1>0 DEF RestOK
<1>a. Idle.op = "idle" /\ Idle.todo = {} /\ \A o, x : Job(o, x).op = o /\ Job(o, x).todo = x
  BY DEF Idle, Job
<1>b. "idle" \notin Ending /\ "register" \notin Ending /\ "initial" \notin Ending /\ "notify" \notin Ending
      /\ "success" \notin Ending /\ "failed" \notin Ending /\ "event" \notin Ending /\ "wipe" \notin Ending
      /\ "create" \notin Ending /\ "edit" \notin Ending /\ "reset" \notin Ending
      /\ "mark" \in Ending /\ "sweep" \in Ending /\ "expire" \in Ending
  BY DEF Ending
\* The step is no fault and forgets nothing, so that before it h was ended, or was about to be.
<1>c. ASSUME h \in over, faults = 0, forgets = 0,
             guests[h] = "ended" => guests'[h] = "ended",
             \A w \in Workers : Ends(w, h) => Ends(w, h)' \/ guests'[h] = "ended"
      PROVE  FALSE
  BY <1>c DEF MoveInv, Ends
<1>d. ASSUME NEW w \in Workers, NEW x, job' = [job EXCEPT ![w] = x], ~Ends(w, h)
      PROVE  \A v \in Workers : Ends(v, h) => Ends(v, h)'
  BY <1>d DEF Ends, RestOK
<1>e. ASSUME NEW w \in Workers, NEW o, NEW s, Starts(w, o, s), UNCHANGED <<guests, bounds>>,
             over' \subseteq over \union s, over' \subseteq over \/ o \in Ending
      PROVE  FALSE
  <2>1. job' = [job EXCEPT ![w] = Job(o, s)] /\ ~Ends(w, h)
    BY <1>e, <1>a, <1>b DEF Starts, Ends
  <2>2. \A v \in Workers : Ends(v, h) => Ends(v, h)'
    BY <2>1, <1>d
  <2>3. CASE h \in over
    BY <1>c, <1>e, <2>2, <2>3
  <2>4. CASE h \notin over
    <3>1. h \in s /\ o \in Ending
      BY <1>e, <2>4
    <3>2. Ends(w, h)'
      BY <2>1, <3>1, <1>a DEF Ends, RestOK
    <3> QED
      BY <3>2
  <2> QED
    BY <2>3, <2>4
<1>1. ASSUME NEW w \in Workers, Edit(w) \/ ResetLists(w) \/ \E g \in Grants : CreateGrant(w, g) PROVE FALSE
  BY <1>1, <1>e DEF Edit, ResetLists, CreateGrant
<1>g. ASSUME NEW w \in Workers, EditDone(w) \/ EditUndone(w) \/ \E g \in Grants : CommitGrant(w, g) PROVE FALSE
  <2>1. ~Ends(w, h) /\ UNCHANGED <<over, guests, bounds>> /\ \E x : job' = [job EXCEPT ![w] = x]
    <3>1. CASE EditDone(w) \/ EditUndone(w)
      BY <3>1, <1>b DEF EditDone, EditUndone, Continues, Ends
    <3>2. CASE \E g \in Grants : CommitGrant(w, g)
      <4>1. PICK g \in Grants : CommitGrant(w, g)
        BY <3>2
      <4>2. job[w].op = "create" /\ UNCHANGED <<over, guests, bounds>>
        BY <4>1, <1>a DEF CommitGrant
      <4>3. job' = [job EXCEPT ![w] = Job("register", {g})]
        BY <4>1 DEF CommitGrant
      <4> QED
        BY <4>2, <4>3, <1>b DEF Ends
    <3> QED
      BY <1>g, <3>1, <3>2
  <2>2. \A v \in Workers : Ends(v, h) => Ends(v, h)'
    BY <2>1, <1>d
  <2> QED
    BY <2>1, <2>2, <1>c
<1>i. ASSUME NEW w \in Workers, ResetRevokes(w) PROVE FALSE
  <2>1. ~Ends(w, h) /\ over' = over \union grants /\ UNCHANGED <<guests, bounds>>
    BY <1>i, <1>b DEF ResetRevokes, Ends
  <2>2. job' = [job EXCEPT ![w] = IF grants = {} THEN Idle ELSE Job("mark", grants)]
    BY <1>i DEF ResetRevokes
  <2>3. CASE h \in over
    BY <2>1, <2>2, <2>3, <1>c, <1>d
  <2>4. CASE h \notin over
    <3>1. h \in grants /\ job'[w] = Job("mark", grants)
      BY <2>1, <2>2, <2>4 DEF RestOK
    <3> QED
      BY <3>1, <1>a, <1>b DEF Ends
  <2> QED
    BY <2>3, <2>4
<1>2. ASSUME NEW w \in Workers, NEW s \in SUBSET grants, Revoke(w, s) \/ Sweep(w, s) \/ Expire(w, s)
      PROVE  FALSE
  <2>1. UNCHANGED <<guests, bounds>> /\ over' = over \union s /\ \E o \in Ending : Starts(w, o, s)
    BY <1>2, <1>b DEF Revoke, Sweep, Expire, Removes
  <2> QED
    BY <2>1, <1>e
<1>3. ASSUME NEW w \in Workers, DeletePage(w) PROVE FALSE
  BY <1>3, <1>0 DEF DeletePage
<1>4. ASSUME NEW w \in Workers, View(w) PROVE FALSE
  BY <1>4, <1>e DEF View
<1>5. ASSUME NEW w \in Workers, NEW g \in Grants, NEW o, Emit(w, g, o) PROVE FALSE
  BY <1>5, <1>e DEF Emit
\* Every transaction of the store keeps what is ended: nothing is due.
<1>f. ASSUME UNCHANGED bounds, NEW r, NEW s, NEW a, NEW e, Without(due, r, due, s, a, e),
             r[h] = guests[h] \/ guests[h] # "ended"
      PROVE  guests[h] = "ended" => guests'[h] = "ended"
  <2>1. due = {}
    BY <1>f DEF RecordInv
  <2> QED
    BY <1>f, <1>h, <2>1 DEF Without
<1>6. ASSUME NEW w \in Workers, NEW g \in Grants, Register(w, g) PROVE FALSE
  <2>1. PICK r : r = [guests EXCEPT ![g] = IF @ = "none" THEN "active" ELSE @]
    OBVIOUS
  <2>2. Without(due, r, due, seen, actions, events) /\ UNCHANGED <<over, bounds>>
    BY <1>6, <2>1 DEF Register, RegisterGuest, Commit
  <2>3. r[h] = guests[h] \/ guests[h] # "ended"
    BY <2>1, <1>h DEF StoreOK, Fits
  <2>4. guests[h] = "ended" => guests'[h] = "ended"
    BY <2>2, <2>3, <1>f
  <2>5. ~Ends(w, h) /\ \E x : job' = [job EXCEPT ![w] = x]
    BY <1>6, <1>b DEF Register, Continues, Ends
  <2>6. \A v \in Workers : Ends(v, h) => Ends(v, h)'
    BY <2>5, <1>d
  <2> QED
    BY <2>2, <2>4, <2>6, <1>c
<1>7. ASSUME NEW w \in Workers, NEW g \in Grants, Mark(w, g) PROVE FALSE
  <2>1. PICK long, e : long \in BOOLEAN /\ MarkRevoked(g, long, e) /\ forgets' = forgets + (IF long THEN 1 ELSE 0)
    BY <1>7 DEF Mark
  <2>2. ~long /\ UNCHANGED <<over, bounds>>
    BY <1>7, <2>1, <1>0 DEF Mark
  <2>3. PICK r : r = [guests EXCEPT ![g] = "ended"]
    OBVIOUS
  <2>4. Without(due, r, due, seen, actions, e)
    BY <2>1, <2>2, <2>3 DEF MarkRevoked, Commit
  <2>5. (r[h] = guests[h] \/ guests[h] # "ended") /\ (h = g => r[h] = "ended")
    BY <2>3, <1>h DEF StoreOK, Fits
  <2>6. due = {}
    BY <2>2 DEF RecordInv
  <2>7. guests'[h] = r[h]
    BY <2>4, <2>6, <1>h DEF Without
  <2>8. guests[h] = "ended" => guests'[h] = "ended"
    BY <2>2, <2>4, <2>5, <1>f
  <2>9. h # g
    BY <2>5, <2>7
  <2>10. job[w].op # "delete"
    BY <2>2 DEF JobInv
  <2>11. Continues(w, job[w].todo \ {g})
    BY <1>7, <2>10 DEF Mark
  <2>12. ASSUME NEW v \in Workers, Ends(v, h) PROVE Ends(v, h)'
    <3>1. CASE v # w
      BY <2>11, <2>12, <3>1 DEF Continues, Ends, RestOK
    <3>2. CASE v = w
      <4>1. h \in job[w].todo \ {g}
        BY <2>9, <2>12, <3>2 DEF Ends
      <4>2. job'[w] = Job(job[w].op, job[w].todo \ {g})
        BY <2>11, <4>1 DEF Continues, RestOK
      <4> QED
        BY <2>12, <3>2, <4>1, <4>2, <1>a DEF Ends
    <3> QED
      BY <3>1, <3>2
  <2> QED
    BY <2>2, <2>8, <2>12, <1>c
<1>8. ASSUME NEW w \in Workers, Wipe(w) PROVE FALSE
  <2>1. forgets' = forgets /\ job[w].op = "wipe"
    BY <1>8 DEF Wipe
  <2> QED
    BY <2>1 DEF JobInv
<1>9. ASSUME NEW w \in Workers, NEW g \in Grants,
             InitialAccess(w, g) \/ RecordAction(w, g) \/ RecordSecurityEvent(w, g)
      PROVE  FALSE
  <2>1. PICK s, a, e : Without(due, guests, due, s, a, e) /\ UNCHANGED <<over, bounds>>
    BY <1>9 DEF InitialAccess, RecordAction, RecordSecurityEvent, Commit
  <2>2. guests[h] = "ended" => guests'[h] = "ended"
    BY <2>1, <1>f
  <2>3. ~Ends(w, h) /\ \E x : job' = [job EXCEPT ![w] = x]
    BY <1>9, <1>a, <1>b DEF InitialAccess, RecordAction, RecordSecurityEvent, Ends
  <2>4. \A v \in Workers : Ends(v, h) => Ends(v, h)'
    BY <2>3, <1>d
  <2> QED
    BY <2>1, <2>2, <2>4, <1>c
<1>10. ASSUME NEW w \in Workers, NEW g \in Grants, Notify(w, g) \/ RecordRefused(w, g) PROVE FALSE
  <2>1. UNCHANGED <<over, guests, bounds>>
    BY <1>10 DEF Notify, RecordRefused
  <2>2. ~Ends(w, h) /\ \E x : job' = [job EXCEPT ![w] = x]
    BY <1>10, <1>a, <1>b DEF Notify, Continues, RecordRefused, Ends
  <2>3. \A v \in Workers : Ends(v, h) => Ends(v, h)'
    BY <2>2, <1>d
  <2> QED
    BY <2>1, <2>3, <1>c
<1>11. ASSUME NEW w \in Workers, FaultStep(w) PROVE FALSE
  <2>1. faults' = faults + 1
    BY <1>11 DEF FaultStep, Fail, FailWipe
  <2> QED
    BY <2>1, <1>0
<1>12. ASSUME NEW g \in Grants, DeleteRevokedGuest(g) \/ Elapse(g) PROVE FALSE
  BY <1>12, <1>0 DEF DeleteRevokedGuest, Elapse
<1>13. CASE CreatePage \/ EventsAge \/ UNCHANGED vars
  <2>1. UNCHANGED <<over, guests, job, bounds>>
    BY <1>13 DEF CreatePage, EventsAge, vars
  <2>2. \A v \in Workers : Ends(v, h) => Ends(v, h)'
    BY <2>1 DEF Ends
  <2> QED
    BY <2>1, <2>2, <1>c
<1>14. CASE Stop
  BY <1>14, <1>0 DEF Stop
<1> QED
  BY <1>1, <1>2, <1>3, <1>4, <1>5, <1>6, <1>7, <1>8, <1>9, <1>10, <1>11, <1>12, <1>13, <1>14,
     <1>g, <1>i
  DEF Next, OwnerStep, CleanupStep, StoreStep, EventStep

-----------------------------------------------------------------------------
\* The inductive invariant holds of every behaviour.
THEOREM Inductive == Spec => []IInv
<1>1. Init => IInv
  <2> SUFFICES ASSUME Init PROVE IInv
    OBVIOUS
  <2>0. Idle \in Jobs /\ Idle.op = "idle" /\ Idle.todo = {} /\ \A g : Idle # Job("notify", {g})
    BY DEF Idle, Jobs, Job, Ops
  <2>1. RestOK
    BY <2>0, ConstantsAssumption DEF Init, RestOK
  <2>2. StoreOK
    <3>1. <<>> \in Seq(Grants) /\ Len(<<>>) <= MaxEvents /\ DOMAIN <<>> = {}
      BY ConstantsAssumption
    <3>2. 0 \in 0 .. MaxActions
      BY ConstantsAssumption
    <3> QED
      BY <3>1, <3>2 DEF Init, StoreOK, Fits
  <2>3. JobInv
    BY <2>0 DEF Init, JobInv, Ending
  <2>6. CopyInv
    BY <2>0 DEF Init, CopyInv, Holding
  <2>4. RecordInv /\ MoveInv
    BY DEF Init, RecordInv, MoveInv
  <2>5. AlertInv
    BY <2>0 DEF Init, AlertInv, Alerts
  <2> QED
    BY <2>1, <2>2, <2>3, <2>4, <2>5, <2>6, TypeParts DEF IInv
<1>2. IInv /\ [Next]_vars => IInv'
  <2> SUFFICES ASSUME IInv, [Next]_vars PROVE IInv'
    OBVIOUS
  <2>1. RestOK /\ StoreOK /\ JobInv /\ CopyInv /\ RecordInv /\ AlertInv /\ MoveInv
    BY TypeParts DEF IInv
  <2>2. RestOK' /\ StoreOK'
    BY <2>1, RestNext, StoreNext DEF IInv
  <2>3. JobInv' /\ CopyInv' /\ RecordInv' /\ AlertInv' /\ MoveInv'
    BY <2>1, JobNext, CopyNext, RecordNext, AlertNext, MoveNext
  <2>4. TypeOK'
    BY <2>2 DEF RestOK, StoreOK, Fits, Jobs, TypeOK
  <2>5. HistoryOwned'
    BY <2>2, <2>4 DEF TypeOK, StoreOK, Fits, HistoryOwned, Contains
  <2> QED
    BY <2>3, <2>4, <2>5 DEF IInv
<1> QED
  BY <1>1, <1>2, PTL DEF Spec

\* The types of the tables, the page and the threads; no table outgrows its limit.
THEOREM TypeCorrect == Spec => []TypeOK
<1>1. IInv => TypeOK
  BY DEF IInv
<1> QED
  BY <1>1, Inductive, PTL

\* However many threads carry out reports of a guest's first login, and whatever becomes of
\* its record meanwhile, the owner gets one alert (activity.py,
\* record_registered_initial_access), unless a stale copy of the page brought the grant back.
THEOREM OneAlertPerGuest == Spec => []NotifiedOnce
<1>1. IInv => NotifiedOnce
  BY DEF IInv, AlertInv, NotifiedOnce
<1> QED
  BY <1>1, Inductive, PTL

\* No row of the actions or of the security events is without the record of its guest,
\* whichever order reports, deletions and purges come in (activity.py, ON DELETE CASCADE).
THEOREM EveryRowOwned == Spec => []HistoryOwned
<1>1. IInv => HistoryOwned
  BY DEF IInv
<1> QED
  BY <1>1, Inductive, PTL

\* Without a fault, and unless records were deleted or ran out, no guest whose access is
\* over is listed as active once the threads are done (server.py, admin.py, mark_revoked).
THEOREM EndedGuestsMoved == Spec => []EndedMoved
<1>1. IInv => EndedMoved
  <2>1. Idle.op \notin Ending
    BY DEF Idle, Ending
  <2> QED
    BY <2>1 DEF IInv, MoveInv, EndedMoved
<1> QED
  BY <1>1, Inductive, PTL

\* No step takes, ends or shortens the record of a guest who has access before and after it,
\* unless a stale copy of the page brought the grant back (server.py:943, 1179, 1186).
THEOREM LiveRecordsKept == Spec => LiveRecordKept
<1>1. IInv /\ [Next]_vars =>
        [\A g \in (grants \intersect grants') \ back :
            guests[g] # "none" => guests'[g] = "active" /\ actions'[g] >= actions[g]]_vars
  BY LiveStep, TypeParts DEF IInv
<1> QED
  BY <1>1, Inductive, PTL DEF Spec, LiveRecordKept
=============================================================================
