-------------------------- MODULE EndpointsProofs --------------------------
(* Proofs about Endpoints: every UID has one owner, so that no route leads to *)
(* the endpoint of another page, and every endpoint holds its capability.     *)
EXTENDS Endpoints, TLAPS

\* The instance, and with it the range of the UIDs, never changes.
LEMMA Fixed == [Next \/ Calm]_vars => inst' = inst
<1> USE DEF files, children, End
<1>1. ConnectorsStep => inst' = inst
  BY DEF ConnectorsStep, Allocate, AllocateFails, WriteHistory, WriteRegistry
<1>2. EndpointsStep \/ BootStep => inst' = inst
  BY DEF EndpointsStep, BootStep, ListPages, LoadPages, LoadVanished, Spawn, WriteSecrets,
         WriteHashes, Boot
<1>3. ResetStep \/ ChildExits \/ NextRound => inst' = inst
  BY DEF ResetStep, ResetBegin, DropKey, DropRoutes, DropHistory, DropSecrets, DropHashes, DropRegistry,
         DropRequest, ChildExits, NextRound
<1>4. OthersStep \/ Calm => inst' = inst
  BY DEF OthersStep, CreatePage, DeletePage, EndpointDies, Publish, Retire, RequestReset, Restart,
         Onboard, KeyRejected, SetupFails, Calm
<1>5. UNCHANGED vars => inst' = inst
  BY DEF vars
<1> QED
  BY <1>1, <1>2, <1>3, <1>4, <1>5 DEF Next, RunnerStep

LEMMA UidPositive == \A u \in Uids : u # 0
BY DEF Uids

\* There is always a capability that is not in use for the page.
LEMMA FreshTokenType ==
    ASSUME NEW p \in Pages
    PROVE  FreshToken(p) \in Tokens /\ FreshToken(p) # 0
<1> DEFINE S == {secrets[p], hashes[p], token[p]}
<1>1. \E t \in Tokens : t \notin S
  BY DEF Tokens
<1>2. FreshToken(p) \in Tokens
  BY <1>1 DEF FreshToken
<1>3. \A t \in Tokens : t # 0
  BY DEF Tokens
<1> QED
  BY <1>2, <1>3

LEMMA CapabilitiesType ==
    ASSUME NEW readable, {secrets, hashes, token} \subseteq [Pages -> Tokens \union {0}]
    PROVE  Capabilities(readable) \in [Pages -> Tokens \union {0}]
BY FreshTokenType DEF Capabilities

\* Every step keeps the types.  That an endpoint holds a capability at all rests on
\* SecretInv: the listed pages have one when the processes are started.
LEMMA TypeStep == TypeOK /\ SecretInv /\ [Next \/ Calm]_vars => TypeOK'
<1> SUFFICES ASSUME TypeOK, SecretInv, [Next \/ Calm]_vars PROVE TypeOK'
  OBVIOUS
<1> inst' = inst
  BY Fixed
<1> Uids' = Uids
  BY DEF Uids
<1> USE DEF TypeOK, Assigned, files, children, Round, Reset, Ended
<1>a. None \in [Pages -> Uids \union {0}] /\ None \in [Pages -> Tokens \union {0}]
  BY DEF None
<1>b. \A p \in Pages : None[p] = 0
  BY DEF None
<1>1. CASE Allocate
  BY <1>1 DEF Allocate
<1>2. CASE StopAll /\ UNCHANGED <<pages, files, entries, listed, routes, request, calm, key, inst>>
           /\ runner' \in Round \union Reset \union Ended \union {"boot"}
  BY <1>2, <1>a, <1>b DEF StopAll
<1>3. CASE AllocateFails \/ LoadVanished \/ ChildExits \/ SetupFails
  BY <1>3, <1>2 DEF AllocateFails, LoadVanished, ChildExits, SetupFails, End
<1>4. CASE Restart
  BY <1>4, <1>2 DEF Restart
<1>5. CASE ResetBegin
  BY <1>5, <1>2 DEF ResetBegin
<1>6. CASE WriteHistory
  BY <1>6 DEF WriteHistory
<1>7. CASE WriteRegistry
  BY <1>7 DEF WriteRegistry
<1>8. CASE ListPages \/ LoadPages
  BY <1>8 DEF ListPages, LoadPages
<1>9. ASSUME NEW from, NEW to, WriteSecrets(from, to),
             <<from, to>> \in {<<"secrets", "hashes">>, <<"boot secrets", "boot hashes">>}
      PROVE  TypeOK'
  <2>1. PICK readable : secrets' = Capabilities(readable) /\ misread' \subseteq Pages
    BY <1>9 DEF WriteSecrets
  <2>2. secrets' \in [Pages -> Tokens \union {0}]
    BY <2>1, CapabilitiesType
  <2> QED
    BY <1>9, <2>1, <2>2 DEF WriteSecrets
<1>10. ASSUME NEW from, NEW to, WriteHashes(from, to),
              <<from, to>> \in {<<"hashes", "spawn">>, <<"boot hashes", "round">>}
       PROVE  TypeOK'
  BY <1>10 DEF WriteHashes
<1>11. CASE Spawn
  <2>1. uid' \in [Pages -> Uids \union {0}] /\ token' \in [Pages -> Tokens \union {0}]
    BY <1>11 DEF Spawn
  <2>2. \A p \in Pages : (uid'[p] = 0) <=> (token'[p] = 0)
    BY <1>11 DEF Spawn, Starts, SecretInv
  <2> QED
    BY <1>11, <2>1, <2>2 DEF Spawn
<1>12. CASE Boot
  BY <1>12 DEF Boot
<1>13. CASE DropKey \/ DropRoutes \/ DropRequest
  BY <1>13 DEF DropKey, DropRoutes, DropRequest
<1>14. CASE DropHistory
  BY <1>14, <1>a DEF DropHistory
<1>15. CASE DropSecrets
  BY <1>15, <1>a DEF DropSecrets
<1>16. CASE DropHashes
  BY <1>16, <1>a DEF DropHashes
<1>17. CASE DropRegistry
  BY <1>17, <1>a DEF DropRegistry
<1>18. CASE NextRound
  BY <1>18 DEF NextRound
<1>19. ASSUME NEW p \in Pages, CreatePage(p) \/ DeletePage(p) PROVE TypeOK'
  BY <1>19 DEF CreatePage, DeletePage
<1>20. ASSUME NEW p \in Pages, EndpointDies(p) PROVE TypeOK'
  <2>1. runner \in Round
    BY <1>20, <1>b DEF EndpointDies
  <2>2. uid' \in [Pages -> Uids \union {0}] /\ token' \in [Pages -> Tokens \union {0}]
    BY <1>20 DEF EndpointDies
  <2>3. \A q \in Pages : (uid'[q] = 0) <=> (token'[q] = 0)
    BY <1>20 DEF EndpointDies
  <2>4. dead' \subseteq Pages /\ misread' \subseteq Pages
    BY <1>20 DEF EndpointDies
  <2>5. UNCHANGED <<pages, registry, history, secrets, hashes, entries, listed, routes, request, runner,
                    calm, key, inst>>
    BY <1>20 DEF EndpointDies
  <2> QED
    BY <2>1, <2>2, <2>3, <2>4, <2>5
<1>21. ASSUME NEW p \in inst.invited, Publish(p) PROVE TypeOK'
  <2>1. p \in Pages
    BY InstancesAssumption
  <2>2. <<p, registry[p]>> \in Pages \X Uids
    BY <1>21, <2>1 DEF Publish
  <2> QED
    BY <1>21, <2>2 DEF Publish
<1>22. ASSUME NEW r \in routes, Retire(r) PROVE TypeOK'
  BY <1>22 DEF Retire
<1>23. CASE RequestReset \/ Onboard \/ KeyRejected \/ Calm
  BY <1>23 DEF RequestReset, Onboard, KeyRejected, Calm
<1>24. CASE UNCHANGED vars
  BY <1>24 DEF vars
<1> QED
  BY <1>1, <1>3, <1>4, <1>5, <1>6, <1>7, <1>8, <1>9, <1>10, <1>11, <1>12, <1>13, <1>14, <1>15,
     <1>16, <1>17, <1>18, <1>19, <1>20, <1>21, <1>22, <1>23, <1>24
  DEF Next, RunnerStep, ConnectorsStep, EndpointsStep, BootStep, ResetStep, OthersStep

-----------------------------------------------------------------------------
(* Who owns a UID                                                           *)

Ownership == OwnerInv /\ EntryInv /\ UsedInv

\* What leaves the files, the routes, the entries and the runner's step alone and starts
\* nothing leaves the ownership alone.
LEMMA OwnershipKept ==
    ASSUME TypeOK, TypeOK', Ownership, inst' = inst,
           UNCHANGED <<registry, history, entries>>,
           \A p \in Pages : uid'[p] \in {uid[p], 0},
           \A p \in Pages, u \in Uids : <<p, u>> \in routes' =>
               (<<p, u>> \in routes \/ (u # 0 /\ u = registry[p])),
           \/ runner' = runner /\ routes' \subseteq routes
           \/ runner' = runner /\ runner \in Round
           \/ runner' \notin {"history", "registry", "list", "load", "secrets", "hashes", "spawn"}
              /\ (runner' \in Reset \ {"drop key", "drop routes"} => routes' = {})
           \/ runner' \in {"load", "secrets", "hashes", "spawn"}
              /\ runner \in {"list", "load", "secrets", "hashes", "spawn"}
    PROVE  Ownership'
<1> Uids' = Uids
  BY DEF Uids
<1> USE DEF TypeOK, Assigned
<1>0. \A p, u : Owns(p, u)' <=> Owns(p, u)
  BY DEF Owns
<1>1. OwnerInv'
  BY <1>0 DEF Ownership, OwnerInv
<1>2. EntryInv'
  <2>1. \A p : Known(p)' = Known(p)
    BY DEF Known
  <2> QED
    BY <1>0, <2>1 DEF Ownership, EntryInv, Round, Reset
<1>3. UsedInv'
  <2>1. \A p \in Pages : uid'[p] # 0 => Owns(p, uid'[p])
    BY DEF Ownership, UsedInv
  <2>2. \A p \in Pages, u \in Uids : <<p, u>> \in routes' => Owns(p, u)
    BY DEF Ownership, UsedInv, Owns
  <2>3. runner' \in Reset \ {"drop key", "drop routes"} => routes' = {}
    BY DEF Ownership, UsedInv, Round, Reset
  <2> QED
    BY <1>0, <2>1, <2>2, <2>3 DEF UsedInv
<1> QED
  BY <1>1, <1>2, <1>3 DEF Ownership

\* No check of the App finds two owners of a UID.
LEMMA NotDuplicate == TypeOK /\ OwnerInv => ~Duplicate
<1> SUFFICES ASSUME TypeOK, OwnerInv, NEW p \in Pages, NEW q \in Pages, NEW u \in Uids,
                    p # q, u \in {registry[p], history[p]}, u \in {registry[q], history[q]}
             PROVE  FALSE
  BY DEF Duplicate
<1>1. u # 0
  BY UidPositive
<1> QED
  BY <1>1 DEF OwnerInv, Owns

\* The entries of a round are the UIDs that the pages own, and free ones.
LEMMA AllocateStep == TypeOK /\ Ownership /\ Allocate => Ownership'
<1> SUFFICES ASSUME TypeOK, Ownership, Allocate PROVE Ownership'
  OBVIOUS
<1> inst' = inst
  BY DEF Allocate
<1> Uids' = Uids
  BY DEF Uids
<1> USE DEF TypeOK, Assigned, Ownership
<1>0. /\ UNCHANGED <<registry, history, uid, routes>> /\ runner' = "history"
      /\ entries' \in [Pages -> Uids \union {0}] /\ Allocation(entries')
  BY DEF Allocate, files, children
<1>1. \A p, u : Owns(p, u)' <=> Owns(p, u)
  BY <1>0 DEF Owns
<1>2. \A p : Known(p)' = Known(p)
  BY <1>0 DEF Known
<1>3. \A p \in Pages : entries'[p] # 0 => \/ Known(p) # 0 /\ entries'[p] = Known(p)
                                          \/ p \in New /\ Known(p) = 0 /\ ~Owned(entries'[p])
  <2> TAKE p \in Pages
  <2>1. CASE p \in New
    BY <2>1, <1>0 DEF Allocation, Smallest, Free, New
  <2>2. CASE p \notin New
    BY <2>2, <1>0 DEF Allocation, New
  <2> QED
    BY <2>1, <2>2
<1>4. ASSUME NEW p \in Pages, NEW q \in Pages, entries'[p] # 0,
             Owns(q, entries'[p]) \/ entries'[q] = entries'[p]
      PROVE  p = q
  <2>0. entries'[p] \in Uids
    BY <1>0, <1>4
  <2>1. CASE Owns(q, entries'[p])
    <3>1. ~(~Owned(entries'[p]))
      BY <2>1 DEF Owns, Owned
    <3>2. Owns(p, entries'[p])
      BY <3>1, <1>3, <1>4 DEF Owns, Known
    <3> QED
      BY <3>2, <2>1, <2>0 DEF OwnerInv
  <2>2. CASE entries'[q] = entries'[p]
    <3>1. CASE Known(q) # 0 /\ entries'[q] = Known(q)
      <4>1. Owns(q, entries'[p])
        BY <3>1, <2>2, <1>4 DEF Owns, Known
      <4> QED
        BY <4>1, <2>1
    <3>2. CASE Known(p) # 0 /\ entries'[p] = Known(p)
      <4>1. Owns(p, entries'[q]) /\ Owned(entries'[q])
        BY <3>2, <2>2, <1>4 DEF Owns, Known, Owned
      <4>2. Known(q) # 0 /\ entries'[q] = Known(q)
        BY <4>1, <2>2, <1>3, <1>4
      <4> QED
        BY <4>2, <3>1
    <3>3. CASE p \in New /\ q \in New
      BY <3>3, <2>2, <1>0 DEF Allocation
    <3> QED
      BY <3>1, <3>2, <3>3, <2>2, <1>3, <1>4
  <2> QED
    BY <2>1, <2>2, <1>4
<1>5. EntryInv'
  <2>1. \A p \in Pages : entries'[p] # 0 /\ Known(p) # 0 => entries'[p] = Known(p)
    BY <1>3
  <2> QED
    BY <1>0, <1>1, <1>2, <1>4, <2>1 DEF EntryInv
<1>6. OwnerInv' /\ UsedInv'
  BY <1>0, <1>1 DEF OwnerInv, UsedInv, Reset
<1> QED
  BY <1>5, <1>6

\* The history takes over the UID of a removed page before the registry forgets it.
LEMMA WriteHistoryStep == TypeOK /\ Ownership /\ WriteHistory => Ownership'
<1> SUFFICES ASSUME TypeOK, Ownership, WriteHistory PROVE Ownership'
  OBVIOUS
<1> Uids' = Uids
  BY DEF Uids, WriteHistory
<1> USE DEF TypeOK, Assigned, Ownership
<1>0. /\ UNCHANGED <<registry, entries, uid, routes>> /\ runner = "history" /\ runner' = "registry"
      /\ \A p \in Pages : history'[p] = IF registry[p] # 0 /\ entries[p] = 0 THEN registry[p]
                                        ELSE history[p]
  BY DEF WriteHistory, children
<1>1. \A p \in Pages, u \in Uids \union {0} : Owns(p, u)' <=> Owns(p, u)
  BY <1>0 DEF Owns, OwnerInv
<1>2. \A p \in Pages : Known(p)' = Known(p)
  BY <1>0 DEF Known
<1>3. OwnerInv'
  <2>1. \A p \in Pages : registry[p] # 0 /\ history'[p] # 0 => registry[p] = history'[p]
    BY <1>0 DEF OwnerInv
  <2> QED
    BY <1>0, <1>1, <2>1 DEF OwnerInv
<1>4. EntryInv'
  <2>1. \A p \in Pages : registry[p] # 0 => registry[p] \in {entries[p], history'[p]}
    BY <1>0 DEF EntryInv, Known
  <2>2. /\ \A p, q \in Pages : entries[p] # 0 /\ (Owns(q, entries[p]) \/ entries[q] = entries[p]) => p = q
        /\ \A p \in Pages : entries[p] # 0 /\ Known(p) # 0 => entries[p] = Known(p)
    BY <1>0 DEF EntryInv
  <2> QED
    BY <1>0, <1>1, <1>2, <2>1, <2>2 DEF EntryInv
<1>5. UsedInv'
  BY <1>0, <1>1 DEF UsedInv, Reset
<1> QED
  BY <1>3, <1>4, <1>5

\* No owner is forgotten by the new registry, and nobody's UID is given away.
LEMMA WriteRegistryStep == TypeOK /\ Ownership /\ WriteRegistry => Ownership'
<1> SUFFICES ASSUME TypeOK, Ownership, WriteRegistry PROVE Ownership'
  OBVIOUS
<1> Uids' = Uids
  BY DEF Uids, WriteRegistry
<1> USE DEF TypeOK, Assigned, Ownership
<1>0. /\ UNCHANGED <<history, entries, uid, routes>> /\ runner = "registry" /\ runner' = "list"
      /\ registry' = entries
  BY DEF WriteRegistry, children
<1>1. \A p \in Pages, u \in Uids \union {0} : Owns(p, u) => Owns(p, u)'
  BY <1>0 DEF Owns, EntryInv
<1>2. \A p \in Pages : \A u : Owns(p, u)' => Owns(p, u) \/ u = entries[p]
  BY <1>0 DEF Owns
<1>3. OwnerInv'
  <2>1. ASSUME NEW p \in Pages, NEW q \in Pages, NEW u \in Uids, Owns(p, u)', Owns(q, u)'
        PROVE  p = q
    <3>0. u # 0
      BY UidPositive
    <3>1. \A x, y \in Pages : entries[x] # 0 /\ (Owns(y, entries[x]) \/ entries[y] = entries[x]) => x = y
      BY <1>0 DEF EntryInv
    <3>2. CASE Owns(p, u) /\ Owns(q, u)
      BY <3>2 DEF OwnerInv
    <3>3. CASE u = entries[p]
      BY <1>2, <2>1, <3>0, <3>1, <3>3
    <3>4. CASE u = entries[q]
      BY <1>2, <2>1, <3>0, <3>1, <3>4
    <3> QED
      BY <1>2, <2>1, <3>2, <3>3, <3>4
  <2>2. \A p \in Pages : registry'[p] # 0 /\ history'[p] # 0 => registry'[p] = history'[p]
    BY <1>0 DEF EntryInv, OwnerInv, Known
  <2> QED
    BY <2>1, <2>2 DEF OwnerInv
<1>4. EntryInv'
  BY <1>0 DEF EntryInv
<1>5. UsedInv'
  BY <1>0, <1>1 DEF UsedInv, Reset
<1> QED
  BY <1>3, <1>4, <1>5

\* A process is started with the UID in the registry.
LEMMA SpawnStep == TypeOK /\ Ownership /\ Spawn => Ownership'
<1> SUFFICES ASSUME TypeOK, Ownership, Spawn PROVE Ownership'
  OBVIOUS
<1> Uids' = Uids
  BY DEF Uids, Spawn
<1> USE DEF TypeOK, Assigned, Ownership
<1>0. /\ UNCHANGED <<registry, history, entries, routes>> /\ runner' = "watch" /\ entries = registry
      /\ \A p \in Pages : uid'[p] \in {entries[p], uid[p], 0}
  BY DEF Spawn, files, EntryInv
<1>1. \A p, u : Owns(p, u)' <=> Owns(p, u)
  BY <1>0 DEF Owns
<1>2. \A p \in Pages : uid'[p] # 0 => Owns(p, uid'[p])
  BY <1>0 DEF UsedInv, Owns
<1>3. EntryInv'
  BY <1>0 DEF EntryInv
<1> QED
  BY <1>0, <1>1, <1>2, <1>3 DEF OwnerInv, UsedInv, Reset

\* A reset forgets the owners when no route is left and no endpoint is running.
LEMMA ForgetStep == TypeOK /\ Ownership /\ (DropHistory \/ DropRegistry) => Ownership'
<1> SUFFICES ASSUME TypeOK, Ownership, DropHistory \/ DropRegistry PROVE Ownership'
  OBVIOUS
<1> Uids' = Uids
  BY DEF Uids, DropHistory, DropRegistry
<1> USE DEF TypeOK, Assigned, Ownership
<1>0. /\ runner \in Reset \ {"drop key", "drop routes"} /\ runner' \in {"drop secrets", "drop request"}
      /\ UNCHANGED <<uid, routes>>
      /\ \A p \in Pages : registry'[p] \in {registry[p], 0} /\ history'[p] \in {history[p], 0}
  BY DEF DropHistory, DropRegistry, children, Reset, None
<1>1. \A p \in Pages : \A u : Owns(p, u)' => Owns(p, u)
  BY <1>0 DEF Owns
<1>2. routes' = {} /\ uid' = None
  BY <1>0 DEF UsedInv, Round, Reset
<1>3. OwnerInv'
  <2>1. \A p \in Pages : registry'[p] # 0 /\ history'[p] # 0 => registry'[p] = history'[p]
    BY <1>0 DEF OwnerInv
  <2> QED
    BY <1>1, <2>1 DEF OwnerInv
<1>4. EntryInv'
  BY <1>0 DEF EntryInv
<1>5. UsedInv'
  BY <1>2 DEF UsedInv, None
<1> QED
  BY <1>3, <1>4, <1>5

\* Every step keeps the ownership of the UIDs.
LEMMA OwnershipStep ==
    TypeOK /\ TypeOK' /\ Ownership /\ [Next \/ Calm]_vars => Ownership' /\ (NoDuplicate => NoDuplicate')
<1> SUFFICES ASSUME TypeOK, TypeOK', Ownership, [Next \/ Calm]_vars
             PROVE  Ownership' /\ (NoDuplicate => NoDuplicate')
  OBVIOUS
<1> inst' = inst
  BY Fixed
<1> USE DEF files, children
<1>a. \A p \in Pages : None[p] = 0
  BY DEF None
<1>b. ASSUME NEW reason \in Ended, End(reason) PROVE Ownership'
  BY <1>b, <1>a, OwnershipKept DEF End, StopAll, Ended, Reset
<1>1. CASE Allocate
  BY <1>1, AllocateStep DEF Allocate, NoDuplicate
<1>2. CASE AllocateFails
  <2>1. ~Duplicate
    BY NotDuplicate DEF Ownership
  <2>2. End("exhausted")
    BY <1>2, <2>1 DEF AllocateFails
  <2> QED
    BY <2>2, <1>b DEF End, NoDuplicate, Ended
<1>3. CASE WriteHistory
  BY <1>3, WriteHistoryStep DEF WriteHistory, NoDuplicate
<1>4. CASE WriteRegistry
  BY <1>4, WriteRegistryStep DEF WriteRegistry, NoDuplicate
<1>5. CASE Spawn
  BY <1>5, SpawnStep DEF Spawn, NoDuplicate
<1>6. CASE DropHistory \/ DropRegistry
  BY <1>6, ForgetStep DEF DropHistory, DropRegistry, NoDuplicate
<1>7. CASE LoadVanished \/ ChildExits \/ SetupFails
  <2>1. Ownership'
    BY <1>7, <1>b DEF LoadVanished, ChildExits, SetupFails, Ended
  <2> QED
    BY <1>7, <2>1 DEF LoadVanished, ChildExits, SetupFails, End, NoDuplicate
<1>8. CASE Restart
  BY <1>8, <1>a, OwnershipKept DEF Restart, StopAll, Reset, NoDuplicate
<1>9. CASE ResetBegin
  BY <1>9, <1>a, OwnershipKept DEF ResetBegin, StopAll, Reset, NoDuplicate
<1>10. CASE ListPages \/ LoadPages
  BY <1>10, OwnershipKept DEF ListPages, LoadPages, NoDuplicate
<1>11. CASE WriteSecrets("secrets", "hashes") \/ WriteHashes("hashes", "spawn")
  BY <1>11, OwnershipKept DEF WriteSecrets, WriteHashes, NoDuplicate
<1>12. CASE Boot \/ WriteSecrets("boot secrets", "boot hashes") \/ WriteHashes("boot hashes", "round")
  BY <1>12, OwnershipKept DEF Boot, WriteSecrets, WriteHashes, NoDuplicate, Reset
<1>13. CASE DropKey \/ DropRoutes
  BY <1>13, OwnershipKept DEF DropKey, DropRoutes, Reset, NoDuplicate
<1>14. CASE DropSecrets \/ DropHashes \/ DropRequest
  <2>1. routes = {}
    BY <1>14 DEF Ownership, UsedInv, Reset, DropSecrets, DropHashes, DropRequest
  <2> QED
    BY <1>14, <2>1, OwnershipKept DEF DropSecrets, DropHashes, DropRequest, NoDuplicate
<1>15. CASE NextRound
  BY <1>15, OwnershipKept DEF NextRound, NoDuplicate, Reset
<1>16. ASSUME NEW p \in Pages, CreatePage(p) \/ DeletePage(p)
       PROVE  Ownership' /\ (NoDuplicate => NoDuplicate')
  BY <1>16, OwnershipKept DEF CreatePage, DeletePage, NoDuplicate
<1>17. ASSUME NEW p \in Pages, EndpointDies(p)
       PROVE  Ownership' /\ (NoDuplicate => NoDuplicate')
  BY <1>17, OwnershipKept DEF EndpointDies, NoDuplicate, TypeOK, Assigned
<1>18. ASSUME NEW p \in inst.invited, Publish(p)
       PROVE  Ownership' /\ (NoDuplicate => NoDuplicate')
  BY <1>18, OwnershipKept DEF Publish, NoDuplicate
<1>19. ASSUME NEW r \in routes, Retire(r)
       PROVE  Ownership' /\ (NoDuplicate => NoDuplicate')
  BY <1>19, OwnershipKept DEF Retire, NoDuplicate
<1>20. CASE RequestReset \/ Onboard \/ KeyRejected \/ Calm \/ UNCHANGED vars
  BY <1>20, OwnershipKept DEF RequestReset, Onboard, KeyRejected, Calm, vars, NoDuplicate
<1> QED
  BY <1>1, <1>2, <1>3, <1>4, <1>5, <1>6, <1>7, <1>8, <1>9, <1>10, <1>11, <1>12, <1>13, <1>14,
     <1>15, <1>16, <1>17, <1>18, <1>19, <1>20
  DEF Next, RunnerStep, ConnectorsStep, EndpointsStep, BootStep, ResetStep, OthersStep

-----------------------------------------------------------------------------
(* Who holds which capability                                               *)

\* What leaves the capabilities alone, starts nothing, and does not come into or out of
\* the part of the round that writes them.
LEMMA CapabilityKept ==
    ASSUME TypeOK, TypeOK', SecretInv, UNCHANGED <<secrets, hashes>>,
           \/ uid' = uid /\ token' = token /\ misread' = misread
           \/ \E p \in Pages : /\ uid' = [uid EXCEPT ![p] = 0] /\ token' = [token EXCEPT ![p] = 0]
                               /\ misread' = misread \ {p},
           \/ runner' = runner /\ listed' = listed
           \/ {runner, runner'} \subseteq Round \ {"hashes", "spawn"}
    PROVE  SecretInv'
<1> USE DEF TypeOK, Assigned
<1>1. SecretInv!1' /\ SecretInv!2'
  BY DEF SecretInv, Round
<1>2. ASSUME NEW p \in Pages \ misread', uid'[p] # 0,
             runner' \in {"hashes", "spawn"} => p \in listed'
      PROVE  token'[p] = secrets'[p]
  <2>1. p \notin misread /\ uid[p] # 0 /\ uid'[p] = uid[p] /\ token'[p] = token[p]
    BY <1>2
  <2> QED
    BY <1>2, <2>1 DEF SecretInv, Round
<1> QED
  BY <1>1, <1>2 DEF SecretInv

\* Where nothing is running there is nothing to compare.
LEMMA CapabilityIdle ==
    ASSUME TypeOK', uid' = None, runner' \notin Round
    PROVE  SecretInv'
BY DEF SecretInv, Round, None

\* A capability that is read is kept; one that could not be read is a misread one.
LEMMA WriteSecretsStep ==
    TypeOK /\ SecretInv /\ WriteSecrets("secrets", "hashes") => SecretInv'
<1> SUFFICES ASSUME TypeOK, SecretInv, WriteSecrets("secrets", "hashes") PROVE SecretInv'
  OBVIOUS
<1> USE DEF TypeOK, Assigned
<1>0. /\ runner = "secrets" /\ runner' = "hashes" /\ UNCHANGED <<uid, token, listed>>
  BY DEF WriteSecrets
<1>1. PICK readable : /\ secrets' = Capabilities(readable)
                      /\ misread' = IF readable THEN misread ELSE {p \in listed : uid[p] # 0}
  BY DEF WriteSecrets
<1>2. \A p \in listed : secrets'[p] # 0
  <2>1. \A p \in listed : (secrets[p] # 0 /\ secrets'[p] = secrets[p]) \/ secrets'[p] = FreshToken(p)
    BY <1>1 DEF Capabilities
  <2>2. \A p \in listed : FreshToken(p) # 0
    BY FreshTokenType
  <2> QED
    BY <2>1, <2>2
<1>3. ASSUME NEW p \in Pages \ misread', uid[p] # 0, p \in listed
      PROVE  token[p] = secrets'[p]
  <2>1. readable /\ p \notin misread
    BY <1>1, <1>3
  <2>2. token[p] = secrets[p] /\ token[p] # 0
    BY <1>0, <1>3, <2>1 DEF SecretInv
  <2> QED
    BY <1>1, <1>3, <2>1, <2>2 DEF Capabilities
<1> QED
  BY <1>0, <1>2, <1>3 DEF SecretInv, Round

\* Every step keeps the capabilities.
LEMMA SecretStep == TypeOK /\ TypeOK' /\ SecretInv /\ [Next \/ Calm]_vars => SecretInv'
<1> SUFFICES ASSUME TypeOK, TypeOK', SecretInv, [Next \/ Calm]_vars PROVE SecretInv'
  OBVIOUS
<1> USE DEF files, children
<1>1. CASE Allocate \/ WriteHistory \/ WriteRegistry
  BY <1>1, CapabilityKept DEF Allocate, WriteHistory, WriteRegistry, Round
<1>2. CASE AllocateFails \/ LoadVanished \/ ChildExits \/ SetupFails
  BY <1>2, CapabilityIdle
  DEF AllocateFails, LoadVanished, ChildExits, SetupFails, End, StopAll, Round
<1>3. CASE ListPages \/ LoadPages \/ NextRound
  BY <1>3, CapabilityKept DEF ListPages, LoadPages, NextRound, Round
<1>4. CASE Spawn
  <2> USE <1>4 DEF TypeOK, Assigned
  <2>0. /\ runner = "spawn" /\ runner' = "watch" /\ UNCHANGED <<secrets, hashes, listed>>
        /\ misread' = misread \intersect listed
    BY DEF Spawn
  <2>1. ASSUME NEW p \in Pages \ misread', uid'[p] # 0 PROVE token'[p] = secrets'[p]
    <3>1. CASE Starts(p)
      BY <3>1, <2>0 DEF Spawn
    <3>2. CASE ~Starts(p)
      <4>1. p \in listed /\ uid'[p] = uid[p] /\ token'[p] = token[p]
        BY <3>2, <2>1 DEF Spawn
      <4> QED
        BY <4>1, <2>0, <2>1 DEF SecretInv
    <3> QED
      BY <3>1, <3>2
  <2> QED
    BY <2>0, <2>1 DEF SecretInv, Round
<1>5. CASE WriteSecrets("secrets", "hashes")
  BY <1>5, WriteSecretsStep
<1>6. CASE WriteHashes("hashes", "spawn")
  BY <1>6 DEF WriteHashes, SecretInv, Round
<1>7. CASE WriteHashes("boot hashes", "round")
  BY <1>7 DEF WriteHashes, SecretInv, Round, TypeOK, None
<1>8. CASE Boot \/ WriteSecrets("boot secrets", "boot hashes")
  BY <1>8, CapabilityIdle DEF Boot, WriteSecrets, TypeOK, Round, Ended
<1>9. CASE ResetBegin \/ Restart
  BY <1>9, CapabilityIdle DEF ResetBegin, Restart, StopAll, Round
<1>10. CASE DropKey \/ DropRoutes \/ DropHistory \/ DropSecrets \/ DropHashes \/ DropRegistry \/ DropRequest
  BY <1>10, CapabilityIdle
  DEF DropKey, DropRoutes, DropHistory, DropSecrets, DropHashes, DropRegistry, DropRequest, TypeOK,
      Round
<1>11. ASSUME NEW p \in Pages, CreatePage(p) \/ DeletePage(p) PROVE SecretInv'
  BY <1>11, CapabilityKept DEF CreatePage, DeletePage
<1>12. ASSUME NEW p \in Pages, EndpointDies(p) PROVE SecretInv'
  BY <1>12, CapabilityKept DEF EndpointDies
<1>13. CASE (\E p \in inst.invited : Publish(p)) \/ (\E r \in routes : Retire(r))
  BY <1>13, CapabilityKept DEF Publish, Retire
<1>14. CASE RequestReset \/ Onboard \/ KeyRejected \/ Calm \/ UNCHANGED vars
  BY <1>14, CapabilityKept DEF RequestReset, Onboard, KeyRejected, Calm, vars
<1> QED
  BY <1>1, <1>2, <1>3, <1>4, <1>5, <1>6, <1>7, <1>8, <1>9, <1>10, <1>11, <1>12, <1>13, <1>14
  DEF Next, RunnerStep, ConnectorsStep, EndpointsStep, BootStep, ResetStep, OthersStep

-----------------------------------------------------------------------------
\* The inductive invariant holds of every behaviour.
THEOREM Inductive == Spec => []IInv
<1>1. Init => IInv
  <2> SUFFICES ASSUME Init PROVE IInv
    OBVIOUS
  <2> USE DEF Init
  <2>0. \A p \in Pages : None[p] = 0
    BY DEF None
  <2>1. TypeOK
    <3>1. None \in [Pages -> Uids \union {0}] /\ None \in [Pages -> Tokens \union {0}]
      BY DEF None
    <3> QED
      BY <3>1, <2>0 DEF TypeOK, Assigned, Round
  <2>2. OwnerInv /\ EntryInv /\ UsedInv
    BY <2>0, UidPositive DEF OwnerInv, EntryInv, UsedInv, Owns, Reset
  <2>3. SecretInv /\ NoDuplicate
    BY <2>0 DEF SecretInv, NoDuplicate, Round
  <2> QED
    BY <2>1, <2>2, <2>3 DEF IInv
<1>2. IInv /\ [Next \/ Calm]_vars => IInv'
  BY TypeStep, OwnershipStep, SecretStep DEF IInv, Ownership
<1> QED
  BY <1>1, <1>2, PTL DEF Spec

\* The types of the files, the processes and the runner's steps; an endpoint runs only
\* while the App is in its rounds, and never without a capability.
THEOREM TypeCorrect == Spec => []TypeOK
<1>1. IInv => TypeOK
  BY DEF IInv
<1> QED
  BY <1>1, Inductive, PTL

\* Whatever pages are removed and created again, and wherever the App is stopped or reset,
\* no published route leads to the endpoint of another page: the history keeps the owner
\* of every UID until the routes are gone (app_runner.py, _reconcile_page_connectors).
THEOREM RouteLeadsToItsPage == Spec => []RightPage
<1>1. IInv => RightPage
  <2> SUFFICES ASSUME IInv, NEW r \in routes, NEW p \in Pages, uid[p] = r[2] PROVE p = r[1]
    BY DEF RightPage
  <2>0. r \in Pages \X Uids
    BY DEF IInv, TypeOK
  <2>1. PICK q \in Pages, u \in Uids : r = <<q, u>>
    BY <2>0
  <2>2. Owns(q, u) /\ Owns(p, u)
    BY <2>1, UidPositive DEF IInv, UsedInv
  <2> QED
    BY <2>1, <2>2 DEF IInv, OwnerInv
<1> QED
  BY <1>1, Inductive, PTL

\* The SetupError for a UID with two owners never ends the App on files that the App wrote,
\* also when it was stopped between the history and the registry.
THEOREM FilesAgree == Spec => []NoDuplicate
<1>1. IInv => NoDuplicate
  BY DEF IInv
<1> QED
  BY <1>1, Inductive, PTL

\* Between two rounds the HA broker accepts every endpoint that is running, save one whose
\* capability could not be read (app_runner.py, _reconcile_page_endpoints).
THEOREM BrokerKnowsEndpoint == Spec => []CapabilityCurrent
<1>1. IInv => CapabilityCurrent
  BY DEF IInv, SecretInv, CapabilityCurrent, Round
<1> QED
  BY <1>1, Inductive, PTL

\* A UID that a page was given stays with it until a reset, which forgets it only when no
\* route is published any more: the history has it before the registry loses it
\* (app_runner.py, _reconcile_page_connectors).
THEOREM OwnersAreKept == Spec => OwnerKept
<1>1. IInv /\ [Next \/ Calm]_vars =>
        [runner \notin {"drop history", "drop registry"} =>
            \A p \in Pages, u \in Uids : Owns(p, u) => Owns(p, u)']_vars
  <2> SUFFICES ASSUME IInv, [Next \/ Calm]_vars, runner \notin {"drop history", "drop registry"},
                      NEW p \in Pages, NEW u \in Uids, Owns(p, u)
               PROVE  Owns(p, u)'
    OBVIOUS
  <2>1. CASE UNCHANGED <<registry, history>>
    BY <2>1 DEF Owns
  <2>2. CASE WriteHistory
    BY <2>2 DEF WriteHistory, Owns, IInv, OwnerInv
  <2>3. CASE WriteRegistry
    BY <2>3 DEF WriteRegistry, Owns, IInv, EntryInv
  <2>4. UNCHANGED <<registry, history>> \/ WriteHistory \/ WriteRegistry
    <3>1. CASE RunnerStep
      BY <3>1 DEF RunnerStep, ConnectorsStep, EndpointsStep, BootStep, ResetStep, Allocate,
        AllocateFails, End, ListPages, LoadPages, LoadVanished, Spawn, WriteSecrets, WriteHashes,
        Boot, ResetBegin, DropKey, DropRoutes, DropHistory, DropSecrets, DropHashes, DropRegistry,
        DropRequest, ChildExits, NextRound, files
    <3>2. CASE OthersStep
      BY <3>2 DEF OthersStep, CreatePage, DeletePage, EndpointDies, Publish, Retire,
        RequestReset, Restart, Onboard, KeyRejected, SetupFails, End, files
    <3>3. CASE Calm \/ UNCHANGED vars
      BY <3>3 DEF Calm, vars, files
    <3> QED
      BY <3>1, <3>2, <3>3 DEF Next
  <2> QED
    BY <2>1, <2>2, <2>3, <2>4
<1> QED
  BY <1>1, Inductive, PTL DEF Spec, OwnerKept
=============================================================================
