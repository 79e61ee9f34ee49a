----------------------------- MODULE Endpoints -----------------------------
(***************************************************************************)
(* The endpoints of the pages (homeassistant-app/app_runner.py).  Every     *)
(* page has a process of its own, listening on an address derived from a   *)
(* UID that was given to this page, and holding a capability that tells    *)
(* the HA broker which page it is.                                         *)
(*                                                                         *)
(* The supervising loop of the App brings them up to date once a second,   *)
(* in two parts.  _reconcile_page_connectors gives every page its UID: the *)
(* present ones are in the registry, those of removed pages in the         *)
(* history.  _reconcile_page_endpoints gives every page its capability,    *)
(* tells the HA broker, and starts and stops the processes.  Each part     *)
(* lists the pages for itself and writes two files, one after the other.   *)
(* Meanwhile the owner creates and deletes pages, and the LayerV broker    *)
(* publishes routes to the addresses it finds in the registry; a route     *)
(* lives on until it is retired, also when its page is gone.  The App may  *)
(* stop between any two steps, and a connection reset removes the files    *)
(* one by one.                                                             *)
(***************************************************************************)
EXTENDS Naturals, FiniteSets

CONSTANTS
    Pages,       \* page identifiers
    Instances    \* the instances that are looked at together, see inst

ASSUME InstancesAssumption ==
    Instances \subseteq [pages: SUBSET Pages, invited: SUBSET Pages, uids: Nat, misreads: BOOLEAN]

Tokens == 1 .. 4   \* a capability is told apart from the others in use for its page

VARIABLES
    pages,      \* the pages that the Gateway's page store lists
    registry,   \* page-connectors.json: page -> UID, 0 for none
    history,    \* history.json: removed page -> UID
    secrets,    \* page-capabilities.json: page -> capability, 0 for none
    hashes,     \* guest-page-capabilities.json, which the HA broker reads
    uid, token, \* what the running endpoint of a page was started with, 0 for none
    dead,       \* pages whose endpoint has died and was not yet replaced
    entries,    \* the connector entries of the last round
    listed,     \* the pages as listed by the present part of the round
    routes,     \* the published routes: <<page, UID it leads to>>
    request,    \* the owner has asked for a connection reset
    runner,     \* the step of the App runner
    calm,       \* no more faults and no more changes by the owner
    key,        \* the LayerV API key is there: the App has been connected by the owner
    inst,       \* never changes: the pages that may be created, those that guests are invited
                \* to, how many UIDs there are, and may page-capabilities.json be unreadable
    misread     \* history: pages whose running endpoint has lost its capability because
                \* page-capabilities.json could not be read for once

files == <<registry, history, secrets, hashes>>
children == <<uid, token, dead, misread>>
Uids == 1 .. inst.uids    \* for 22000 .. 22999
vars == <<pages, files, children, entries, listed, routes, request, runner, calm, key, inst>>

None == [p \in Pages |-> 0]

Init ==
    /\ pages = {} /\ registry = None /\ history = None
    /\ secrets = None /\ hashes = None
    /\ uid = None /\ token = None /\ dead = {}
    /\ entries = None /\ listed = {} /\ routes = {}
    /\ request = FALSE /\ runner = "boot" /\ calm = FALSE /\ key = FALSE
    /\ inst \in Instances /\ misread = {}

\* While the runner is in its loop the brokers and the Gateway are running.
Round == {"round", "history", "registry", "list", "load", "secrets", "hashes", "spawn", "watch"}
Reset == {"drop key", "drop routes", "drop history", "drop secrets", "drop hashes",
          "drop registry", "drop request"}
Ended == {"exhausted", "duplicate", "vanished", "child exited", "setup failed"}

-----------------------------------------------------------------------------
(* The Gateway and the LayerV broker, as far as they matter here           *)

CreatePage(p) ==
    /\ runner \in Round /\ ~calm /\ p \in inst.pages \ pages
    /\ pages' = pages \union {p}
    /\ UNCHANGED <<files, children, entries, listed, routes, request, runner, calm, key, inst>>

\* Deleted, or unreadable: the store does not list it any more.
DeletePage(p) ==
    /\ runner \in Round /\ ~calm /\ p \in pages
    /\ pages' = pages \ {p}
    /\ UNCHANGED <<files, children, entries, listed, routes, request, runner, calm, key, inst>>

\* create_grant: the target of a new resource is the address in the registry; a page
\* pool with another target is refused.
Publish(p) ==
    /\ runner \in Round /\ ~calm /\ registry[p] # 0
    /\ routes' = routes \union {<<p, registry[p]>>}
    /\ UNCHANGED <<pages, files, children, entries, listed, request, runner, calm, key, inst>>

Retire(r) ==
    /\ runner \in Round /\ ~calm
    /\ routes' = routes \ {r}
    /\ UNCHANGED <<pages, files, children, entries, listed, request, runner, calm, key, inst>>

RequestReset ==
    /\ runner \in Round /\ ~calm /\ ~request
    /\ request' = TRUE
    /\ UNCHANGED <<pages, files, children, entries, listed, routes, runner, calm, key, inst>>

-----------------------------------------------------------------------------
(* _reconcile_page_connectors                                              *)

StopAll == uid' = None /\ token' = None /\ dead' = {} /\ misread' = {}

\* The App ends, and all its processes with it.
End(reason) ==
    /\ StopAll /\ runner' = reason
    /\ UNCHANGED <<pages, files, entries, listed, routes, request, calm, key, inst>>

Known(p) == IF registry[p] # 0 THEN registry[p] ELSE history[p]
\* Mutant: the UIDs of removed pages are free again.
OwnedNow(u) == \E p \in Pages : registry[p] = u
Owned(u) == \E p \in Pages : registry[p] = u \/ history[p] = u
Free == {u \in Uids : ~Owned(u)}
Duplicate ==
    \E p, q \in Pages, u \in Uids :
        p # q /\ u \in {registry[p], history[p]} /\ u \in {registry[q], history[q]}
New == {p \in pages : Known(p) = 0}
\* The k smallest UIDs that are free.
Smallest(k) == {u \in Free : Cardinality({v \in Free : v < u}) < k}

\* A page keeps its UID, also from before it was removed.  New pages take the smallest
\* free ones, in the order of their titles.
Allocation(e) ==
    /\ \A p \in Pages \ New : e[p] = IF p \in pages THEN Known(p) ELSE 0
    /\ \A p \in New : e[p] \in Smallest(Cardinality(New))
    /\ \A p, q \in New : p # q => e[p] # e[q]

Allocate ==
    /\ runner = "round" /\ runner' = "history" /\ ~Duplicate
    /\ \E e \in [Pages -> Uids \union {0}] : Allocation(e) /\ entries' = e
    /\ UNCHANGED <<pages, files, children, listed, routes, request, calm, key, inst>>

\* SetupError: a UID has two owners, or none is left.
AllocateFails ==
    /\ runner = "round" /\ (Duplicate \/ Cardinality(New) > Cardinality(Free))
    /\ End(IF Duplicate THEN "duplicate" ELSE "exhausted")

\* Mutant: removed pages are forgotten.
WriteNoHistory ==
    /\ runner = "history" /\ runner' = "registry"
    /\ UNCHANGED <<pages, files, children, entries, listed, routes, request, calm, key, inst>>
WriteHistory ==
    /\ runner = "history" /\ runner' = "registry"
    /\ history' = [p \in Pages |-> IF registry[p] # 0 /\ entries[p] = 0 THEN registry[p]
                                   ELSE history[p]]
    /\ UNCHANGED <<pages, registry, secrets, hashes, children, entries, listed, routes, request,
                   calm, key, inst>>

WriteRegistry ==
    /\ runner = "registry" /\ runner' = "list"
    /\ registry' = entries
    /\ UNCHANGED <<pages, history, secrets, hashes, children, entries, listed, routes, request,
                   calm, key, inst>>

-----------------------------------------------------------------------------
(* _reconcile_page_endpoints                                               *)

ListPages ==
    /\ runner = "list" /\ runner' = "load"
    /\ listed' = pages
    /\ UNCHANGED <<pages, files, children, entries, routes, request, calm, key, inst>>

LoadPages ==
    /\ runner = "load" /\ runner' = "secrets"
    /\ listed \subseteq pages
    /\ UNCHANGED <<pages, files, children, entries, listed, routes, request, calm, key, inst>>

\* A page that was listed is gone when it is loaded: nothing catches PageNotFoundError.
LoadVanished == runner = "load" /\ ~(listed \subseteq pages) /\ End("vanished")

FreshToken(p) == CHOOSE t \in Tokens : t \notin {secrets[p], hashes[p], token[p]}
\* A file that cannot be read is taken for an empty one.
Capabilities(readable) ==
    [p \in Pages |-> IF p \notin listed THEN 0
                     ELSE IF readable /\ secrets[p] # 0 THEN secrets[p] ELSE FreshToken(p)]

WriteSecrets(from, to) ==
    /\ runner = from /\ runner' = to
    /\ \E readable \in {TRUE, calm \/ ~inst.misreads} :
          /\ secrets' = Capabilities(readable)
          /\ misread' = IF readable THEN misread ELSE {p \in listed : uid[p] # 0}
    /\ UNCHANGED <<pages, registry, history, hashes, uid, token, dead, entries, listed, routes,
                   request, calm, key, inst>>

WriteHashes(from, to) ==
    /\ runner = from /\ runner' = to
    /\ hashes' = secrets
    /\ UNCHANGED <<pages, registry, history, secrets, children, entries, listed, routes, request,
                   calm, key, inst>>

\* Mutant: an endpoint that has died is not replaced.
StartsNew(p) == p \in listed /\ entries[p] # 0 /\ uid[p] = 0 /\ p \notin dead
\* A page without entry was created since; the next round sees it.
Starts(p) == p \in listed /\ entries[p] # 0 /\ uid[p] = 0
\* Mutant: the endpoint of a removed page is left running.
SpawnOnly ==
    /\ runner = "spawn" /\ runner' = "watch"
    /\ uid' = [p \in Pages |-> IF Starts(p) THEN entries[p] ELSE uid[p]]
    /\ token' = [p \in Pages |-> IF Starts(p) THEN secrets[p] ELSE token[p]]
    /\ dead' = {p \in dead : p \in listed /\ ~Starts(p)}
    /\ misread' = misread \intersect listed
    /\ UNCHANGED <<pages, files, entries, listed, routes, request, calm, key, inst>>
Spawn ==
    /\ runner = "spawn" /\ runner' = "watch"
    /\ uid' = [p \in Pages |-> IF Starts(p) THEN entries[p] ELSE IF p \in listed THEN uid[p] ELSE 0]
    /\ token' = [p \in Pages |-> IF Starts(p) THEN secrets[p] ELSE IF p \in listed THEN token[p] ELSE 0]
    /\ dead' = {p \in dead : p \in listed /\ ~Starts(p)}
    /\ misread' = misread \intersect listed
    /\ UNCHANGED <<pages, files, entries, listed, routes, request, calm, key, inst>>

-----------------------------------------------------------------------------
(* main                                                                    *)

EndpointDies(p) ==
    /\ ~calm /\ uid[p] # 0
    /\ uid' = [uid EXCEPT ![p] = 0] /\ token' = [token EXCEPT ![p] = 0]
    /\ dead' = dead \union {p} /\ misread' = misread \ {p}
    /\ UNCHANGED <<pages, files, entries, listed, routes, request, runner, calm, key, inst>>

\* A child that has exited ends the App, an endpoint too if the poll comes first.
ChildExits == runner = "watch" /\ (dead # {} \/ ~calm) /\ End("child exited")

NextRound ==
    /\ runner = "watch" /\ runner' = "round" /\ ~request
    /\ UNCHANGED <<pages, files, children, entries, listed, routes, request, calm, key, inst>>

ResetBegin ==
    /\ runner = "watch" /\ runner' = "drop key" /\ request
    /\ StopAll
    /\ UNCHANGED <<pages, files, entries, listed, routes, request, calm, key, inst>>

\* _reset_connection_files.  The key goes first: the owner has to connect the App again,
\* also when it is stopped before the rest is removed.
DropKey ==
    /\ runner = "drop key" /\ runner' = "drop routes"
    /\ key' = FALSE
    /\ UNCHANGED <<pages, files, children, entries, listed, routes, request, calm, inst>>
\* The resources are to be retired, and the Connector's identity goes with all its routes.
\* Left out: the daemon of a broker that had to be killed lives on, and its routes with
\* it (see ChildrenStopped in Enrollment).
DropRoutes ==
    /\ runner = "drop routes" /\ runner' = "drop history"
    /\ routes' = {}
    /\ UNCHANGED <<pages, files, children, entries, listed, request, calm, key, inst>>
DropHistory ==
    /\ runner = "drop history" /\ runner' = "drop secrets"
    /\ history' = None
    /\ UNCHANGED <<pages, registry, secrets, hashes, children, entries, listed, routes, request,
                   calm, key, inst>>
DropSecrets ==
    /\ runner = "drop secrets" /\ runner' = "drop hashes"
    /\ secrets' = None
    /\ UNCHANGED <<pages, registry, history, hashes, children, entries, listed, routes, request,
                   calm, key, inst>>
DropHashes ==
    /\ runner = "drop hashes" /\ runner' = "drop registry"
    /\ hashes' = None
    /\ UNCHANGED <<pages, registry, history, secrets, children, entries, listed, routes, request,
                   calm, key, inst>>
DropRegistry ==
    /\ runner = "drop registry" /\ runner' = "drop request"
    /\ registry' = None
    /\ UNCHANGED <<pages, history, secrets, hashes, children, entries, listed, routes, request,
                   calm, key, inst>>
DropRequest ==
    /\ runner = "drop request" /\ runner' = "boot"
    /\ request' = FALSE
    /\ UNCHANGED <<pages, files, children, entries, listed, routes, calm, key, inst>>

\* _run_onboarding: without the key nothing is started until the owner connects the App.
Onboard ==
    /\ runner = "boot" /\ ~key
    /\ key' = TRUE
    /\ UNCHANGED <<pages, files, children, entries, listed, routes, request, runner, calm, inst>>

\* The first set-up fails and the key is thrown away.
KeyRejected ==
    /\ runner = "boot" /\ ~calm /\ key
    /\ key' = FALSE
    /\ UNCHANGED <<pages, files, children, entries, listed, routes, request, runner, calm, inst>>

\* A SetupError in a later set-up, in the onboarding or at the beginning of a reset.
SetupFails == runner \in {"boot", "drop key"} /\ ~calm /\ End("setup failed")

\* Capabilities are written once before anything is started.
Boot ==
    /\ runner = "boot" /\ runner' = "boot secrets" /\ key
    /\ listed' = pages
    /\ UNCHANGED <<pages, files, children, entries, routes, request, calm, key, inst>>

\* The App is stopped, at any time, and started again; once it has ended nothing starts it
\* but its owner (config.yaml names no watchdog).
Restart ==
    /\ runner # "boot" /\ (~calm \/ runner \in Ended)
    /\ StopAll /\ runner' = "boot"
    /\ UNCHANGED <<pages, files, entries, listed, routes, request, calm, key, inst>>

Calm ==
    /\ ~calm
    /\ calm' = TRUE
    /\ UNCHANGED <<pages, files, children, entries, listed, routes, request, runner, key, inst>>

-----------------------------------------------------------------------------
ConnectorsStep ==
    Allocate \/ AllocateFails \/ WriteHistory \/ WriteRegistry
EndpointsStep ==
    ListPages \/ LoadPages \/ LoadVanished \/ Spawn
      \/ WriteSecrets("secrets", "hashes") \/ WriteHashes("hashes", "spawn")
BootStep ==
    Boot \/ WriteSecrets("boot secrets", "boot hashes") \/ WriteHashes("boot hashes", "round")
ResetStep ==
    ResetBegin \/ DropKey \/ DropRoutes \/ DropHistory \/ DropSecrets \/ DropHashes
      \/ DropRegistry \/ DropRequest
RunnerStep ==
    ConnectorsStep \/ EndpointsStep \/ BootStep \/ ResetStep \/ ChildExits \/ NextRound
OthersStep ==
    \/ \E p \in Pages : CreatePage(p) \/ DeletePage(p) \/ EndpointDies(p)
    \/ \E p \in inst.invited : Publish(p)
    \/ \E r \in routes : Retire(r)
    \/ RequestReset \/ Restart \/ Onboard \/ KeyRejected \/ SetupFails
Next == RunnerStep \/ OthersStep

Spec == Init /\ [][Next \/ Calm]_vars
\* The runner goes on.  Nothing starts it again when it has ended, and nobody need connect it.
FairSpec == Spec /\ WF_vars(RunnerStep) /\ WF_vars(Calm)

-----------------------------------------------------------------------------
Assigned == [Pages -> Uids \union {0}]
TypeOK ==
    /\ pages \subseteq Pages /\ listed \subseteq Pages /\ dead \subseteq Pages
    /\ registry \in Assigned /\ history \in Assigned /\ entries \in Assigned /\ uid \in Assigned
    /\ {secrets, hashes, token} \subseteq [Pages -> Tokens \union {0}]
    /\ routes \subseteq Pages \X Uids
    /\ {request, calm, key} \subseteq BOOLEAN /\ inst \in Instances /\ misread \subseteq Pages
    /\ runner \in Round \union Reset \union Ended \union {"boot", "boot secrets", "boot hashes"}
    /\ \A p \in Pages : (uid[p] = 0) <=> (token[p] = 0)
    /\ runner \notin Round => uid = None /\ dead = {}

\* A route of one page never leads to the endpoint of another: no UID is given to a second
\* page while a route to its first one may still be published, whatever was removed,
\* created again, interrupted or reset in between (CHANGELOG 0.1.74: "Give every page
\* Connector a unique loopback destination").  A route is held here by the identity that a
\* reset removes; the daemon of a broker that was killed before a reset may keep its own
\* (guest_resources.py:441, app_runner.py:1075), the exception of ChildrenStopped.
RightPage == \A r \in routes, p \in Pages : uid[p] = r[2] => p = r[1]

\* The registry and the history never contradict each other: the check that ends the App
\* never fires on what the App itself has written.
NoDuplicate == runner # "duplicate"

\* Between two rounds every running endpoint holds the capability that the HA broker
\* knows for its page, save one that was running when the file of the capabilities could
\* not be read: that one is left as it is, and the broker refuses it until it is started
\* again (ha_broker.py:566, _guest_page_identity).
CapabilityCurrent ==
    runner \in {"watch", "round"} =>
        \A p \in Pages \ misread : uid[p] # 0 => token[p] = hashes[p]

\* Once nothing changes any more, the App gets through its rounds for good, unless it has
\* ended, waits for its owner to connect it, or has run out of UIDs; and where it watches,
\* exactly the pages that exist are served.  What ends it is a page that was deleted
\* between listing and loading (app_runner.py:855), a child that exited, a failed set-up
\* or the last UID (app_runner.py:318); main returns then, and nothing starts it again.
Served == \A p \in Pages : (uid[p] # 0) <=> p \in pages
Waiting == runner \in Ended \/ (runner = "boot" /\ ~key)
EndpointsConverge ==
    /\ []<>(runner \in {"watch", "exhausted"}) \/ <>[]Waiting
    /\ <>[](runner = "watch" => Served)

-----------------------------------------------------------------------------
(* The inductive invariant behind RightPage, NoDuplicate and              *)
(* CapabilityCurrent (EndpointsProofs).                                    *)

Owns(p, u) == u # 0 /\ u \in {registry[p], history[p]}

\* A page that was given a UID keeps it, through its removal, through stops and through all
\* failures, until a reset has removed the routes and removes the files: neither of the two
\* writes of a round forgets an owner that the other file does not have.
OwnerKept ==
    [][runner \notin {"drop history", "drop registry"} =>
          \A p \in Pages, u \in Uids : Owns(p, u) => Owns(p, u)']_vars

\* A UID has one owner, of which the registry and the history say the same.
OwnerInv ==
    /\ \A p, q \in Pages, u \in Uids : Owns(p, u) /\ Owns(q, u) => p = q
    /\ \A p \in Pages : registry[p] # 0 /\ history[p] # 0 => registry[p] = history[p]

\* What is about to be written agrees with what is there, and forgets no owner.
EntryInv ==
    /\ runner \in {"history", "registry"} =>
          /\ \A p, q \in Pages : entries[p] # 0 /\ (Owns(q, entries[p]) \/ entries[q] = entries[p]) => p = q
          /\ \A p \in Pages : entries[p] # 0 /\ Known(p) # 0 => entries[p] = Known(p)
    /\ runner = "registry" => \A p \in Pages : registry[p] # 0 => registry[p] \in {entries[p], history[p]}
    /\ runner \in {"list", "load", "secrets", "hashes", "spawn"} => entries = registry

\* Whatever runs or is published for a page has a UID that the page owns.
UsedInv ==
    /\ \A p \in Pages : uid[p] # 0 => Owns(p, uid[p])
    /\ \A p \in Pages, u \in Uids : <<p, u>> \in routes => Owns(p, u)
    /\ runner \in Reset \ {"drop key", "drop routes"} => routes = {}

\* A running endpoint holds the capability of its page, which the HA broker is told next.
SecretInv ==
    /\ runner \in Round \ {"hashes"} => hashes = secrets
    /\ runner \in {"hashes", "spawn"} => \A p \in listed : secrets[p] # 0
    /\ \A p \in Pages \ misread :
          uid[p] # 0 /\ (runner \in {"hashes", "spawn"} => p \in listed) => token[p] = secrets[p]

IInv == TypeOK /\ OwnerInv /\ EntryInv /\ UsedInv /\ SecretInv /\ NoDuplicate
=============================================================================
