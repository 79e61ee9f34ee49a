----------------------------- MODULE Enrollment -----------------------------
(***************************************************************************)
(* The identity of the Connector: its one-time enrollment at LayerV        *)
(* (ConnectorPublisher in guest_resources.py), the processes the broker    *)
(* runs for it, and its removal by a connection reset (app_runner.py).     *)
(*                                                                         *)
(* An identity is five things written one after the other: the status row  *)
(* of the resource database, the wrapping key, the two files that          *)
(* "qurl login" seals under that key, and a marker.  Login may be tried    *)
(* once per authorization; whatever goes wrong after that has to be        *)
(* resolved by the owner, with a reset, which removes the same things one  *)
(* after the other.  A stop of the App may come between any two of these   *)
(* steps.  The broker's threads share the publisher's lock (call is its    *)
(* holder); the App runner stops the broker with a signal and, if that     *)
(* takes longer than 10 seconds, kills it.                                 *)
(*                                                                         *)
(* Names that PolicyPublication has too carry the name of this module,     *)
(* because one module holds the proofs about both (PolicyIdentityProofs).  *)
(***************************************************************************)
EXTENDS Naturals

VARIABLES
    status,    \* enrollment_state in guest-resources.sqlite3
    key,       \* agent-wrapping-key is there
    agent,     \* agent_state.sealed.json is there
    runtime,   \* runtime_mode.json is there
    complete,  \* agent-bootstrap-complete is there
    shares,    \* local_shares.json is there
    token,     \* the management API key is there
    request,   \* reset-connection.request is there
    runner,    \* the App runner: the step of its loop or of the reset
    broker,    \* the broker process
    recovery,  \* RECOVERY_REQUIRED, publisher.recovery_required
    call,      \* the holder of the publisher's lock
    stray,     \* a "qurl login" that has outlived its broker runs
    daemon,    \* the Connector daemon
    faulty,    \* may calls, files and processes still fail
    logins,    \* history: logins since the last authorization, at most 2
    killed     \* history: a broker was killed since the App was started

files == <<status, key, agent, runtime, complete, shares>>
procs == <<broker, recovery, call, stray, daemon>>
history == <<logins, killed>>
enrollmentVars == <<files, token, request, runner, procs, faulty, history>>

EnrollmentInit ==
    /\ status = "fresh" /\ key = FALSE /\ agent = FALSE /\ runtime = FALSE
    /\ complete = FALSE /\ shares = FALSE
    /\ token = FALSE /\ request = FALSE
    /\ runner = "start" /\ broker = "down" /\ recovery = FALSE
    /\ call = "free" /\ stray = FALSE /\ daemon = "none"
    /\ faulty = TRUE /\ logins = 0 /\ killed = FALSE

\* _fresh: neither a file nor the database knows of an identity
Fresh ==
    /\ ~complete /\ ~key /\ ~agent /\ ~runtime /\ ~shares
    /\ status \in {"fresh", "reset-authorized"}
\* _require_enrolled
Enrolled == complete /\ key /\ agent /\ runtime

-----------------------------------------------------------------------------
(* ConnectorPublisher.__call__, restore and _bootstrap                     *)

Step(from, to) == call = from /\ call' = to

\* A publication, or the restore of the reconciliation thread (which has nothing to do
\* for a fresh installation).
CallBegin ==
    /\ broker # "down" /\ ~recovery /\ call = "free"
    /\ IF Fresh THEN call' = "mint" /\ UNCHANGED recovery
       ELSE IF Enrolled THEN call' = "start" /\ UNCHANGED recovery
       ELSE recovery' = TRUE /\ UNCHANGED call
    /\ UNCHANGED <<files, token, request, runner, broker, stray, daemon, faulty, history>>

MintToken ==
    /\ Step("mint", "advance")
    /\ UNCHANGED <<files, token, request, runner, broker, recovery, stray, daemon, faulty, history>>

\* Mutant: the attempt is not recorded before it is made.
AdvanceLater ==
    /\ Step("advance", "key")
    /\ UNCHANGED <<files, token, request, runner, broker, recovery, stray, daemon, faulty, history>>
\* _advance_enrollment: from here on there is no second try.
Advance ==
    /\ call = "advance"
    /\ IF status \in {"fresh", "reset-authorized"}
       THEN status' = "enrolling" /\ call' = "key" /\ UNCHANGED recovery
       ELSE recovery' = TRUE /\ call' = "free" /\ UNCHANGED status
    /\ UNCHANGED <<key, agent, runtime, complete, shares, token, request, runner, broker,
                   stray, daemon, faulty, history>>
\* O_EXCL: an existing key is never overwritten.
WriteKey ==
    /\ call = "key"
    /\ IF key THEN call' = "free" /\ UNCHANGED key ELSE key' = TRUE /\ call' = "login"
    /\ UNCHANGED <<status, agent, runtime, complete, shares, token, request, runner, broker,
                   recovery, stray, daemon, faulty, history>>

\* The CLI runs with the enrollment token and with the key.
LoginBegin ==
    /\ call = "login"
    /\ IF complete \/ agent
       THEN call' = "free" /\ UNCHANGED logins
       ELSE call' = "wait" /\ logins' = IF logins < 2 THEN logins + 1 ELSE 2
    /\ UNCHANGED <<files, token, request, runner, broker, recovery, stray, daemon, faulty, killed>>

\* It seals what LayerV gave it, and exits.
LoginEnds ==
    /\ Step("wait", "confirm")
    /\ agent' = TRUE /\ runtime' = TRUE
    /\ UNCHANGED <<status, key, complete, shares, token, request, runner, broker, recovery,
                   stray, daemon, faulty, history>>

\* Rejected, timed out or killed, before or after it has written a file.
LoginFails ==
    /\ Step("wait", "free") /\ faulty
    /\ \/ UNCHANGED <<agent, runtime>>
       \/ agent' = TRUE /\ runtime' \in {runtime, TRUE}
    /\ UNCHANGED <<status, key, complete, shares, token, request, runner, broker, recovery,
                   stray, daemon, faulty, history>>

\* A login whose broker was killed ends on its own, with its files or without them.
StrayEnds ==
    /\ stray
    /\ stray' = FALSE
    /\ \/ agent' = TRUE /\ runtime' = TRUE
       \/ UNCHANGED <<agent, runtime>>
    /\ UNCHANGED <<status, key, complete, shares, token, request, runner, broker, recovery,
                   call, daemon, faulty, history>>

Confirm ==
    /\ call = "confirm"
    /\ IF agent /\ runtime /\ status = "enrolling"
       THEN status' = "enrolled" /\ call' = "mark" ELSE call' = "free" /\ UNCHANGED status
    /\ recovery' = (recovery \/ (agent /\ runtime /\ status # "enrolling"))
    /\ UNCHANGED <<key, agent, runtime, complete, shares, token, request, runner, broker,
                   stray, daemon, faulty, history>>

MarkBootstrapped ==
    /\ Step("mark", "start")
    /\ complete' = TRUE
    /\ UNCHANGED <<status, key, agent, runtime, shares, token, request, runner, broker,
                   recovery, stray, daemon, faulty, history>>

\* _start.  A daemon that a killed broker has left behind holds the lease: the new one
\* is not ready in time and is stopped.
StartDaemon ==
    /\ call = "start"
    /\ IF ~Enrolled THEN recovery' = TRUE /\ call' = "free" /\ UNCHANGED daemon
       ELSE /\ UNCHANGED recovery
            /\ IF daemon = "orphan" THEN call' = "free" /\ UNCHANGED daemon
               ELSE daemon' = "ours" /\ call' = "publish"
    /\ UNCHANGED <<files, token, request, runner, broker, stray, faulty, history>>

Publish ==
    /\ Step("publish", "free")
    /\ shares' = TRUE
    /\ UNCHANGED <<status, key, agent, runtime, complete, token, request, runner, broker,
                   recovery, stray, daemon, faulty, history>>

\* LayerV does not know the identity any more (Connector exit 4).
PublishRejected ==
    /\ Step("publish", "free") /\ faulty
    /\ recovery' = TRUE
    /\ UNCHANGED <<files, token, request, runner, broker, stray, daemon, faulty, history>>

\* Any other failure of a step: the call ends, what it has written stays.  (The restore of
\* a broker that starts ends the App if it fails: RestartApp.)
PublisherFails ==
    /\ call \notin {"free", "wait"} /\ faulty
    /\ call' = "free"
    /\ daemon' \in IF call = "start" /\ daemon = "ours" THEN {"ours", "none"} ELSE {daemon}
    /\ UNCHANGED <<files, token, request, runner, broker, recovery, stray, faulty, history>>

DaemonDies ==
    /\ daemon # "none" /\ faulty
    /\ daemon' = "none"
    /\ UNCHANGED <<files, token, request, runner, broker, recovery, call, stray, faulty, history>>

-----------------------------------------------------------------------------
(* app_runner.py                                                           *)

Onboard ==
    /\ runner = "start" /\ ~token
    /\ token' = TRUE
    /\ UNCHANGED <<files, request, runner, procs, faulty, history>>

\* The key is refused when the App registers with it.
OnboardFails ==
    /\ runner = "start" /\ token /\ faulty
    /\ token' = FALSE
    /\ UNCHANGED <<files, request, runner, procs, faulty, history>>

\* The broker restores its daemon, or finds that it cannot.
Start ==
    /\ runner = "start" /\ token
    /\ runner' = "run" /\ broker' = "up"
    /\ recovery' = (~Fresh /\ ~Enrolled)
    /\ call' = IF Enrolled /\ shares THEN "start" ELSE "free"
    /\ UNCHANGED <<files, token, request, stray, daemon, faulty, history>>

\* The owner's reset, accepted by the Gateway.  In the end the owner only resets an
\* installation that asks for it.
RequestReset ==
    /\ runner = "run" /\ ~request /\ (recovery \/ faulty)
    /\ request' = TRUE
    /\ UNCHANGED <<files, token, runner, procs, faulty, history>>

StopBegin ==
    /\ runner = "run" /\ request
    /\ runner' = "stop" /\ broker' = "closing"
    /\ UNCHANGED <<files, token, request, recovery, call, stray, daemon, faulty, history>>

\* Mutant: the daemon is left to its own devices.
CloseLock ==
    /\ broker = "closing" /\ call = "free"
    /\ broker' = "down" /\ daemon' = IF daemon = "ours" THEN "orphan" ELSE daemon
    /\ runner' = "invalidate"
    /\ UNCHANGED <<files, token, request, recovery, call, stray, faulty, history>>
\* publisher.close gets the lock and stops the daemon.
Close ==
    /\ broker = "closing" /\ call = "free"
    /\ broker' = "down" /\ daemon' = IF daemon = "ours" THEN "none" ELSE daemon
    /\ runner' = "invalidate"
    /\ UNCHANGED <<files, token, request, recovery, call, stray, faulty, history>>

\* It does not within 10 seconds: the broker is killed, its children are not.
Kill ==
    /\ faulty /\ broker = "closing" /\ call # "free"
    /\ broker' = "down" /\ call' = "free"
    /\ stray' = (stray \/ call = "wait")
    /\ daemon' = IF daemon = "ours" THEN "orphan" ELSE daemon
    /\ runner' = "invalidate" /\ killed' = TRUE
    /\ UNCHANGED <<files, token, request, recovery, faulty, logins>>

\* _reset_connection_files, in the order of the code
Invalidate ==
    /\ runner = "invalidate" /\ runner' = "token"
    /\ status' = "reset-authorized" /\ logins' = 0
    /\ UNCHANGED <<key, agent, runtime, complete, shares, token, request, procs, faulty, killed>>
DropToken ==
    /\ runner = "token" /\ runner' = "state"
    /\ token' = FALSE
    /\ UNCHANGED <<files, request, procs, faulty, history>>
\* Mutant: the state of the CLI is kept.
KeepState ==
    /\ runner = "state" /\ runner' = "marker"
    /\ UNCHANGED <<files, token, request, procs, faulty, history>>
DropState ==
    /\ runner = "state" /\ runner' = "marker"
    /\ agent' = FALSE /\ runtime' = FALSE /\ shares' = FALSE
    /\ UNCHANGED <<status, key, complete, token, request, procs, faulty, history>>
DropMarker ==
    /\ runner = "marker" /\ runner' = "key"
    /\ complete' = FALSE
    /\ UNCHANGED <<status, key, agent, runtime, shares, token, request, procs, faulty, history>>
DropKey ==
    /\ runner = "key" /\ runner' = "request"
    /\ key' = FALSE
    /\ UNCHANGED <<status, agent, runtime, complete, shares, token, request, procs, faulty, history>>
DropRequest ==
    /\ runner = "request" /\ runner' = "start"
    /\ request' = FALSE
    /\ UNCHANGED <<files, token, procs, faulty, history>>

\* The App is stopped, with everything that runs in it, and started again.
RestartApp ==
    /\ faulty
    /\ runner' = "start" /\ broker' = "down" /\ recovery' = FALSE
    /\ call' = "free" /\ stray' = FALSE /\ daemon' = "none" /\ killed' = FALSE
    /\ UNCHANGED <<files, token, request, faulty, logins>>

\* Some of the files are lost; the resource database is not.
Lose ==
    /\ faulty /\ runner = "start" /\ ~stray
    /\ key' \in {key, FALSE} /\ complete' \in {complete, FALSE}
    /\ \/ UNCHANGED <<agent, runtime, shares>>
       \/ agent' = FALSE /\ runtime' = FALSE /\ shares' = FALSE
    /\ UNCHANGED <<status, token, request, runner, procs, faulty, history>>

Calm ==
    /\ faulty
    /\ faulty' = FALSE
    /\ UNCHANGED <<files, token, request, runner, procs, history>>

-----------------------------------------------------------------------------
LockStep ==
    CallBegin \/ MintToken \/ Advance \/ WriteKey \/ LoginBegin \/ Confirm
      \/ MarkBootstrapped \/ StartDaemon \/ Publish \/ PublishRejected \/ PublisherFails
ChildStep == LoginEnds \/ LoginFails \/ StrayEnds \/ DaemonDies
StopStep == StopBegin \/ Close \/ Kill
ResetStep == Invalidate \/ DropToken \/ DropState \/ DropMarker \/ DropKey \/ DropRequest
RunnerStep == Onboard \/ OnboardFails \/ Start \/ RequestReset \/ StopStep \/ ResetStep
EnrollmentNext == LockStep \/ ChildStep \/ RunnerStep \/ RestartApp \/ Lose \/ Calm

\* Steps go on, the owner asks for guests, and resets when told that it is necessary.
Fairness ==
    /\ WF_enrollmentVars(LockStep) /\ WF_enrollmentVars(LoginEnds) /\ WF_enrollmentVars(Calm)
    /\ WF_enrollmentVars(Onboard) /\ WF_enrollmentVars(Start)
    /\ WF_enrollmentVars(StopStep) /\ WF_enrollmentVars(ResetStep)
    /\ WF_enrollmentVars(recovery /\ RequestReset)

EnrollmentSpec == EnrollmentInit /\ [][EnrollmentNext]_enrollmentVars
EnrollmentFairSpec == EnrollmentSpec /\ Fairness

-----------------------------------------------------------------------------
EnrollmentTypeOK ==
    /\ status \in {"fresh", "enrolling", "enrolled", "reset-authorized"}
    /\ {key, agent, runtime, complete, shares} \subseteq BOOLEAN
    /\ {token, request, recovery, stray, faulty, killed} \subseteq BOOLEAN
    /\ runner \in {"start", "run", "stop", "invalidate", "token", "state", "marker", "key",
                   "request"}
    /\ broker \in {"down", "up", "closing"}
    /\ call \in {"free", "mint", "advance", "key", "login", "wait", "confirm", "mark",
                 "start", "publish"}
    /\ daemon \in {"none", "ours", "orphan"}
    /\ logins \in 0 .. 2
    /\ (broker = "up") <=> (runner = "run")
    /\ (broker = "closing") <=> (runner = "stop")
    /\ broker = "down" => call = "free" /\ daemon # "ours"

\* A login is tried once per authorization, whatever was interrupted, lost or killed
\* (SECURITY.md:50, "Missing or rejected established state fails closed and requires
\* explicit administrator recovery, never automatic re-enrollment").
OneLogin == logins < 2

\* When a reset removes the files of the identity, no process of the Connector is running
\* that could use or write them, neither of this broker nor of an earlier one
\* (guest_resources.py:450, "Leave headroom within app_runner's 10-second stop budget"),
\* unless a call held the lock for those 10 seconds and a broker was killed since the App
\* was started.
ChildrenStopped ==
    runner \in {"token", "state", "marker", "key", "request"} /\ ~killed
        => ~stray /\ daemon = "none"

\* The owner is never stuck: an installation that cannot go on, and is reset when it says
\* so, has a working identity in the end.
Recovers == recovery ~> Enrolled /\ ~recovery

-----------------------------------------------------------------------------
(* The inductive invariant behind the safety properties (PolicyIdentityProofs). *)

\* While an enrolment may still be begun, or its login has not been begun, there was none
\* since the last authorization.
LoginInv ==
    /\ status \in {"fresh", "reset-authorized"} => logins = 0
    /\ call \in {"key", "login"} => logins = 0 /\ status = "enrolling"

\* Only a broker that was killed leaves children behind.
ChildInv == stray \/ daemon = "orphan" => killed

EnrollmentIInv == EnrollmentTypeOK /\ LoginInv /\ OneLogin /\ ChildInv
=============================================================================
