--------------------------- MODULE ActionRequest ---------------------------
(***************************************************************************)
(* One action on its way from the guest's browser to Home Assistant and    *)
(* the answer on its way back.  It passes four processes:                  *)
(*                                                                         *)
(*   front    the page endpoint (cmd/guest-endpoint/main.go), which starts *)
(*            the clock of 8 seconds and stops waiting when it has run out *)
(*   service  a thread of guest_service.py, one of at most 64              *)
(*   broker   the guest listener of ha_broker.py, which serves one request *)
(*            at a time; the others wait in its backlog                    *)
(*   ha       Home Assistant, which may carry out a command long after the *)
(*            broker has given up on it                                    *)
(*                                                                         *)
(* Every process checks the clock on its own before it passes the request  *)
(* on, and the one behind it goes on when the one before it has given up.  *)
(* The guest must not be told that a command was not sent when it was, and *)
(* the operator's summary of the request must not say so either: for that  *)
(* a mark travels back with the answer (stages[10]): 1 not dispatched, 0   *)
(* unknown, 2 invoked, 3 confirmed.                                        *)
(***************************************************************************)
EXTENDS Naturals, Sequences, FiniteSets

CONSTANTS
    Requests,   \* the action requests
    Slots,      \* GUEST_REQUEST_SLOTS, 64
    NoRequest   \* the broker is idle

ASSUME ConstantsAssumption == Slots \in Nat \ {0} /\ NoRequest \notin Requests

VARIABLES
    late,      \* the requests whose 8 seconds are over
    front,     \* the endpoint's step for a request
    service,   \* the service thread's step for a request
    mark,      \* the service's stages[10]
    backlog,   \* the requests that wait for the broker, in order
    serving,   \* the one that it serves
    step,      \* and its step for it
    reply,     \* the broker's reply to the service
    ha,        \* what Home Assistant knows of the command
    answer,    \* what the guest is told
    summary,   \* what the endpoint's log says
    cut        \* history: the requests whose reply broke off between its headers and its body

broker == <<backlog, serving, step, reply>>
told == <<front, answer, summary>>
vars == <<late, cut, told, service, mark, broker, ha>>

NoReply == [code |-> "none", mark |-> 0, fault |-> "none"]
Reply(c, m, f) == [code |-> c, mark |-> m, fault |-> f]

Init ==
    /\ late = {} /\ cut = {}
    /\ front = [r \in Requests |-> "new"] /\ service = [r \in Requests |-> "none"]
    /\ mark = [r \in Requests |-> 1]
    /\ backlog = <<>> /\ serving = NoRequest /\ step = "idle"
    /\ reply = [r \in Requests |-> NoReply]
    /\ ha = [r \in Requests |-> "none"]
    /\ answer = [r \in Requests |-> "none"] /\ summary = [r \in Requests |-> "none"]

Expire(r) ==
    /\ front[r] # "new" /\ r \notin late
    /\ late' = late \union {r}
    /\ UNCHANGED <<cut, told, service, mark, broker, ha>>

-----------------------------------------------------------------------------
(* The endpoint                                                            *)

\* The deferred summary of ServeHTTP.  A disconnect, a slow request and an error are all
\* "failed" here.
Outcome(a, m, f, gone, slow) ==
    LET first == IF f = "deadline" /\ ~gone THEN IF m = 1 THEN "deadline" ELSE "uncertain"
                 ELSE IF \/ gone \/ slow \/ f # "none"
                         \/ a \in {"unavailable", "deadline", "uncertain"} THEN "failed"
                 ELSE "ok"
    IN  IF first # "ok" /\ m \notin {1, 3} THEN "uncertain" ELSE first

\* The guest is answered, unless the browser has gone.
Answered(r, a, m, f) ==
    /\ front' = [front EXCEPT ![r] = "done"]
    /\ \E gone, slow \in BOOLEAN :
          /\ r \in late => slow   \* slow is 5 seconds, late 8
          /\ answer' = [answer EXCEPT ![r] = IF gone THEN "none" ELSE a]
          /\ summary' = [summary EXCEPT ![r] = Outcome(a, m, f, gone, slow)]

EndpointAccepts(r) ==
    /\ front[r] = "new"
    /\ front' = [front EXCEPT ![r] = "proxied"]
    /\ service' = [service EXCEPT ![r] = "accept"]
    /\ UNCHANGED <<late, cut, answer, summary, mark, broker, ha>>

\* No slot, the time is over already, or the path or its size is refused.
EndpointRefuses(r) ==
    /\ front[r] = "new"
    /\ \E a \in {"unavailable", "denied"} : Answered(r, a, 0, "none")
    /\ UNCHANGED <<late, cut, service, mark, broker, ha>>

EndpointTimeout(r) ==
    /\ front[r] = "proxied" /\ r \in late
    /\ Answered(r, "unavailable", 0, "none")
    /\ UNCHANGED <<late, cut, service, mark, broker, ha>>

\* The browser goes away, or the connection to the service breaks; the service goes on.
EndpointLoses(r) ==
    /\ front[r] = "proxied"
    /\ Answered(r, "unavailable", 0, "none")
    /\ UNCHANGED <<late, cut, service, mark, broker, ha>>

-----------------------------------------------------------------------------
(* The guest service                                                       *)

Busy == {r \in Requests : service[r] \notin {"none", "accept", "done"}}

\* The thread ends with an answer; nobody may be waiting for it any more.
ServiceEnds(r, a, m, f) ==
    /\ service' = [service EXCEPT ![r] = "done"]
    /\ IF front[r] = "proxied" THEN Answered(r, a, m, f) ELSE UNCHANGED told

Moves(r, from, to) ==
    /\ service[r] = from
    /\ service' = [service EXCEPT ![r] = to]
    /\ UNCHANGED <<late, cut, told, mark, broker, ha>>
Ends(r, from, a, f) ==
    /\ service[r] = from
    /\ ServiceEnds(r, a, mark[r], f)
    /\ UNCHANGED <<late, cut, mark, broker, ha>>

ServiceBusy(r) == Cardinality(Busy) = Slots /\ Ends(r, "accept", "unavailable", "none")
ServiceAccepts(r) == Cardinality(Busy) < Slots /\ Moves(r, "accept", "check")

\* action_remaining, before the request is looked at, before and after the broker's
\* socket is connected: nothing was sent, and the mark says so.
ServiceDeadline(r) ==
    r \in late /\ \E from \in {"check", "route", "connect"} : Ends(r, from, "deadline", "deadline")
ServiceChecked(r) == r \notin late /\ Moves(r, "check", "route")
\* The Connector is not healthy, or the path, the cookie or the payload is refused.
ServiceRefuses(r) ==
    \E a \in {"unavailable", "denied"} : Ends(r, "route", a, IF a = "denied" THEN "none" ELSE "other")
ServiceRouted(r) == r \notin late /\ Moves(r, "route", "connect")
ServiceUnconnected(r) == Ends(r, "connect", "unavailable", "other")

\* Mutant: the mark is left as it is.
SendUnmarked(r) ==
    /\ service[r] = "connect" /\ r \notin late
    /\ service' = [service EXCEPT ![r] = "await"]
    /\ backlog' = Append(backlog, r)
    /\ UNCHANGED <<late, cut, told, mark, serving, step, reply, ha>>
\* From here on only the broker knows.
Send(r) ==
    /\ service[r] = "connect" /\ r \notin late
    /\ service' = [service EXCEPT ![r] = "await"]
    /\ mark' = [mark EXCEPT ![r] = 0]
    /\ backlog' = Append(backlog, r)
    /\ UNCHANGED <<late, cut, told, serving, step, reply, ha>>

\* The broker's status and code become the guest's answer, its mark the service's.
Receive(r) ==
    /\ service[r] = "await" /\ reply[r].code \notin {"none", "closed"}
    /\ mark' = [mark EXCEPT ![r] = reply[r].mark]
    /\ ServiceEnds(r, reply[r].code, reply[r].mark, reply[r].fault)
    /\ reply' = [reply EXCEPT ![r] = NoReply]
    /\ UNCHANGED <<late, cut, backlog, serving, step, ha>>

\* The reply is not what was expected, or it never comes: the socket's timeout was the
\* rest of the 8 seconds when it was set.
ReceiveInvalid(r) ==
    /\ service[r] = "await" /\ reply[r].code # "none"
    /\ mark' = [mark EXCEPT ![r] = IF reply[r].code = "closed" THEN @ ELSE reply[r].mark]
    /\ ServiceEnds(r, "unavailable", mark'[r], "other")
    /\ reply' = [reply EXCEPT ![r] = NoReply]
    /\ UNCHANGED <<late, cut, backlog, serving, step, ha>>
\* The headers are one write of the broker's and the body another.  If it breaks off in
\* between, the status and the mark have come and the code has not: a success does not
\* parse and is told as an invalid request, an error without its code as a denial.
ReceiveCut(r) ==
    /\ service[r] = "await" /\ reply[r].code \notin {"none", "closed"}
    /\ mark' = [mark EXCEPT ![r] = reply[r].mark]
    /\ ServiceEnds(r, "denied", reply[r].mark, reply[r].fault)
    /\ reply' = [reply EXCEPT ![r] = NoReply]
    /\ cut' = cut \union {r}
    /\ UNCHANGED <<late, backlog, serving, step, ha>>
\* Mutant: the guest is told that the command was too late.
ReceiveTooLate(r) == r \in late /\ Ends(r, "await", "deadline", "other")
ReceiveTimeout(r) == r \in late /\ Ends(r, "await", "unavailable", "other")

-----------------------------------------------------------------------------
(* The broker                                                              *)

BrokerTakes ==
    /\ serving = NoRequest /\ backlog # <<>>
    /\ serving' = Head(backlog) /\ backlog' = Tail(backlog) /\ step' = "entry"
    /\ UNCHANGED <<late, cut, told, service, mark, reply, ha>>

\* The reply is written, if the service still holds its end.
Replies(m) ==
    /\ reply' = [reply EXCEPT ![serving] = IF service[serving] = "await" THEN m ELSE @]
    /\ serving' = NoRequest /\ step' = "idle"
    /\ UNCHANGED <<late, cut, told, service, mark, backlog, ha>>
Proceeds(from, to) ==
    /\ step = from /\ step' = to
    /\ UNCHANGED <<late, cut, told, service, mark, backlog, serving, reply, ha>>

\* ActionDeadlineExceeded, at the entry, at a read of Home Assistant (proximity, state)
\* and before the dispatch.
BrokerDeadline ==
    /\ step \in {"entry", "read", "dispatch"} /\ serving \in late
    /\ Replies(Reply("deadline", 1, "deadline"))
BrokerEnters == serving \notin late /\ Proceeds("entry", "read")
\* Events are reported to the Gateway on the way; a report that fails is noted.
EventFault == {"none", "other"}
\* A denial by the grant, the session, the rate limit or the policy, before the reads or
\* at the recheck after them.
BrokerDenies ==
    step \in {"read", "recheck"} /\ \E f \in EventFault : Replies(Reply("denied", 1, f))
\* A read that fails, or the grant that runs out before the dispatch, is told as uncertain;
\* an error of the store as unavailable.
BrokerReadFails ==
    /\ step \in {"read", "recheck", "dispatch"}
    /\ \E c \in {"uncertain", "unavailable"} : Replies(Reply(c, 1, "other"))
BrokerReads == serving \notin late /\ Proceeds("read", "recheck")
BrokerRechecks == Proceeds("recheck", "dispatch")
\* The last look at the clock; the request may still linger before it is sent.
BrokerChecks == serving \notin late /\ Proceeds("dispatch", "send")

\* urlopen: the command leaves, or the connection fails.
BrokerSends ==
    /\ step = "send" /\ step' = "await"
    /\ \E h \in {"none", "sent"} : ha' = [ha EXCEPT ![serving] = h]
    /\ UNCHANGED <<late, cut, told, service, mark, backlog, serving, reply>>
BrokerConfirmed ==
    step = "await" /\ ha[serving] = "done" /\ \E f \in EventFault : Replies(Reply("done", 3, f))
\* Mutant: no timeout.
BrokerPatient == step = "await" /\ ha[serving] = "done" /\ Replies(Reply("uncertain", 2, "other"))
\* The timeout, an error or an interruption; the command may be under way.
BrokerGivesUp == step = "await" /\ serving \in late /\ Replies(Reply("uncertain", 2, "other"))
BrokerFails == step = "await" /\ Replies(Reply("uncertain", 2, "other"))
\* Any other exception: the connection is closed without a reply.
BrokerBreaks == step \notin {"idle", "send"} /\ Replies(Reply("closed", 0, "none"))

HAExecutes(r) ==
    /\ ha[r] = "sent"
    /\ ha' = [ha EXCEPT ![r] = "done"]
    /\ UNCHANGED <<late, cut, told, service, mark, broker>>

-----------------------------------------------------------------------------
EndpointNext(r) == EndpointAccepts(r) \/ EndpointRefuses(r) \/ EndpointTimeout(r)
ServiceNext(r) ==
    \/ ServiceBusy(r) \/ ServiceAccepts(r) \/ ServiceDeadline(r) \/ ServiceChecked(r)
    \/ ServiceRouted(r) \/ Send(r) \/ Receive(r) \/ ReceiveTimeout(r)
RequestFault(r) ==
    \/ EndpointLoses(r) \/ ServiceRefuses(r) \/ ServiceUnconnected(r)
    \/ ReceiveInvalid(r) \/ ReceiveCut(r)
\* What the broker does by itself, and what it does because of Home Assistant, the grant
\* or a fault.
BrokerNext ==
    \/ BrokerTakes \/ BrokerDeadline \/ BrokerEnters \/ BrokerRechecks \/ BrokerChecks
    \/ BrokerSends \/ BrokerGivesUp
BrokerDepends ==
    BrokerReads \/ BrokerDenies \/ BrokerReadFails \/ BrokerConfirmed \/ BrokerFails \/ BrokerBreaks
Next ==
    \/ \E r \in Requests :
          EndpointNext(r) \/ ServiceNext(r) \/ RequestFault(r) \/ Expire(r) \/ HAExecutes(r)
    \/ BrokerNext \/ BrokerDepends

Spec == Init /\ [][Next]_vars
\* Time goes on, and every process with it: its calls have a timeout, which is what is
\* left of the 8 seconds.  Home Assistant may never answer.
FairSpec ==
    /\ Spec
    /\ \A r \in Requests : WF_vars(Expire(r)) /\ WF_vars(EndpointNext(r)) /\ WF_vars(ServiceNext(r))
    /\ WF_vars(BrokerNext)

-----------------------------------------------------------------------------
Answers == {"none", "done", "denied", "deadline", "uncertain", "unavailable"}
TypeOK ==
    /\ late \subseteq Requests /\ cut \subseteq Requests
    /\ front \in [Requests -> {"new", "proxied", "done"}]
    /\ service \in [Requests -> {"none", "accept", "check", "route", "connect", "await", "done"}]
    /\ mark \in [Requests -> 0 .. 3]
    /\ backlog \in Seq(Requests) /\ serving \in Requests \union {NoRequest}
    /\ step \in {"idle", "entry", "read", "recheck", "dispatch", "send", "await"}
    /\ (serving = NoRequest) <=> (step = "idle")
    /\ reply \in [Requests -> [code: Answers \union {"closed"}, mark: 0 .. 3,
                               fault: {"none", "other", "deadline"}]]
    /\ ha \in [Requests -> {"none", "sent", "done"}]
    /\ answer \in [Requests -> Answers]
    /\ summary \in [Requests -> {"none", "ok", "failed", "deadline", "uncertain"}]
    /\ IsFiniteSet(Busy) /\ Cardinality(Busy) <= Slots

\* What the guest is told is true, and stays true: "timed out before dispatch" means that
\* Home Assistant has not got the command and never will, success that it has carried it
\* out (guest_service.py:66), and a denial that it will not get it, with one exception: a
\* reply that breaks off after its headers is told as a denial whatever it said, so that a
\* command that was carried out can be denied (guest_service.py:249, 582).
Truthful ==
    \A r \in Requests :
        /\ answer[r] = "deadline" => ha[r] = "none"
        /\ answer[r] = "denied" => ha[r] = "none" \/ r \in cut
        /\ answer[r] = "done" => ha[r] = "done"

\* A command that Home Assistant has got, or gets later, and has not confirmed, is in the
\* operator's log as uncertain, never as an error, a timeout or a success
\* (docs/ha-0.1.126-candidate.md:88, "A deadline summary claims non-dispatch only with
\* positive evidence.  A service invocation without confirmation is uncertain").
Evidence ==
    \A r \in Requests : ha[r] # "none" /\ summary[r] # "none" => summary[r] = "uncertain" \/ mark[r] = 3

\* No thread keeps its slot forever, and no request waits forever for the broker, even if
\* Home Assistant never answers.
Released == <>[](Busy = {} /\ backlog = <<>> /\ serving = NoRequest)

-----------------------------------------------------------------------------
(* The inductive invariant behind Truthful and Evidence (ActionRequestProofs). *)

Queued(r) == \E i \in 1 .. Len(backlog) : backlog[i] = r
\* Home Assistant has not got the command and the broker will not send it any more.
Never(r) == ha[r] = "none" /\ ~Queued(r) /\ serving # r
\* Nor will the service.
Over(r) == Never(r) /\ service[r] \in {"none", "done"}

\* A request is sent to the broker once, and gets its reply after the broker has served it.
PipeInv ==
    /\ \A i, j \in 1 .. Len(backlog) : i # j => backlog[i] # backlog[j]
    /\ \A r \in Requests : Queued(r) \/ serving = r => service[r] \in {"await", "done"}
    /\ \A r \in Requests :
          Queued(r) \/ serving = r \/ service[r] \notin {"await", "done"} => reply[r] = NoReply
    /\ \A r \in Requests : Queued(r) => serving # r

\* Home Assistant gets it in the broker's last step only.
CommandInv ==
    \A r \in Requests : ha[r] # "none" =>
        service[r] \in {"await", "done"} /\ ~Queued(r) /\ (serving = r => step = "await")

\* What the service's mark says about the dispatch.
MarkInv ==
    \A r \in Requests :
        /\ service[r] \in {"none", "accept", "check", "route", "connect"} => mark[r] = 1
        /\ service[r] = "await" => mark[r] = 0
        /\ service[r] = "done" /\ mark[r] = 1 => Never(r)
        /\ mark[r] = 3 => ha[r] = "done"

\* What the broker's reply says about it.
ReplyInv ==
    \A r \in Requests :
        /\ reply[r].code \in {"denied", "deadline", "unavailable"} => reply[r].mark = 1
        /\ reply[r].code = "uncertain" => reply[r].mark \in {1, 2}
        /\ reply[r].code = "done" => reply[r].mark = 3
        /\ reply[r].code \in {"none", "closed"} => reply[r].mark = 0
        /\ reply[r].mark = 1 => Never(r)
        /\ reply[r].mark = 2 => reply[r].fault = "other"
        /\ reply[r].mark = 3 => ha[r] = "done"

\* What the guest and the operator have been told.
ToldInv ==
    \A r \in Requests :
        /\ front[r] = "new" => service[r] = "none"
        /\ front[r] = "proxied" => service[r] # "none"
        /\ front[r] # "done" => answer[r] = "none" /\ summary[r] = "none"
        /\ r \in cut => service[r] = "done"
        /\ answer[r] = "deadline" => Over(r)
        /\ answer[r] = "denied" => Over(r) \/ r \in cut
        /\ answer[r] = "done" => ha[r] = "done"
        /\ summary[r] \notin {"none", "uncertain"} /\ mark[r] # 3 => Over(r)

IInv == TypeOK /\ PipeInv /\ CommandInv /\ MarkInv /\ ReplyInv /\ ToldInv
=============================================================================
