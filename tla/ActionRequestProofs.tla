------------------------ MODULE ActionRequestProofs ------------------------
(* Proofs about ActionRequest, for any set of requests and any number of slots. *)
EXTENDS ActionRequest, FiniteSetTheorems, SequenceTheorems, TLAPS

-----------------------------------------------------------------------------
(* The broker's backlog                                                    *)

LEMMA SameQueue == UNCHANGED backlog => \A r : Queued(r)' <=> Queued(r)
  BY DEF Queued

\* A request that is sent to the broker is queued behind the others.
LEMMA QueueAppend ==
    ASSUME backlog \in Seq(Requests), NEW r \in Requests, backlog' = Append(backlog, r)
    PROVE  /\ backlog' \in Seq(Requests)
           /\ \A q : Queued(q)' <=> Queued(q) \/ q = r
           /\ /\ \A i, j \in 1 .. Len(backlog) : i # j => backlog[i] # backlog[j]
              /\ ~Queued(r)
              => \A i, j \in 1 .. Len(backlog') : i # j => backlog'[i] # backlog'[j]
<1>1. /\ backlog' \in Seq(Requests) /\ Len(backlog) \in Nat /\ Len(backlog') = Len(backlog) + 1
      /\ \A i \in 1 .. Len(backlog) : backlog'[i] = backlog[i]
      /\ backlog'[Len(backlog) + 1] = r
  BY AppendProperties
<1>2. \A i \in 1 .. Len(backlog') : i \in 1 .. Len(backlog) \/ i = Len(backlog) + 1
  BY <1>1
<1>3. \A q : Queued(q)' <=> Queued(q) \/ q = r
  <2> TAKE q
  <2>1. Queued(q) => Queued(q)'
    BY <1>1 DEF Queued
  <2>2. q = r => Queued(q)'
    BY <1>1 DEF Queued
  <2>3. Queued(q)' => Queued(q) \/ q = r
    BY <1>1, <1>2 DEF Queued
  <2> QED
    BY <2>1, <2>2, <2>3
<1>4. /\ \A i, j \in 1 .. Len(backlog) : i # j => backlog[i] # backlog[j]
      /\ ~Queued(r)
      => \A i, j \in 1 .. Len(backlog') : i # j => backlog'[i] # backlog'[j]
  BY <1>1, <1>2 DEF Queued
<1> QED
  BY <1>1, <1>3, <1>4

\* The broker takes the first one.
LEMMA QueueTail ==
    ASSUME backlog \in Seq(Requests), backlog # <<>>, backlog' = Tail(backlog),
           \A i, j \in 1 .. Len(backlog) : i # j => backlog[i] # backlog[j]
    PROVE  /\ backlog' \in Seq(Requests) /\ Head(backlog) \in Requests
           /\ \A q : Queued(q)' <=> Queued(q) /\ q # Head(backlog)
           /\ Queued(Head(backlog))
           /\ \A i, j \in 1 .. Len(backlog') : i # j => backlog'[i] # backlog'[j]
<1>1. /\ backlog' \in Seq(Requests) /\ Head(backlog) \in Requests
      /\ Len(backlog) \in Nat \ {0} /\ Len(backlog') = Len(backlog) - 1
      /\ Head(backlog) = backlog[1]
      /\ \A i \in 1 .. Len(backlog') : backlog'[i] = backlog[i + 1]
  BY HeadTailProperties, EmptySeq, LenProperties
<1>2. \A i \in 1 .. Len(backlog') : i + 1 \in 1 .. Len(backlog) /\ i + 1 # 1
  BY <1>1
<1>3. \A i \in 1 .. Len(backlog) : i = 1 \/ (i - 1 \in 1 .. Len(backlog') /\ (i - 1) + 1 = i)
  BY <1>1
<1>4. 1 \in 1 .. Len(backlog)
  BY <1>1
<1>5. \A q : Queued(q)' <=> Queued(q) /\ q # Head(backlog)
  <2> TAKE q
  <2>1. Queued(q)' => Queued(q) /\ q # Head(backlog)
    BY <1>1, <1>2, <1>4 DEF Queued
  <2>2. Queued(q) /\ q # Head(backlog) => Queued(q)'
    BY <1>1, <1>3 DEF Queued
  <2> QED
    BY <2>1, <2>2
<1>6. \A i, j \in 1 .. Len(backlog') : i # j => backlog'[i] # backlog'[j]
  BY <1>1, <1>2
<1>7. Queued(Head(backlog))
  BY <1>1, <1>4 DEF Queued
<1> QED
  BY <1>1, <1>5, <1>6, <1>7

-----------------------------------------------------------------------------
(* The slots of the service                                                *)

\* A thread that ends, or does not begin, needs no further slot.
LEMMA SlotsKept ==
    ASSUME IsFiniteSet(Busy), Cardinality(Busy) <= Slots, Busy' \subseteq Busy
    PROVE  IsFiniteSet(Busy') /\ Cardinality(Busy') <= Slots
<1>1. IsFiniteSet(Busy') /\ Cardinality(Busy') <= Cardinality(Busy)
  BY FS_Subset
<1>2. Cardinality(Busy) \in Nat /\ Cardinality(Busy') \in Nat
  BY <1>1, FS_CardinalityType
<1> QED
  BY <1>1, <1>2, ConstantsAssumption

\* One that begins finds a slot.
LEMMA SlotTaken ==
    ASSUME IsFiniteSet(Busy), Cardinality(Busy) < Slots, NEW r, Busy' = Busy \union {r}
    PROVE  IsFiniteSet(Busy') /\ Cardinality(Busy') <= Slots
<1>1. /\ IsFiniteSet(Busy')
      /\ Cardinality(Busy') = IF r \in Busy THEN Cardinality(Busy) ELSE Cardinality(Busy) + 1
  BY FS_AddElement
<1>2. Cardinality(Busy) \in Nat
  BY FS_CardinalityType
<1> QED
  BY <1>1, <1>2, ConstantsAssumption

-----------------------------------------------------------------------------
(* What the guest and the operator are told                                *)

Told(r, a, m, f) ==
    /\ front' = [front EXCEPT ![r] = "done"]
    /\ answer' \in [Requests -> Answers] /\ answer'[r] \in {"none", a}
    /\ summary' \in [Requests -> {"none", "ok", "failed", "deadline", "uncertain"}]
    /\ m \notin {1, 3} /\ (a \in {"unavailable", "uncertain"} \/ f = "other") => summary'[r] = "uncertain"
    /\ \A q \in Requests \ {r} : answer'[q] = answer[q] /\ summary'[q] = summary[q]

LEMMA AnsweredTold ==
    ASSUME TypeOK, NEW r \in Requests, NEW a \in Answers, NEW m, NEW f, Answered(r, a, m, f)
    PROVE  Told(r, a, m, f)
<1>1. PICK gone \in BOOLEAN, slow \in BOOLEAN :
        /\ answer' = [answer EXCEPT ![r] = IF gone THEN "none" ELSE a]
        /\ summary' = [summary EXCEPT ![r] = Outcome(a, m, f, gone, slow)]
  BY DEF Answered
<1>2. /\ Outcome(a, m, f, gone, slow) \in {"none", "ok", "failed", "deadline", "uncertain"}
      /\ m \notin {1, 3} /\ (a \in {"unavailable", "uncertain"} \/ f = "other")
            => Outcome(a, m, f, gone, slow) = "uncertain"
  BY DEF Outcome
<1>3. "none" \in Answers
  BY DEF Answers
<1> HIDE DEF Outcome
<1> QED
  BY <1>1, <1>2, <1>3 DEF Answered, Told, TypeOK

LEMMA NoReplyType ==
    /\ NoReply \in [code: Answers \union {"closed"}, mark: 0 .. 3, fault: {"none", "other", "deadline"}]
    /\ NoReply.code = "none" /\ NoReply.mark = 0
  BY DEF NoReply, Answers

\* Time passes, or Home Assistant carries out what it has got.
LEMMA EnvironmentStep ==
    ASSUME IInv, NEW r \in Requests, Expire(r) \/ HAExecutes(r)
    PROVE  IInv'
<1> USE DEF IInv, told, broker
<1>1. Busy' = Busy /\ (\A q : Queued(q)' <=> Queued(q))
  BY SameQueue DEF Expire, HAExecutes, Busy
<1>2. TypeOK'
  BY <1>1 DEF Expire, HAExecutes, TypeOK
<1>3. PipeInv' /\ CommandInv'
  BY <1>1 DEF Expire, HAExecutes, PipeInv, CommandInv, TypeOK
<1>4. \A q \in Requests : /\ (Never(q)' <=> Never(q)) /\ (Over(q)' <=> Over(q))
                          /\ ha[q] = "done" => ha'[q] = "done"
  BY <1>1 DEF Expire, HAExecutes, Never, Over, TypeOK
<1>5. MarkInv' /\ ReplyInv' /\ ToldInv'
  BY <1>4 DEF Expire, HAExecutes, MarkInv, ReplyInv, ToldInv
<1> QED
  BY <1>2, <1>3, <1>5

\* The broker and Home Assistant do not notice.
LEMMA BrokerSame ==
    UNCHANGED <<broker, ha>> =>
        /\ \A q : Queued(q)' <=> Queued(q)
        /\ \A q \in Requests : Never(q)' <=> Never(q)
  BY SameQueue DEF broker, Never

\* The endpoint answers on its own.
LEMMA EndpointAnswers ==
    ASSUME IInv, NEW r \in Requests, EndpointRefuses(r) \/ EndpointTimeout(r) \/ EndpointLoses(r)
    PROVE  IInv'
<1> USE DEF IInv
<1>1. /\ UNCHANGED <<late, cut, service, mark, broker, ha>>
      /\ \/ front[r] = "new" /\ (Told(r, "unavailable", 0, "none") \/ Told(r, "denied", 0, "none"))
         \/ front[r] = "proxied" /\ Told(r, "unavailable", 0, "none")
  BY AnsweredTold DEF EndpointRefuses, EndpointTimeout, EndpointLoses, Answers
<1>2. /\ Busy' = Busy /\ (\A q : Queued(q)' <=> Queued(q))
      /\ \A q \in Requests : (Never(q)' <=> Never(q)) /\ (Over(q)' <=> Over(q))
  BY <1>1, BrokerSame DEF Busy, Over
<1>3. TypeOK'
  BY <1>1, <1>2 DEF TypeOK, Told, broker
<1>4. PipeInv' /\ CommandInv' /\ MarkInv' /\ ReplyInv'
  BY <1>1, <1>2 DEF PipeInv, CommandInv, MarkInv, ReplyInv, broker
<1>5. ToldInv'
  <2> SUFFICES ASSUME NEW q \in Requests PROVE ToldInv!(q)'
    BY DEF ToldInv
  <2>1. CASE q # r
    BY <1>1, <1>2, <2>1 DEF ToldInv, Told, TypeOK
  <2>2. CASE q = r
    <3>1. /\ front'[r] = "done" /\ service'[r] = service[r] /\ mark'[r] = mark[r] /\ ha'[r] = ha[r]
          /\ cut' = cut /\ (r \in cut => service[r] = "done")
      BY <1>1 DEF Told, TypeOK, ToldInv
    <3>2. CASE front[r] = "proxied"
      BY <1>1, <1>2, <2>2, <3>1, <3>2 DEF Told, TypeOK
    <3>3. CASE front[r] = "new"
      <4>1. Over(r)
        BY <3>3 DEF ToldInv, PipeInv, CommandInv, Over, Never
      <4> QED
        BY <1>1, <1>2, <2>2, <3>1, <3>3, <4>1 DEF Told, TypeOK
    <3> QED
      BY <1>1, <3>2, <3>3
  <2> QED
    BY <2>1, <2>2
<1> QED
  BY <1>3, <1>4, <1>5

\* The request goes on to the next step before it is sent.
Early == {"none", "accept", "check", "route", "connect"}
LEMMA Advances ==
    ASSUME IInv, NEW r \in Requests, NEW to \in Early \ {"none"}, service[r] \in Early,
           service' = [service EXCEPT ![r] = to],
           \/ UNCHANGED front /\ service[r] # "none"
           \/ front[r] = "new" /\ front' = [front EXCEPT ![r] = "proxied"],
           UNCHANGED <<late, cut, answer, summary, mark, broker, ha>>,
           IsFiniteSet(Busy') /\ Cardinality(Busy') <= Slots
    PROVE  IInv'
<1> USE DEF IInv, Early
<1>1. /\ \A q : Queued(q)' <=> Queued(q)
      /\ \A q \in Requests : Never(q)' <=> Never(q)
  BY BrokerSame
<1>2. TypeOK'
  BY DEF TypeOK, broker
<1>3. PipeInv' /\ CommandInv'
  BY <1>1 DEF PipeInv, CommandInv, broker, TypeOK
<1>4. MarkInv' /\ ReplyInv'
  BY <1>1 DEF MarkInv, ReplyInv, broker, TypeOK
<1>5. ToldInv'
  <2> SUFFICES ASSUME NEW q \in Requests PROVE ToldInv!(q)'
    BY DEF ToldInv
  <2>1. CASE q # r
    <3>1. Over(q)' <=> Over(q)
      BY <1>1, <2>1 DEF Over, TypeOK
    <3> QED
      BY <1>1, <2>1, <3>1 DEF ToldInv, TypeOK
  <2>2. CASE q = r
    <3>1. ~(front[r] = "done" /\ service[r] = "none")
      OBVIOUS
    <3>2. answer[r] \notin {"deadline", "denied", "done"} /\ summary[r] \in {"none", "uncertain"}
      BY <3>1 DEF ToldInv, Over, CommandInv, MarkInv, TypeOK
    <3> QED
      BY <2>2, <3>2 DEF ToldInv, TypeOK
  <2> QED
    BY <2>1, <2>2
<1> QED
  BY <1>2, <1>3, <1>4, <1>5

\* The thread ends: m is the mark that it has in the end, and what the answer says is true.
LEMMA ServiceDone ==
    ASSUME IInv, NEW r \in Requests, NEW a \in Answers, NEW m \in 0 .. 3, NEW f,
           service[r] # "none", service[r] # "done", ServiceEnds(r, a, m, f),
           mark' = [mark EXCEPT ![r] = m],
           UNCHANGED <<late, backlog, serving, step, ha>>,
           cut' = cut \/ (a = "denied" /\ cut' = cut \union {r}),
           reply' = reply \/ reply' = [reply EXCEPT ![r] = NoReply],
           m = 1 => Never(r), m = 3 => ha[r] = "done",
           m \in {0, 2} => a \in {"unavailable", "uncertain"} \/ f = "other",
           a = "deadline" => m = 1, a = "denied" => m = 1 \/ r \in cut', a = "done" => m = 3
    PROVE  IInv'
<1> USE DEF IInv
<1>1. /\ service' = [service EXCEPT ![r] = "done"]
      /\ \/ front[r] = "proxied" /\ Told(r, a, m, f)
         \/ front[r] # "proxied" /\ UNCHANGED told
  BY AnsweredTold DEF ServiceEnds
<1>2. /\ \A q : Queued(q)' <=> Queued(q)
      /\ \A q \in Requests : Never(q)' <=> Never(q)
  BY SameQueue DEF Never
<1>3. TypeOK'
  <2>1. Busy' \subseteq Busy
    BY <1>1 DEF Busy, TypeOK
  <2>2. IsFiniteSet(Busy') /\ Cardinality(Busy') <= Slots
    BY <2>1, SlotsKept DEF TypeOK
  <2>3. /\ front' \in [Requests -> {"new", "proxied", "done"}]
        /\ answer' \in [Requests -> Answers]
        /\ summary' \in [Requests -> {"none", "ok", "failed", "deadline", "uncertain"}]
    BY <1>1 DEF TypeOK, Told, told
  <2>4. reply' \in [Requests -> [code: Answers \union {"closed"}, mark: 0 .. 3,
                                 fault: {"none", "other", "deadline"}]]
    BY NoReplyType DEF TypeOK
  <2> QED
    BY <1>1, <2>2, <2>3, <2>4 DEF TypeOK
<1>4. PipeInv' /\ CommandInv'
  BY <1>1, <1>2 DEF PipeInv, CommandInv, TypeOK
<1>5. MarkInv'
  BY <1>1, <1>2 DEF MarkInv, TypeOK
<1>6. ReplyInv'
  <2> SUFFICES ASSUME NEW q \in Requests PROVE ReplyInv!(q)'
    BY DEF ReplyInv
  <2>1. reply'[q] = reply[q] \/ reply'[q] = NoReply
    BY DEF TypeOK
  <2> QED
    BY <1>2, <2>1, NoReplyType DEF ReplyInv
<1>7. ToldInv'
  <2> SUFFICES ASSUME NEW q \in Requests PROVE ToldInv!(q)'
    BY DEF ToldInv
  <2>1. CASE q # r
    <3>1. Over(q)' <=> Over(q)
      BY <1>1, <1>2, <2>1 DEF Over, TypeOK
    <3> QED
      BY <1>1, <2>1, <3>1 DEF ToldInv, Told, TypeOK, told
  <2>2. CASE q = r
    <3>1. service'[r] = "done" /\ mark'[r] = m /\ ha'[r] = ha[r] /\ (Over(r)' <=> Never(r))
      BY <1>1, <1>2 DEF TypeOK, Over
    <3>2. CASE front[r] = "proxied"
      <4>1. front'[r] = "done" /\ answer'[r] \in {"none", a}
            /\ (m \in {0, 2} => summary'[r] = "uncertain")
        BY <1>1, <3>2 DEF Told, TypeOK
      <4> QED
        BY <2>2, <3>1, <4>1
    <3>3. CASE front[r] # "proxied"
      <4>1. front[r] = "done" /\ UNCHANGED told
        BY <1>1, <3>3 DEF ToldInv, TypeOK
      <4>2. answer[r] \notin {"deadline", "denied"} /\ (summary[r] \notin {"none", "uncertain"} => mark[r] = 3)
        BY DEF ToldInv, Over
      <4>3. mark[r] # 3
        BY DEF MarkInv, TypeOK
      <4> QED
        BY <2>2, <3>1, <4>1, <4>2, <4>3 DEF ToldInv, told
    <3> QED
      BY <3>2, <3>3
  <2> QED
    BY <2>1, <2>2
<1> QED
  BY <1>3, <1>4, <1>5, <1>6, <1>7

\* The thread ends without a reply of the broker: before the request was sent nothing was,
\* afterwards the mark is 0.
LEMMA EndsDone ==
    ASSUME IInv, NEW r \in Requests, NEW a \in Answers, NEW f, NEW from, Ends(r, from, a, f),
           \/ from \in Early \ {"none"} /\ a \in {"unavailable", "deadline", "denied"}
           \/ from = "await" /\ a = "unavailable"
    PROVE  IInv'
<1>1. mark[r] \in 0 .. 3 /\ mark' = [mark EXCEPT ![r] = mark[r]]
  BY DEF Ends, IInv, TypeOK
<1>2. from \in Early => mark[r] = 1 /\ Never(r)
  BY DEF Ends, IInv, MarkInv, CommandInv, PipeInv, Never, Early
<1>3. from = "await" => mark[r] = 0
  BY DEF Ends, IInv, MarkInv
<1>4. /\ service[r] # "none" /\ service[r] # "done" /\ ServiceEnds(r, a, mark[r], f)
      /\ UNCHANGED <<late, backlog, serving, step, ha>> /\ reply' = reply /\ cut' = cut
  BY DEF Ends, broker, Early
<1>5. PICK m \in 0 .. 3 : m = mark[r]
  BY <1>1
<1>6. /\ m = 1 => Never(r)
      /\ m = 3 => ha[r] = "done"
      /\ m \in {0, 2} => a \in {"unavailable", "uncertain"} \/ f = "other"
      /\ (a = "deadline" => m = 1) /\ (a = "denied" => m = 1 \/ r \in cut')
      /\ a = "done" => m = 3
  BY <1>2, <1>3, <1>5 DEF Early
<1>7. ServiceEnds(r, a, m, f) /\ mark' = [mark EXCEPT ![r] = m]
  BY <1>1, <1>4, <1>5
<1> QED
  BY <1>4, <1>6, <1>7, ServiceDone

LEMMA ServiceStep ==
    ASSUME IInv, NEW r \in Requests,
           \/ ServiceBusy(r) \/ ServiceAccepts(r) \/ ServiceDeadline(r) \/ ServiceChecked(r)
           \/ ServiceRouted(r) \/ ReceiveTimeout(r) \/ ServiceRefuses(r) \/ ServiceUnconnected(r)
           \/ EndpointAccepts(r)
    PROVE  IInv'
<1>1. CASE ServiceBusy(r)
  BY <1>1, EndsDone DEF ServiceBusy, Answers, Early
<1>2. CASE ServiceDeadline(r)
  BY <1>2, EndsDone DEF ServiceDeadline, Answers, Early
<1>3. CASE ReceiveTimeout(r)
  BY <1>3, EndsDone DEF ReceiveTimeout, Answers
<1>4. CASE ServiceRefuses(r)
  <2>1. PICK a \in {"unavailable", "denied"} :
          Ends(r, "route", a, IF a = "denied" THEN "none" ELSE "other")
    BY <1>4 DEF ServiceRefuses
  <2> QED
    BY <2>1, EndsDone DEF Answers, Early
<1>5. CASE ServiceUnconnected(r)
  BY <1>5, EndsDone DEF ServiceUnconnected, Answers, Early
<1>6. CASE ServiceAccepts(r)
  <2>1. Busy' = Busy \union {r}
    BY <1>6 DEF ServiceAccepts, Moves, Busy, IInv, TypeOK
  <2>2. IsFiniteSet(Busy') /\ Cardinality(Busy') <= Slots
    BY <1>6, <2>1, SlotTaken DEF ServiceAccepts, IInv, TypeOK
  <2> QED
    BY <1>6, <2>2, Advances DEF ServiceAccepts, Moves, told, Early
<1>7. CASE ServiceChecked(r) \/ ServiceRouted(r) \/ EndpointAccepts(r)
  <2>1. Busy' \subseteq Busy
    BY <1>7 DEF ServiceChecked, ServiceRouted, EndpointAccepts, Moves, Busy, IInv, TypeOK
  <2>2. IsFiniteSet(Busy') /\ Cardinality(Busy') <= Slots
    BY <2>1, SlotsKept DEF IInv, TypeOK
  <2>3. EndpointAccepts(r) => service[r] = "none"
    BY DEF EndpointAccepts, IInv, ToldInv
  <2> QED
    BY <1>7, <2>2, <2>3, Advances
    DEF ServiceChecked, ServiceRouted, EndpointAccepts, Moves, told, Early
<1> QED
  BY <1>1, <1>2, <1>3, <1>4, <1>5, <1>6, <1>7

\* The broker's reply is passed on, is not what was expected, or breaks off.
LEMMA ReceiveStep ==
    ASSUME IInv, NEW r \in Requests, Receive(r) \/ ReceiveInvalid(r) \/ ReceiveCut(r)
    PROVE  IInv'
<1> USE DEF IInv
<1>1. /\ reply[r].code \in Answers \union {"closed"} /\ reply[r].mark \in 0 .. 3
      /\ reply[r].code # "none" /\ mark[r] = 0
  BY DEF Receive, ReceiveInvalid, ReceiveCut, TypeOK, MarkInv
<1>2. /\ reply[r].mark = 1 => Never(r)
      /\ reply[r].mark = 3 => ha[r] = "done"
      /\ reply[r].mark \in {0, 2} => reply[r].code \in {"unavailable", "uncertain", "closed"}
      /\ reply[r].code \in {"deadline", "denied"} => reply[r].mark = 1
      /\ reply[r].code = "done" => reply[r].mark = 3
      /\ reply[r].code # "closed" => reply[r].mark # 0
      /\ reply[r].mark = 2 => reply[r].fault = "other"
  BY <1>1 DEF ReplyInv, Answers
<1>3. CASE Receive(r)
  <2>1. reply[r].code \in Answers
    BY <1>1, <1>3 DEF Receive
  <2>2. reply[r].code # "closed"
    BY <1>3 DEF Receive
  <2> QED
    BY <1>1, <1>2, <1>3, <2>1, <2>2, ServiceDone DEF Receive
<1>4. CASE ReceiveInvalid(r)
  <2> DEFINE m == IF reply[r].code = "closed" THEN mark[r] ELSE reply[r].mark
  <2>1. mark' = [mark EXCEPT ![r] = m] /\ m \in 0 .. 3 /\ mark'[r] = m
    BY <1>1, <1>4 DEF ReceiveInvalid, TypeOK
  <2>2. (m = 1 => Never(r)) /\ (m = 3 => ha[r] = "done")
    BY <1>1, <1>2
  <2>3. "unavailable" \in Answers
    BY DEF Answers
  <2> HIDE DEF m
  <2> QED
    BY <1>4, <2>1, <2>2, <2>3, ServiceDone DEF ReceiveInvalid
<1>5. CASE ReceiveCut(r)
  <2>1. "denied" \in Answers
    BY DEF Answers
  <2>2. reply[r].mark \in {0, 2} => reply[r].fault = "other"
    BY <1>2, <1>5 DEF ReceiveCut
  <2>3. r \in cut'
    BY <1>5 DEF ReceiveCut
  <2> QED
    BY <1>1, <1>2, <1>5, <2>1, <2>2, <2>3, ServiceDone DEF ReceiveCut
<1> QED
  BY <1>3, <1>4, <1>5

\* From here on the mark says nothing, and the broker has the request.
LEMMA SendStep ==
    ASSUME IInv, NEW r \in Requests, Send(r)
    PROVE  IInv'
<1> USE DEF IInv, Send
<1>1. ~Queued(r) /\ serving # r /\ ha[r] = "none"
  BY DEF PipeInv, CommandInv
<1>2. /\ backlog' \in Seq(Requests)
      /\ \A q : Queued(q)' <=> Queued(q) \/ q = r
      /\ \A i, j \in 1 .. Len(backlog') : i # j => backlog'[i] # backlog'[j]
  BY <1>1, QueueAppend DEF PipeInv, TypeOK
<1>3. TypeOK'
  <2>1. Busy' \subseteq Busy
    BY DEF Busy, TypeOK
  <2>2. IsFiniteSet(Busy') /\ Cardinality(Busy') <= Slots
    BY <2>1, SlotsKept DEF TypeOK
  <2> QED
    BY <1>2, <2>2 DEF TypeOK, told
<1>4. \A q \in Requests \ {r} : (Never(q)' <=> Never(q)) /\ (Over(q)' <=> Over(q))
  BY <1>2 DEF Never, Over, TypeOK
<1>5. /\ service[r] = "connect" /\ reply[r] = NoReply /\ mark[r] = 1
      /\ service'[r] = "await" /\ mark'[r] = 0 /\ UNCHANGED <<ha, reply, serving, step, told>>
      /\ \A q \in Requests \ {r} : service'[q] = service[q] /\ mark'[q] = mark[q]
  BY DEF PipeInv, MarkInv, TypeOK
<1>6. PipeInv' /\ CommandInv'
  BY <1>1, <1>2, <1>5 DEF PipeInv, CommandInv
<1>7. MarkInv'
  BY <1>4, <1>5 DEF MarkInv
<1>8. ReplyInv'
  <2> SUFFICES ASSUME NEW q \in Requests PROVE ReplyInv!(q)'
    BY DEF ReplyInv
  <2>1. CASE q # r
    BY <1>4, <1>5, <2>1 DEF ReplyInv
  <2>2. CASE q = r
    BY <1>5, <2>2, NoReplyType
  <2> QED
    BY <2>1, <2>2
<1>9. ToldInv'
  <2> SUFFICES ASSUME NEW q \in Requests PROVE ToldInv!(q)'
    BY DEF ToldInv
  <2>1. CASE q # r
    BY <1>4, <1>5, <2>1 DEF ToldInv, told
  <2>2. CASE q = r
    BY <1>5, <2>2 DEF ToldInv, told, Over
  <2> QED
    BY <2>1, <2>2
<1> QED
  BY <1>3, <1>6, <1>7, <1>8, <1>9

-----------------------------------------------------------------------------
(* The broker                                                              *)

\* It takes the next request from its backlog.
LEMMA TakesStep == ASSUME IInv, BrokerTakes PROVE IInv'
<1> USE DEF IInv, BrokerTakes
<1>1. /\ backlog' \in Seq(Requests) /\ serving' \in Requests
      /\ \A q : Queued(q)' <=> Queued(q) /\ q # serving'
      /\ Queued(serving')
      /\ \A i, j \in 1 .. Len(backlog') : i # j => backlog'[i] # backlog'[j]
  BY QueueTail DEF TypeOK, PipeInv
<1>2. TypeOK'
  <2>1. Busy' = Busy
    BY DEF Busy
  <2> QED
    BY <1>1, <2>1, ConstantsAssumption DEF TypeOK, told
<1>3. \A q \in Requests : (Never(q)' <=> Never(q)) /\ (Over(q)' <=> Over(q))
  BY <1>1, ConstantsAssumption DEF Never, Over
<1>4. PipeInv' /\ CommandInv'
  BY <1>1 DEF PipeInv, CommandInv
<1>5. MarkInv' /\ ReplyInv' /\ ToldInv'
  BY <1>3 DEF MarkInv, ReplyInv, ToldInv, told
<1> QED
  BY <1>2, <1>4, <1>5

\* It goes on with it, up to the dispatch.
LEMMA ProceedsStep ==
    ASSUME IInv, NEW from, NEW to \in {"read", "recheck", "dispatch", "send"}, Proceeds(from, to),
           from \in {"entry", "read", "recheck", "dispatch"}
    PROVE  IInv'
<1> USE DEF IInv, Proceeds
<1>1. /\ \A q : Queued(q)' <=> Queued(q)
      /\ \A q \in Requests : (Never(q)' <=> Never(q)) /\ (Over(q)' <=> Over(q))
  BY SameQueue DEF Never, Over
<1>2. TypeOK'
  <2>1. Busy' = Busy
    BY DEF Busy
  <2> QED
    BY <2>1 DEF TypeOK, told
<1>3. PipeInv' /\ CommandInv'
  BY <1>1 DEF PipeInv, CommandInv
<1>4. MarkInv' /\ ReplyInv' /\ ToldInv'
  BY <1>1 DEF MarkInv, ReplyInv, ToldInv, told
<1> QED
  BY <1>2, <1>3, <1>4

\* The command leaves, or the connection fails.
LEMMA SendsStep == ASSUME IInv, BrokerSends PROVE IInv'
<1> USE DEF IInv, BrokerSends
<1>1. /\ serving \in Requests /\ ha[serving] = "none" /\ ~Never(serving)
      /\ service[serving] \in {"await", "done"} /\ ~Queued(serving) /\ reply[serving] = NoReply
  BY DEF TypeOK, CommandInv, PipeInv, Never
<1>2. /\ \A q : Queued(q)' <=> Queued(q)
      /\ \A q \in Requests : (Never(q)' <=> Never(q)) /\ (Over(q)' <=> Over(q))
      /\ \A q \in Requests : ha[q] = "done" => ha'[q] = "done"
  BY <1>1, SameQueue DEF Never, Over, TypeOK
<1>3. TypeOK'
  <2>1. Busy' = Busy
    BY DEF Busy
  <2> QED
    BY <1>1, <2>1 DEF TypeOK, told
<1>4. PipeInv' /\ CommandInv'
  BY <1>1, <1>2 DEF PipeInv, CommandInv, TypeOK
<1>5. MarkInv' /\ ReplyInv' /\ ToldInv'
  BY <1>2 DEF MarkInv, ReplyInv, ToldInv, told
<1> QED
  BY <1>3, <1>4, <1>5

\* It replies, with the code c and the mark k, and what they say of the dispatch is true.
LEMMA RepliesStep ==
    ASSUME IInv, NEW c \in (Answers \ {"none"}) \union {"closed"}, NEW k \in 0 .. 3,
           NEW f \in {"none", "other", "deadline"}, step # "idle", Replies(Reply(c, k, f)),
           c \in {"denied", "deadline", "unavailable"} => k = 1,
           c = "uncertain" => k \in {1, 2},
           c = "done" => k = 3,
           c = "closed" => k = 0,
           k = 2 => f = "other",
           k = 1 => ha[serving] = "none",
           k = 3 => ha[serving] = "done"
    PROVE  IInv'
<1> USE DEF IInv
<1>1. /\ serving \in Requests /\ ~Queued(serving) /\ reply[serving] = NoReply
      /\ service[serving] \in {"await", "done"}
  BY DEF TypeOK, PipeInv
<1>2. PICK m : /\ m = Reply(c, k, f) /\ m.code = c /\ m.mark = k /\ m.fault = f
               /\ m \in [code: Answers \union {"closed"}, mark: 0 .. 3,
                         fault: {"none", "other", "deadline"}]
  BY DEF Reply
<1>3. /\ reply' = [reply EXCEPT ![serving] = IF service[serving] = "await" THEN m ELSE @]
      /\ serving' = NoRequest /\ step' = "idle"
      /\ UNCHANGED <<late, cut, front, answer, summary, service, mark, backlog, ha>>
  BY <1>2 DEF Replies, told
<1>4. /\ \A q : Queued(q)' <=> Queued(q)
      /\ \A q \in Requests : (Never(q) => Never(q)') /\ (Over(q) => Over(q)')
      /\ \A q \in Requests : q = serving => (Never(q)' <=> (ha[q] = "none"))
  BY <1>1, <1>3, SameQueue, ConstantsAssumption DEF Never, Over
<1>5. TypeOK'
  <2>1. Busy' = Busy
    BY <1>3 DEF Busy
  <2>2. reply' \in [Requests -> [code: Answers \union {"closed"}, mark: 0 .. 3,
                                 fault: {"none", "other", "deadline"}]]
    BY <1>1, <1>2, <1>3 DEF TypeOK
  <2> QED
    BY <1>3, <2>1, <2>2 DEF TypeOK
<1>6. PipeInv' /\ CommandInv'
  BY <1>1, <1>3, <1>4, ConstantsAssumption DEF PipeInv, CommandInv, TypeOK
<1>7. MarkInv' /\ ToldInv'
  BY <1>3, <1>4 DEF MarkInv, ToldInv
<1>8. ReplyInv'
  <2> SUFFICES ASSUME NEW q \in Requests PROVE ReplyInv!(q)'
    BY DEF ReplyInv
  <2>1. CASE q # serving \/ service[q] # "await"
    <3>1. reply'[q] = reply[q]
      BY <1>1, <1>3, <2>1 DEF TypeOK
    <3> QED
      BY <1>3, <1>4, <3>1 DEF ReplyInv
  <2>2. CASE q = serving /\ service[q] = "await"
    <3>1. reply'[q] = m /\ ha'[q] = ha[q] /\ (Never(q)' <=> (ha[q] = "none"))
      BY <1>1, <1>3, <1>4, <2>2 DEF TypeOK
    <3> QED
      BY <1>2, <1>4, <2>2, <3>1
  <2> QED
    BY <2>1, <2>2
<1> QED
  BY <1>5, <1>6, <1>7, <1>8

\* What the broker's replies say is true.
LEMMA BrokerStep == ASSUME IInv, BrokerNext \/ BrokerDepends PROVE IInv'
<1>1. step # "idle" /\ step # "await" => serving \in Requests /\ ha[serving] = "none"
  BY DEF IInv, TypeOK, CommandInv
<1>2. CASE BrokerTakes
  BY <1>2, TakesStep
<1>3. CASE BrokerEnters \/ BrokerReads \/ BrokerRechecks \/ BrokerChecks
  BY <1>3, ProceedsStep DEF BrokerEnters, BrokerReads, BrokerRechecks, BrokerChecks
<1>4. CASE BrokerSends
  BY <1>4, SendsStep
<1>5. CASE BrokerDeadline
  BY <1>1, <1>5, RepliesStep DEF BrokerDeadline, Answers
<1>6. CASE BrokerDenies
  BY <1>1, <1>6, RepliesStep DEF BrokerDenies, EventFault, Answers
<1>7. CASE BrokerReadFails
  BY <1>1, <1>7, RepliesStep DEF BrokerReadFails, Answers
<1>8. CASE BrokerConfirmed
  BY <1>8, RepliesStep DEF BrokerConfirmed, EventFault, Answers
<1>9. CASE BrokerGivesUp \/ BrokerFails
  BY <1>9, RepliesStep DEF BrokerGivesUp, BrokerFails, Answers
<1>10. CASE BrokerBreaks
  BY <1>10, RepliesStep DEF BrokerBreaks, Answers
<1> QED
  BY <1>2, <1>3, <1>4, <1>5, <1>6, <1>7, <1>8, <1>9, <1>10 DEF BrokerNext, BrokerDepends

-----------------------------------------------------------------------------
LEMMA InitIInv == Init => IInv
<1> SUFFICES ASSUME Init PROVE IInv
  OBVIOUS
<1> USE DEF Init
<1>1. Busy = {} /\ (\A r : ~Queued(r))
  BY DEF Busy, Queued
<1>2. IsFiniteSet(Busy) /\ Cardinality(Busy) <= Slots
  BY <1>1, FS_EmptySet, ConstantsAssumption
<1>3. "none" \in Answers
  BY DEF Answers
<1>4. TypeOK
  BY <1>2, <1>3, NoReplyType DEF TypeOK
<1>5. PipeInv /\ CommandInv /\ MarkInv
  BY <1>1, ConstantsAssumption DEF PipeInv, CommandInv, MarkInv
<1>6. ReplyInv /\ ToldInv
  BY NoReplyType DEF ReplyInv, ToldInv
<1> QED
  BY <1>4, <1>5, <1>6 DEF IInv

LEMMA SameIInv == ASSUME IInv, UNCHANGED vars PROVE IInv'
<1> USE DEF IInv, vars, told, broker
<1>1. Busy' = Busy /\ (\A q : Queued(q)' <=> Queued(q))
  BY SameQueue DEF Busy
<1>2. TypeOK' /\ PipeInv' /\ CommandInv'
  BY <1>1 DEF TypeOK, PipeInv, CommandInv
<1>3. \A q \in Requests : (Never(q)' <=> Never(q)) /\ (Over(q)' <=> Over(q))
  BY <1>1 DEF Never, Over
<1>4. MarkInv' /\ ReplyInv' /\ ToldInv'
  BY <1>3 DEF MarkInv, ReplyInv, ToldInv
<1> QED
  BY <1>2, <1>4

\* Every step of the four processes keeps the invariant.
LEMMA NextIInv == ASSUME IInv, [Next]_vars PROVE IInv'
<1>1. CASE UNCHANGED vars
  BY <1>1, SameIInv
<1>2. CASE BrokerNext \/ BrokerDepends
  BY <1>2, BrokerStep
<1>3. ASSUME NEW r \in Requests,
             EndpointNext(r) \/ ServiceNext(r) \/ RequestFault(r) \/ Expire(r) \/ HAExecutes(r)
      PROVE  IInv'
  BY <1>3, EnvironmentStep, EndpointAnswers, ServiceStep, ReceiveStep, SendStep
  DEF EndpointNext, ServiceNext, RequestFault
<1> QED
  BY <1>1, <1>2, <1>3 DEF Next

-----------------------------------------------------------------------------
\* What the four processes know of a command agrees with what Home Assistant has got.
THEOREM Inductive == Spec => []IInv
  BY InitIInv, NextIInv, PTL DEF Spec

\* Every variable has its type, and no more threads than slots are busy.
THEOREM TypeCorrect == Spec => []TypeOK
<1>1. IInv => TypeOK
  BY DEF IInv
<1> QED
  BY <1>1, Inductive, PTL

\* For any number of requests that overtake each other: a guest who is told of a deadline
\* before the dispatch, of success, or of a denial is told the truth for good, whatever
\* Home Assistant does later; only a denial that stands for a reply that broke off after
\* its headers says nothing.
THEOREM AnswerTruthful == Spec => []Truthful
<1>1. IInv => Truthful
  BY DEF IInv, ToldInv, Truthful, Over, Never
<1> QED
  BY <1>1, Inductive, PTL

\* The operator's log calls a command that Home Assistant has got, or gets after the
\* summary was written, uncertain unless it was confirmed.
THEOREM LogHasEvidence == Spec => []Evidence
<1>1. IInv => Evidence
  BY DEF IInv, ToldInv, Evidence, Over, Never
<1> QED
  BY <1>1, Inductive, PTL
=============================================================================
