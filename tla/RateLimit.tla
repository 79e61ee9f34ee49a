------------------------------ MODULE RateLimit ------------------------------
(***************************************************************************)
(* The two limiters of rate_limit.py, as the threads of the Gateway and    *)
(* the broker call them.  Both read the clock before they take their lock: *)
(* calls are decided in another order than that of their times, and a time *)
(* may be up to Delay old when it is used (0 in the broker's guest         *)
(* listener, which serves one request at a time).                          *)
(***************************************************************************)
EXTENDS Integers, Sequences, FiniteSets, FiniteSetsExt

CONSTANTS
    Keys, Threads,
    Kinds,                    \* the limiters in use: "window", "interval"
    Limit, Window, MaxKeys,   \* SlidingWindowRateLimiter
    Interval, MaxEntries,     \* MinimumIntervalRateLimiter
    Delay,                    \* bound: how long a thread waits for the lock
    MaxTime                   \* bound: the end of the clock

ASSUME ConstantsAssumption ==
    /\ Limit \in Nat \ {0} /\ MaxKeys \in Nat \ {0} /\ MaxEntries \in Nat \ {0}
    /\ Delay \in Nat /\ Window \in Nat /\ Interval \in Nat /\ Delay < Window /\ Delay < Interval
    /\ IsFiniteSet(Keys)

VARIABLES
    kind,      \* never changes: which of the two limiters is looked at
    now,
    call,      \* each thread's call: limiter, key and time
    events,    \* _events; a key without events is not in the table
    cleaned,   \* _last_cleanup
    last,      \* _last; -1: not in the table
    allowed,   \* when the calls for a key were allowed
    refused    \* the call that was refused in this step

vars == <<kind, now, call, events, cleaned, last, allowed, refused>>
None == [kind |-> "none"]

Init ==
    /\ kind \in Kinds /\ now = 0 /\ call = [t \in Threads |-> None]
    /\ events = [k \in Keys |-> <<>>] /\ cleaned = 0
    /\ last = [k \in Keys |-> -1]
    /\ allowed = [k \in Keys |-> <<>>] /\ refused = None

Tick ==
    /\ now < MaxTime /\ \A t \in Threads : call[t] # None => now - call[t].at < Delay
    /\ now' = now + 1 /\ refused' = None
    /\ UNCHANGED <<kind, call, events, cleaned, last, allowed>>

ReadClock(t, k) ==
    /\ call[t] = None
    /\ call' = [call EXCEPT ![t] = [kind |-> kind, key |-> k, at |-> now]]
    /\ refused' = None
    /\ UNCHANGED <<kind, now, events, cleaned, last, allowed>>

Decides(t, ok) ==
    /\ call' = [call EXCEPT ![t] = None]
    /\ allowed' = IF ok THEN [allowed EXCEPT ![call[t].key] = Append(@, now)] ELSE allowed
    /\ refused' = IF ok THEN None ELSE call[t]
    /\ UNCHANGED <<kind, now>>

-----------------------------------------------------------------------------
Present(e) == {k \in Keys : e[k] # <<>>}
\* Mutant: an event is dropped one unit too early.
PoppedEarly(s, cutoff) ==
    SubSeq(s, Min({i \in DOMAIN s : s[i] > cutoff + 1} \union {Len(s) + 1}), Len(s))
\* Events are popped from the front, up to the first one after the cutoff.
Popped(s, cutoff) ==
    SubSeq(s, Min({i \in DOMAIN s : s[i] > cutoff} \union {Len(s) + 1}), Len(s))
Cleanup(e, cutoff) == [k \in Keys |-> Popped(e[k], cutoff)]

Full(e, k) == e[k] = <<>> /\ Cardinality(Present(e)) >= MaxKeys
\* Mutant: a full table is not cleaned up before a new key is refused.
CrowdedOut(e, k, cutoff) == e
\* A new key that finds the table full has it cleaned up.
Room(e, k, cutoff) ==
    IF Full(e, k) THEN Cleanup(e, cutoff) ELSE e

Allow(t) ==
    LET k == call[t].key
        cutoff == call[t].at - Window
        clean == call[t].at - cleaned >= Window
        table == Room(IF clean THEN Cleanup(events, cutoff) ELSE events, k, cutoff)
        full == Full(table, k)
        kept == IF full THEN <<>> ELSE Popped(table[k], cutoff)
        ok == ~full /\ Len(kept) < Limit
    IN  /\ call[t].kind = "window"
        /\ cleaned' = IF clean THEN call[t].at ELSE cleaned
        /\ events' = [table EXCEPT ![k] = IF ok THEN Append(kept, call[t].at) ELSE kept]
        /\ Decides(t, ok)
        /\ UNCHANGED last

\* Mutant: the newest entry makes room.
EvictNewest(l) ==
    LET used == {k \in Keys : l[k] >= 0}
    IN  IF Cardinality(used) < MaxEntries THEN {l}
        ELSE {[l EXCEPT ![k] = -1] : k \in {k \in used : \A j \in used : l[j] <= l[k]}}
\* The oldest entry makes room, also for a key that has one; which, if several are.
Evict(l) ==
    LET used == {k \in Keys : l[k] >= 0}
    IN  IF Cardinality(used) < MaxEntries THEN {l}
        ELSE {[l EXCEPT ![k] = -1] : k \in {k \in used : \A j \in used : l[k] <= l[j]}}

Check(t) ==
    LET k == call[t].key
        ok == last[k] < 0 \/ call[t].at - last[k] >= Interval
    IN  /\ call[t].kind = "interval"
        /\ IF ok THEN \E l \in Evict(last) : last' = [l EXCEPT ![k] = call[t].at]
           ELSE UNCHANGED last
        /\ Decides(t, ok)
        /\ UNCHANGED <<events, cleaned>>

Next ==
    \/ Tick
    \/ \E t \in Threads :
          Allow(t) \/ Check(t) \/ \E k \in Keys : ReadClock(t, k)
Spec == Init /\ [][Next]_vars

-----------------------------------------------------------------------------
Calls == [kind: {kind}, key: Keys, at: Nat]
TypeOK ==
    /\ kind \in Kinds /\ now \in Nat /\ cleaned \in Nat
    /\ call \in [Threads -> {None} \union Calls] /\ refused \in {None} \union Calls
    /\ \A t \in Threads : call[t] # None => call[t].at \in now - Delay .. now
    /\ events \in [Keys -> Seq(Nat)] /\ allowed \in [Keys -> Seq(Nat)]
    /\ \A k \in Keys : Len(events[k]) <= Limit
    /\ Cardinality(Present(events)) <= MaxKeys
    /\ last \in [Keys -> Nat \union {-1}]

\* The calls for k that were allowed at these times.
Within(k, from, to) == {i \in DOMAIN allowed[k] : allowed[k][i] >= from /\ allowed[k][i] <= to}

\* In no window are more calls allowed than the limit, although the events of one thread
\* are dropped by the clock of another: what the wait for the lock costs is its own length.
WindowBounded ==
    kind = "window" =>
        \A k \in Keys : \A from \in 0 .. now :
            Cardinality(Within(k, from, from + Window - Delay - 1)) <= Limit

\* No call is refused without cause: the limit was reached, or as many other keys as fit
\* the table were in use, within the window (and the wait).
RefusedWithCause ==
    refused # None /\ refused.kind = "window" =>
        \/ Cardinality(Within(refused.key, now - Window - Delay + 1, now)) >= Limit
        \/ Cardinality({k \in Keys \ {refused.key} :
              Within(k, now - Window - Delay + 1, now) # {}}) >= MaxKeys

\* Two calls for a key are at least the interval apart, also when the table is full and
\* every call makes an older entry go.  With more keys in use than it has room for (10000),
\* an entry may have to go too early.
Roomy == Cardinality(Keys) <= MaxEntries
IntervalKept ==
    kind = "interval" /\ Roomy =>
        \A k \in Keys : \A i \in 1 .. Len(allowed[k]) - 1 :
            allowed[k][i + 1] - allowed[k][i] >= Interval - Delay

-----------------------------------------------------------------------------
(* The inductive invariant behind these properties (RateLimitProofs).      *)

\* The clock does not run backwards: n is now, a the times at which a key was let in.
Ordered(a, n) == \A j \in 1 .. Len(a) : a[j] <= n /\ \A i \in 1 .. j : a[i] <= a[j]

\* What is kept of a key, e, are its last calls, each as old as its wait for the lock at
\* most; those that were dropped no longer count.
Tracks(e, a, n) ==
    /\ Len(e) <= Len(a)
    /\ \A i \in 1 .. Len(e) :
          e[i] <= a[Len(a) - Len(e) + i] /\ a[Len(a) - Len(e) + i] <= e[i] + Delay
    /\ \A i \in 1 .. Len(a) - Len(e) : a[i] <= n - Window + Delay

\* Of any Limit + 1 successive calls, the first has left the window when the last comes.
Spaced(a) == \A i \in 1 .. Len(a) - Limit : a[i + Limit] - a[i] >= Window - Delay

\* The entry l of a key is that of its last call; it goes when the interval is over.
LastKept(l, a, n) ==
    a # <<>> =>
        IF l >= 0 THEN l <= a[Len(a)] /\ a[Len(a)] <= l + Delay
        ELSE n - a[Len(a)] >= Interval - Delay

OrderInv == \A k \in Keys : Ordered(allowed[k], now)
WindowInv ==
    kind = "window" =>
        \A k \in Keys : Tracks(events[k], allowed[k], now) /\ Spaced(allowed[k])
IntervalInv ==
    kind = "interval" /\ Roomy => \A k \in Keys : LastKept(last[k], allowed[k], now)
IInv ==
    TypeOK /\ OrderInv /\ WindowInv /\ IntervalInv /\ IntervalKept /\ RefusedWithCause
=============================================================================
