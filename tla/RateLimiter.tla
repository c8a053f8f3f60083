----------------------------- MODULE RateLimiter -----------------------------
(***************************************************************************)
(* The middleware before every route of apps/api/src/ratelimit.ts: a fixed *)
(* window per bucket key, in the memory of one process.  Time is in        *)
(* milliseconds.                                                           *)
(***************************************************************************)
EXTENDS Integers, Sequences, FiniteSets, Functions

CONSTANTS
  Caller,      \* the bucket keys of remote callers
  Limit,       \* requests allowed per window and key
  Window,      \* windowMs
  Second,      \* milliseconds in a second
  SweepAbove,  \* table size above which expired windows are swept
  MaxTime,     \* bound on the clock
  MaxRequests  \* bound on the requests of one key, in a window and in all

ASSUME LimiterAssumption ==
  /\ Limit \in Nat \ {0} /\ Window \in Nat \ {0} /\ Second \in Nat \ {0}
  /\ SweepAbove \in Nat /\ MaxTime \in Nat /\ MaxRequests \in Nat

VARIABLES
  now,      \* milliseconds
  hits,     \* the table: key -> [count, start]
  admitted, \* per key, when its requests were let through
  promised  \* per key, the moment the last 429 invited it back for, or Never

limiterVars == <<hits, admitted, promised>>

Never == -1

Expired(slot, t) == t - slot.start >= Window

\* A slip: the sweep drops the windows still running.
SweptLive(h, t) ==
  IF Cardinality(DOMAIN h) > SweepAbove
  THEN Restrict(h, {k \in DOMAIN h : Expired(h[k], t)}) ELSE h

\* The table outgrows SweepAbove before expired windows are dropped.
Swept(h, t) ==
  IF Cardinality(DOMAIN h) > SweepAbove
  THEN Restrict(h, {k \in DOMAIN h : ~Expired(h[k], t)}) ELSE h

Put(h, k, slot) == [j \in DOMAIN h \union {k} |-> IF j = k THEN slot ELSE h[j]]

\* A slip: part of a second is dropped.
RetryAfterFloor(slot, t) ==
  LET seconds == (slot.start + Window - t) \div Second
  IN  IF seconds > 1 THEN seconds ELSE 1

\* The retry-after header: whole seconds, rounded up, at least one.
RetryAfter(slot, t) ==
  LET seconds == (slot.start + Window - t + Second - 1) \div Second
  IN  IF seconds > 1 THEN seconds ELSE 1

OpensWindow(k) == k \in DOMAIN Swept(hits, now) => Expired(hits[k], now)

Pass(k, slot) ==
  /\ Len(admitted[k]) < MaxRequests
  /\ hits' = Put(Swept(hits, now), k, slot)
  /\ admitted' = [admitted EXCEPT ![k] = Append(@, now)]
  /\ promised' = [promised EXCEPT ![k] = Never]

\* next(): the request goes on to its route.
Admit(k) ==
  \/ OpensWindow(k) /\ Pass(k, [count |-> 1, start |-> now])
  \/ ~OpensWindow(k) /\ hits[k].count < Limit /\ Pass(k, [hits[k] EXCEPT !.count = @ + 1])

\* 429.  The refused request is counted as well.
Refuse(k) ==
  /\ ~OpensWindow(k) /\ hits[k].count >= Limit
  /\ hits[k].count < MaxRequests
  /\ hits' = Put(Swept(hits, now), k, [hits[k] EXCEPT !.count = @ + 1])
  /\ promised' = [promised EXCEPT ![k] = now + Second * RetryAfter(hits[k], now)]
  /\ UNCHANGED admitted

\* Nothing of the table survives a restart.
Forget ==
  /\ hits' = << >>
  /\ admitted' = [k \in Caller |-> <<>>]
  /\ promised' = [k \in Caller |-> Never]

Tick == now < MaxTime /\ now' = now + 1

Init ==
  /\ now = 0
  /\ hits = << >>
  /\ admitted = [k \in Caller |-> <<>>]
  /\ promised = [k \in Caller |-> Never]

Next ==
  \/ \E k \in Caller : (Admit(k) \/ Refuse(k)) /\ UNCHANGED now
  \/ Forget /\ UNCHANGED now
  \/ Tick /\ UNCHANGED limiterVars

Spec == Init /\ [][Next]_<<now, limiterVars>>

----------------------------------------------------------------------------

\* A fixed window lets one burst through before its boundary and one after
\* it, and never more: of the requests of one key, those 2 * Limit apart are
\* at least a window apart in time, whatever was swept meanwhile.
TwiceTheLimitAtMost ==
  \A k \in Caller : \A i \in DOMAIN admitted[k] :
    i + 2 * Limit \in DOMAIN admitted[k] =>
      admitted[k][i + 2 * Limit] - admitted[k][i] >= Window

\* The retry-after of a 429 is honest: a caller that waits as long as it was
\* told finds its window over, although the header counts whole seconds and
\* the refused requests go on being counted.
RetryAfterIsHonest ==
  \A k \in Caller :
    promised[k] # Never => (k \in DOMAIN hits => Expired(hits[k], promised[k]))
===============================================================================
