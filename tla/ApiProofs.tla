------------------------------ MODULE ApiProofs ------------------------------
(***************************************************************************)
(* The rate limiter, the API process around it, and the claims its answers *)
(* lead with, whatever requests are in flight, whoever they come from and  *)
(* whatever is ingested and corrected meanwhile.                           *)
(*                                                                         *)
(* The limiter's argument is about one key at a time.  The requests a      *)
(* window let through are the last ones of the key.  While the window is   *)
(* in the table the ones Limit before its first are a window older than    *)
(* its start; once it is expired, swept or not, the ones Limit before the  *)
(* next to come are a window older than now.  The process only does to the *)
(* limiter what RateLimiter lets it do.                                    *)
(*                                                                         *)
(* An answer's argument is about its two reads: the store only grows, so   *)
(* whatever struck a claim before the request is in both of them; and the  *)
(* revisions of the store form no circle, so the fold drops none and leads *)
(* with a claim that no edge it read displaced.                            *)
(*                                                                         *)
(* The check of a diff reads four times.  A claim displaces only when it   *)
(* is appended, so what lies below a claim is settled when it is read; and *)
(* of two heads the one of the earlier past never stands above the other.  *)
(***************************************************************************)
EXTENDS Api, BeliefFoldProofs

----------------------------------------------------------------------------
(* The rate limiter alone *)

limits == <<now, limiterVars>>

Slot == [count : Nat \ {0}, start : Nat]

Types ==
  /\ now \in Nat
  /\ DOMAIN hits \subseteq Caller
  /\ hits \in [DOMAIN hits -> Slot]
  /\ admitted \in [Caller -> Seq(Nat)]
  /\ \A k \in Caller, i \in Nat : i \in DOMAIN admitted[k] => admitted[k][i] <= now
  /\ promised \in [Caller -> Int]

\* How many of the key's requests its window let through, and the place of the
\* first of them.
Granted(k) == IF hits[k].count <= Limit THEN hits[k].count ELSE Limit
First(k) == Len(admitted[k]) - Granted(k) + 1

\* What holds of a key whose window is in the table, and of one without.
Running(k) ==
  /\ hits[k].start <= now
  /\ \A i \in DOMAIN admitted[k] :
       /\ i <= First(k) => admitted[k][i] <= hits[k].start
       /\ i + Limit <= First(k) => admitted[k][i] + Window <= hits[k].start
Settled(k) ==
  \A i \in DOMAIN admitted[k] :
    i + Limit <= Len(admitted[k]) + 1 => admitted[k][i] + Window <= now

Spread(k) ==
  \A i \in DOMAIN admitted[k] :
    i + 2 * Limit \in DOMAIN admitted[k] =>
      admitted[k][i + 2 * Limit] - admitted[k][i] >= Window
Honest(k) == promised[k] # Never => (k \in DOMAIN hits => Expired(hits[k], promised[k]))

Kept(k) ==
  /\ IF k \in DOMAIN hits THEN Running(k) ELSE Settled(k)
  /\ Spread(k)
  /\ Honest(k)

Inv == Types /\ \A k \in Caller : Kept(k)

----------------------------------------------------------------------------

LEMMA InitInv == Init => Inv
  BY DEF Init, Inv, Types, Kept, Settled, Spread, Honest, Never

\* A window that is over leaves its key as one that has none.
LEMMA OverIsSettled ==
  ASSUME Types, NEW k \in Caller, Kept(k),
         k \in DOMAIN hits => Expired(hits[k], now)
  PROVE  Settled(k)
  <1>1. CASE k \notin DOMAIN hits
    BY <1>1 DEF Kept
  <1>2. CASE k \in DOMAIN hits
    <2> SUFFICES ASSUME NEW i \in DOMAIN admitted[k], i + Limit <= Len(admitted[k]) + 1
                 PROVE  admitted[k][i] + Window <= now
      BY DEF Settled
    <2>1. hits[k] \in Slot /\ admitted[k] \in Seq(Nat) /\ now \in Nat
      BY <1>2 DEF Types
    <2>2. i \in Nat /\ admitted[k][i] \in Nat
      BY <2>1
    <2>3. i <= First(k)
      <3>1. Granted(k) \in Nat /\ Granted(k) <= Limit /\ Limit \in Nat
        BY <2>1, LimiterAssumption DEF Granted, Slot
      <3>2. Len(admitted[k]) \in Nat /\ i + Limit <= Len(admitted[k]) + 1
        BY <2>1
      <3> QED BY <2>2, <3>1, <3>2 DEF First
    <2>4. admitted[k][i] <= hits[k].start
      BY <1>2, <2>3 DEF Kept, Running
    <2> QED BY <1>2, <2>1, <2>2, <2>4, LimiterAssumption DEF Expired, Slot
  <1> QED BY <1>1, <1>2

\* What the sweep keeps, and what it may drop.
LEMMA SweepKeeps ==
  ASSUME Types, NEW k \in Caller
  PROVE  /\ DOMAIN Swept(hits, now) \subseteq DOMAIN hits
         /\ k \in DOMAIN Swept(hits, now) => Swept(hits, now)[k] = hits[k]
         /\ k \in DOMAIN hits \ DOMAIN Swept(hits, now) => Expired(hits[k], now)
  BY DEF Swept, Restrict, Types

\* The header's whole seconds, rounded up, cover the rest of the window.
LEMMA RoundedUp ==
  ASSUME NEW x \in Nat \ {0}
  PROVE  (x + Second - 1) \div Second \in Nat /\ Second * ((x + Second - 1) \div Second) >= x
  <1> DEFINE q == (x + Second - 1) \div Second
             r == (x + Second - 1) % Second
  <1>1. q \in Int /\ r \in 0 .. Second - 1 /\ x + Second - 1 = Second * q + r
    BY LimiterAssumption
  <1>2. Second * q >= x
    BY <1>1, LimiterAssumption
  <1>3. q >= 0
    BY <1>1, LimiterAssumption
  <1> QED BY <1>1, <1>2, <1>3

LEMMA RetryAfterCovers ==
  ASSUME NEW slot \in Slot, NEW t \in Nat, ~Expired(slot, t)
  PROVE  /\ RetryAfter(slot, t) \in Nat
         /\ Expired(slot, t + Second * RetryAfter(slot, t))
  <1> DEFINE x == slot.start + Window - t
             q == (x + Second - 1) \div Second
  <1>1. x \in Nat \ {0}
    BY LimiterAssumption DEF Expired, Slot
  <1>2. q \in Nat /\ Second * q >= x
    BY <1>1, RoundedUp
  <1>3. RetryAfter(slot, t) = IF q > 1 THEN q ELSE 1
    BY <1>1 DEF RetryAfter
  <1>4. Second * 1 >= Second * q \/ q > 1
    BY <1>2, LimiterAssumption
  <1>5. RetryAfter(slot, t) \in Nat /\ Second * RetryAfter(slot, t) >= x
    BY <1>2, <1>3, <1>4, LimiterAssumption DEF Slot
  <1>6. Second * RetryAfter(slot, t) \in Int
    BY <1>5, LimiterAssumption
  <1> HIDE DEF q
  <1> QED BY <1>5, <1>6, LimiterAssumption DEF Expired, Slot

----------------------------------------------------------------------------

\* A key that the request of another leaves as it was, or sweeps.
LEMMA OthersKept ==
  ASSUME Inv, NEW k \in Caller, NEW j \in Caller \ {k}, NEW slot \in Slot,
         hits' = Put(Swept(hits, now), k, slot), UNCHANGED now,
         admitted'[j] = admitted[j], promised'[j] = promised[j]
  PROVE  Kept(j)'
  <1>1. /\ j \in DOMAIN hits' => j \in DOMAIN hits /\ hits'[j] = hits[j]
        /\ j \in DOMAIN hits \ DOMAIN hits' => Expired(hits[j], now)
    BY SweepKeeps DEF Inv, Put
  <1>2. Kept(j) /\ Types
    BY DEF Inv
  <1>3. CASE j \in DOMAIN hits'
    <2>1. Running(j)'
      BY <1>1, <1>2, <1>3 DEF Kept, Running, First, Granted
    <2> QED BY <1>1, <1>2, <1>3, <2>1 DEF Kept, Spread, Honest
  <1>4. CASE j \notin DOMAIN hits'
    <2>1. Settled(j)
      BY <1>1, <1>2, <1>4, OverIsSettled
    <2>2. Settled(j)'
      BY <2>1 DEF Settled
    <2> QED BY <1>2, <1>4, <2>2 DEF Kept, Spread, Honest
  <1> QED BY <1>3, <1>4

\* The table and the books after a request keep their types.
LEMMA PutTypes ==
  ASSUME Types, NEW k \in Caller, NEW slot \in Slot,
         hits' = Put(Swept(hits, now), k, slot)
  PROVE  /\ DOMAIN hits' \subseteq Caller
         /\ hits' \in [DOMAIN hits' -> Slot]
         /\ k \in DOMAIN hits' /\ hits'[k] = slot
  <1>1. DOMAIN hits' = DOMAIN Swept(hits, now) \union {k} /\ hits'[k] = slot
    BY DEF Put
  <1>2. ASSUME NEW j \in DOMAIN hits' PROVE hits'[j] \in Slot /\ j \in Caller
    <2>1. CASE j = k
      BY <1>1, <2>1
    <2>2. CASE j # k
      <3>1. j \in DOMAIN Swept(hits, now) /\ hits'[j] = Swept(hits, now)[j]
        BY <1>1, <2>2 DEF Put
      <3>2. DOMAIN Swept(hits, now) \subseteq DOMAIN hits
        BY SweepKeeps
      <3>3. j \in Caller /\ Swept(hits, now)[j] = hits[j]
        BY <3>1, <3>2, SweepKeeps DEF Types
      <3> QED BY <3>1, <3>2, <3>3 DEF Types
    <2> QED BY <2>1, <2>2
  <1>3. hits' = [j \in DOMAIN hits' |-> hits'[j]]
    BY DEF Put
  <1> QED BY <1>1, <1>2, <1>3

\* A request that is let through, with its window.
LEMMA PassInv ==
  ASSUME Inv, NEW k \in Caller, NEW slot \in Slot,
         Pass(k, slot), UNCHANGED now, Running(k)',
         Len(admitted[k]) + 1 - 2 * Limit \in DOMAIN admitted[k] =>
           now - admitted[k][Len(admitted[k]) + 1 - 2 * Limit] >= Window
  PROVE  Inv'
  <1>1. /\ now \in Nat /\ now' = now /\ Types
        /\ admitted[k] \in Seq(Nat) /\ admitted'[k] = Append(admitted[k], now)
        /\ promised'[k] = Never
    BY DEF Inv, Types, Pass
  <1>2. Types'
    <2>1. admitted' \in [Caller -> Seq(Nat)] /\ promised' \in [Caller -> Int]
      BY <1>1 DEF Pass, Types, Never
    <2>2. ASSUME NEW j \in Caller, NEW i \in Nat, i \in DOMAIN admitted'[j]
          PROVE  admitted'[j][i] <= now
      <3>1. CASE j # k
        BY <1>1, <2>2, <3>1 DEF Pass, Types
      <3>2. CASE j = k
        <4>1. i \in DOMAIN admitted[k] => admitted[k][i] <= now
          BY <1>1, <2>2 DEF Types
        <4>2. admitted'[k][i] = IF i \in DOMAIN admitted[k] THEN admitted[k][i] ELSE now
          BY <1>1, <2>2, <3>2
        <4>3. admitted'[k][i] <= now
          <5>1. now <= now
            BY <1>1
          <5> QED BY <4>1, <4>2, <5>1, Zenon
        <4> QED BY <3>2, <4>3, Zenon
      <3> QED BY <3>1, <3>2
    <2> QED BY <1>1, <2>1, <2>2, PutTypes DEF Pass, Types
  <1>3. Spread(k)'
    <2> SUFFICES ASSUME NEW i \in DOMAIN admitted'[k], i + 2 * Limit \in DOMAIN admitted'[k]
                 PROVE  admitted'[k][i + 2 * Limit] - admitted'[k][i] >= Window
      BY DEF Spread
    <2>1. DOMAIN admitted[k] = 1 .. Len(admitted[k]) /\ Len(admitted[k]) \in Nat
      BY <1>1
    <2>2. DOMAIN admitted'[k] = 1 .. Len(admitted[k]) + 1
      BY <1>1
    <2>3. i \in DOMAIN admitted[k] /\ admitted'[k][i] = admitted[k][i]
      BY <1>1, <2>1, <2>2, LimiterAssumption
    <2>4. CASE i + 2 * Limit \in DOMAIN admitted[k]
      <3>1. admitted'[k][i + 2 * Limit] = admitted[k][i + 2 * Limit]
        BY <1>1, <2>4
      <3> QED BY <2>3, <2>4, <3>1 DEF Inv, Kept, Spread
    <2>5. CASE i + 2 * Limit = Len(admitted[k]) + 1
      <3>1. admitted'[k][i + 2 * Limit] = now
        BY <1>1, <2>5
      <3>2. i = Len(admitted[k]) + 1 - 2 * Limit
        <4> DEFINE n == Len(admitted[k])
                   l == 2 * Limit
        <4>1. i \in Nat /\ n \in Nat /\ l \in Int /\ i + l = n + 1
          BY <2>1, <2>3, <2>5, LimiterAssumption
        <4> HIDE DEF n, l
        <4>2. i = n + 1 - l
          BY <4>1
        <4> QED BY <4>2 DEF n, l
      <3> QED BY <2>3, <3>1, <3>2
    <2>6. i + 2 * Limit \in DOMAIN admitted[k] \/ i + 2 * Limit = Len(admitted[k]) + 1
      <3> DEFINE n == Len(admitted[k])
                 m == i + 2 * Limit
      <3>1. n \in Nat /\ m \in 1 .. n + 1
        BY <2>1, <2>2
      <3> HIDE DEF n, m
      <3>2. m \in 1 .. n \/ m = n + 1
        BY <3>1
      <3> QED BY <2>1, <3>2 DEF n, m
    <2> QED BY <2>4, <2>5, <2>6
  <1>4. Kept(k)'
    <2>1. k \in DOMAIN hits'
      BY <1>1, PutTypes DEF Pass
    <2> QED BY <1>1, <1>3, <2>1 DEF Kept, Honest
  <1>5. ASSUME NEW j \in Caller \ {k} PROVE Kept(j)'
    <2>1. admitted'[j] = admitted[j] /\ promised'[j] = promised[j]
      BY <1>5 DEF Inv, Types, Pass
    <2> QED BY <2>1, OthersKept DEF Pass
  <1> QED BY <1>2, <1>4, <1>5 DEF Inv

LEMMA OpenInv ==
  ASSUME Inv, NEW k \in Caller, UNCHANGED now,
         OpensWindow(k), Pass(k, [count |-> 1, start |-> now])
  PROVE  Inv'
  <1> DEFINE slot == [count |-> 1, start |-> now]
             n == Len(admitted[k])
  <1>1. /\ now \in Nat /\ now' = now /\ Types /\ slot \in Slot
        /\ admitted[k] \in Seq(Nat) /\ admitted'[k] = Append(admitted[k], now)
    BY DEF Inv, Types, Pass, Slot
  <1>2. Settled(k)
    <2>1. k \in DOMAIN hits => Expired(hits[k], now)
      BY <1>1, SweepKeeps DEF OpensWindow
    <2> QED BY <1>1, <2>1, OverIsSettled DEF Inv
  <1>3. hits'[k] = slot
    BY <1>1, PutTypes DEF Pass
  <1>4. First(k)' = n + 1 /\ Len(admitted'[k]) = n + 1
    <2>1. hits'[k].count = 1 /\ Len(admitted'[k]) = n + 1 /\ n \in Nat
      BY <1>1, <1>3
    <2>2. Granted(k)' = 1
      BY <2>1, LimiterAssumption DEF Granted
    <2> QED BY <2>1, <2>2 DEF First
  <1>5. ASSUME NEW i \in DOMAIN admitted'[k]
        PROVE  /\ admitted'[k][i] <= now
               /\ i + Limit <= n + 1 => admitted'[k][i] + Window <= now
    <2>1. i \in 1 .. n + 1 /\ n \in Nat
      BY <1>1, <1>5
    <2>2. CASE i = n + 1
      BY <1>1, <2>1, <2>2, LimiterAssumption
    <2>3. CASE i \in 1 .. n
      <3>1. i \in DOMAIN admitted[k] /\ admitted'[k][i] = admitted[k][i]
        BY <1>1, <2>3
      <3> QED BY <1>1, <1>2, <2>1, <3>1 DEF Settled, Types
    <2> QED BY <2>1, <2>2, <2>3
  <1>6. Running(k)'
    BY <1>1, <1>3, <1>4, <1>5 DEF Running
  <1>7. n + 1 - 2 * Limit \in DOMAIN admitted[k] =>
          now - admitted[k][n + 1 - 2 * Limit] >= Window
    <2> SUFFICES ASSUME n + 1 - 2 * Limit \in DOMAIN admitted[k]
                 PROVE  now - admitted[k][n + 1 - 2 * Limit] >= Window
      OBVIOUS
    <2>1. n \in Nat /\ admitted[k][n + 1 - 2 * Limit] \in Nat
      BY <1>1
    <2>2. n + 1 - 2 * Limit + Limit <= n + 1
      BY <2>1, LimiterAssumption
    <2>3. admitted[k][n + 1 - 2 * Limit] + Window <= now
      BY <1>2, <2>2 DEF Settled
    <2> QED BY <1>1, <2>1, <2>3, LimiterAssumption
  <1> QED BY <1>1, <1>6, <1>7, PassInv

LEMMA OneMore ==
  ASSUME NEW n \in Nat, NEW c \in Nat \ {0}, c < Limit
  PROVE  /\ n - c + 1 \in Int /\ n - c + 1 <= n /\ n + 1 - Limit <= n - c + 1
         /\ (n + 1) - (c + 1) + 1 = n - c + 1
  BY LimiterAssumption

\* A request inside a running window.
LEMMA CountInv ==
  ASSUME Inv, NEW k \in Caller, UNCHANGED now,
         ~OpensWindow(k), hits[k].count < Limit,
         Pass(k, [hits[k] EXCEPT !.count = @ + 1])
  PROVE  Inv'
  <1> DEFINE slot == [hits[k] EXCEPT !.count = @ + 1]
             n == Len(admitted[k])
  <1>1. Types /\ Kept(k)
    BY DEF Inv
  <1>2. k \in DOMAIN hits
    BY <1>1, SweepKeeps DEF OpensWindow
  <1>3. /\ now \in Nat /\ now' = now /\ hits[k] \in Slot
        /\ slot \in Slot
        /\ admitted[k] \in Seq(Nat) /\ admitted'[k] = Append(admitted[k], now)
    <2>1. now \in Nat /\ hits[k] \in Slot
      BY <1>1, <1>2 DEF Types
    <2>2. slot \in Slot
      BY <2>1 DEF Slot
    <2>3. admitted[k] \in Seq(Nat) /\ admitted'[k] = Append(admitted[k], now)
      BY <1>1 DEF Types, Pass
    <2> QED BY <2>1, <2>2, <2>3
  <1>4. hits'[k] = slot /\ slot.count = hits[k].count + 1 /\ slot.start = hits[k].start
    BY <1>1, <1>3, PutTypes DEF Pass
  <1>5. First(k)' = First(k) /\ First(k) \in Int /\ First(k) <= n /\ n + 1 - Limit <= First(k)
    <2>1. /\ hits[k].count \in Nat \ {0} /\ hits'[k].count = hits[k].count + 1
          /\ Len(admitted'[k]) = n + 1 /\ n \in Nat
      BY <1>3, <1>4 DEF Slot
    <2>2. Granted(k) = hits[k].count /\ Granted(k)' = hits[k].count + 1
      BY <2>1, LimiterAssumption DEF Granted
    <2>3. First(k) = n - hits[k].count + 1
      BY <2>2 DEF First
    <2>4. First(k)' = (n + 1) - (hits[k].count + 1) + 1
      BY <2>1, <2>2 DEF First
    <2> HIDE DEF n
    <2>5. hits[k].count \in Nat \ {0} /\ n \in Nat
      BY <2>1
    <2> QED BY <2>3, <2>4, <2>5, OneMore
  <1>6. Running(k)
    BY <1>1, <1>2 DEF Kept
  <1>7. ASSUME NEW i \in DOMAIN admitted'[k]
        PROVE  /\ i <= First(k) => admitted'[k][i] <= hits[k].start
               /\ i + Limit <= First(k) => admitted'[k][i] + Window <= hits[k].start
    <2>1. i \in 1 .. n + 1 /\ n \in Nat
      BY <1>3, <1>7
    <2>2. CASE i = n + 1
      BY <1>5, <2>1, <2>2, LimiterAssumption
    <2>3. CASE i \in 1 .. n
      <3>1. i \in DOMAIN admitted[k] /\ admitted'[k][i] = admitted[k][i]
        BY <1>3, <2>3
      <3> QED BY <1>6, <3>1 DEF Running
    <2> QED BY <2>1, <2>2, <2>3
  <1>8. Running(k)'
    BY <1>3, <1>4, <1>5, <1>6, <1>7 DEF Running
  <1>9. n + 1 - 2 * Limit \in DOMAIN admitted[k] =>
          now - admitted[k][n + 1 - 2 * Limit] >= Window
    <2> SUFFICES ASSUME n + 1 - 2 * Limit \in DOMAIN admitted[k]
                 PROVE  now - admitted[k][n + 1 - 2 * Limit] >= Window
      OBVIOUS
    <2>1. n \in Nat /\ admitted[k][n + 1 - 2 * Limit] \in Nat
      BY <1>3
    <2>2. (n + 1 - 2 * Limit) + Limit <= First(k)
      <3> HIDE DEF n
      <3> QED BY <1>5, <2>1, LimiterAssumption
    <2>3. admitted[k][n + 1 - 2 * Limit] + Window <= hits[k].start /\ hits[k].start <= now
      BY <1>6, <2>2 DEF Running
    <2>4. now \in Nat /\ hits[k].start \in Nat
      BY <1>3 DEF Slot
    <2> HIDE DEF n
    <2> QED BY <2>1, <2>3, <2>4, LimiterAssumption
  <1> QED BY <1>3, <1>8, <1>9, PassInv

LEMMA RefuseInv ==
  ASSUME Inv, NEW k \in Caller, Refuse(k), UNCHANGED now
  PROVE  Inv'
  <1> DEFINE slot == [hits[k] EXCEPT !.count = @ + 1]
             back == now + Second * RetryAfter(hits[k], now)
  <1>1. Types /\ Kept(k)
    BY DEF Inv
  <1>2. k \in DOMAIN hits /\ ~Expired(hits[k], now)
    BY <1>1, SweepKeeps DEF Refuse, OpensWindow
  <1>3. now \in Nat /\ hits[k] \in Slot
    BY <1>1, <1>2 DEF Types
  <1>4. slot \in Slot /\ slot.count = hits[k].count + 1 /\ slot.start = hits[k].start
    BY <1>3 DEF Slot
  <1>5. hits' = Put(Swept(hits, now), k, slot) /\ hits'[k] = slot /\ k \in DOMAIN hits'
    BY <1>1, <1>4, PutTypes DEF Refuse
  <1>6. /\ RetryAfter(hits[k], now) \in Nat
        /\ Expired(hits[k], back)
    BY <1>2, <1>3, RetryAfterCovers
  <1>7. back \in Int
    <2> DEFINE after == RetryAfter(hits[k], now)
    <2>1. after \in Nat
      BY <1>6
    <2> HIDE DEF after
    <2>2. now + Second * after \in Int
      BY <1>3, <2>1, LimiterAssumption
    <2> QED BY <2>2 DEF after
  <1>8. promised' = [promised EXCEPT ![k] = back]
    BY DEF Refuse
  <1> HIDE DEF back
  <1>9. Types'
    <2>1. promised' \in [Caller -> Int]
      BY <1>1, <1>7, <1>8 DEF Types
    <2> QED BY <1>1, <1>4, <1>5, <2>1, PutTypes DEF Refuse, Types
  <1>10. Kept(k)'
    <2>1. First(k)' = First(k)
      <3>1. hits[k].count >= Limit /\ hits[k].count \in Nat
        BY <1>3 DEF Refuse, Slot
      <3>2. Granted(k) = Limit
        BY <3>1, LimiterAssumption DEF Granted
      <3>3. hits'[k].count = hits[k].count + 1
        BY <1>4, <1>5
      <3>4. Granted(k)' = Limit
        <4>1. ~(hits[k].count + 1 <= Limit)
          BY <3>1, LimiterAssumption
        <4> QED BY <3>3, <4>1 DEF Granted
      <3>5. First(k) = Len(admitted[k]) - Limit + 1
        BY <3>2 DEF First
      <3>6. First(k)' = Len(admitted'[k]) - Limit + 1
        BY <3>4 DEF First
      <3> QED BY <3>5, <3>6 DEF Refuse
    <2>2. Running(k)
      BY <1>1, <1>2 DEF Kept
    <2>3. Running(k)'
      BY <1>4, <1>5, <2>1, <2>2 DEF Running, Refuse
    <2>4. promised'[k] = back
      BY <1>1, <1>8 DEF Types
    <2>5. Honest(k)'
      BY <1>4, <1>5, <1>6, <2>4 DEF Honest, Expired
    <2> QED BY <1>1, <1>5, <2>3, <2>5 DEF Kept, Spread, Refuse
  <1>11. ASSUME NEW j \in Caller \ {k} PROVE Kept(j)'
    <2>1. admitted'[j] = admitted[j] /\ promised'[j] = promised[j]
      BY <1>1, <1>8, <1>11 DEF Types, Refuse
    <2> QED BY <1>4, <1>5, <2>1, OthersKept
  <1> QED BY <1>9, <1>10, <1>11 DEF Inv

LEMMA TickInv ==
  ASSUME Inv, Tick, UNCHANGED limiterVars
  PROVE  Inv'
  <1>1. now \in Nat /\ now' = now + 1
    BY DEF Inv, Types, Tick
  <1>2. Types'
    <2>1. ASSUME NEW k \in Caller, NEW i \in Nat, i \in DOMAIN admitted[k]
          PROVE  admitted[k][i] <= now'
      <3>1. admitted[k] \in Seq(Nat) /\ admitted[k][i] <= now
        BY <2>1 DEF Inv, Types
      <3>2. admitted[k][i] \in Nat
        BY <2>1, <3>1
      <3> QED BY <1>1, <3>1, <3>2
    <2> QED BY <1>1, <2>1 DEF Inv, Types, limiterVars
  <1>3. ASSUME NEW k \in Caller PROVE Kept(k)'
    <2>1. Types /\ Kept(k)
      BY DEF Inv
    <2>2. CASE k \in DOMAIN hits
      <3>1. hits[k].start \in Nat /\ hits[k].start <= now
        BY <2>1, <2>2 DEF Types, Kept, Running, Slot
      <3>2. hits[k].start <= now'
        BY <1>1, <3>1
      <3> QED BY <2>1, <2>2, <3>2
              DEF Kept, Running, Spread, Honest, First, Granted, limiterVars
    <2>3. CASE k \notin DOMAIN hits
      <3>1. ASSUME NEW i \in DOMAIN admitted[k], i + Limit <= Len(admitted[k]) + 1
            PROVE  admitted[k][i] + Window <= now'
        <4>1. admitted[k][i] + Window <= now
          BY <2>1, <2>3, <3>1 DEF Kept, Settled
        <4>2. admitted[k] \in Seq(Nat)
          BY <2>1 DEF Types
        <4>3. admitted[k][i] \in Nat
          BY <3>1, <4>2
        <4> QED BY <1>1, <4>1, <4>3, LimiterAssumption
      <3> QED BY <2>1, <2>3, <3>1 DEF Kept, Settled, Spread, Honest, limiterVars
    <2> QED BY <2>2, <2>3
  <1> QED BY <1>2, <1>3 DEF Inv

LEMMA ForgetInv ==
  ASSUME Inv, Forget, UNCHANGED now
  PROVE  Inv'
  BY DEF Forget, Inv, Types, Kept, Settled, Spread, Honest, Never

LEMMA NextInv ==
  ASSUME Inv, [Next]_limits
  PROVE  Inv'
  <1>1. ASSUME NEW k \in Caller, Admit(k), UNCHANGED now PROVE Inv'
    BY <1>1, OpenInv, CountInv DEF Admit
  <1>2. ASSUME NEW k \in Caller, Refuse(k), UNCHANGED now PROVE Inv'
    BY <1>2, RefuseInv
  <1>3. CASE Forget /\ UNCHANGED now
    BY <1>3, ForgetInv
  <1>4. CASE Tick /\ UNCHANGED limiterVars
    BY <1>4, TickInv
  <1>5. CASE UNCHANGED limits
    BY <1>5 DEF limits, limiterVars, Inv, Types, Kept, Running, Settled, Spread, Honest,
                First, Granted
  <1> QED BY <1>1, <1>2, <1>3, <1>4, <1>5 DEF Next

LEMMA Invariance == Spec => []Inv
  BY InitInv, NextInv, PTL DEF Spec, limits

\* Whatever the limit, the window and the threshold of the sweep, however the
\* table is swept and however often the process restarts, no caller is let
\* through more than twice the limit within one window (ratelimit.ts).
THEOREM NoThirdBurst == Spec => []TwiceTheLimitAtMost
  <1>1. Inv => TwiceTheLimitAtMost
    BY DEF Inv, Kept, Spread, TwiceTheLimitAtMost
  <1> QED BY <1>1, Invariance, PTL

\* The Retry-After of a 429 is never too short.
THEOREM WaitingHelps == Spec => []RetryAfterIsHonest
  <1>1. Inv => RetryAfterIsHonest
    BY DEF Inv, Kept, Honest, RetryAfterIsHonest
  <1> QED BY <1>1, Invariance, PTL

----------------------------------------------------------------------------
(* The limiter in the API process *)

LEMMA StoreStepsAreIdle ==
  ASSUME \/ LoadHistory \/ WriteLexicon
         \/ \E c \in CorrectionId, target \in DOMAIN row : Correct(c, target)
  PROVE  UNCHANGED limits
  BY DEF LoadHistory, WriteLexicon, Correct, limits

LEMMA HandlersAreIdle == Handle => UNCHANGED limits
  <1>1. Step => UNCHANGED limits
    BY DEF Step, limits
  <1> QED
    BY <1>1 DEF Handle, ReadRows, ReadClaims, ReadEdges, Synthesise, FoldAnswers, FoldDiff,
                ReadPaths, ReadEnumeration, Validate

\* A request of the machine itself leaves the limiter alone; any other is
\* counted for its key.
LEMMA RequestsAreCounted ==
  ASSUME NEW k \in Caller \union Loopback, Ask(k) \/ Diff(k) \/ Other(k)
  PROVE  [Next]_limits
  <1>1. LetThrough(k) /\ UNCHANGED now
    BY DEF Ask, Diff, Other
  <1>2. CASE k \in Loopback
    BY <1>1, <1>2 DEF LetThrough, limits
  <1>3. CASE k \notin Loopback
    BY <1>1, <1>3 DEF LetThrough, Next
  <1> QED BY <1>2, <1>3

LEMMA StepsOfTheLimiter == [ApiNext]_vars => [Next]_limits
  <1> SUFFICES ASSUME [ApiNext]_vars PROVE [Next]_limits
    OBVIOUS
  <1>1. CASE \E k \in Caller \union Loopback : Ask(k) \/ Diff(k) \/ Other(k)
    BY <1>1, RequestsAreCounted
  <1>2. CASE \E k \in Caller : TooMany(k)
    BY <1>2 DEF TooMany, Next
  <1>3. CASE \/ LoadHistory \/ WriteLexicon
             \/ \E c \in CorrectionId, target \in DOMAIN row : Correct(c, target)
    BY <1>3, StoreStepsAreIdle
  <1>4. CASE Handle
    BY <1>4, HandlersAreIdle
  <1>5. CASE Pause
    BY <1>5 DEF Pause, Next
  <1>6. CASE Restart
    BY <1>6 DEF Restart, Next
  <1>7. CASE UNCHANGED vars
    BY <1>7 DEF vars, limits
  <1> QED BY <1>1, <1>2, <1>3, <1>4, <1>5, <1>6, <1>7 DEF ApiNext

\* The API implements the rate limiter alone, so that what is proved of the
\* limiter holds of the process that runs it.
THEOREM ApiImplementsLimiter == ApiSpec => Spec
  <1>1. ApiInit => Init
    BY DEF ApiInit
  <1> QED BY <1>1, StepsOfTheLimiter, PTL DEF ApiSpec, Spec, limits

\* At most twice the limit goes through within one window, and no Retry-After
\* is too short, in the process that answers questions (app.ts, ratelimit.ts).
THEOREM ApiKeepsTheLimit == ApiSpec => [](TwiceTheLimitAtMost /\ RetryAfterIsHonest)
  BY ApiImplementsLimiter, NoThirdBurst, WaitingHelps, PTL

----------------------------------------------------------------------------
(* The history in the store *)

StoreInv ==
  /\ DOMAIN row \subseteq CorrectionId \union DOMAIN LoadedRow /\ IsFiniteSet(DOMAIN row)
  /\ \A c \in DOMAIN row : {row[c].event, row[c].ingest, row[c].conf} \subseteq Int
  /\ IsFiniteSet(sup)
  /\ \A e \in sup : /\ e.rel = "SUPERSEDES" /\ {e.ingest, e.conf} \subseteq Int
                    /\ {e.newer, e.older} \subseteq DOMAIN row /\ e.newer # e.older
  /\ \A e, f \in sup : e.newer = f.newer /\ e.older = f.older => e = f
  /\ ~HasCycle(sup)

\* Nothing in the store is ever changed or taken back.
Grows ==
  /\ DOMAIN row \subseteq DOMAIN row' /\ \A c \in DOMAIN row : row'[c] = row[c]
  /\ sup \subseteq sup'

LEMMA LoadedGrows ==
  ASSUME ~HasCycle(LoadedEdges), StoreInv, LoadHistory
  PROVE  StoreInv' /\ Grows
  <1>1. row' = LoadedRow /\ sup' = LoadedEdges /\ DOMAIN row = {}
    BY DEF LoadHistory
  <1>2. sup = {}
    BY <1>1 DEF StoreInv
  <1> QED BY <1>1, <1>2, LoadedAssumption DEF StoreInv, Grows

LEMMA CorrectedGrows ==
  ASSUME Inv, StoreInv, NEW c \in CorrectionId, NEW target \in DOMAIN row, Correct(c, target)
  PROVE  StoreInv' /\ Grows
  <1> DEFINE at == now \div Second
             r == [event |-> at, ingest |-> at, conf |-> 99, polarity |-> "AFFIRM"]
             e == [rel |-> "SUPERSEDES", newer |-> c, older |-> target, ingest |-> at, conf |-> 99]
  <1>1. at \in Int
    BY LimiterAssumption DEF Inv, Types
  <1>2. c \notin DOMAIN row /\ c # target
    BY DEF Correct
  <1>3. /\ row' = [d \in DOMAIN row \union {c} |-> IF d = c THEN r ELSE row[d]]
        /\ sup' = sup \union {e}
    BY DEF Correct
  <1>4. /\ e.rel = "SUPERSEDES" /\ e.newer = c /\ e.older = target
        /\ {e.ingest, e.conf} \subseteq Int /\ {r.event, r.ingest, r.conf} \subseteq Int
    BY <1>1
  <1> HIDE DEF at, r, e
  <1>5. /\ DOMAIN row' = DOMAIN row \union {c} /\ row'[c] = r
        /\ \A d \in DOMAIN row : row'[d] = row[d]
    BY <1>2, <1>3
  <1>6. IsFiniteSet(DOMAIN row') /\ IsFiniteSet(sup')
    BY <1>3, <1>5, FS_AddElement DEF StoreInv
  <1>7. \A f \in sup : c \notin {f.newer, f.older}
    BY <1>2 DEF StoreInv
  <1>8. ~HasCycle(sup')
    BY <1>2, <1>3, <1>4, <1>7, NewLeafNoCycle DEF StoreInv
  <1>9. \A f, g \in sup' : f.newer = g.newer /\ f.older = g.older => f = g
    BY <1>3, <1>4, <1>7 DEF StoreInv
  <1>10. \A f \in sup' : /\ f.rel = "SUPERSEDES" /\ {f.ingest, f.conf} \subseteq Int
                         /\ {f.newer, f.older} \subseteq DOMAIN row' /\ f.newer # f.older
    BY <1>2, <1>3, <1>4, <1>5 DEF StoreInv
  <1>11. Grows
    BY <1>3, <1>5 DEF Grows
  <1>12. \A d \in DOMAIN row' : {row'[d].event, row'[d].ingest, row'[d].conf} \subseteq Int
    BY <1>4, <1>5 DEF StoreInv
  <1>13. DOMAIN row' \subseteq CorrectionId \union DOMAIN LoadedRow
    BY <1>5 DEF StoreInv
  <1> QED BY <1>6, <1>8, <1>9, <1>10, <1>11, <1>12, <1>13 DEF StoreInv

LEMMA OthersLeaveTheStore ==
  ASSUME [ApiNext]_vars, ~LoadHistory,
         \A c \in CorrectionId : \A target \in DOMAIN row : ~Correct(c, target)
  PROVE  row' = row /\ sup' = sup
  <1>1. Step => row' = row /\ sup' = sup
    BY DEF Step, storeVars
  <1>2. Handle => row' = row /\ sup' = sup
    BY <1>1 DEF Handle, ReadRows, ReadClaims, ReadEdges, Synthesise, FoldAnswers, FoldDiff,
                ReadPaths, ReadEnumeration, Validate
  <1>3. \A k : Ask(k) \/ Diff(k) \/ Other(k) \/ TooMany(k) => row' = row /\ sup' = sup
    BY DEF Ask, Diff, Other, TooMany, storeVars
  <1>4. WriteLexicon \/ Pause \/ Restart \/ UNCHANGED vars => row' = row /\ sup' = sup
    BY DEF WriteLexicon, Pause, Restart, vars, storeVars
  <1> QED BY <1>2, <1>3, <1>4 DEF ApiNext

LEMMA StoreKept ==
  ASSUME ~HasCycle(LoadedEdges), Inv, StoreInv, [ApiNext]_vars
  PROVE  StoreInv' /\ Grows
  <1>1. CASE row' = row /\ sup' = sup
    BY <1>1 DEF StoreInv, Grows
  <1> QED BY <1>1, LoadedGrows, CorrectedGrows, OthersLeaveTheStore

----------------------------------------------------------------------------
(* The question being answered *)

ReqField == {"route", "phase", "outcome", "struck", "rows", "claims", "edges", "cites",
             "from", "to", "paths", "listed", "agree"}
ReqShape == req = [f \in ReqField |-> req[f]]

\* A revision that displaced x with a later claim, and that every read of the
\* request has seen, on both its ends.
Seen(e, x) ==
  /\ e.older = x /\ row[e.newer].event > row[e.older].event
  /\ \A C \in req.claims : e.newer \in C
  /\ \A E \in req.edges : e \in E

AskInv ==
  /\ ReqShape
  /\ \A C \in req.claims : C \subseteq DOMAIN row
  /\ \A E \in req.edges : E \subseteq sup
  /\ req.phase = "fold" => req.claims # {} /\ req.edges # {}
  /\ req.phase # "done" /\ req.route = "ask" => \A x \in req.struck : \E e \in sup : Seen(e, x)

\* What is read now has seen every revision there is.
LEMMA StruckIsSeen ==
  ASSUME StoreInv, NEW x \in StruckBy(sup, row)
  PROVE  \E e \in sup : e.older = x /\ row[e.newer].event > row[e.older].event /\ e.newer \in DOMAIN row
  BY DEF StruckBy, StoreInv

\* Two reads are what the fold can work on.
LEMMA GotIsReadable ==
  ASSUME StoreInv, AskInv, req.claims # {}, req.edges # {}
  PROVE  /\ GotClaims \in req.claims /\ GotEdges \in req.edges
         /\ GotClaims \subseteq DOMAIN row /\ GotEdges \subseteq sup
         /\ Readable(GotClaims, row, GotEdges)
         /\ EdgesOf(GotEdges, "SUPERSEDES") = GotEdges /\ EdgesOf(GotEdges, "SUPPORTS") = {}
         /\ ~HasCycle(GotEdges)
  <1> DEFINE C == GotClaims
             E == GotEdges
  <1>1. C \in req.claims /\ E \in req.edges
    BY DEF GotClaims, GotEdges
  <1> HIDE DEF C, E
  <1>2. C \subseteq DOMAIN row /\ E \subseteq sup
    BY <1>1 DEF AskInv
  <1>3. EdgesOf(E, "SUPERSEDES") = E /\ EdgesOf(E, "SUPPORTS") = {}
    BY <1>2 DEF EdgesOf, StoreInv
  <1>4. \A c \in DOMAIN row : c \in Int
    <2>1. \A c \in Nat : c \in Int
      OBVIOUS
    <2> QED BY <2>1, StoreAssumption, LoadedAssumption DEF StoreInv
  <1>5. Readable(C, row, E)
    <2>1. IsFiniteSet(C) /\ IsFiniteSet(E)
      BY <1>2, FS_Subset DEF StoreInv
    <2>2. Comparable(C, row)
      BY <1>2, <1>4 DEF Comparable, StoreInv
    <2>3. EdgeSet(E)
      BY <1>2, <1>4, <2>1 DEF EdgeSet, StoreInv, Relation
    <2> QED BY <1>3, <2>1, <2>2, <2>3 DEF Readable
  <1>6. ~HasCycle(E)
    BY <1>2, PartHasNoCycle DEF StoreInv
  <1> QED BY <1>1, <1>2, <1>3, <1>5, <1>6 DEF C, E

\* The fold of the two reads never leads with a claim struck before both.
LEMMA StruckNeverLeads ==
  ASSUME StoreInv, AskInv, req.phase # "done", req.route = "ask",
         req.claims # {}, req.edges # {}, NEW x \in req.struck
  PROVE  Believed # x
  <1> DEFINE C == GotClaims
             E == GotEdges
  <1>1. /\ C \in req.claims /\ E \in req.edges /\ C \subseteq DOMAIN row
        /\ Readable(C, row, E) /\ ~HasCycle(E)
        /\ EdgesOf(E, "SUPERSEDES") = E /\ EdgesOf(E, "SUPPORTS") = {}
    BY GotIsReadable
  <1>2. PICK e \in sup : Seen(e, x)
    BY DEF AskInv
  <1>3. e \in E /\ e.newer \in C
    BY <1>1, <1>2 DEF Seen
  <1> HIDE DEF C, E
  <1>4. ResolveFunctional(C, row, E).first # e.older
    BY <1>1, <1>2, <1>3, DisplacedNeverLeads DEF Seen
  <1>5. Believed = ResolveFunctional(C, row, E).first
    BY <1>3 DEF Believed, ResolveBelief, C, E
  <1> QED BY <1>2, <1>4, <1>5 DEF Seen

\* A request that is left alone while the store grows.
LEMMA WaitingAsk ==
  ASSUME StoreInv, AskInv, Grows, req' = req
  PROVE  AskInv'
  <1>1. ReqShape'
    BY DEF AskInv, ReqShape
  <1>2. ASSUME NEW e \in sup, NEW x, Seen(e, x) PROVE e \in sup' /\ Seen(e, x)'
    BY <1>2 DEF Seen, Grows, StoreInv
  <1>3. req.phase # "done" /\ req.route = "ask" => \A x \in req'.struck : \E e \in sup' : Seen(e, x)'
    BY <1>2 DEF AskInv
  <1>4. /\ \A C \in req'.claims : C \subseteq DOMAIN row'
        /\ \A E \in req'.edges : E \subseteq sup'
    BY DEF AskInv, Grows
  <1> QED BY <1>1, <1>3, <1>4 DEF AskInv

\* A request that is over.
LEMMA OverAsk ==
  ASSUME NEW r, req' = r, r = [f \in ReqField |-> r[f]], r.phase = "done",
         r.claims = {}, r.edges = {}
  PROVE  AskInv'
  BY DEF AskInv, ReqShape

LEMMA AskKept ==
  ASSUME StoreInv, AskInv, NEW k, Ask(k)
  PROVE  AskInv'
  <1> DEFINE busy == [Idle EXCEPT !.route = "ask", !.phase = "rows", !.struck = StruckBy(sup, row)]
             none == [Idle EXCEPT !.route = "ask", !.outcome = "no_anchor"]
  <1>1. row' = row /\ sup' = sup /\ (req' = busy \/ req' = none)
    BY DEF Ask, storeVars
  <1>2. CASE req' = none
    <2>1. none = [f \in ReqField |-> none[f]] /\ none.phase = "done" /\ none.claims = {} /\ none.edges = {}
      BY DEF Idle, ReqField, None
    <2> QED BY <1>2, <2>1, OverAsk
  <1>3. CASE req' = busy
    <2>1. busy = [f \in ReqField |-> busy[f]]
      BY DEF Idle, ReqField
    <2>2. /\ busy.phase = "rows" /\ busy.claims = {} /\ busy.edges = {}
          /\ busy.struck = StruckBy(sup, row)
      BY DEF Idle, None
    <2> HIDE DEF busy
    <2>3. \A x \in req'.struck : \E e \in sup' : Seen(e, x)'
      BY <1>1, <1>3, <2>2, StruckIsSeen DEF Seen
    <2> QED BY <1>3, <2>1, <2>2, <2>3 DEF AskInv, ReqShape
  <1> QED BY <1>1, <1>2, <1>3

\* A request that goes on, having read perhaps the claims or the edges.
LEMMA GoesOn ==
  ASSUME StoreInv, AskInv, StandingClaimLeads, req.phase # "done", row' = row, sup' = sup,
         ReqShape', req'.route = req.route, req'.struck = req.struck, req'.cites = req.cites,
         req'.claims = req.claims \/ req'.claims = {DOMAIN row},
         req'.edges = req.edges \/ req'.edges = {sup},
         req'.phase = "fold" => req'.claims # {} /\ req'.edges # {}
  PROVE  AskInv' /\ StandingClaimLeads'
  <1>1. ASSUME NEW x, NEW e \in sup, Seen(e, x) PROVE Seen(e, x)'
    BY <1>1 DEF Seen, StoreInv
  <1>2. req.route = "ask" => \A x \in req'.struck : \E e \in sup' : Seen(e, x)'
    BY <1>1 DEF AskInv
  <1>3. /\ \A C \in req'.claims : C \subseteq DOMAIN row'
        /\ \A E \in req'.edges : E \subseteq sup'
    BY DEF AskInv
  <1> QED BY <1>2, <1>3 DEF AskInv, StandingClaimLeads

\* A request that ends without an answer of its own.
LEMMA EndsWithout ==
  ASSUME NEW r, req' = r, r = [f \in ReqField |-> r[f]], r.phase = "done",
         r.claims = {}, r.edges = {}, r.cites = <<>>
  PROVE  AskInv' /\ StandingClaimLeads'
  BY OverAsk DEF StandingClaimLeads

LEMMA AnswersLead ==
  ASSUME StoreInv, AskInv, req.phase # "done", req.route = "ask",
         req.claims # {}, req.edges # {}, NEW cites, cites[1] = Believed, Answer(cites)
  PROVE  AskInv' /\ StandingClaimLeads'
  <1> DEFINE r == [Idle EXCEPT !.route = "ask", !.outcome = "answer", !.struck = req.struck, !.cites = cites]
  <1>1. req' = r
    BY DEF Answer
  <1>2. /\ r = [f \in ReqField |-> r[f]] /\ r.phase = "done" /\ r.claims = {} /\ r.edges = {}
        /\ r.cites = cites /\ r.struck = req.struck
    BY DEF Idle, ReqField, None
  <1> HIDE DEF r
  <1>3. AskInv'
    BY <1>1, <1>2, OverAsk
  <1>4. Believed \notin req.struck
    BY StruckNeverLeads
  <1> HIDE DEF Believed
  <1> QED BY <1>1, <1>2, <1>3, <1>4 DEF StandingClaimLeads

LEMMA AbstainingEnds ==
  ASSUME NEW reason, Abstain(reason)
  PROVE  AskInv' /\ StandingClaimLeads'
  <1> DEFINE r == [Idle EXCEPT !.route = "ask", !.outcome = reason]
  <1>1. /\ r = [f \in ReqField |-> r[f]] /\ r.phase = "done" /\ r.claims = {} /\ r.edges = {}
        /\ r.cites = <<>>
    BY DEF Idle, ReqField, None
  <1>2. req' = r
    BY DEF Abstain
  <1> HIDE DEF r
  <1> QED BY <1>1, <1>2, EndsWithout

LEMMA ReadsKept ==
  ASSUME StoreInv, AskInv, StandingClaimLeads, row' = row, sup' = sup,
         ReadRows \/ ReadClaims \/ ReadEdges \/ ReadPaths \/ ReadEnumeration
  PROVE  AskInv' /\ StandingClaimLeads'
  <1>1. req = [f \in ReqField |-> req[f]]
    BY DEF AskInv, ReqShape
  <1>2. CASE ReadRows
    <2> DEFINE none == [Idle EXCEPT !.route = "ask", !.outcome = "no_claim_fit"]
               r == [req EXCEPT !.phase = "belief", !.rows = ClaimsForEntities]
    <2>1. CASE req' = none
      <3>1. none = [f \in ReqField |-> none[f]] /\ none.phase = "done" /\ none.claims = {}
            /\ none.edges = {} /\ none.cites = <<>>
        BY DEF Idle, ReqField, None
      <3> QED BY <2>1, <3>1, EndsWithout
    <2>2. CASE req' = r
      <3>1. /\ r = [f \in ReqField |-> r[f]] /\ r.phase = "belief"
            /\ r.route = req.route /\ r.struck = req.struck /\ r.cites = req.cites
            /\ r.claims = req.claims /\ r.edges = req.edges
        BY <1>1 DEF ReqField
      <3> HIDE DEF r
      <3> QED BY <1>2, <2>2, <3>1, GoesOn DEF ReadRows, ReqShape
    <2> QED BY <1>2, <2>1, <2>2 DEF ReadRows
  <1>3. CASE ReadClaims
    <2> DEFINE r == [req EXCEPT !.claims = {DOMAIN row}]
    <2>1. /\ r = [f \in ReqField |-> r[f]] /\ r.phase = req.phase
          /\ r.route = req.route /\ r.struck = req.struck /\ r.cites = req.cites
          /\ r.claims = {DOMAIN row} /\ r.edges = req.edges
      BY <1>1 DEF ReqField
    <2>2. req' = r /\ req.phase = "belief"
      BY <1>3 DEF ReadClaims
    <2> HIDE DEF r
    <2> QED BY <2>1, <2>2, GoesOn DEF ReqShape
  <1>4. CASE ReadEdges
    <2> DEFINE r == [req EXCEPT !.edges = {sup}]
    <2>1. /\ r = [f \in ReqField |-> r[f]] /\ r.phase = req.phase
          /\ r.route = req.route /\ r.struck = req.struck /\ r.cites = req.cites
          /\ r.claims = req.claims /\ r.edges = {sup}
      BY <1>1 DEF ReqField
    <2>2. req' = r /\ req.phase = "belief"
      BY <1>4 DEF ReadEdges
    <2> HIDE DEF r
    <2> QED BY <2>1, <2>2, GoesOn DEF ReqShape
  <1>5. ASSUME NEW field \in {"paths", "listed"}, NEW v, req.phase = "check",
               req' = [req EXCEPT ![field] = v]
        PROVE  AskInv' /\ StandingClaimLeads'
    <2> DEFINE r == [req EXCEPT ![field] = v]
    <2>1. /\ r = [f \in ReqField |-> r[f]] /\ r.phase = req.phase
          /\ r.route = req.route /\ r.struck = req.struck /\ r.cites = req.cites
          /\ r.claims = req.claims /\ r.edges = req.edges
      BY <1>1 DEF ReqField
    <2>2. req' = r
      BY <1>5
    <2> HIDE DEF r
    <2> QED BY <1>5, <2>1, <2>2, GoesOn DEF ReqShape
  <1> QED BY <1>2, <1>3, <1>4, <1>5 DEF ReadPaths, ReadEnumeration

LEMMA AnswersKept ==
  ASSUME StoreInv, AskInv, StandingClaimLeads, row' = row, sup' = sup, Synthesise \/ FoldAnswers
  PROVE  AskInv' /\ StandingClaimLeads'
  <1>1. req.route = "ask" /\ req.phase # "done" /\ req.claims # {} /\ req.edges # {}
    BY DEF Synthesise, FoldAnswers, Loaded, None, AskInv
  <1>2. ASSUME NEW rest \in Cited, Answer(HeadFirst(Believed, rest))
        PROVE  AskInv' /\ StandingClaimLeads'
    <2>1. rest \in Seq(req.rows)
      <3>1. PICK n \in 1..3 : rest \in [1..n -> req.rows]
        BY DEF Cited
      <3> QED BY <3>1
    <2> DEFINE b == Believed
    <2> HIDE DEF b
    <2>2. HeadFirst(b, rest)[1] = b
      BY <2>1 DEF HeadFirst
    <2> QED BY <1>1, <1>2, <2>2, AnswersLead DEF b
  <1>3. ASSUME Answer(<<Believed>>) PROVE AskInv' /\ StandingClaimLeads'
    <2> DEFINE b == Believed
    <2> HIDE DEF b
    <2>1. <<b>>[1] = b
      OBVIOUS
    <2> QED BY <1>1, <1>3, <2>1, AnswersLead DEF b
  <1>4. CASE req' = [req EXCEPT !.phase = "fold"]
    <2> DEFINE r == [req EXCEPT !.phase = "fold"]
    <2>1. /\ r = [f \in ReqField |-> r[f]]
          /\ r.route = req.route /\ r.struck = req.struck /\ r.cites = req.cites
          /\ r.claims = req.claims /\ r.edges = req.edges
      BY DEF ReqField, AskInv, ReqShape
    <2> HIDE DEF r
    <2> QED BY <1>1, <1>4, <2>1, GoesOn DEF ReqShape, r
  <1> QED BY <1>2, <1>3, <1>4, AbstainingEnds DEF Synthesise, FoldAnswers

LEMMA DiffsKept ==
  ASSUME StoreInv, AskInv, StandingClaimLeads, row' = row, sup' = sup,
         Validate \/ \E from, to \in 0..(MaxTime \div Second) : FoldDiff(from, to)
  PROVE  AskInv' /\ StandingClaimLeads'
  <1>1. ASSUME NEW from, NEW to, NEW agree,
               req' = [Idle EXCEPT !.route = "diff", !.outcome = "diff", !.from = from, !.to = to,
                                   !.agree = agree]
        PROVE  AskInv' /\ StandingClaimLeads'
    <2> DEFINE r == [Idle EXCEPT !.route = "diff", !.outcome = "diff", !.from = from, !.to = to,
                                 !.agree = agree]
    <2>1. /\ r = [f \in ReqField |-> r[f]] /\ r.phase = "done" /\ r.claims = {} /\ r.edges = {}
          /\ r.cites = <<>>
      BY DEF Idle, ReqField, None
    <2>2. req' = r
      BY <1>1
    <2> HIDE DEF r
    <2> QED BY <2>1, <2>2, EndsWithout
  <1>2. CASE Validate
    BY <1>1, <1>2 DEF Validate
  <1>3. ASSUME NEW from, NEW to, FoldDiff(from, to) PROVE AskInv' /\ StandingClaimLeads'
    <2> DEFINE none == [Idle EXCEPT !.route = "diff", !.outcome = "diff"]
               r == [req EXCEPT !.phase = "check", !.from = from, !.to = to]
    <2>1. req' = none \/ req' = r
      BY <1>3 DEF FoldDiff
    <2>2. CASE req' = none
      <3>1. /\ none = [f \in ReqField |-> none[f]] /\ none.phase = "done"
            /\ none.claims = {} /\ none.edges = {} /\ none.cites = <<>>
        BY DEF Idle, ReqField, None
      <3> HIDE DEF none
      <3> QED BY <2>2, <3>1, EndsWithout
    <2>3. CASE req' = r
      <3>1. /\ r = [f \in ReqField |-> r[f]] /\ r.phase = "check"
            /\ r.route = req.route /\ r.struck = req.struck /\ r.cites = req.cites
            /\ r.claims = req.claims /\ r.edges = req.edges
        BY DEF ReqField, AskInv, ReqShape
      <3>2. req.phase = "belief"
        BY <1>3 DEF FoldDiff, Loaded
      <3> HIDE DEF r
      <3> QED BY <2>3, <3>1, <3>2, GoesOn DEF ReqShape
    <2> QED BY <2>1, <2>2, <2>3
  <1> QED BY <1>2, <1>3

LEMMA AskedKept ==
  ASSUME StoreInv, AskInv, StandingClaimLeads, NEW k, Ask(k) \/ Diff(k)
  PROVE  AskInv' /\ StandingClaimLeads'
  <1>1. CASE Ask(k)
    <2>1. req'.cites = <<>>
      BY <1>1 DEF Ask, Idle
    <2> QED BY <1>1, <2>1, AskKept DEF StandingClaimLeads
  <1>2. CASE Diff(k)
    <2> DEFINE r == [Idle EXCEPT !.route = "diff", !.phase = "belief"]
    <2>1. /\ r = [f \in ReqField |-> r[f]] /\ r.route = "diff" /\ r.phase = "belief"
          /\ r.claims = {} /\ r.edges = {} /\ r.cites = <<>>
      BY DEF Idle, ReqField, None
    <2>2. req' = r
      BY <1>2 DEF Diff
    <2> HIDE DEF r
    <2> QED BY <2>1, <2>2 DEF AskInv, ReqShape, StandingClaimLeads
  <1> QED BY <1>1, <1>2

Asking == Inv /\ StoreInv /\ AskInv /\ StandingClaimLeads

LEMMA AskingKept ==
  ASSUME ~HasCycle(LoadedEdges), Asking, [ApiNext]_vars
  PROVE  StoreInv' /\ AskInv' /\ StandingClaimLeads'
  <1>1. StoreInv' /\ Grows
    BY StoreKept DEF Asking
  <1>2. CASE req' = req
    BY <1>1, <1>2, WaitingAsk DEF Asking, StandingClaimLeads
  <1>3. CASE Handle
    <2>1. row' = row /\ sup' = sup
      BY <1>3 DEF Handle, ReadRows, ReadClaims, ReadEdges, Synthesise, FoldAnswers, FoldDiff,
                  ReadPaths, ReadEnumeration, Validate, Step, storeVars
    <2> QED BY <1>1, <1>3, <2>1, ReadsKept, AnswersKept, DiffsKept DEF Handle, Asking
  <1>4. CASE Restart
    <2>1. Idle = [f \in ReqField |-> Idle[f]] /\ Idle.phase = "done" /\ Idle.claims = {}
          /\ Idle.edges = {} /\ Idle.cites = <<>>
      BY DEF Idle, ReqField, None
    <2> QED BY <1>1, <1>4, <2>1, EndsWithout DEF Restart
  <1>5. ASSUME NEW k, Ask(k) \/ Diff(k) PROVE StoreInv' /\ AskInv' /\ StandingClaimLeads'
    BY <1>1, <1>5, AskedKept DEF Asking
  <1> QED
    BY <1>2, <1>3, <1>4, <1>5
       DEF ApiNext, Other, TooMany, LoadHistory, WriteLexicon, Correct, Pause, vars

LEMMA AskingStarts == ApiInit => StoreInv /\ AskInv /\ StandingClaimLeads
  <1> SUFFICES ASSUME ApiInit PROVE StoreInv /\ AskInv /\ StandingClaimLeads
    OBVIOUS
  <1>1. DOMAIN row = {} /\ sup = {} /\ req = Idle
    BY DEF ApiInit
  <1>2. Idle = [f \in ReqField |-> Idle[f]] /\ Idle.phase = "done" /\ Idle.claims = {}
        /\ Idle.edges = {} /\ Idle.cites = <<>>
    BY DEF Idle, ReqField, None
  <1>3. ~HasCycle({})
    BY DEF HasCycle, Newers
  <1>4. StoreInv
    BY <1>1, <1>3, FS_EmptySet DEF StoreInv
  <1> QED BY <1>1, <1>2, <1>4 DEF AskInv, ReqShape, StandingClaimLeads

\* The claim an answer leads with (askQuery, headFirst) was not struck before
\* the question was asked, whatever corrections land between the two halves of
\* loadBelief, on a history whose ingested revisions run in no circle.
THEOREM AnswersAreStanding ==
  ASSUME ~HasCycle(LoadedEdges)
  PROVE  ApiSpec => []StandingClaimLeads
  <1>1. StoreInv /\ AskInv /\ StandingClaimLeads /\ Inv /\ [ApiNext]_vars
          => StoreInv' /\ AskInv' /\ StandingClaimLeads'
    BY AskingKept DEF Asking
  <1>2. ApiSpec => []Inv
    BY ApiImplementsLimiter, Invariance, PTL
  <1> QED BY AskingStarts, <1>1, <1>2, PTL DEF ApiSpec

----------------------------------------------------------------------------
(* What lies below a claim *)

\* x is a itself, or a displaced it, directly or not.
Below(E, a, x) ==
  \A S : a \in S /\ (\A e \in E : e.newer \in S => e.older \in S) => x \in S

LEMMA BelowSteps ==
  ASSUME NEW E, NEW a
  PROVE  /\ Below(E, a, a)
         /\ \A e \in E : Below(E, a, e.newer) => Below(E, a, e.older)
         /\ \A e \in E : Below(E, e.older, a) => Below(E, e.newer, a)
  BY DEF Below

\* A way down has a first edge and a last one.
LEMMA BelowFirst ==
  ASSUME NEW E, NEW a, NEW x, Below(E, a, x), x # a
  PROVE  \E e \in E : e.newer = a /\ Below(E, e.older, x)
  <1> DEFINE S == {a} \union {y \in Olders(E) : \E e \in E : e.newer = a /\ Below(E, e.older, y)}
  <1>1. ASSUME NEW f \in E, f.newer \in S PROVE f.older \in S
    <2>1. f.older \in Olders(E)
      BY DEF Olders
    <2>2. CASE f.newer = a
      <3>1. Below(E, f.older, f.older)
        BY BelowSteps
      <3> QED BY <2>1, <2>2, <3>1
    <2>3. CASE f.newer # a
      <3>1. PICK e \in E : e.newer = a /\ Below(E, e.older, f.newer)
        BY <1>1, <2>3
      <3>2. Below(E, e.older, f.older)
        BY <3>1, BelowSteps
      <3> QED BY <2>1, <3>1, <3>2
    <2> QED BY <2>2, <2>3
  <1>2. a \in S
    OBVIOUS
  <1> HIDE DEF S
  <1>3. x \in S
    BY <1>1, <1>2 DEF Below
  <1> QED BY <1>3 DEF S

LEMMA BelowLast ==
  ASSUME NEW E, NEW a, NEW x, Below(E, a, x), x # a
  PROVE  \E e \in E : e.older = x /\ Below(E, a, e.newer)
  <1> DEFINE S == {a} \union {y \in Olders(E) : \E e \in E : e.older = y /\ Below(E, a, e.newer)}
  <1>1. ASSUME NEW f \in E, f.newer \in S PROVE f.older \in S
    <2>1. f.older \in Olders(E)
      BY DEF Olders
    <2>2. Below(E, a, f.newer)
      <3>1. CASE f.newer = a
        BY <3>1, BelowSteps
      <3>2. CASE f.newer # a
        <4>1. PICK e \in E : e.older = f.newer /\ Below(E, a, e.newer)
          BY <1>1, <3>2
        <4> QED BY <4>1, BelowSteps
      <3> QED BY <3>1, <3>2
    <2> QED BY <2>1, <2>2
  <1>2. a \in S
    OBVIOUS
  <1> HIDE DEF S
  <1>3. x \in S
    BY <1>1, <1>2 DEF Below
  <1> QED BY <1>3 DEF S

\* enumerateChain lists what lies below.
LEMMA BelowIsReached ==
  ASSUME NEW E, NEW a, NEW x
  PROVE  x \in ReachableFrom(a, Pairs(E), {a} \union Ends(E)) <=> Below(E, a, x)
  <1> DEFINE U == {a} \union Ends(E)
  <1>1. \A e \in E : <<e.newer, e.older>> \in Pairs(E) /\ {e.newer, e.older} \subseteq U
    BY DEF Pairs, Ends, Newers, Olders
  <1>2. \A p \in Pairs(E) : \E e \in E : p[1] = e.newer /\ p[2] = e.older
    BY DEF Pairs
  <1> HIDE DEF U
  <1>3. ASSUME x \in ReachableFrom(a, Pairs(E), U), NEW S, a \in S,
               \A e \in E : e.newer \in S => e.older \in S
        PROVE  x \in S
    <2> DEFINE T == S \intersect U
    <2>1. T \in SUBSET U /\ a \in T
      BY <1>3 DEF U
    <2>2. \A p \in Pairs(E) : p[1] \in T /\ p[2] \in U => p[2] \in T
      BY <1>2, <1>3
    <2> QED BY <1>3, <2>1, <2>2 DEF ReachableFrom
  <1>4. ASSUME Below(E, a, x) PROVE x \in ReachableFrom(a, Pairs(E), U)
    <2>1. x \in U
      BY <1>1, <1>4 DEF Below, U
    <2>2. ASSUME NEW S \in SUBSET U, a \in S,
                 \A p \in Pairs(E) : p[1] \in S /\ p[2] \in U => p[2] \in S
          PROVE  x \in S
      <3>1. ASSUME NEW e \in E, e.newer \in S PROVE e.older \in S
        <4>1. <<e.newer, e.older>>[1] \in S /\ <<e.newer, e.older>>[2] \in U
          BY <1>1, <3>1
        <4>2. <<e.newer, e.older>>[2] \in S
          BY <1>1, <2>2, <4>1
        <4> QED BY <4>2
      <3> QED BY <1>4, <2>2, <3>1 DEF Below
    <2> QED BY <2>1, <2>2 DEF ReachableFrom
  <1> QED BY <1>3, <1>4 DEF Below, U

\* SPpaths finds what lies below.
LEMMA BelowIsConnected ==
  ASSUME NEW E, NEW a, NEW x, Below(E, a, x), x # a
  PROVE  Connected(E, a, x)
  <1> DEFINE U == {a} \union Ends(E)
             rel == Both(Pairs(E))
  <1>1. \A e \in E : <<e.newer, e.older>> \in rel /\ {e.newer, e.older} \subseteq U
    BY DEF Both, Pairs, Ends, Newers, Olders
  <1>2. a \in U
    OBVIOUS
  <1> HIDE DEF U, rel
  <1>3. x \in U
    BY <1>1, <1>2 DEF Below
  <1>4. ASSUME NEW S \in SUBSET U, a \in S,
               \A p \in rel : p[1] \in S /\ p[2] \in U => p[2] \in S
        PROVE  x \in S
    <2>1. ASSUME NEW e \in E, e.newer \in S PROVE e.older \in S
      <3>1. <<e.newer, e.older>>[1] \in S /\ <<e.newer, e.older>>[2] \in U
        BY <1>1, <2>1
      <3>2. <<e.newer, e.older>>[2] \in S
        BY <1>1, <1>4, <3>1
      <3> QED BY <3>2
    <2> QED BY <1>4, <2>1 DEF Below
  <1>5. x \in ReachableFrom(a, rel, U)
    BY <1>3, <1>4 DEF ReachableFrom
  <1> QED BY <1>5 DEF Connected, U, rel

\* No claim displaces two others.
Unmerged(E) == \A e, f \in E : e.newer = f.newer => e = f

\* Where no claim displaces two or is displaced by two, the connected claims
\* are a chain.
LEMMA ConnectedIsChain ==
  ASSUME NEW E, Unforked(E), Unmerged(E), NEW a, NEW x, Connected(E, a, x)
  PROVE  x # a /\ (Below(E, a, x) \/ Below(E, x, a))
  <1> DEFINE U == {a} \union Ends(E)
             S == {y \in U : Below(E, a, y) \/ Below(E, y, a)}
  <1>1. ASSUME NEW e \in E, e.newer \in S PROVE Below(E, a, e.older) \/ Below(E, e.older, a)
    <2>1. CASE Below(E, a, e.newer)
      BY <2>1, BelowSteps
    <2>2. CASE Below(E, e.newer, a) /\ e.newer # a
      <3>1. PICK f \in E : f.newer = e.newer /\ Below(E, f.older, a)
        BY <2>2, BelowFirst
      <3> QED BY <3>1 DEF Unmerged
    <2> QED BY <1>1, <2>1, <2>2, BelowSteps
  <1>2. ASSUME NEW e \in E, e.older \in S PROVE Below(E, a, e.newer) \/ Below(E, e.newer, a)
    <2>1. CASE Below(E, e.older, a)
      BY <2>1, BelowSteps
    <2>2. CASE Below(E, a, e.older) /\ e.older # a
      <3>1. PICK f \in E : f.older = e.older /\ Below(E, a, f.newer)
        BY <2>2, BelowLast
      <3> QED BY <3>1 DEF Unforked
    <2>3. Below(E, a, a)
      BY BelowSteps
    <2> QED BY <1>2, <2>1, <2>2, <2>3
  <1>3. \A p \in Both(Pairs(E)) : \E e \in E : \/ p[1] = e.newer /\ p[2] = e.older
                                               \/ p[1] = e.older /\ p[2] = e.newer
    BY DEF Both, Pairs
  <1>4. \A p \in Both(Pairs(E)) : p[1] \in S /\ p[2] \in U => p[2] \in S
    <2> SUFFICES ASSUME NEW p \in Both(Pairs(E)), p[1] \in S, p[2] \in U
                 PROVE  Below(E, a, p[2]) \/ Below(E, p[2], a)
      OBVIOUS
    <2>1. PICK e \in E : \/ p[1] = e.newer /\ p[2] = e.older
                         \/ p[1] = e.older /\ p[2] = e.newer
      BY <1>3
    <2> HIDE DEF S
    <2> QED BY <1>1, <1>2, <2>1
  <1>5. S \in SUBSET U /\ a \in S
    BY BelowSteps
  <1> HIDE DEF S, U
  <1>6. x \in S
    <2>1. x \in ReachableFrom(a, Both(Pairs(E)), U)
      BY DEF Connected, U
    <2> QED BY <1>4, <1>5, <2>1 DEF ReachableFrom
  <1>7. x # a
    BY DEF Connected
  <1> QED BY <1>6, <1>7 DEF S

\* What lies below the claims K is not changed by edges out of others.
LEMMA BelowStays ==
  ASSUME NEW E, NEW F, E \subseteq F, NEW K, \A e \in E : e.older \in K,
         \A e \in F \ E : e.newer \notin K, NEW a \in K
  PROVE  \A x : Below(F, a, x) <=> Below(E, a, x)
  <1>1. ASSUME NEW x, Below(E, a, x) PROVE Below(F, a, x)
    BY <1>1 DEF Below
  <1>2. ASSUME NEW x, Below(F, a, x), NEW S, a \in S, \A e \in E : e.newer \in S => e.older \in S
        PROVE  x \in S
    <2> DEFINE T == S \intersect K
    <2>1. a \in T /\ \A e \in F : e.newer \in T => e.older \in T
      BY <1>2
    <2> HIDE DEF T
    <2>2. x \in T
      BY <1>2, <2>1 DEF Below
    <2> QED BY <2>2 DEF T
  <1> QED BY <1>1, <1>2 DEF Below

\* Revised in order, what lies below is earlier.
LEMMA BelowIsEarlier ==
  ASSUME NEW E, NEW R, InOrder(E, R),
         \A e \in E : R[e.newer].event \in Int /\ R[e.older].event \in Int,
         NEW a, NEW x, Below(E, a, x), x # a
  PROVE  /\ R[x].event < R[a].event
         /\ R[x].event \in Int /\ R[a].event \in Int
  <1> DEFINE S == {a} \union {y \in Olders(E) : R[y].event < R[a].event /\ R[y].event \in Int}
  <1>1. R[a].event \in Int
    BY BelowFirst
  <1>2. ASSUME NEW e \in E, e.newer \in S PROVE e.older \in S
    <2>1. R[e.older].event < R[e.newer].event /\ R[e.newer].event \in Int /\ R[e.older].event \in Int
      BY DEF InOrder
    <2>2. e.newer = a \/ R[e.newer].event < R[a].event
      BY <1>2
    <2>3. R[e.older].event < R[a].event
      BY <1>1, <2>1, <2>2
    <2> QED BY <2>1, <2>3 DEF Olders
  <1>3. a \in S
    OBVIOUS
  <1> HIDE DEF S
  <1>4. x \in S
    BY <1>2, <1>3 DEF Below
  <1> QED BY <1>1, <1>4 DEF S

----------------------------------------------------------------------------
(* The heads of two pasts *)

\* The head of a past is one of its claims, and the newest of those that
\* nothing known then displaced, or of all if it was displaced itself.
LEMMA HeadOfPast ==
  ASSUME NEW C, NEW R, NEW E, Readable(C, R, E), EdgesOf(E, "SUPERSEDES") = E, ~HasCycle(E),
         NEW at, NEW h, h = ResolveAsOf("FUNCTIONAL", C, R, E, at, "event").head, h # NoClaim
  PROVE  LET P == ClaimsAt(C, R, at, "event")
             struck == Olders(EdgesAt(E, at))
         IN  h \in P /\ \A d \in P \ {h} : h \in struck \/ d \notin struck => NewerThan(R, h, d)
  <1> DEFINE P == ClaimsAt(C, R, at, "event")
             F == EdgesAt(E, at)
             b == ResolveFunctional(P, R, F)
  <1>1. P \subseteq C /\ F \subseteq E
    BY DEF ClaimsAt, EdgesAt
  <1>2. EdgesOf(F, "SUPERSEDES") = F /\ EdgesOf(F, "SUPPORTS") = {}
    BY <1>1 DEF EdgesOf
  <1>3. IsFiniteSet(P) /\ Comparable(P, R)
    BY <1>1, FS_Subset DEF Readable, Comparable
  <1>4. EdgeSet(F) /\ ~HasCycle(F)
    BY <1>1, EdgeSubset, PartHasNoCycle DEF Readable
  <1>5. Readable(P, R, F)
    BY <1>2, <1>3, <1>4 DEF Readable
  <1>6. BreakCycles(F) = F
    BY <1>4, CycleBrokenIsExact
  <1>7. P # {} /\ h = b.head
    BY DEF ResolveAsOf, ResolveBelief, EmptyBelief
  <1>8. h = b.first
    BY <1>7 DEF ResolveFunctional, BeliefLedBy
  <1> HIDE DEF P, F, b
  <1>9. /\ h \in Candidates(P, F, F) /\ Candidates(P, F, F) \subseteq P
        /\ \A d \in Candidates(P, F, F) \ {h} : NewerThan(R, h, d)
    BY <1>2, <1>5, <1>6, <1>7, <1>8, FunctionalHead DEF b
  <1>10. Undisplaced(P, F, F) = P \ Olders(F)
    BY <1>2 DEF Undisplaced, Newers
  <1>11. ASSUME NEW d \in P \ {h}, h \in Olders(F) \/ d \notin Olders(F) PROVE NewerThan(R, h, d)
    <2>1. d \in Candidates(P, F, F)
      BY <1>9, <1>10, <1>11 DEF Candidates
    <2> QED BY <1>9, <2>1
  <1> QED BY <1>9, <1>11 DEF P, F

\* Claims that came before the edges were read have all theirs in the read.
SeenWhole(all, E) == \A e \in all : e.newer \in Ends(E) => e \in E

\* No revision was learned after the one that revised it.
LearnedInTurn(E) == \A e, f \in E : e.newer = f.older => e.ingest <= f.ingest

\* Nor was any of those further down.
LEMMA LearnedBelow ==
  ASSUME NEW E, LearnedInTurn(E), \A e \in E : e.ingest \in Int,
         NEW g \in E, NEW e \in E, Below(E, g.older, e.newer)
  PROVE  e.ingest <= g.ingest
  <1> DEFINE S == {x \in {g.older} \union Olders(E) : \A f \in E : f.newer = x => f.ingest <= g.ingest}
  <1>1. g.older \in S
    BY DEF LearnedInTurn
  <1>2. ASSUME NEW f \in E, f.newer \in S PROVE f.older \in S
    <2>1. f.ingest <= g.ingest /\ f.older \in Olders(E)
      BY <1>2 DEF Olders
    <2>2. ASSUME NEW h \in E, h.newer = f.older PROVE h.ingest <= g.ingest
      <3>1. h.ingest <= f.ingest
        BY <2>2 DEF LearnedInTurn
      <3>2. {h.ingest, f.ingest, g.ingest} \subseteq Int
        OBVIOUS
      <3> QED BY <2>1, <3>1, <3>2
    <2> QED BY <2>1, <2>2
  <1> HIDE DEF S
  <1>3. e.newer \in S
    BY <1>1, <1>2 DEF Below
  <1> QED BY <1>3 DEF S

\* The head of an earlier past does not stand above that of a later one.
LEMMA HeadsDescend ==
  ASSUME NEW C, NEW R, NEW all, NEW E, Readable(C, R, E), EdgesOf(E, "SUPERSEDES") = E,
         ~HasCycle(E), E \subseteq all, SeenWhole(all, E), InOrder(all, R), LearnedInTurn(all),
         \A e \in all : {R[e.newer].event, R[e.older].event, e.ingest} \subseteq Int,
         NEW from \in Nat, NEW to \in Nat, from <= to,
         NEW f, f = ResolveAsOf("FUNCTIONAL", C, R, E, from, "event").head, f # NoClaim,
         NEW t, t = ResolveAsOf("FUNCTIONAL", C, R, E, to, "event").head, t # NoClaim,
         f # t
  PROVE  ~Below(all, f, t)
  <1> DEFINE early == ClaimsAt(C, R, from, "event")
             late == ClaimsAt(C, R, to, "event")
             struck == Olders(EdgesAt(E, to))
  <1>1. f \in early /\ t \in late
    BY HeadOfPast
  <1>2. \A d \in late \ {t} : t \in struck \/ d \notin struck => NewerThan(R, t, d)
    BY HeadOfPast
  <1>3. f \in late /\ R[f].event \in Int /\ R[f].event <= from
    BY <1>1 DEF ClaimsAt, Readable, Comparable
  <1> HIDE DEF early, late, struck
  <1> SUFFICES ASSUME Below(all, f, t) PROVE FALSE
    OBVIOUS
  <1>4. R[t].event < R[f].event /\ R[t].event \in Int /\ R[f].event \in Int
    BY BelowIsEarlier
  <1>5. ~NewerThan(R, t, f)
    BY <1>4 DEF NewerThan
  <1>6. t \notin struck /\ f \in struck
    BY <1>2, <1>3, <1>5
  <1>7. PICK e \in all : e.older = t /\ Below(all, f, e.newer)
    BY BelowLast
  <1>8. e.ingest <= to
    <2>1. PICK g \in E : g.older = f /\ g.ingest <= to
      BY <1>6 DEF struck, EdgesAt, Olders
    <2>2. e.ingest <= g.ingest
      BY <1>7, <2>1, LearnedBelow
    <2>3. e.ingest \in Int /\ g.ingest \in Int
      OBVIOUS
    <2> QED BY <2>1, <2>2, <2>3
  <1>9. f \in Ends(E)
    BY <1>6 DEF struck, EdgesAt, Ends, Olders
  <1>10. \A g \in all : g.newer \in Ends(E) => g.older \in Ends(E)
    BY DEF SeenWhole, Ends, Olders
  <1>11. e.newer \in Ends(E)
    BY <1>7, <1>9, <1>10 DEF Below
  <1>12. e \in EdgesAt(E, to)
    BY <1>8, <1>11 DEF SeenWhole, EdgesAt
  <1> QED BY <1>6, <1>7, <1>12 DEF struck, Olders

\* The chain of a diff is below the head it starts from.
LEMMA WalkIsBelow ==
  ASSUME NEW C, NEW E, NEW start, NEW stopAt, NEW walk, IsWalk(walk, C, E, start, stopAt),
         NEW all, E \subseteq all
  PROVE  \A i \in DOMAIN walk : Below(all, start, walk[i].newer) /\ Below(all, start, walk[i].older)
  <1> DEFINE Bad == {i \in DOMAIN walk : ~Below(all, start, walk[i].newer)}
  <1>1. /\ Len(walk) \in Nat /\ DOMAIN walk = 1..Len(walk)
        /\ \A i \in DOMAIN walk : walk[i] \in all
    BY DEF IsWalk
  <1>2. Bad = {}
    <2> SUFFICES ASSUME Bad # {} PROVE FALSE
      OBVIOUS
    <2>1. Bad \subseteq Nat
      BY <1>1
    <2>2. PICK i \in Bad : \A j \in Bad : i <= j
      <3> HIDE DEF Bad
      <3> QED BY <2>1, NatLeast
    <2>3. i # 1
      BY <2>2, BelowSteps DEF IsWalk
    <2>4. i - 1 \in DOMAIN walk /\ i - 1 \notin Bad
      BY <1>1, <2>2, <2>3
    <2>5. Below(all, start, walk[i - 1].older)
      BY <1>1, <2>4, BelowSteps
    <2>6. walk[i].newer = walk[i - 1].older
      BY <2>2, <2>3 DEF IsWalk
    <2> QED BY <2>2, <2>5, <2>6
  <1> QED BY <1>1, <1>2, BelowSteps

----------------------------------------------------------------------------
(* The check of a diff *)

\* The ingested revisions run in no circle, no claim of theirs displaces two,
\* and none was learned after the one that revised it.
LoadedInTurn ==
  ~HasCycle(LoadedEdges) /\ Unmerged(LoadedEdges) /\ LearnedInTurn(LoadedEdges)

\* The same of the store, which corrections revise one by one, as time goes by.
RevisedInTurn ==
  /\ Unmerged(sup) /\ LearnedInTurn(sup)
  /\ \A e \in sup : e.ingest <= now \div Second

LEMMA SecondsPass ==
  ASSUME NEW t \in Nat
  PROVE  t \div Second \in Int /\ t \div Second <= (t + 1) \div Second
  BY LimiterAssumption

GrowsOnTop == Grows /\ \A e \in sup' \ sup : e.newer \notin DOMAIN row

LEMMA RevisedOnTop ==
  ASSUME LoadedInTurn, Inv, StoreInv, RevisedInTurn, [ApiNext]_vars
  PROVE  StoreInv' /\ RevisedInTurn' /\ GrowsOnTop
  <1>1. StoreInv' /\ Grows
    BY StoreKept DEF LoadedInTurn
  <1>2. CASE row' = row /\ sup' = sup
    <2>1. now' = now \/ (now \in Nat /\ now' = now + 1)
      BY StepsOfTheLimiter DEF Inv, Types, Next, limits, Tick, Admit, Refuse, Forget
    <2>2. now \div Second \in Int /\ now' \div Second \in Int /\ now \div Second <= now' \div Second
      BY <2>1, SecondsPass DEF Inv, Types
    <2>3. \A e \in sup : e.ingest \in Int
      BY DEF StoreInv
    <2>4. \A e \in sup : e.ingest <= now' \div Second
      BY <2>2, <2>3 DEF RevisedInTurn
    <2> QED BY <1>1, <1>2, <2>4 DEF RevisedInTurn, GrowsOnTop
  <1>3. CASE LoadHistory
    BY <1>1, <1>3 DEF LoadHistory, LoadedInTurn, RevisedInTurn, GrowsOnTop
  <1>4. ASSUME NEW c \in CorrectionId, NEW target \in DOMAIN row, Correct(c, target)
        PROVE  RevisedInTurn' /\ GrowsOnTop
    <2> DEFINE at == now \div Second
               e == [rel |-> "SUPERSEDES", newer |-> c, older |-> target, ingest |-> at, conf |-> 99]
    <2>1. /\ sup' = sup \union {e} /\ c \notin DOMAIN row /\ now' = now
          /\ e.newer = c /\ e.older = target /\ e.ingest = at
      BY <1>4 DEF Correct
    <2>2. at \in Int /\ \A f \in sup : f.ingest <= at
      BY LimiterAssumption DEF Inv, Types, RevisedInTurn
    <2>3. \A f \in sup : {f.newer, f.older} \subseteq DOMAIN row /\ c \notin {f.newer, f.older}
      BY <2>1 DEF StoreInv
    <2>4. \A f \in sup' : f.ingest <= now' \div Second
      BY <2>1, <2>2
    <2> HIDE DEF at, e
    <2>5. Unmerged(sup')
      BY <2>1, <2>3 DEF RevisedInTurn, Unmerged
    <2>6. c # target
      BY <2>1
    <2>7. LearnedInTurn(sup')
      BY <2>1, <2>2, <2>3, <2>6 DEF RevisedInTurn, LearnedInTurn
    <2> QED BY <1>1, <2>1, <2>4, <2>5, <2>7 DEF RevisedInTurn, GrowsOnTop
  <1> QED BY <1>1, <1>2, <1>3, <1>4, OthersLeaveTheStore

\* What the enumeration listed, and what the path search said of the head of
\* the earlier past, still holds of the store, which has grown on top.
ListedRight(E, t, listed) == \A x : x \in listed <=> Below(E, t, x) /\ x # t
PathsRight(E, t, f, paths) ==
  /\ Below(E, t, f) /\ t # f => paths
  /\ Unforked(E) /\ paths => t # f /\ (Below(E, t, f) \/ Below(E, f, t))

Checking ==
  /\ req.claims # {} /\ req.edges # {} /\ req.from \in Nat /\ req.to \in Nat
  /\ DiffNow.toHead # NoClaim
  /\ \A listed \in req.listed : ListedRight(sup, DiffNow.toHead, listed)
  /\ \A paths \in req.paths :
       /\ paths \in BOOLEAN
       /\ DiffNow.fromHead # NoClaim => PathsRight(sup, DiffNow.toHead, DiffNow.fromHead, paths)

DiffInv ==
  /\ req.phase # "done" => req.agree = TRUE
  /\ \A E \in req.edges : SeenWhole(sup, E)
  /\ IF req.phase = "check" THEN Checking ELSE req.paths = {} /\ req.listed = {}

\* The two heads are claims of the read, and of the store.
LEMMA DiffHeads ==
  ASSUME StoreInv, AskInv, req.claims # {}, req.edges # {}
  PROVE  /\ DiffNow.toHead = ResolveAsOf("FUNCTIONAL", GotClaims, row, GotEdges, req.to, "event").head
         /\ DiffNow.fromHead = ResolveAsOf("FUNCTIONAL", GotClaims, row, GotEdges, req.from, "event").head
         /\ DiffNow.toHead # NoClaim => DiffNow.toHead \in DOMAIN row
         /\ DiffNow.fromHead # NoClaim => DiffNow.fromHead \in DOMAIN row
  <1>1. /\ DiffNow.toHead = ResolveAsOf("FUNCTIONAL", GotClaims, row, GotEdges, req.to, "event").head
        /\ DiffNow.fromHead = ResolveAsOf("FUNCTIONAL", GotClaims, row, GotEdges, req.from, "event").head
    BY DEF DiffNow, DiffChain, DiffBetween
  <1>2. /\ GotClaims \subseteq DOMAIN row /\ Readable(GotClaims, row, GotEdges)
        /\ EdgesOf(GotEdges, "SUPERSEDES") = GotEdges /\ ~HasCycle(GotEdges)
    BY GotIsReadable
  <1>3. \A at : ClaimsAt(GotClaims, row, at, "event") \subseteq DOMAIN row
    BY <1>2 DEF ClaimsAt
  <1> HIDE DEF DiffNow, GotClaims, GotEdges
  <1>4. DiffNow.toHead # NoClaim => DiffNow.toHead \in DOMAIN row
    BY <1>1, <1>2, <1>3, HeadOfPast
  <1>5. DiffNow.fromHead # NoClaim => DiffNow.fromHead \in DOMAIN row
    BY <1>1, <1>2, <1>3, HeadOfPast
  <1> QED BY <1>1, <1>4, <1>5

\* The diff of what was read does not change while the store grows.
LEMMA SameDiff ==
  ASSUME StoreInv, AskInv, Grows, req.claims # {}, req.edges # {}, req' = req
  PROVE  DiffNow' = DiffNow
  <1> DEFINE C == GotClaims
             E == GotEdges
             P(at) == ClaimsAt(C, row, at, "event")
             F(at) == EdgesAt(E, at)
  <1>1. C' = C /\ E' = E
    BY DEF GotClaims, GotEdges
  <1>2. C \subseteq DOMAIN row /\ Readable(C, row, E) /\ EdgesOf(E, "SUPERSEDES") = E
    BY GotIsReadable
  <1> HIDE DEF C, E
  <1>3. \A c \in C : row'[c] = row[c]
    BY <1>2 DEF Grows
  <1>4. ASSUME NEW at
        PROVE  ResolveAsOf("FUNCTIONAL", C, row', E, at, "event") = ResolveAsOf("FUNCTIONAL", C, row, E, at, "event")
    <2>1. ClaimsAt(C, row', at, "event") = P(at)
      BY <1>3 DEF ClaimsAt
    <2>2. P(at) \subseteq C /\ F(at) \subseteq E
      BY DEF ClaimsAt, EdgesAt
    <2>3. IsFiniteSet(P(at)) /\ Comparable(P(at), row)
      BY <1>2, <2>2, FS_Subset DEF Readable, Comparable
    <2>4. EdgeSet(EdgesOf(F(at), "SUPERSEDES"))
      <3>1. EdgesOf(F(at), "SUPERSEDES") \subseteq E
        BY <2>2 DEF EdgesOf
      <3> QED BY <1>2, <3>1, EdgeSubset DEF Readable
    <2>5. Readable(P(at), row, F(at)) /\ \A c \in P(at) : row[c] = row'[c]
      BY <1>3, <2>2, <2>3, <2>4 DEF Readable
    <2> HIDE DEF P, F
    <2>6. ResolveBelief("FUNCTIONAL", P(at), row, F(at)) = ResolveBelief("FUNCTIONAL", P(at), row', F(at))
      BY <2>5, FoldReadsItsRows
    <2> QED BY <2>1, <2>6 DEF ResolveAsOf, F, P
  <1>5. DiffNow = DiffBetween(C, EdgesOf(E, "SUPERSEDES"),
                              ResolveAsOf("FUNCTIONAL", C, row, E, req.from, "event").head,
                              ResolveAsOf("FUNCTIONAL", C, row, E, req.to, "event").head, 8)
    BY DEF DiffNow, DiffChain, C, E
  <1>6. DiffNow' = DiffBetween(C, EdgesOf(E, "SUPERSEDES"),
                               ResolveAsOf("FUNCTIONAL", C, row', E, req.from, "event").head,
                               ResolveAsOf("FUNCTIONAL", C, row', E, req.to, "event").head, 8)
    BY <1>1 DEF DiffNow, DiffChain, C, E
  <1> QED BY <1>4, <1>5, <1>6

LEMMA WaitingDiff ==
  ASSUME StoreInv, StoreInv', AskInv, GrowsOnTop, DiffInv, req' = req
  PROVE  DiffInv'
  <1>1. \A E \in req.edges : SeenWhole(sup', E)
    <2> SUFFICES ASSUME NEW E \in req.edges, NEW e \in sup' \ sup PROVE e.newer \notin Ends(E)
      BY DEF DiffInv, SeenWhole
    <2>1. Ends(E) \subseteq DOMAIN row
      BY DEF AskInv, StoreInv, Ends, Newers, Olders
    <2> QED BY <2>1 DEF GrowsOnTop
  <1>2. ASSUME req.phase = "check" PROVE Checking'
    <2> DEFINE t == DiffNow.toHead
               f == DiffNow.fromHead
    <2>1. Checking /\ DiffNow' = DiffNow
      BY <1>2, SameDiff DEF DiffInv, Checking, GrowsOnTop
    <2>2. t \in DOMAIN row /\ (f # NoClaim => f \in DOMAIN row)
      BY <2>1, DiffHeads DEF Checking
    <2> HIDE DEF DiffNow
    <2>3. ASSUME NEW a \in DOMAIN row PROVE \A x : Below(sup', a, x) <=> Below(sup, a, x)
      <3>1. sup \subseteq sup' /\ \A e \in sup : e.older \in DOMAIN row
        BY DEF GrowsOnTop, Grows, StoreInv
      <3>2. \A e \in sup' \ sup : e.newer \notin DOMAIN row
        BY DEF GrowsOnTop
      <3> QED BY <3>1, <3>2, BelowStays
    <2>4. \A listed \in req.listed : ListedRight(sup', t, listed)
      BY <2>1, <2>2, <2>3 DEF Checking, ListedRight
    <2>5. Unforked(sup') => Unforked(sup)
      BY DEF Unforked, GrowsOnTop, Grows
    <2>6. \A paths \in req.paths : paths \in BOOLEAN /\ (f # NoClaim => PathsRight(sup', t, f, paths))
      BY <2>1, <2>2, <2>3, <2>5 DEF Checking, PathsRight
    <2> QED BY <2>1, <2>4, <2>6 DEF Checking
  <1> QED BY <1>1, <1>2 DEF DiffInv

\* A request that is over, or goes on with something else than a check.
LEMMA NoCheck ==
  ASSUME ReqShape', req'.phase # "check", req'.phase # "done" => req'.agree = TRUE,
         req'.paths = {}, req'.listed = {}, \A E \in req'.edges : SeenWhole(sup', E)
  PROVE  DiffInv'
  BY DEF DiffInv

\* With nothing known against it, the property holds of a request.
LEMMA NoAlarm == ASSUME req.agree = TRUE PROVE ChainsAreConfirmed
  BY DEF ChainsAreConfirmed

\* A check of what the two confirmations said finds nothing wrong.
LEMMA CheckAgrees ==
  ASSUME StoreInv, RevisedInTurn, AskInv, Checking, \A E \in req.edges : SeenWhole(sup, E),
         Unforked(sup), InOrder(sup, row), req.from <= req.to,
         NEW paths \in req.paths, NEW listed \in req.listed
  PROVE  Covers(listed, DiffNow) /\ PathsAgree(paths, listed, DiffNow)
  <1> DEFINE C == GotClaims
             E == GotEdges
             t == DiffNow.toHead
             f == DiffNow.fromHead
             walk == DiffNow.revisions
  <1>1. /\ Readable(C, row, E) /\ EdgesOf(E, "SUPERSEDES") = E /\ ~HasCycle(E)
        /\ E \subseteq sup /\ SeenWhole(sup, E)
    BY GotIsReadable DEF Checking
  <1>2. /\ t = ResolveAsOf("FUNCTIONAL", C, row, E, req.to, "event").head
        /\ f = ResolveAsOf("FUNCTIONAL", C, row, E, req.from, "event").head
        /\ t # NoClaim
    BY DiffHeads DEF Checking
  <1>3. /\ ListedRight(sup, t, listed) /\ paths \in BOOLEAN
        /\ f # NoClaim => PathsRight(sup, t, f, paths)
    BY DEF Checking
  <1>4. walk = DiffWalk(C, E, t, f, 8)
    BY <1>1, <1>2 DEF DiffNow, DiffChain, DiffBetween
  <1>5. req.from \in Nat /\ req.to \in Nat
    BY DEF Checking
  <1> HIDE DEF C, E, DiffNow
  <1>6. \A e \in sup : {row[e.newer].event, row[e.older].event, e.ingest} \subseteq Int
    BY DEF StoreInv
  <1>7. Covers(listed, DiffNow)
    <2> SUFFICES ASSUME NEW i \in DOMAIN walk PROVE walk[i].older \in listed
      BY DEF Covers
    <2>1. IsWalk(walk, C, E, t, f)
      <3>1. EdgeSet(E)
        BY <1>1 DEF Readable
      <3> QED BY <1>4, <3>1, DiffWalks
    <2>2. Below(sup, t, walk[i].newer) /\ Below(sup, t, walk[i].older) /\ walk[i] \in sup
      <3>1. walk[i] \in E
        BY <2>1 DEF IsWalk
      <3> QED BY <1>1, <2>1, <3>1, WalkIsBelow
    <2>3. walk[i].newer = t \/ row[walk[i].newer].event < row[t].event
      BY <1>6, <2>2, BelowIsEarlier
    <2>4. walk[i].older = t \/ row[t].event \in Int
      BY <1>6, <2>2, BelowIsEarlier
    <2>5. walk[i].older # t
      <3>1. row[walk[i].older].event < row[walk[i].newer].event
        BY <2>2 DEF InOrder
      <3>2. row[walk[i].older].event \in Int /\ row[walk[i].newer].event \in Int
        BY <1>6, <2>2
      <3> QED BY <2>3, <3>1, <3>2
    <2> QED BY <1>3, <2>2, <2>5 DEF ListedRight
  <1>8. ASSUME f # NoClaim PROVE paths <=> f \in listed
    <2>1. f # t => ~Below(sup, f, t)
      BY <1>1, <1>2, <1>5, <1>6, <1>8, HeadsDescend DEF RevisedInTurn
    <2>2. f \in listed <=> Below(sup, t, f) /\ f # t
      BY <1>3 DEF ListedRight
    <2> QED BY <1>3, <1>8, <2>1, <2>2 DEF PathsRight
  <1> QED BY <1>7, <1>8 DEF PathsAgree

\* One confirmation is read.
LEMMA ConfirmationRead ==
  ASSUME StoreInv, RevisedInTurn, AskInv, DiffInv, row' = row, sup' = sup,
         ReadPaths \/ ReadEnumeration
  PROVE  DiffInv' /\ ChainsAreConfirmed'
  <1>1. req = [f \in ReqField |-> req[f]] /\ req.phase = "check" /\ Checking /\ req.agree = TRUE
    BY DEF AskInv, ReqShape, DiffInv, ReadPaths, ReadEnumeration
  <1> DEFINE t == DiffNow.toHead
             f == DiffNow.fromHead
             found == f # NoClaim /\ Connected(sup, t, f)
             list == Enumerated(sup, t)
  <1>2. \/ ReadPaths /\ req' = [req EXCEPT !.paths = {found}]
        \/ ReadEnumeration /\ req' = [req EXCEPT !.listed = {list}]
    BY DEF ReadPaths, ReadEnumeration
  <1>3. /\ req'.claims = req.claims /\ req'.edges = req.edges /\ req'.from = req.from /\ req'.to = req.to
        /\ req'.phase = "check" /\ req'.agree = TRUE
        /\ req'.paths = req.paths \/ req'.paths = {found}
        /\ req'.listed = req.listed \/ req'.listed = {list}
    BY <1>1, <1>2 DEF ReqField
  <1>4. DiffNow' = DiffNow
    BY <1>3 DEF DiffNow, GotClaims, GotEdges
  <1>5. ListedRight(sup, t, list)
    BY BelowIsReached DEF ListedRight, Enumerated
  <1>6. found \in BOOLEAN /\ (f # NoClaim => PathsRight(sup, t, f, found))
    <2>1. f # NoClaim /\ Below(sup, t, f) /\ t # f => found
      BY BelowIsConnected
    <2>2. Unforked(sup) /\ found => t # f /\ (Below(sup, t, f) \/ Below(sup, f, t))
      BY ConnectedIsChain DEF RevisedInTurn
    <2> QED BY <2>1, <2>2 DEF PathsRight
  <1> HIDE DEF DiffNow, found, list
  <1>7. Checking'
    BY <1>1, <1>3, <1>4, <1>5, <1>6 DEF Checking
  <1> QED BY <1>3, <1>7, <1>1 DEF DiffInv, ChainsAreConfirmed

LEMMA DiffSteps ==
  ASSUME StoreInv, RevisedInTurn, AskInv, DiffInv, ChainsAreConfirmed, row' = row, sup' = sup, Handle
  PROVE  DiffInv' /\ ChainsAreConfirmed'
  <1>1. req = [f \in ReqField |-> req[f]]
    BY DEF AskInv, ReqShape
  <1>2. SeenWhole(sup, sup)
    BY DEF SeenWhole
  <1>3. ASSUME NEW r, req' = r, r = [f \in ReqField |-> r[f]], r.phase # "check", r.agree = TRUE,
               r.paths = {}, r.listed = {}, r.edges \subseteq req.edges \union {sup}
        PROVE  DiffInv' /\ ChainsAreConfirmed'
    BY <1>2, <1>3 DEF DiffInv, ChainsAreConfirmed
  <1>4. ASSUME NEW r, req' = r, r = [f \in ReqField |-> r[f]], r.phase = "done", r.edges = {},
               r.paths = {}, r.listed = {}, r.agree = TRUE
        PROVE  DiffInv' /\ ChainsAreConfirmed'
    BY <1>4 DEF DiffInv, ChainsAreConfirmed
  <1>5. CASE ReadRows
    <2> DEFINE none == [Idle EXCEPT !.route = "ask", !.outcome = "no_claim_fit"]
               r == [req EXCEPT !.phase = "belief", !.rows = ClaimsForEntities]
    <2>1. /\ none = [f \in ReqField |-> none[f]] /\ none.phase = "done" /\ none.edges = {}
          /\ none.paths = {} /\ none.listed = {} /\ none.agree = TRUE
      BY DEF Idle, ReqField, None
    <2>2. /\ r = [f \in ReqField |-> r[f]] /\ r.phase = "belief" /\ r.edges = req.edges
          /\ r.paths = req.paths /\ r.listed = req.listed /\ r.agree = req.agree
      BY <1>1 DEF ReqField
    <2>3. (req' = none \/ req' = r) /\ req.phase = "rows"
      BY <1>5 DEF ReadRows
    <2> HIDE DEF none, r
    <2> QED BY <1>3, <1>4, <2>1, <2>2, <2>3 DEF DiffInv
  <1>6. CASE ReadClaims \/ ReadEdges
    <2> DEFINE q == [req EXCEPT !.claims = {DOMAIN row}]
               r == [req EXCEPT !.edges = {sup}]
    <2>1. /\ q = [f \in ReqField |-> q[f]] /\ q.phase = req.phase /\ q.edges = req.edges
          /\ q.paths = req.paths /\ q.listed = req.listed /\ q.agree = req.agree
      BY <1>1 DEF ReqField
    <2>2. /\ r = [f \in ReqField |-> r[f]] /\ r.phase = req.phase /\ r.edges = {sup}
          /\ r.paths = req.paths /\ r.listed = req.listed /\ r.agree = req.agree
      BY <1>1 DEF ReqField
    <2>3. (req' = q \/ req' = r) /\ req.phase = "belief"
      BY <1>6 DEF ReadClaims, ReadEdges
    <2> HIDE DEF q, r
    <2> QED BY <1>3, <2>1, <2>2, <2>3 DEF DiffInv
  <1>7. CASE Synthesise \/ FoldAnswers
    <2>1. req.phase # "check" /\ req.phase # "done"
      BY <1>7 DEF Synthesise, FoldAnswers, Loaded
    <2>2. ASSUME NEW cites, Answer(cites) PROVE DiffInv' /\ ChainsAreConfirmed'
      <3> DEFINE r == [Idle EXCEPT !.route = "ask", !.outcome = "answer", !.struck = req.struck, !.cites = cites]
      <3>1. /\ r = [f \in ReqField |-> r[f]] /\ r.phase = "done" /\ r.edges = {}
            /\ r.paths = {} /\ r.listed = {} /\ r.agree = TRUE
        BY DEF Idle, ReqField, None
      <3>2. req' = r
        BY <2>2 DEF Answer
      <3> HIDE DEF r
      <3> QED BY <1>4, <3>1, <3>2
    <2>3. ASSUME NEW reason, Abstain(reason) PROVE DiffInv' /\ ChainsAreConfirmed'
      <3> DEFINE r == [Idle EXCEPT !.route = "ask", !.outcome = reason]
      <3>1. /\ r = [f \in ReqField |-> r[f]] /\ r.phase = "done" /\ r.edges = {}
            /\ r.paths = {} /\ r.listed = {} /\ r.agree = TRUE
        BY DEF Idle, ReqField, None
      <3>2. req' = r
        BY <2>3 DEF Abstain
      <3> HIDE DEF r
      <3> QED BY <1>4, <3>1, <3>2
    <2>4. ASSUME req' = [req EXCEPT !.phase = "fold"] PROVE DiffInv' /\ ChainsAreConfirmed'
      <3> DEFINE r == [req EXCEPT !.phase = "fold"]
      <3>1. /\ r = [f \in ReqField |-> r[f]] /\ r.phase = "fold" /\ r.edges = req.edges
            /\ r.paths = req.paths /\ r.listed = req.listed /\ r.agree = req.agree
        BY <1>1 DEF ReqField
      <3>2. req' = r
        BY <2>4
      <3> HIDE DEF r
      <3> QED BY <1>3, <2>1, <3>1, <3>2 DEF DiffInv
    <2> HIDE DEF Believed
    <2> QED BY <1>7, <2>2, <2>3, <2>4 DEF Synthesise, FoldAnswers
  <1>8. ASSUME NEW from \in 0..(MaxTime \div Second), NEW to \in 0..(MaxTime \div Second), FoldDiff(from, to)
        PROVE  DiffInv' /\ ChainsAreConfirmed'
    <2> DEFINE none == [Idle EXCEPT !.route = "diff", !.outcome = "diff"]
               r == [req EXCEPT !.phase = "check", !.from = from, !.to = to]
               diff == DiffChain("FUNCTIONAL", GotClaims, row, GotEdges, from, to, 8)
    <2>1. /\ none = [f \in ReqField |-> none[f]] /\ none.phase = "done" /\ none.edges = {}
          /\ none.paths = {} /\ none.listed = {} /\ none.agree = TRUE
      BY DEF Idle, ReqField, None
    <2>2. /\ r.phase = "check" /\ r.edges = req.edges /\ r.claims = req.claims
          /\ r.paths = req.paths /\ r.listed = req.listed /\ r.agree = req.agree
          /\ r.from = from /\ r.to = to
      BY <1>1 DEF ReqField
    <2>3. /\ req' = none \/ (req' = r /\ diff.revisions # <<>>)
          /\ req.phase = "belief" /\ req.claims # {} /\ req.edges # {}
      BY <1>8 DEF FoldDiff, Loaded, None
    <2>4. diff.revisions # <<>> => diff.toHead # NoClaim
      BY DEF DiffChain, DiffBetween
    <2>5. from \in Nat /\ to \in Nat
      OBVIOUS
    <2>6. req' = r => DiffNow' = diff
      BY <2>2 DEF DiffNow, GotClaims, GotEdges
    <2> HIDE DEF none, r, diff
    <2>7. CASE req' = none
      BY <1>4, <2>1, <2>7
    <2>8. CASE req' = r /\ diff.revisions # <<>>
      <3>1. req.paths = {} /\ req.listed = {} /\ req.agree = TRUE /\ \A E \in req.edges : SeenWhole(sup, E)
        BY <2>3 DEF DiffInv
      <3>2. Checking'
        BY <2>2, <2>3, <2>4, <2>5, <2>6, <2>8, <3>1 DEF Checking
      <3> QED BY <2>2, <2>8, <3>1, <3>2 DEF DiffInv, ChainsAreConfirmed
    <2> QED BY <2>3, <2>7, <2>8
  <1>9. CASE Validate
    <2>1. PICK paths \in req.paths, listed \in req.listed :
            req' = [Idle EXCEPT !.route = "diff", !.outcome = "diff", !.from = req.from, !.to = req.to,
                                !.agree = Covers(listed, DiffNow) /\ PathsAgree(paths, listed, DiffNow)]
      BY <1>9 DEF Validate
    <2> DEFINE verdict == Covers(listed, DiffNow) /\ PathsAgree(paths, listed, DiffNow)
               r == [Idle EXCEPT !.route = "diff", !.outcome = "diff", !.from = req.from, !.to = req.to,
                                 !.agree = verdict]
    <2>2. Unforked(sup) /\ InOrder(sup, row) /\ req.from <= req.to => verdict
      BY <1>9, CheckAgrees DEF Validate, DiffInv
    <2>3. req' = r
      BY <2>1
    <2> HIDE DEF verdict
    <2>4. /\ r.phase = "done" /\ r.edges = {} /\ r.paths = {} /\ r.listed = {}
          /\ r.from = req.from /\ r.to = req.to /\ r.agree = verdict
      BY DEF Idle, None
    <2> HIDE DEF r
    <2> QED BY <2>2, <2>3, <2>4 DEF DiffInv, ChainsAreConfirmed
  <1> QED BY <1>5, <1>6, <1>7, <1>8, <1>9, ConfirmationRead DEF Handle

Confirming == DiffInv /\ ChainsAreConfirmed

LEMMA ConfirmingKept ==
  ASSUME LoadedInTurn, Asking, RevisedInTurn, Confirming, [ApiNext]_vars
  PROVE  RevisedInTurn' /\ Confirming'
  <1>1. StoreInv' /\ RevisedInTurn' /\ GrowsOnTop
    BY RevisedOnTop DEF Asking
  <1>2. Inv /\ StoreInv /\ AskInv /\ DiffInv /\ ChainsAreConfirmed
    BY DEF Asking, Confirming
  <1>3. CASE req' = req
    <2>1. DiffInv'
      BY <1>1, <1>2, <1>3, WaitingDiff
    <2>2. Unforked(sup') => Unforked(sup)
      BY <1>1 DEF Unforked, GrowsOnTop, Grows
    <2>3. InOrder(sup', row') => InOrder(sup, row)
      BY <1>1, <1>2 DEF InOrder, GrowsOnTop, Grows, StoreInv
    <2> QED BY <1>1, <1>2, <1>3, <2>1, <2>2, <2>3 DEF Confirming, ChainsAreConfirmed
  <1>4. CASE Handle
    <2>1. row' = row /\ sup' = sup
      BY <1>4 DEF Handle, ReadRows, ReadClaims, ReadEdges, Synthesise, FoldAnswers, FoldDiff,
                  ReadPaths, ReadEnumeration, Validate, Step, storeVars
    <2> QED BY <1>1, <1>2, <1>4, <2>1, DiffSteps DEF Confirming
  <1>5. ASSUME NEW r, req' = r, r.phase # "check", r.agree = TRUE, r.edges = {},
               r.paths = {}, r.listed = {}
        PROVE  Confirming'
    BY <1>5 DEF Confirming, DiffInv, ChainsAreConfirmed
  <1>6. CASE Restart
    <2>1. Idle.phase # "check" /\ Idle.agree = TRUE /\ Idle.edges = {} /\ Idle.paths = {} /\ Idle.listed = {}
      BY DEF Idle, None
    <2> QED BY <1>1, <1>5, <1>6, <2>1 DEF Restart
  <1>7. ASSUME NEW k, Ask(k) \/ Diff(k) PROVE Confirming'
    <2>1. req' \in {[Idle EXCEPT !.route = "ask", !.phase = "rows", !.struck = StruckBy(sup, row)],
                    [Idle EXCEPT !.route = "ask", !.outcome = "no_anchor"],
                    [Idle EXCEPT !.route = "diff", !.phase = "belief"]}
      BY <1>7 DEF Ask, Diff
    <2>2. /\ req'.phase # "check" /\ req'.agree = TRUE /\ req'.edges = {}
          /\ req'.paths = {} /\ req'.listed = {}
      BY <2>1 DEF Idle, None
    <2> QED BY <1>5, <2>2
  <1> QED
    BY <1>1, <1>3, <1>4, <1>6, <1>7
       DEF ApiNext, Other, TooMany, LoadHistory, WriteLexicon, Correct, Pause, vars

\* The cross-check of a diff (validateChain) raises no false alarm on a history
\* that was revised in order, one correction upon the other, although the claims,
\* the edges, the paths and the enumeration are read at four moments: what lies
\* below a claim is settled when the claim is read, and of two heads the one of
\* the earlier past never stands above the other.
THEOREM DiffsAreConfirmed ==
  ASSUME LoadedInTurn
  PROVE  ApiSpec => []ChainsAreConfirmed
  <1>1. ApiInit => StoreInv /\ AskInv /\ StandingClaimLeads /\ RevisedInTurn /\ Confirming
    <2> SUFFICES ASSUME ApiInit PROVE StoreInv /\ AskInv /\ StandingClaimLeads /\ RevisedInTurn /\ Confirming
      OBVIOUS
    <2>1. StoreInv /\ AskInv /\ StandingClaimLeads
      BY AskingStarts
    <2>2. sup = {} /\ req = Idle
      BY DEF ApiInit
    <2>3. RevisedInTurn
      BY <2>2 DEF RevisedInTurn, Unmerged, LearnedInTurn
    <2>4. Idle.phase = "done" /\ Idle.agree = TRUE /\ Idle.edges = {} /\ Idle.paths = {} /\ Idle.listed = {}
      BY DEF Idle, None
    <2> QED BY <2>1, <2>2, <2>3, <2>4 DEF Confirming, DiffInv, ChainsAreConfirmed
  <1>2. /\ StoreInv /\ AskInv /\ StandingClaimLeads /\ RevisedInTurn /\ Confirming /\ Inv /\ [ApiNext]_vars
        => StoreInv' /\ AskInv' /\ StandingClaimLeads' /\ RevisedInTurn' /\ Confirming'
    BY AskingKept, ConfirmingKept DEF Asking, LoadedInTurn
  <1>3. ApiSpec => []Inv
    BY ApiImplementsLimiter, Invariance, PTL
  <1>4. Confirming => ChainsAreConfirmed
    BY DEF Confirming
  <1> QED BY <1>1, <1>2, <1>3, <1>4, PTL DEF ApiSpec
=============================================================================
