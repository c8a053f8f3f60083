---------------------------- MODULE LlmClientProofs ----------------------------
(* The client's semaphore and budget (LlmClient), then the ledger that the   *)
(* processes which hold a client share (CostLedger).                         *)
EXTENDS LlmClient, CostLedger, FiniteSetTheorems, WellFoundedInduction, TLAPS

----------------------------------------------------------------------------
(* The semaphore on its own.  Its books are right when the slots in use are *)
(* those of the callers in U and the queue holds those in W, each once.     *)

Gates == [limit : Limits, active : Nat, waiters : Seq(Caller)]

Queued(g) == {g.waiters[i] : i \in 1..Len(g.waiters)}

Books(g, U, W) ==
  /\ g \in Gates
  /\ U \subseteq Caller /\ W \subseteq Caller /\ U \cap W = {}
  /\ g.active = Cardinality(U)
  /\ Queued(g) = W
  /\ \A i, j \in 1..Len(g.waiters) : g.waiters[i] = g.waiters[j] => i = j

NooneWaitsInVain(g) == g.waiters # <<>> => ~HasRoom(g)

\* wake() grants within the queue and within the limit.
LEMMA GrantableBounds ==
  ASSUME NEW g \in Gates
  PROVE  /\ Grantable(g) \in 0..Len(g.waiters)
         /\ Grantable(g) > 0 => g.active + Grantable(g) <= g.limit
         /\ Grantable(g) < Len(g.waiters) => g.active + Grantable(g) >= g.limit
  <1>1. g.limit \in Nat /\ g.active \in Nat /\ Len(g.waiters) \in Nat
    <2>1. g.limit \in Nat /\ g.active \in Nat /\ g.waiters \in Seq(Caller)
      BY LimitsAssumption DEF Gates
    <2>2. Len(g.waiters) \in Nat
      BY <2>1
    <2> QED BY <2>1, <2>2
  <1>2. CASE g.limit - g.active <= 0
    <2>1. Grantable(g) = 0
      BY <1>2 DEF Grantable
    <2> QED BY <1>1, <1>2, <2>1
  <1>3. CASE g.limit - g.active > 0 /\ g.limit - g.active < Len(g.waiters)
    <2>1. Grantable(g) = g.limit - g.active
      BY <1>1, <1>3 DEF Grantable
    <2> QED BY <1>1, <1>3, <2>1
  <1>4. CASE g.limit - g.active > 0 /\ g.limit - g.active >= Len(g.waiters)
    <2>1. Grantable(g) = Len(g.waiters)
      BY <1>1, <1>4 DEF Grantable
    <2> QED BY <1>1, <1>4, <2>1
  <1> QED BY <1>1, <1>2, <1>3, <1>4

\* As many callers are woken as slots are taken: no caller queues twice.
LEMMA WokenAreCounted ==
  ASSUME NEW g, NEW U, NEW W, Books(g, U, W)
  PROVE  IsFiniteSet(Woken(g)) /\ Cardinality(Woken(g)) = Grantable(g) /\ Woken(g) \subseteq W
  <1> DEFINE n == Grantable(g)
             f == [i \in 1..n |-> g.waiters[i]]
  <1>1. n \in Nat /\ n <= Len(g.waiters) /\ Len(g.waiters) \in Nat
    BY GrantableBounds DEF Books, Gates
  <1>2. Woken(g) \subseteq W
    BY <1>1 DEF Woken, Books, Queued
  <1>3. f \in Bijection(1..n, Woken(g))
    <2>1. f \in [1..n -> Woken(g)]
      BY DEF Woken
    <2>2. \A i, j \in 1..n : f[i] = f[j] => i = j
      BY <1>1 DEF Books
    <2>3. \A w \in Woken(g) : \E i \in 1..n : f[i] = w
      BY DEF Woken
    <2> HIDE DEF f, n
    <2> QED BY <2>1, <2>2, <2>3 DEF Bijection, Injection, Surjection, IsInjective
  <1>4. ExistsBijection(1..n, Woken(g))
    BY <1>3 DEF ExistsBijection
  <1>5. IsFiniteSet(Woken(g))
    BY <1>2, CallersAssumption, FS_Subset DEF Books
  <1> HIDE DEF n
  <1>6. Cardinality(Woken(g)) = n
    BY <1>1, <1>4, FS_CountingElements
  <1> QED BY <1>2, <1>5, <1>6 DEF n

\* What is left of a queue once the first n are gone.
LEMMA Suffix ==
  ASSUME NEW S, NEW q \in Seq(S), NEW n \in Nat, n <= Len(q), NEW r, r = SubSeq(q, n + 1, Len(q))
  PROVE  /\ r \in Seq(S) /\ Len(r) \in Nat /\ Len(r) = Len(q) - n
         /\ \A i \in 1..Len(r) : n + i \in 1..Len(q) /\ r[i] = q[n + i]
         /\ \A i \in 1..Len(q) : i > n => i - n \in 1..Len(r) /\ r[i - n] = q[i]
  <1>1. Len(q) \in Nat
    OBVIOUS
  <1>2. /\ r \in Seq(S) /\ Len(r) = Len(q) - n
        /\ \A i \in 1..Len(r) : r[i] = q[n + i]
    BY <1>1
  <1> QED BY <1>1, <1>2

\* wake() keeps the books, and leaves nobody waiting beside a free slot.
LEMMA WakeBooks ==
  ASSUME NEW g, NEW U, NEW W, Books(g, U, W)
  PROVE  /\ Books(Wake(g), U \cup Woken(g), W \ Woken(g))
         /\ NooneWaitsInVain(Wake(g))
         /\ Woken(g) # {} => Wake(g).active <= Wake(g).limit
  <1> DEFINE n == Grantable(g)
             q == g.waiters
             r == SubSeq(q, n + 1, Len(q))
  <1>1. /\ g.limit \in Nat /\ g.limit \in Limits /\ g.active \in Nat
        /\ q \in Seq(Caller) /\ Len(q) \in Nat
        /\ n \in Nat /\ n <= Len(q)
        /\ n > 0 => g.active + n <= g.limit
        /\ n < Len(q) => g.active + n >= g.limit
    <2>1. g \in Gates
      BY DEF Books
    <2>2. /\ Grantable(g) \in 0..Len(q)
          /\ Grantable(g) > 0 => g.active + Grantable(g) <= g.limit
          /\ Grantable(g) < Len(q) => g.active + Grantable(g) >= g.limit
      BY <2>1, GrantableBounds
    <2>3. /\ g.limit \in Nat /\ g.limit \in Limits /\ g.active \in Nat
          /\ q \in Seq(Caller)
      BY <2>1, LimitsAssumption DEF Gates
    <2>4. Len(q) \in Nat
      BY <2>3
    <2> HIDE DEF q, n
    <2> QED BY <2>2, <2>3, <2>4 DEF n
  <1>2. /\ Wake(g).limit = g.limit
        /\ Wake(g).active = g.active + n
        /\ Wake(g).waiters = r
    BY DEF Wake, Books, Gates
  <1>3. /\ r \in Seq(Caller) /\ Len(r) \in Nat /\ Len(r) = Len(q) - n
        /\ \A i \in 1..Len(r) : n + i \in 1..Len(q) /\ r[i] = q[n + i]
        /\ \A i \in 1..Len(q) : i > n => i - n \in 1..Len(r) /\ r[i - n] = q[i]
    <2>1. n \in Nat /\ n <= Len(q) /\ q \in Seq(Caller)
      BY <1>1
    <2> HIDE DEF n, q
    <2> QED BY <2>1, Suffix
  <1>4. Wake(g) \in Gates
    <2>1. g.active + n \in Nat
      BY <1>1
    <2>2. Wake(g) = [g EXCEPT !.active = g.active + n, !.waiters = r]
      BY DEF Wake
    <2>3. g \in Gates
      BY DEF Books
    <2> HIDE DEF r, n
    <2> QED BY <1>3, <2>1, <2>2, <2>3 DEF Gates
  <1>5. Queued(Wake(g)) = W \ Woken(g)
    <2> HIDE DEF r
    <2>1. ASSUME NEW i \in 1..Len(r) PROVE r[i] \in W \ Woken(g)
      <3>1. n + i \in 1..Len(q) /\ n + i > n
        BY <1>1, <1>3
      <3>2. r[i] = q[n + i]
        BY <1>3
      <3>3. \A k \in 1..n : k \in 1..Len(q) /\ q[k] # q[n + i]
        BY <1>1, <3>1 DEF Books
      <3>4. q[n + i] \in W
        BY <3>1 DEF Books, Queued
      <3>5. q[n + i] \notin Woken(g)
        BY <3>3 DEF Woken
      <3> QED BY <3>2, <3>4, <3>5
    <2>2. ASSUME NEW w \in W \ Woken(g) PROVE \E i \in 1..Len(r) : r[i] = w
      <3>1. PICK i \in 1..Len(q) : q[i] = w
        BY DEF Books, Queued
      <3>2. i > n
        BY <1>1, <3>1 DEF Woken
      <3>3. i - n \in 1..Len(r) /\ r[i - n] = w
        BY <1>3, <3>1, <3>2
      <3> QED BY <3>3
    <2> QED BY <1>2, <2>1, <2>2 DEF Queued
  <1>6. \A i, j \in 1..Len(r) : r[i] = r[j] => i = j
    <2> SUFFICES ASSUME NEW i \in 1..Len(r), NEW j \in 1..Len(r), r[i] = r[j]
                 PROVE  i = j
      OBVIOUS
    <2> HIDE DEF r
    <2>1. n + i \in 1..Len(q) /\ n + j \in 1..Len(q)
      BY <1>3
    <2>2. q[n + i] = q[n + j]
      BY <1>3
    <2>3. n + i = n + j
      BY <2>1, <2>2 DEF Books
    <2> QED BY <1>1, <1>3, <2>3
  <1>7. Wake(g).active = Cardinality(U \cup Woken(g))
    <2>1. U \cap Woken(g) = {}
      BY WokenAreCounted DEF Books
    <2>2. IsFiniteSet(U)
      BY CallersAssumption, FS_Subset DEF Books
    <2>3. Cardinality(U \cup Woken(g)) = Cardinality(U) + Cardinality(Woken(g))
      <3>1. Cardinality(U \cup Woken(g))
              = Cardinality(U) + Cardinality(Woken(g)) - Cardinality(U \cap Woken(g))
        BY <2>2, WokenAreCounted, FS_Union
      <3>2. Cardinality(U) \in Nat /\ Cardinality(Woken(g)) \in Nat
        BY <2>2, WokenAreCounted, FS_CardinalityType
      <3>3. Cardinality(U \cap Woken(g)) = 0
        BY <2>1, FS_EmptySet
      <3> QED BY <3>1, <3>2, <3>3
    <2> QED BY <1>2, <2>3, WokenAreCounted DEF Books
  <1>8. Books(Wake(g), U \cup Woken(g), W \ Woken(g))
    BY <1>2, <1>4, <1>5, <1>6, <1>7, WokenAreCounted DEF Books
  <1>9. NooneWaitsInVain(Wake(g))
    <2>1. ASSUME r # <<>> PROVE n < Len(q)
      <3> HIDE DEF r
      <3>1. Len(r) # 0
        BY <1>3, <2>1
      <3> QED BY <1>1, <1>3, <3>1
    <2>2. n < Len(q) => ~(g.active + n < g.limit)
      BY <1>1
    <2> QED BY <1>2, <2>1, <2>2 DEF NooneWaitsInVain, HasRoom
  <1>10. Woken(g) # {} => Wake(g).active <= Wake(g).limit
    BY <1>1, <1>2 DEF Woken
  <1> QED BY <1>8, <1>9, <1>10

\* release() of a slot in use.
LEMMA ReleaseBooks ==
  ASSUME NEW g, NEW U, NEW W, Books(g, U, W), NEW c \in U
  PROVE  Books(Release(g), U \ {c}, W)
  <1>1. IsFiniteSet(U)
    BY CallersAssumption, FS_Subset DEF Books
  <1>2. Cardinality(U \ {c}) = Cardinality(U) - 1 /\ Cardinality(U \ {c}) \in Nat
    BY <1>1, FS_RemoveElement, FS_CardinalityType
  <1>3. Cardinality(U) \in Nat
    BY <1>1, FS_CardinalityType
  <1> QED BY <1>2, <1>3 DEF Books, Release, Gates, Queued

\* acquire() by a caller that neither holds a slot nor waits.
LEMMA AcquireBooks ==
  ASSUME NEW g, NEW U, NEW W, Books(g, U, W), NooneWaitsInVain(g),
         NEW c \in Caller, c \notin U, c \notin W
  PROVE  /\ HasRoom(g) => Books(Acquire(g, c), U \cup {c}, W)
         /\ ~HasRoom(g) => Books(Acquire(g, c), U, W \cup {c})
         /\ NooneWaitsInVain(Acquire(g, c))
         /\ HasRoom(g) => Acquire(g, c).active <= Acquire(g, c).limit
  <1>1. g.limit \in Nat /\ g.active \in Nat /\ g.waiters \in Seq(Caller)
    BY LimitsAssumption DEF Books, Gates
  <1>2. CASE HasRoom(g)
    <2>1. g.waiters = <<>>
      BY <1>2 DEF NooneWaitsInVain
    <2>2. IsFiniteSet(U)
      BY CallersAssumption, FS_Subset DEF Books
    <2>3. Cardinality(U \cup {c}) = g.active + 1
      BY <2>2, FS_AddElement DEF Books
    <2>4. Acquire(g, c) = [g EXCEPT !.active = @ + 1]
      BY <1>2 DEF Acquire
    <2>5. Books(Acquire(g, c), U \cup {c}, W)
      BY <1>1, <2>3, <2>4 DEF Books, Gates, Queued
    <2>6. Acquire(g, c).active <= Acquire(g, c).limit
      BY <1>1, <1>2, <2>4 DEF HasRoom, Books, Gates
    <2> QED BY <1>2, <2>1, <2>4, <2>5, <2>6 DEF NooneWaitsInVain, Books, Gates
  <1>3. CASE ~HasRoom(g)
    <2> DEFINE a == Append(g.waiters, c)
    <2>1. Acquire(g, c) = [g EXCEPT !.waiters = a]
      BY <1>3 DEF Acquire
    <2>2. /\ a \in Seq(Caller) /\ Len(a) = Len(g.waiters) + 1
          /\ \A i \in 1..Len(g.waiters) : a[i] = g.waiters[i]
          /\ a[Len(a)] = c
      BY <1>1
    <2>3. {a[i] : i \in 1..Len(a)} = W \cup {c}
      <3>1. \A i \in 1..Len(a) : a[i] \in W \cup {c}
        BY <1>1, <2>2 DEF Books, Queued
      <3>2. \A w \in W : \E i \in 1..Len(a) : a[i] = w
        BY <1>1, <2>2 DEF Books, Queued
      <3>3. Len(a) \in 1..Len(a)
        BY <1>1, <2>2
      <3> HIDE DEF a
      <3> QED BY <2>2, <3>1, <3>2, <3>3
    <2>4. \A i, j \in 1..Len(a) : a[i] = a[j] => i = j
      <3>1. \A i \in 1..Len(g.waiters) : a[i] # c
        BY <2>2 DEF Books, Queued
      <3> QED BY <1>1, <2>2, <3>1 DEF Books
    <2> HIDE DEF a
    <2>5. /\ Acquire(g, c) \in Gates
          /\ Acquire(g, c).waiters = a
          /\ Acquire(g, c).active = g.active /\ Acquire(g, c).limit = g.limit
      BY <2>1, <2>2 DEF Books, Gates
    <2>6. Books(Acquire(g, c), U, W \cup {c})
      BY <2>3, <2>4, <2>5 DEF Books, Queued
    <2> QED BY <1>3, <2>5, <2>6 DEF NooneWaitsInVain, HasRoom
  <1> QED BY <1>2, <1>3

----------------------------------------------------------------------------
(* The inductive invariant: the books of the gate are right for the calls,  *)
(* nobody waits in vain, and the attempts leave room for the one repair.    *)

Within(k) ==
  /\ k.attempt <= MaxAttempts + (IF k.repaired THEN 1 ELSE 0)
  /\ k.pc = "sleeping" => k.attempt < MaxAttempts

Inv ==
  /\ spent \in Nat /\ cached \in BOOLEAN
  /\ call \in [Caller -> Call]
  /\ Books(gate, At({"granted", "fetching"}), At({"waiting"}))
  /\ NooneWaitsInVain(gate)
  /\ \A c \in Caller : Within(call[c])

\* A call that may enter the loop once more.
MayRetry(k) == k \in Call /\ k.attempt < MaxAttempts + (IF k.repaired THEN 1 ELSE 0)

\* Whatever becomes of c's call while it neither holds a slot nor waits, and
\* whoever was woken: the others' part of the invariant is kept.
LEMMA CallsBooks ==
  ASSUME Inv, NEW c \in Caller, NEW k \in Call, Within(k), NEW woken,
         woken \subseteq At({"waiting"}) \ {c},
         call' = Calls(c, k, woken)
  PROVE  /\ call' \in [Caller -> Call]
         /\ \A d \in Caller : Within(call'[d])
         /\ At({"granted", "fetching"})'
              = ((At({"granted", "fetching"}) \ {c}) \cup woken)
                  \cup (IF k.pc \in {"granted", "fetching"} THEN {c} ELSE {})
         /\ At({"waiting"})'
              = ((At({"waiting"}) \ {c}) \ woken) \cup (IF k.pc = "waiting" THEN {c} ELSE {})
  <1>1. \A d \in Caller : call'[d] = IF d = c THEN k
                                     ELSE IF d \in woken THEN [call[d] EXCEPT !.pc = "granted"]
                                     ELSE call[d]
    BY DEF Calls
  <1>2. \A d \in Caller : call[d] \in Call
    BY DEF Inv
  <1>3. \A d \in Caller :
          /\ [call[d] EXCEPT !.pc = "granted"] \in Call
          /\ [call[d] EXCEPT !.pc = "granted"].pc = "granted"
          /\ Within([call[d] EXCEPT !.pc = "granted"])
    BY <1>2, AttemptsAssumption DEF Inv, Call, InProgress, Within
  <1>4. call' \in [Caller -> Call]
    BY <1>2, <1>3 DEF Calls
  <1>5. \A d \in Caller : Within(call'[d])
    BY <1>1, <1>3 DEF Inv
  <1>6. \A d \in Caller : call'[d].pc = IF d = c THEN k.pc ELSE IF d \in woken THEN "granted"
                                        ELSE call[d].pc
    BY <1>1, <1>3
  <1>7. At({"granted", "fetching"})'
          = ((At({"granted", "fetching"}) \ {c}) \cup woken)
              \cup (IF k.pc \in {"granted", "fetching"} THEN {c} ELSE {})
    BY <1>6 DEF At
  <1>8. At({"waiting"})'
          = ((At({"waiting"}) \ {c}) \ woken) \cup (IF k.pc = "waiting" THEN {c} ELSE {})
    BY <1>6 DEF At
  <1> QED BY <1>4, <1>5, <1>7, <1>8

\* What GrantsWithinLimit says of one step.
GrantsFit ==
  \A c \in Caller :
    call[c].pc # "granted" /\ call'[c].pc = "granted" => gate'.active <= gate'.limit

\* The fetch of c is back and its slot given back.
LEMMA FreedBooks ==
  ASSUME Inv, NEW c \in Caller, call[c].pc = "fetching"
  PROVE  /\ Woken(Freed) \subseteq At({"waiting"}) \ {c}
         /\ Books(Wake(Freed), (At({"granted", "fetching"}) \ {c}) \cup Woken(Freed),
                  (At({"waiting"}) \ {c}) \ Woken(Freed))
         /\ NooneWaitsInVain(Wake(Freed))
         /\ Woken(Freed) # {} => Wake(Freed).active <= Wake(Freed).limit
  <1>1. c \in At({"granted", "fetching"}) /\ At({"waiting"}) \ {c} = At({"waiting"})
    BY DEF At
  <1>2. Books(Freed, At({"granted", "fetching"}) \ {c}, At({"waiting"}))
    BY <1>1, ReleaseBooks DEF Freed, Inv
  <1>3. Woken(Freed) \subseteq At({"waiting"})
    BY <1>2, WokenAreCounted
  <1> QED BY <1>1, <1>2, <1>3, WakeBooks

\* The call leaves its fetch for good, or to sleep.
LEMMA LeaveInv ==
  ASSUME Inv, NEW c \in Caller, call[c].pc = "fetching",
         NEW k \in Call, Within(k), k.pc \notin {"waiting", "granted", "fetching"},
         Leave(c, k), spent' \in Nat, cached' \in BOOLEAN
  PROVE  Inv' /\ GrantsFit
  <1>1. gate' = Wake(Freed) /\ call' = Calls(c, k, Woken(Freed))
    BY DEF Leave
  <1>2. /\ call' \in [Caller -> Call]
        /\ \A d \in Caller : Within(call'[d])
        /\ At({"granted", "fetching"})' = (At({"granted", "fetching"}) \ {c}) \cup Woken(Freed)
        /\ At({"waiting"})' = (At({"waiting"}) \ {c}) \ Woken(Freed)
    <2>1. Woken(Freed) \subseteq At({"waiting"}) \ {c}
      BY FreedBooks
    <2>2. /\ call' \in [Caller -> Call]
          /\ \A d \in Caller : Within(call'[d])
          /\ At({"granted", "fetching"})'
               = ((At({"granted", "fetching"}) \ {c}) \cup Woken(Freed))
                   \cup (IF k.pc \in {"granted", "fetching"} THEN {c} ELSE {})
          /\ At({"waiting"})' = ((At({"waiting"}) \ {c}) \ Woken(Freed))
                                \cup (IF k.pc = "waiting" THEN {c} ELSE {})
      BY <1>1, <2>1, CallsBooks
    <2> QED BY <2>2
  <1>3. /\ Books(gate', At({"granted", "fetching"})', At({"waiting"})')
        /\ NooneWaitsInVain(gate')
    BY <1>1, <1>2, FreedBooks
  <1>4. GrantsFit
    <2>1. ASSUME NEW d \in Caller, call[d].pc # "granted", call'[d].pc = "granted"
          PROVE  Woken(Freed) # {}
      BY <1>1, <2>1 DEF Calls
    <2> QED BY <1>1, <2>1, FreedBooks DEF GrantsFit
  <1> QED BY <1>2, <1>3, <1>4 DEF Inv

\* The call goes through the top of the loop.
LEMMA EnterInv ==
  ASSUME Inv, NEW c \in Caller, NEW k, MayRetry(k), NEW g, NEW woken,
         woken \subseteq At({"waiting"}) \ {c},
         Books(g, (At({"granted", "fetching"}) \ {c}) \cup woken, (At({"waiting"}) \ {c}) \ woken),
         NooneWaitsInVain(g),
         woken # {} => g.active <= g.limit,
         EnterLoop(c, k, g, woken), UNCHANGED <<spent, cached>>
  PROVE  Inv' /\ GrantsFit
  <1> DEFINE U == (At({"granted", "fetching"}) \ {c}) \cup woken
             W == (At({"waiting"}) \ {c}) \ woken
  <1>1. c \notin U /\ c \notin W
    OBVIOUS
  <1>2. CASE gate' = g /\ call' = Calls(c, Over("thrown"), woken)
    <2>1. /\ Over("thrown") \in Call /\ Within(Over("thrown"))
          /\ Over("thrown").pc = "thrown"
      BY AttemptsAssumption DEF Over, Call, Settled, Within
    <2>2. /\ call' \in [Caller -> Call]
          /\ \A d \in Caller : Within(call'[d])
          /\ At({"granted", "fetching"})' = U /\ At({"waiting"})' = W
      BY <1>2, <2>1, CallsBooks
    <2>3. GrantsFit
      BY <1>2, <2>1 DEF GrantsFit, Calls
    <2> QED BY <1>2, <2>2, <2>3 DEF Inv
  <1>3. CASE /\ gate' = Acquire(g, c)
             /\ call' = Calls(c, [k EXCEPT !.attempt = @ + 1,
                                           !.pc = IF HasRoom(g) THEN "granted" ELSE "waiting"],
                              woken)
    <2> DEFINE kk == [k EXCEPT !.attempt = @ + 1,
                               !.pc = IF HasRoom(g) THEN "granted" ELSE "waiting"]
    <2>1. kk \in Call /\ Within(kk) /\ kk.pc = IF HasRoom(g) THEN "granted" ELSE "waiting"
      <3>1. k \in Call /\ k.attempt \in Nat /\ k.repaired \in BOOLEAN
        BY AttemptsAssumption DEF MayRetry, Call
      <3>2. k.attempt + 1 \in 0..(MaxAttempts + 1)
        BY <3>1, AttemptsAssumption DEF MayRetry
      <3>3. k.attempt + 1 <= MaxAttempts + (IF k.repaired THEN 1 ELSE 0)
        BY <3>1, AttemptsAssumption DEF MayRetry
      <3>4. kk.attempt = k.attempt + 1 /\ kk.repaired = k.repaired
            /\ kk.pc = IF HasRoom(g) THEN "granted" ELSE "waiting"
        BY <3>1 DEF Call
      <3>5. kk \in Call
        BY <3>1, <3>2 DEF Call, InProgress
      <3>6. Within(kk)
        <4> HIDE DEF kk
        <4> QED BY <3>3, <3>4 DEF Within
      <3> QED BY <3>4, <3>5, <3>6
    <2> HIDE DEF kk
    <2>2. /\ call' \in [Caller -> Call]
          /\ \A d \in Caller : Within(call'[d])
          /\ At({"granted", "fetching"})'
               = U \cup (IF kk.pc \in {"granted", "fetching"} THEN {c} ELSE {})
          /\ At({"waiting"})' = W \cup (IF kk.pc = "waiting" THEN {c} ELSE {})
      <3>1. call' = Calls(c, kk, woken)
        BY <1>3 DEF kk
      <3> QED BY <2>1, <3>1, CallsBooks
    <2>3. /\ Books(gate', At({"granted", "fetching"})', At({"waiting"})')
          /\ NooneWaitsInVain(gate')
          /\ HasRoom(g) => gate'.active <= gate'.limit
      <3> HIDE DEF U, W
      <3>1. Books(g, U, W)
        BY DEF U, W
      <3>2. /\ HasRoom(g) => Books(gate', U \cup {c}, W)
            /\ ~HasRoom(g) => Books(gate', U, W \cup {c})
            /\ NooneWaitsInVain(gate')
            /\ HasRoom(g) => gate'.active <= gate'.limit
        BY <1>1, <1>3, <3>1, AcquireBooks
      <3> QED BY <2>1, <2>2, <3>2
    <2>4. GrantsFit
      <3> SUFFICES ASSUME NEW d \in Caller, call[d].pc # "granted", call'[d].pc = "granted"
                   PROVE  gate'.active <= gate'.limit
        BY DEF GrantsFit
      <3>1. CASE HasRoom(g)
        BY <2>3, <3>1
      <3>2. CASE ~HasRoom(g)
        <4>1. woken # {}
          BY <1>3, <2>1, <3>2 DEF Calls, kk
        <4>2. gate'.active = g.active /\ gate'.limit = g.limit
          BY <1>3, <3>2 DEF Acquire, Books, Gates
        <4> QED BY <4>1, <4>2
      <3> QED BY <3>1, <3>2
    <2> QED BY <2>2, <2>3, <2>4 DEF Inv
  <1> QED BY <1>2, <1>3 DEF EnterLoop

LEMMA InitInv == Init => Inv
  <1> SUFFICES ASSUME Init PROVE Inv
    OBVIOUS
  <1>1. call \in [Caller -> Call] /\ \A c \in Caller : Within(call[c]) /\ call[c].pc = "idle"
    BY AttemptsAssumption DEF Init, Over, Call, Settled, Within
  <1>2. At({"granted", "fetching"}) = {} /\ At({"waiting"}) = {}
    BY <1>1 DEF At
  <1>3. /\ gate \in Gates
        /\ gate.active = 0 /\ gate.waiters = <<>>
    BY DEF Init, Gates
  <1>4. Queued(gate) = {}
    BY <1>3 DEF Queued
  <1>5. Books(gate, {}, {})
    BY <1>3, <1>4, FS_EmptySet DEF Books
  <1> QED BY <1>1, <1>2, <1>3, <1>5, SpendAssumption, SeedsAssumption DEF Inv, Init, NooneWaitsInVain

\* Nothing of the invariant is about the calls that hold no slot and wait not.
LEMMA QuietInv ==
  ASSUME Inv, UNCHANGED <<gate, spent, cached>>, call' \in [Caller -> Call],
         \A c \in Caller :
           /\ Within(call'[c])
           /\ \/ call'[c].pc = call[c].pc
              \/ call[c].pc = "granted" /\ call'[c].pc = "fetching"
              \/ call[c].pc \in Settled /\ call'[c].pc \in Settled
  PROVE  Inv' /\ GrantsFit
  <1>1. /\ At({"granted", "fetching"})' = At({"granted", "fetching"})
        /\ At({"waiting"})' = At({"waiting"})
    BY DEF At, Settled
  <1>2. GrantsFit
    BY DEF GrantsFit, Settled
  <1> QED BY <1>1, <1>2 DEF Inv

LEMMA BeginInv == ASSUME Inv, NEW c \in Caller, Begin(c) PROVE Inv' /\ GrantsFit
  <1>1. CASE call' = [call EXCEPT ![c] = Over("returned")] /\ UNCHANGED gate
    <2>1. /\ Over("returned") \in Call /\ Within(Over("returned"))
          /\ Over("returned").pc \in Settled
      BY AttemptsAssumption DEF Over, Call, Settled, Within
    <2>2. call' \in [Caller -> Call]
      BY <1>1, <2>1 DEF Inv
    <2>3. \A d \in Caller : call'[d] = IF d = c THEN Over("returned") ELSE call[d]
      BY <1>1 DEF Inv
    <2> QED BY <1>1, <2>1, <2>2, <2>3, QuietInv DEF Begin, Inv
  <1>2. CASE EnterLoop(c, Over("idle"), gate, {})
    <2>1. MayRetry(Over("idle"))
      BY AttemptsAssumption DEF MayRetry, Over, Call, Settled
    <2>2. /\ (At({"granted", "fetching"}) \ {c}) \cup {} = At({"granted", "fetching"})
          /\ (At({"waiting"}) \ {c}) \ {} = At({"waiting"})
      BY DEF Begin, At, Settled
    <2> QED BY <1>2, <2>1, <2>2, EnterInv DEF Begin, Inv
  <1> QED BY <1>1, <1>2 DEF Begin

LEMMA StartFetchInv == ASSUME Inv, NEW c \in Caller, StartFetch(c) PROVE Inv' /\ GrantsFit
  <1>1. \A d \in Caller : /\ call[d] \in Call /\ Within(call[d])
                          /\ call'[d] = IF d = c THEN [call[d] EXCEPT !.pc = "fetching"] ELSE call[d]
    BY DEF StartFetch, Inv
  <1>2. \A d \in Caller : /\ [call[d] EXCEPT !.pc = "fetching"] \in Call
                          /\ Within([call[d] EXCEPT !.pc = "fetching"])
                          /\ [call[d] EXCEPT !.pc = "fetching"].pc = "fetching"
    BY <1>1, AttemptsAssumption DEF Call, Within, InProgress
  <1>3. call' \in [Caller -> Call]
    BY <1>1, <1>2 DEF StartFetch, Inv
  <1> QED BY <1>1, <1>2, <1>3, QuietInv DEF StartFetch

LEMMA GrowLateInv == ASSUME Inv, NEW c \in Caller, GrowLate(c) PROVE Inv' /\ GrantsFit
  <1>1. \A d \in Caller : /\ call[d] \in Call /\ Within(call[d])
                          /\ call'[d] = IF d = c THEN [call[d] EXCEPT !.late = TRUE] ELSE call[d]
    BY DEF GrowLate, Inv
  <1>2. \A d \in Caller : /\ [call[d] EXCEPT !.late = TRUE] \in Call
                          /\ Within([call[d] EXCEPT !.late = TRUE])
                          /\ [call[d] EXCEPT !.late = TRUE].pc = call[d].pc
    BY <1>1, AttemptsAssumption DEF Call, Within
  <1>3. call' \in [Caller -> Call]
    BY <1>1, <1>2 DEF GrowLate, Inv
  <1> QED BY <1>1, <1>2, <1>3, QuietInv DEF GrowLate

LEMMA EndSleepInv == ASSUME Inv, NEW c \in Caller, EndSleep(c) PROVE Inv' /\ GrantsFit
  <1>1. MayRetry(call[c])
    BY AttemptsAssumption DEF EndSleep, Inv, Within, MayRetry, Call
  <1>2. /\ (At({"granted", "fetching"}) \ {c}) \cup {} = At({"granted", "fetching"})
        /\ (At({"waiting"}) \ {c}) \ {} = At({"waiting"})
    BY DEF EndSleep, At
  <1> QED BY <1>1, <1>2, EnterInv DEF EndSleep, Inv

LEMMA ReplyInv == ASSUME Inv, NEW c \in Caller, Reply(c) PROVE Inv' /\ GrantsFit
  <1>1. /\ call[c].pc = "fetching" /\ call[c] \in Call /\ Within(call[c])
    BY DEF Reply, ReplyOk, ReplyFatal, ReplyRepairable, ReplyTransient, Inv
  <1>2. \A outcome \in Settled : /\ Over(outcome) \in Call /\ Within(Over(outcome))
                                 /\ Over(outcome).pc \notin {"waiting", "granted", "fetching"}
    BY AttemptsAssumption DEF Over, Call, Settled, Within
  <1>3. "returned" \in Settled /\ "thrown" \in Settled
    BY DEF Settled
  <1>4. ASSUME NEW cost \in Costs, ReplyOk(c, cost) PROVE Inv' /\ GrantsFit
    <2>1. spent' \in Nat
      BY <1>4, SpendAssumption, SeedsAssumption DEF ReplyOk, Inv
    <2>2. cached' \in BOOLEAN
      BY <1>4 DEF ReplyOk, Remembered, Inv
    <2> QED BY <1>1, <1>2, <1>3, <1>4, <2>1, <2>2, LeaveInv DEF ReplyOk
  <1>5. ASSUME UNCHANGED <<spent, cached>>,
               NEW k \in Call, Within(k), k.pc \notin {"waiting", "granted", "fetching"},
               Leave(c, k)
        PROVE  Inv' /\ GrantsFit
    <2>1. spent' \in Nat /\ cached' \in BOOLEAN
      BY <1>5 DEF Inv
    <2> QED BY <1>1, <1>5, <2>1, LeaveInv
  <1>6. ASSUME UNCHANGED <<spent, cached>>, NEW k, MayRetry(k),
               EnterLoop(c, k, Wake(Freed), Woken(Freed))
        PROVE  Inv' /\ GrantsFit
    BY <1>1, <1>6, FreedBooks, EnterInv
  <1>7. CASE ReplyFatal(c)
    BY <1>2, <1>3, <1>5, <1>7 DEF ReplyFatal
  <1>8. CASE ReplyRepairable(c)
    <2>1. CASE call[c].repaired
      BY <1>2, <1>3, <1>5, <1>8, <2>1 DEF ReplyRepairable
    <2>2. CASE ~call[c].repaired
      <3>1. MayRetry([call[c] EXCEPT !.repaired = TRUE])
        <4> DEFINE k == [call[c] EXCEPT !.repaired = TRUE]
        <4>1. k \in Call /\ k.attempt = call[c].attempt /\ k.repaired = TRUE
          BY <1>1 DEF Call
        <4>2. call[c].attempt \in Nat /\ call[c].attempt <= MaxAttempts
          BY <1>1, <2>2, AttemptsAssumption DEF Within, Call
        <4> HIDE DEF k
        <4>3. MayRetry(k)
          BY <4>1, <4>2, AttemptsAssumption DEF MayRetry
        <4> QED BY <4>3 DEF k
      <3> QED BY <1>6, <1>8, <2>2, <3>1 DEF ReplyRepairable
    <2> QED BY <2>1, <2>2
  <1>9. CASE ReplyTransient(c)
    <2>1. ASSUME ~OutOfAttempts(c) PROVE MayRetry(call[c]) /\ call[c].attempt < MaxAttempts
      BY <1>1, <2>1, AttemptsAssumption DEF MayRetry, Call, OutOfAttempts
    <2>2. CASE Leave(c, Over("thrown"))
      BY <1>2, <1>3, <1>5, <1>9, <2>2 DEF ReplyTransient
    <2>3. CASE ~OutOfAttempts(c) /\ EnterLoop(c, call[c], Wake(Freed), Woken(Freed))
      BY <1>6, <1>9, <2>1, <2>3 DEF ReplyTransient
    <2>4. CASE ~OutOfAttempts(c) /\ Leave(c, [call[c] EXCEPT !.pc = "sleeping"])
      <3> DEFINE k == [call[c] EXCEPT !.pc = "sleeping"]
      <3>1. k \in Call /\ k.pc = "sleeping" /\ k.attempt = call[c].attempt
            /\ k.repaired = call[c].repaired
        BY <1>1 DEF Call, InProgress
      <3>2. Within(k)
        BY <1>1, <2>1, <2>4, <3>1 DEF Within
      <3> HIDE DEF k
      <3>3. Leave(c, k)
        BY <2>4 DEF k
      <3> QED BY <1>5, <1>9, <3>1, <3>2, <3>3 DEF ReplyTransient
    <2> QED BY <1>9, <2>2, <2>3, <2>4 DEF ReplyTransient
  <1> QED BY <1>4, <1>7, <1>8, <1>9 DEF Reply

LEMMA ResizeInv == ASSUME Inv, NEW n \in Limits, Resize(n) PROVE Inv' /\ GrantsFit
  <1> DEFINE g == SetLimit(gate, n)
             U == At({"granted", "fetching"})
             W == At({"waiting"})
  <1>1. Books(g, U, W)
    BY DEF Inv, SetLimit, Books, Gates, Queued
  <1>2. Woken(g) \subseteq W
    BY <1>1, WokenAreCounted
  <1>3. /\ Books(Wake(g), U \cup Woken(g), W \ Woken(g))
        /\ NooneWaitsInVain(Wake(g))
        /\ Woken(g) # {} => Wake(g).active <= Wake(g).limit
    BY <1>1, WakeBooks
  <1>4. \A d \in Caller : call[d] \in Call /\ Within(call[d])
    BY DEF Inv
  <1>5. \A d \in Caller : /\ [call[d] EXCEPT !.pc = "granted"] \in Call
                          /\ Within([call[d] EXCEPT !.pc = "granted"])
                          /\ [call[d] EXCEPT !.pc = "granted"].pc = "granted"
    BY <1>4, AttemptsAssumption DEF Call, Within, InProgress
  <1> HIDE DEF g
  <1>6. /\ gate' = Wake(g) /\ UNCHANGED <<spent, cached>>
        /\ call' = [d \in Caller |-> IF d \in Woken(g) THEN [call[d] EXCEPT !.pc = "granted"]
                                     ELSE call[d]]
    BY DEF Resize, g
  <1>7. call' \in [Caller -> Call] /\ \A d \in Caller : Within(call'[d])
    BY <1>4, <1>5, <1>6
  <1>8. \A d \in Caller : call'[d].pc = IF d \in Woken(g) THEN "granted" ELSE call[d].pc
    BY <1>5, <1>6
  <1>9. U' = U \cup Woken(g) /\ W' = W \ Woken(g)
    BY <1>2, <1>8 DEF At
  <1>10. GrantsFit
    BY <1>3, <1>6, <1>8 DEF GrantsFit
  <1> QED BY <1>3, <1>6, <1>7, <1>9, <1>10 DEF Inv

LEMMA StepInv == Inv /\ [Next]_vars => Inv' /\ GrantsFit
  <1> SUFFICES ASSUME Inv, [Next]_vars PROVE Inv' /\ GrantsFit
    OBVIOUS
  <1>1. CASE UNCHANGED vars
    BY <1>1 DEF vars, Inv, At, GrantsFit
  <1>2. CASE Next
    BY <1>2, BeginInv, StartFetchInv, ReplyInv, EndSleepInv, GrowLateInv, ResizeInv DEF Next
  <1> QED BY <1>1, <1>2

LEMMA InvHolds == Spec => []Inv
  BY InitInv, StepInv, PTL DEF Spec

----------------------------------------------------------------------------
(* Theorems *)

\* Types are kept; in particular no unit fetches more than MAX_ATTEMPTS + 1
\* times, although the repair branch of complete() does not look at the attempt.
THEOREM TypeCorrect == Spec => []TypeOK
  <1>1. Inv => TypeOK
    BY DEF Inv, TypeOK, Books, Gates
  <1> QED BY <1>1, InvHolds, PTL

\* Whichever way calls leave their fetches, the slots in use and the queue of
\* the semaphore are those of the calls.
THEOREM BooksAreRight == Spec => []GateCounts
  <1>1. Inv => GateCounts
    BY DEF Inv, GateCounts, Books, Queued
  <1> QED BY <1>1, InvHolds, PTL

\* No wakeup is lost: whoever waits, waits behind a full gate.
THEOREM NobodyWaitsInVain == Spec => []NoLostWakeup
  <1>1. Inv => NoLostWakeup
    BY DEF Inv, NoLostWakeup, NooneWaitsInVain
  <1> QED BY <1>1, InvHolds, PTL

\* release(), acquire() and setLimit() grant only within the limit in force.
THEOREM GrantsAreWithinLimit == Spec => GrantsWithinLimit
  <1>1. Inv /\ [Next]_vars =>
          [\A c \in Caller :
             call[c].pc # "granted" /\ call'[c].pc = "granted" => gate'.active <= gate'.limit]_vars
    BY StepInv DEF GrantsFit
  <1> QED BY <1>1, InvHolds, PTL DEF Spec, GrantsWithinLimit

\* What a step does to the money and to the calls past the guard.
LEMMA StepSpends ==
  ASSUME Inv, [Next]_vars
  PROVE  \/ spent' = spent /\ Committed' \subseteq Committed
         \/ spent' = spent /\ spent < Cap
         \/ \E c \in Committed, cost \in Costs :
              spent' = spent + cost /\ Committed' \subseteq Committed \ {c}
  <1>1. ASSUME NEW c \in Caller, NEW k, NEW woken, woken \subseteq At({"waiting"}),
               k.pc \notin {"waiting", "granted", "fetching"},
               call' = Calls(c, k, woken)
        PROVE  Committed' \subseteq Committed \ {c}
    BY <1>1 DEF Calls, Committed, At
  <1>2. ASSUME NEW c \in Caller, call[c].pc = "fetching"
        PROVE  Woken(Freed) \subseteq At({"waiting"}) /\ c \in Committed
    BY <1>2, FreedBooks DEF Committed, At
  <1>3. ASSUME NEW c \in Caller, NEW k, NEW g, NEW woken, woken \subseteq At({"waiting"}),
               UNCHANGED spent, EnterLoop(c, k, g, woken)
        PROVE  spent < Cap \/ Committed' \subseteq Committed
    <2>1. CASE MayRun(c)
      BY <2>1, SpendAssumption, SeedsAssumption DEF MayRun, BudgetState, Inv
    <2>2. CASE call' = Calls(c, Over("thrown"), woken)
      BY <1>1, <1>3, <2>2 DEF Over
    <2> QED BY <1>3, <2>1, <2>2 DEF EnterLoop
  <1>4. ASSUME NEW c \in Caller, Begin(c) \/ EndSleep(c)
        PROVE  spent' = spent /\ (spent < Cap \/ Committed' \subseteq Committed)
    <2>1. CASE call' = [call EXCEPT ![c] = Over("returned")]
      BY <1>4, <2>1 DEF Begin, EndSleep, Committed, At, Over, Inv
    <2> QED BY <1>3, <1>4, <2>1 DEF Begin, EndSleep
  <1>5. ASSUME NEW c \in Caller, StartFetch(c) \/ GrowLate(c)
        PROVE  spent' = spent /\ Committed' \subseteq Committed
    <2>1. \A d \in Caller : call[d] \in Call
      BY DEF Inv
    <2>2. CASE StartFetch(c)
      BY <2>1, <2>2 DEF StartFetch, Inv, Call, Committed, At
    <2>3. CASE GrowLate(c)
      BY <2>1, <2>3 DEF GrowLate, Inv, Call, Committed, At
    <2> QED BY <1>5, <2>2, <2>3
  <1>6. ASSUME NEW n \in Limits, Resize(n)
        PROVE  spent' = spent /\ Committed' \subseteq Committed
    <2>1. Woken(SetLimit(gate, n)) \subseteq At({"waiting"})
      <3>1. Books(SetLimit(gate, n), At({"granted", "fetching"}), At({"waiting"}))
        BY DEF Inv, SetLimit, Books, Gates, Queued
      <3> QED BY <3>1, WokenAreCounted
    <2> QED BY <1>6, <2>1 DEF Resize, Committed, At
  <1>7. ASSUME NEW c \in Caller, NEW cost \in Costs, ReplyOk(c, cost)
        PROVE  c \in Committed /\ spent' = spent + cost /\ Committed' \subseteq Committed \ {c}
    BY <1>1, <1>2, <1>7 DEF ReplyOk, Leave, Over
  <1>8. ASSUME NEW c \in Caller, ReplyFatal(c) \/ ReplyRepairable(c) \/ ReplyTransient(c)
        PROVE  spent' = spent /\ (spent < Cap \/ Committed' \subseteq Committed)
    <2>1. call[c].pc = "fetching" /\ call[c] \in Call /\ spent' = spent
      BY <1>8 DEF ReplyFatal, ReplyRepairable, ReplyTransient, Inv
    <2>2. CASE Leave(c, Over("thrown"))
      BY <1>1, <1>2, <2>1, <2>2 DEF Leave, Over
    <2>3. CASE Leave(c, [call[c] EXCEPT !.pc = "sleeping"])
      <3>1. [call[c] EXCEPT !.pc = "sleeping"].pc = "sleeping"
        BY <2>1 DEF Call
      <3> QED BY <1>1, <1>2, <2>1, <2>3, <3>1 DEF Leave
    <2>4. CASE \E k : EnterLoop(c, k, Wake(Freed), Woken(Freed))
      BY <1>2, <1>3, <2>1, <2>4
    <2> QED BY <1>8, <2>1, <2>2, <2>3, <2>4 DEF ReplyFatal, ReplyRepairable, ReplyTransient
  <1>9. CASE UNCHANGED vars
    BY <1>9 DEF vars, Committed, At
  <1>10. CASE Next
    BY <1>10, <1>4, <1>5, <1>6, <1>7, <1>8 DEF Next, Reply
  <1> QED BY <1>9, <1>10

LEMMA OvershootStep == Inv /\ OvershootBounded /\ [Next]_vars => OvershootBounded'
  <1> SUFFICES ASSUME Inv, OvershootBounded, [Next]_vars PROVE OvershootBounded'
    OBVIOUS
  <1> DEFINE n == Cardinality(Caller)
             m == Cardinality(Committed)
             mm == Cardinality(Committed')
  <1>1. /\ Committed \subseteq Caller /\ Committed' \subseteq Caller
        /\ IsFiniteSet(Committed) /\ IsFiniteSet(Committed')
    BY CallersAssumption, FS_Subset DEF Committed, At
  <1>2. n \in Nat /\ m \in Nat /\ mm \in Nat /\ mm <= n
    BY <1>1, CallersAssumption, FS_CardinalityType, FS_Subset
  <1>3. /\ spent \in Nat /\ MaxCost \in Nat /\ Cap \in Nat
        /\ \A cost \in Costs : cost \in Nat /\ cost <= MaxCost
    BY SpendAssumption, SeedsAssumption DEF Inv
  <1> HIDE DEF n, m, mm
  <1>4. ASSUME NEW a \in Nat, NEW b \in Nat, a <= b PROVE MaxCost * a <= MaxCost * b
    BY <1>3, <1>4
  <1>5. MaxCost * n \in Nat /\ MaxCost * m \in Nat /\ MaxCost * mm \in Nat
    BY <1>2, <1>3
  <1>6. CASE spent' = spent /\ Committed' \subseteq Committed
    <2>1. mm <= m
      BY <1>1, <1>6, FS_Subset DEF m, mm
    <2>2. MaxCost * mm <= MaxCost * m
      BY <1>2, <1>4, <2>1
    <2>3. CASE spent + MaxCost * m < Cap + MaxCost * n
      <3>1. spent + MaxCost * mm < Cap + MaxCost * n
        BY <1>3, <1>5, <2>2, <2>3
      <3> QED BY <1>6, <3>1 DEF OvershootBounded, n, mm
    <2>4. CASE spent \in Seeds /\ Committed = {}
      BY <1>6, <2>4 DEF OvershootBounded
    <2> QED BY <2>3, <2>4 DEF OvershootBounded, n, m
  <1>7. CASE spent' = spent /\ spent < Cap
    <2>1. MaxCost * mm <= MaxCost * n
      BY <1>2, <1>4
    <2>2. spent + MaxCost * mm < Cap + MaxCost * n
      BY <1>3, <1>5, <1>7, <2>1
    <2> QED BY <1>7, <2>2 DEF OvershootBounded, n, mm
  <1>8. ASSUME NEW c \in Committed, NEW cost \in Costs,
               spent' = spent + cost, Committed' \subseteq Committed \ {c}
        PROVE  OvershootBounded'
    <2>1. IsFiniteSet(Committed \ {c}) /\ Cardinality(Committed \ {c}) = m - 1
      BY <1>1, FS_RemoveElement DEF m
    <2>2. mm <= m - 1 /\ m - 1 \in Nat
      BY <1>2, <1>8, <2>1, FS_Subset, FS_CardinalityType DEF mm
    <2>3. MaxCost * mm <= MaxCost * (m - 1)
      BY <1>2, <1>4, <2>2
    <2>4. MaxCost * (m - 1) = MaxCost * m - MaxCost
      BY <1>2, <1>3
    <2>5. spent + MaxCost * m < Cap + MaxCost * n
      BY DEF OvershootBounded, m, n
    <2>6. spent + cost + MaxCost * mm < Cap + MaxCost * n
      BY <1>3, <1>5, <2>3, <2>4, <2>5
    <2> QED BY <1>8, <2>6 DEF OvershootBounded, n, mm
  <1> QED BY <1>6, <1>7, <1>8, StepSpends

\* The cap is overshot by at most one call per caller, for every number of
\* callers, limit and cost.
THEOREM CapHolds == Spec => []OvershootBounded
  <1>1. Init => OvershootBounded
    <2> SUFFICES ASSUME Init PROVE OvershootBounded
      OBVIOUS
    <2>1. Committed = {}
      BY DEF Init, Over, Committed, At
    <2> QED BY <2>1 DEF Init, OvershootBounded
  <1> QED BY <1>1, InvHolds, OvershootStep, PTL DEF Spec

----------------------------------------------------------------------------
(* THE LEDGER.  Three arguments about CostLedger, one on top of the other:    *)
(* Bounded, that what a file holds beyond its last fsync is in the counters   *)
(* of its writers; Truth, that until the host goes down the files sum to what *)
(* was paid and a cache to what was paid when it was read; Capped, that while *)
(* one process at a time is up its running spend is what was paid.  All three *)
(* need sums over a set of days or of processes.                              *)

----------------------------------------------------------------------------
(* Sums.  The folds of the model choose the members of a set in an order    *)
(* that is fixed but not known; what they compute does not depend on it.    *)

LEMMA NatLeast ==
  ASSUME NEW T, T \subseteq Nat, T # {}
  PROVE  \E m \in T : \A n \in T : m <= n
  <1> DEFINE Less == OpToRel(<, Nat)
  <1>1. IsWellFoundedOn(Less, Nat)
    BY NatLessThanWellFounded
  <1>2. \A m, n \in Nat : <<n, m>> \in Less <=> n < m
    BY DEF OpToRel
  <1> HIDE DEF Less
  <1>3. \E m \in T : \A n \in T : ~ (<<n, m>> \in Less)
    BY <1>1, WFMin
  <1> QED
    <2>1. PICK m \in T : \A n \in T : ~ (<<n, m>> \in Less)
      BY <1>3
    <2>2. \A n \in T : ~(n < m)
      BY <1>2, <2>1
    <2> QED BY <2>2

\* A set of finite sets that is not empty has a smallest one.
LEMMA SetLeast ==
  ASSUME NEW B, \A s \in B : IsFiniteSet(s), B # {}
  PROVE  \E s \in B : \A t \in B : Cardinality(s) <= Cardinality(t)
  <1> DEFINE Sizes == {Cardinality(s) : s \in B}
  <1>1. Sizes \subseteq Nat /\ Sizes # {}
    BY FS_CardinalityType
  <1> HIDE DEF Sizes
  <1>2. PICK n \in Sizes : \A m \in Sizes : n <= m
    BY <1>1, NatLeast
  <1> QED BY <1>2 DEF Sizes

Chosen(s) == CHOOSE x \in s : TRUE

\* f sums v over the sets of D.
Sums(f, v, D) ==
  f = [s \in D |-> IF s = {} THEN 0 ELSE v[Chosen(s)] + f[s \ {Chosen(s)}]]

UpTo(T, n) == {s \in SUBSET T : Cardinality(s) <= n}

LEMMA SmallSums ==
  ASSUME NEW T, IsFiniteSet(T), NEW v, NEW n \in Nat, \E f : Sums(f, v, UpTo(T, n))
  PROVE  \E f : Sums(f, v, UpTo(T, n + 1))
  <1>1. PICK f : Sums(f, v, UpTo(T, n))
    OBVIOUS
  <1> DEFINE g == [s \in UpTo(T, n + 1) |-> IF s = {} THEN 0 ELSE v[Chosen(s)] + f[s \ {Chosen(s)}]]
  <1>2. ASSUME NEW s \in UpTo(T, n + 1), s # {}
        PROVE  s \ {Chosen(s)} \in UpTo(T, n) /\ s \ {Chosen(s)} \in UpTo(T, n + 1)
    <2>1. IsFiniteSet(s) /\ Chosen(s) \in s
      BY <1>2, FS_Subset DEF UpTo, Chosen
    <2>2. Cardinality(s \ {Chosen(s)}) = Cardinality(s) - 1 /\ Cardinality(s) \in Nat
      BY <2>1, FS_RemoveElement, FS_CardinalityType
    <2> QED BY <2>2 DEF UpTo
  <1>3. ASSUME NEW u \in UpTo(T, n), u \in UpTo(T, n + 1) PROVE g[u] = f[u]
    <2>1. f[u] = IF u = {} THEN 0 ELSE v[Chosen(u)] + f[u \ {Chosen(u)}]
      BY <1>1 DEF Sums
    <2>2. g[u] = IF u = {} THEN 0 ELSE v[Chosen(u)] + f[u \ {Chosen(u)}]
      BY <1>3
    <2> QED BY <2>1, <2>2
  <1>4. \A s \in UpTo(T, n + 1) : s # {} => g[s \ {Chosen(s)}] = f[s \ {Chosen(s)}]
    BY <1>2, <1>3
  <1>5. Sums(g, v, UpTo(T, n + 1))
    BY <1>4 DEF Sums
  <1> QED BY <1>5

LEMMA SumsExist ==
  ASSUME NEW T, IsFiniteSet(T), NEW v
  PROVE  \E f : Sums(f, v, SUBSET T)
  <1> DEFINE Bad == {n \in Nat : ~\E f : Sums(f, v, UpTo(T, n))}
  <1>1. Bad = {}
    <2> SUFFICES ASSUME Bad # {} PROVE FALSE
      OBVIOUS
    <2>1. PICK n \in Bad : \A m \in Bad : n <= m
      <3>1. Bad \subseteq Nat
        OBVIOUS
      <3> HIDE DEF Bad
      <3> QED BY <3>1, NatLeast
    <2>2. CASE n = 0
      <3> DEFINE f == [s \in UpTo(T, 0) |-> 0]
      <3>1. \A s \in UpTo(T, 0) : s = {}
        BY FS_Subset, FS_EmptySet, FS_CardinalityType DEF UpTo
      <3>2. Sums(f, v, UpTo(T, 0))
        BY <3>1 DEF Sums
      <3> QED BY <2>2, <3>2
    <2>3. CASE n # 0
      <3>1. n - 1 \in Nat /\ n - 1 \notin Bad
        BY <2>1, <2>3
      <3>2. \E f : Sums(f, v, UpTo(T, (n - 1) + 1))
        BY <3>1, SmallSums
      <3>3. (n - 1) + 1 = n
        OBVIOUS
      <3> QED BY <2>1, <3>2, <3>3
    <2> QED BY <2>2, <2>3
  <1>2. UpTo(T, Cardinality(T)) = SUBSET T /\ Cardinality(T) \in Nat
    <2>1. \A s \in SUBSET T : Cardinality(s) <= Cardinality(T)
      BY FS_Subset
    <2> QED BY <2>1, FS_CardinalityType DEF UpTo
  <1> QED
    <2>1. \E f : Sums(f, v, UpTo(T, Cardinality(T)))
      BY <1>1, <1>2
    <2> QED BY <1>2, <2>1

Numeric(v, T) == \A x \in T : v[x] \in Int

\* Whatever is taken out of a set goes from its sum.
LEMMA SumsSplit ==
  ASSUME NEW T, IsFiniteSet(T), NEW v, Numeric(v, T), NEW f, Sums(f, v, SUBSET T)
  PROVE  /\ f[{}] = 0
         /\ \A s \in SUBSET T : /\ f[s] \in Int
                                /\ \A x \in s : f[s] = v[x] + f[s \ {x}]
  <1> DEFINE Good(s) == f[s] \in Int /\ \A x \in s : f[s] = v[x] + f[s \ {x}]
             Bad == {s \in SUBSET T : ~Good(s)}
  <1>1. f[{}] = 0
    BY DEF Sums
  <1>2. Bad = {}
    <2> SUFFICES ASSUME Bad # {} PROVE FALSE
      OBVIOUS
    <2>1. PICK s \in Bad : \A t \in Bad : Cardinality(s) <= Cardinality(t)
      <3>1. \A t \in Bad : IsFiniteSet(t)
        BY FS_Subset
      <3> HIDE DEF Bad
      <3> QED BY <3>1, SetLeast
    <2> DEFINE p == Chosen(s)
    <2>2. s # {} /\ s \subseteq T
      <3>1. s \subseteq T /\ ~Good(s)
        BY <2>1
      <3>2. Good({})
        BY <1>1
      <3> QED BY <3>1, <3>2
    <2>3. p \in s
      BY <2>2 DEF Chosen
    <2>4. f[s] = v[p] + f[s \ {p}]
      BY <2>2 DEF Sums
    <2> HIDE DEF p
    <2>5. ASSUME NEW x \in s PROVE s \ {x} \subseteq T /\ Good(s \ {x})
      <3>1. Cardinality(s \ {x}) = Cardinality(s) - 1 /\ Cardinality(s) \in Nat
        BY <2>2, FS_Subset, FS_RemoveElement, FS_CardinalityType
      <3>2. ~(Cardinality(s) <= Cardinality(s \ {x}))
        BY <3>1
      <3>3. s \ {x} \notin Bad
        BY <2>1, <3>2
      <3> QED BY <2>2, <3>3
    <2>6. v[p] \in Int /\ f[s \ {p}] \in Int
      BY <2>2, <2>3, <2>5 DEF Numeric
    <2>7. ASSUME NEW x \in s PROVE f[s] = v[x] + f[s \ {x}]
      <3>1. CASE x = p
        BY <2>4, <3>1
      <3>2. CASE x # p
        <4>1. x \in s \ {p} /\ p \in s \ {x}
          BY <2>3, <3>2
        <4>2. (s \ {p}) \ {x} = (s \ {x}) \ {p}
          OBVIOUS
        <4> DEFINE rest == f[(s \ {x}) \ {p}]
        <4>3. f[s \ {p}] = v[x] + rest
          BY <2>3, <2>5, <4>1, <4>2
        <4>4. f[s \ {x}] = v[p] + rest
          BY <2>5, <4>1
        <4>5. rest \in Int
          <5>1. s \ {x} \subseteq T /\ IsFiniteSet(s \ {x})
            BY <2>5, FS_Subset
          <5>2. Cardinality((s \ {x}) \ {p}) = Cardinality(s) - 2 /\ Cardinality(s) \in Nat
            <6>1. Cardinality(s \ {x}) = Cardinality(s) - 1 /\ Cardinality(s) \in Nat
              BY <2>2, FS_Subset, FS_RemoveElement, FS_CardinalityType
            <6>2. Cardinality((s \ {x}) \ {p}) = Cardinality(s \ {x}) - 1
              BY <4>1, <5>1, FS_RemoveElement
            <6> QED BY <6>1, <6>2
          <5>3. ~(Cardinality(s) <= Cardinality((s \ {x}) \ {p}))
            BY <5>2
          <5>4. (s \ {x}) \ {p} \notin Bad
            BY <2>1, <5>3
          <5> QED BY <2>2, <5>4
        <4>6. v[x] \in Int
          BY <2>2 DEF Numeric
        <4> HIDE DEF rest
        <4> QED BY <2>4, <2>6, <4>3, <4>4, <4>5, <4>6
      <3> QED BY <3>1, <3>2
    <2>8. f[s] \in Int
      BY <2>4, <2>6
    <2> QED BY <2>1, <2>7, <2>8
  <1> QED BY <1>1, <1>2

\* A sum depends on what is summed only.
LEMMA SumsAgree ==
  ASSUME NEW T, IsFiniteSet(T), NEW U, IsFiniteSet(U), NEW v, NEW w, NEW f, NEW g,
         Numeric(v, T), Numeric(w, U),
         Sums(f, v, SUBSET T), Sums(g, w, SUBSET U),
         NEW S, S \subseteq T, S \subseteq U, \A x \in S : v[x] = w[x]
  PROVE  f[S] = g[S]
  <1> DEFINE Bad == {s \in SUBSET S : f[s] # g[s]}
  <1>1. Bad = {}
    <2> SUFFICES ASSUME Bad # {} PROVE FALSE
      OBVIOUS
    <2>1. PICK s \in Bad : \A t \in Bad : Cardinality(s) <= Cardinality(t)
      <3>1. \A t \in Bad : IsFiniteSet(t)
        BY FS_Subset
      <3> HIDE DEF Bad
      <3> QED BY <3>1, SetLeast
    <2>2. s # {}
      BY <2>1, SumsSplit
    <2>3. PICK x \in s : TRUE
      BY <2>2
    <2>4. s \subseteq T /\ s \subseteq U /\ x \in S /\ s \ {x} \subseteq S /\ IsFiniteSet(s)
      BY <2>1, <2>3, FS_Subset
    <2>5. f[s] = v[x] + f[s \ {x}]
      BY <2>3, <2>4, SumsSplit
    <2>6. g[s] = w[x] + g[s \ {x}]
      BY <2>3, <2>4, SumsSplit
    <2>7. f[s \ {x}] = g[s \ {x}]
      <3>1. Cardinality(s \ {x}) = Cardinality(s) - 1 /\ Cardinality(s) \in Nat
        BY <2>3, <2>4, FS_RemoveElement, FS_CardinalityType
      <3>2. ~(Cardinality(s) <= Cardinality(s \ {x}))
        BY <3>1
      <3> QED BY <2>1, <2>4, <3>2
    <2> QED BY <2>1, <2>4, <2>5, <2>6, <2>7
  <1> QED BY <1>1

Total(v, T) == (CHOOSE f : Sums(f, v, SUBSET T))[T]

LEMMA TotalIs ==
  ASSUME NEW T, IsFiniteSet(T), NEW v, Numeric(v, T), NEW f, Sums(f, v, SUBSET T)
  PROVE  Total(v, T) = f[T]
  <1> DEFINE g == CHOOSE h : Sums(h, v, SUBSET T)
  <1>1. Sums(g, v, SUBSET T)
    BY SumsExist
  <1> HIDE DEF g
  <1>2. g[T] = f[T]
    BY <1>1, SumsAgree
  <1> QED BY <1>2 DEF Total, g

LEMMA TotalAgrees ==
  ASSUME NEW T, IsFiniteSet(T), NEW v, NEW w, Numeric(v, T), \A x \in T : v[x] = w[x]
  PROVE  Total(v, T) = Total(w, T)
  <1>1. PICK f : Sums(f, v, SUBSET T)
    BY SumsExist
  <1>2. PICK g : Sums(g, w, SUBSET T)
    BY SumsExist
  <1>3. Numeric(w, T)
    BY DEF Numeric
  <1>4. f[T] = g[T]
    BY <1>1, <1>2, <1>3, SumsAgree
  <1> QED BY <1>1, <1>2, <1>3, <1>4, TotalIs

LEMMA TotalSplits ==
  ASSUME NEW T, IsFiniteSet(T), NEW v, Numeric(v, T)
  PROVE  /\ Total(v, T) \in Int
         /\ T = {} => Total(v, T) = 0
         /\ \A x \in T : Total(v, T) = v[x] + Total(v, T \ {x})
  <1>1. PICK f : Sums(f, v, SUBSET T)
    BY SumsExist
  <1>2. Total(v, T) = f[T]
    BY <1>1, TotalIs
  <1>3. /\ f[{}] = 0 /\ f[T] \in Int
        /\ \A x \in T : f[T] = v[x] + f[T \ {x}]
    <2>1. f[{}] = 0
      BY <1>1, SumsSplit
    <2>2. f[T] \in Int
      BY <1>1, SumsSplit
    <2>3. ASSUME NEW x \in T PROVE f[T] = v[x] + f[T \ {x}]
      BY <1>1, SumsSplit
    <2> QED BY <2>1, <2>2, <2>3
  <1>4. ASSUME NEW x \in T PROVE Total(v, T \ {x}) = f[T \ {x}]
    <2> DEFINE R == T \ {x}
    <2>1. R \subseteq T /\ IsFiniteSet(R) /\ Numeric(v, R)
      BY FS_Subset DEF Numeric
    <2> HIDE DEF R
    <2>2. PICK g : Sums(g, v, SUBSET R)
      BY <2>1, SumsExist
    <2>3. f[R] = g[R]
      <3> QED BY <1>1, <2>1, <2>2, SumsAgree
    <2>4. Total(v, R) = g[R]
      BY <2>1, <2>2, TotalIs
    <2> QED BY <2>3, <2>4 DEF R
  <1> QED BY <1>2, <1>3, <1>4

\* One term changes, and the sum changes by as much.
LEMMA TotalChanges ==
  ASSUME NEW T, IsFiniteSet(T), NEW v, NEW w, NEW a \in T,
         Numeric(v, T), Numeric(w, T), \A x \in T \ {a} : v[x] = w[x]
  PROVE  /\ Total(v, T) \in Int /\ Total(w, T) \in Int
         /\ Total(w, T) = Total(v, T) - v[a] + w[a]
  <1> DEFINE R == T \ {a}
  <1>1. IsFiniteSet(R) /\ R \subseteq T
    BY FS_Subset
  <1>2. Total(v, R) = Total(w, R) /\ Total(v, R) \in Int
    <2>1. Numeric(v, R) /\ \A x \in R : v[x] = w[x]
      BY DEF Numeric
    <2> HIDE DEF R
    <2> QED BY <1>1, <2>1, TotalAgrees, TotalSplits
  <1>3. Total(v, T) = v[a] + Total(v, R) /\ Total(w, T) = w[a] + Total(w, R)
    BY TotalSplits
  <1> HIDE DEF R
  <1>4. v[a] \in Int /\ w[a] \in Int
    BY DEF Numeric
  <1> QED BY <1>2, <1>3, <1>4

LEMMA ZeroTotal ==
  ASSUME NEW T, IsFiniteSet(T), NEW v, \A x \in T : v[x] = 0
  PROVE  Total(v, T) = 0
  <1> DEFINE Bad == {s \in SUBSET T : Total(v, s) # 0}
  <1>1. \A s \in SUBSET T : IsFiniteSet(s) /\ Numeric(v, s)
    BY FS_Subset DEF Numeric
  <1>2. Bad = {}
    <2> SUFFICES ASSUME Bad # {} PROVE FALSE
      OBVIOUS
    <2>1. PICK s \in Bad : \A t \in Bad : Cardinality(s) <= Cardinality(t)
      <3>1. \A t \in Bad : IsFiniteSet(t)
        BY <1>1
      <3> HIDE DEF Bad
      <3> QED BY <3>1, SetLeast
    <2>2. s \in SUBSET T /\ Total(v, s) # 0
      BY <2>1
    <2>3. /\ s = {} => Total(v, s) = 0
          /\ \A x \in s : Total(v, s) = v[x] + Total(v, s \ {x})
      BY <1>1, <2>2, TotalSplits
    <2>4. PICK x \in s : TRUE
      BY <2>2, <2>3
    <2>5. Cardinality(s \ {x}) = Cardinality(s) - 1 /\ Cardinality(s) \in Nat
      BY <1>1, <2>2, <2>4, FS_RemoveElement, FS_CardinalityType
    <2>6. ~(Cardinality(s) <= Cardinality(s \ {x}))
      BY <2>5
    <2>7. Total(v, s \ {x}) = 0 /\ v[x] = 0
      BY <2>1, <2>2, <2>4, <2>6
    <2> QED BY <2>2, <2>3, <2>4, <2>7
  <1> QED BY <1>2

\* Of natural numbers, no term is more than the sum.
LEMMA TotalIsEnough ==
  ASSUME NEW T, IsFiniteSet(T), NEW v, \A x \in T : v[x] \in Nat
  PROVE  Total(v, T) \in Nat /\ \A x \in T : v[x] <= Total(v, T)
  <1>1. \A n \in Nat : n \in Int
    OBVIOUS
  <1>2. \A s \in SUBSET T : Numeric(v, s)
    BY <1>1 DEF Numeric
  <1> DEFINE Bad == {s \in SUBSET T : Total(v, s) \notin Nat}
  <1>3. Bad = {}
    <2> SUFFICES ASSUME Bad # {} PROVE FALSE
      OBVIOUS
    <2>1. PICK s \in Bad : \A t \in Bad : Cardinality(s) <= Cardinality(t)
      <3>1. \A t \in Bad : IsFiniteSet(t)
        BY FS_Subset
      <3> HIDE DEF Bad
      <3> QED BY <3>1, SetLeast
    <2>2. s \subseteq T /\ IsFiniteSet(s) /\ Total(v, s) \notin Nat
      BY <2>1, FS_Subset
    <2>3. /\ Total(v, s) \in Int /\ (s = {} => Total(v, s) = 0)
          /\ \A x \in s : Total(v, s) = v[x] + Total(v, s \ {x})
      BY <1>2, <2>2, TotalSplits
    <2>4. PICK x \in s : TRUE
      BY <2>2, <2>3
    <2>5. Cardinality(s \ {x}) = Cardinality(s) - 1 /\ Cardinality(s) \in Nat
      BY <2>2, <2>4, FS_RemoveElement, FS_CardinalityType
    <2>6. ~(Cardinality(s) <= Cardinality(s \ {x}))
      BY <2>5
    <2>7. Total(v, s \ {x}) \in Nat /\ v[x] \in Nat
      BY <2>1, <2>2, <2>4, <2>6
    <2> QED BY <2>2, <2>3, <2>4, <2>7
  <1>4. ASSUME NEW x \in T PROVE v[x] <= Total(v, T)
    <2>1. Total(v, T \ {x}) \in Nat /\ Total(v, T) = v[x] + Total(v, T \ {x})
      BY <1>2, <1>3, TotalSplits
    <2> QED BY <2>1
  <1>5. Total(v, T) \in Nat
    BY <1>3
  <1> QED BY <1>4, <1>5

----------------------------------------------------------------------------
(* The sums of the ledger *)

Amounts(lines) == [i \in DOMAIN lines |-> IF lines[i] = Torn THEN 0 ELSE lines[i]]
DaySums(fi) == [d \in Day |-> LineSum(fi[d].lines)]
Pending(pr, d) == [p \in Process |-> IF pr[p].day = d THEN pr[p].since ELSE 0]

LEMMA LineSumIs ==
  ASSUME NEW lines \in Seq(Int)
  PROVE  LineSum(lines) = Total(Amounts(lines), 1..Len(lines)) /\ LineSum(lines) \in Int
  <1> DEFINE T == DOMAIN lines
             v == Amounts(lines)
  <1>1. T = 1..Len(lines) /\ Len(lines) \in Nat /\ IsFiniteSet(T)
    BY FS_Interval
  <1>2. /\ \A i \in T : v[i] = (IF lines[i] = Torn THEN 0 ELSE lines[i]) /\ v[i] \in Int
        /\ Numeric(v, T)
    BY DEF Amounts, Numeric
  <1>3. PICK f : Sums(f, v, SUBSET T)
    BY <1>1, SumsExist
  <1>4. \A s \in SUBSET T : f[s] \in Int
    BY <1>1, <1>2, <1>3, SumsSplit
  <1>5. \A s \in SUBSET T : s # {} => Chosen(s) \in T /\ s \ {Chosen(s)} \in SUBSET T
    BY DEF Chosen
  <1> DEFINE Folds(g) ==
        g = [s \in SUBSET DOMAIN lines |->
               IF s = {} THEN 0
               ELSE IF lines[CHOOSE x \in s : TRUE] = Torn THEN g[s \ {CHOOSE x \in s : TRUE}]
                    ELSE g[s \ {CHOOSE x \in s : TRUE}] + lines[CHOOSE x \in s : TRUE]]
  <1>6. Folds(f)
    <2> HIDE DEF v
    <2>1. f = [s \in SUBSET T |-> IF s = {} THEN 0 ELSE v[Chosen(s)] + f[s \ {Chosen(s)}]]
      BY <1>3 DEF Sums
    <2>2. ASSUME NEW s \in SUBSET T, s # {}
          PROVE  v[Chosen(s)] + f[s \ {Chosen(s)}]
                   = IF lines[Chosen(s)] = Torn THEN f[s \ {Chosen(s)}]
                     ELSE f[s \ {Chosen(s)}] + lines[Chosen(s)]
      <3> DEFINE n == f[s \ {Chosen(s)}]
                 c == Chosen(s)
      <3>1. n \in Int /\ c \in T
        BY <1>4, <1>5, <2>2
      <3> HIDE DEF n, c
      <3>2. v[c] = (IF lines[c] = Torn THEN 0 ELSE lines[c]) /\ v[c] \in Int
        BY <1>2, <3>1
      <3>3. v[c] + n = IF lines[c] = Torn THEN n ELSE n + lines[c]
        BY <3>1, <3>2
      <3> QED BY <3>3 DEF n, c
    <2>3. f = [s \in SUBSET T |-> IF s = {} THEN 0
                                  ELSE IF lines[Chosen(s)] = Torn THEN f[s \ {Chosen(s)}]
                                       ELSE f[s \ {Chosen(s)}] + lines[Chosen(s)]]
      BY <2>1, <2>2
    <2> QED BY <2>3 DEF Chosen
  <1>7. PICK g : Folds(g) /\ LineSum(lines) = g[T]
    BY <1>6 DEF LineSum, FoldSeq, FoldFunction, FoldFunctionOnSet, MapThenFoldSet
  <1>8. \A s \in SUBSET T : f[s] = g[s]
    <2> DEFINE Bad == {s \in SUBSET T : f[s] # g[s]}
    <2> SUFFICES ASSUME Bad # {} PROVE FALSE
      OBVIOUS
    <2>1. PICK s \in Bad : \A t \in Bad : Cardinality(s) <= Cardinality(t)
      <3>1. \A t \in Bad : IsFiniteSet(t)
        BY <1>1, FS_Subset
      <3> HIDE DEF Bad
      <3> QED BY <3>1, SetLeast
    <2> DEFINE r == s \ {CHOOSE x \in s : TRUE}
    <2>2. s \in SUBSET T /\ f[s] # g[s]
      BY <2>1
    <2>3. s # {}
      BY <1>6, <1>7, <2>2
    <2>4. r \in SUBSET T /\ r \notin Bad
      <3>1. (CHOOSE x \in s : TRUE) \in s /\ IsFiniteSet(s)
        BY <1>1, <2>2, <2>3, FS_Subset
      <3>2. Cardinality(r) = Cardinality(s) - 1 /\ Cardinality(s) \in Nat
        BY <3>1, FS_RemoveElement, FS_CardinalityType
      <3>3. ~(Cardinality(s) <= Cardinality(r))
        BY <3>2
      <3> QED BY <2>1, <2>2, <3>3
    <2>5. f[r] = g[r]
      BY <2>4
    <2> HIDE DEF Bad
    <2>6. f[s] = IF lines[CHOOSE x \in s : TRUE] = Torn THEN f[r]
                 ELSE f[r] + lines[CHOOSE x \in s : TRUE]
      BY <1>6, <2>2, <2>3
    <2>7. g[s] = IF lines[CHOOSE x \in s : TRUE] = Torn THEN g[r]
                 ELSE g[r] + lines[CHOOSE x \in s : TRUE]
      BY <1>7, <2>2, <2>3
    <2> QED BY <2>2, <2>5, <2>6, <2>7
  <1>9. LineSum(lines) = f[T] /\ f[T] \in Int
    BY <1>4, <1>7, <1>8
  <1> QED BY <1>1, <1>2, <1>3, <1>9, TotalIs

LEMMA LineSumGrows ==
  ASSUME NEW lines \in Seq(Nat)
  PROVE  /\ LineSum(lines) \in Nat
         /\ lines = <<>> => LineSum(lines) = 0
         /\ \A c \in Nat : LineSum(Append(lines, c)) = LineSum(lines) + c
  <1> DEFINE T == 1..Len(lines)
             v == Amounts(lines)
  <1>1. lines \in Seq(Int) /\ Len(lines) \in Nat /\ IsFiniteSet(T)
    BY FS_Interval
  <1>2. /\ \A i \in T : v[i] \in Nat /\ v[i] = lines[i]
        /\ Numeric(v, T)
    <2>1. \A i \in T : v[i] \in Nat /\ v[i] = lines[i]
      BY DEF Amounts, Torn
    <2> QED BY <2>1 DEF Numeric
  <1>3. LineSum(lines) = Total(v, T)
    BY <1>1, LineSumIs
  <1>4. Total(v, T) \in Nat
    BY <1>1, <1>2, TotalIsEnough
  <1>5. lines = <<>> => Total(v, T) = 0
    <2>1. lines = <<>> => T = {}
      OBVIOUS
    <2> HIDE DEF T, v
    <2> QED BY <1>1, <1>2, <2>1, TotalSplits
  <1>6. ASSUME NEW c \in Nat PROVE LineSum(Append(lines, c)) = LineSum(lines) + c
    <2> DEFINE more == Append(lines, c)
               w == Amounts(more)
               U == 1..Len(more)
               last == Len(lines) + 1
    <2>1. more \in Seq(Int) /\ more \in Seq(Nat) /\ Len(more) = last /\ more[last] = c
          /\ \A i \in T : more[i] = lines[i]
      OBVIOUS
    <2>2. IsFiniteSet(U) /\ last \in U /\ U \ {last} = T
      <3>1. last \in Nat /\ last \in 1..last /\ IsFiniteSet(1..last)
        BY <1>1, FS_Interval
      <3>2. (1..last) \ {last} = T
        BY <1>1
      <3>3. U = 1..last
        BY <2>1
      <3> QED BY <3>1, <3>2, <3>3
    <2>3. \A i \in U : w[i] \in Nat /\ w[i] = more[i]
      BY <2>1 DEF Amounts, Torn
    <2>4. Numeric(w, U)
      BY <2>3 DEF Numeric
    <2>5. LineSum(more) = Total(w, U)
      BY <2>1, LineSumIs
    <2> HIDE DEF U, w
    <2>6. Total(w, U) = w[last] + Total(w, T)
      BY <2>2, <2>4, TotalSplits
    <2>7. w[last] = c
      BY <2>1, <2>2, <2>3
    <2>8. \A i \in T : v[i] = w[i]
      BY <1>2, <2>1, <2>2, <2>3
    <2> HIDE DEF v, T, more
    <2>9. Total(v, T) = Total(w, T)
      BY <1>1, <1>2, <2>8, TotalAgrees
    <2>10. LineSum(more) = LineSum(lines) + c
      BY <1>3, <1>4, <2>5, <2>6, <2>7, <2>9
    <2> QED BY <2>10 DEF more
  <1> QED BY <1>3, <1>4, <1>5, <1>6

LEMMA LedgerSumIs ==
  ASSUME IsFiniteSet(Day), NEW fi, \A d \in Day : LineSum(fi[d].lines) \in Int
  PROVE  MapThenSumSet(LAMBDA d : LineSum(fi[d].lines), Day) = Total(DaySums(fi), Day)
  <1>1. PICK f : Sums(f, DaySums(fi), SUBSET Day)
    BY SumsExist
  <1>2. \A s \in SUBSET Day : s # {} => DaySums(fi)[Chosen(s)] = LineSum(fi[Chosen(s)].lines)
    BY DEF DaySums, Chosen
  <1>3. f = [s \in SUBSET Day |-> IF s = {} THEN 0
                                  ELSE LineSum(fi[Chosen(s)].lines) + f[s \ {Chosen(s)}]]
    BY <1>1, <1>2 DEF Sums
  <1>4. PICK g : /\ g = [s \in SUBSET Day |-> IF s = {} THEN 0
                                             ELSE LineSum(fi[Chosen(s)].lines) + g[s \ {Chosen(s)}]]
                 /\ MapThenSumSet(LAMBDA d : LineSum(fi[d].lines), Day) = g[Day]
    BY <1>3 DEF MapThenSumSet, MapThenFoldSet, Chosen
  <1>5. Sums(g, DaySums(fi), SUBSET Day)
    BY <1>2, <1>4 DEF Sums
  <1>6. Numeric(DaySums(fi), Day)
    BY DEF DaySums, Numeric
  <1> QED BY <1>4, <1>5, <1>6, TotalIs

LEMMA PendingIs ==
  ASSUME NEW pr, NEW d, \A p \in Process : pr[p].since \in Int
  PROVE  MapThenSumSet(LAMBDA p : IF pr[p].day = d THEN pr[p].since ELSE 0, Process)
           = Total(Pending(pr, d), Process)
  <1> DEFINE sum == MapThenSumSet(LAMBDA p : IF pr[p].day = d THEN pr[p].since ELSE 0, Process)
             v == Pending(pr, d)
  <1>1. PICK f : Sums(f, v, SUBSET Process)
    BY SumsExist, LedgerAssumption
  <1>2. \A s \in SUBSET Process :
          s # {} => v[Chosen(s)] = IF pr[Chosen(s)].day = d THEN pr[Chosen(s)].since ELSE 0
    BY DEF Pending, Chosen
  <1>3. Numeric(v, Process)
    BY DEF Pending, Numeric
  <1> HIDE DEF v
  <1>4. f = [s \in SUBSET Process |->
               IF s = {} THEN 0
               ELSE (IF pr[Chosen(s)].day = d THEN pr[Chosen(s)].since ELSE 0) + f[s \ {Chosen(s)}]]
    BY <1>1, <1>2 DEF Sums
  <1>5. PICK g : /\ g = [s \in SUBSET Process |->
                           IF s = {} THEN 0
                           ELSE (IF pr[Chosen(s)].day = d THEN pr[Chosen(s)].since ELSE 0)
                                  + g[s \ {Chosen(s)}]]
                 /\ sum = g[Process]
    BY <1>4 DEF MapThenSumSet, MapThenFoldSet, Chosen
  <1>6. Sums(g, v, SUBSET Process)
    BY <1>2, <1>5 DEF Sums
  <1>7. sum = Total(v, Process)
    <2> HIDE DEF sum
    <2> QED BY <1>3, <1>5, <1>6, TotalIs, LedgerAssumption
  <1> QED BY <1>7 DEF v

----------------------------------------------------------------------------
(* Types *)

File == [lines : Seq(Int), synced : Nat, torn : BOOLEAN]
Proc == [up : BOOLEAN, client : BOOLEAN, spent : Int, calls : 0..InFlight, day : Day \union {NoDay}, since : Nat,
         cached : BOOLEAN, sum : Int, signature : Nat, readAt : Nat]

LedgerTypes ==
  /\ now \in Nat /\ now <= MaxClock
  /\ file \in [Day -> File]
  /\ \A d \in Day : /\ file[d].synced <= Len(file[d].lines)
                    /\ file[d].torn => file[d].lines # <<>>
  /\ proc \in [Process -> Proc]
  /\ \A p \in Process : /\ ~proc[p].up => proc[p] = Down
                        /\ proc[p].client => proc[p].up
                        /\ proc[p].calls > 0 => proc[p].client
  /\ appends \in Nat /\ paid \in Nat
  /\ past \in [1..Ttl -> Int]
  /\ faults \in [overlap : BOOLEAN, killed : BOOLEAN, hostCrash : BOOLEAN]

LEMMA Quotients ==
  ASSUME NEW n \in Nat \ {0}, NEW a \in Nat, NEW b \in Nat
  PROVE  a \div n \in Nat /\ (a <= b => a \div n <= b \div n)
  OBVIOUS

LEMMA Days ==
  ASSUME LedgerTypes
  PROVE  /\ IsFiniteSet(Day) /\ Day \subseteq Nat /\ Today \in Day /\ NoDay \notin Day
         /\ Today # NoDay
  <1>1. MaxClock \div DayTicks \in Nat
    BY Quotients, LedgerAssumption
  <1>2. IsFiniteSet(Day) /\ Day \subseteq Nat /\ NoDay \notin Day
    BY <1>1, FS_Interval DEF Day, NoDay
  <1>3. Today \in Nat /\ Today <= MaxClock \div DayTicks
    BY Quotients, LedgerAssumption DEF LedgerTypes, Today
  <1>4. Today \in Day
    BY <1>1, <1>3 DEF Day
  <1> QED BY <1>2, <1>4

LEMMA DownIsProc == Down \in Proc
  BY LedgerAssumption DEF Down, Proc

LEMMA LedgerSumIsInt ==
  ASSUME IsFiniteSet(Day), NEW fi \in [Day -> File]
  PROVE  /\ MapThenSumSet(LAMBDA d : LineSum(fi[d].lines), Day) = Total(DaySums(fi), Day)
         /\ Numeric(DaySums(fi), Day) /\ Total(DaySums(fi), Day) \in Int
  <1>1. \A d \in Day : LineSum(fi[d].lines) \in Int
    BY LineSumIs DEF File
  <1>2. Numeric(DaySums(fi), Day)
    BY <1>1 DEF Numeric, DaySums
  <1> QED BY <1>1, <1>2, LedgerSumIs, TotalSplits

\* A consultation changes the cache only.
LEMMA ConsultedIs ==
  ASSUME LedgerTypes, NEW q \in Proc
  PROVE  /\ Consulted(q) \in Proc
         /\ \A f \in {"up", "client", "spent", "calls", "day", "since"} : Consulted(q)[f] = q[f]
         /\ Consulted(q).cached
         /\ \/ q.cached /\ now - q.readAt < Ttl /\ Consulted(q) = q
            \/ /\ q.cached /\ q.signature = appends
               /\ Consulted(q).sum = q.sum /\ Consulted(q).signature = appends
               /\ Consulted(q).readAt = now
            \/ /\ Consulted(q).sum = LedgerSum /\ Consulted(q).signature = appends
               /\ Consulted(q).readAt = now
  <1>1. LedgerSum \in Int
    BY Days, LedgerSumIsInt DEF LedgerSum, LedgerTypes
  <1>2. now \in Nat /\ appends \in Nat
    BY DEF LedgerTypes
  <1>3. CASE q.cached /\ now - q.readAt < Ttl
    BY <1>3 DEF Consulted
  <1>4. CASE ~(q.cached /\ now - q.readAt < Ttl) /\ q.cached /\ q.signature = appends
    <2>1. Consulted(q) = [q EXCEPT !.readAt = now]
      BY <1>4 DEF Consulted
    <2> QED BY <1>2, <1>4, <2>1 DEF Proc
  <1>5. CASE ~(q.cached /\ now - q.readAt < Ttl) /\ ~(q.cached /\ q.signature = appends)
    <2>1. Consulted(q) = [q EXCEPT !.cached = TRUE, !.sum = LedgerSum, !.signature = appends, !.readAt = now]
      BY <1>5 DEF Consulted
    <2> QED BY <1>1, <1>2, <2>1 DEF Proc
  <1> QED BY <1>3, <1>4, <1>5

\* What an append does to the files and to its process.
LEMMA AppendedFiles ==
  ASSUME LedgerTypes, NEW p \in Process, NEW cost \in Nat, NEW ended, Appended(p, cost, ended)
  PROVE  /\ file' \in [Day -> File]
         /\ \A d \in Day \ {Today} :
              /\ file'[d].lines = file[d].lines /\ file'[d].torn = file[d].torn
              /\ file'[d].synced = IF d = proc[p].day THEN Len(file[d].lines) ELSE file[d].synced
         /\ file'[Today].lines = IF file[Today].torn THEN file[Today].lines
                                 ELSE Append(file[Today].lines, cost)
         /\ ~file'[Today].torn
         /\ file'[Today].synced = IF Full(proc[p]) THEN Len(file'[Today].lines)
                                  ELSE IF file[Today].torn THEN Len(file[Today].lines) - 1
                                  ELSE file[Today].synced
  <1> DEFINE q == proc[p]
             all == Rotated(q)
             old == file[Today]
             f == Written(all[Today], cost)
  <1>1. /\ Today \in Day /\ NoDay \notin Day
        /\ file \in [Day -> File] /\ q \in Proc
        /\ \A d \in Day : file[d].synced <= Len(file[d].lines) /\ (file[d].torn => file[d].lines # <<>>)
    <2>1. Today \in Day /\ NoDay \notin Day
      BY Days
    <2>2. proc \in [Process -> Proc] /\ file \in [Day -> File]
      BY DEF LedgerTypes
    <2>3. \A d \in Day : file[d].synced <= Len(file[d].lines) /\ (file[d].torn => file[d].lines # <<>>)
      BY DEF LedgerTypes
    <2> QED BY <2>1, <2>2, <2>3
  <1>2. /\ all \in [Day -> File] /\ all[Today] = old
        /\ \A d \in Day \ {Today} :
             /\ all[d].lines = file[d].lines /\ all[d].torn = file[d].torn
             /\ all[d].synced = IF d = q.day THEN Len(file[d].lines) ELSE file[d].synced
    <2>1. CASE q.day \in Day \ {Today}
      <3>1. all = [file EXCEPT ![q.day] = Synced(@)]
        BY <2>1 DEF Rotated
      <3>2. Synced(file[q.day]) \in File /\ Synced(file[q.day]).synced = Len(file[q.day].lines)
            /\ Synced(file[q.day]).lines = file[q.day].lines /\ Synced(file[q.day]).torn = file[q.day].torn
        BY <1>1, <2>1 DEF Synced, File
      <3> HIDE DEF all
      <3> QED BY <1>1, <2>1, <3>1, <3>2
    <2>2. CASE q.day \notin Day \ {Today}
      <3>1. all = file
        BY <2>2 DEF Rotated
      <3> HIDE DEF all
      <3> QED BY <1>1, <2>2, <3>1
    <2> QED BY <2>1, <2>2
  <1>3. /\ f \in File /\ ~f.torn
        /\ f.lines = IF old.torn THEN old.lines ELSE Append(old.lines, cost)
        /\ f.synced = IF old.torn THEN Len(old.lines) - 1 ELSE old.synced
    <2>1. old \in File /\ (old.torn => old.lines # <<>>)
      BY <1>1
    <2> HIDE DEF old, all
    <2>2. CASE old.torn
      <3>1. f = [old EXCEPT !.torn = FALSE, !.synced = Len(old.lines) - 1]
        BY <1>2, <2>2 DEF Written
      <3>2. Len(old.lines) - 1 \in Nat
        BY <2>1, <2>2 DEF File
      <3> HIDE DEF f
      <3> QED BY <2>1, <2>2, <3>1, <3>2 DEF File
    <2>3. CASE ~old.torn
      <3>1. f = [old EXCEPT !.lines = Append(old.lines, cost)]
        BY <1>2, <2>3 DEF Written
      <3>2. Append(old.lines, cost) \in Seq(Int)
        BY <2>1 DEF File
      <3> HIDE DEF f
      <3> QED BY <2>1, <2>3, <3>1, <3>2 DEF File
    <2> QED BY <2>2, <2>3
  <1>4. file' = [all EXCEPT ![Today] = IF Full(q) THEN Synced(f) ELSE f]
    BY DEF Appended
  <1>5. /\ Synced(f) \in File /\ Synced(f).lines = f.lines /\ Synced(f).torn = f.torn
        /\ Synced(f).synced = Len(f.lines)
    <2> HIDE DEF f
    <2> QED BY <1>3 DEF Synced, File
  <1> HIDE DEF all, f
  <1>6. /\ file' \in [Day -> File]
        /\ \A d \in Day \ {Today} : file'[d] = all[d]
        /\ file'[Today] = IF Full(q) THEN Synced(f) ELSE f
    BY <1>1, <1>2, <1>3, <1>4, <1>5
  <1> QED BY <1>2, <1>3, <1>5, <1>6

LEMMA AppendedProcs ==
  ASSUME LedgerTypes, NEW p \in Process, NEW cost \in Nat,
         NEW ended \in 0..proc[p].calls, Appended(p, cost, ended)
  PROVE  /\ proc' \in [Process -> Proc]
         /\ \A q \in Process \ {p} : proc'[q] = proc[q]
         /\ \A f \in {"up", "client", "cached", "sum", "signature", "readAt"} : proc'[p][f] = proc[p][f]
         /\ proc'[p].day = Today /\ proc'[p].spent = proc[p].spent + cost
         /\ proc'[p].calls = proc[p].calls - ended
         /\ proc'[p].since = IF Full(proc[p]) THEN 0 ELSE Since(proc[p])
         /\ Since(proc[p]) \in Nat
  <1> DEFINE q == proc[p]
             n == IF Full(q) THEN 0 ELSE Since(q)
             m == q.spent + cost
             k == q.calls - ended
             r == [q EXCEPT !.day = Today, !.since = n, !.spent = m, !.calls = k]
  <1>1. proc \in [Process -> Proc] /\ q \in Proc /\ Today \in Day
    BY Days DEF LedgerTypes
  <1>2. Since(q) \in Nat /\ n \in Nat /\ m \in Int /\ k \in 0..InFlight
    BY <1>1, LedgerAssumption DEF Since, Proc
  <1>3. proc' = [proc EXCEPT ![p].day = Today, ![p].since = n, ![p].spent = @ + cost, ![p].calls = @ - ended]
    BY DEF Appended
  <1> HIDE DEF n
  <1>4. proc' = [proc EXCEPT ![p] = r]
    BY <1>1, <1>3 DEF Proc
  <1>5. /\ r \in Proc /\ r.day = Today /\ r.since = n /\ r.spent = m /\ r.calls = k
        /\ \A f \in {"up", "client", "cached", "sum", "signature", "readAt"} : r[f] = q[f]
    <2> HIDE DEF m, k, q
    <2>1. r \in Proc
      BY <1>1, <1>2 DEF Proc
    <2>2. r.day = Today /\ r.since = n /\ r.spent = m /\ r.calls = k
      BY <1>1 DEF Proc
    <2>3. /\ r.up = q.up /\ r.client = q.client /\ r.cached = q.cached /\ r.sum = q.sum
          /\ r.signature = q.signature /\ r.readAt = q.readAt
      BY <1>1 DEF Proc
    <2> QED BY <2>1, <2>2, <2>3
  <1> HIDE DEF r
  <1>6. proc' \in [Process -> Proc] /\ proc'[p] = r /\ \A x \in Process \ {p} : proc'[x] = proc[x]
    BY <1>1, <1>4, <1>5
  <1> QED BY <1>2, <1>5, <1>6 DEF n

\* The files and processes after each step.
LEMMA StoppedFiles ==
  ASSUME LedgerTypes, NEW p \in Process, NEW graceful \in BOOLEAN, Stop(p, graceful)
  PROVE  /\ file' \in [Day -> File]
         /\ \A d \in Day : /\ file'[d].lines = file[d].lines /\ file'[d].torn = file[d].torn
                           /\ IF graceful /\ proc[p].day = d
                              THEN file'[d].synced = Len(file[d].lines)
                              ELSE file'[d].synced = file[d].synced
  <1> DEFINE day == proc[p].day
  <1>1. file \in [Day -> File]
    BY DEF LedgerTypes
  <1>2. CASE graceful /\ day \in Day
    <2>1. file' = [file EXCEPT ![day] = Synced(@)]
      BY <1>2 DEF Stop
    <2>2. /\ Synced(file[day]) \in File /\ Synced(file[day]).synced = Len(file[day].lines)
          /\ Synced(file[day]).lines = file[day].lines /\ Synced(file[day]).torn = file[day].torn
      <3>1. file[day] \in File
        BY <1>1, <1>2
      <3> HIDE DEF day
      <3> QED BY <3>1 DEF Synced, File
    <2> QED BY <1>1, <1>2, <2>1, <2>2
  <1>3. CASE ~(graceful /\ day \in Day)
    <2>1. file' = file
      BY <1>3 DEF Stop
    <2> QED BY <1>1, <1>3, <2>1
  <1> QED BY <1>2, <1>3

LEMMA SurvivorsAreFiles ==
  ASSUME NEW f \in File, NEW g \in Survivors(f), f.synced <= Len(f.lines)
  PROVE  /\ [lines |-> g.lines, synced |-> Len(g.lines), torn |-> g.torn] \in File
         /\ g.torn => g.lines # <<>>
  <1>1. \A k \in 0..Len(f.lines) : SubSeq(f.lines, 1, k) \in Seq(Int)
    BY DEF File
  <1>2. \A k \in 0..Len(f.lines) : /\ Append(SubSeq(f.lines, 1, k), Torn) \in Seq(Int)
                                   /\ Append(SubSeq(f.lines, 1, k), Torn) # <<>>
    BY <1>1 DEF Torn
  <1>3. f.synced \in Nat /\ Len(f.lines) \in Nat
    BY DEF File
  <1>4. g.lines \in Seq(Int) /\ g.torn \in BOOLEAN /\ (g.torn => g.lines # <<>>)
    <2>1. CASE \E k \in f.synced..Len(f.lines) : g = [lines |-> SubSeq(f.lines, 1, k), torn |-> FALSE]
      <3>1. PICK k \in f.synced..Len(f.lines) : g = [lines |-> SubSeq(f.lines, 1, k), torn |-> FALSE]
        BY <2>1
      <3>2. k \in 0..Len(f.lines)
        BY <1>3
      <3> QED BY <1>1, <3>1, <3>2
    <2>2. CASE \E k \in f.synced..(Len(f.lines) - 1) :
                 g = [lines |-> Append(SubSeq(f.lines, 1, k), Torn), torn |-> TRUE]
      <3>1. PICK k \in f.synced..(Len(f.lines) - 1) :
                 g = [lines |-> Append(SubSeq(f.lines, 1, k), Torn), torn |-> TRUE]
        BY <2>2
      <3>2. k \in 0..Len(f.lines)
        BY <1>3
      <3>3. g.lines = Append(SubSeq(f.lines, 1, k), Torn) /\ g.torn = TRUE
        BY <3>1
      <3> QED BY <1>2, <3>2, <3>3
    <2> QED BY <2>1, <2>2 DEF Survivors
  <1>5. Len(g.lines) \in Nat
    BY <1>4
  <1> QED BY <1>4, <1>5 DEF File

LEMMA CrashedFiles ==
  ASSUME LedgerTypes, HostCrash
  PROVE  /\ file' \in [Day -> File]
         /\ \A d \in Day : /\ file'[d].synced = Len(file'[d].lines)
                           /\ file'[d].torn => file'[d].lines # <<>>
  <1>1. PICK g : /\ \A d \in Day : g[d] \in Survivors(file[d])
                 /\ file' = [d \in Day |-> [lines |-> g[d].lines, synced |-> Len(g[d].lines), torn |-> g[d].torn]]
    BY DEF HostCrash
  <1>2. \A d \in Day : file[d] \in File /\ file[d].synced <= Len(file[d].lines)
    BY DEF LedgerTypes
  <1>3. \A d \in Day : /\ [lines |-> g[d].lines, synced |-> Len(g[d].lines), torn |-> g[d].torn] \in File
                       /\ g[d].torn => g[d].lines # <<>>
    BY <1>1, <1>2, SurvivorsAreFiles
  <1> QED BY <1>1, <1>3

LEMMA CallsHaveClients ==
  ASSUME LedgerTypes, NEW p \in Process, proc[p].calls > 0
  PROVE  1 \in 0..proc[p].calls /\ proc[p].client /\ proc[p].up
  BY LedgerAssumption DEF LedgerTypes, Proc

LEMMA OneTyped ==
  ASSUME LedgerTypes, NEW p \in Process, NEW r \in Proc, r.up, r.calls > 0 => r.client,
         proc' = [proc EXCEPT ![p] = r], UNCHANGED <<now, file, appends, paid, past, faults>>
  PROVE  LedgerTypes'
  BY DEF LedgerTypes

LEMMA TypesKept ==
  ASSUME LedgerTypes, [LedgerNext]_ledgerVars
  PROVE  LedgerTypes'
  <1> USE LedgerAssumption, SpendAssumption
  <1>1. /\ proc \in [Process -> Proc] /\ file \in [Day -> File]
        /\ now \in Nat /\ now <= MaxClock /\ appends \in Nat /\ paid \in Nat
        /\ faults \in [overlap : BOOLEAN, killed : BOOLEAN, hostCrash : BOOLEAN]
    BY DEF LedgerTypes
  <1>2. ASSUME NEW p \in Process, Start(p) PROVE LedgerTypes'
    <2> DEFINE r == [Down EXCEPT !.up = TRUE]
    <2>1. r \in Proc /\ r.up /\ ~(r.calls > 0)
      <3>1. r.calls = 0 /\ ~(0 > 0)
        BY DEF Down
      <3> QED BY <3>1, DownIsProc DEF Proc
    <2>2. proc' = [proc EXCEPT ![p] = r] /\ UNCHANGED <<now, file, appends, paid, past, faults>>
      BY <1>2 DEF Start
    <2> HIDE DEF r
    <2> QED BY <2>1, <2>2, OneTyped
  <1>3. ASSUME NEW p \in Process, Poll(p) PROVE LedgerTypes'
    <2> DEFINE r == Consulted(proc[p])
    <2>1. r \in Proc /\ r.up = proc[p].up /\ r.client = proc[p].client /\ r.calls = proc[p].calls
      BY <1>1, ConsultedIs
    <2>2. proc' = [proc EXCEPT ![p] = r] /\ proc[p].up /\ UNCHANGED <<now, file, appends, paid, past, faults>>
      BY <1>3 DEF Poll
    <2>3. proc[p].calls > 0 => proc[p].client
      BY DEF LedgerTypes
    <2> HIDE DEF r
    <2> QED BY <2>1, <2>2, <2>3, OneTyped
  <1>4. ASSUME NEW p \in Process, BuildClient(p) PROVE LedgerTypes'
    <2> DEFINE c == Consulted(proc[p])
               r == [c EXCEPT !.client = TRUE, !.spent = c.sum]
    <2>1. c \in Proc /\ c.up = proc[p].up
      BY <1>1, ConsultedIs
    <2>2. proc' = [proc EXCEPT ![p] = r] /\ proc[p].up /\ UNCHANGED <<now, file, appends, paid, past, faults>>
      BY <1>4 DEF BuildClient
    <2> HIDE DEF c
    <2>3. r \in Proc /\ r.up /\ r.client
      BY <2>1, <2>2 DEF Proc
    <2> HIDE DEF r
    <2> QED BY <2>2, <2>3, OneTyped
  <1>5. ASSUME NEW p \in Process, NEW cost \in Nat, NEW ended \in 0..proc[p].calls,
               proc[p].client, Recorded(p, cost, ended), UNCHANGED <<now, past>>, paid' \in Nat
        PROVE  LedgerTypes'
    <2>1. Appended(p, cost, ended) /\ appends' = appends + 1
          /\ faults' = [faults EXCEPT !.overlap = @ \/ \E q \in Process \ {p} : proc[q].up]
      BY <1>5 DEF Recorded
    <2>2. \A d \in Day : /\ file'[d].synced <= Len(file'[d].lines)
                         /\ file'[d].torn => file'[d].lines # <<>>
      <3>1. ASSUME NEW d \in Day \ {Today}
            PROVE  file'[d].synced <= Len(file'[d].lines) /\ (file'[d].torn => file'[d].lines # <<>>)
        <4>1. Len(file[d].lines) \in Nat /\ file[d].synced <= Len(file[d].lines)
              /\ (file[d].torn => file[d].lines # <<>>)
          BY <1>1 DEF LedgerTypes, File
        <4> QED BY <2>1, <4>1, AppendedFiles
      <3>2. /\ file'[Today].synced <= Len(file'[Today].lines) /\ ~file'[Today].torn
        <4> DEFINE old == file[Today]
                   new == file'[Today]
        <4>1. /\ new.lines = IF old.torn THEN old.lines ELSE Append(old.lines, cost)
              /\ new.synced = IF Full(proc[p]) THEN Len(new.lines)
                              ELSE IF old.torn THEN Len(old.lines) - 1 ELSE old.synced
              /\ ~new.torn
          BY <2>1, AppendedFiles
        <4>2. old.lines \in Seq(Int) /\ old.synced \in Nat /\ old.synced <= Len(old.lines)
          BY <1>1, Days DEF LedgerTypes, File
        <4> HIDE DEF old, new
        <4>3. Len(Append(old.lines, cost)) = Len(old.lines) + 1 /\ Len(old.lines) \in Nat
          BY <4>2
        <4>4. new.synced <= Len(new.lines) /\ ~new.torn
          BY <4>1, <4>2, <4>3
        <4> QED BY <4>4 DEF new
      <3> QED BY <3>1, <3>2
    <2>3. /\ proc' \in [Process -> Proc]
          /\ \A q \in Process \ {p} : proc'[q] = proc[q]
          /\ proc'[p].up = proc[p].up /\ proc'[p].client = proc[p].client
      BY <1>5, <2>1, AppendedProcs
    <2>4. file' \in [Day -> File]
      BY <2>1, AppendedFiles
    <2>5. \A q \in Process : /\ ~proc'[q].up => proc'[q] = Down
                             /\ proc'[q].client => proc'[q].up
                             /\ proc'[q].calls > 0 => proc'[q].client
      BY <1>5, <2>3 DEF LedgerTypes
    <2>6. faults' \in [overlap : BOOLEAN, killed : BOOLEAN, hostCrash : BOOLEAN]
      BY <1>1, <2>1
    <2> QED BY <1>1, <1>5, <2>1, <2>2, <2>3, <2>4, <2>5, <2>6 DEF LedgerTypes
  <1>6. ASSUME NEW p \in Process, NEW graceful \in BOOLEAN, Stop(p, graceful) PROVE LedgerTypes'
    <2>1. proc' = [proc EXCEPT ![p] = Down] /\ UNCHANGED <<now, appends, paid, past>>
          /\ faults' = [faults EXCEPT !.killed = @ \/ ~graceful]
      BY <1>6 DEF Stop
    <2>2. file' \in [Day -> File]
      BY <1>6, StoppedFiles
    <2>3. \A d \in Day : file'[d].synced <= Len(file'[d].lines) /\ (file'[d].torn => file'[d].lines # <<>>)
      <3> TAKE d \in Day
      <3>1. /\ file'[d].lines = file[d].lines /\ file'[d].torn = file[d].torn
            /\ file'[d].synced = Len(file[d].lines) \/ file'[d].synced = file[d].synced
        BY <1>6, StoppedFiles
      <3>2. Len(file[d].lines) \in Nat /\ file[d].synced <= Len(file[d].lines)
            /\ (file[d].torn => file[d].lines # <<>>)
        BY <1>1 DEF LedgerTypes, File
      <3> QED BY <3>1, <3>2
    <2>4. ~Down.up /\ ~Down.client /\ Down.calls = 0
      BY DEF Down
    <2>5. faults' \in [overlap : BOOLEAN, killed : BOOLEAN, hostCrash : BOOLEAN]
      BY <1>1, <2>1
    <2> QED BY <1>1, <2>1, <2>2, <2>3, <2>4, <2>5, DownIsProc DEF LedgerTypes
  <1>7. ASSUME HostCrash PROVE LedgerTypes'
    <2>1. /\ proc' = [p \in Process |-> Down] /\ UNCHANGED <<now, appends, paid, past>>
          /\ faults' = [faults EXCEPT !.hostCrash = TRUE]
      BY <1>7 DEF HostCrash
    <2>2. ~Down.up /\ ~Down.client /\ Down.calls = 0
      BY DEF Down
    <2>3. file' \in [Day -> File]
      BY <1>7, CrashedFiles
    <2>4. \A d \in Day : file'[d].synced <= Len(file'[d].lines) /\ (file'[d].torn => file'[d].lines # <<>>)
      <3> TAKE d \in Day
      <3>1. file'[d].synced = Len(file'[d].lines) /\ (file'[d].torn => file'[d].lines # <<>>)
        BY <1>7, CrashedFiles
      <3>2. Len(file'[d].lines) \in Nat
        BY <2>3 DEF File
      <3> QED BY <3>1, <3>2
    <2>5. faults' \in [overlap : BOOLEAN, killed : BOOLEAN, hostCrash : BOOLEAN]
      BY <1>1, <2>1
    <2> QED BY <1>1, <2>1, <2>2, <2>3, <2>4, <2>5, DownIsProc DEF LedgerTypes
  <1>8. ASSUME Tick PROVE LedgerTypes'
    <2>1. now' = now + 1 /\ now < MaxClock /\ UNCHANGED <<file, proc, appends, paid, faults>>
          /\ past' = [t \in 1..Ttl |-> IF t = 1 THEN LedgerSum ELSE past[t - 1]]
      BY <1>8 DEF Tick
    <2>2. LedgerSum \in Int
      BY <1>1, Days, LedgerSumIsInt DEF LedgerSum
    <2>3. past' \in [1..Ttl -> Int]
      BY <2>1, <2>2 DEF LedgerTypes
    <2> QED BY <1>1, <2>1, <2>3 DEF LedgerTypes
  <1>9. CASE UNCHANGED ledgerVars
    BY <1>9 DEF ledgerVars, LedgerTypes
  <1>10. ASSUME NEW p \in Process, NEW cost \in Costs, PaidCall(p, cost) PROVE LedgerTypes'
    <2>1. cost \in Nat /\ 1 \in 0..proc[p].calls /\ proc[p].client
      BY <1>10, CallsHaveClients DEF PaidCall
    <2>2. Recorded(p, cost, 1) /\ UNCHANGED <<now, past>> /\ paid' \in Nat
      BY <1>1, <1>10, <2>1 DEF PaidCall
    <2> QED BY <1>5, <2>1, <2>2
  <1>11. ASSUME NEW p \in Process, AttemptFails(p) PROVE LedgerTypes'
    <2>1. 1 \in 0..proc[p].calls /\ proc[p].client
      BY <1>11, CallsHaveClients DEF AttemptFails
    <2> QED BY <1>1, <1>5, <1>11, <2>1 DEF AttemptFails
  <1>12. ASSUME NEW p \in Process, Noted(p) PROVE LedgerTypes'
    <2>1. 0 \in 0..proc[p].calls
      BY <1>1 DEF Proc
    <2> QED BY <1>1, <1>5, <1>12, <2>1 DEF Noted
  <1>13. ASSUME NEW p \in Process, PassGuard(p) PROVE LedgerTypes'
    <2> DEFINE r == [proc[p] EXCEPT !.calls = @ + 1]
    <2>1. /\ proc' = [proc EXCEPT ![p] = r] /\ proc[p].client /\ proc[p].calls < InFlight
          /\ UNCHANGED <<now, file, appends, paid, past, faults>>
      BY <1>1, <1>13 DEF PassGuard
    <2>2. proc[p].up
      BY <2>1 DEF LedgerTypes
    <2>3. r \in Proc /\ r.up /\ r.client
      <3> DEFINE q == proc[p]
      <3>1. q \in Proc /\ q.calls \in 0..InFlight /\ q.up /\ q.client /\ q.calls < InFlight
        BY <1>1, <2>1, <2>2 DEF Proc
      <3> HIDE DEF q
      <3>2. q.calls + 1 \in 0..InFlight
        BY <3>1, LedgerAssumption
      <3> QED BY <3>1, <3>2 DEF Proc, r, q
    <2> HIDE DEF r
    <2> QED BY <2>1, <2>3, OneTyped
  <1> QED BY <1>2, <1>3, <1>4, <1>6, <1>7, <1>8, <1>9, <1>10, <1>11, <1>12, <1>13 DEF LedgerNext

----------------------------------------------------------------------------
(* What is not yet fsynced *)

Bounded(fi, pr) ==
  \A d \in Day : Len(fi[d].lines) - fi[d].synced <= Total(Pending(pr, d), Process)

LEMMA PendingBounds ==
  ASSUME NEW pr \in [Process -> Proc], NEW d
  PROVE  /\ Numeric(Pending(pr, d), Process)
         /\ Total(Pending(pr, d), Process) \in Nat
         /\ \A p \in Process : Pending(pr, d)[p] <= Total(Pending(pr, d), Process)
         /\ MapThenSumSet(LAMBDA p : IF pr[p].day = d THEN pr[p].since ELSE 0, Process)
              = Total(Pending(pr, d), Process)
  <1>1. \A p \in Process : pr[p].since \in Nat
    BY DEF Proc
  <1>2. \A n \in Nat : n \in Int
    OBVIOUS
  <1>3. \A p \in Process : pr[p].since \in Int
    BY <1>1, <1>2
  <1>4. \A p \in Process : Pending(pr, d)[p] \in Nat
    BY <1>1 DEF Pending
  <1>5. Numeric(Pending(pr, d), Process)
    BY <1>2, <1>4 DEF Numeric
  <1>6. IsFiniteSet(Process)
    BY LedgerAssumption
  <1> QED BY <1>3, <1>4, <1>5, <1>6, PendingIs, TotalIsEnough

\* Nothing changes where no count does.
LEMMA PendingStays ==
  ASSUME NEW pr \in [Process -> Proc], NEW qr \in [Process -> Proc], NEW d,
         \A p \in Process : Pending(pr, d)[p] = Pending(qr, d)[p]
  PROVE  Total(Pending(pr, d), Process) = Total(Pending(qr, d), Process)
  BY PendingBounds, TotalAgrees, LedgerAssumption

LEMMA AppendIsCounted ==
  ASSUME LedgerTypes, Bounded(file, proc), NEW p \in Process, NEW cost \in Nat,
         NEW ended \in 0..proc[p].calls, Appended(p, cost, ended)
  PROVE  Bounded(file', proc')
  <1>1. /\ proc \in [Process -> Proc] /\ proc' \in [Process -> Proc] /\ proc[p] \in Proc
        /\ file' \in [Day -> File]
    BY AppendedProcs, AppendedFiles DEF LedgerTypes
  <1>2. \A q \in Process \ {p} : proc'[q] = proc[q]
    BY AppendedProcs
  <1>3. /\ proc'[p].day = Today /\ proc'[p].since = IF Full(proc[p]) THEN 0 ELSE Since(proc[p])
        /\ Since(proc[p]) \in Nat
    BY AppendedProcs
  <1>4. ASSUME NEW d \in Day
        PROVE  /\ Len(file[d].lines) \in Nat /\ file[d].synced \in Nat
               /\ Len(file'[d].lines) \in Nat /\ file'[d].synced \in Nat
               /\ Len(file[d].lines) - file[d].synced <= Total(Pending(proc, d), Process)
               /\ Total(Pending(proc, d), Process) \in Nat /\ Total(Pending(proc', d), Process) \in Nat
    <2>1. Len(file[d].lines) - file[d].synced <= Total(Pending(proc, d), Process)
      BY DEF Bounded
    <2>2. file[d] \in File /\ file'[d] \in File
      BY <1>1 DEF LedgerTypes
    <2>3. Len(file[d].lines) \in Nat /\ file[d].synced \in Nat
      BY <2>2 DEF File
    <2>4. Len(file'[d].lines) \in Nat /\ file'[d].synced \in Nat
      BY <2>2 DEF File
    <2> QED BY <1>1, <2>1, <2>3, <2>4, PendingBounds
  <1>5. ASSUME NEW d \in Day, d # Today
        PROVE  Len(file'[d].lines) - file'[d].synced <= Total(Pending(proc', d), Process)
    <2>1. /\ file'[d].lines = file[d].lines
          /\ file'[d].synced = IF d = proc[p].day THEN Len(file[d].lines) ELSE file[d].synced
      BY <1>5, AppendedFiles
    <2>2. CASE d = proc[p].day
      BY <1>4, <2>1, <2>2
    <2>3. CASE d # proc[p].day
      <3>1. \A q \in Process : Pending(proc, d)[q] = Pending(proc', d)[q]
        BY <1>2, <1>3, <1>5, <2>3 DEF Pending
      <3>2. Total(Pending(proc, d), Process) = Total(Pending(proc', d), Process)
        BY <1>1, <3>1, PendingStays
      <3> QED BY <1>4, <2>1, <2>3, <3>2
    <2> QED BY <2>2, <2>3
  <1>6. Len(file'[Today].lines) - file'[Today].synced <= Total(Pending(proc', Today), Process)
    <2> DEFINE old == file[Today]
               new == file'[Today]
    <2>1. Today \in Day
      BY Days
    <2>2. /\ new.lines = IF old.torn THEN old.lines ELSE Append(old.lines, cost)
          /\ new.synced = IF Full(proc[p]) THEN Len(new.lines)
                          ELSE IF old.torn THEN Len(old.lines) - 1 ELSE old.synced
      BY AppendedFiles
    <2>3. CASE Full(proc[p])
      <3>1. new.synced = Len(new.lines)
        BY <2>2, <2>3
      <3> QED BY <1>4, <2>1, <3>1
    <2>4. CASE ~Full(proc[p])
      <3>1. /\ Pending(proc', Today)[p] = Since(proc[p])
            /\ Since(proc[p]) = Pending(proc, Today)[p] + 1
            /\ Pending(proc, Today)[p] \in Nat
        <4>1. proc[p].since \in Nat
          BY <1>1 DEF Proc
        <4> QED BY <1>3, <2>4, <4>1 DEF Pending, Since
      <3>2. CASE old.torn
        <4>1. Len(new.lines) - new.synced = 1
          <5>1. new.lines = old.lines /\ new.synced = Len(old.lines) - 1
            BY <2>2, <2>4, <3>2
          <5> QED BY <1>4, <2>1, <5>1
        <4>2. Since(proc[p]) <= Total(Pending(proc', Today), Process)
          BY <1>1, <3>1, PendingBounds
        <4> QED BY <1>3, <1>4, <2>1, <3>1, <4>1, <4>2
      <3>3. CASE ~old.torn
        <4>1. Len(new.lines) = Len(old.lines) + 1 /\ new.synced = old.synced
          <5>1. new.lines = Append(old.lines, cost) /\ new.synced = old.synced
            BY <2>2, <2>4, <3>3
          <5>2. old.lines \in Seq(Int)
            BY <2>1 DEF LedgerTypes, File
          <5> HIDE DEF old
          <5>3. Len(Append(old.lines, cost)) = Len(old.lines) + 1
            BY <5>2
          <5> QED BY <5>1, <5>3
        <4>2. \A q \in Process \ {p} : Pending(proc, Today)[q] = Pending(proc', Today)[q]
          BY <1>2 DEF Pending
        <4>3. Total(Pending(proc', Today), Process)
                = Total(Pending(proc, Today), Process) - Pending(proc, Today)[p] + Pending(proc', Today)[p]
          <5> DEFINE v == Pending(proc, Today)
                     w == Pending(proc', Today)
          <5>1. Numeric(v, Process) /\ Numeric(w, Process) /\ \A q \in Process \ {p} : v[q] = w[q]
            BY <1>1, <4>2, PendingBounds
          <5> HIDE DEF v, w
          <5>2. Total(w, Process) = Total(v, Process) - v[p] + w[p]
            BY <5>1, TotalChanges, LedgerAssumption
          <5> QED BY <5>2 DEF v, w
        <4> DEFINE x == Pending(proc, Today)[p]
        <4>4. Total(Pending(proc', Today), Process) = Total(Pending(proc, Today), Process) - x + (x + 1)
              /\ x \in Nat
          BY <3>1, <4>3
        <4>5. /\ Total(Pending(proc, Today), Process) \in Nat
              /\ Len(old.lines) \in Nat /\ old.synced \in Nat
              /\ Len(old.lines) - old.synced <= Total(Pending(proc, Today), Process)
          BY <1>4, <2>1
        <4> HIDE DEF x, old, new
        <4>6. Total(Pending(proc', Today), Process) = Total(Pending(proc, Today), Process) + 1
          BY <4>4, <4>5
        <4> QED BY <4>1, <4>5, <4>6 DEF new
      <3> QED BY <3>2, <3>3
    <2> QED BY <2>3, <2>4
  <1> QED BY <1>5, <1>6 DEF Bounded

LEMMA BoundedKept ==
  ASSUME LedgerTypes, ~faults.killed => Bounded(file, proc), [LedgerNext]_ledgerVars
  PROVE  ~faults'.killed => Bounded(file', proc')
  <1> SUFFICES ASSUME ~faults'.killed PROVE Bounded(file', proc')
    OBVIOUS
  <1> USE LedgerAssumption, SpendAssumption
  <1>1. /\ proc \in [Process -> Proc] /\ proc' \in [Process -> Proc]
        /\ file \in [Day -> File] /\ file' \in [Day -> File]
        /\ faults \in [overlap : BOOLEAN, killed : BOOLEAN, hostCrash : BOOLEAN]
    BY TypesKept DEF LedgerTypes
  \* A step that leaves the files and the counts alone.
  <1>2. ASSUME Bounded(file, proc), file' = file,
               \A p \in Process : proc'[p].day = proc[p].day /\ proc'[p].since = proc[p].since
        PROVE  Bounded(file', proc')
    <2>1. ASSUME NEW d \in Day PROVE Total(Pending(proc, d), Process) = Total(Pending(proc', d), Process)
      <3>1. \A p \in Process : Pending(proc, d)[p] = Pending(proc', d)[p]
        BY <1>2 DEF Pending
      <3> QED BY <1>1, <3>1, PendingStays
    <2> QED BY <1>2, <2>1 DEF Bounded
  <1>3. ASSUME NEW p \in Process, Start(p) PROVE Bounded(file', proc')
    <2>1. /\ proc' = [proc EXCEPT ![p] = [Down EXCEPT !.up = TRUE]] /\ file' = file /\ faults' = faults
          /\ proc[p] = Down
      BY <1>3 DEF Start, LedgerTypes
    <2>2. [Down EXCEPT !.up = TRUE].day = Down.day /\ [Down EXCEPT !.up = TRUE].since = Down.since
      BY DEF Down
    <2> QED BY <1>1, <1>2, <2>1, <2>2
  <1>4. ASSUME NEW p \in Process, Poll(p) PROVE Bounded(file', proc')
    <2> DEFINE r == Consulted(proc[p])
    <2>1. proc' = [proc EXCEPT ![p] = r] /\ file' = file /\ faults' = faults
      BY <1>4 DEF Poll
    <2>2. r.day = proc[p].day /\ r.since = proc[p].since
      BY <1>1, ConsultedIs
    <2> HIDE DEF r
    <2> QED BY <1>1, <1>2, <2>1, <2>2
  <1>5. ASSUME NEW p \in Process, BuildClient(p) PROVE Bounded(file', proc')
    <2> DEFINE c == Consulted(proc[p])
               r == [c EXCEPT !.client = TRUE, !.spent = c.sum]
    <2>1. proc' = [proc EXCEPT ![p] = r] /\ file' = file /\ faults' = faults
      BY <1>5 DEF BuildClient
    <2>2. c \in Proc /\ c.day = proc[p].day /\ c.since = proc[p].since
      BY <1>1, ConsultedIs
    <2> HIDE DEF c
    <2>3. r.day = proc[p].day /\ r.since = proc[p].since
      BY <2>2 DEF Proc
    <2> HIDE DEF r
    <2> QED BY <1>1, <1>2, <2>1, <2>3
  <1>6. ASSUME NEW p \in Process, NEW cost \in Nat, NEW ended \in 0..proc[p].calls, Recorded(p, cost, ended)
        PROVE  Bounded(file', proc')
    <2>1. Appended(p, cost, ended) /\ faults'.killed = faults.killed
      BY <1>1, <1>6 DEF Recorded
    <2> QED BY <2>1, AppendIsCounted
  <1>7. ASSUME NEW p \in Process, NEW graceful \in BOOLEAN, Stop(p, graceful) PROVE Bounded(file', proc')
    <2>1. proc' = [proc EXCEPT ![p] = Down] /\ faults' = [faults EXCEPT !.killed = @ \/ ~graceful]
      BY <1>7 DEF Stop
    <2>2. graceful /\ Bounded(file, proc)
      BY <1>1, <2>1
    <2> SUFFICES ASSUME NEW d \in Day
                 PROVE  Len(file'[d].lines) - file'[d].synced <= Total(Pending(proc', d), Process)
      BY DEF Bounded
    <2>3. /\ file'[d].lines = file[d].lines
          /\ IF proc[p].day = d THEN file'[d].synced = Len(file[d].lines)
             ELSE file'[d].synced = file[d].synced
      BY <1>7, <2>2, StoppedFiles
    <2>4. Len(file[d].lines) - file[d].synced <= Total(Pending(proc, d), Process)
      BY <2>2 DEF Bounded
    <2>5. CASE proc[p].day = d
      <3>1. Total(Pending(proc', d), Process) \in Nat
        BY <1>1, PendingBounds
      <3>2. Len(file[d].lines) \in Nat
        BY <1>1 DEF File
      <3> QED BY <2>3, <2>5, <3>1, <3>2
    <2>6. CASE proc[p].day # d
      <3>1. \A q \in Process : Pending(proc, d)[q] = Pending(proc', d)[q]
        <4>1. Down.since = 0
          BY DEF Down
        <4> QED BY <1>1, <2>1, <2>6, <4>1 DEF Pending
      <3>2. Total(Pending(proc, d), Process) = Total(Pending(proc', d), Process)
        BY <1>1, <3>1, PendingStays
      <3> QED BY <2>3, <2>4, <2>6, <3>2
    <2> QED BY <2>5, <2>6
  <1>8. ASSUME HostCrash PROVE Bounded(file', proc')
    <2> SUFFICES ASSUME NEW d \in Day
                 PROVE  Len(file'[d].lines) - file'[d].synced <= Total(Pending(proc', d), Process)
      BY DEF Bounded
    <2>1. file'[d].synced = Len(file'[d].lines)
      BY <1>8, CrashedFiles
    <2>2. Len(file'[d].lines) \in Nat
      BY <1>1 DEF File
    <2>3. Total(Pending(proc', d), Process) \in Nat
      BY <1>1, PendingBounds
    <2> QED BY <2>1, <2>2, <2>3
  <1>9. CASE Tick \/ UNCHANGED ledgerVars
    <2>1. file' = file /\ proc' = proc /\ faults' = faults
      BY <1>9 DEF Tick, ledgerVars
    <2> QED BY <1>2, <2>1
  <1>10. ASSUME NEW p \in Process, NEW cost \in Costs, PaidCall(p, cost) PROVE Bounded(file', proc')
    <2>1. cost \in Nat
      BY ONLY SpendAssumption, cost \in Costs
    <2>2. Recorded(p, cost, 1) /\ proc[p].calls > 0
      BY ONLY <1>10 DEF PaidCall
    <2> QED BY <1>6, <2>1, <2>2, CallsHaveClients
  <1>11. ASSUME NEW p \in Process, AttemptFails(p) PROVE Bounded(file', proc')
    BY <1>6, <1>11, CallsHaveClients DEF AttemptFails
  <1>12. ASSUME NEW p \in Process, Noted(p) PROVE Bounded(file', proc')
    <2>1. 0 \in 0..proc[p].calls
      BY <1>1 DEF Proc
    <2> QED BY <1>6, <1>12, <2>1 DEF Noted
  <1>13. ASSUME NEW p \in Process, PassGuard(p) PROVE Bounded(file', proc')
    <2>1. /\ proc' = [proc EXCEPT ![p].calls = @ + 1] /\ file' = file /\ faults' = faults
      BY <1>13 DEF PassGuard
    <2>2. \A q \in Process : proc'[q].day = proc[q].day /\ proc'[q].since = proc[q].since
      BY <1>1, <2>1 DEF Proc
    <2> QED BY <1>1, <1>2, <2>1, <2>2
  <1> QED BY <1>3, <1>4, <1>5, <1>7, <1>8, <1>9, <1>10, <1>11, <1>12, <1>13 DEF LedgerNext

LEMMA LedgerStarts == LedgerInit => LedgerTypes
  <1> SUFFICES ASSUME LedgerInit PROVE LedgerTypes
    OBVIOUS
  <1>1. [lines |-> <<>>, synced |-> 0, torn |-> FALSE] \in File
    BY DEF File
  <1>2. ~Down.up /\ ~Down.client /\ Down.calls = 0
    BY DEF Down
  <1> QED BY <1>1, <1>2, DownIsProc, LedgerAssumption DEF LedgerInit, LedgerTypes

LEMMA LedgerTyped == LedgerSpec => []LedgerTypes
  BY LedgerStarts, TypesKept, PTL DEF LedgerSpec

\* The bound on what the host could lose of a file (Ledger.append, ensureFd and
\* the handlers of exit and SIGINT), for any number of processes.
THEOREM LossIsBounded == LedgerSpec => []UnsyncedBounded
  <1> DEFINE Safe == ~faults.killed => Bounded(file, proc)
  <1>1. LedgerInit => Safe
    <2> SUFFICES ASSUME LedgerInit PROVE Bounded(file, proc)
      OBVIOUS
    <2>1. \A d \in Day : Len(file[d].lines) - file[d].synced = 0
      BY DEF LedgerInit
    <2>2. proc \in [Process -> Proc]
      BY LedgerStarts DEF LedgerTypes
    <2>3. \A d \in Day : Total(Pending(proc, d), Process) \in Nat
      BY <2>2, PendingBounds
    <2> QED BY <2>1, <2>3 DEF Bounded
  <1>2. LedgerTypes /\ Safe /\ [LedgerNext]_ledgerVars => Safe'
    BY BoundedKept
  <1>3. LedgerTypes /\ Safe => UnsyncedBounded
    BY PendingBounds DEF LedgerTypes, Bounded, UnsyncedBounded
  <1> QED BY <1>1, <1>2, <1>3, LedgerTyped, PTL DEF LedgerSpec

----------------------------------------------------------------------------
(* What the files say was paid *)

\* Until the host goes down, the files hold all that was paid; a cache holds what
\* was paid when it was read, or since nothing was appended.
Truthful ==
  /\ \A d \in Day : file[d].lines \in Seq(Nat) /\ ~file[d].torn
  /\ Total(DaySums(file), Day) = paid
  /\ \A t \in 1..Ttl : past[t] <= paid
Remembers(q) ==
  q.cached => /\ q.readAt <= now /\ q.signature <= appends
              /\ q.signature = appends => q.sum = paid
              /\ \A t \in 1..Ttl : now - q.readAt < t => q.sum >= past[t]
Truth == ~faults.hostCrash => Truthful /\ \A p \in Process : Remembers(proc[p])

\* While one process at a time is up: the running spend of its client is what was
\* paid, and so is what it will be seeded with; and the calls it let through may
\* all be answered at the highest cost.
Most == Cap + InFlight * MaxCost
Seeded(q) ==
  /\ q.client => q.spent = paid
  /\ q.cached /\ ~q.client => q.sum = paid
  /\ paid + q.calls * MaxCost < Most
Capped ==
  ~faults.overlap /\ ~faults.hostCrash => paid < Most /\ \A p \in Process : Seeded(proc[p])

LEMMA CostsOfCalls ==
  /\ Most \in Nat
  /\ \A n \in Nat : /\ n * MaxCost \in Nat
                    /\ n <= InFlight => n * MaxCost <= InFlight * MaxCost
                    /\ n > 0 => n * MaxCost = (n - 1) * MaxCost + MaxCost
  <1>1. MaxCost \in Nat /\ InFlight \in Nat /\ Cap \in Nat
    BY LedgerAssumption, SpendAssumption
  <1>2. ASSUME NEW n \in Nat PROVE n * MaxCost \in Nat
    BY <1>1
  <1>3. ASSUME NEW n \in Nat, n <= InFlight PROVE n * MaxCost <= InFlight * MaxCost
    <2>1. PICK m \in Nat : InFlight = n + m
      <3>1. InFlight - n \in Nat /\ InFlight = n + (InFlight - n)
        BY <1>1, <1>3
      <3> QED BY <3>1
    <2>2. InFlight * MaxCost = n * MaxCost + m * MaxCost
      BY <1>1, <2>1
    <2> QED BY <1>2, <2>2
  <1>4. ASSUME NEW n \in Nat, n > 0 PROVE n * MaxCost = (n - 1) * MaxCost + MaxCost
    <2>1. PICK m \in Nat : n = m + 1
      <3>1. n - 1 \in Nat /\ n = (n - 1) + 1
        BY <1>4
      <3> QED BY <3>1
    <2>2. n * MaxCost = m * MaxCost + MaxCost /\ n - 1 = m
      BY <1>1, <2>1
    <2> QED BY <2>2
  <1>5. Most \in Nat
    BY <1>1, <1>2 DEF Most
  <1> QED BY <1>2, <1>3, <1>4, <1>5

LEMMA NoCalls == paid < Most /\ paid \in Nat => Seeded(Down)
  BY SpendAssumption DEF Seeded, Down

LEMMA SumStays ==
  ASSUME IsFiniteSet(Day), NEW fi \in [Day -> File], NEW gi \in [Day -> File],
         \A d \in Day : gi[d].lines = fi[d].lines
  PROVE  Total(DaySums(gi), Day) = Total(DaySums(fi), Day)
  <1>1. Numeric(DaySums(gi), Day) /\ \A d \in Day : DaySums(gi)[d] = DaySums(fi)[d]
    BY LedgerSumIsInt DEF DaySums
  <1> QED BY <1>1, TotalAgrees

LEMMA LedgerSums ==
  ASSUME LedgerTypes
  PROVE  LedgerSum = Total(DaySums(file), Day) /\ LedgerSum \in Int
  BY Days, LedgerSumIsInt DEF LedgerSum, LedgerTypes

\* An append adds its cost to the sum.
LEMMA SumGrows ==
  ASSUME LedgerTypes, \A d \in Day : file[d].lines \in Seq(Nat) /\ ~file[d].torn,
         NEW p \in Process, NEW cost \in Nat, NEW ended, Appended(p, cost, ended)
  PROVE  /\ \A d \in Day : file'[d].lines \in Seq(Nat) /\ ~file'[d].torn
         /\ Total(DaySums(file'), Day) = Total(DaySums(file), Day) + cost
  <1> DEFINE v == DaySums(file)
             w == DaySums(file')
  <1>1. /\ IsFiniteSet(Day) /\ Today \in Day /\ file \in [Day -> File] /\ file' \in [Day -> File]
    BY Days, AppendedFiles DEF LedgerTypes
  <1>2. /\ file'[Today].lines = Append(file[Today].lines, cost) /\ ~file'[Today].torn
        /\ file[Today].lines \in Seq(Nat)
    BY <1>1, AppendedFiles
  <1>3. \A d \in Day \ {Today} : file'[d].lines = file[d].lines /\ file'[d].torn = file[d].torn
    BY AppendedFiles
  <1>4. \A d \in Day : file'[d].lines \in Seq(Nat) /\ ~file'[d].torn
    <2>1. Append(file[Today].lines, cost) \in Seq(Nat)
      BY <1>2
    <2> QED BY <1>2, <1>3, <2>1
  <1>5. Numeric(v, Day) /\ Numeric(w, Day)
    BY <1>1, LedgerSumIsInt
  <1>6. \A d \in Day \ {Today} : v[d] = w[d]
    BY <1>3 DEF DaySums
  <1>7. w[Today] = v[Today] + cost /\ v[Today] \in Nat
    <2>1. w[Today] = LineSum(file'[Today].lines) /\ v[Today] = LineSum(file[Today].lines)
      BY <1>1 DEF DaySums
    <2> QED BY <1>2, <2>1, LineSumGrows
  <1> HIDE DEF v, w
  <1>8. Total(w, Day) = Total(v, Day) - v[Today] + w[Today] /\ Total(v, Day) \in Int
    <2>1. IsFiniteSet(Day) /\ Today \in Day
      BY <1>1
    <2> QED BY ONLY <2>1, <1>5, <1>6, TotalChanges
  <1>9. Total(w, Day) = Total(v, Day) + cost
    BY <1>7, <1>8
  <1> QED BY <1>4, <1>9 DEF v, w

\* A consultation remembers the truth, and shows no less than what was paid one
\* TTL ago.
LEMMA ConsultedIsTrue ==
  ASSUME LedgerTypes, Truthful, NEW p \in Process, Remembers(proc[p])
  PROVE  /\ Remembers(Consulted(proc[p]))
         /\ Consulted(proc[p]).sum >= past[Ttl]
         /\ (proc[p].cached => proc[p].sum = paid) => Consulted(proc[p]).sum = paid
  <1> DEFINE q == proc[p]
             c == Consulted(q)
  <1>1. q \in Proc /\ now \in Nat /\ appends \in Nat /\ paid \in Nat /\ past \in [1..Ttl -> Int]
    BY DEF LedgerTypes
  <1>2. Ttl \in 1..Ttl /\ Ttl \in Nat
    BY LedgerAssumption
  <1>3. \A t \in 1..Ttl : past[t] <= paid /\ past[t] \in Int
    BY <1>1 DEF Truthful
  <1>4. CASE q.cached /\ now - q.readAt < Ttl /\ c = q
    <2>1. Remembers(q) /\ q.sum >= past[Ttl]
      BY <1>2, <1>4 DEF Remembers
    <2> QED BY <1>4, <2>1
  <1>5. CASE /\ q.cached /\ q.signature = appends
             /\ c.sum = q.sum /\ c.signature = appends /\ c.readAt = now
    <2>1. c.sum = paid
      BY <1>5 DEF Remembers
    <2> HIDE DEF q, c
    <2>2. Remembers(c) /\ c.sum >= past[Ttl]
      BY <1>1, <1>2, <1>3, <1>5, <2>1 DEF Remembers
    <2> QED BY <2>1, <2>2 DEF q, c
  <1>6. CASE c.sum = LedgerSum /\ c.signature = appends /\ c.readAt = now
    <2>1. c.sum = paid
      BY <1>6, LedgerSums DEF Truthful
    <2> HIDE DEF q, c
    <2>2. Remembers(c) /\ c.sum >= past[Ttl]
      BY <1>1, <1>2, <1>3, <1>6, <2>1 DEF Remembers
    <2> QED BY <2>1, <2>2 DEF q, c
  <1> QED BY <1>1, <1>4, <1>5, <1>6, ConsultedIs

\* What is remembered of a process that is new, or has only its client changed.
LEMMA RemembersCache ==
  ASSUME NEW q, NEW r, q.cached = r.cached, q.readAt = r.readAt, q.signature = r.signature, q.sum = r.sum,
         Remembers(q)
  PROVE  Remembers(r)
  BY DEF Remembers

\* One process changes; the clock, the files and what was paid do not.
LEMMA OneRemembers ==
  ASSUME LedgerTypes, Truth, NEW p \in Process, NEW r \in Proc,
         ~faults.hostCrash => Remembers(r),
         proc' = [proc EXCEPT ![p] = r],
         UNCHANGED <<now, file, appends, paid, past, faults>>
  PROVE  Truth'
  <1> SUFFICES ASSUME ~faults.hostCrash PROVE Truthful' /\ \A q \in Process : (Remembers(proc[q]))'
    BY DEF Truth
  <1>1. Truthful'
    BY DEF Truth, Truthful
  <1>2. ASSUME NEW q \in Process PROVE (Remembers(proc[q]))'
    <2>0. Remembers(r) /\ Remembers(proc[q])
      BY DEF Truth
    <2>1. (q # p /\ proc'[q] = proc[q]) \/ (q = p /\ proc'[q] = r)
      BY DEF LedgerTypes
    <2> QED BY <2>0, <2>1 DEF Remembers
  <1> QED BY <1>1, <1>2

LEMMA TruthKept ==
  ASSUME LedgerTypes, Truth, [LedgerNext]_ledgerVars
  PROVE  Truth'
  <1> USE LedgerAssumption, SpendAssumption
  <1>1. /\ proc \in [Process -> Proc] /\ file \in [Day -> File]
        /\ now \in Nat /\ appends \in Nat /\ paid \in Nat /\ past \in [1..Ttl -> Int]
        /\ faults \in [overlap : BOOLEAN, killed : BOOLEAN, hostCrash : BOOLEAN]
    BY DEF LedgerTypes
  <1>2. ASSUME NEW p \in Process, Start(p) PROVE Truth'
    <2> DEFINE r == [Down EXCEPT !.up = TRUE]
    <2>1. r \in Proc
      BY DownIsProc DEF Proc
    <2>2. Remembers(r)
      BY DEF Remembers, Down
    <2>3. proc' = [proc EXCEPT ![p] = r] /\ UNCHANGED <<now, file, appends, paid, past, faults>>
      BY <1>2 DEF Start
    <2> HIDE DEF r
    <2> QED BY <2>1, <2>2, <2>3, OneRemembers
  <1>3. ASSUME NEW p \in Process, Poll(p) PROVE Truth'
    <2> DEFINE r == Consulted(proc[p])
    <2>1. r \in Proc
      BY <1>1, ConsultedIs
    <2>2. ~faults.hostCrash => Remembers(r)
      BY ConsultedIsTrue DEF Truth
    <2>3. proc' = [proc EXCEPT ![p] = r] /\ UNCHANGED <<now, file, appends, paid, past, faults>>
      BY <1>3 DEF Poll
    <2> HIDE DEF r
    <2> QED BY <2>1, <2>2, <2>3, OneRemembers
  <1>4. ASSUME NEW p \in Process, BuildClient(p) PROVE Truth'
    <2> DEFINE c == Consulted(proc[p])
               r == [c EXCEPT !.client = TRUE, !.spent = c.sum]
    <2>1. c \in Proc
      BY <1>1, ConsultedIs
    <2>2. ~faults.hostCrash => Remembers(c)
      BY ConsultedIsTrue DEF Truth
    <2>3. proc' = [proc EXCEPT ![p] = r] /\ UNCHANGED <<now, file, appends, paid, past, faults>>
      BY <1>4 DEF BuildClient
    <2> HIDE DEF c
    <2>4. r \in Proc
      BY <2>1 DEF Proc
    <2>5. c.cached = r.cached /\ c.readAt = r.readAt /\ c.signature = r.signature /\ c.sum = r.sum
      BY <2>1 DEF Proc
    <2> HIDE DEF r
    <2>6. ~faults.hostCrash => Remembers(r)
      BY <2>2, <2>5, RemembersCache
    <2> QED BY <2>3, <2>4, <2>6, OneRemembers
  <1>5. ASSUME NEW p \in Process, NEW cost \in Nat, NEW ended \in 0..proc[p].calls,
               Recorded(p, cost, ended), paid' = paid + cost, UNCHANGED <<now, past>>
        PROVE  Truth'
    <2> SUFFICES ASSUME ~faults'.hostCrash PROVE Truthful' /\ \A q \in Process : (Remembers(proc[q]))'
      BY DEF Truth
    <2>1. Appended(p, cost, ended) /\ appends' = appends + 1 /\ faults'.hostCrash = faults.hostCrash
      BY <1>1, <1>5 DEF Recorded
    <2>2. Truthful /\ \A q \in Process : Remembers(proc[q])
      BY <2>1 DEF Truth
    <2>3. /\ \A d \in Day : file'[d].lines \in Seq(Nat) /\ ~file'[d].torn
          /\ Total(DaySums(file'), Day) = paid'
      BY <1>5, <2>1, <2>2, SumGrows DEF Truthful
    <2>4. \A t \in 1..Ttl : past'[t] <= paid'
      BY <1>1, <1>5, <2>2 DEF Truthful
    <2>5. ASSUME NEW q \in Process PROVE (Remembers(proc[q]))'
      <3>1. /\ proc'[q].cached = proc[q].cached /\ proc'[q].sum = proc[q].sum
            /\ proc'[q].signature = proc[q].signature /\ proc'[q].readAt = proc[q].readAt
        BY <2>1, AppendedProcs
      <3>2. Remembers(proc[q]) /\ proc[q].signature \in Nat
        BY <1>1, <2>2 DEF Proc
      <3> QED BY <1>1, <1>5, <2>1, <3>1, <3>2 DEF Remembers
    <2> QED BY <2>3, <2>4, <2>5 DEF Truthful
  <1>6. ASSUME NEW p \in Process, NEW graceful \in BOOLEAN, Stop(p, graceful) PROVE Truth'
    <2> SUFFICES ASSUME ~faults'.hostCrash PROVE Truthful' /\ \A q \in Process : (Remembers(proc[q]))'
      BY DEF Truth
    <2>1. /\ proc' = [proc EXCEPT ![p] = Down] /\ UNCHANGED <<now, appends, paid, past>>
          /\ faults'.hostCrash = faults.hostCrash
      BY <1>1, <1>6 DEF Stop
    <2>2. Truthful /\ \A q \in Process : Remembers(proc[q])
      BY <2>1 DEF Truth
    <2>3. /\ file' \in [Day -> File]
          /\ \A d \in Day : file'[d].lines = file[d].lines /\ file'[d].torn = file[d].torn
      BY <1>6, StoppedFiles
    <2>4. Total(DaySums(file'), Day) = paid
      BY <1>1, <2>2, <2>3, SumStays, Days DEF Truthful
    <2>5. Truthful'
      BY <2>1, <2>2, <2>3, <2>4 DEF Truthful
    <2>6. ASSUME NEW q \in Process PROVE (Remembers(proc[q]))'
      <3>1. ~Down.cached
        BY DEF Down
      <3>2. proc'[q] = proc[q] \/ ~proc'[q].cached
        BY <1>1, <2>1, <3>1
      <3> QED BY <2>1, <2>2, <3>2 DEF Remembers
    <2> QED BY <2>5, <2>6
  <1>7. ASSUME HostCrash PROVE Truth'
    BY <1>1, <1>7 DEF HostCrash, Truth
  <1>8. ASSUME Tick PROVE Truth'
    <2> SUFFICES ASSUME ~faults'.hostCrash PROVE Truthful' /\ \A q \in Process : (Remembers(proc[q]))'
      BY DEF Truth
    <2>1. now' = now + 1 /\ UNCHANGED <<file, proc, appends, paid, faults>>
          /\ past' = [t \in 1..Ttl |-> IF t = 1 THEN LedgerSum ELSE past[t - 1]]
      BY <1>8 DEF Tick
    <2>2. Truthful /\ (\A q \in Process : Remembers(proc[q])) /\ LedgerSum = paid
      BY <2>1, LedgerSums DEF Truth, Truthful
    <2>3. \A t \in 1..Ttl : t # 1 => t - 1 \in 1..Ttl
      OBVIOUS
    <2>4. \A t \in 1..Ttl : past'[t] = IF t = 1 THEN paid ELSE past[t - 1]
      BY <2>1, <2>2
    <2>5. Truthful'
      BY <1>1, <2>1, <2>2, <2>3, <2>4 DEF Truthful
    <2>6. ASSUME NEW q \in Process PROVE (Remembers(proc[q]))'
      <3> DEFINE r == proc[q]
      <3>1. Remembers(r) /\ r.readAt \in Nat /\ proc'[q] = r
        BY <1>1, <2>1, <2>2 DEF Proc
      <3> HIDE DEF r
      <3>2. ASSUME r.cached PROVE /\ r.readAt <= now' /\ r.signature <= appends'
                                  /\ r.signature = appends' => r.sum = paid'
                                  /\ \A t \in 1..Ttl : now' - r.readAt < t => r.sum >= past'[t]
        <4>1. /\ r.readAt <= now /\ r.signature <= appends
              /\ r.signature = appends => r.sum = paid
              /\ \A t \in 1..Ttl : now - r.readAt < t => r.sum >= past[t]
          BY <3>1, <3>2 DEF Remembers
        <4>2. ASSUME NEW t \in 1..Ttl, now' - r.readAt < t PROVE r.sum >= past'[t]
          <5>1. t # 1 /\ now - r.readAt < t - 1
            BY <1>1, <2>1, <3>1, <4>1, <4>2
          <5>2. t - 1 \in 1..Ttl /\ past'[t] = past[t - 1]
            BY <2>3, <2>4, <5>1
          <5> QED BY <4>1, <5>1, <5>2
        <4> QED BY <1>1, <2>1, <3>1, <4>1, <4>2
      <3> QED BY <3>1, <3>2 DEF Remembers
    <2> QED BY <2>5, <2>6
  <1>9. CASE UNCHANGED ledgerVars
    BY <1>9 DEF ledgerVars, Truth, Truthful, Remembers
  <1>10. ASSUME NEW p \in Process, NEW cost \in Costs, PaidCall(p, cost) PROVE Truth'
    <2>1. cost \in Nat /\ Recorded(p, cost, 1) /\ paid' = paid + cost /\ UNCHANGED <<now, past>>
          /\ 1 \in 0..proc[p].calls
      <3>1. cost \in Nat
        BY ONLY SpendAssumption, cost \in Costs
      <3>2. proc[p].calls > 0 /\ Recorded(p, cost, 1) /\ paid' = paid + cost /\ UNCHANGED <<now, past>>
        BY ONLY <1>10 DEF PaidCall
      <3> QED BY <3>1, <3>2, CallsHaveClients
    <2> QED BY <1>5, <2>1
  <1>11. ASSUME NEW p \in Process, AttemptFails(p) PROVE Truth'
    <2>1. Recorded(p, 0, 1) /\ paid' = paid + 0 /\ UNCHANGED <<now, past>> /\ 1 \in 0..proc[p].calls
      BY <1>1, <1>11, CallsHaveClients DEF AttemptFails
    <2> QED BY <1>5, <2>1
  <1>12. ASSUME NEW p \in Process, Noted(p) PROVE Truth'
    <2>1. Recorded(p, 0, 0) /\ paid' = paid + 0 /\ UNCHANGED <<now, past>> /\ 0 \in 0..proc[p].calls
      BY <1>1, <1>12 DEF Noted, Proc
    <2> QED BY <1>5, <2>1
  <1>13. ASSUME NEW p \in Process, PassGuard(p) PROVE Truth'
    <2> DEFINE q == proc[p]
               r == [q EXCEPT !.calls = @ + 1]
    <2>1. /\ proc' = [proc EXCEPT ![p] = r] /\ UNCHANGED <<now, file, appends, paid, past, faults>>
          /\ q.calls < InFlight /\ q \in Proc
      BY <1>1, <1>13 DEF PassGuard
    <2>2. ~faults.hostCrash => Remembers(q)
      BY DEF Truth
    <2> HIDE DEF q
    <2>3. r \in Proc
      <3>1. q.calls + 1 \in 0..InFlight
        BY <2>1 DEF Proc
      <3> QED BY <2>1, <3>1 DEF Proc
    <2>4. q.cached = r.cached /\ q.readAt = r.readAt /\ q.signature = r.signature /\ q.sum = r.sum
      BY <2>1 DEF Proc
    <2> HIDE DEF r
    <2>5. ~faults.hostCrash => Remembers(r)
      BY <2>2, <2>4, RemembersCache
    <2> QED BY <2>1, <2>3, <2>5, OneRemembers
  <1> QED BY <1>2, <1>3, <1>4, <1>6, <1>7, <1>8, <1>9, <1>10, <1>11, <1>12, <1>13 DEF LedgerNext

LEMMA TruthStarts == LedgerInit => Truth
  <1> SUFFICES ASSUME LedgerInit PROVE Truthful /\ \A p \in Process : Remembers(proc[p])
    BY DEF Truth
  <1>1. LedgerTypes
    BY LedgerStarts
  <1>2. \A d \in Day : file[d].lines = <<>> /\ ~file[d].torn
    BY DEF LedgerInit
  <1>3. \A d \in Day : file[d].lines \in Seq(Nat) /\ ~file[d].torn
    <2>1. <<>> \in Seq(Nat)
      OBVIOUS
    <2> QED BY <1>2, <2>1
  <1>4. Total(DaySums(file), Day) = 0
    <2> DEFINE v == DaySums(file)
    <2>1. IsFiniteSet(Day) /\ Numeric(v, Day)
      BY <1>1, Days, LedgerSumIsInt DEF LedgerTypes
    <2>2. \A d \in Day : v[d] = 0
      BY <1>2, <1>3, LineSumGrows DEF DaySums
    <2> HIDE DEF v
    <2>3. Total(v, Day) = 0
      BY <2>1, <2>2, ZeroTotal
    <2> QED BY <2>3 DEF v
  <1>5. Truthful
    BY <1>3, <1>4 DEF LedgerInit, Truthful
  <1>6. \A p \in Process : Remembers(proc[p])
    BY DEF LedgerInit, Remembers, Down
  <1> QED BY <1>5, <1>6

LEMMA LedgerTrue == LedgerSpec => []Truth
  BY TruthStarts, TruthKept, LedgerTyped, PTL DEF LedgerSpec

\* A line was written while no other process was up; what it ended was a call, at
\* a cost within that call's room, or it cost nothing.
LEMMA CappedAfterLine ==
  ASSUME LedgerTypes, Capped, NEW p \in Process, NEW cost \in Nat, NEW ended \in 0..proc[p].calls,
         Recorded(p, cost, ended), paid' = paid + cost, proc[p].client,
         cost = 0 \/ (ended = 1 /\ cost <= MaxCost)
  PROVE  Capped'
  <1> SUFFICES ASSUME ~faults'.overlap, ~faults'.hostCrash
               PROVE  paid' < Most /\ \A q \in Process : (Seeded(proc[q]))'
    BY DEF Capped
  <1>1. /\ ~faults.overlap /\ ~faults.hostCrash /\ Appended(p, cost, ended)
        /\ \A q \in Process \ {p} : ~proc[q].up
    BY DEF Recorded, LedgerTypes
  <1>2. /\ \A q \in Process \ {p} : proc'[q] = proc[q]
        /\ proc'[p].client = proc[p].client
        /\ proc'[p].spent = proc[p].spent + cost
        /\ proc'[p].calls = proc[p].calls - ended
    <2>1. /\ \A q \in Process \ {p} : proc'[q] = proc[q]
          /\ \A f \in {"up", "client", "cached", "sum", "signature", "readAt"} : proc'[p][f] = proc[p][f]
          /\ proc'[p].spent = proc[p].spent + cost /\ proc'[p].calls = proc[p].calls - ended
      BY <1>1, AppendedProcs
    <2>2. proc'[p].client = proc[p].client
      BY <2>1
    <2> QED BY <2>1, <2>2
  <1>3. proc[p].spent = paid /\ paid + proc[p].calls * MaxCost < Most
    BY <1>1 DEF Capped, Seeded
  <1>4. paid' + proc'[p].calls * MaxCost < Most
    <2> DEFINE n == proc[p].calls
    <2>1. /\ n \in Nat /\ ended \in Nat /\ ended <= n /\ n - ended \in Nat /\ n <= InFlight
          /\ paid \in Nat /\ MaxCost \in Nat /\ Most \in Nat
      <3>1. MaxCost \in Nat /\ Most \in Nat /\ InFlight \in Nat
        BY LedgerAssumption, SpendAssumption, CostsOfCalls
      <3>2. n \in 0..InFlight /\ paid \in Nat
        BY DEF LedgerTypes, Proc
      <3> QED BY <3>1, <3>2
    <2> HIDE DEF n
    <2>2. n * MaxCost \in Nat /\ (n - ended) * MaxCost \in Nat
      BY <2>1, CostsOfCalls
    <2>3. CASE ended = 1 /\ cost <= MaxCost
      <3>1. n * MaxCost = (n - ended) * MaxCost + MaxCost
        BY <2>1, <2>3, CostsOfCalls
      <3> QED BY <1>2, <1>3, <2>1, <2>2, <2>3, <3>1 DEF n
    <2>4. CASE cost = 0
      <3>1. (n - ended) * MaxCost <= n * MaxCost
        <4>1. PICK m \in Nat : m = n - ended /\ n = m + ended
          BY <2>1
        <4>2. n * MaxCost = m * MaxCost + ended * MaxCost /\ m * MaxCost \in Nat /\ ended * MaxCost \in Nat
          BY <2>1, <4>1, CostsOfCalls
        <4> QED BY <4>1, <4>2
      <3> QED BY <1>2, <1>3, <2>1, <2>2, <2>4, <3>1 DEF n
    <2> QED BY <2>3, <2>4
  <1>5. paid' \in Nat /\ proc'[p].calls * MaxCost \in Nat /\ Most \in Nat
    <2>1. proc[p].calls - ended \in Nat
      BY LedgerAssumption DEF LedgerTypes, Proc
    <2>2. paid \in Nat
      BY DEF LedgerTypes
    <2>3. paid' \in Nat
      BY <2>2
    <2>4. proc'[p].calls \in Nat
      BY <1>2, <2>1
    <2>5. Most \in Nat
      BY CostsOfCalls
    <2>6. \A n \in Nat : n * MaxCost \in Nat
      BY CostsOfCalls
    <2>7. proc'[p].calls * MaxCost \in Nat
      BY <2>4, <2>6
    <2> QED BY <2>3, <2>5, <2>7
  <1>6. paid' < Most
    BY <1>4, <1>5
  <1>7. (Seeded(proc[p]))'
    BY <1>2, <1>3, <1>4 DEF Seeded, Most
  <1>8. ASSUME NEW q \in Process \ {p} PROVE (Seeded(proc[q]))'
    <2>1. proc'[q] = Down
      BY <1>1, <1>2 DEF LedgerTypes
    <2> QED BY <1>5, <1>6, <2>1, NoCalls, SpendAssumption DEF Seeded, Down, Most
  <1> QED BY <1>6, <1>7, <1>8

\* One process changes and nothing is paid.
LEMMA OneSeeded ==
  ASSUME LedgerTypes, Capped, NEW p \in Process, NEW r \in Proc,
         ~faults.overlap /\ ~faults.hostCrash => Seeded(r),
         proc' = [proc EXCEPT ![p] = r], paid' = paid,
         faults'.overlap = faults.overlap, faults'.hostCrash = faults.hostCrash
  PROVE  Capped'
  <1> SUFFICES ASSUME ~faults.overlap, ~faults.hostCrash
               PROVE  paid < Most /\ \A q \in Process : (Seeded(proc[q]))'
    BY DEF Capped, Most
  <1>1. paid < Most
    BY DEF Capped
  <1>2. ASSUME NEW q \in Process PROVE (Seeded(proc[q]))'
    <2>1. Seeded(r) /\ Seeded(proc[q])
      BY DEF Capped
    <2>2. (q # p /\ proc'[q] = proc[q]) \/ (q = p /\ proc'[q] = r)
      BY DEF LedgerTypes
    <2> QED BY <2>1, <2>2 DEF Seeded, Most
  <1> QED BY <1>1, <1>2

\* A consultation finds what was paid, while processes run one after the other.
LEMMA ConsultedIsPaid ==
  ASSUME LedgerTypes, Truth, Capped, ~faults.overlap, ~faults.hostCrash, NEW p \in Process,
         ~proc[p].client
  PROVE  Consulted(proc[p]).sum = paid
  <1>1. Truthful /\ Remembers(proc[p]) /\ Seeded(proc[p])
    BY DEF Truth, Capped
  <1>2. proc[p].cached => proc[p].sum = paid
    BY <1>1 DEF Seeded
  <1> QED BY <1>1, <1>2, ConsultedIsTrue

LEMMA CappedKept ==
  ASSUME LedgerTypes, Truth, Capped, [LedgerNext]_ledgerVars
  PROVE  Capped'
  <1> USE SpendAssumption
  <1>1. /\ proc \in [Process -> Proc] /\ paid \in Nat
        /\ faults \in [overlap : BOOLEAN, killed : BOOLEAN, hostCrash : BOOLEAN]
    BY DEF LedgerTypes
  <1>2. ASSUME NEW p \in Process, Start(p) PROVE Capped'
    <2> DEFINE r == [Down EXCEPT !.up = TRUE]
    <2>1. r \in Proc
      BY DownIsProc DEF Proc
    <2>2. ~faults.overlap /\ ~faults.hostCrash => Seeded(r)
      BY <1>1, NoCalls DEF Capped, Seeded, Down
    <2>3. proc' = [proc EXCEPT ![p] = r] /\ UNCHANGED <<paid, faults>>
      BY <1>2 DEF Start
    <2> HIDE DEF r
    <2> QED BY <2>1, <2>2, <2>3, OneSeeded
  <1>3. ASSUME NEW p \in Process, Poll(p) PROVE Capped'
    <2> DEFINE q == proc[p]
               r == Consulted(q)
    <2>1. r \in Proc /\ r.client = q.client /\ r.spent = q.spent /\ r.calls = q.calls
      BY <1>1, ConsultedIs
    <2>2. ASSUME ~faults.overlap, ~faults.hostCrash PROVE Seeded(r)
      <3>1. Seeded(q)
        BY <2>2 DEF Capped
      <3>2. ~q.client => r.sum = paid
        BY <2>2, ConsultedIsPaid
      <3> QED BY <2>1, <3>1, <3>2 DEF Seeded
    <2>3. proc' = [proc EXCEPT ![p] = r] /\ UNCHANGED <<paid, faults>>
      BY <1>3 DEF Poll
    <2> HIDE DEF r
    <2> QED BY <2>1, <2>2, <2>3, OneSeeded
  <1>4. ASSUME NEW p \in Process, BuildClient(p) PROVE Capped'
    <2> DEFINE c == Consulted(proc[p])
               r == [c EXCEPT !.client = TRUE, !.spent = c.sum]
    <2>1. c \in Proc /\ ~proc[p].client /\ c.calls = proc[p].calls
      BY <1>1, <1>4, ConsultedIs DEF BuildClient
    <2>2. ~faults.overlap /\ ~faults.hostCrash => c.sum = paid /\ paid + c.calls * MaxCost < Most
      BY <2>1, ConsultedIsPaid DEF Capped, Seeded
    <2>3. proc' = [proc EXCEPT ![p] = r] /\ UNCHANGED <<paid, faults>>
      BY <1>4 DEF BuildClient
    <2> HIDE DEF c
    <2>4. r \in Proc /\ r.client /\ r.spent = c.sum /\ r.calls = c.calls
      BY <2>1 DEF Proc
    <2> HIDE DEF r
    <2>5. ~faults.overlap /\ ~faults.hostCrash => Seeded(r)
      BY <2>2, <2>4 DEF Seeded
    <2> QED BY <2>3, <2>4, <2>5, OneSeeded
  <1>5. ASSUME NEW p \in Process, NEW cost \in Costs, PaidCall(p, cost) PROVE Capped'
    <2>1. /\ cost \in Nat /\ cost <= MaxCost /\ Recorded(p, cost, 1) /\ paid' = paid + cost
          /\ 1 \in 0..proc[p].calls /\ proc[p].client
      BY <1>5, CallsHaveClients DEF PaidCall
    <2> QED BY <2>1, CappedAfterLine
  <1>6. ASSUME NEW p \in Process, AttemptFails(p) \/ Noted(p) PROVE Capped'
    <2>1. PICK ended \in {0, 1} : /\ Recorded(p, 0, ended) /\ ended \in 0..proc[p].calls
                                 /\ proc[p].client /\ paid' = paid
      <3>1. CASE AttemptFails(p)
        BY <3>1, CallsHaveClients DEF AttemptFails
      <3>2. CASE Noted(p)
        BY <1>1, <3>2 DEF Noted, Proc
      <3> QED BY <1>6, <3>1, <3>2
    <2>2. paid' = paid + 0
      BY <1>1, <2>1
    <2> QED BY <2>1, <2>2, CappedAfterLine
  \* The guard: what was spent is what was paid, below the cap.
  <1>10. ASSUME NEW p \in Process, PassGuard(p) PROVE Capped'
    <2> DEFINE q == proc[p]
               r == [q EXCEPT !.calls = @ + 1]
    <2>1. /\ proc' = [proc EXCEPT ![p] = r] /\ UNCHANGED <<paid, faults>>
          /\ q.client /\ q.spent < Cap /\ q.calls < InFlight /\ q \in Proc
      BY <1>1, <1>10 DEF PassGuard
    <2>2. ~faults.overlap /\ ~faults.hostCrash => Seeded(q)
      BY DEF Capped
    <2> HIDE DEF q
    <2>3. q.calls + 1 \in Nat /\ q.calls + 1 <= InFlight /\ q.calls + 1 \in 0..InFlight
      BY <2>1, LedgerAssumption DEF Proc
    <2>4. r \in Proc /\ r.client /\ r.spent = q.spent /\ r.calls = q.calls + 1
      BY <2>1, <2>3 DEF Proc
    <2> HIDE DEF r
    <2>5. ASSUME ~faults.overlap, ~faults.hostCrash PROVE Seeded(r)
      <3>1. q.spent = paid
        BY <2>1, <2>2, <2>5 DEF Seeded
      <3>2. /\ r.calls * MaxCost <= InFlight * MaxCost /\ r.calls * MaxCost \in Nat
            /\ InFlight * MaxCost \in Nat
        BY <2>3, <2>4, CostsOfCalls, LedgerAssumption
      <3>3. paid + r.calls * MaxCost < Most
        BY <1>1, <2>1, <3>1, <3>2 DEF Most
      <3> QED BY <2>4, <3>1, <3>3 DEF Seeded
    <2> QED BY <2>1, <2>4, <2>5, OneSeeded
  <1>7. ASSUME NEW p \in Process, NEW graceful \in BOOLEAN, Stop(p, graceful) PROVE Capped'
    <2>1. ~faults.overlap /\ ~faults.hostCrash => Seeded(Down)
      BY <1>1, NoCalls DEF Capped
    <2>2. /\ proc' = [proc EXCEPT ![p] = Down] /\ paid' = paid
          /\ faults'.overlap = faults.overlap /\ faults'.hostCrash = faults.hostCrash
      BY <1>1, <1>7 DEF Stop
    <2> QED BY <2>1, <2>2, DownIsProc, OneSeeded
  <1>8. ASSUME HostCrash PROVE Capped'
    BY <1>1, <1>8 DEF HostCrash, Capped
  <1>9. CASE Tick \/ UNCHANGED ledgerVars
    BY <1>9 DEF Tick, ledgerVars, Capped, Seeded, Most
  <1> QED BY <1>2, <1>3, <1>4, <1>5, <1>6, <1>7, <1>8, <1>9, <1>10 DEF LedgerNext

\* Processes that run one after the other spend the cap once between them (deps.ts
\* and cli.ts seed each client with the rollup), for any number of processes and
\* restarts, and any costs: past it go at most the answers of the calls that one
\* client had let through together (openrouter.ts checks before it awaits and
\* charges after), however many clients follow.
THEOREM CapHoldsAcrossRestarts == LedgerSpec => []CapAcrossRestarts
  <1>1. LedgerInit => Capped
    <2> SUFFICES ASSUME LedgerInit PROVE paid < Most /\ \A p \in Process : Seeded(proc[p])
      BY DEF Capped
    <2>1. InFlight * MaxCost \in Nat /\ Cap \in Nat \ {0} /\ paid = 0
      BY CostsOfCalls, SpendAssumption, LedgerAssumption DEF LedgerInit
    <2>2. paid < Most
      BY <2>1 DEF Most
    <2> QED BY <2>1, <2>2, NoCalls DEF LedgerInit
  <1>2. LedgerTypes /\ Truth /\ Capped /\ [LedgerNext]_ledgerVars => Capped'
    BY CappedKept
  <1>3. Capped => CapAcrossRestarts
    BY DEF Capped, CapAcrossRestarts, Most
  <1> QED BY <1>1, <1>2, <1>3, LedgerTyped, LedgerTrue, PTL DEF LedgerSpec

\* A rollup is at most one TTL behind the files (readLedger's cache), whatever the
\* TTL, and however often and by however many processes it is asked for.
THEOREM RollupsAreFresh == LedgerSpec => RollupIsFresh
  <1>1. ASSUME LedgerTypes, Truth, NEW p \in Process, Poll(p) \/ BuildClient(p), ~faults.hostCrash
        PROVE  proc'[p].sum >= past[Ttl]
    <2> DEFINE c == Consulted(proc[p])
               r == [c EXCEPT !.client = TRUE, !.spent = c.sum]
    <2>1. c \in Proc /\ c.sum >= past[Ttl] /\ proc \in [Process -> Proc]
      BY <1>1, ConsultedIs, ConsultedIsTrue DEF Truth, LedgerTypes
    <2>2. proc' = [proc EXCEPT ![p] = c] \/ proc' = [proc EXCEPT ![p] = r]
      BY <1>1 DEF Poll, BuildClient
    <2> HIDE DEF c
    <2>3. r.sum = c.sum
      BY <2>1 DEF Proc
    <2> HIDE DEF r
    <2>4. proc'[p] = c \/ proc'[p] = r
      BY <2>1, <2>2
    <2> QED BY <2>1, <2>3, <2>4
  <1>2. LedgerTypes /\ Truth /\ [LedgerNext]_ledgerVars
        => [\A p \in Process : Poll(p) \/ BuildClient(p) =>
               faults.hostCrash \/ proc'[p].sum >= past[Ttl]]_ledgerVars
    BY <1>1
  <1> QED BY <1>2, LedgerTyped, LedgerTrue, PTL DEF LedgerSpec, RollupIsFresh
================================================================================
