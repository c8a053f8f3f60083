------------------------------ MODULE LlmClient ------------------------------
(***************************************************************************)
(* OpenRouterClient.complete of packages/llm/src/openrouter.ts, the budget *)
(* guard of budget.ts and the shared Semaphore, under concurrent callers.  *)
(*                                                                         *)
(* A caller makes one call after another.  JavaScript runs each stretch    *)
(* between two awaits without interruption, and a call awaits in three     *)
(* places: the semaphore, the fetch, the back-off sleep.  Hence an action  *)
(* runs from one await to the next, through the top of the retry loop.     *)
(*                                                                         *)
(* Abstracted: prompts (a call may or may not find its prompt in the cache *)
(* once some call has written it), delays, and the ledger's lines.  Costs  *)
(* are integers; "normal" stands for "WARN" too, which the guard treats    *)
(* alike.                                                                  *)
(***************************************************************************)
EXTENDS Semaphore, Spend

CONSTANTS
  Caller,      \* the concurrent callers of one client
  Judges,      \* those whose role is "judge"
  Limits,      \* the limits the process's clients configure
  Seeds,       \* what the ledger may say was spent before the process started
  MaxAttempts  \* MAX_ATTEMPTS, 5 in the code

ASSUME CallersAssumption == IsFiniteSet(Caller) /\ Judges \subseteq Caller
ASSUME LimitsAssumption == Limits # {} /\ Limits \subseteq Nat \ {0}
ASSUME SeedsAssumption == Seeds \subseteq Nat
ASSUME AttemptsAssumption == MaxAttempts \in Nat \ {0}

VARIABLES
  gate,    \* the semaphore
  spent,   \* this.spent of the client
  cached,  \* the cache has some prompt
  call     \* each caller's call: where it is, and its locals

vars == <<gate, spent, cached, call>>

\* A call returns a result or throws, whichever the error.
Settled == {"idle", "returned", "thrown"}
InProgress == {"waiting", "granted", "fetching", "sleeping"}

\* A call: attempt, repaired, and whether the ten minutes of the unit are over.
Call == [pc : Settled \cup InProgress, attempt : 0..(MaxAttempts + 1),
         repaired : BOOLEAN, late : BOOLEAN]

\* A call that is over: its locals are gone.
Over(outcome) == [pc |-> outcome, attempt |-> 0, repaired |-> FALSE, late |-> FALSE]

At(places) == {c \in Caller : call[c].pc \in places}

----------------------------------------------------------------------------
(* budget.ts *)

BudgetState ==
  CASE spent >= Cap -> "EXHAUSTED"
    [] spent < Cap /\ 10 * spent >= 9 * Cap -> "THROTTLED"
    [] OTHER -> "normal"

\* A faulty variant: the role is looked at before the ceiling.
MayRunJudgeFirst(c) == c \in Judges \/ BudgetState = "normal"

\* budgetGuard: whether the call may proceed.
MayRun(c) ==
  \/ BudgetState = "normal"
  \/ BudgetState = "THROTTLED" /\ c \in Judges

----------------------------------------------------------------------------
(* complete *)

Init ==
  /\ \E n \in Limits : gate = [limit |-> n, active |-> 0, waiters |-> <<>>]
  /\ spent \in Seeds
  /\ cached \in BOOLEAN
  /\ call = [c \in Caller |-> Over("idle")]

\* The calls once c's call is k and the waiters in woken have their slot.
Calls(c, k, woken) ==
  [d \in Caller |-> IF d = c THEN k
                    ELSE IF d \in woken THEN [call[d] EXCEPT !.pc = "granted"]
                    ELSE call[d]]

\* The top of the loop, entered by c's call k when the gate is g and the
\* waiters in woken have just been granted: the deadline, the budget guard,
\* then acquire().  Both a granted and a queued caller await.
EnterLoop(c, k, g, woken) ==
  \/ /\ k.late \/ ~MayRun(c)
     /\ gate' = g
     /\ call' = Calls(c, Over("thrown"), woken)
  \/ /\ ~k.late /\ MayRun(c)
     /\ gate' = Acquire(g, c)
     /\ call' = Calls(c, [k EXCEPT !.attempt = @ + 1,
                                   !.pc = IF HasRoom(g) THEN "granted" ELSE "waiting"],
                      woken)

\* A new call: answered from the cache without a fetch, or entering the loop.
Begin(c) ==
  /\ call[c].pc \in Settled
  /\ \/ cached /\ call' = [call EXCEPT ![c] = Over("returned")] /\ UNCHANGED gate
     \/ EnterLoop(c, Over("idle"), gate, {})
  /\ UNCHANGED <<spent, cached>>

\* The await of acquire() resumes, and the request goes out.
StartFetch(c) ==
  /\ call[c].pc = "granted"
  /\ call' = [call EXCEPT ![c].pc = "fetching"]
  /\ UNCHANGED <<gate, spent, cached>>

\* The fetch is back: the slot is given back and goes to a waiter, and c's
\* call becomes k.
Freed == Release(gate)
Leave(c, k) == gate' = Wake(Freed) /\ call' = Calls(c, k, Woken(Freed))

\* writeCache is best effort, and readCache reads what was written.
Remembered == {cached, TRUE}

\* 2xx with valid content: the only reply whose cost is counted.
ReplyOk(c, cost) ==
  /\ call[c].pc = "fetching"
  /\ Leave(c, Over("returned"))
  /\ spent' = spent + cost
  /\ cached' \in Remembered

\* 401 or 403; 402; any other status outside 2xx that no other branch takes.
ReplyFatal(c) ==
  /\ call[c].pc = "fetching"
  /\ Leave(c, Over("thrown"))
  /\ UNCHANGED <<spent, cached>>

\* 400 or 422, a body that is not JSON, or content that fails the schema: one
\* repair, at once and whatever the attempt, then the unit fails.
ReplyRepairable(c) ==
  /\ call[c].pc = "fetching"
  /\ IF call[c].repaired THEN Leave(c, Over("thrown"))
     ELSE EnterLoop(c, [call[c] EXCEPT !.repaired = TRUE], Wake(Freed), Woken(Freed))
  /\ UNCHANGED <<spent, cached>>

OutOfAttempts(c) == call[c].attempt >= MaxAttempts

\* 429, 5xx, a network error or the abort after timeout_ms: give up at the
\* last attempt; past the deadline go straight to the top of the loop; else
\* sleep.
ReplyTransient(c) ==
  /\ call[c].pc = "fetching"
  /\ \/ OutOfAttempts(c) /\ Leave(c, Over("thrown"))
     \/ /\ ~OutOfAttempts(c) /\ call[c].late
        /\ EnterLoop(c, call[c], Wake(Freed), Woken(Freed))
     \/ /\ ~OutOfAttempts(c) /\ ~call[c].late
        /\ Leave(c, [call[c] EXCEPT !.pc = "sleeping"])
  /\ UNCHANGED <<spent, cached>>

EndSleep(c) ==
  /\ call[c].pc = "sleeping"
  /\ EnterLoop(c, call[c], gate, {})
  /\ UNCHANGED <<spent, cached>>

\* now() - start reaches UNIT_DEADLINE_MS.
GrowLate(c) ==
  /\ call[c].pc \in InProgress /\ ~call[c].late
  /\ call' = [call EXCEPT ![c].late = TRUE]
  /\ UNCHANGED <<gate, spent, cached>>

\* Another client is constructed and resizes the shared semaphore.
Resize(n) ==
  /\ n # gate.limit
  /\ gate' = Wake(SetLimit(gate, n))
  /\ call' = [d \in Caller |-> IF d \in Woken(SetLimit(gate, n))
                               THEN [call[d] EXCEPT !.pc = "granted"] ELSE call[d]]
  /\ UNCHANGED <<spent, cached>>

Reply(c) ==
  \/ \E cost \in Costs : ReplyOk(c, cost)
  \/ ReplyFatal(c)
  \/ ReplyRepairable(c)
  \/ ReplyTransient(c)

Next ==
  \/ \E c \in Caller : Begin(c) \/ StartFetch(c) \/ Reply(c) \/ EndSleep(c) \/ GrowLate(c)
  \/ \E n \in Limits : Resize(n)

\* A granted call resumes, every fetch comes back (doFetch aborts it after
\* timeout_ms) and every sleep ends.  Nothing is assumed of new calls, of the
\* deadline or of the limit.
Fairness ==
  \A c \in Caller : WF_vars(StartFetch(c)) /\ WF_vars(Reply(c)) /\ WF_vars(EndSleep(c))

Spec == Init /\ [][Next]_vars /\ Fairness

----------------------------------------------------------------------------
(* Properties *)

\* Types: in particular a unit never fetches more than MAX_ATTEMPTS + 1 times,
\* although the repair branch does not look at the attempt.
TypeOK ==
  /\ gate \in [limit : Limits, active : Nat, waiters : Seq(Caller)]
  /\ spent \in Nat
  /\ cached \in BOOLEAN
  /\ call \in [Caller -> Call]

\* The gate's books are right whatever way a call left its fetch: the slots in
\* use are those of the calls past the gate, and the queue holds each waiting
\* call once and nobody else.
GateCounts ==
  /\ gate.active = Cardinality(At({"granted", "fetching"}))
  /\ {gate.waiters[i] : i \in 1..Len(gate.waiters)} = At({"waiting"})
  /\ \A i, j \in 1..Len(gate.waiters) : gate.waiters[i] = gate.waiters[j] => i = j

\* Nobody waits while a slot is free (wake() runs on release and on resize).
NoLostWakeup == gate.waiters # <<>> => ~HasRoom(gate)

\* A slot is granted only within the limit then in force, although the limit
\* may have been lowered below the slots in use.
GrantsWithinLimit ==
  [][\A c \in Caller :
       call[c].pc # "granted" /\ call'[c].pc = "granted" => gate'.active <= gate'.limit]_vars

\* The calls that passed the budget guard and may still cost something.
Committed == At({"waiting", "granted", "fetching"})

\* The cap is overshot by at most one call per caller: once it is reached no
\* call starts, and those past the guard finish.
OvershootBounded ==
  \/ spent + MaxCost * Cardinality(Committed) < Cap + MaxCost * Cardinality(Caller)
  \/ spent \in Seeds /\ Committed = {}

\* Every call ends, whatever the other callers, the limit and the replies do:
\* no call starves in the queue, and retries and repairs run out.
EveryCallSettles ==
  \A c \in Caller : call[c].pc \in InProgress ~> call[c].pc \in Settled

===============================================================================
