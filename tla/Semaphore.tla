------------------------------ MODULE Semaphore ------------------------------
(***************************************************************************)
(* The class Semaphore of packages/llm/src/openrouter.ts: a counting gate  *)
(* with a queue of waiters, shared by every client of the process.  A gate *)
(* is a record [limit, active : Nat, waiters : sequence of callers]; the   *)
(* operators are its methods, each of which runs without interruption.     *)
(***************************************************************************)
EXTENDS Integers, Sequences, FiniteSets

HasRoom(gate) == gate.active < gate.limit

\* A faulty variant of the next one: only one waiter is looked at.
GrantableOne(gate) == IF HasRoom(gate) /\ gate.waiters # <<>> THEN 1 ELSE 0

\* A faulty variant of the next one: <= for <.
GrantableOneMore(gate) ==
  IF gate.active <= gate.limit /\ gate.waiters # <<>> THEN 1 ELSE 0

\* The number of waiters the loop of wake() grants a slot.
Grantable(gate) ==
  LET free == gate.limit - gate.active
  IN  IF free <= 0 THEN 0
      ELSE IF free < Len(gate.waiters) THEN free ELSE Len(gate.waiters)

\* Those waiters, the oldest ones.
Woken(gate) == {gate.waiters[i] : i \in 1..Grantable(gate)}

\* wake().
Wake(gate) ==
  [gate EXCEPT !.active = @ + Grantable(gate),
               !.waiters = SubSeq(@, Grantable(gate) + 1, Len(@))]

\* release() up to its wake(), at most once per grant.
Release(gate) == [gate EXCEPT !.active = @ - 1]

\* setLimit() up to its wake().
SetLimit(gate, n) == [gate EXCEPT !.limit = n]

\* A faulty variant of the next one: unshift for push.
AcquireAtFront(gate, c) ==
  IF HasRoom(gate) THEN [gate EXCEPT !.active = @ + 1]
  ELSE [gate EXCEPT !.waiters = <<c>> \o @]

\* acquire() by c: a slot, or the end of the queue.
Acquire(gate, c) ==
  IF HasRoom(gate) THEN [gate EXCEPT !.active = @ + 1]
  ELSE [gate EXCEPT !.waiters = Append(@, c)]
===============================================================================
