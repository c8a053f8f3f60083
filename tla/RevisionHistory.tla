--------------------------- MODULE RevisionHistory ---------------------------
(***************************************************************************)
(* RevisionLog with a memory of its own past: what a reader of the store   *)
(* would have found at the end of every clock tick that is over.           *)
(***************************************************************************)
EXTENDS RevisionLog

VARIABLE past  \* past[t + 1]: the log as it stood when tick t ended

HistoryInit == Init /\ past = <<>>

EndOfTick ==
  /\ Advance
  /\ past' = Append(past, [row |-> row, edges |-> edges])

HistoryNext == EndOfTick \/ (Learn /\ UNCHANGED past)

HistorySpec == HistoryInit /\ [][HistoryNext]_<<vars, past>>

\* The bitemporal promise of resolveAsOf on the ingest axis: it answers what
\* resolveBelief answered to a reader of that instant, whatever was learned
\* since.
AsOfReplaysThePast ==
  \A t \in DOMAIN past, arity \in {"FUNCTIONAL", "MULTI"} :
    ResolveAsOf(arity, Claims, row, edges, t - 1, "ingest")
      = ResolveBelief(arity, DOMAIN past[t].row, past[t].row, past[t].edges)
===============================================================================
