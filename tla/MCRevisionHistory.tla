---------------------------- MODULE MCRevisionHistory ----------------------------
(* Three claims: the second is newer in event time, the third was learned   *)
(* about the same instant as the second, with a confidence inside or        *)
(* outside the dispute band, or about an unknown instant.                   *)
EXTENDS RevisionHistory

NoRows == << >>

MCFactsOf(c) ==
  CASE c = 1 -> {[event |-> 0, conf |-> 80, polarity |-> "AFFIRM"]}
    [] c = 2 -> {[event |-> 1, conf |-> 80, polarity |-> "AFFIRM"]}
    [] c = 3 -> {[event |-> 1, conf |-> 76, polarity |-> "AFFIRM"],
                 [event |-> -1, conf |-> 50, polarity |-> "NEGATE"]}

\* Confidences that make ties and strict minima both occur on a cycle.
MCEdgeConfs(newer, older) ==
  CASE newer = 1 -> {60}
    [] newer = 2 /\ older = 1 -> {90}
    [] OTHER -> {70}

===============================================================================
