---------------------------- MODULE MCRevisionLog ----------------------------
(* Four claims and SUPERSEDES edges only, for the cycle-breaking run;  the   *)
(* search does not look at the clock, which stands still.                    *)
EXTENDS RevisionLog

NoRows == << >>

CycleFactsOf(c) == {[event |-> c, conf |-> 80, polarity |-> "AFFIRM"]}
\* The confident edges are those of one pass over the claims in order.
PassConfs(newer, older) == IF newer = older + 1 THEN {90} ELSE {60}

LearnSpec == Init /\ [][Learn]_vars
===============================================================================
