---- MODULE MCIngest ----
(* A person moves and moves back again, tells of both moves with their dates,     *)
(* says the last thing twice, and takes up and drops a hobby.                     *)
EXTENDS Ingest

MCSession == <<[id |-> "s1", date |-> 1, turns |-> 2], [id |-> "s2", date |-> 3, turns |-> 2]>>

Says(o, t, a, v, p, d) == [session |-> o, turn |-> t, attr |-> a, value |-> v, polarity |-> p, date |-> d]

MCSaid == <<
    Says(1, 1, "city", "Lyon", "AFFIRM", NoDate),
    Says(1, 2, "city", "Oslo", "AFFIRM", 2),
    Says(2, 2, "city", "Lyon", "AFFIRM", 4),
    Says(2, 2, "city", "Lyon", "AFFIRM", NoDate),
    Says(2, 1, "hobby", "chess", "NEGATE", NoDate),
    Says(1, 1, "hobby", "chess", "AFFIRM", NoDate)>>

MCProper == {"Lyon", "Oslo"}

MCArity(a) == IF a = "city" THEN "FUNCTIONAL" ELSE "MULTI"

MCVid(k) == (CASE k[2] = "Lyon" -> 100 [] k[2] = "Oslo" -> 300 [] OTHER -> 400)
            + 10 * k[3] + k[4]

MCFound(b) ==
    CASE b = 1 -> {{1, 5, 6}}
      [] b = 2 -> {{2}}
      [] b = 3 -> {{3, 4}, {}}

(* What the theorems suppose of the input holds of this one.                      *)
ASSUME MCInputAssumption == TurnsExist /\ ReadOnce

V(r, s, c, o) == [relation |-> r, same |-> s, conf |-> c, order |-> o]
MCVerdicts == {V("SUPERSEDES", TRUE, 80, "CANDIDATE_NEWER"), V("SUPERSEDES", TRUE, 80, "INCUMBENT_NEWER"),
               V("SUPPORTS", TRUE, 40, "UNKNOWN"), V("CONTRADICTS", FALSE, 80, "UNKNOWN")}
====
