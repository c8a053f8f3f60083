----------------------------- MODULE MCCorrections ----------------------------
(* Two ingested claims; the believed one, 6, is dated one second ahead of    *)
(* the clock, so that a correction can be older than what it corrects.  A    *)
(* correction may hash to an id on either side of the other and of the base. *)
EXTENDS Corrections

MCBaseRow ==
  (5 :> [event |-> 0, ingest |-> 0, conf |-> 80, polarity |-> "AFFIRM"]) @@
  (6 :> [event |-> 1, ingest |-> 0, conf |-> 80, polarity |-> "AFFIRM"])
MCBaseEdges ==
  {[rel |-> "SUPERSEDES", newer |-> 6, older |-> 5, ingest |-> 0, conf |-> 80]}
===============================================================================
