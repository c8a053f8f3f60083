-------------------------------- MODULE MCApi --------------------------------
(* A history of one claim, corrected up to twice; a window of a second and a *)
(* half, so that a retry-after is rounded; a table that is swept as soon as  *)
(* it holds two keys.                                                        *)
EXTENDS Api

MCLoadedRow == 5 :> [event |-> 0, ingest |-> 0, conf |-> 80, polarity |-> "AFFIRM"]

Callers == Permutations(Caller)

(* The limiter and the handlers share nothing but the clock.  Once there is  *)
(* something to read, the limiter has let at most one request through.       *)
Aside ==
  req.route # "none" \/ DOMAIN row # {} =>
    /\ \A k \in Caller : Len(admitted[k]) <= 1 /\ promised[k] = Never
    /\ \A j, k \in Caller : admitted[j] # <<>> /\ admitted[k] # <<>> => j = k
===============================================================================
