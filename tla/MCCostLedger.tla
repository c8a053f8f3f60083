---- MODULE MCCostLedger ----
(* Two processes, alike to the ledger, attempts that cost one or nothing, and a   *)
(* clock that passes a day boundary and several TTLs.                             *)
EXTENDS CostLedger

CONSTANTS api, ingest

Alike == Permutations(Process)
====
