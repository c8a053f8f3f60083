-------------------------------- MODULE Spend --------------------------------
(* What calls cost and the budget of a process's client (config.yaml,      *)
(* packages/llm/src/config.ts).                                            *)
EXTENDS Integers

CONSTANTS
  Costs,    \* the costs a successful call may report
  MaxCost,  \* an upper bound of them
  Cap       \* budget_cap_usd

ASSUME SpendAssumption == MaxCost \in Nat /\ Costs \subseteq 0..MaxCost /\ Cap \in Nat \ {0}

===============================================================================
