\* The gate, the retry loop and the budget under three callers.
SPECIFICATION Spec
CONSTANTS
  x1 = x1
  x2 = x2
  j = j
  Caller = {x1, x2, j}
  Judges = {j}
  Limits = {1, 3}
  Costs = {9}
  MaxCost = 9
  Seeds = {0, 10}
  Cap = 10
  MaxAttempts = 2
INVARIANT NoLostWakeup
INVARIANT OvershootBounded
PROPERTY GrantsWithinLimit
PROPERTY EveryCallSettles
