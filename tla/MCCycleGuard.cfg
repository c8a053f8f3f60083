\* Every SUPERSEDES graph of four claims with up to nine edges.
SPECIFICATION LearnSpec
CONSTANTS
  ClaimId = {1, 2, 3, 4}
  FactsOf <- CycleFactsOf
  EdgeConfs <- PassConfs
  Relations = {"SUPERSEDES"}
  BaseRow <- NoRows
  BaseEdges = {}
  MaxLag = 0
  MaxTime = 0
  MaxEdges = 9
INVARIANT CyclesBroken
CHECK_DEADLOCK FALSE
