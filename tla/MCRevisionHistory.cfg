\* The revision fold over every small log of one single-valued attribute.
SPECIFICATION HistorySpec
CONSTANTS
  ClaimId = {1, 2, 3}
  FactsOf <- MCFactsOf
  EdgeConfs <- MCEdgeConfs
  Relations = {"SUPERSEDES", "CONTRADICTS", "SUPPORTS"}
  BaseRow <- NoRows
  BaseEdges = {}
  MaxLag = 0
  MaxTime = 1
  MaxEdges = 3
INVARIANT SearchIsExact
INVARIANT HeadsUndisplaced
INVARIANT NothingForgotten
INVARIANT DiffIsAWalk
INVARIANT AsOfReplaysThePast
CHECK_DEADLOCK FALSE
