\* Concurrent corrections of one attribute.
SPECIFICATION Spec
CONSTANTS
  Handler = {h1, h2}
  Value = {v}
  BaseRow <- MCBaseRow
  BaseEdges <- MCBaseEdges
  NewId = {3, 8}
  Arity = "FUNCTIONAL"
  TicksPerSec = 2
  MaxClock = 4
  ReadLimit = 500
INVARIANT AckedIsComplete
INVARIANT NoGhostRevision
INVARIANT ChainsAreAcyclic
INVARIANT AckedTargetStruck
INVARIANT LatestCorrectionWins
PROPERTY AppendOnly
PROPERTY ImplementsLog
CHECK_DEADLOCK FALSE
