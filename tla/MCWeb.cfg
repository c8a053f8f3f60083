SPECIFICATION WebSpec
CONSTANTS
  BaseRow <- MCBaseRow
  BaseEdges <- MCBaseEdges
  About <- MCAbout
  CorrectionId = {10, 30}
  Question = {"where", "work", "why"}
  MaxCalls = 3
  Attribute = {"city", "job"}
  FirstAttr = "city"
  MaxLoads = 3
  MaxVisits = 2
INVARIANT PatientCardIsCoherent
INVARIANT LateRepliesKeepTheirPlace
INVARIANT NoStandingClaimIsStruck
INVARIANT TabsAgree
CHECK_DEADLOCK FALSE
