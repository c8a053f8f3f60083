SPECIFICATION MaterialSpec
CONSTANTS
  MaxClaimsPerTurn = 3
  MaxListItems = 2
  Transcript <- MCTranscript
  Question <- MCQuestion
  MaterialMax = 3
INVARIANT CalendarsAgree
INVARIANT NamedItemsAddUp
INVARIANT ListsAreTheRuns
CHECK_DEADLOCK FALSE
