SPECIFICATION Spec
CONSTANTS
    Session <- MCSession
    Said <- MCSaid
    Proper <- MCProper
    RuleSees = {2, 3}
    Batches = 3
    Found <- MCFound
    Extractors = {"rule", "llm"}
    Judging = {TRUE, FALSE}
    Verdicts <- MCVerdicts
    Arity <- MCArity
    Vid <- MCVid
    Workers = 2
    MaxAttempts = 2
INVARIANT LatestStatementWins
INVARIANT ReportedIsFindable
INVARIANT RevisionsAreAcyclic
INVARIANT UnresolvedSurfaces
