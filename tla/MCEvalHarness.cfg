SPECIFICATION HarnessSpec
CONSTANTS
    Questions = 4
    Unanswerable = {4}
    Arms = {"errata", "llm"}
    CallAttempts = 2
    HardCap = 3
    MaxCommands = 3
INVARIANT NoAnswerTwice
INVARIANT NoThreeEmpties
PROPERTY EveryCommandEnds
