SPECIFICATION Spec
CONSTANTS
    None = None
    Absent = Absent
    Malformed = Malformed
    Blank = Blank
    Empty = Empty
    Names <- MCNames
    Similarity <- MCSimilarity
    Orders <- MCOrders
    Images <- MCImages
    GuardAnswers <- MCGuardAnswers
    AgentAnswers <- MCAgentAnswers
    Days <- MCDays
INVARIANTS
    TypeOK
    AcceptanceIsEarned
    ScreenedImageIsJudged
    UnsafeIsNeverJudged
    FailuresAreRejections
PROPERTIES
    KeepsPromise
    EveryRequestIsAnswered
CHECK_DEADLOCK FALSE
