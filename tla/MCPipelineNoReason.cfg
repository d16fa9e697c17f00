SPECIFICATION Spec
CONSTANTS
    None = None
    Absent = Absent
    Malformed = Malformed
    Blank = Blank
    Empty = Empty
    Names <- MCNames
    Similarity <- MCSimilarity
    Orders <- MCOrders
    Images <- MCImages
    GuardAnswers <- MCGuardAnswers
    AgentAnswers <- MCAgentAnswers
    Days <- MCDays
INVARIANT RejectionIsNoHttpError
CHECK_DEADLOCK FALSE
