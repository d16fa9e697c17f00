SPECIFICATION Spec
CONSTANTS
    None = None
    Absent = Absent
    Malformed = Malformed
    Blank = Blank
    Names <- MCNames
    Similarity <- MCSimilarity
    States <- MCStates
    Days <- MCDays
INVARIANTS
    TypeOK
    FirstFailingRuleDecides
    WaitingNeverHelps
    UnreadableDateIsNoRejection
CHECK_DEADLOCK FALSE
