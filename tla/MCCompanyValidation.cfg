SPECIFICATION Spec
CONSTANTS
    None = None
    Requests = {"r1", "r2"}
    Orders <- MCOrders
    Configurations <- MCConfigurations
INVARIANTS
    TypeOK
    VerdictIsEarned
    OutageIsNoVerdict
    RetriesAreUsedUp
    AdmissionIsEarned
    ValidTokenIsAdmitted
    LateRequestsShareAClient
PROPERTIES
    EveryCompanyIsAnswered
CHECK_DEADLOCK FALSE
