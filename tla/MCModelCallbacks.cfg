SPECIFICATION Spec
CONSTANTS
    Path <- MCPath
    Inner = "model"
    Edited = "nr10_agent"
    Texts = {"original", "edited"}
    MaxCall = 1
    MaxTools = 2
    MaxRuns = 6
INVARIANTS
    TypeOK
    EveryCallIsRecordedOnce
    ToolsAreUnderTheirNodes
    NothingIsLeftOpen
    EditedPromptReachesTheModel
CHECK_DEADLOCK FALSE
