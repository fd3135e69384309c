SPECIFICATION SafetySpec
CONSTANTS
    Sources = {1}
    Values = {1}
    MaxRetries = 0
    Webhook = TRUE
    Faults = {}
    SidecarCodes = {}
    EditsRace = TRUE
    MaxEdits = 1
    MaxFailures = 1
INVARIANTS DeletionRemovesPackage
CHECK_DEADLOCK FALSE
