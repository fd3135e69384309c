SPECIFICATION SafetySpec
CONSTANTS
    Sources = {1, 2}
    Values = {1, 2}
    MaxRetries = 0
    Webhook = TRUE
    Faults = {}
    SidecarCodes = {}
    EditsRace = TRUE
    MaxEdits = 2
    MaxFailures = 1
INVARIANTS InSync
CHECK_DEADLOCK FALSE
