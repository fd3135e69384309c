SPECIFICATION SafetySpec
CONSTANTS
    Sources = {1, 2}
    Values = {1, 2}
    MaxRetries = 0
    Webhook = TRUE
    Faults = {}
    SidecarCodes = {}
    EditsRace = FALSE
    MaxEdits = 3
    MaxFailures = 1
PROPERTIES RedeployedSourceStays
CHECK_DEADLOCK FALSE
