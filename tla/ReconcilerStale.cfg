SPECIFICATION SafetySpec
CONSTANTS
    Sources = {1}
    Values = {1}
    MaxRetries = 1
    Webhook = FALSE
    Faults = {"lag", "outage", "crash", "dependency"}
    SidecarCodes = {"Canceled", "Error"}
    EditsRace = TRUE
    MaxEdits = 2
    MaxFailures = 1
INVARIANTS NoDeployForGone NeverForgotten
CHECK_DEADLOCK FALSE
