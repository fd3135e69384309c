SPECIFICATION SafetySpec
CONSTANTS
    Sources = {1, 2}
    Values = {1}
    MaxRetries = 1
    Webhook = TRUE
    Faults = {"crash", "patch", "secret"}
    SidecarCodes = {"Busy", "Canceled", "Error"}
    EditsRace = TRUE
    MaxEdits = 2
    MaxFailures = 1
INVARIANTS TypeOK RetriesStop SourceFixedWhileDeploying
PROPERTIES ReleasedAfterRemoval
CHECK_DEADLOCK FALSE
