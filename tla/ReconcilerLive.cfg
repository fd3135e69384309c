SPECIFICATION Spec
CONSTANTS
    Sources = {1, 2}
    Values = {1, 2}
    MaxRetries = 0
    Webhook = FALSE
    Faults = {"lookup", "drift"}
    SidecarCodes = {"Rejected", "Error"}
    EditsRace = FALSE
    MaxEdits = 2
    MaxFailures = 0
INVARIANTS InSync
PROPERTIES Converges DeletionCompletes
CHECK_DEADLOCK FALSE
