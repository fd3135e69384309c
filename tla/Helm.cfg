SPECIFICATION Spec
CONSTANTS
    NCharts = 2
    MaxFaults = 3
    Faults = {"die", "crash", "outage", "preempt", "busy", "chart", "helm", "uninstall", "edit", "deadline", "patch", "secret", "lookup", "retries"}
INVARIANTS TypeOK RepairsOnlyStuck
PROPERTIES CleanupIsThorough StuckIsRepaired MissingComesBack
CHECK_DEADLOCK FALSE
