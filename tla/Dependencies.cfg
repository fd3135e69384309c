CONSTANTS
    Packages = {"base", "mid", "top"}
    Graphs <- MCGraphs
    MaxWorkers = 2
    NoOp = NoOp
    MaxEvents = 2
SPECIFICATION Spec
INVARIANTS TypeOK DependenciesFirst CyclesNeverDeploy NoLostWakeup QuietMeansDeployed
PROPERTY AllGetDeployed
CHECK_DEADLOCK FALSE
