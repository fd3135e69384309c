SPECIFICATION Spec
CONSTANTS
    Calls = {c1, c2}
    Methods = {"deploy", "remove", "get", "probe"}
    CallerErrors = {"DeadlineExceeded"}
    Kubeconfigs = {remote}
    InCluster = incluster
    Credentials = {creds}
    NoCredentials = nocreds
    NoCall = nocall
INVARIANTS
    TypeOK
    OneOperationAtATime
    OnlyDeploysArePreempted
    WaitersAreOwedAWakeup
    CanceledMeansCancelled
    OwnEnvironment
    EnvironmentRestored
    ConnectsWhereAsked
    NoCircularWait
PROPERTIES
    EveryCallReturns
    ImplementsSingleOperation
