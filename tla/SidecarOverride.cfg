SPECIFICATION SafetySpec
CONSTANTS
    Calls = {c1, c2}
    Methods = {"deploy", "remove", "get", "probe"}
    CallerErrors = {}
    Kubeconfigs = {remote}
    InCluster = incluster
    Credentials = {}
    NoCredentials = nocreds
    NoCall = nocall
INVARIANT OverrideNotObserved
