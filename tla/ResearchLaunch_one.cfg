SPECIFICATION FairSpec
CONSTANTS
    Keys = {k1}
    Runs = {r1}
    Configs = {g1, g2}
    SpymConfigs = {g1}
    Dispatchers = {d1, d2}
    Callers = {c1, c2}
    ProcessOf <- TwoProcesses
    Flows = {f1, f2}
    NumArtifacts = 1
    Disturbances = {"crash", "timeout", "exception", "reconcile", "cancel"}
    None = None
    c1 = c1
    c2 = c2
    d1 = d1
    d2 = d2
INVARIANTS
    OneInvocationPerKey
    StatusFollowsSubmission
    EndingsAreFinal
PROPERTIES
    ImplementsRunLifecycle
    LaunchesSettle
CHECK_DEADLOCK FALSE
