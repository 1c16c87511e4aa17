SPECIFICATION Spec
CONSTANTS
    Keys = {k1, k2}
    Runs = {r1, r2}
    Configs = {g1}
    SpymConfigs = {g1}
    Dispatchers = {d1}
    Callers = {c1}
    ProcessOf <- OneProcess
    Flows = {f1, f2}
    NumArtifacts = 1
    Disturbances = {"timeout", "reconcile", "contention", "toggle"}
    None = None
    c1 = c1
    c2 = c2
    d1 = d1
    d2 = d2
SYMMETRY LaunchSymmetry
INVARIANTS
    IdentityIsOne
    ReproductionsRestOnCompleteRuns
PROPERTY
    ManifestIsImmutable
