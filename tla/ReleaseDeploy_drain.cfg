SPECIFICATION Spec
CONSTANTS
    NRevisions = 1
    InfraOf <- MCInfraOf
    KeepReleases = 1
    MaxAdmin = 0
    MaxFaults = 0
    MaxCrashes = 0
    None = None
INVARIANT SwitchSparesTests
