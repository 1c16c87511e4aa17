SPECIFICATION FairSpec
CONSTANTS
    NRevisions = 2
    InfraOf <- MCInfraOf
    KeepReleases = 1
    MaxAdmin = 1
    MaxFaults = 2
    MaxCrashes = 1
    None = None
INVARIANT OnlyVerifiedIsLive
INVARIANT HostStaysWhole
PROPERTY MainGoesLive
