SPECIFICATION Spec
CONSTANTS
    NIdeas = 1
    Packets <- ManyPackets
    MaxAttempts = 2
    Allowance <- OneAllowance
    None = None
INVARIANT LaunchesAreCounted
INVARIANT LaunchSetupHolds
