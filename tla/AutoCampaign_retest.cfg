SPECIFICATION Spec
CONSTANTS
    NIdeas = 1
    Packets <- SamePacket
    MaxAttempts = 3
    Allowance <- FixAllowance
    None = None
INVARIANT RetestBuildsAfresh
