SPECIFICATION FairSpec
CONSTANTS
    NIdeas = 2
    Packets <- SamePacket
    MaxAttempts = 2
    Allowance <- TwoAllowance
    None = None
INVARIANT RulesAreTestedOnce
INVARIANT PauseStopsTesting
PROPERTY ResultsStay
PROPERTY IdeasAreServed
