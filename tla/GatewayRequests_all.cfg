SPECIFICATION FairSpec
CONSTANTS
    Agents = {"alice", "bob", "reader"}
    LevelOf <- MCLevels
    Contents = {"c", "d", "bad"}
    Invalid = {"bad"}
    Requests <- MCRequests
    MaxFaults = 1
    MaxRestarts = 1
    None = None
INVARIANTS
    OneRequestOneEffect
    RecordsAreKept
PROPERTY SubmissionSettles
