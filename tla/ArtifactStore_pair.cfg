SPECIFICATION FairSpec
CONSTANTS
    p1 = p1
    p2 = p2
    p3 = p3
    d1 = d1
    d2 = d2
    Processes = {p1, p2, p3}
    RolesOf <- WritersAndReader
    Docs = {d1, d2}
    LatestSchema = 2
    MaxCrashes = 1
    Absent = Absent
CHECK_DEADLOCK FALSE
INVARIANTS
    MigratedOnce
    EvidenceIsWhole
    AcceptedIsRegistered
PROPERTY OpenersConnect
