SPECIFICATION FairSpec
CONSTANTS
    f1 = f1
    w1 = w1
    r1 = r1
    Flows = {f1}
    Workers = {}
    Replays = {r1}
    Disturbances = {"raise", "crash"}
    MaxDamage = 1
CHECK_DEADLOCK FALSE
INVARIANTS
    ReadyIsReadable
PROPERTY SurvivorIsRecorded
