SPECIFICATION Spec
CONSTANTS
    f1 = f1
    w1 = w1
    r1 = r1
    Flows = {f1}
    Workers = {w1}
    Replays = {r1}
    Disturbances = {"raise", "crash"}
    MaxDamage = 0
CHECK_DEADLOCK FALSE
INVARIANTS
    StagesRunOnceInOrder
    SurvivorIsEvidenced
    OneDecision
PROPERTY EndedStagesStay
