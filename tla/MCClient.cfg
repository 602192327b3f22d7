SPECIFICATION Spec
CONSTANTS
    r1 = r1
    r2 = r2
    r3 = r3
    r4 = r4
    v1 = v1
    v2 = v2
    s1 = s1
    s2 = s2
    Replicas <- MCReplicas
    Ids <- MCIds
    Values <- MCValues
    Slots <- MCSlots
    None = None
INVARIANTS TypeOK AnswerBacked LostOnlyOnOverlap
PROPERTY ResponseReturns
CHECK_DEADLOCK FALSE
