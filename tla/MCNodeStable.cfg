SPECIFICATION StableViewSpec
CONSTANTS
    self = self
    p1 = p1
    p2 = p2
    p3 = p3
    Replicas <- MCReplicas
    Self = self
    MaxSeq = 2
    CheckpointInterval = 1
    Copies <- MCOnce
    Proposals <- MCProposals
    Agreed <- MCAgreed
    PeerStates <- MCPeerStates
    Unparsable = Unparsable
    Absent = Absent
    Nil = Nil
    MaxOutstanding = 1
    WaterMark = 1
    MaxView = 1
    MaxGoroutines = 2
    Followed = {1}
    GetLeader <- MCLeadsOdd
    Announcers <- MCRightful
SYMMETRY Symmetry
INVARIANTS BelowHighWater MissingOnlyIfStable SlotLostOnlyIfRepeated
PROPERTIES NilOnlyInWindow FreshNumbers
CHECK_DEADLOCK FALSE
