SPECIFICATION StableViewSpec
CONSTANTS
    self = self
    p1 = p1
    p2 = p2
    p3 = p3
    Replicas <- MCReplicas
    Self = self
    MaxSeq = 2
    CheckpointInterval = 1
    Copies <- MCOnce
    Proposals <- MCProposals
    Agreed <- MCAgreed
    PeerStates <- MCPeerStates
    Unparsable = Unparsable
    Absent = Absent
    Nil = Nil
    MaxOutstanding = 1
    WaterMark = 2
    MaxView = 0
    MaxGoroutines = 1
    Followed = {}
    GetLeader <- MCLeadsOdd
    Announcers <- MCRightful
SYMMETRY Symmetry
INVARIANT NoPanic
CHECK_DEADLOCK FALSE
