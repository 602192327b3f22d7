SPECIFICATION NodeSpec
CONSTANTS
    self = self
    p1 = p1
    p2 = p2
    p3 = p3
    Replicas <- MCReplicas
    Self = self
    MaxSeq = 1
    CheckpointInterval = 1
    Copies <- MCOnce
    Proposals <- MCProposals
    Agreed <- MCAgreed
    PeerStates <- MCPeerStates
    Unparsable = Unparsable
    Absent = Absent
    Nil = Nil
    MaxOutstanding = 1
    WaterMark = 1
    MaxView = 1
    MaxGoroutines = 1
    Followed = {}
    GetLeader <- MCLeadsOdd
    Announcers <- MCRightful
SYMMETRY Symmetry
PROPERTY ViewChecked
CHECK_DEADLOCK FALSE
