SPECIFICATION NodeSpec
CONSTANTS
    self = self
    p1 = p1
    p2 = p2
    p3 = p3
    Replicas <- MCReplicas
    Self = self
    MaxSeq = 2
    CheckpointInterval = 2
    Copies <- MCOnce
    Proposals <- MCProposals
    Agreed <- MCAgreed
    PeerStates <- MCPeerStates
    Unparsable = Unparsable
    Absent = Absent
    Nil = Nil
    MaxOutstanding = 1
    WaterMark = 2
    MaxView = 1
    MaxGoroutines = 1
    Followed = {}
    GetLeader <- MCLeadsOdd
    Announcers <- MCRightful
SYMMETRY Symmetry
PROPERTY FreshNumbers
CHECK_DEADLOCK FALSE
