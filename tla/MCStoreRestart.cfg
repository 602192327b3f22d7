SPECIFICATION RestartSpec
CONSTANTS
    self = self
    p1 = p1
    p2 = p2
    p3 = p3
    Replicas <- MCReplicas
    Self = self
    MaxSeq = 3
    CheckpointInterval = 2
    Copies <- MCOnce
    Proposals <- MCProposals
    Agreed <- MCAgreed
    PeerStates <- MCPeerStates
    Unparsable = Unparsable
    Absent = Absent
    Nil = Nil
SYMMETRY Symmetry
INVARIANT ExecutedOnce
