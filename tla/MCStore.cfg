SPECIFICATION Spec
CONSTANTS
    self = self
    p1 = p1
    p2 = p2
    p3 = p3
    Replicas <- MCReplicas
    Self = self
    MaxSeq = 4
    CheckpointInterval = 2
    Copies <- MCRepeated
    Proposals <- MCProposals
    Agreed <- MCAgreed
    PeerStates <- MCPeerStates
    Unparsable = Unparsable
    Absent = Absent
    Nil = Nil
INVARIANTS TypeOK ExecutedOnce NoneSkipped WaitsOnlyAfterJump VotesStillOpen StableBackedByCorrect
PROPERTIES ExecutesTheCommitted NeverBack ImplementsLog StateFollows
