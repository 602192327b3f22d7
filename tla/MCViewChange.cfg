SPECIFICATION Spec
CONSTANTS
    self = self
    p1 = p1
    p2 = p2
    p3 = p3
    Replicas <- MCReplicas
    Self = self
    GetLeader <- MCSecond
    Nobody = Nobody
    MaxView = 2
    MaxSeq = 3
    MaxTasks = 3
    Votes <- MCVotes
    Content <- MCContent
INVARIANTS TypeOK CertifiedSurvives NewViewFits NoLostAnnouncement NodeInNewestView
CHECK_DEADLOCK FALSE
