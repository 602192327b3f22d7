SPECIFICATION FairSpec
CONSTANTS
    r1 = r1
    r2 = r2
    r3 = r3
    r4 = r4
    Replicas <- MCReplicas
    Digests <- MCDigests
    Empty = ""
    Nil = Nil
INVARIANTS TypeOK FlagsBacked VotesMatchDigest NoLostCallback
PROPERTIES CallbackJustified PreparedReported CommittedReported
