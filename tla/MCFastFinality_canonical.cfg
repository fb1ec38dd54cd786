SPECIFICATION Spec
CONSTANTS
    f = f
    g = g
    r = r
    v = v
    v1 = v1
    v2 = v2
    v3 = v3
    p = p
    q = q
    Voters = {f, v1, v2, v}
    Byzantine = {f}
    Rewinders = {}
    BlockProducers <- MixedSealers
    Payloads = {p}
    Quorums <- VoteQuorums
    ChainHeadChanSize = 2
    MaxNumber = 3
    MaxBlocks = 4
CHECK_DEADLOCK FALSE
PROPERTY
    VotesForCanonical
