SPECIFICATION Spec
CONSTANTS
    f = f
    g = g
    r = r
    v = v
    v1 = v1
    v2 = v2
    v3 = v3
    p = p
    q = q
    Voters = {f, g, v}
    Byzantine = {f, g}
    Rewinders = {}
    BlockProducers <- FaultySealer
    Payloads = {p, q}
    Quorums <- VoteQuorums
    ChainHeadChanSize = 2
    MaxNumber = 4
    MaxBlocks = 6
CHECK_DEADLOCK FALSE
SYMMETRY SamePayloads
INVARIANTS
    VotesFollowJustified
    FinalIsFinal
    FinalityAgreement
PROPERTIES
    FinalizedStaysCanonical
