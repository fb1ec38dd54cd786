SPECIFICATION FeedSpec
CONSTANTS
    f = f
    g = g
    v = v
    p = p
    Voters = {f, g, v}
    Byzantine = {f, g}
    Rewinders = {}
    BlockProducers <- FeedProducers
    Payloads = {p}
    Quorums <- FeedQuorums
    ChainHeadChanSize = 2
    MaxNumber = 5
    MaxBlocks = 6
CHECK_DEADLOCK FALSE
PROPERTY
    NotifiesNewBlocks
