CONSTANTS
  g = g a1 = a1 a2 = a2 a3 = a3 a4 = a4 b1 = b1 b2 = b2
  x = x y = y z = z p = p q = q
  Headers <- ForkHeaders
  Genesis = g
  BlsPublicKeys <- ForkKeys
  Voters = {x, y, z}
  Votes <- FaultyVotes
  Peers = {p, q}
  maxCurVoteAmountPerBlock = 2
  maxFutureVoteAmountPerBlock = 2
  maxFutureVotePerPeer = 2
  lowerLimitOfVoteBlockNumber = 3
  upperLimitOfVoteBlockNumber = 1
  chainHeadChanSize = 1
  UintModulus = 16
SPECIFICATION Spec
INVARIANTS
  QueueMatchesBoxes
  CurVotesVerified
