SPECIFICATION Spec
CONSTANTS
  b1 = b1 b2 = b2 b3 = b3 b4 = b4 b5 = b5 b6 = b6
  p1 = p1 p2 = p2 p3 = p3 x = x y = y
  finalityVoteCache = 2
  Blocks <- Siblings
INVARIANT AlertsAreRuleOne
