SPECIFICATION FairSpec
CONSTANTS
  c1 = c1
  c2 = c2
  k1 = k1
  Caller = {c1, c2}
  Key = {k1}
  NoKey = NoKey
  MaxAttempts = 3
  MaxCalls = 2
INVARIANT OneEffect
INVARIANT AnswersAreTrue
PROPERTY EveryCallEnds
PROPERTY ActsAsWrites
