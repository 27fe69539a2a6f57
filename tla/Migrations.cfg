SPECIFICATION FairSpec
CONSTANTS
  r1 = r1
  r2 = r2
  Runner = {r1, r2}
  N = 3
  NLegacy = 2
  Digest = {"a", "b"}
  Accepted <- MCAccepted
  None = None
  Null = Null
INVARIANT RecordsTellTheSchema
PROPERTY GateComesFirst
PROPERTY LockIsReleased
PROPERTY OneHistory
