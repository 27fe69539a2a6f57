SPECIFICATION Spec
CONSTANTS
  a = a
  b = b
  l1 = l1
  l2 = l2
  l3 = l3
  s1 = s1
  s2 = s2
  e1 = e1
  e2 = e2
  o1 = o1
  o2 = o2
  c1 = c1
  c2 = c2
  c3 = c3
  Account = {a, b}
  LoopId = {l1, l2, l3}
  SeedKey = {s1, s2}
  Field = {"title", "outcome"}
  Value = {"x", "y"}
  Key = {e1, e2, o1}
  Label = {"Calendar event", "other"}
  Event = {e1, e2}
  CalendarLabel = "Calendar event"
  Operation = {o1, o2}
  MaxRefs = 2
  NoSeed = NoSeed
  NoLoop = NoLoop
  NoReceipt = NoReceipt
  Keep = Keep
  Client = {c1, c2}
  Calls <- SeedCalls
  MaxCalls = 4
  StartTables <- SeedTables
  NoCall = NoCall
  NoSnapshot = NoSnapshot
  NoStage = NoStage
SYMMETRY ClientSymmetry
INVARIANT TypeOK
INVARIANT StoredRefsWellFormed
INVARIANT OneLoopPerSeed
