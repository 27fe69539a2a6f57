SPECIFICATION Spec
CONSTANTS
  r1 = r1
  r2 = r2
  t1 = t1
  Request = {r1, r2}
  Token = {t1}
  Server = Server
  Tombstone = Tombstone
  NoOverride = NoOverride
  Entries = {"name"}
  NoView = NoView
  NoCredential = NoCredential
  MaxVersion = 1
  MaxProjects = 1
PROPERTY ReplacementNeverProvisions
