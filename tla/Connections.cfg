SPECIFICATION FairSpec
CONSTANTS
  r1 = r1
  r2 = r2
  t1 = t1
  Request = {r1, r2}
  Token = {t1}
  Server = Server
  Tombstone = Tombstone
  NoOverride = NoOverride
  Entries = {"name", "id", "absent"}
  NoView = NoView
  NoCredential = NoCredential
  MaxVersion = 2
  MaxProjects = 2
INVARIANT TypeOK
INVARIANT VersionNamesContent
INVARIANT NoResurrection
PROPERTY NoLostUpdate
PROPERTY CredentialsDrain
PROPERTY ProvisioningStops
PROPERTY OnlyOvertakenRequestsProvision
PROPERTY SecondProjectNeedsARace
PROPERTY ActsAsRegister
