SPECIFICATION Spec
CONSTANTS
  Name <- CaseNames
  StemOf <- CaseStems
  FileOf <- OneFileForBoth
  Host = {h1}
  Login = {u1}
  Catalog = {c1}
  MaxLogins = 1
  MaxAttempts = 1
  Absent = Absent
  Empty = Empty
  None = None
INVARIANT ProfilesOnDisk
