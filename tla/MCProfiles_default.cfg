SPECIFICATION Spec
CONSTANTS
  Name <- Names
  StemOf <- Stems
  FileOf <- OneFilePerStem
  Host = {h1}
  Login = {u1}
  Catalog = {c1, c2}
  MaxLogins = 2
  MaxAttempts = 1
  Absent = Absent
  Empty = Empty
  None = None
INVARIANT RestartReconnects
