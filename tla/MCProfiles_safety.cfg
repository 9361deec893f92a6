SPECIFICATION Spec
CONSTANTS
  Name <- Names
  StemOf <- Stems
  FileOf <- OneFilePerStem
  Host = {h1}
  Login = {u1}
  Catalog = {c1}
  MaxLogins = 1
  MaxAttempts = 2
  Absent = Absent
  Empty = Empty
  None = None
INVARIANTS
  TypeOK
  StemsDistinct
  InSync
  Recoverable
  DefaultIsCurrent
PROPERTY OthersUntouched
