SPECIFICATION Spec
CONSTANTS
  Proc = {p1, p2}
  Key = {k1, k2, k3}
  File = {f1, f2}
  Keychain = FALSE
  None = None
  Blank = Blank
  Plain = Plain
  Torn = Torn
SYMMETRY MasterKeySymmetry
INVARIANTS TypeOK LossHasCause SettledOpens
