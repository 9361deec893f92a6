SPECIFICATION Spec
CONSTANTS
  Conn = {c1, c2}
  Sampler = {k1, k2}
  Store = {s1}
  Intervals = {2}
  Retry = 1
  MaxUsers = 1
  None = None
INVARIANT SamplesSpaced
