SPECIFICATION FairSpec
CONSTANTS
  Conn = {c1, c2}
  Sampler = {k1, k2}
  Store = {s1}
  Intervals = {1, 2}
  Retry = 1
  MaxUsers = 1
  None = None
VIEW WhileHeld
INVARIANTS
  TypeOK
  OneSampler
  SamplerRuns
PROPERTIES
  ConnectionsClose
  SamplersEnd
  KeepsSampling
