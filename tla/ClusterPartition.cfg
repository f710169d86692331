SPECIFICATION Spec
CONSTANTS
  p1 = p1
  p2 = p2
  c1 = c1
  n1 = n1
  n2 = n2
  w1 = w1
  w2 = w2
  NoProfile = NoProfile
  NoNode = NoNode
  NoWorker = NoWorker
  NoConfig = NoConfig
  Request <- MCRetried
  Path = {p1, p2}
  Config = {c1}
  Kind = {"convert"}
  Profile = {}
  Supported = {"convert"}
  Node = {n1, n2}
  WorkerId = {w1}
  Priority = {}
  Cap <- MCEmpty
  Cost <- MCEmpty
  Weight <- MCEmpty
  Budget = 0
  MaxJobs = 1
  Slots = 1
  Allowances <- MCPartition
SYMMETRY Symmetry
PROPERTIES KeepsPromise
