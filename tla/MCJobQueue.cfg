SPECIFICATION QSpec
CONSTANTS
  p1 = p1
  p2 = p2
  c1 = c1
  c2 = c2
  n1 = n1
  n2 = n2
  hq = hq
  lq = lq
  NoProfile = NoProfile
  NoNode = NoNode
  NoWorker = NoWorker
  Request <- MCRecorded
  Path = {p1, p2}
  Config = {c1, c2}
  Kind = {"convert", "rename"}
  Profile = {hq, lq}
  Supported = {"convert", "rename"}
  Node = {n1, n2}
  WorkerId = {1}
  Priority = {0}
  Cap <- MCCap
  Cost <- MCCost
  Weight <- MCWeight
  Budget = 2
  MaxJobs = 3
SYMMETRY Symmetry
INVARIANTS QTypeOK DuplicatesAreRevivals RetriesSpent CapRespected BudgetRespected
PROPERTIES SettledStays
