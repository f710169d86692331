SPECIFICATION AuditSpec
CONSTANTS
  a1 = a1
  a2 = a2
  f1 = f1
  f2 = f2
  NoAuditor = NoAuditor
  Auditor = {a1, a2}
  MediaFile = {f1, f2}
  Library <- MCLibraries
  Twins <- MCTwins
  BatchSize = 1
  MaxRuns = 1
  AuditBudgets <- MCAuditOnes
INVARIANTS  CountedOnce 
PROPERTIES RunsEnd
