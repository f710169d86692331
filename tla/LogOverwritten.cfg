SPECIFICATION DetailsSpec
CONSTANTS
  Claimer = {c1, c2, c3}
  r1 = r1
  r2 = r2
  r3 = r3
  CRow = {r1, r2, r3}
  Capped = Capped
  Uncapped = Uncapped
  ProfileOf <- MCProfiles
  CapOf = 1
  NoClaimer = NoClaimer
  NoRow = NoRow
  Policies = {"aggressive", "sw_decode_only", "hw_alt", "hw_only"}
  t1 = t1
  t2 = t2
  Task = {t1, t2}
  Folder = {"a", "b"}
  Stranger = Stranger
  Setups <- MCSetups
  MaxNumber = 3
  FileBudgets <- MCFiles
  HandoverSetups <- MCHandovers
  Delays = 1
  ra = ra
  rb = rb
  Repairer = {ra, rb}
  RepairCases <- MCRepairs
  m1 = m1
  m2 = m2
  Renamer = {m1, m2}
  RenameCases <- MCRenamings
  NoPlex = NoPlex
  q1 = q1
  q2 = q2
  Asker = {q1, q2}
  Unnamed = Unnamed
  SubmitCases <- MCSubmits
  Archiver = {a1, a2}
  BatchMax = 2
  HoursPerDay = 2
  KeepDays = 1
  TtlDays = 0
  MaxRows = 2
  MaxHour = 5
  LogBudgets <- MCLogs
CHECK_DEADLOCK FALSE
INVARIANTS NoDataLoss
