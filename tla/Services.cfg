SPECIFICATION ServicesSpec
CONSTANTS
  m1 = m1
  m2 = m2
  Member = {m1, m2}
  NoMember = NoMember
  Target = {m1}
  Issued = {"drain", "resume", "restart"}
  MaxCommands = 2
  MemberBudgets <- MCMembers
  PoolSize = 2
  MaxBacklog = 2
  Arrivals = 2
  WakeBudgets <- MCWakes
  f1 = f1
  ScanFile = {f1}
  Routed <- MCRouted
  MaxVersion = 2
  MaxScanners = 4
  MaxSubmits = 2
  BackBudgets <- MCBacks
CHECK_DEADLOCK FALSE
INVARIANTS  NoWakeUpLost OneMoreAtMost ScannedOnce
PROPERTIES CommandsSettle BacklogClears 
