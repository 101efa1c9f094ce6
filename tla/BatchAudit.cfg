SPECIFICATION AuditSpec
CONSTANTS
  j1 = j1
  r1 = r1
  r2 = r2
  f1 = f1
  f2 = f2
  x = x
  y = y
  Intruder = Intruder
  Absent = Absent
  Free = Free
  Jobs = {j1}
  Runners = {r1}
  JobOf <- MCJobOf
  NoReceipt = {}
  Deleters = {r1}
  Files <- MCFiles
  Prior = {Absent, j1}
  MaxAttempts = 1
  MaxFaults = 1
  Audited = j1
  Strangers = {x, y}
  Order <- MCOrder
  Expected = {f1, f2, x}
  PageSize = 2
  MaxMeddles = 1
INVARIANTS
  AuditTypeOK
  AuditSound
  NothingMissed
  NoFalseAlarm
