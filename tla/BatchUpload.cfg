SPECIFICATION FairSpec
CONSTANTS
  j1 = j1
  j2 = j2
  r1 = r1
  r2 = r2
  r3 = r3
  f1 = f1
  f2 = f2
  Foreign = Foreign
  Absent = Absent
  Free = Free
  Jobs = {j1}
  Runners = {r1, r2, r3}
  JobOf <- OneJob3
  NoReceipt = {r2}
  Deleters = {r1, r2}
  Files <- TwoFiles
  Prior = {Absent, Foreign, j1}
  MaxAttempts = 2
  MaxFaults = 2
INVARIANTS
  TypeOK
  NoFileLost
  RecordsAreTrue
  ReceiptVouches
PROPERTIES
  StateNeverRegresses
  BatchCompletes
