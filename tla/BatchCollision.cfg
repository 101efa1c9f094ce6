SPECIFICATION FairSpec
CONSTANTS
  j1 = j1
  j2 = j2
  r1 = r1
  r2 = r2
  r3 = r3
  f1 = f1
  f2 = f2
  Foreign = Foreign
  Absent = Absent
  Free = Free
  Jobs = {j1, j2}
  Runners = {r1, r2}
  JobOf <- TwoJobs
  NoReceipt = {}
  Deleters = {r1, r2}
  Files <- OneFile
  Prior = {Absent}
  MaxAttempts = 2
  MaxFaults = 0
PROPERTIES
  NeverOverwrites
