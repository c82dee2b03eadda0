\* One directory of two files, under fairness; one crash or failing call.
SPECIFICATION FairSpec
CONSTANTS
  d1 = d1
  d2 = d2
  f1 = f1
  f2 = f2
  f3 = f3
  a = a
  b = b
  long = long
  empty = empty
  Dirs = {d1}
  Files = {f1, f2}
  DirOf <- Together
  Slots = {s1, s2}
  Contents = {a}
  Size <- SizeOf
  None = None
  Torn = Torn
  RemoteInit <- AllA
  MaxSeq = 1
  MaxFaults = 1
  MaxChanges = 0
PROPERTIES
  RunEnds
  OrphanRecovered
  EligibleServed
