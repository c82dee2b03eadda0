\* A directory of two files, then one of one file: the second file shares its
\* id with the second directory. Nothing fails, nothing changes.
SPECIFICATION Spec
CONSTANTS
  d1 = d1
  d2 = d2
  f1 = f1
  f2 = f2
  f3 = f3
  a = a
  b = b
  long = long
  empty = empty
  Dirs = {d1, d2}
  Files = {f1, f2, f3}
  DirOf <- TwoAndOne
  Slots = {s1}
  Contents = {a}
  Size <- SizeOf
  None = None
  Torn = Torn
  RemoteInit <- AllA
  MaxSeq = 2
  MaxFaults = 0
  MaxChanges = 0
PROPERTIES
  OnlyCompletionSyncs
