\* One file, contents of three lengths, any first tree, two changes of the
\* remote, one fault; one slot is enough for one file.
SPECIFICATION Spec
CONSTANTS
  d1 = d1
  d2 = d2
  f1 = f1
  f2 = f2
  f3 = f3
  a = a
  b = b
  long = long
  empty = empty
  Dirs = {d1}
  Files = {f1}
  DirOf <- Together
  Slots = {s1}
  Contents = {a, b, long, empty}
  Size <- SizeOf
  None = None
  Torn = Torn
  RemoteInit <- AnyTree
  MaxSeq = 2
  MaxFaults = 1
  MaxChanges = 2
INVARIANTS
  SyncedIsVerified
