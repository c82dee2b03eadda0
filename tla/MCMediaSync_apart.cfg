\* Two directories of one file each, whose ids may clash with the ids of files;
\* one crash or failing Database call, a remote that does not change.
SPECIFICATION Spec
CONSTANTS
  d1 = d1
  d2 = d2
  f1 = f1
  f2 = f2
  f3 = f3
  a = a
  b = b
  long = long
  empty = empty
  Dirs = {d1, d2}
  Files = {f1, f2}
  DirOf <- Apart
  Slots = {s1, s2}
  Contents = {a}
  Size <- SizeOf
  None = None
  Torn = Torn
  RemoteInit <- AllA
  MaxSeq = 2
  MaxFaults = 1
  MaxChanges = 0
INVARIANTS
  TypeOK
  ClaimExclusive
  FingerprintsTracked
  DrainedPool
  CascadeComplete
PROPERTIES
  QueueSpec
