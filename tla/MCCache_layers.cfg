\* Two callers, one name in two categories, one failure or restart. The clock stops at its
\* bound, and then the lookups go on.
SPECIFICATION Spec
CONSTANTS
  Callers = {c1, c2}
  Categories = {movies, tvshows}
  WithoutGroup = {lain}
  None = None
  Error = Error
  TTL = 2
  Duration = 1
  MaxTime = 5
  MaxFaults = 1
INVARIANTS
  TypeOK
  TwoLifetimes
  NothingWithoutAsking
SYMMETRY Alike
