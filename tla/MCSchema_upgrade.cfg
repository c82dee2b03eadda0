\* Two directories in any state of any version; two opens are cut short.
SPECIFICATION FairSpec
CONSTANTS
  Dirs = {d1, d2}
  Absent = Absent
  MaxStops = 2
INVARIANTS
  TypeOK
  RowsKept
  CurrentWhenOpen
PROPERTIES
  OpenEnds
