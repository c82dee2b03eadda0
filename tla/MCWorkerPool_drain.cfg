\* Three slots, two rows, two faults.
SPECIFICATION FairSpec
CONSTANTS
  Slots = {s1, s2, s3}
  Rows = {r1, r2}
  None = None
  MaxFaults = 2
INVARIANTS
  TypeOK
  OneOwner
  ResultIsTrue
PROPERTIES
  PhaseSpec
  DrainEnds
