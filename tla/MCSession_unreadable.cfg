\* One slot, two directories of which one cannot be read, nothing else goes wrong.
SPECIFICATION FairSpec
CONSTANTS
  Slots = {s1}
  walker = walker
  Dirs = {d1, d2}
  Unreadable = {d1}
  None = None
  MaxRetries = 2
  Lasting = FALSE
  MaxFiles = 1
  MaxCategories = 1
  MaxEvents = 0
PROPERTIES
  WalkEnds
CHECK_DEADLOCK FALSE
