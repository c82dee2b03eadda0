\* Two slots and the walker, one thing goes wrong. The run stops when the files and
\* the categories are used up: deadlock is not checked.
SPECIFICATION FairSpec
CONSTANTS
  Slots = {s1, s2}
  walker = walker
  Dirs = {d1}
  Unreadable = {}
  None = None
  MaxRetries = 3
  Lasting = TRUE
  MaxFiles = 1
  MaxCategories = 1
  MaxEvents = 1
INVARIANTS
  TypeOK
  BudgetOutlivesRecovery
PROPERTIES
  OperationsEnd
CHECK_DEADLOCK FALSE
