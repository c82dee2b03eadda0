\* A movie and an album; two things happen around them: a new file, a failing
\* call, the end of the process, somebody else in the library. A directory that is
\* in the library, or whose process died, stays: deadlock is not checked.
SPECIFICATION FairSpec
CONSTANTS
  Dirs = {m1, a1}
  LayoutAware = {m1}
  Likeness <- Alike
  Canonicals <- Known
  None = None
  user = user
  MaxEvents = 2
INVARIANTS
  TypeOK
  OnlyLookalikesLose
  OwnPlace
  CanonicalTitleUsed
PROPERTIES
  LibraryKept
  Shelved
  IngestReachesPlex
CHECK_DEADLOCK FALSE
