\* Any tree of up to three files, two faults, one new download. A renamed
\* directory stays: deadlock is not checked.
SPECIFICATION Spec
CONSTANTS
  group_name = "BARLEY"
  NoFile = NoFile
  Trees <- UpToThree
  MaxFaults = 2
  MaxDownloads = 1
INVARIANTS
  TypeOK
  OnlyCollisionsLose
  SameAsUninterrupted
  TitleSurvivesRename
CHECK_DEADLOCK FALSE
