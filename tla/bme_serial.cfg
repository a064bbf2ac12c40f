SPECIFICATION FairSpec
CONSTANTS
  Tasks = {t1}
  NoTask = NoTask
  Overlap = FALSE
  Faults = TRUE
  Found <- AnyLeft
INVARIANTS TypeOK CalibSound ConfigInSleep OwnReading
PROPERTIES SleepKeepsSettings Terminates
