SPECIFICATION Spec
CONSTANTS
  Tasks = {t1, t2}
  NoTask = NoTask
  Overlap = TRUE
  Faults = FALSE
  Found <- SetLeft
INVARIANTS OwnReading
