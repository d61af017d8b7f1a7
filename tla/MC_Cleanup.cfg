SPECIFICATION Spec
CONSTANTS
  Rows = {r1, r2}
  Day = 4
  DB_CLEANUP_DAYS = 1
  Offset = 0
  Start = 4
  MaxTime = 17
PROPERTIES DeletesOnlyOld DeletesWithinADay
