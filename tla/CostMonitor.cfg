\* Two cold calls in slots that touch are a regression; the job runs every two
\* slots and looks back three.
CONSTANTS
  Threshold = 2
  MaxGap = 1
  Interval = 2
  Window = 3
  MaxRows = 5
  Horizon = 7
SPECIFICATION CostSpec
INVARIANTS
  AlarmsMatchStreaks
CHECK_DEADLOCK FALSE
