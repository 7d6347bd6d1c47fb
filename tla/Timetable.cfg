\* Three days of six slots.  The eve is announced in slot 4, the morning in
\* slot 1; to leave takes two slots.
CONSTANTS
  DayLength = 6
  Horizon = 17
  PollLag = 1
  HandlerTime = 1
  Hours = {2, 4}
  VesperaHour = 4
  ManhaHour = 1
  Prep = 2
  Starts = {4, 6, 11, 15}
  MaxOutages = 2
SPECIFICATION Spec
INVARIANTS
  RitualKeepsPace
  PreparedInTime
PROPERTIES
  RitualOncePerDay
  RetroactiveOnlyAfterOutage
CHECK_DEADLOCK FALSE
