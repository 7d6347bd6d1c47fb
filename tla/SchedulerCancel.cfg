\* One reminder selected behind a slow recurring job is cancelled meanwhile.
CONSTANTS
  Types = {briefing}
  Reminders = {r1}
  Ticks = {t1}
  MaxCrashes = 0
  None = None
SPECIFICATION Spec
PROPERTIES
  CancelledStaysCancelled
