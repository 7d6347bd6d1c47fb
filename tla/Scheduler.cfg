\* One recurring type, two reminders, two overlapping ticks, two crashes.
CONSTANTS
  Types = {cobranca}
  Reminders = {r1, r2}
  Ticks = {t1, t2}
  MaxCrashes = 2
  None = None
SPECIFICATION FairSpec
INVARIANTS
  OneLivePerType
  StrandedOnlyByCrash
  RepeatNeedsOverlap
PROPERTIES
  DueReminderRuns
  TypeKeepsFiring
  BootCompletes
