\* Two rows, two overlapping ticks, a cap of one, three attempts, two crashes.
CONSTANTS
  Messages = {1, 2}
  Ticks = {t1, t2}
  DailyCap = 1
  MaxAttempts = 3
  MaxCrashes = 2
  None = None
SPECIFICATION FairSpec
INVARIANTS
  DailyCapRespected
  OrphansComeFromCrashes
  ResendsBounded
  RitualsFirst
PROPERTIES
  ImplementsQuota
  EveryMessageSettles
