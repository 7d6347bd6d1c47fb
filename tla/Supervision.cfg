\* One monitored condition, two webhook calls on their way, one crash.
CONSTANTS
  Conditions = {"disk_usage"}
  MaxAttempts = 1
  MaxPosts = 2
  MaxCrashes = 1
SPECIFICATION FairSpec
INVARIANTS
  OneMailPerWindow
  OutdatedOnlyByLoss
PROPERTIES
  DownNoticed
  PersistentConditionMailed
