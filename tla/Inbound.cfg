\* Two messages of any kind, two items each, one recovered per boot, two crashes.
CONSTANTS
  Contents = {dentist, milk}
  None = None
  Messages = {1, 2}
  MaxItems = 2
  MaxPerBoot = 1
  MaxCrashes = 2
SPECIFICATION FairSpec
INVARIANTS
  RedoneOnlyByCrash
  ForgottenOnlyAtBoot
PROPERTIES
  CaptureComplete
  ImplementsHandling
  EveryMessageSettles
