\* Three items, one more than the charge cap, one often snoozed; three messages, one answer, two days.
CONSTANTS
  Items = {1, 2, 3}
  OftenSnoozed = {2}
  Dated = {1}
  DailyChargeCap = 2
  DailyProactiveCap = 3
  MaxMenus = 3
  MaxAnswers = 1
  MaxDays = 2
  MaxCrashes = 1
SPECIFICATION Spec
INVARIANTS
  OncePerDay
  AnswerActsOnItsMenu
  MenusMatchCharges
  DecisionLostOnlyByCrash
PROPERTIES
  AnswerClosesMenu
CHECK_DEADLOCK FALSE
