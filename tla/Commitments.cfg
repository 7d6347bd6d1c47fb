\* Two interchangeable appointments, three event rows, two remote events.
CONSTANTS
  Appointments = {a1, a2}
  MaxEvents = 3
  MaxRemotes = 2
SPECIFICATION Spec
SYMMETRY AppointmentSymmetry
INVARIANTS
  OneLiveEventPerItem
  DroppedIsQuiet
  LinksMatch
  DuplicateNeedsUnlinked
CHECK_DEADLOCK FALSE
