--------------------------- MODULE MCCommitments ---------------------------
(* The instance TLC checks: the appointments are interchangeable.          *)
EXTENDS Commitments, TLC

AppointmentSymmetry == Permutations(Appointments)
=============================================================================
