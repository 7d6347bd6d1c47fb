------------------------------ MODULE ReturnMode ------------------------------
(***************************************************************************)
(* The return mode (modules/return-mode): after 48 hours of silence the    *)
(* charges stop, and the first message of the owner is answered with one   *)
(* summary instead of what piled up.  Its state is derived from the table  *)
(* messages: the age of the newest row with direction 'in'.                *)
(*                                                                         *)
(* The cost monitor keeps its records in the same table.  Every answer of  *)
(* the language model, to a message, a briefing or a review, is a row that *)
(* recordLlmUsage writes with the owner's address and direction 'in'.      *)
(*                                                                         *)
(* Time passes in half days: one ritual each, the briefing or the review.  *)
(***************************************************************************)
EXTENDS Naturals

CONSTANT Threshold       \* 48 hours in half days; ages count no further

Never == Threshold + 1
Ages == 0 .. Never

VARIABLES
  lastInbound,       \* age of the newest row with direction 'in'
  ritualDue,         \* the ritual of this half day has not run
  lastWritten,       \* age of the owner's last message (history)
  silent,            \* the mode FEAT-007 describes: on 48 hours after that
                     \* message, off with the next one or ritual (history)
  charged            \* a charge went out in that mode (history)

silenceVars == <<lastInbound, ritualDue, lastWritten, silent, charged>>

SilenceTypeOK ==
  /\ lastInbound \in Ages /\ lastWritten \in Ages
  /\ ritualDue \in BOOLEAN
  /\ silent \in BOOLEAN /\ charged \in BOOLEAN

SilenceInit ==
  /\ lastInbound = Never
  /\ ritualDue = TRUE
  /\ lastWritten = Never
  /\ silent = FALSE
  /\ charged = FALSE

\* No inbound row at all is not a silence.
IsReturnModeActive(age) == age # Never /\ age >= Threshold

\* The row is inserted; checkReentry answers with the summary, which leaves
\* nothing behind that the mode depends on.
OwnerWrites ==
  /\ lastInbound' = 0 /\ lastWritten' = 0
  /\ silent' = FALSE
  /\ UNCHANGED <<ritualDue, charged>>

\* An answer of the model to the triage, the brain or a ritual.
RecordLlmUsage == lastInbound' = 0

MessageAnswered ==
  /\ lastWritten = 0
  /\ RecordLlmUsage
  /\ UNCHANGED <<ritualDue, lastWritten, silent, charged>>

\* The briefing or the review, drafted by the model or by the fallback.
Ritual ==
  /\ ritualDue
  /\ ritualDue' = FALSE
  /\ silent' = FALSE
  /\ RecordLlmUsage \/ UNCHANGED lastInbound
  /\ UNCHANGED <<lastWritten, charged>>

\* The job cobranca with something eligible: isSuppressed is asked first.
CheckAndSendDue ==
  /\ ~IsReturnModeActive(lastInbound)
  /\ charged' = (charged \/ silent)
  /\ UNCHANGED <<lastInbound, ritualDue, lastWritten, silent>>

Older(age) == IF age < Threshold THEN age + 1 ELSE age

HalfDayPasses ==
  /\ lastInbound' = Older(lastInbound)
  /\ lastWritten' = Older(lastWritten)
  /\ silent' = (silent \/ (lastWritten < Threshold /\ lastWritten' = Threshold))
  /\ ritualDue' = TRUE
  /\ UNCHANGED <<charged>>

SilenceNext ==
  \/ OwnerWrites \/ MessageAnswered \/ Ritual
  \/ CheckAndSendDue \/ HalfDayPasses

SilenceSpec == SilenceInit /\ [][SilenceNext]_silenceVars

-----------------------------------------------------------------------------

\* RF-10: between 48 hours of silence and the ritual or the message that ends
\* the return mode, the owner is not charged.
SilenceSuppresses == ~charged

\* What is left of it: the owner is charged in his silence only while a row
\* that he did not write is newer than his last message.
ChargedOverUsageRow ==
  [][charged' # charged => lastInbound < lastWritten]_silenceVars

=============================================================================
