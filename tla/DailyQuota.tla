----------------------------- MODULE DailyQuota -----------------------------
(***************************************************************************)
(* What the outbox promises to the modules that enqueue into it, without   *)
(* any of its machinery: a message waits, is sent and recorded, or is      *)
(* given up; a proactive message is sent only while the civil day has      *)
(* quota left (RF-24).  A message that was sent may come back, with its    *)
(* unit of the quota, as long as its recording is not done; one that is    *)
(* done or given up never changes again.                                   *)
(***************************************************************************)
EXTENDS Naturals, FiniteSets

CONSTANTS
  Messages,          \* identities of messages
  DailyCap           \* proactive messages a civil day admits

VARIABLES
  phase,             \* phase[m]: "new", "waiting", "sent", "done" or
                     \* "givenUp"
  proactive,         \* the messages that count against the quota
  spent              \* proactive messages sent this civil day and not back

quotaVars == <<phase, proactive, spent>>

Init ==
  /\ phase = [m \in Messages |-> "new"]
  /\ proactive = {}
  /\ spent = {}

Move(m, from, to) ==
  /\ phase[m] = from
  /\ phase' = [phase EXCEPT ![m] = to]

\* A module hands a message over.
Accept(m) ==
  /\ Move(m, "new", "waiting")
  /\ proactive' \in {proactive, proactive \cup {m}}
  /\ UNCHANGED spent

\* A reply is free; a proactive message takes one unit of the day's quota.
Deliver(m) ==
  /\ Move(m, "waiting", "sent")
  /\ m \in proactive => Cardinality(spent) < DailyCap
  /\ spent' = IF m \in proactive THEN spent \cup {m} ELSE spent
  /\ UNCHANGED proactive

\* The conversation has it.
Confirm(m) ==
  /\ Move(m, "sent", "done")
  /\ UNCHANGED <<proactive, spent>>

\* The conversation has not: the owner has the message, and the queue again.
TakeBack(m) ==
  /\ Move(m, "sent", "waiting") \/ Move(m, "sent", "givenUp")
  /\ spent' = spent \ {m}
  /\ UNCHANGED proactive

GiveUp(m) ==
  /\ Move(m, "waiting", "givenUp")
  /\ UNCHANGED <<proactive, spent>>

NextDay ==
  /\ spent' = {}
  /\ UNCHANGED <<phase, proactive>>

Next ==
  \/ \E m \in Messages : Accept(m) \/ GiveUp(m)
  \/ \E m \in Messages : Deliver(m) \/ Confirm(m) \/ TakeBack(m)
  \/ NextDay

Spec == Init /\ [][Next]_quotaVars

\* The quota itself, of which the outbox's DailyCap is the image.
QuotaKept == Cardinality(spent) <= DailyCap
=============================================================================
