------------------------------- MODULE Outbox -------------------------------
(***************************************************************************)
(* The outgoing queue (core/outbox): the table outbox_messages and the     *)
(* processor a 5 s timer fires.  A run of the processor takes a snapshot   *)
(* of the due rows and sends them one by one; every await (the random      *)
(* delay of a proactive message, the HTTP call, the alert e-mail) lets     *)
(* another timer tick, an enqueue, midnight or a crash in between.         *)
(*                                                                         *)
(* Columns are functions of the row.  Of the two timestamps the code       *)
(* compares only what the comparison tells is kept: retry_after is in the  *)
(* future (backoff), delivered_at is in the current civil day of           *)
(* Sao Paulo (deliveredToday).                                             *)
(***************************************************************************)
EXTENDS Naturals, FiniteSets

CONSTANTS
  Messages,          \* autoincrement ids of outbox rows
  Ticks,             \* timer ticks whose runs may overlap
  DailyCap,          \* DAILY_PROACTIVE_CAP
  MaxAttempts,       \* MAX_ATTEMPTS
  MaxCrashes,        \* bound: process crashes per behaviour
  None               \* a run that holds no row

ASSUME OutboxAssumption ==
  /\ Messages \subseteq Nat
  /\ DailyCap \in Nat \ {0}
  /\ MaxAttempts \in Nat \ {0}
  /\ MaxCrashes \in Nat
  /\ None \notin Messages

VARIABLES
  (* the table *)
  status,            \* "absent" before the INSERT, then the column
  isProactive,       \* rows that count against the daily cap
  isAnchor,          \* briefing and evening review
  attempts,          \* failed sends of the row
  backoff,           \* rows whose retry_after is still in the future
  deliveredToday,    \* rows whose delivered_at lies in this civil day
  (* the processor *)
  isRunning,         \* its in-memory flag
  pc,                \* where each run stands
  todo,              \* rows of the run's snapshot not yet processed
  current,           \* the row the run has claimed
  (* the world *)
  accepted,          \* times WhatsApp took the message (history)
  takenToday,        \* proactive messages it took in this civil day (history)
  lostToday,         \* those of them that no delivered row shows (history)
  crashes

table == <<status, isProactive, isAnchor, attempts, backoff, deliveredToday>>
processor == <<isRunning, pc, todo, current>>
vars == <<status, isProactive, isAnchor, attempts, backoff, deliveredToday,
          isRunning, pc, todo, current, accepted, takenToday, lostToday, crashes>>
history == <<accepted, takenToday, lostToday>>

Statuses == {"absent", "pending", "sending", "delivered", "failed"}
Places == {"idle", "loop", "delay", "send", "record", "alert"}

TypeOK ==
  /\ status \in [Messages -> Statuses]
  /\ isProactive \subseteq Messages
  /\ isAnchor \subseteq isProactive
  /\ attempts \in [Messages -> 0 .. MaxAttempts]
  /\ backoff \subseteq Messages
  /\ deliveredToday \subseteq Messages
  /\ isRunning \in BOOLEAN
  /\ pc \in [Ticks -> Places]
  /\ todo \in [Ticks -> SUBSET Messages]
  /\ current \in [Ticks -> Messages \cup {None}]
  /\ accepted \in [Messages -> Nat]
  /\ takenToday \in Nat /\ lostToday \in Nat
  /\ crashes \in 0 .. MaxCrashes

Init ==
  /\ status = [m \in Messages |-> "absent"]
  /\ isProactive = {}
  /\ isAnchor = {}
  /\ attempts = [m \in Messages |-> 0]
  /\ backoff = {}
  /\ deliveredToday = {}
  /\ isRunning = FALSE
  /\ pc = [t \in Ticks |-> "idle"]
  /\ todo = [t \in Ticks |-> {}]
  /\ current = [t \in Ticks |-> None]
  /\ accepted = [m \in Messages |-> 0]
  /\ takenToday = 0 /\ lostToday = 0
  /\ crashes = 0

-----------------------------------------------------------------------------
(* Queries of the repository and the pure rules.                           *)

FindPending == {m \in Messages : status[m] = "pending" /\ m \notin backoff}

\* Mutant: the queue without the anchors' priority.
PrecedesById(a, b) == a <= b

\* ORDER BY is_anchor_ritual DESC, id ASC
Precedes(a, b) ==
  IF (a \in isAnchor) = (b \in isAnchor) THEN a <= b ELSE a \in isAnchor

DeliveredProactive ==
  {m \in deliveredToday : m \in isProactive /\ status[m] = "delivered"}

\* Mutant: off by one at the cap.
ProactiveCapExceeded(sentToday) == sentToday > DailyCap

ProactiveCapReached(sentToday) == sentToday >= DailyCap

RetriesExhausted(n) == n >= MaxAttempts

AtFront(t, m) ==
  /\ pc[t] = "loop"
  /\ m \in todo[t]
  /\ \A other \in todo[t] : Precedes(m, other)

Capped(m) ==
  m \in isProactive /\ ProactiveCapReached(Cardinality(DeliveredProactive))

-----------------------------------------------------------------------------
(* The modules' side: an INSERT with the next id.  Only rituals are        *)
(* anchors, and they are proactive; a reply is neither.                    *)

\* Between markDelivered and the end of onDelivered nothing is awaited.
EventLoopFree == \A t \in Ticks : pc[t] # "record"

Enqueue(m) ==
  /\ EventLoopFree
  /\ status[m] = "absent"
  /\ \A earlier \in Messages : earlier < m => status[earlier] # "absent"
  /\ status' = [status EXCEPT ![m] = "pending"]
  /\ \/ UNCHANGED <<isProactive, isAnchor>>
     \/ isProactive' = isProactive \cup {m} /\ UNCHANGED isAnchor
     \/ isProactive' = isProactive \cup {m} /\ isAnchor' = isAnchor \cup {m}
  /\ UNCHANGED <<attempts, backoff, deliveredToday, processor, history,
                 crashes>>

-----------------------------------------------------------------------------
(* The processor.                                                          *)

Goto(t, place) == pc' = [pc EXCEPT ![t] = place]

\* Mutant: processPending without its single-execution flag.
ProcessPendingReentrant(t) ==
  /\ pc[t] = "idle"
  /\ isRunning' = TRUE
  /\ todo' = [todo EXCEPT ![t] = FindPending]
  /\ Goto(t, "loop")
  /\ UNCHANGED <<table, current, history, crashes>>

\* A tick while another run is in progress is ignored.
ProcessPending(t) ==
  /\ ~isRunning
  /\ pc[t] = "idle"
  /\ isRunning' = TRUE
  /\ todo' = [todo EXCEPT ![t] = FindPending]
  /\ Goto(t, "loop")
  /\ UNCHANGED <<table, current, history, crashes>>

\* The cap holds a proactive message back: it stays pending, and a ritual
\* held back raises an alert that the loop awaits.
HoldBack(t, m) ==
  /\ AtFront(t, m)
  /\ Capped(m)
  /\ todo' = [todo EXCEPT ![t] = @ \ {m}]
  /\ Goto(t, IF m \in isAnchor THEN "alert" ELSE "loop")
  /\ UNCHANGED <<table, isRunning, current, history, crashes>>

\* claimForSending, a conditional UPDATE; a row already taken is skipped.
Claim(t, m) ==
  /\ AtFront(t, m)
  /\ ~Capped(m)
  /\ todo' = [todo EXCEPT ![t] = @ \ {m}]
  /\ IF status[m] = "pending"
       THEN /\ status' = [status EXCEPT ![m] = "sending"]
            /\ current' = [current EXCEPT ![t] = m]
            /\ Goto(t, IF m \in isProactive THEN "delay" ELSE "send")
       ELSE UNCHANGED <<status, current, pc>>
  /\ UNCHANGED <<isProactive, isAnchor, attempts, backoff, deliveredToday,
                 isRunning, history, crashes>>

\* Mutant: the failure handler forgets to count the attempt.
HandleSendFailureUncounted(t) ==
  LET m == current[t]
  IN  /\ attempts' = attempts
      /\ status' = [status EXCEPT ![m] = "pending"]
      /\ backoff' = backoff \cup {m}
      /\ Goto(t, "loop")
      /\ current' = [current EXCEPT ![t] = None]
      /\ UNCHANGED <<isProactive, isAnchor, isRunning, todo, crashes>>

\* Mutant: a retry is scheduled and the row is left 'sending'.
HandleSendFailureStillSending(t) ==
  LET m == current[t]
  IN  /\ attempts' = [attempts EXCEPT ![m] = @ + 1]
      /\ IF RetriesExhausted(attempts[m] + 1)
           THEN /\ status' = [status EXCEPT ![m] = "failed"]
                /\ Goto(t, "alert")
                /\ UNCHANGED backoff
           ELSE /\ backoff' = backoff \cup {m}
                /\ Goto(t, "loop")
                /\ UNCHANGED status
      /\ current' = [current EXCEPT ![t] = None]
      /\ UNCHANGED <<isProactive, isAnchor, isRunning, todo, crashes>>

\* handleSendFailure: give the row up with an alert, or back off and retry.
HandleSendFailure(t) ==
  LET m == current[t]
  IN  /\ attempts' = [attempts EXCEPT ![m] = @ + 1]
      /\ IF RetriesExhausted(attempts[m] + 1)
           THEN /\ status' = [status EXCEPT ![m] = "failed"]
                /\ Goto(t, "alert")
                /\ UNCHANGED backoff
           ELSE /\ status' = [status EXCEPT ![m] = "pending"]
                /\ backoff' = backoff \cup {m}
                /\ Goto(t, "loop")
      /\ current' = [current EXCEPT ![t] = None]
      /\ UNCHANGED <<isProactive, isAnchor, isRunning, todo, crashes>>

\* The 10-45 s anti-ban delay and the presence call of a proactive message.
DelayOver(t) ==
  /\ pc[t] = "delay"
  /\ Goto(t, "send")
  /\ UNCHANGED <<table, isRunning, todo, current, history, crashes>>

\* Mutant: the presence call outside the try; the exception ends the run.
PresenceFailsUncaught(t) ==
  /\ pc[t] = "delay"
  /\ isRunning' = FALSE
  /\ todo' = [todo EXCEPT ![t] = {}]
  /\ current' = [current EXCEPT ![t] = None]
  /\ Goto(t, "idle")
  /\ UNCHANGED <<table, history, crashes>>

PresenceFails(t) ==
  /\ pc[t] = "delay"
  /\ HandleSendFailure(t)
  /\ UNCHANGED <<deliveredToday, history>>

Unit(m) == IF m \in isProactive THEN 1 ELSE 0

\* WhatsApp takes the message of the run.
Accepted(t) ==
  /\ accepted' = [accepted EXCEPT ![current[t]] = @ + 1]
  /\ takenToday' = takenToday + Unit(current[t])

\* It takes the message, and the table is not told.
AcceptedUnseen(t) == Accepted(t) /\ lostToday' = lostToday + Unit(current[t])

\* 2xx: markDelivered, a commit of its own.
SendSucceeds(t) ==
  /\ pc[t] = "send"
  /\ Accepted(t)
  /\ status' = [status EXCEPT ![current[t]] = "delivered"]
  /\ deliveredToday' = deliveredToday \cup {current[t]}
  /\ Goto(t, "record")
  /\ UNCHANGED <<isProactive, isAnchor, attempts, backoff, isRunning, todo,
                 current, lostToday, crashes>>

\* No 2xx: the message was refused, or taken and only the answer was lost.
SendFails(t) ==
  /\ pc[t] = "send"
  /\ AcceptedUnseen(t) \/ UNCHANGED history
  /\ HandleSendFailure(t)
  /\ UNCHANGED deliveredToday

\* onDelivered records the conversation.
Recorded(t) ==
  /\ pc[t] = "record"
  /\ current' = [current EXCEPT ![t] = None]
  /\ Goto(t, "loop")
  /\ UNCHANGED <<table, isRunning, todo, history, crashes>>

\* onDelivered throws inside the try of the send: the catch treats the
\* delivered row as a failed one, and the cap no longer counts it.
RecordingFails(t) ==
  /\ pc[t] = "record"
  /\ HandleSendFailure(t)
  /\ lostToday' = IF current[t] \in DeliveredProactive THEN lostToday + 1
                                                      ELSE lostToday
  /\ UNCHANGED <<deliveredToday, accepted, takenToday>>

AlertReturns(t) ==
  /\ pc[t] = "alert"
  /\ Goto(t, "loop")
  /\ UNCHANGED <<table, isRunning, todo, current, history, crashes>>

Finish(t) ==
  /\ pc[t] = "loop"
  /\ todo[t] = {}
  /\ isRunning' = FALSE
  /\ Goto(t, "idle")
  /\ UNCHANGED <<table, todo, current, history, crashes>>

-----------------------------------------------------------------------------
(* Time and failure.                                                       *)

RetryDue(m) ==
  /\ m \in backoff
  /\ backoff' = backoff \ {m}
  /\ UNCHANGED <<status, isProactive, isAnchor, attempts, deliveredToday,
                 processor, history, crashes>>

Midnight ==
  /\ deliveredToday # {} \/ takenToday > 0
  /\ deliveredToday' = {}
  /\ takenToday' = 0 /\ lostToday' = 0
  /\ UNCHANGED <<status, isProactive, isAnchor, attempts, backoff,
                 processor, accepted, crashes>>

\* The process dies, possibly between the HTTP call and markDelivered, and
\* boots again: the table survives, the processor's memory does not.
Crash ==
  /\ crashes < MaxCrashes
  /\ crashes' = crashes + 1
  /\ isRunning' = FALSE
  /\ pc' = [t \in Ticks |-> "idle"]
  /\ todo' = [t \in Ticks |-> {}]
  /\ current' = [t \in Ticks |-> None]
  /\ \/ UNCHANGED history
     \/ \E t \in Ticks : pc[t] = "send" /\ AcceptedUnseen(t)
  /\ UNCHANGED table

Step(t) ==
  \/ \E m \in Messages : HoldBack(t, m) \/ Claim(t, m)
  \/ DelayOver(t) \/ PresenceFails(t)
  \/ SendSucceeds(t) \/ SendFails(t)
  \/ Recorded(t) \/ RecordingFails(t)
  \/ AlertReturns(t)
  \/ Finish(t)

Next ==
  \/ \E m \in Messages : Enqueue(m) \/ RetryDue(m)
  \/ \E t \in Ticks : ProcessPending(t) \/ Step(t)
  \/ Midnight
  \/ Crash

\* The timer keeps firing, every await ends (the HTTP client and the mailer
\* time out) and the clock advances.  Nothing forces an enqueue or a crash.
Fairness ==
  /\ WF_vars(\E t \in Ticks : ProcessPending(t))
  /\ \A t \in Ticks : WF_vars(Step(t))
  /\ \A m \in Messages : WF_vars(RetryDue(m))
  /\ WF_vars(Midnight)

Spec == Init /\ [][Next]_vars
FairSpec == Spec /\ Fairness

-----------------------------------------------------------------------------
(* Properties.                                                             *)

\* RF-24: in a civil day WhatsApp takes no more proactive messages than the
\* cap, whatever ticks, delays, retries, crashes and midnight do, but for those
\* that the table does not show: each answer lost, each recording that threw
\* and each crash between the send and its commit lets one more through.
DailyCapRespected == takenToday <= DailyCap + lostToday

\* The cap without the exception, hard as processor.ts:83 and RF-24 have it.
\* It does not hold: README, section 7.
DailyCapHard == takenToday <= DailyCap

\* A row is left in 'sending' without a run that will finish it only by a
\* crash, at most one row per crash: findPending never returns it again.
OrphansComeFromCrashes ==
  Cardinality({m \in Messages :
                 status[m] = "sending" /\ \A t \in Ticks : current[t] # m})
    <= crashes

\* A retried message reaches the owner at most MaxAttempts times, and a row
\* waiting for its retry has never been taken more often than it failed.
ResendsBounded ==
  \A m \in Messages :
    /\ accepted[m] <= MaxAttempts
    /\ status[m] \in {"absent", "pending"} => accepted[m] <= attempts[m]

\* The briefing and the review never wait behind a reminder of their own
\* snapshot: if the cap fills during a run, it is a common message it holds.
RitualsFirst ==
  \A t \in Ticks :
    (todo[t] \cap isAnchor # {} /\ current[t] # None) => current[t] \in isAnchor

\* What DailyQuota promises, read off the table.
Phase(m) ==
  CASE status[m] = "absent" -> "new"
    [] status[m] \in {"pending", "sending"} -> "waiting"
    [] status[m] = "delivered" ->
         IF \E t \in Ticks : current[t] = m THEN "sent" ELSE "done"
    [] status[m] = "failed" -> "givenUp"

Quota == INSTANCE DailyQuota WITH
           phase <- [m \in Messages |-> Phase(m)],
           proactive <- isProactive,
           spent <- DeliveredProactive

\* The table and its processor implement the quota service: each delivery is
\* within its day's quota, it is taken back only while it is being recorded,
\* and a row recorded or failed is final.
ImplementsQuota == Quota!Spec

Settled(m) == Phase(m) \in {"done", "givenUp"}

\* Every message accepted is delivered or given up with an alert, even one
\* the cap holds back for days; the exception is a row a crash orphaned.
EveryMessageSettles ==
  \A m \in Messages :
    status[m] = "pending" ~>
      (Settled(m) \/ (crashes > 0 /\ status[m] = "sending"))

\* The same without the exception: ADR-004 and TESTING.md promise that
\* nothing is lost in a restart and that no message sticks in silence.
\* It does not hold: README, section 7.
NothingStuckAfterRestart ==
  \A m \in Messages : status[m] = "pending" ~> Settled(m)

=============================================================================
