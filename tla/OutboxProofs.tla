---------------------------- MODULE OutboxProofs ----------------------------
(***************************************************************************)
(* The safety of Outbox for every set of rows, every number of overlapping *)
(* ticks, every cap and every number of crashes.  Everything rests on one  *)
(* inductive invariant: runs are serial, a run holds the row it claimed,   *)
(* and a run that holds a proactive row has checked the cap against a      *)
(* count nobody has raised since.                                          *)
(***************************************************************************)
EXTENDS Outbox, FiniteSetTheorems, TLAPS

Active(t) == pc[t] # "idle"

\* Two runs never overlap, and one is active only under the flag.
Serial ==
  /\ \A t \in Ticks : Active(t) => isRunning
  /\ \A t, u \in Ticks : Active(t) /\ Active(u) => t = u

\* A run holds a row exactly while it waits for the delay or the HTTP call, and
\* while it records what it delivered.
Holding ==
  \A t \in Ticks :
    /\ pc[t] \in {"delay", "send", "record"} <=> current[t] # None
    /\ pc[t] \in {"delay", "send"} => status[current[t]] = "sending"
    /\ pc[t] = "record" => status[current[t]] = "delivered"

\* The count a holder of a proactive row compared with the cap still stands.
CapReserved ==
  /\ IsFiniteSet(deliveredToday)
  /\ Cardinality(DeliveredProactive) <= DailyCap
  /\ \A t \in Ticks :
       (pc[t] \in {"delay", "send"} /\ current[t] \in isProactive)
         => Cardinality(DeliveredProactive) < DailyCap

Orphans ==
  {m \in Messages : status[m] = "sending" /\ \A t \in Ticks : current[t] # m}

OrphansCounted == IsFiniteSet(Orphans) /\ Cardinality(Orphans) <= crashes

\* Each acceptance WhatsApp gave is matched by a counted failure, except the
\* one that delivered the row or that a crash cut off.
Counted ==
  \A m \in Messages :
    /\ status[m] \in {"absent", "pending", "sending"}
         => attempts[m] < MaxAttempts
    /\ status[m] \in {"absent", "pending", "failed"}
         => accepted[m] <= attempts[m]
    /\ status[m] = "delivered"
         => attempts[m] < MaxAttempts /\ accepted[m] <= attempts[m] + 1
    /\ status[m] = "sending" => accepted[m] <= attempts[m] + 1
    /\ \A t \in Ticks :
         current[t] = m /\ status[m] = "sending" => accepted[m] <= attempts[m]

IInv == TypeOK /\ Serial /\ Holding /\ CapReserved /\ OrphansCounted /\ Counted

-----------------------------------------------------------------------------
(* What the count of the cap and the set of orphans depend on.             *)

LEMMA CountType ==
  ASSUME TypeOK, IsFiniteSet(deliveredToday)
  PROVE  IsFiniteSet(DeliveredProactive) /\ Cardinality(DeliveredProactive) \in Nat
<1>1. DeliveredProactive \subseteq deliveredToday
  BY DEF DeliveredProactive
<1>. QED
  BY <1>1, FS_Subset, FS_CardinalityType

LEMMA InitIInv == Init => IInv
<1>. SUFFICES ASSUME Init PROVE IInv
  OBVIOUS
<1>. USE OutboxAssumption
<1>1. TypeOK
  <2>1. 0 \in 0 .. MaxAttempts /\ 0 \in 0 .. MaxCrashes
    OBVIOUS
  <2>. QED
    BY <2>1 DEF Init, TypeOK, Statuses, Places
<1>2. Serial /\ Holding /\ Counted
  BY DEF Init, Serial, Active, Holding, Counted
<1>3. DeliveredProactive = {} /\ Orphans = {}
  BY DEF Init, DeliveredProactive, Orphans
<1>4. IsFiniteSet({}) /\ Cardinality({}) = 0
  BY FS_EmptySet
<1>5. CapReserved /\ OrphansCounted
  BY <1>3, <1>4 DEF Init, CapReserved, OrphansCounted
<1>. QED
  BY <1>1, <1>2, <1>5 DEF IInv

-----------------------------------------------------------------------------
(* The steps that only move a run or the snapshot.                         *)

LEMMA EnqueueStep ==
  ASSUME IInv, NEW m \in Messages, Enqueue(m)
  PROVE  IInv'
<1>. USE OutboxAssumption DEF IInv, Enqueue, processor, history
<1>1. TypeOK'
  BY DEF TypeOK, Statuses, Places
<1>2. Serial' /\ Holding'
  BY DEF TypeOK, Serial, Active, Holding
<1>3. DeliveredProactive' = DeliveredProactive
  BY DEF TypeOK, DeliveredProactive
<1>4. Orphans' = Orphans
  BY DEF TypeOK, Orphans
<1>5. \A t \in Ticks : current[t] # None => current[t] # m
  BY DEF TypeOK, Holding
<1>6. CapReserved' /\ OrphansCounted'
  BY <1>3, <1>4, <1>5 DEF CapReserved, OrphansCounted
<1>7. Counted'
  BY DEF TypeOK, Counted
<1>. QED
  BY <1>1, <1>2, <1>6, <1>7 DEF IInv

LEMMA ProcessPendingStep ==
  ASSUME IInv, NEW t \in Ticks, ProcessPending(t)
  PROVE  IInv'
<1>. USE DEF IInv, ProcessPending, Goto, table, history
<1>1. TypeOK'
  BY DEF TypeOK, Places, FindPending
<1>2. Serial' /\ Holding'
  BY DEF TypeOK, Serial, Active, Holding
<1>3. DeliveredProactive' = DeliveredProactive /\ Orphans' = Orphans
  BY DEF DeliveredProactive, Orphans
<1>4. CapReserved' /\ OrphansCounted'
  BY <1>3 DEF CapReserved, OrphansCounted
<1>5. Counted'
  BY DEF Counted
<1>. QED
  BY <1>1, <1>2, <1>4, <1>5

LEMMA HoldBackStep ==
  ASSUME IInv, NEW t \in Ticks, NEW m \in Messages, HoldBack(t, m)
  PROVE  IInv'
<1>. USE DEF IInv, HoldBack, AtFront, Goto, table, history
<1>1. TypeOK'
  BY DEF TypeOK, Places
<1>2. Serial' /\ Holding'
  BY DEF TypeOK, Places, Serial, Active, Holding
<1>3. DeliveredProactive' = DeliveredProactive /\ Orphans' = Orphans
  BY DEF DeliveredProactive, Orphans
<1>4. CapReserved' /\ OrphansCounted'
  BY <1>3 DEF CapReserved, OrphansCounted
<1>5. Counted'
  BY DEF Counted
<1>. QED
  BY <1>1, <1>2, <1>4, <1>5

LEMMA MoveStep ==
  ASSUME IInv, NEW t \in Ticks, DelayOver(t) \/ AlertReturns(t) \/ Finish(t)
  PROVE  IInv'
<1>. USE DEF IInv, DelayOver, AlertReturns, Finish, Goto, table, history
<1>1. TypeOK'
  BY DEF TypeOK, Places
<1>2. Serial' /\ Holding'
  BY DEF TypeOK, Places, Serial, Active, Holding
<1>3. DeliveredProactive' = DeliveredProactive /\ Orphans' = Orphans
  BY DEF DeliveredProactive, Orphans
<1>4. CapReserved' /\ OrphansCounted'
  BY <1>3 DEF TypeOK, Places, CapReserved, OrphansCounted
<1>5. Counted'
  BY DEF Counted
<1>. QED
  BY <1>1, <1>2, <1>4, <1>5

-----------------------------------------------------------------------------
(* The steps that change a row.                                            *)

LEMMA ClaimStep ==
  ASSUME IInv, NEW t \in Ticks, NEW m \in Messages, Claim(t, m)
  PROVE  IInv'
<1>. USE OutboxAssumption DEF IInv, Claim, AtFront, Goto, history
<1>1. TypeOK'
  BY DEF TypeOK, Statuses, Places
<1>2. current[t] = None
  BY DEF Holding
<1>3. Serial' /\ Holding'
  BY <1>2 DEF TypeOK, Places, Serial, Active, Holding
<1>4. DeliveredProactive' = DeliveredProactive
  BY DEF TypeOK, DeliveredProactive
<1>5. Orphans' = Orphans
  <2>1. CASE status[m] = "pending"
    <3>1. status'[m] = "sending" /\ current'[t] = m
      BY <2>1 DEF TypeOK
    <3>2. \A x \in Messages \ {m} : status'[x] = status[x]
      BY <2>1 DEF TypeOK
    <3>3. \A u \in Ticks \ {t} : current'[u] = current[u]
      BY <2>1 DEF TypeOK
    <3>. QED
      <4>1. \A x \in Messages \ {m} :
              (\A u \in Ticks : current'[u] # x) <=> (\A u \in Ticks : current[u] # x)
        BY <1>2, <3>1, <3>3
      <4>2. m \notin Orphans /\ m \notin Orphans'
        BY <2>1, <3>1 DEF Orphans
      <4>3. \A x \in Messages \ {m} : x \in Orphans' <=> x \in Orphans
        BY <3>2, <4>1 DEF Orphans
      <4>4. Orphans \subseteq Messages /\ Orphans' \subseteq Messages
        BY DEF Orphans
      <4>5. \A x : x \in Orphans' <=> x \in Orphans
        BY <4>2, <4>3, <4>4, Zenon
      <4>. QED
        BY <4>5, Zenon
  <2>2. CASE status[m] # "pending"
    BY <2>2 DEF Orphans
  <2>. QED
    BY <2>1, <2>2
<1>6. CapReserved'
  <2>1. Cardinality(DeliveredProactive) \in Nat
    BY CountType DEF CapReserved
  <2>2. m \in isProactive => Cardinality(DeliveredProactive) < DailyCap
    BY <2>1 DEF Capped, ProactiveCapReached
  <2>. QED
    BY <1>2, <1>4, <2>2 DEF TypeOK, CapReserved
<1>7. OrphansCounted'
  BY <1>5 DEF OrphansCounted
<1>8. Counted'
  BY <1>2 DEF TypeOK, Counted
<1>. QED
  BY <1>1, <1>3, <1>6, <1>7, <1>8

\* handleSendFailure, whoever calls it: the row leaves 'sending' for a
\* status that neither the cap nor the orphans count.
LEMMA FailureStep ==
  ASSUME IInv, NEW t \in Ticks, pc[t] \in {"delay", "send", "record"},
         HandleSendFailure(t),
         UNCHANGED accepted \/ (pc[t] = "send" /\ Accepted(t)),
         deliveredToday' = deliveredToday,
         takenToday' \in Nat, lostToday' \in Nat
  PROVE  IInv' /\ DeliveredProactive' = DeliveredProactive \ {current[t]}
<1>. DEFINE m == current[t]
<1>. USE OutboxAssumption DEF IInv
<1>1. /\ m \in Messages /\ m # None
      /\ status[m] = IF pc[t] = "record" THEN "delivered" ELSE "sending"
  BY DEF Holding, TypeOK
<1>2. /\ attempts[m] < MaxAttempts
      /\ accepted[m] <= attempts[m] \/ (pc[t] = "record" /\ accepted[m] <= attempts[m] + 1)
  BY <1>1 DEF Counted
<1>3. attempts[m] \in Nat /\ accepted[m] \in Nat
  <2>1. attempts[m] \in 0 .. MaxAttempts
    BY <1>1 DEF TypeOK
  <2>2. accepted[m] \in Nat
    BY <1>1 DEF TypeOK
  <2>. QED
    BY <2>1, <2>2
<1>4. attempts' = [attempts EXCEPT ![m] = attempts[m] + 1]
  BY DEF HandleSendFailure
<1>5. \/ accepted' = accepted
      \/ pc[t] = "send" /\ accepted' = [accepted EXCEPT ![m] = accepted[m] + 1]
  BY DEF Accepted
<1>6. \/ /\ RetriesExhausted(attempts[m] + 1)
         /\ status' = [status EXCEPT ![m] = "failed"]
         /\ pc' = [pc EXCEPT ![t] = "alert"]
         /\ backoff' = backoff
      \/ /\ ~RetriesExhausted(attempts[m] + 1)
         /\ status' = [status EXCEPT ![m] = "pending"]
         /\ pc' = [pc EXCEPT ![t] = "loop"]
         /\ backoff' = backoff \cup {m}
  BY DEF HandleSendFailure, Goto
<1>7. /\ current' = [current EXCEPT ![t] = None]
      /\ UNCHANGED <<isProactive, isAnchor, isRunning, todo, crashes>>
  BY DEF HandleSendFailure
<1>8. \A u \in Ticks : current'[u] = None
  BY <1>7 DEF TypeOK, Serial, Active, Holding
<1>9. /\ status'[m] \in {"pending", "failed"}
      /\ \A x \in Messages \ {m} : status'[x] = status[x]
  BY <1>1, <1>6 DEF TypeOK
<1>10. TypeOK'
  <2>1. attempts' \in [Messages -> 0 .. MaxAttempts]
    <3>1. attempts[m] + 1 \in 0 .. MaxAttempts
      BY <1>2, <1>3
    <3>. QED
      BY <1>4, <3>1 DEF TypeOK
  <2>2. accepted' \in [Messages -> Nat]
    BY <1>3, <1>5 DEF TypeOK
  <2>3. status' \in [Messages -> Statuses] /\ pc' \in [Ticks -> Places]
    BY <1>6 DEF TypeOK, Statuses, Places
  <2>4. backoff' \subseteq Messages /\ deliveredToday' \subseteq Messages
    BY <1>1, <1>6 DEF TypeOK
  <2>5. current' \in [Ticks -> Messages \cup {None}]
    BY <1>7 DEF TypeOK
  <2>. QED
    BY <1>7, <2>1, <2>2, <2>3, <2>4, <2>5 DEF TypeOK
<1>11. Serial' /\ Holding'
  <2>1. pc[t] # "idle" /\ pc'[t] \in {"alert", "loop"}
    BY <1>6 DEF TypeOK
  <2>2. \A u \in Ticks \ {t} : pc'[u] = pc[u] /\ pc[u] = "idle"
    BY <1>6 DEF TypeOK, Serial, Active
  <2>. QED
    BY <1>7, <1>8, <2>1, <2>2 DEF Serial, Active, Holding
<1>12. DeliveredProactive' = DeliveredProactive \ {m}
  BY <1>1, <1>7, <1>9 DEF TypeOK, DeliveredProactive
<1>13. Orphans' = Orphans
  <2>1. \A x \in Messages \ {m} : \A u \in Ticks : current[u] # x /\ current'[u] # x
    BY <1>1, <1>8 DEF Serial, Active, Holding
  <2>2. m \notin Orphans /\ m \notin Orphans'
    BY <1>1, <1>9 DEF Orphans
  <2>. QED
    BY <1>9, <2>1, <2>2 DEF Orphans
<1>14. CapReserved'
  <2>1. IsFiniteSet(DeliveredProactive) /\ Cardinality(DeliveredProactive) \in Nat
    BY CountType DEF CapReserved
  <2>2. Cardinality(DeliveredProactive') <= Cardinality(DeliveredProactive)
    <3>1. Cardinality(DeliveredProactive \ {m})
            = IF m \in DeliveredProactive THEN Cardinality(DeliveredProactive) - 1
                                          ELSE Cardinality(DeliveredProactive)
      BY <2>1, FS_RemoveElement
    <3>. QED
      BY <1>12, <2>1, <3>1
  <2>3. Cardinality(DeliveredProactive') \in Nat
    BY <1>12, <2>1, FS_RemoveElement, FS_CardinalityType
  <2>4. \A u \in Ticks : pc'[u] \notin {"delay", "send"}
    BY <1>8, <1>11 DEF Holding
  <2>. QED
    BY <2>1, <2>2, <2>3, <2>4 DEF CapReserved
<1>15. OrphansCounted'
  BY <1>7, <1>13 DEF OrphansCounted
<1>16. Counted'
  <2>1. attempts'[m] = attempts[m] + 1
    BY <1>1, <1>4 DEF TypeOK
  <2>2. accepted'[m] <= attempts'[m]
    <3>1. \/ accepted'[m] = accepted[m]
          \/ pc[t] = "send" /\ accepted'[m] = accepted[m] + 1
      BY <1>1, <1>5 DEF TypeOK
    <3>. QED
      BY <1>2, <1>3, <2>1, <3>1
  <2>3. status'[m] # "failed" => attempts'[m] < MaxAttempts
    <3>1. ~RetriesExhausted(attempts[m] + 1) => attempts[m] + 1 < MaxAttempts
      BY <1>3 DEF RetriesExhausted
    <3>. QED
      BY <1>1, <1>6, <2>1, <3>1 DEF TypeOK
  <2>4. \A x \in Messages \ {m} : attempts'[x] = attempts[x] /\ accepted'[x] = accepted[x]
    BY <1>1, <1>4, <1>5 DEF TypeOK
  <2>. QED
    BY <1>1, <1>8, <1>9, <2>2, <2>3, <2>4 DEF Counted
<1>. QED
  BY <1>10, <1>11, <1>12, <1>14, <1>15, <1>16

LEMMA FailingSteps ==
  ASSUME IInv, NEW t \in Ticks,
         PresenceFails(t) \/ SendFails(t) \/ RecordingFails(t)
  PROVE  IInv' /\ DeliveredProactive' = DeliveredProactive \ {current[t]}
<1>1. takenToday' \in Nat /\ lostToday' \in Nat
  BY DEF IInv, TypeOK, PresenceFails, SendFails, RecordingFails, AcceptedUnseen,
         Accepted, Unit, history
<1>2. /\ pc[t] \in {"delay", "send", "record"} /\ HandleSendFailure(t)
      /\ UNCHANGED accepted \/ (pc[t] = "send" /\ Accepted(t))
      /\ deliveredToday' = deliveredToday
  BY DEF PresenceFails, SendFails, RecordingFails, AcceptedUnseen, history
<1>. QED
  BY <1>1, <1>2, FailureStep

\* A delivery takes the one unit the run had checked.
LEMMA SendSucceedsStep ==
  ASSUME IInv, NEW t \in Ticks, SendSucceeds(t)
  PROVE  IInv'
<1>. DEFINE m == current[t]
<1>0. m \in Messages /\ accepted[m] \in Nat
  BY OutboxAssumption DEF IInv, SendSucceeds, Holding, TypeOK
<1>. USE OutboxAssumption DEF IInv, SendSucceeds, Accepted, Goto
<1>1. m \in Messages /\ m # None /\ status[m] = "sending"
  BY DEF Holding, TypeOK
<1>2. \A u \in Ticks : pc'[u] \notin {"delay", "send"}
  BY DEF TypeOK, Serial, Active
<1>3. TypeOK'
  <2>1. accepted' \in [Messages -> Nat]
    BY <1>0 DEF TypeOK
  <2>2. takenToday' \in Nat
    BY DEF TypeOK, Unit
  <2>. QED
    BY <1>1, <2>1, <2>2 DEF TypeOK, Statuses, Places
<1>4. Serial' /\ Holding'
  BY <1>2 DEF TypeOK, Places, Serial, Active, Holding
<1>5. CapReserved'
  <2>1. IsFiniteSet(deliveredToday')
    BY FS_AddElement DEF CapReserved
  <2>2. IsFiniteSet(DeliveredProactive) /\ Cardinality(DeliveredProactive) \in Nat
    BY CountType DEF CapReserved
  <2>3. CASE m \in isProactive
    <3>1. DeliveredProactive' = DeliveredProactive \cup {m}
      BY <1>1, <2>3 DEF TypeOK, DeliveredProactive
    <3>2. Cardinality(DeliveredProactive') <= Cardinality(DeliveredProactive) + 1
      BY <2>2, <3>1, FS_AddElement, SMTT(40)
    <3>3. Cardinality(DeliveredProactive') \in Nat
      BY <2>2, <3>1, FS_AddElement, FS_CardinalityType
    <3>4. Cardinality(DeliveredProactive) < DailyCap
      BY <1>1, <2>3 DEF CapReserved
    <3>. QED
      BY <1>2, <2>1, <2>2, <3>2, <3>3, <3>4 DEF CapReserved
  <2>4. CASE m \notin isProactive
    <3>1. DeliveredProactive' = DeliveredProactive
      BY <1>1, <2>4 DEF TypeOK, DeliveredProactive
    <3>. QED
      BY <1>2, <2>1, <3>1 DEF CapReserved
  <2>. QED
    BY <2>3, <2>4
<1>6. OrphansCounted'
  <2>1. Orphans' = Orphans
    BY <1>1 DEF TypeOK, Orphans
  <2>. QED
    BY <2>1 DEF OrphansCounted
<1>7. Counted'
  BY <1>1, <1>2 DEF TypeOK, Counted
<1>. QED
  BY <1>3, <1>4, <1>5, <1>6, <1>7

LEMMA RecordedStep ==
  ASSUME IInv, NEW t \in Ticks, Recorded(t)
  PROVE  IInv'
<1>. USE OutboxAssumption DEF IInv, Recorded, Goto, table, history
<1>1. TypeOK'
  BY DEF TypeOK, Places
<1>2. current[t] \in Messages /\ status[current[t]] = "delivered"
  BY DEF TypeOK, Holding
<1>3. Serial' /\ Holding'
  BY DEF TypeOK, Places, Serial, Active, Holding
<1>4. DeliveredProactive' = DeliveredProactive
  BY DEF DeliveredProactive
<1>5. Orphans' = Orphans
  BY <1>2 DEF TypeOK, Orphans
<1>6. CapReserved' /\ OrphansCounted'
  BY <1>4, <1>5 DEF TypeOK, CapReserved, OrphansCounted
<1>7. Counted'
  BY DEF TypeOK, Counted
<1>. QED
  BY <1>1, <1>3, <1>6, <1>7

-----------------------------------------------------------------------------
(* Time and failure.                                                       *)

LEMMA RetryDueStep ==
  ASSUME IInv, NEW m \in Messages, RetryDue(m)
  PROVE  IInv'
<1>. USE DEF IInv, RetryDue, processor, history
<1>1. TypeOK'
  BY DEF TypeOK
<1>2. Serial' /\ Holding' /\ Counted'
  BY DEF Serial, Active, Holding, Counted
<1>3. DeliveredProactive' = DeliveredProactive /\ Orphans' = Orphans
  BY DEF DeliveredProactive, Orphans
<1>4. CapReserved' /\ OrphansCounted'
  BY <1>3 DEF CapReserved, OrphansCounted
<1>. QED
  BY <1>1, <1>2, <1>4

LEMMA MidnightStep ==
  ASSUME IInv, Midnight
  PROVE  IInv'
<1>. USE OutboxAssumption DEF IInv, Midnight, processor
<1>1. TypeOK'
  BY DEF TypeOK
<1>2. Serial' /\ Holding' /\ Counted'
  BY DEF Serial, Active, Holding, Counted
<1>3. DeliveredProactive' = {} /\ Orphans' = Orphans
  BY DEF DeliveredProactive, Orphans
<1>4. IsFiniteSet({}) /\ Cardinality({}) = 0
  BY FS_EmptySet
<1>5. CapReserved' /\ OrphansCounted'
  BY <1>3, <1>4 DEF CapReserved, OrphansCounted
<1>. QED
  BY <1>1, <1>2, <1>5

\* A crash orphans at most the one row the active run held.
LEMMA CrashStep ==
  ASSUME IInv, Crash
  PROVE  IInv'
<1>. USE OutboxAssumption DEF IInv
<1>1. /\ crashes \in Nat /\ crashes' = crashes + 1 /\ crashes' \in 0 .. MaxCrashes
      /\ UNCHANGED table
      /\ \A t \in Ticks : current'[t] = None /\ pc'[t] = "idle"
  BY DEF Crash, TypeOK
<1>2. \/ accepted' = accepted
      \/ \E t \in Ticks : /\ pc[t] = "send"
                          /\ accepted' = [accepted EXCEPT ![current[t]] = @ + 1]
  BY DEF Crash, AcceptedUnseen, Accepted, history
<1>3. \A t \in Ticks : pc[t] = "send" => current[t] \in Messages
  BY DEF TypeOK, Holding
<1>4. TypeOK'
  <2>1. accepted' \in [Messages -> Nat]
    <3>1. CASE accepted' = accepted
      BY <3>1 DEF TypeOK
    <3>2. ASSUME NEW t \in Ticks, pc[t] = "send",
                 accepted' = [accepted EXCEPT ![current[t]] = @ + 1]
          PROVE  accepted' \in [Messages -> Nat]
      <4>1. accepted[current[t]] \in Nat
        BY <1>3, <3>2 DEF TypeOK
      <4>2. accepted[current[t]] + 1 \in Nat /\ accepted \in [Messages -> Nat]
        BY <4>1 DEF TypeOK
      <4>. QED
        BY <3>2, <4>2
    <3>. QED
      BY <1>2, <3>1, <3>2
  <2>2. takenToday' \in Nat /\ lostToday' \in Nat
    BY DEF TypeOK, Crash, AcceptedUnseen, Accepted, Unit, history
  <2>. QED
    BY <1>1, <2>1, <2>2 DEF Crash, TypeOK, Places, table
<1>5. Serial' /\ Holding'
  BY <1>1 DEF Serial, Active, Holding
<1>6. DeliveredProactive' = DeliveredProactive
  BY <1>1 DEF DeliveredProactive, table
<1>7. CapReserved'
  BY <1>1, <1>6 DEF CapReserved, table
<1>8. OrphansCounted'
  <2>1. PICK h : Orphans' \subseteq Orphans \cup {h}
    <3>1. CASE \E t \in Ticks : current[t] # None
      <4>1. PICK t \in Ticks : current[t] # None
        BY <3>1
      <4>2. \A u \in Ticks : current[u] \in {None, current[t]}
        BY <4>1 DEF Serial, Active, Holding
      <4>3. Orphans' \subseteq Orphans \cup {current[t]}
        BY <1>1, <4>2 DEF Orphans, table
      <4>. QED
        BY <4>3
    <3>2. CASE \A t \in Ticks : current[t] = None
      <4>1. Orphans' \subseteq Orphans \cup {None}
        BY <1>1, <3>2 DEF Orphans, table
      <4>. QED
        BY <4>1
    <3>. QED
      BY <3>1, <3>2
  <2>2. /\ IsFiniteSet(Orphans \cup {h})
        /\ Cardinality(Orphans \cup {h}) <= Cardinality(Orphans) + 1
    <3>1. IsFiniteSet(Orphans) /\ Cardinality(Orphans) \in Nat
      BY FS_CardinalityType DEF OrphansCounted
    <3>2. /\ IsFiniteSet(Orphans \cup {h})
          /\ Cardinality(Orphans \cup {h})
               = IF h \in Orphans THEN Cardinality(Orphans) ELSE Cardinality(Orphans) + 1
      BY <3>1, FS_AddElement
    <3>. QED
      BY <3>1, <3>2
  <2>3. /\ IsFiniteSet(Orphans')
        /\ Cardinality(Orphans') <= Cardinality(Orphans \cup {h})
    BY <2>1, <2>2, FS_Subset
  <2>4. /\ Cardinality(Orphans') \in Nat /\ Cardinality(Orphans) \in Nat
        /\ Cardinality(Orphans \cup {h}) \in Nat
    BY <2>2, <2>3, FS_CardinalityType DEF OrphansCounted
  <2>. QED
    BY <1>1, <2>2, <2>3, <2>4 DEF OrphansCounted
<1>9. Counted'
  <2>1. /\ \A m \in Messages : accepted[m] \in Nat /\ attempts[m] \in Nat
        /\ status' = status /\ attempts' = attempts
    BY <1>1 DEF TypeOK, table
  <2>2. CASE accepted' = accepted
    BY <1>1, <2>1, <2>2 DEF Counted, TypeOK
  <2>3. ASSUME NEW t \in Ticks, pc[t] = "send",
               accepted' = [accepted EXCEPT ![current[t]] = @ + 1]
        PROVE  Counted'
    <3>1. /\ current[t] \in Messages /\ status[current[t]] = "sending"
          /\ accepted[current[t]] <= attempts[current[t]]
      BY <1>3, <2>3 DEF Holding, Counted
    <3>2. accepted'[current[t]] <= attempts[current[t]] + 1
      <4>1. accepted'[current[t]] = accepted[current[t]] + 1
        BY <2>3, <3>1 DEF TypeOK
      <4>2. accepted[current[t]] \in Nat /\ attempts[current[t]] \in Nat
        BY <2>1, <3>1
      <4>. QED
        BY <3>1, <4>1, <4>2
    <3>3. \A x \in Messages : x # current[t] => accepted'[x] = accepted[x]
      BY <2>3 DEF TypeOK
    <3>4. \A u \in Ticks : current'[u] \notin Messages
      BY <1>1
    <3>. QED
      BY <2>1, <3>1, <3>2, <3>3, <3>4 DEF Counted
  <2>. QED
    BY <1>2, <2>2, <2>3
<1>. QED
  BY <1>4, <1>5, <1>7, <1>8, <1>9

LEMMA StutterStep ==
  ASSUME IInv, UNCHANGED vars
  PROVE  IInv'
<1>. USE DEF vars
<1>1. DeliveredProactive' = DeliveredProactive /\ Orphans' = Orphans
  BY DEF DeliveredProactive, Orphans
<1>. QED
  BY <1>1 DEF IInv, TypeOK, Serial, Active, Holding, CapReserved, OrphansCounted,
              Counted

-----------------------------------------------------------------------------

\* The invariant holds in every reachable state, under any schedule.
THEOREM Invariance == Spec => []IInv
<1>1. IInv /\ [Next]_vars => IInv'
  <2>. SUFFICES ASSUME IInv, [Next]_vars PROVE IInv'
    OBVIOUS
  <2>1. ASSUME NEW m \in Messages, Enqueue(m) \/ RetryDue(m) PROVE IInv'
    BY <2>1, EnqueueStep, RetryDueStep
  <2>2. ASSUME NEW t \in Ticks, ProcessPending(t) PROVE IInv'
    BY <2>2, ProcessPendingStep
  <2>3. ASSUME NEW t \in Ticks, Step(t) PROVE IInv'
    BY <2>3, HoldBackStep, ClaimStep, MoveStep, FailingSteps, SendSucceedsStep,
       RecordedStep
       DEF Step
  <2>4. CASE Midnight
    BY <2>4, MidnightStep
  <2>5. CASE Crash
    BY <2>5, CrashStep
  <2>6. CASE UNCHANGED vars
    BY <2>6, StutterStep
  <2>. QED
    BY <2>1, <2>2, <2>3, <2>4, <2>5, <2>6 DEF Next
<1>. QED
  BY <1>1, InitIInv, PTL DEF Spec

\* Every column and every variable of the processor keeps its type.
THEOREM TypeCorrect == Spec => []TypeOK
BY Invariance, PTL DEF IInv

\* Every proactive message WhatsApp took today is a delivered row or was lost.
Booked == takenToday = Cardinality(DeliveredProactive) + lostToday

LEMMA SameBooks ==
  ASSUME Booked, DeliveredProactive' = DeliveredProactive,
         UNCHANGED <<takenToday, lostToday>>
  PROVE  Booked'
  BY DEF Booked

LEMMA FailureBooked ==
  ASSUME IInv, Booked, NEW t \in Ticks,
         PresenceFails(t) \/ SendFails(t) \/ RecordingFails(t)
  PROVE  Booked'
<1>. DEFINE m == current[t]
<1>1. DeliveredProactive' = DeliveredProactive \ {m}
  BY FailingSteps
<1>2. /\ IsFiniteSet(DeliveredProactive)
      /\ Cardinality(DeliveredProactive) \in Nat /\ lostToday \in Nat
  BY CountType DEF IInv, CapReserved, TypeOK
<1>3. CASE PresenceFails(t) \/ SendFails(t)
  <2>1. m \notin DeliveredProactive
    BY <1>3 DEF IInv, Holding, PresenceFails, SendFails, DeliveredProactive
  <2>2. \/ UNCHANGED <<takenToday, lostToday>>
        \/ takenToday' = takenToday + Unit(m) /\ lostToday' = lostToday + Unit(m)
    BY <1>3 DEF PresenceFails, SendFails, AcceptedUnseen, Accepted, history
  <2>3. Unit(m) \in Nat
    BY DEF Unit
  <2>4. DeliveredProactive' = DeliveredProactive
    BY <1>1, <2>1
  <2>. QED
    BY <1>2, <2>2, <2>3, <2>4 DEF Booked
<1>4. CASE RecordingFails(t)
  <2>1. /\ takenToday' = takenToday
        /\ lostToday' = IF m \in DeliveredProactive THEN lostToday + 1 ELSE lostToday
    BY <1>4 DEF RecordingFails
  <2>2. Cardinality(DeliveredProactive')
          = IF m \in DeliveredProactive THEN Cardinality(DeliveredProactive) - 1
                                        ELSE Cardinality(DeliveredProactive)
    <3>. DEFINE D == DeliveredProactive
    <3>1. m \in D => Cardinality(D \ {m}) = Cardinality(D) - 1
      <4>. HIDE DEF D, m
      <4>1. IsFiniteSet(D)
        BY <1>2 DEF D
      <4>. QED
        BY <4>1, FS_RemoveElement
    <3>2. CASE m \in D
      BY <1>1, <3>1, <3>2
    <3>3. CASE m \notin D
      BY <1>1, <3>3
    <3>. QED
      BY <3>2, <3>3
  <2>. QED
    BY <1>2, <2>1, <2>2 DEF Booked
<1>. QED
  BY <1>3, <1>4

LEMMA DeliveryBooked ==
  ASSUME IInv, Booked, NEW t \in Ticks, SendSucceeds(t)
  PROVE  Booked'
<1>. DEFINE m == current[t]
<1>1. m \in Messages /\ status[m] = "sending"
  BY OutboxAssumption DEF IInv, TypeOK, Holding, SendSucceeds
<1>2. /\ status' = [status EXCEPT ![m] = "delivered"]
      /\ deliveredToday' = deliveredToday \cup {m}
      /\ UNCHANGED <<isProactive, lostToday>>
      /\ takenToday' = takenToday + Unit(m)
  BY DEF SendSucceeds, Accepted
<1>3. /\ IsFiniteSet(DeliveredProactive)
      /\ Cardinality(DeliveredProactive) \in Nat /\ lostToday \in Nat
  BY CountType DEF IInv, CapReserved, TypeOK
<1>4. m \notin DeliveredProactive
  BY <1>1 DEF DeliveredProactive
<1>5. DeliveredProactive'
        = IF m \in isProactive THEN DeliveredProactive \cup {m} ELSE DeliveredProactive
  BY <1>1, <1>2 DEF DeliveredProactive, IInv, TypeOK
<1>6. Cardinality(DeliveredProactive') = Cardinality(DeliveredProactive) + Unit(m)
  <2>. DEFINE D == DeliveredProactive
  <2>1. Cardinality(D \cup {m}) = Cardinality(D) + 1
    <3>. HIDE DEF D, m
    <3>1. IsFiniteSet(D) /\ m \notin D
      BY <1>3, <1>4 DEF D
    <3>. QED
      BY <3>1, FS_AddElement
  <2>2. CASE m \in isProactive
    <3>1. DeliveredProactive' = D \cup {m} /\ Unit(m) = 1
      BY <1>5, <2>2 DEF Unit
    <3>. QED
      BY <2>1, <3>1
  <2>3. CASE m \notin isProactive
    <3>1. DeliveredProactive' = D /\ Unit(m) = 0
      BY <1>5, <2>3 DEF Unit
    <3>. QED
      BY <1>3, <3>1
  <2>. QED
    BY <2>2, <2>3
<1>7. Unit(m) \in Nat
  BY DEF Unit
<1>. QED
  BY <1>2, <1>3, <1>6, <1>7 DEF Booked

LEMMA BookedStep == IInv /\ Booked /\ [Next]_vars => Booked'
<1>. SUFFICES ASSUME IInv, Booked, [Next]_vars  PROVE  Booked'
  OBVIOUS
<1>1. ASSUME NEW m \in Messages, Enqueue(m)  PROVE  Booked'
  <2>1. DeliveredProactive' = DeliveredProactive
    BY <1>1 DEF Enqueue, IInv, TypeOK, DeliveredProactive
  <2>. QED
    BY <1>1, <2>1, SameBooks DEF Enqueue, history
<1>2. ASSUME NEW t \in Ticks, NEW m \in Messages, Claim(t, m)  PROVE  Booked'
  <2>1. DeliveredProactive' = DeliveredProactive
    BY <1>2 DEF Claim, IInv, TypeOK, DeliveredProactive
  <2>. QED
    BY <1>2, <2>1, SameBooks DEF Claim, history
<1>3. ASSUME UNCHANGED <<status, isProactive, deliveredToday, takenToday, lostToday>>
      PROVE  Booked'
  <2>1. DeliveredProactive' = DeliveredProactive
    BY <1>3 DEF DeliveredProactive
  <2>. QED
    BY <1>3, <2>1, SameBooks
<1>4. ASSUME NEW t \in Ticks, Step(t)  PROVE  Booked'
  <2>1. ASSUME NEW m \in Messages, HoldBack(t, m)  PROVE  Booked'
    BY <1>3, <2>1 DEF HoldBack, table, history
  <2>2. CASE DelayOver(t) \/ AlertReturns(t) \/ Finish(t) \/ Recorded(t)
    BY <1>3, <2>2 DEF DelayOver, AlertReturns, Finish, Recorded, table, history
  <2>. QED
    BY <1>2, <1>4, <2>1, <2>2, FailureBooked, DeliveryBooked DEF Step
<1>5. ASSUME NEW t \in Ticks, ProcessPending(t)  PROVE  Booked'
  BY <1>3, <1>5 DEF ProcessPending, table, history
<1>6. ASSUME NEW m \in Messages, RetryDue(m)  PROVE  Booked'
  BY <1>3, <1>6 DEF RetryDue, history
<1>7. CASE Midnight
  <2>1. DeliveredProactive' = {} /\ takenToday' = 0 /\ lostToday' = 0
    BY <1>7 DEF Midnight, DeliveredProactive
  <2>2. Cardinality({}) = 0
    BY FS_EmptySet
  <2>. QED
    BY <2>1, <2>2 DEF Booked
<1>8. CASE Crash
  <2>1. UNCHANGED table
    BY <1>8 DEF Crash
  <2>2. DeliveredProactive' = DeliveredProactive
    BY <2>1 DEF table, DeliveredProactive
  <2>3. CASE UNCHANGED history
    BY <2>2, <2>3, SameBooks DEF history
  <2>4. ASSUME NEW t \in Ticks, AcceptedUnseen(t)  PROVE  Booked'
    <3>1. /\ takenToday' = takenToday + Unit(current[t])
          /\ lostToday' = lostToday + Unit(current[t])
      BY <2>4 DEF AcceptedUnseen, Accepted
    <3>2. Cardinality(DeliveredProactive) \in Nat /\ lostToday \in Nat
      BY CountType DEF IInv, CapReserved, TypeOK
    <3>. QED
      BY <2>2, <3>1, <3>2 DEF Booked, Unit
  <2>. QED
    BY <1>8, <2>3, <2>4 DEF Crash
<1>9. CASE UNCHANGED vars
  BY <1>3, <1>9 DEF vars
<1>. QED
  BY <1>1, <1>4, <1>5, <1>6, <1>7, <1>8, <1>9 DEF Next

\* RF-24 for every cap, every set of messages and every interleaving: what the
\* cap does not hold back is what the table never learnt.
THEOREM CapTheorem == Spec => []DailyCapRespected
<1>1. Init => Booked
  <2>1. Init => DeliveredProactive = {} /\ takenToday = 0 /\ lostToday = 0
    BY DEF Init, DeliveredProactive
  <2>. QED
    BY <2>1, FS_EmptySet DEF Booked
<1>2. IInv /\ Booked => DailyCapRespected
  <2>. SUFFICES ASSUME IInv, Booked  PROVE  DailyCapRespected
    OBVIOUS
  <2>1. Cardinality(DeliveredProactive) \in Nat /\ lostToday \in Nat
    BY CountType DEF IInv, CapReserved, TypeOK
  <2>. QED
    BY <2>1, OutboxAssumption DEF IInv, CapReserved, Booked, DailyCapRespected
<1>. QED
  BY <1>1, <1>2, BookedStep, Invariance, PTL DEF Spec

\* Only crashes leave rows in 'sending', at most one each.
THEOREM OrphanTheorem == Spec => []OrphansComeFromCrashes
<1>1. IInv => OrphansComeFromCrashes
  BY DEF IInv, OrphansCounted, Orphans, OrphansComeFromCrashes
<1>. QED
  BY <1>1, Invariance, PTL

\* A message reaches WhatsApp at most MaxAttempts times, whatever fails.
THEOREM ResendTheorem == Spec => []ResendsBounded
<1>1. IInv => ResendsBounded
  <2>. SUFFICES ASSUME IInv, NEW m \in Messages
       PROVE  /\ accepted[m] <= MaxAttempts
              /\ status[m] \in {"absent", "pending"} => accepted[m] <= attempts[m]
    BY DEF ResendsBounded
  <2>1. attempts[m] \in 0 .. MaxAttempts /\ accepted[m] \in Nat /\ status[m] \in Statuses
    BY DEF IInv, TypeOK
  <2>. QED
    BY <2>1, OutboxAssumption DEF IInv, Counted, Statuses
<1>. QED
  BY <1>1, Invariance, PTL

-----------------------------------------------------------------------------
(* The order of a run.  The claim takes the front of the snapshot, and from *)
(* then on no row of it can become an anchor: only an INSERT makes one.     *)

SnapshotInv ==
  /\ RitualsFirst
  /\ \A t \in Ticks : \A m \in todo[t] : status[m] # "absent"

\* Nothing is held before the run begins, nor after the row is settled.
LEMMA NothingHeld ==
  ASSUME IInv, NEW t \in Ticks, pc[t] \notin {"delay", "send", "record"}
  PROVE  current[t] = None
  BY DEF IInv, Holding

\* A step that claims nothing and makes no anchor of a row in a snapshot.
LEMMA SnapshotKept ==
  ASSUME IInv, SnapshotInv,
         \A t \in Ticks : todo'[t] \subseteq todo[t],
         \A t \in Ticks : current'[t] \in {current[t], None},
         isAnchor \subseteq isAnchor',
         \A m \in isAnchor' \ isAnchor : status[m] = "absent",
         \A m \in Messages : status[m] # "absent" => status'[m] # "absent"
  PROVE  SnapshotInv'
<1>1. ASSUME NEW t \in Ticks, NEW m \in todo'[t]  PROVE  status'[m] # "absent"
  BY <1>1 DEF IInv, TypeOK, SnapshotInv
<1>2. ASSUME NEW t \in Ticks, todo'[t] \cap isAnchor' # {}, current'[t] # None
      PROVE  current'[t] \in isAnchor'
  <2>1. PICK m \in todo[t] : m \in isAnchor'
    BY <1>2
  <2>2. m \in isAnchor /\ current'[t] = current[t]
    BY <1>2, <2>1 DEF SnapshotInv
  <2>. QED
    BY <1>2, <2>1, <2>2 DEF SnapshotInv, RitualsFirst
<1>. QED
  BY <1>1, <1>2 DEF SnapshotInv, RitualsFirst

LEMMA ClaimKeepsOrder ==
  ASSUME IInv, SnapshotInv, NEW t \in Ticks, NEW m \in Messages, Claim(t, m)
  PROVE  SnapshotInv'
<1>1. /\ m \in todo[t] /\ \A other \in todo[t] : Precedes(m, other)
      /\ todo' = [todo EXCEPT ![t] = @ \ {m}]
      /\ isAnchor' = isAnchor
  BY DEF Claim, AtFront
<1>2. CASE status[m] # "pending"
  <2>1. UNCHANGED <<status, current>>
    BY <1>2 DEF Claim
  <2>. QED
    BY <1>1, <2>1, SnapshotKept DEF IInv, TypeOK
<1>3. CASE status[m] = "pending"
  <2>1. /\ status' = [status EXCEPT ![m] = "sending"]
        /\ current' = [current EXCEPT ![t] = m]
    BY <1>3 DEF Claim
  <2>2. \A u \in Ticks : \A x \in todo'[u] : status'[x] # "absent"
    BY <1>1, <2>1 DEF IInv, TypeOK, SnapshotInv
  <2>3. ASSUME NEW u \in Ticks, todo'[u] \cap isAnchor # {}, current'[u] # None
        PROVE  current'[u] \in isAnchor
    <3>1. CASE u = t
      <4>1. PICK a \in todo[t] : a \in isAnchor
        BY <1>1, <2>3, <3>1 DEF IInv, TypeOK
      <4>2. Precedes(m, a) /\ current'[u] = m
        BY <1>1, <2>1, <3>1, <4>1 DEF IInv, TypeOK
      <4>. QED
        BY <4>1, <4>2 DEF Precedes
    <3>2. CASE u # t
      BY <1>1, <2>1, <2>3, <3>2 DEF IInv, TypeOK, SnapshotInv, RitualsFirst
    <3>. QED
      BY <3>1, <3>2
  <2>. QED
    BY <1>1, <2>2, <2>3 DEF SnapshotInv, RitualsFirst
<1>. QED
  BY <1>2, <1>3

LEMMA BeginKeepsOrder ==
  ASSUME IInv, SnapshotInv, NEW t \in Ticks, ProcessPending(t)
  PROVE  SnapshotInv'
<1>1. /\ todo' = [todo EXCEPT ![t] = FindPending]
      /\ UNCHANGED <<status, isAnchor, current>>
      /\ current[t] = None
  BY NothingHeld DEF ProcessPending, table
<1>. QED
  BY <1>1 DEF IInv, TypeOK, FindPending, SnapshotInv, RitualsFirst

LEMMA OrderStep == IInv /\ SnapshotInv /\ [Next]_vars => SnapshotInv'
<1>. SUFFICES ASSUME IInv, SnapshotInv, [Next]_vars  PROVE  SnapshotInv'
  OBVIOUS
<1>1. ASSUME NEW m \in Messages, Enqueue(m)  PROVE  SnapshotInv'
  <2>1. /\ status[m] = "absent" /\ status' = [status EXCEPT ![m] = "pending"]
        /\ isAnchor' \in {isAnchor, isAnchor \cup {m}}
        /\ UNCHANGED <<todo, current>>
    BY <1>1 DEF Enqueue, processor
  <2>. QED
    BY <2>1, SnapshotKept DEF IInv, TypeOK
<1>2. ASSUME UNCHANGED <<status, isAnchor, current>>,
             \A t \in Ticks : todo'[t] \subseteq todo[t]
      PROVE  SnapshotInv'
  BY <1>2, SnapshotKept
<1>3. ASSUME NEW t \in Ticks, Step(t)  PROVE  SnapshotInv'
  <2>1. ASSUME NEW m \in Messages, HoldBack(t, m)  PROVE  SnapshotInv'
    BY <1>2, <2>1 DEF HoldBack, table, IInv, TypeOK
  <2>2. ASSUME NEW m \in Messages, Claim(t, m)  PROVE  SnapshotInv'
    BY <2>2, ClaimKeepsOrder
  <2>3. CASE DelayOver(t) \/ AlertReturns(t) \/ Finish(t)
    BY <1>2, <2>3 DEF DelayOver, AlertReturns, Finish, table
  <2>4. CASE SendSucceeds(t)
    <3>1. /\ status' = [status EXCEPT ![current[t]] = "delivered"]
          /\ UNCHANGED <<isAnchor, todo, current>>
      BY <2>4 DEF SendSucceeds
    <3>. QED
      BY <3>1, SnapshotKept DEF IInv, TypeOK
  <2>5. CASE PresenceFails(t) \/ SendFails(t) \/ RecordingFails(t)
    <3>1. HandleSendFailure(t)
      BY <2>5 DEF PresenceFails, SendFails, RecordingFails
    <3>2. /\ \/ status' = [status EXCEPT ![current[t]] = "failed"]
             \/ status' = [status EXCEPT ![current[t]] = "pending"]
          /\ current' = [current EXCEPT ![t] = None]
          /\ UNCHANGED <<isAnchor, todo>>
      BY <3>1 DEF HandleSendFailure
    <3>. QED
      BY <3>2, SnapshotKept DEF IInv, TypeOK
  <2>6. CASE Recorded(t)
    BY <2>6, SnapshotKept DEF Recorded, table, IInv, TypeOK
  <2>. QED
    BY <1>3, <2>1, <2>2, <2>3, <2>4, <2>5, <2>6 DEF Step
<1>4. ASSUME NEW t \in Ticks, ProcessPending(t)  PROVE  SnapshotInv'
  BY <1>4, BeginKeepsOrder
<1>5. ASSUME NEW m \in Messages, RetryDue(m)  PROVE  SnapshotInv'
  BY <1>2, <1>5 DEF RetryDue, processor
<1>6. CASE Midnight
  BY <1>2, <1>6 DEF Midnight, processor
<1>7. CASE Crash
  BY <1>7, SnapshotKept DEF Crash, table
<1>8. CASE UNCHANGED vars
  BY <1>2, <1>8 DEF vars
<1>. QED
  BY <1>1, <1>3, <1>4, <1>5, <1>6, <1>7, <1>8 DEF Next

\* FEAT-006: whatever is enqueued, refused or retried meanwhile, a run sends
\* the rituals of its snapshot before anything else of it.
THEOREM RitualsFirstTheorem == Spec => []RitualsFirst
<1>1. Init => SnapshotInv
  BY DEF Init, SnapshotInv, RitualsFirst
<1>2. SnapshotInv => RitualsFirst
  BY DEF SnapshotInv
<1>. QED
  BY <1>1, <1>2, OrderStep, Invariance, PTL DEF Spec

-----------------------------------------------------------------------------
(* The table implements DailyQuota, step by step.                          *)

LEMMA QuotaInit == Init => Quota!Init
<1>. SUFFICES ASSUME Init PROVE Quota!Init
  OBVIOUS
<1>1. \A m \in Messages : Phase(m) = "new"
  BY DEF Init, Phase
<1>2. DeliveredProactive = {}
  BY DEF Init, DeliveredProactive
<1>. QED
  BY <1>1, <1>2 DEF Quota!Init, Init

\* A step that keeps every phase and the day's count is a stutter.
LEMMA QuotaStutter ==
  ASSUME \A m \in Messages : Phase(m)' = Phase(m),
         isProactive' = isProactive,
         DeliveredProactive' = DeliveredProactive
  PROVE  UNCHANGED Quota!quotaVars
BY DEF Quota!quotaVars

\* A row's phase is its status and, once delivered, whether a run records it.
LEMMA SamePhase ==
  ASSUME NEW x \in Messages, status'[x] = status[x],
         status[x] = "delivered"
           => ((\E t \in Ticks : current'[t] = x) <=> \E t \in Ticks : current[t] = x)
  PROVE  Phase(x)' = Phase(x)
  BY DEF Phase

\* At most one run holds a row.
LEMMA OneHeld ==
  ASSUME IInv, NEW t \in Ticks, pc[t] # "idle"
  PROVE  \A u \in Ticks : current[u] \in {None, current[t]}
  BY DEF IInv, Serial, Active, Holding

LEMMA EnqueueAccepts ==
  ASSUME IInv, NEW m \in Messages, Enqueue(m)
  PROVE  Quota!Accept(m)
<1>. USE DEF IInv, Enqueue, processor
<1>1. status' = [status EXCEPT ![m] = "pending"] /\ status[m] = "absent"
  OBVIOUS
<1>2. Phase(m) = "new" /\ Phase(m)' = "waiting"
  BY <1>1 DEF Phase, TypeOK
<1>3. \A x \in Messages \ {m} : Phase(x)' = Phase(x)
  BY <1>1, SamePhase DEF TypeOK
<1>4. DeliveredProactive' = DeliveredProactive
  BY DEF TypeOK, DeliveredProactive
<1>5. isProactive' \in {isProactive, isProactive \cup {m}}
  OBVIOUS
<1>. HIDE DEF Enqueue, IInv
<1>. QED
  BY <1>2, <1>3, <1>4, <1>5 DEF Quota!Accept, Quota!Move

LEMMA ClaimStutters ==
  ASSUME IInv, NEW t \in Ticks, NEW m \in Messages, Claim(t, m)
  PROVE  UNCHANGED Quota!quotaVars
<1>1. \/ UNCHANGED <<status, current>>
      \/ /\ status[m] = "pending" /\ status' = [status EXCEPT ![m] = "sending"]
         /\ current' = [current EXCEPT ![t] = m]
  BY DEF Claim
<1>2. current[t] = None
  BY DEF Claim, AtFront, IInv, Holding
<1>3. ASSUME NEW x \in Messages  PROVE  Phase(x)' = Phase(x)
  <2>1. CASE UNCHANGED <<status, current>>
    BY <2>1, SamePhase
  <2>2. CASE /\ status[m] = "pending" /\ status' = [status EXCEPT ![m] = "sending"]
             /\ current' = [current EXCEPT ![t] = m]
    <3>1. CASE x = m
      BY <2>2, <3>1 DEF Phase, IInv, TypeOK
    <3>2. CASE x # m
      <4>1. x # None
        BY OutboxAssumption
      <4>2. status'[x] = status[x]
        BY <2>2, <3>2 DEF IInv, TypeOK
      <4>3. \A u \in Ticks : current'[u] = x <=> current[u] = x
        BY <1>2, <2>2, <3>2, <4>1 DEF IInv, TypeOK
      <4>. QED
        BY <4>2, <4>3, SamePhase
    <3>. QED
      BY <3>1, <3>2
  <2>. QED
    BY <1>1, <2>1, <2>2
<1>4. isProactive' = isProactive /\ deliveredToday' = deliveredToday
  BY DEF Claim
<1>5. DeliveredProactive' = DeliveredProactive
  BY <1>1, <1>4 DEF DeliveredProactive, IInv, TypeOK
<1>. QED
  BY <1>3, <1>4, <1>5, QuotaStutter

\* The other rows, when the row that the one active run holds is settled.
LEMMA OtherPhases ==
  ASSUME IInv, NEW t \in Ticks, pc[t] # "idle",
         \A x \in Messages \ {current[t]} : status'[x] = status[x],
         \A u \in Ticks : current'[u] \in {None, current[u]}
  PROVE  \A x \in Messages \ {current[t]} : Phase(x)' = Phase(x)
<1>1. \A u \in Ticks : current[u] \in {None, current[t]}
  BY OneHeld
<1>2. ASSUME NEW x \in Messages \ {current[t]}  PROVE  Phase(x)' = Phase(x)
  <2>1. \A u \in Ticks : current[u] # x /\ current'[u] # x
    BY <1>1, OutboxAssumption
  <2>. QED
    BY <2>1, SamePhase
<1>. QED
  BY <1>2

\* A failed send keeps the message waiting or gives it up; one that fails in
\* its recording is taken back.
LEMMA FailureMaps ==
  ASSUME IInv, NEW t \in Ticks,
         PresenceFails(t) \/ SendFails(t) \/ RecordingFails(t)
  PROVE  \/ Quota!GiveUp(current[t]) \/ Quota!TakeBack(current[t])
         \/ UNCHANGED Quota!quotaVars
<1>1. /\ pc[t] \in {"delay", "send", "record"} /\ HandleSendFailure(t)
  BY DEF PresenceFails, SendFails, RecordingFails
<1>2. PICK m \in Messages :
        /\ m = current[t]
        /\ status[m] = IF pc[t] = "record" THEN "delivered" ELSE "sending"
  <2>1. current[t] \in Messages
    BY <1>1 DEF IInv, TypeOK, Holding
  <2>2. status[current[t]] = IF pc[t] = "record" THEN "delivered" ELSE "sending"
    BY <1>1 DEF IInv, Holding
  <2>. QED
    BY <2>1, <2>2
<1>3. /\ \/ status' = [status EXCEPT ![m] = "failed"]
         \/ status' = [status EXCEPT ![m] = "pending"]
      /\ isProactive' = isProactive
      /\ current' = [current EXCEPT ![t] = None]
  BY <1>1, <1>2 DEF HandleSendFailure
<1>4. \A x \in Messages \ {m} : Phase(x)' = Phase(x)
  <2>1. /\ \A x \in Messages \ {m} : status'[x] = status[x]
        /\ \A u \in Ticks : current'[u] \in {None, current[u]}
    BY <1>3 DEF IInv, TypeOK
  <2>. QED
    BY <1>1, <1>2, <2>1, OtherPhases
<1>5. Phase(m) = IF pc[t] = "record" THEN "sent" ELSE "waiting"
  BY <1>2 DEF Phase
<1>6. DeliveredProactive' = DeliveredProactive \ {m}
  BY <1>2, FailingSteps
<1>7. Phase(m)' \in {"waiting", "givenUp"}
  BY <1>3 DEF Phase, IInv, TypeOK
<1>8. CASE pc[t] = "record"
  <2>1. Quota!TakeBack(m)
    BY <1>3, <1>4, <1>5, <1>6, <1>7, <1>8 DEF Quota!TakeBack, Quota!Move
  <2>. QED
    BY <1>2, <2>1
<1>9. CASE pc[t] # "record"
  <2>1. DeliveredProactive' = DeliveredProactive
    BY <1>2, <1>6, <1>9 DEF DeliveredProactive
  <2>2. CASE Phase(m)' = "givenUp"
    <3>1. Quota!GiveUp(m)
      BY <1>3, <1>4, <1>5, <1>9, <2>1, <2>2 DEF Quota!GiveUp, Quota!Move
    <3>. QED
      BY <1>2, <3>1
  <2>3. CASE Phase(m)' = "waiting"
    <3>1. \A x \in Messages : Phase(x)' = Phase(x)
      BY <1>4, <1>5, <1>9, <2>3
    <3>. QED
      BY <1>3, <2>1, <3>1, QuotaStutter
  <2>. QED
    BY <1>7, <2>2, <2>3
<1>. QED
  BY <1>8, <1>9

LEMMA RowHeld ==
  ASSUME IInv, NEW t \in Ticks, pc[t] \in {"send", "record"}
  PROVE  current[t] \in Messages /\ current[t] # None
<1>1. current[t] # None
  BY DEF IInv, Holding
<1>2. current[t] \in Messages \cup {None}
  BY DEF IInv, TypeOK
<1>. QED
  BY <1>1, <1>2

\* The delivery is within the quota: the run reserved its unit.
LEMMA SendSucceedsDelivers ==
  ASSUME IInv, NEW t \in Ticks, SendSucceeds(t)
  PROVE  Quota!Deliver(current[t])
<1>1. PICK m \in Messages : m = current[t] /\ status[m] = "sending" /\ m # None
  <2>1. pc[t] = "send" /\ status[current[t]] = "sending"
    BY DEF SendSucceeds, IInv, Holding
  <2>. QED
    BY <2>1, RowHeld
<1>2. /\ status' = [status EXCEPT ![m] = "delivered"]
      /\ isProactive' = isProactive /\ current' = current
      /\ deliveredToday' = deliveredToday \cup {m}
      /\ pc[t] = "send"
  BY <1>1 DEF SendSucceeds
<1>3. Phase(m) = "waiting" /\ Phase(m)' = "sent"
  <2>1. Phase(m) = "waiting"
    BY <1>1 DEF Phase
  <2>2. status'[m] = "delivered" /\ current'[t] = m
    BY <1>1, <1>2 DEF IInv, TypeOK
  <2>. QED
    BY <2>1, <2>2 DEF Phase
<1>4. \A x \in Messages \ {m} : Phase(x)' = Phase(x)
  BY <1>2, SamePhase DEF IInv, TypeOK
<1>5. m \in isProactive => Cardinality(DeliveredProactive) < DailyCap
  BY <1>1, <1>2 DEF IInv, CapReserved
<1>6. DeliveredProactive'
        = IF m \in isProactive THEN DeliveredProactive \cup {m} ELSE DeliveredProactive
  BY <1>1, <1>2 DEF DeliveredProactive, IInv, TypeOK
<1>7. m \in isProactive => Quota!Cardinality(DeliveredProactive) < DailyCap
  BY <1>5 DEF Cardinality, Quota!Cardinality
<1>. QED
  BY <1>1, <1>2, <1>3, <1>4, <1>6, <1>7 DEF Quota!Deliver, Quota!Move

\* A run that lets go of the row it recorded, or dies before it could.
LEMMA LetGoConfirms ==
  ASSUME IInv, NEW t \in Ticks, pc[t] = "record",
         UNCHANGED <<status, isProactive, deliveredToday>>,
         current'[t] = None,
         \A u \in Ticks : current'[u] \in {None, current[u]}
  PROVE  current[t] \in Messages /\ Quota!Confirm(current[t])
<1>1. PICK m \in Messages : m = current[t] /\ status[m] = "delivered" /\ m # None
  <2>1. status[current[t]] = "delivered"
    BY DEF IInv, Holding
  <2>. QED
    BY <2>1, RowHeld
<1>2. \A u \in Ticks : current'[u] # m
  BY <1>1, OneHeld DEF IInv, Serial, Active, Holding
<1>3. Phase(m) = "sent" /\ Phase(m)' = "done"
  BY <1>1, <1>2 DEF Phase
<1>4. \A x \in Messages \ {m} : Phase(x)' = Phase(x)
  BY <1>1, OtherPhases
<1>5. DeliveredProactive' = DeliveredProactive
  BY DEF DeliveredProactive
<1>. QED
  BY <1>1, <1>3, <1>4, <1>5 DEF Quota!Confirm, Quota!Move

LEMMA MidnightMaps ==
  ASSUME Midnight
  PROVE  Quota!NextDay
<1>1. UNCHANGED <<status, isProactive, current>> /\ deliveredToday' = {}
  BY DEF Midnight, processor
<1>2. \A x \in Messages : Phase(x)' = Phase(x)
  BY <1>1, SamePhase
<1>3. DeliveredProactive' = {}
  BY <1>1 DEF DeliveredProactive
<1>. QED
  BY <1>1, <1>2, <1>3 DEF Quota!NextDay

\* Every other step leaves what the mapping reads alone.
LEMMA QuietStutters ==
  ASSUME UNCHANGED <<status, isProactive, deliveredToday, current>>
  PROVE  UNCHANGED Quota!quotaVars
<1>1. \A x \in Messages : Phase(x)' = Phase(x)
  BY SamePhase
<1>2. DeliveredProactive' = DeliveredProactive
  BY DEF DeliveredProactive
<1>. QED
  BY <1>1, <1>2, QuotaStutter

\* A crash finds a row being recorded, or nothing that the mapping shows.
LEMMA CrashMaps ==
  ASSUME IInv, Crash
  PROVE  Quota!Next \/ UNCHANGED Quota!quotaVars
<1>1. /\ UNCHANGED <<status, isProactive, deliveredToday>>
      /\ \A u \in Ticks : current'[u] = None
  BY DEF Crash, table
<1>2. CASE \E t \in Ticks : pc[t] = "record"
  BY <1>1, <1>2, LetGoConfirms DEF Quota!Next
<1>3. CASE \A t \in Ticks : pc[t] # "record"
  <2>1. ASSUME NEW x \in Messages  PROVE  Phase(x)' = Phase(x)
    <3>1. status[x] = "delivered" => \A u \in Ticks : current[u] # x
      BY <1>3, OutboxAssumption DEF IInv, Holding
    <3>2. \A u \in Ticks : current'[u] # x
      BY <1>1, OutboxAssumption
    <3>. QED
      BY <1>1, <3>1, <3>2, SamePhase
  <2>2. DeliveredProactive' = DeliveredProactive
    BY <1>1 DEF DeliveredProactive
  <2>. QED
    BY <1>1, <2>1, <2>2, QuotaStutter
<1>. QED
  BY <1>2, <1>3

LEMMA QuotaStep ==
  ASSUME IInv, [Next]_vars
  PROVE  [Quota!Next]_(Quota!quotaVars)
<1>1. ASSUME NEW m \in Messages, Enqueue(m) PROVE Quota!Next
  BY <1>1, EnqueueAccepts DEF Quota!Next
<1>2. ASSUME NEW m \in Messages, RetryDue(m) PROVE UNCHANGED Quota!quotaVars
  BY <1>2, QuietStutters DEF RetryDue, processor
<1>3. ASSUME NEW t \in Ticks, ProcessPending(t) PROVE UNCHANGED Quota!quotaVars
  BY <1>3, QuietStutters DEF ProcessPending, table
<1>4. ASSUME NEW t \in Ticks, Step(t)
      PROVE  Quota!Next \/ UNCHANGED Quota!quotaVars
  <2>1. ASSUME NEW m \in Messages, HoldBack(t, m) PROVE UNCHANGED Quota!quotaVars
    BY <2>1, QuietStutters DEF HoldBack, table
  <2>2. ASSUME NEW m \in Messages, Claim(t, m) PROVE UNCHANGED Quota!quotaVars
    BY <2>2, ClaimStutters
  <2>3. CASE DelayOver(t) \/ AlertReturns(t) \/ Finish(t)
    BY <2>3, QuietStutters DEF DelayOver, AlertReturns, Finish, table
  <2>4. CASE PresenceFails(t) \/ SendFails(t) \/ RecordingFails(t)
    <3>1. current[t] \in Messages
      BY <2>4, OutboxAssumption
      DEF PresenceFails, SendFails, RecordingFails, IInv, TypeOK, Holding
    <3>. QED
      BY <2>4, <3>1, FailureMaps DEF Quota!Next
  <2>5. CASE SendSucceeds(t)
    <3>1. current[t] \in Messages
      BY <2>5, OutboxAssumption DEF IInv, TypeOK, Holding, SendSucceeds
    <3>. QED
      BY <2>5, <3>1, SendSucceedsDelivers DEF Quota!Next
  <2>6. CASE Recorded(t)
    <3>1. /\ pc[t] = "record" /\ current' = [current EXCEPT ![t] = None]
          /\ UNCHANGED <<status, isProactive, deliveredToday>>
      BY <2>6 DEF Recorded, table
    <3>2. current'[t] = None /\ \A u \in Ticks : current'[u] \in {None, current[u]}
      BY <3>1 DEF IInv, TypeOK
    <3>. QED
      BY <3>1, <3>2, LetGoConfirms DEF Quota!Next
  <2>. QED
    BY <1>4, <2>1, <2>2, <2>3, <2>4, <2>5, <2>6 DEF Step
<1>5. CASE Midnight
  BY <1>5, MidnightMaps DEF Quota!Next
<1>6. CASE Crash
  BY <1>6, CrashMaps
<1>7. CASE UNCHANGED vars
  BY <1>7, QuietStutters DEF vars
<1>. QED
  BY <1>1, <1>2, <1>3, <1>4, <1>5, <1>6, <1>7 DEF Next

\* The outbox implements the quota service its clients rely on.
THEOREM Refinement == Spec => ImplementsQuota
<1>1. IInv /\ [Next]_vars => [Quota!Next]_(Quota!quotaVars)
  BY QuotaStep
<1>. QED
  BY <1>1, QuotaInit, Invariance, PTL DEF Spec, ImplementsQuota, Quota!Spec

=============================================================================
