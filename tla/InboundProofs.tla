--------------------------- MODULE InboundProofs ---------------------------
(***************************************************************************)
(* The safety of Inbound for every set of messages, any number of items    *)
(* and crashes and any limit of the sweep.  The properties speak of rows   *)
(* that are done; the invariant says how far each row has come at every    *)
(* stage of its promise, and what is known of a row that waits for a sweep *)
(* with nobody working on it: that a crash has left it there.  The way in  *)
(* implements Handling.  The last section is about ReturnMode, which reads *)
(* the same table of messages.                                             *)
(***************************************************************************)
EXTENDS Inbound, ReturnMode, TLAPS

Waiting(m) == status[m] = "pending" /\ stage[m] = "none"

\* Stages in which the owner has not been answered yet.
Unanswered == {"media", "stt", "triage", "capture", "command", "reply"}

\* A promise works on a pending row only, and the sweep holds rows that wait.
Placed(m) ==
  /\ stage[m] # "none" => status[m] = "pending" /\ phase # "down"
  /\ m \in todo => Waiting(m) /\ phase = "recovering"
  /\ Waiting(m) => /\ crashes > 0
                   /\ phase = "recovering" => m \in todo \cup left
                   /\ phase = "up" => m \in left

\* The task store has an item at every index of the last triage, and that
\* triage's items alone unless the message was split anew.
Complete(m) ==
  /\ \A i \in Positions : extracted[m][i] # None => stored[m][i] # None
  /\ stored[m] = extracted[m] \/ m \in resplit

\* A split is in memory from the triage on, and stored before the answer;
\* only a replay finds items of an earlier attempt in the task store.
Captured(m) ==
  /\ stage[m] \in {"none", "media", "stt", "triage", "command"}
     => extracted[m] = Empty
  /\ stage[m] = "command" => kind[m] = "command"
  /\ stage[m] \in {"media", "stt", "triage", "capture"}
     => kind[m] \notin {"command", "other"}
  /\ status[m] = "absent" \/ kind[m] \in {"command", "other"}
     => stored[m] = Empty
  /\ stage[m] \in {"media", "stt", "triage"}
     => stored[m] = Empty \/ (phase = "recovering" /\ crashes > 0)
  /\ stage[m] = "capture" => m \in resplit \/ ~Differs(m, extracted[m])
  /\ stage[m] \in {"reply", "mark"} => m \in asked \/ Complete(m)
  /\ m \in resplit => crashes > 0

\* One effect and one answer for each attempt, and one attempt per crash more.
Counts(m) ==
  /\ (stage[m] = "mark" \/ status[m] = "processed") /\ kind[m] # "other"
     => replies[m] > 0
  /\ effects[m] <= 1 + crashes /\ replies[m] <= 1 + crashes
  /\ stage[m] \in {"media", "stt", "triage", "command"} \/ Waiting(m)
     => effects[m] <= crashes
  /\ stage[m] \in Unanswered \/ Waiting(m) => replies[m] <= crashes
  /\ status[m] = "absent"
     => effects[m] = 0 /\ replies[m] = 0 /\ m \notin transcribed \cup asked

\* What was transcribed is fetched and transcribed again after a crash only.
Heard(m) ==
  /\ m \in transcribed \cap asked => crashes > 0
  /\ stage[m] \in {"media", "stt"} /\ m \in transcribed \cup asked
     => crashes > 0

Row(m) == Placed(m) /\ Captured(m) /\ Counts(m) /\ Heard(m)

IInv == TypeOK /\ \A m \in Messages : Row(m)

-----------------------------------------------------------------------------
(* A step on one message leaves the others as they are.                    *)

Same(m) ==
  /\ status'[m] = status[m] /\ kind'[m] = kind[m]
  /\ stored'[m] = stored[m] /\ stage'[m] = stage[m]
  /\ extracted'[m] = extracted[m]
  /\ effects'[m] = effects[m] /\ replies'[m] = replies[m]
  /\ (m \in transcribed') = (m \in transcribed)
  /\ (m \in todo') = (m \in todo)
  /\ (m \in asked') = (m \in asked)
  /\ (m \in resplit') = (m \in resplit)
  /\ (m \in left') = (m \in left)
  /\ phase' = phase /\ crashes' = crashes

LEMMA SameRow ==
  ASSUME NEW m \in Messages, Row(m), Same(m)  PROVE  Row(m)'
  BY DEF Row, Same, Placed, Captured, Complete, Differs, Counts, Heard, Waiting

LEMMA OneRow ==
  ASSUME NEW m \in Messages, IInv, TypeOK',
         \A n \in Messages \ {m} : Same(n), Row(m)'
  PROVE  IInv'
  BY SameRow DEF IInv

LEMMA EntryStages ==
  ASSUME NEW k \in Kinds
  PROVE  /\ Entry(k) \in {"command", "triage", "media", "mark"}
         /\ Entry(k) = "mark" => k = "other"
  BY DEF Kinds, Entry

LEMMA CrashesAreNat ==
  ASSUME TypeOK  PROVE  crashes \in Nat /\ MaxCrashes \in Nat
  BY InboundAssumption DEF TypeOK

-----------------------------------------------------------------------------
LEMMA EmptySplit == Empty \in Splits /\ \A i \in Positions : Empty[i] = None
  BY DEF Empty, Splits, Slots

LEMMA InitIInv == Init => IInv
<1>. SUFFICES ASSUME Init  PROVE  IInv
  OBVIOUS
<1>1. TypeOK
  <2>1. crashes \in 0 .. MaxCrashes
    BY InboundAssumption DEF Init
  <2>2. stored \in [Messages -> Slots] /\ extracted \in [Messages -> Splits]
    BY EmptySplit DEF Init, Splits
  <2>. QED
    BY <2>1, <2>2 DEF Init, TypeOK, Kinds, Stages
<1>2. ASSUME NEW m \in Messages  PROVE  Row(m)
  BY DEF Init, Row, Placed, Captured, Complete, Differs, Counts, Heard, Waiting, Unanswered
<1>. QED
  BY <1>1, <1>2 DEF IInv

-----------------------------------------------------------------------------
LEMMA ReceiveStep ==
  ASSUME IInv, NEW m \in Messages, Receive(m)  PROVE  IInv'
<1>1. PICK k \in Kinds : /\ kind' = [kind EXCEPT ![m] = k]
                         /\ stage' = [stage EXCEPT ![m] = Entry(k)]
  BY DEF Receive, Goto
<1>2. /\ Entry(k) \in {"command", "triage", "media", "mark"}
      /\ Entry(k) = "mark" => k = "other"
  BY EntryStages
<1>3. /\ phase = "up" /\ status[m] = "absent"
      /\ status' = [status EXCEPT ![m] = "pending"]
      /\ young' = young \cup {m}
      /\ UNCHANGED <<transcribed, stored, phase, todo, extracted, resplit,
                     effects, replies, asked, left, crashes>>
  BY DEF Receive, history
<1>4. TypeOK'
  BY <1>1, <1>2, <1>3 DEF IInv, TypeOK, Kinds, Stages
<1>5. \A n \in Messages \ {m} : Same(n)
  BY <1>1, <1>3 DEF IInv, TypeOK, Same
<1>6. /\ status'[m] = "pending" /\ stage'[m] = Entry(k) /\ kind'[m] = k
  BY <1>1, <1>3 DEF IInv, TypeOK
<1>7. Row(m)'
  <2>1. Placed(m)'
    BY <1>2, <1>3, <1>6 DEF IInv, Row, Placed, Waiting
  <2>2. Captured(m)'
    <3>1. extracted[m] = Empty /\ stored[m] = Empty
      BY <1>3 DEF IInv, Row, Placed, Captured
    <3>2. /\ Entry(k) = "command" => k = "command"
          /\ Entry(k) \in {"media", "triage"} => k \notin {"command", "other"}
      BY DEF Kinds, Entry
    <3>. QED
      BY <1>2, <1>3, <1>6, <3>1, <3>2 DEF IInv, Row, Captured, Complete
  <2>3. Counts(m)'
    BY <1>2, <1>3, <1>6, CrashesAreNat
       DEF IInv, TypeOK, Row, Counts, Waiting, Unanswered
  <2>4. Heard(m)'
    BY <1>2, <1>3, <1>6 DEF IInv, Row, Counts, Heard
  <2>. QED
    BY <2>1, <2>2, <2>3, <2>4 DEF Row
<1>. QED
  BY <1>4, <1>5, <1>7, OneRow

LEMMA RedeliverStep ==
  ASSUME IInv, NEW m \in Messages, Redeliver(m)  PROVE  IInv'
<1>1. \A n \in Messages : Same(n)
  BY DEF Redeliver, vars, Same
<1>2. TypeOK'
  BY DEF Redeliver, vars, IInv, TypeOK
<1>. QED
  BY <1>1, <1>2, SameRow DEF IInv

-----------------------------------------------------------------------------
(* The stages of the promise.                                              *)

LEMMA AudioTooLongStep ==
  ASSUME IInv, NEW m \in Messages, AudioTooLong(m)  PROVE  IInv'
<1>1. TypeOK'
  BY DEF AudioTooLong, Replied, Goto, table, IInv, TypeOK, Stages
<1>2. \A n \in Messages \ {m} : Same(n)
  BY DEF AudioTooLong, Replied, Goto, table, IInv, TypeOK, Same
<1>3. /\ stage[m] = "media" /\ stage'[m] = "mark"
      /\ replies'[m] = replies[m] + 1
      /\ UNCHANGED <<table, phase, todo, extracted, resplit, effects, asked, left, crashes>>
  BY DEF AudioTooLong, Replied, Goto, IInv, TypeOK
<1>4. phase = "up" /\ extracted[m] = Empty /\ stored[m] = Empty
  BY <1>3 DEF AudioTooLong, IInv, Row, Captured
<1>5. Placed(m)' /\ Heard(m)'
  BY <1>3 DEF table, IInv, Row, Placed, Heard, Waiting
<1>6. Captured(m)'
  BY <1>3, <1>4, EmptySplit DEF table, IInv, Row, Captured, Complete
<1>7. Counts(m)'
  BY <1>3, CrashesAreNat
     DEF table, IInv, TypeOK, Row, Placed, Counts, Waiting, Unanswered
<1>8. Row(m)'
  BY <1>5, <1>6, <1>7 DEF Row
<1>. QED
  BY <1>1, <1>2, <1>8, OneRow

LEMMA MediaFetchedStep ==
  ASSUME IInv, NEW m \in Messages, MediaFetched(m)  PROVE  IInv'
<1>1. TypeOK'
  BY DEF MediaFetched, Goto, table, history, IInv, TypeOK, Stages
<1>2. \A n \in Messages \ {m} : Same(n)
  BY DEF MediaFetched, Goto, table, history, IInv, TypeOK, Same
<1>3. /\ stage[m] = "media" /\ stage'[m] = "stt"
      /\ UNCHANGED <<table, phase, todo, extracted, history, crashes>>
  BY DEF MediaFetched, Goto, IInv, TypeOK
<1>4. Row(m)'
  BY <1>3, CrashesAreNat DEF table, history, IInv, TypeOK, Row, Placed,
       Captured, Complete, Differs, Counts, Heard, Waiting, Unanswered
<1>. QED
  BY <1>1, <1>2, <1>4, OneRow

LEMMA MediaExpiredStep ==
  ASSUME IInv, NEW m \in Messages, MediaExpired(m)  PROVE  IInv'
<1>1. TypeOK'
  BY DEF MediaExpired, Replied, Goto, table, IInv, TypeOK, Stages
<1>2. \A n \in Messages \ {m} : Same(n)
  BY DEF MediaExpired, Replied, Goto, table, IInv, TypeOK, Same
<1>3. /\ stage[m] = "media" /\ stage'[m] = "mark"
      /\ replies'[m] = replies[m] + 1
      /\ UNCHANGED <<table, phase, todo, extracted, resplit, effects, left, crashes>>
  BY DEF MediaExpired, Replied, Goto, IInv, TypeOK
<1>4. asked' = asked \cup {m}
  BY DEF MediaExpired
<1>5. Placed(m)'
  BY <1>3 DEF table, IInv, Row, Placed, Waiting
<1>6. Captured(m)'
  BY <1>3, <1>4 DEF table, IInv, Row, Captured
<1>7. Counts(m)' /\ Heard(m)'
  BY <1>3, <1>4, CrashesAreNat
     DEF table, IInv, TypeOK, Row, Placed, Counts, Heard, Waiting, Unanswered
<1>8. Row(m)'
  BY <1>5, <1>6, <1>7 DEF Row
<1>. QED
  BY <1>1, <1>2, <1>8, OneRow

LEMMA TranscribedStep ==
  ASSUME IInv, NEW m \in Messages, Transcribed(m)  PROVE  IInv'
<1>1. TypeOK'
  BY DEF Transcribed, Goto, history, IInv, TypeOK, Stages
<1>2. \A n \in Messages \ {m} : Same(n)
  BY DEF Transcribed, Goto, history, IInv, TypeOK, Same
<1>3. /\ stage[m] = "stt" /\ stage'[m] = "triage"
      /\ UNCHANGED <<status, kind, stored, phase, todo, extracted, history, crashes>>
  BY DEF Transcribed, Goto, IInv, TypeOK
<1>4. Row(m)'
  BY <1>3, CrashesAreNat DEF history, IInv, TypeOK, Row, Placed, Captured, Complete, Differs,
       Counts, Heard, Waiting, Unanswered
<1>. QED
  BY <1>1, <1>2, <1>4, OneRow

LEMMA SttFailsStep ==
  ASSUME IInv, NEW m \in Messages, SttFails(m)  PROVE  IInv'
<1>1. TypeOK'
  BY DEF SttFails, Replied, Goto, table, IInv, TypeOK, Stages
<1>2. \A n \in Messages \ {m} : Same(n)
  BY DEF SttFails, Replied, Goto, table, IInv, TypeOK, Same
<1>3. /\ stage[m] = "stt" /\ stage'[m] = "throw"
      /\ replies'[m] = replies[m] + 1
      /\ UNCHANGED <<table, phase, todo, extracted, resplit, effects, left, crashes>>
  BY DEF SttFails, Replied, Goto, IInv, TypeOK
<1>4. Row(m)'
  BY <1>3, CrashesAreNat DEF table, IInv, TypeOK, Row, Placed, Captured, Complete, Differs,
       Counts, Heard, Waiting, Unanswered
<1>. QED
  BY <1>1, <1>2, <1>4, OneRow

\* A split that differs from what is stored is a replay's.
LEMMA TriagedStep ==
  ASSUME IInv, NEW m \in Messages, NEW split \in Splits, Triaged(m, split)
  PROVE  IInv'
<1>1. /\ stage[m] = "triage"
      /\ extracted' = [extracted EXCEPT ![m] = split]
      /\ resplit' = IF Differs(m, split) THEN resplit \cup {m} ELSE resplit
      /\ stage' = [stage EXCEPT ![m] = IF split = Empty THEN "reply" ELSE "capture"]
      /\ UNCHANGED <<table, phase, todo, effects, replies, asked, left, crashes>>
  BY DEF Triaged, Goto
<1>2. TypeOK'
  BY <1>1 DEF table, IInv, TypeOK, Stages
<1>3. \A n \in Messages \ {m} : Same(n)
  BY <1>1 DEF table, IInv, TypeOK, Same
<1>4. /\ extracted'[m] = split
      /\ stage'[m] \in {"reply", "capture"}
      /\ stage'[m] = "reply" => split = Empty
  BY <1>1 DEF IInv, TypeOK
<1>5. Row(m)'
  <2>1. Captured(m)'
    <3>1. Differs(m, split) => stored[m] # Empty
      BY EmptySplit DEF Differs
    <3>2. ~Differs(m, Empty) => stored[m] = Empty
      <4>1. stored[m] \in Slots
        BY DEF IInv, TypeOK
      <4>2. ~Differs(m, Empty) => \A i \in Positions : stored[m][i] = Empty[i]
        BY EmptySplit DEF Differs
      <4>. QED
        BY <4>1, <4>2 DEF Slots, Empty
    <3>3. m \in resplit' => crashes > 0
      BY <1>1, <3>1 DEF IInv, Row, Captured
    <3>4. m \in resplit' \/ ~Differs(m, split)
      BY <1>1
    <3>5. Differs(m, extracted[m])' = Differs(m, split)
      BY <1>1, <1>4 DEF table, Differs
    <3>6. stage'[m] = "reply" => Complete(m)'
      BY <1>1, <1>4, <3>2, <3>4, EmptySplit DEF table, Complete
    <3>. QED
      BY <1>1, <1>4, <3>3, <3>4, <3>5, <3>6 DEF table, IInv, Row, Captured
  <2>2. Placed(m)' /\ Heard(m)'
    BY <1>1, <1>4 DEF table, IInv, Row, Placed, Heard, Waiting
  <2>3. Counts(m)'
    BY <1>1, <1>4, CrashesAreNat
       DEF table, IInv, TypeOK, Row, Placed, Counts, Waiting, Unanswered
  <2>. QED
    BY <2>1, <2>2, <2>3 DEF Row
<1>. QED
  BY <1>2, <1>3, <1>5, OneRow

LEMMA StoreItemStep ==
  ASSUME IInv, NEW m \in Messages, NEW i \in Positions, StoreItem(m, i)
  PROVE  IInv'
<1>1. /\ stage[m] = "capture" /\ stored[m][i] = None /\ extracted[m][i] # None
      /\ stored' = [stored EXCEPT ![m][i] = extracted[m][i]]
      /\ UNCHANGED <<status, kind, young, transcribed, process, history, crashes>>
  BY DEF StoreItem, ToStore, Extracted, Stored
<1>2. TypeOK'
  <2>1. extracted[m][i] \in Contents \cup {None}
    BY DEF IInv, TypeOK, Splits, Slots
  <2>2. stored' \in [Messages -> Slots]
    BY <1>1, <2>1 DEF IInv, TypeOK, Slots
  <2>. QED
    BY <1>1, <2>2 DEF process, history, IInv, TypeOK
<1>3. \A n \in Messages \ {m} : Same(n)
  BY <1>1 DEF process, history, IInv, TypeOK, Same
<1>4. Row(m)'
  <2>1. \A j \in Positions :
          stored'[m][j] = IF j = i THEN extracted[m][i] ELSE stored[m][j]
    BY <1>1 DEF IInv, TypeOK, Slots
  <2>2. Differs(m, extracted[m])' => Differs(m, extracted[m])
    BY <1>1, <2>1 DEF process, Differs
  <2>3. status[m] = "pending"
    BY <1>1 DEF IInv, Row, Placed
  <2>4. Captured(m)'
    BY <1>1, <2>2, <2>3 DEF process, history, IInv, Row, Captured
  <2>5. Placed(m)' /\ Counts(m)' /\ Heard(m)'
    BY <1>1, CrashesAreNat DEF process, history, IInv, TypeOK, Row, Placed,
       Counts, Heard, Waiting, Unanswered
  <2>. QED
    BY <2>4, <2>5 DEF Row
<1>. QED
  BY <1>2, <1>3, <1>4, OneRow

LEMMA RunCommandStep ==
  ASSUME IInv, NEW m \in Messages, RunCommand(m)  PROVE  IInv'
<1>1. TypeOK'
  BY DEF RunCommand, Goto, table, IInv, TypeOK, Stages
<1>2. \A n \in Messages \ {m} : Same(n)
  BY DEF RunCommand, Goto, table, IInv, TypeOK, Same
<1>3. /\ stage[m] = "command" /\ stage'[m] = "reply"
      /\ effects'[m] = effects[m] + 1
      /\ UNCHANGED <<table, phase, todo, extracted, resplit, replies, asked, left, crashes>>
  BY DEF RunCommand, Goto, IInv, TypeOK
<1>4. Complete(m)'
  BY <1>3 DEF table, IInv, Row, Captured, Complete, Empty
<1>5. Row(m)'
  BY <1>3, <1>4, CrashesAreNat DEF table, IInv, TypeOK, Row, Placed, Captured, Complete, Differs,
       Counts, Heard, Waiting, Unanswered
<1>. QED
  BY <1>1, <1>2, <1>5, OneRow

LEMMA ReplyStep ==
  ASSUME IInv, NEW m \in Messages, Reply(m)  PROVE  IInv'
<1>1. TypeOK'
  BY DEF Reply, Replied, Goto, table, IInv, TypeOK, Stages
<1>2. \A n \in Messages \ {m} : Same(n)
  BY DEF Reply, Replied, Goto, table, IInv, TypeOK, Same
<1>3. /\ stage[m] \in {"reply", "capture"} /\ stage'[m] = "mark"
      /\ replies'[m] = replies[m] + 1
      /\ UNCHANGED <<table, phase, todo, extracted, resplit, effects, asked, left, crashes>>
  BY DEF Reply, Replied, Goto, IInv, TypeOK
<1>4. m \in asked \/ Complete(m)
  <2>1. CASE stage[m] = "reply"
    BY <2>1 DEF IInv, Row, Captured
  <2>2. CASE stage[m] = "capture"
    <3>1. ToStore(m) = {}
      BY <2>2 DEF Reply
    <3>2. \A i \in Positions : extracted[m][i] # None => stored[m][i] # None
      BY <3>1 DEF ToStore, Extracted, Stored
    <3>3. CASE ~Differs(m, extracted[m])
      <4>1. \A i \in Positions : stored[m][i] = extracted[m][i]
        BY <3>2, <3>3 DEF Differs
      <4>2. stored[m] \in Slots /\ extracted[m] \in Slots
        BY DEF IInv, TypeOK, Splits
      <4>. QED
        BY <3>2, <4>1, <4>2 DEF Slots, Complete
    <3>. QED
      BY <2>2, <3>2, <3>3 DEF IInv, Row, Captured, Complete
  <2>. QED
    BY <1>3, <2>1, <2>2
<1>5. Captured(m)'
  BY <1>3, <1>4 DEF table, IInv, Row, Placed, Captured, Complete, Waiting
<1>6. Placed(m)' /\ Heard(m)'
  BY <1>3 DEF table, IInv, Row, Placed, Heard, Waiting
<1>7. Counts(m)'
  BY <1>3, CrashesAreNat DEF table, IInv, TypeOK, Row, Placed, Counts, Waiting,
       Unanswered
<1>. QED
  BY <1>1, <1>2, <1>5, <1>6, <1>7, OneRow DEF Row

LEMMA MarkProcessedStep ==
  ASSUME IInv, NEW m \in Messages, MarkProcessed(m)  PROVE  IInv'
<1>1. TypeOK'
  BY EmptySplit DEF MarkProcessed, Ends, Goto, history, IInv, TypeOK, Stages
<1>2. \A n \in Messages \ {m} : Same(n)
  BY DEF MarkProcessed, Ends, Goto, history, IInv, TypeOK, Same
<1>3. /\ stage[m] = "mark" /\ stage'[m] = "none" /\ status'[m] = "processed"
      /\ extracted'[m] = Empty
      /\ UNCHANGED <<kind, transcribed, stored, phase, todo, history, crashes>>
  BY DEF MarkProcessed, Ends, Goto, IInv, TypeOK
<1>4. Row(m)'
  BY <1>3, CrashesAreNat DEF history, IInv, TypeOK, Row, Placed, Captured, Complete, Differs,
       Counts, Heard, Waiting, Unanswered
<1>. QED
  BY <1>1, <1>2, <1>4, OneRow

LEMMA ThrowsStep ==
  ASSUME IInv, NEW m \in Messages, Throws(m)  PROVE  IInv'
<1>1. TypeOK'
  BY EmptySplit DEF Throws, Ends, Goto, history, IInv, TypeOK, Stages
<1>2. \A n \in Messages \ {m} : Same(n)
  BY DEF Throws, Ends, Goto, history, IInv, TypeOK, Same
<1>3. /\ stage[m] # "none" /\ stage'[m] = "none" /\ status'[m] = "failed"
      /\ extracted'[m] = Empty
      /\ UNCHANGED <<kind, transcribed, stored, phase, todo, history, crashes>>
  BY DEF Throws, Ends, Goto, IInv, TypeOK
<1>4. Row(m)'
  BY <1>3, CrashesAreNat DEF history, IInv, TypeOK, Row, Placed, Captured, Complete, Differs,
       Counts, Heard, Waiting, Unanswered
<1>. QED
  BY <1>1, <1>2, <1>4, OneRow

-----------------------------------------------------------------------------
(* The sweep, time and crashes.                                            *)

LEMMA ScanStep == ASSUME IInv, Scan  PROVE  IInv'
<1>1. /\ phase = "down" /\ phase' = "recovering"
      /\ todo' \subseteq FindPendingInbound
      /\ left' \subseteq FindPendingInbound
      /\ FindPendingInbound \subseteq todo' \cup left'
      /\ UNCHANGED <<table, stage, extracted, resplit, effects, replies, asked, crashes>>
  BY DEF Scan, Eligible, Candidates
<1>2. FindPendingInbound = {m \in Messages : status[m] = "pending"}
  BY DEF FindPendingInbound
<1>3. TypeOK'
  BY <1>1, <1>2 DEF table, IInv, TypeOK
<1>4. ASSUME NEW m \in Messages  PROVE  Row(m)'
  <2>1. stage[m] = "none"
    BY <1>1 DEF IInv, Row, Placed
  <2>2. Placed(m)'
    BY <1>1, <1>2, <2>1 DEF table, IInv, Row, Placed, Waiting
  <2>3. Captured(m)' /\ Counts(m)' /\ Heard(m)'
    BY <1>1 DEF table, IInv, Row, Captured, Complete, Differs, Counts, Heard, Waiting
  <2>. QED
    BY <2>2, <2>3 DEF Row
<1>. QED
  BY <1>3, <1>4 DEF IInv

LEMMA RecoverNextStep ==
  ASSUME IInv, NEW m \in Messages, RecoverNext(m)  PROVE  IInv'
<1>1. /\ phase = "recovering" /\ m \in todo
      /\ todo' = todo \ {m}
      /\ stage' = [stage EXCEPT ![m] = Entry(kind[m])]
      /\ UNCHANGED <<table, phase, extracted, history, crashes>>
  BY DEF RecoverNext, Goto
<1>2. /\ Entry(kind[m]) \in {"command", "triage", "media", "mark"}
      /\ Entry(kind[m]) = "mark" => kind[m] = "other"
  BY EntryStages DEF IInv, TypeOK
<1>3. TypeOK'
  BY <1>1, <1>2 DEF table, history, IInv, TypeOK, Stages
<1>4. \A n \in Messages \ {m} : Same(n)
  BY <1>1 DEF table, history, IInv, TypeOK, Same
<1>5. Waiting(m) /\ crashes > 0 /\ stage'[m] = Entry(kind[m])
  BY <1>1 DEF IInv, TypeOK, Row, Placed
<1>6. Placed(m)'
  BY <1>1, <1>2, <1>5 DEF table, history, Placed, Waiting
<1>7. Captured(m)'
  <2>1. extracted[m] = Empty /\ kind[m] \in Kinds
    BY <1>5 DEF IInv, TypeOK, Row, Captured, Waiting
  <2>2. /\ Entry(kind[m]) = "command" => kind[m] = "command"
        /\ Entry(kind[m]) \in {"media", "triage"} => kind[m] \notin {"command", "other"}
    BY <2>1 DEF Kinds, Entry
  <2>. QED
    BY <1>1, <1>2, <1>5, <2>1, <2>2, EmptySplit
    DEF table, history, IInv, Row, Captured, Complete
<1>8. Counts(m)'
  BY <1>1, <1>2, <1>5, CrashesAreNat
     DEF table, history, IInv, TypeOK, Row, Counts, Waiting, Unanswered
<1>9. Heard(m)'
  BY <1>1, <1>5 DEF table, history, Heard
<1>. QED
  BY <1>3, <1>4, <1>6, <1>7, <1>8, <1>9, OneRow DEF Row

LEMMA ListenStep == ASSUME IInv, Listen  PROVE  IInv'
<1>1. TypeOK'
  BY DEF Listen, table, history, IInv, TypeOK
<1>2. ASSUME NEW m \in Messages  PROVE  Row(m)'
  <2>1. Placed(m)'
    BY DEF Listen, table, history, IInv, Row, Placed, Waiting
  <2>2. stage[m] = "none"
    BY DEF Listen, Idle
  <2>3. Captured(m)'
    BY <2>2 DEF Listen, table, history, IInv, Row, Captured
  <2>4. Counts(m)' /\ Heard(m)'
    BY DEF Listen, table, history, IInv, Row, Counts, Heard, Waiting
  <2>. QED
    BY <2>1, <2>3, <2>4 DEF Row
<1>. QED
  BY <1>1, <1>2 DEF IInv

LEMMA GrowsOldStep ==
  ASSUME IInv, NEW m \in Messages, GrowsOld(m)  PROVE  IInv'
<1>1. TypeOK'
  BY DEF GrowsOld, process, history, IInv, TypeOK
<1>2. \A n \in Messages : Same(n)
  BY DEF GrowsOld, process, history, Same
<1>. QED
  BY <1>1, <1>2, SameRow DEF IInv

\* A crash leaves every unfinished row waiting, with one attempt spent.
LEMMA CrashStep == ASSUME IInv, Crash  PROVE  IInv'
<1>1. /\ phase' = "down" /\ todo' = {}
      /\ stage' = [m \in Messages |-> "none"]
      /\ extracted' = [m \in Messages |-> Empty]
      /\ crashes < MaxCrashes /\ crashes' = crashes + 1
      /\ UNCHANGED <<table, history>>
  BY DEF Crash
<1>2. crashes \in Nat /\ MaxCrashes \in Nat
  BY CrashesAreNat DEF IInv
<1>3. TypeOK'
  <2>1. crashes' \in 0 .. MaxCrashes
    BY <1>1, <1>2
  <2>2. extracted' \in [Messages -> Splits]
    BY <1>1, EmptySplit
  <2>3. stage' \in [Messages -> Stages] /\ todo' \subseteq Messages
    BY <1>1 DEF Stages
  <2>. QED
    BY <1>1, <2>1, <2>2, <2>3 DEF table, history, IInv, TypeOK
<1>4. ASSUME NEW m \in Messages  PROVE  Row(m)'
  <2>1. stage'[m] = "none" /\ extracted'[m] = Empty
    BY <1>1
  <2>2. Placed(m)' /\ Captured(m)'
    BY <1>1, <1>2, <2>1 DEF table, history, IInv, Row, Placed, Captured, Waiting
  <2>3. Counts(m)'
    BY <1>1, <1>2, <2>1 DEF table, history, IInv, TypeOK, Row, Counts, Waiting,
                            Unanswered
  <2>4. Heard(m)'
    BY <1>1, <1>2, <2>1 DEF Heard
  <2>. QED
    BY <2>2, <2>3, <2>4 DEF Row
<1>. QED
  BY <1>3, <1>4 DEF IInv

-----------------------------------------------------------------------------
LEMMA StepIInv ==
  ASSUME IInv, NEW m \in Messages, Step(m)  PROVE  IInv'
  BY AudioTooLongStep, MediaFetchedStep, MediaExpiredStep, TranscribedStep,
     SttFailsStep, TriagedStep, StoreItemStep, RunCommandStep, ReplyStep,
     MarkProcessedStep, ThrowsStep DEF Step

LEMMA NextIInv == IInv /\ [Next]_vars => IInv'
<1>. SUFFICES ASSUME IInv, [Next]_vars  PROVE  IInv'
  OBVIOUS
<1>1. ASSUME NEW m \in Messages,
             \/ Receive(m) \/ Redeliver(m) \/ Step(m)
             \/ RecoverNext(m) \/ GrowsOld(m)
      PROVE  IInv'
  BY <1>1, ReceiveStep, RedeliverStep, StepIInv, RecoverNextStep, GrowsOldStep
<1>2. CASE Scan \/ Listen \/ Crash
  BY <1>2, ScanStep, ListenStep, CrashStep
<1>3. CASE UNCHANGED vars
  <2>1. TypeOK'
    BY <1>3 DEF vars, IInv, TypeOK
  <2>2. \A n \in Messages : Same(n)
    BY <1>3 DEF vars, Same
  <2>. QED
    BY <2>1, <2>2, SameRow DEF IInv
<1>. QED
  BY <1>1, <1>2, <1>3 DEF Next

\* The inductive invariant of the way in: where each row stands, and what is
\* known of it there.
THEOREM InboundInvariance == Spec => []IInv
  BY InitIInv, NextIInv, PTL DEF Spec

\* ADR-018, idempotent capture: a message is done only when the task store
\* has an item at every index of its last triage, that triage's items alone
\* unless a replay split the text anew, however often it was cut off.
THEOREM CaptureTheorem == Spec => CaptureComplete
<1>1. ASSUME IInv, NEW m \in Messages, Completes(m)
      PROVE  Complete(m) /\ (m \in resplit => crashes > 0)
  BY <1>1 DEF IInv, Row, Captured, Completes
<1>2. IInv /\ [Next]_vars
        => [\A m \in Messages :
              Completes(m) =>
                /\ \A i \in Positions :
                     extracted[m][i] # None => stored[m][i] # None
                /\ stored[m] = extracted[m] \/ (m \in resplit /\ crashes > 0)]_vars
  BY <1>1 DEF Complete
<1>. QED
  BY <1>2, InboundInvariance, PTL DEF Spec, CaptureComplete

\* Every path that ends in markProcessed has put an answer into the outbox.
THEOREM AnswerTheorem == Spec => []AnsweredWhenProcessed
<1>1. IInv => AnsweredWhenProcessed
  BY DEF IInv, Row, Counts, AnsweredWhenProcessed
<1>. QED
  BY <1>1, InboundInvariance, PTL

\* Commands and answers repeat at most once per crash, for any number of
\* deliveries of the same message.
THEOREM RedoneTheorem == Spec => []RedoneOnlyByCrash
<1>1. IInv => RedoneOnlyByCrash
  BY DEF IInv, Row, Counts, Heard, RedoneOnlyByCrash
<1>. QED
  BY <1>1, InboundInvariance, PTL

\* A row is left pending only by a crash and the sweep after it, for every
\* threshold and limit of the sweep.
THEOREM ForgottenTheorem == Spec => []ForgottenOnlyAtBoot
<1>1. IInv => ForgottenOnlyAtBoot
  BY DEF IInv, Row, Placed, Waiting, ForgottenOnlyAtBoot
<1>. QED
  BY <1>1, InboundInvariance, PTL

-----------------------------------------------------------------------------
(* The refinement of Handling.  What the promise of a message still has to *)
(* say is that nothing but marking is done for one that asks for nothing.  *)

Purpose ==
  \A m \in Messages : stage[m] \notin {"none", "mark"} => kind[m] # "other"

\* Where a promise may be after a step, seen from before it.
Moved(m) ==
  \/ stage'[m] = stage[m] /\ kind'[m] = kind[m]
  \/ stage'[m] \in {"none", "mark"}
  \/ stage[m] \notin {"none", "mark"} /\ kind'[m] = kind[m]
  \/ stage'[m] = Entry(kind'[m]) /\ kind'[m] \in Kinds

LEMMA EveryMove ==
  ASSUME IInv, [Next]_vars, NEW m \in Messages  PROVE  Moved(m)
<1>1. stage \in [Messages -> Stages] /\ kind \in [Messages -> Kinds]
  BY DEF IInv, TypeOK
<1>2. ASSUME NEW n \in Messages, Receive(n)  PROVE  Moved(m)
  <2>1. PICK k \in Kinds : /\ kind' = [kind EXCEPT ![n] = k]
                           /\ stage' = [stage EXCEPT ![n] = Entry(k)]
    BY <1>2 DEF Receive, Goto
  <2>. QED
    BY <1>1, <2>1 DEF Moved
<1>3. ASSUME NEW n \in Messages, RecoverNext(n)  PROVE  Moved(m)
  <2>1. stage' = [stage EXCEPT ![n] = Entry(kind[n])] /\ kind' = kind
    BY <1>3 DEF RecoverNext, Goto, table
  <2>. QED
    BY <1>1, <2>1 DEF Moved
<1>4. ASSUME NEW n \in Messages, Step(n)  PROVE  Moved(m)
  <2>1. /\ kind' = kind
        /\ \/ stage' = stage
           \/ \E s \in Stages : /\ stage' = [stage EXCEPT ![n] = s]
                                /\ \/ stage[n] \notin {"none", "mark"}
                                   \/ s \in {"none", "mark"}
    BY <1>4 DEF Step, AudioTooLong, MediaFetched, MediaExpired, Transcribed,
         SttFails, Triaged, StoreItem, RunCommand, Reply, MarkProcessed, Throws,
         Ends, Goto, table, process, history, Stages
  <2>. QED
    BY <1>1, <2>1 DEF Moved
<1>5. CASE Crash
  BY <1>5 DEF Crash, Moved
<1>6. CASE \/ Scan \/ Listen \/ UNCHANGED vars
           \/ \E n \in Messages : Redeliver(n) \/ GrowsOld(n)
  BY <1>6 DEF Scan, Listen, Redeliver, GrowsOld, table, process, vars, Moved
<1>. QED
  BY <1>2, <1>3, <1>4, <1>5, <1>6 DEF Next

LEMMA PurposeInvariance == Spec => []Purpose
<1>1. Init => Purpose
  BY DEF Init, Purpose
<1>2. ASSUME IInv, Purpose, [Next]_vars  PROVE  Purpose'
  <2>. SUFFICES ASSUME NEW m \in Messages, stage'[m] \notin {"none", "mark"}
       PROVE  kind'[m] # "other"
    BY DEF Purpose
  <2>1. Moved(m)
    BY <1>2, EveryMove
  <2>2. kind'[m] = "other" => Entry(kind'[m]) = "mark"
    BY DEF Entry
  <2>. QED
    BY <1>2, <2>1, <2>2 DEF Moved, Purpose
<1>. QED
  BY <1>1, <1>2, InboundInvariance, PTL DEF Spec

\* The messages that ask for something.
Asking == {m \in Messages : status[m] # "absent" /\ kind[m] # "other"}

LEMMA OutcomeOf ==
  ASSUME IInv, NEW m \in Messages
  PROVE  /\ Outcome(m) = "new" <=> status[m] = "absent"
         /\ Outcome(m) = "owed" <=> status[m] = "pending"
         /\ Outcome(m) = "handled" <=> status[m] = "processed"
         /\ Outcome(m) = "givenUp" <=> status[m] = "failed"
  BY DEF IInv, TypeOK, Outcome

\* A promise works for a message that is owed.
LEMMA AtWork ==
  ASSUME IInv, Purpose, NEW m \in Messages, stage[m] \notin {"none", "mark"}
  PROVE  status[m] = "pending" /\ m \in Asking
  BY DEF IInv, Row, Placed, Purpose, Asking

\* A step that changes no outcome leaves the mapped state alone but for the
\* records it writes.
LEMMA SameOutcomes ==
  ASSUME UNCHANGED <<status, kind>>
  PROVE  /\ \A m \in Messages : Outcome(m)' = Outcome(m)
         /\ Asking' = Asking
  BY DEF Outcome, Asking

\* A step that changes one outcome is the move of that message.
LEMMA OneOutcome ==
  ASSUME IInv, NEW m \in Messages, NEW from, NEW to,
         NEW s \in {"pending", "processed", "failed"},
         status' = [status EXCEPT ![m] = s],
         Outcome(m) = from, Outcome(m)' = to
  PROVE  Promised!Move(m, from, to)
<1>1. ASSUME NEW n \in Messages \ {m}  PROVE  Outcome(n)' = Outcome(n)
  BY DEF IInv, TypeOK, Outcome
<1>. QED
  BY <1>1 DEF Promised!Move

LEMMA ReceiveAccepts ==
  ASSUME IInv, NEW m \in Messages, Receive(m)  PROVE  Promised!Accept(m)
<1>1. PICK k \in Kinds : kind' = [kind EXCEPT ![m] = k]
  BY DEF Receive
<1>2. /\ status[m] = "absent" /\ status' = [status EXCEPT ![m] = "pending"]
      /\ UNCHANGED <<stored, effects, replies, crashes>>
  BY DEF Receive, history
<1>3. Outcome(m) = "new" /\ Outcome(m)' = "owed"
  BY <1>2 DEF IInv, TypeOK, Outcome
<1>4. Promised!Move(m, "new", "owed")
  BY <1>2, <1>3, OneOutcome
<1>5. \A n \in Messages \ {m} : status'[n] = status[n] /\ kind'[n] = kind[n]
  BY <1>1, <1>2 DEF IInv, TypeOK
<1>6. Asking' \in {Asking, Asking \cup {m}}
  BY <1>2, <1>5 DEF Asking
<1>. QED
  BY <1>2, <1>4, <1>6 DEF Promised!Accept, Asking, Stored

\* What writes an answer is still within its budget of answers.
LEMMA AnswerMaps ==
  ASSUME IInv, Purpose, NEW m \in Messages, stage[m] \in Unanswered, Replied(m),
         UNCHANGED <<table, effects, crashes>>
  PROVE  Promised!Answer(m)
<1>1. status[m] = "pending" /\ m \in Asking
  BY AtWork DEF Unanswered
<1>2. Outcome(m) = "owed" /\ \A n \in Messages : Outcome(n)' = Outcome(n)
  BY <1>1, OutcomeOf, SameOutcomes DEF table
<1>3. replies[m] <= crashes
  BY DEF IInv, Row, Counts
<1>. QED
  BY <1>1, <1>2, <1>3 DEF Promised!Answer, Promised!Asked, Asking, Replied,
     Stored, table

LEMMA RunCommandActs ==
  ASSUME IInv, Purpose, NEW m \in Messages, RunCommand(m)
  PROVE  Promised!Act(m)
<1>1. /\ stage[m] = "command" /\ effects' = [effects EXCEPT ![m] = @ + 1]
      /\ UNCHANGED <<table, replies, crashes>>
  BY DEF RunCommand
<1>2. status[m] = "pending" /\ m \in Asking
  BY <1>1, AtWork
<1>3. Outcome(m) = "owed" /\ \A n \in Messages : Outcome(n)' = Outcome(n)
  BY <1>1, <1>2, OutcomeOf, SameOutcomes DEF table
<1>4. effects[m] <= crashes
  BY <1>1 DEF IInv, Row, Counts
<1>. QED
  BY <1>1, <1>2, <1>3, <1>4 DEF Promised!Act, Promised!Asked, Asking,
     Stored, table

LEMMA StoreItemKeeps ==
  ASSUME IInv, Purpose, NEW m \in Messages, NEW i \in Positions,
         StoreItem(m, i)
  PROVE  Promised!Keep(m, i)
<1>1. /\ stage[m] = "capture" /\ i \notin Stored(m)
      /\ \A n \in Messages : Stored(n)' = IF n = m THEN Stored(n) \cup {i}
                                                  ELSE Stored(n)
      /\ UNCHANGED <<status, kind, effects, replies, crashes>>
  <2>1. /\ extracted[m][i] # None /\ stored[m][i] = None
        /\ \A n \in Messages, j \in Positions :
             stored'[n][j] = IF n = m /\ j = i THEN extracted[m][i] ELSE stored[n][j]
    BY DEF StoreItem, ToStore, Extracted, Stored, IInv, TypeOK, Slots
  <2>. QED
    BY <2>1 DEF StoreItem, Stored, history
<1>2. status[m] = "pending" /\ m \in Asking
  BY <1>1, AtWork
<1>3. Outcome(m) = "owed" /\ \A n \in Messages : Outcome(n)' = Outcome(n)
  BY <1>1, <1>2, OutcomeOf, SameOutcomes
<1>. QED
  BY <1>1, <1>2, <1>3 DEF Promised!Keep, Promised!Asked, Asking

\* The two ends of a promise.
LEMMA MarkProcessedHandles ==
  ASSUME IInv, NEW m \in Messages, MarkProcessed(m)  PROVE  Promised!Handle(m)
<1>1. /\ stage[m] = "mark" /\ status' = [status EXCEPT ![m] = "processed"]
      /\ UNCHANGED <<kind, stored, effects, replies, crashes>>
  BY DEF MarkProcessed, history
<1>2. status[m] = "pending"
  BY <1>1 DEF IInv, Row, Placed
<1>3. Outcome(m) = "owed" /\ Outcome(m)' = "handled"
  BY <1>1, <1>2 DEF IInv, TypeOK, Outcome
<1>4. Promised!Move(m, "owed", "handled")
  BY <1>1, <1>3, OneOutcome
<1>5. Asking' = Asking
  BY <1>1, <1>2 DEF IInv, TypeOK, Asking
<1>6. m \in Asking => replies[m] > 0
  BY <1>1 DEF IInv, Row, Counts, Asking
<1>. QED
  BY <1>1, <1>4, <1>5, <1>6 DEF Promised!Handle, Asking, Stored

LEMMA ThrowsGivesUp ==
  ASSUME IInv, NEW m \in Messages, Throws(m)  PROVE  Promised!GiveUp(m)
<1>1. /\ stage[m] # "none" /\ status' = [status EXCEPT ![m] = "failed"]
      /\ UNCHANGED <<kind, stored, effects, replies, crashes>>
  BY DEF Throws, history
<1>2. status[m] = "pending"
  BY <1>1 DEF IInv, Row, Placed
<1>3. Outcome(m) = "owed" /\ Outcome(m)' = "givenUp"
  BY <1>1, <1>2 DEF IInv, TypeOK, Outcome
<1>4. Promised!Move(m, "owed", "givenUp")
  BY <1>1, <1>3, OneOutcome
<1>5. Asking' = Asking
  BY <1>1, <1>2 DEF IInv, TypeOK, Asking
<1>. QED
  BY <1>1, <1>4, <1>5 DEF Promised!GiveUp, Asking, Stored

\* Deliveries, stages, the sweep and the clock are not seen by the owner.
LEMMA QuietStutters ==
  ASSUME UNCHANGED <<status, kind, stored, effects, replies, crashes>>
  PROVE  UNCHANGED Promised!handlingVars
  BY SameOutcomes DEF Promised!handlingVars, Asking, Stored

LEMMA CrashIsMishap == ASSUME Crash  PROVE  Promised!Mishap
<1>1. crashes' = crashes + 1 /\ UNCHANGED <<status, kind, stored, effects, replies>>
  BY DEF Crash, table, history
<1>. QED
  BY <1>1, SameOutcomes DEF Promised!Mishap, Asking, Stored

LEMMA HandlingStep ==
  ASSUME IInv, Purpose, [Next]_vars
  PROVE  [Promised!Next]_(Promised!handlingVars)
<1>1. ASSUME NEW m \in Messages, Receive(m)  PROVE  Promised!Next
  BY <1>1, ReceiveAccepts DEF Promised!Next
<1>2. ASSUME NEW m \in Messages, Redeliver(m) \/ RecoverNext(m) \/ GrowsOld(m)
      PROVE  UNCHANGED Promised!handlingVars
  BY <1>2, QuietStutters
  DEF Redeliver, RecoverNext, GrowsOld, table, history, vars
<1>3. ASSUME NEW m \in Messages, Step(m)
      PROVE  Promised!Next \/ UNCHANGED Promised!handlingVars
  <2>1. CASE AudioTooLong(m) \/ MediaExpired(m) \/ SttFails(m) \/ Reply(m)
    <3>1. /\ stage[m] \in Unanswered /\ Replied(m)
          /\ UNCHANGED <<table, effects, crashes>>
      BY <2>1 DEF AudioTooLong, MediaExpired, SttFails, Reply, Unanswered
    <3>. QED
      BY <3>1, AnswerMaps DEF Promised!Next
  <2>2. CASE MediaFetched(m) \/ Transcribed(m) \/ \E split \in Splits : Triaged(m, split)
    BY <2>2, QuietStutters DEF MediaFetched, Transcribed, Triaged, table, history
  <2>3. CASE RunCommand(m)
    BY <2>3, RunCommandActs DEF Promised!Next
  <2>4. ASSUME NEW i \in Positions, StoreItem(m, i)  PROVE  Promised!Next
    BY <2>4, StoreItemKeeps DEF Promised!Next
  <2>5. CASE MarkProcessed(m)
    BY <2>5, MarkProcessedHandles DEF Promised!Next
  <2>6. CASE Throws(m)
    BY <2>6, ThrowsGivesUp DEF Promised!Next
  <2>. QED
    BY <1>3, <2>1, <2>2, <2>3, <2>4, <2>5, <2>6 DEF Step
<1>4. CASE Crash
  BY <1>4, CrashIsMishap DEF Promised!Next
<1>5. CASE Scan \/ Listen \/ UNCHANGED vars
  BY <1>5, QuietStutters DEF Scan, Listen, table, history, vars
<1>. QED
  BY <1>1, <1>2, <1>3, <1>4, <1>5 DEF Next

LEMMA HandlingInit == Init => Promised!Init
<1>. SUFFICES ASSUME Init  PROVE  Promised!Init
  OBVIOUS
<1>1. \A m \in Messages : Outcome(m) = "new" /\ Stored(m) = {}
  BY EmptySplit DEF Init, Outcome, Stored
<1>. QED
  BY <1>1 DEF Init, Promised!Init

\* The webhook, the promises and the sweep implement what the owner is promised
\* of each message, for any messages, deliveries, failures and crashes.
THEOREM HandlingRefinement == Spec => ImplementsHandling
<1>1. IInv /\ Purpose /\ [Next]_vars => [Promised!Next]_(Promised!handlingVars)
  BY HandlingStep
<1>. QED
  BY <1>1, HandlingInit, InboundInvariance, PurposeInvariance, PTL
  DEF Spec, ImplementsHandling, Promised!Spec

-----------------------------------------------------------------------------
(* The return mode.  A silence that has begun has lasted its 48 hours, and *)
(* no row of the table is older than the owner's last message.             *)

SilenceIInv ==
  /\ SilenceTypeOK
  /\ lastInbound <= lastWritten
  /\ silent => lastWritten = Threshold

LEMMA SilenceInvariance ==
  ASSUME Threshold \in Nat  PROVE  SilenceSpec => []SilenceIInv
<1>. DEFINE A == 0 .. Threshold + 1
<1>1. 0 \in A /\ Threshold + 1 \in A /\ A \subseteq Int /\ Ages = A
      /\ \A a \in A : /\ 0 <= a /\ a <= a /\ Older(a) \in A
                      /\ \A b \in A : a <= b => Older(a) <= Older(b)
      /\ Older(Threshold) = Threshold
  BY DEF Ages, Never, Older
<1>. HIDE DEF A
<1>2. SilenceInit => SilenceIInv
  BY <1>1, Zenon DEF SilenceInit, SilenceIInv, SilenceTypeOK, Never
<1>3. SilenceIInv /\ [SilenceNext]_silenceVars => SilenceIInv'
  <2>. SUFFICES ASSUME SilenceIInv, [SilenceNext]_silenceVars
       PROVE  SilenceIInv'
    OBVIOUS
  <2>1. SilenceTypeOK /\ lastInbound \in A /\ lastWritten \in A
        /\ lastInbound <= lastWritten /\ (silent => lastWritten = Threshold)
    BY <1>1 DEF SilenceIInv, SilenceTypeOK
  <2>2. CASE OwnerWrites
    BY <1>1, <2>1, <2>2, Zenon DEF OwnerWrites, SilenceIInv, SilenceTypeOK
  <2>3. CASE MessageAnswered \/ Ritual
    <3>1. /\ lastInbound' \in {0, lastInbound}
          /\ lastWritten' = lastWritten /\ charged' = charged
          /\ silent' = FALSE \/ silent' = silent
          /\ ritualDue' = FALSE \/ ritualDue' = ritualDue
      BY <2>3, Zenon DEF MessageAnswered, Ritual, RecordLlmUsage
    <3>2. lastInbound' \in A /\ lastInbound' <= lastWritten'
      BY <1>1, <2>1, <3>1, SMT
    <3>3. silent' \in BOOLEAN
      BY <2>1, <3>1, Zenon DEF SilenceTypeOK
    <3>4. ritualDue' \in BOOLEAN
      BY <2>1, <3>1, Zenon DEF SilenceTypeOK
    <3>5. charged' \in BOOLEAN
      BY <2>1, <3>1, Zenon DEF SilenceTypeOK
    <3>6. silent' => lastWritten' = Threshold
      <4>1. CASE silent' = FALSE
        BY <4>1, Zenon
      <4>2. CASE silent' = silent
        BY <2>1, <3>1, <4>2, Zenon
      <4>. QED
        BY <3>1, <4>1, <4>2, Zenon
    <3>. QED
      BY <1>1, <2>1, <3>1, <3>2, <3>3, <3>4, <3>5, <3>6, Zenon DEF SilenceIInv, SilenceTypeOK
  <2>4. CASE CheckAndSendDue
    BY <1>1, <2>1, <2>4, Zenon DEF CheckAndSendDue, SilenceIInv, SilenceTypeOK
  <2>5. CASE HalfDayPasses
    BY <1>1, <2>1, <2>5, Zenon DEF HalfDayPasses, SilenceIInv, SilenceTypeOK
  <2>6. CASE UNCHANGED silenceVars
    BY <2>1, <2>6 DEF silenceVars, SilenceIInv, SilenceTypeOK
  <2>. QED
    BY <2>2, <2>3, <2>4, <2>5, <2>6 DEF SilenceNext
<1>. QED
  BY <1>2, <1>3, PTL DEF SilenceSpec

LEMMA ChargeStep ==
  ASSUME Threshold \in Nat, SilenceIInv, [SilenceNext]_silenceVars,
         charged' # charged
  PROVE  lastInbound < lastWritten
<1>1. CheckAndSendDue /\ silent
  BY DEF SilenceNext, OwnerWrites, MessageAnswered, Ritual, HalfDayPasses,
         CheckAndSendDue, silenceVars, SilenceIInv, SilenceTypeOK
<1>2. lastWritten = Threshold /\ lastInbound <= lastWritten
      /\ lastInbound \in 0 .. Threshold + 1
  BY <1>1 DEF SilenceIInv, SilenceTypeOK, Ages, Never
<1>3. ~(lastInbound # Threshold + 1 /\ lastInbound >= Threshold)
  BY <1>1 DEF CheckAndSendDue, IsReturnModeActive, Never
<1>. QED
  BY <1>2, <1>3

\* In his silence the owner is charged only over a row that he did not write:
\* the usage rows of recordLlmUsage, which findLastInbound counts as his.
THEOREM ChargedTheorem ==
  ASSUME Threshold \in Nat  PROVE  SilenceSpec => ChargedOverUsageRow
<1>1. SilenceIInv /\ [SilenceNext]_silenceVars
        => [charged' # charged => lastInbound < lastWritten]_silenceVars
  BY ChargeStep
<1>. QED
  BY <1>1, SilenceInvariance, PTL DEF SilenceSpec, ChargedOverUsageRow

=============================================================================
