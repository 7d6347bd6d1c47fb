-------------------------- MODULE SchedulerProofs --------------------------
(***************************************************************************)
(* The safety of Scheduler for every set of job types, reminders and       *)
(* overlapping ticks and every number of crashes.  The inductive invariant *)
(* says when a snapshot may exist (never while the boot seeds), that a     *)
(* type has one live row, that a reminder being handled is 'running', and  *)
(* that one that ran is held only by ticks that overlapped.                *)
(***************************************************************************)
EXTENDS Scheduler, FiniteSetTheorems, TLAPS

\* A tick that is not in progress holds nothing; none is while the boot
\* recovers messages, and the catch-up runs alone.
Quiet ==
  /\ \A t \in Ticks : t \notin active => todo[t] = {} /\ handling[t] = None
  /\ phase = "recovering" => active = {}
  /\ phase = "catchup" => \A t, u \in active : t = u

\* A tick holds a reminder from its snapshot to the end of its handler.
Holds(t, r) == r \in todo[t] \/ handling[t] = r

\* Whoever holds a reminder that has run shares it with the one who ran it,
\* and so do two who hold it; one being handled is marked and has left the
\* snapshot of its tick.
Shared ==
  \A r \in Reminders :
    /\ runs[r] > 0 => status[r] = "running"
    /\ runs[r] > 1 => r \in shared
    /\ \A t \in Ticks : Holds(t, r) /\ runs[r] > 0 => r \in shared
    /\ \A t, u \in Ticks : Holds(t, r) /\ Holds(u, r) /\ t # u => r \in shared
    /\ \A t \in Ticks : handling[t] = r => status[r] = "running" /\ r \notin todo[t]

Stranded(type) ==
  {g \in Generations : /\ status[<<type, g>>] = "running"
                       /\ \A t \in Ticks : handling[t] # <<type, g>>}

StrandedCounted ==
  \A type \in Types :
    IsFiniteSet(Stranded(type)) /\ Cardinality(Stranded(type)) <= crashes

IInv == TypeOK /\ Quiet /\ Shared /\ OneLivePerType /\ StrandedCounted

-----------------------------------------------------------------------------
(* The conjuncts that count or compare rows, from what a step may add.     *)

LEMMA Bounds ==
  /\ MaxCrashes \in Nat
  /\ \A g \in Generations : g \in Nat
  /\ \A type \in Types, g \in Generations :
       /\ <<type, g>> \in Occurrences
       /\ <<type, g>> \in Rows
       /\ <<type, g>> \notin Reminders
       /\ <<type, g>> # None
  /\ Reminders \subseteq Rows
  /\ \A r \in Reminders : r # None /\ r \notin Occurrences
  /\ \A r \in Occurrences : \E type \in Types, g \in Generations : r = <<type, g>>
  BY SchedulerAssumption DEF Generations, Occurrences, Rows

LEMMA LiveShrinks ==
  ASSUME OneLivePerType,
         \A type \in Types, g \in Generations :
           Live(<<type, g>>)' => Live(<<type, g>>)
  PROVE  OneLivePerType'
  BY DEF OneLivePerType

LEMMA StrandedShrinks ==
  ASSUME StrandedCounted, TypeOK, crashes' = crashes,
         \A type \in Types, g \in Generations :
           g \in Stranded(type)' => g \in Stranded(type)
  PROVE  StrandedCounted'
<1>. SUFFICES ASSUME NEW type \in Types
              PROVE  /\ IsFiniteSet(Stranded(type)')
                     /\ Cardinality(Stranded(type)') <= crashes'
  BY DEF StrandedCounted
<1>1. Stranded(type)' \subseteq Stranded(type)
  BY DEF Stranded
<1>2. IsFiniteSet(Stranded(type)) /\ Cardinality(Stranded(type)) <= crashes
  BY DEF StrandedCounted
<1>3. /\ IsFiniteSet(Stranded(type)')
      /\ Cardinality(Stranded(type)') <= Cardinality(Stranded(type))
  BY <1>1, <1>2, FS_Subset
<1>4. Cardinality(Stranded(type)') \in Nat /\ Cardinality(Stranded(type)) \in Nat
  BY <1>2, <1>3, FS_CardinalityType
<1>5. crashes \in Nat
  BY SchedulerAssumption DEF TypeOK
<1>. QED
  BY <1>2, <1>3, <1>4, <1>5

-----------------------------------------------------------------------------

LEMMA InitIInv == Init => IInv
<1>. SUFFICES ASSUME Init PROVE IInv
  OBVIOUS
<1>. USE SchedulerAssumption
<1>1. 0 \in 0 .. MaxCrashes
  OBVIOUS
<1>2. TypeOK /\ Quiet /\ Shared
  BY <1>1, Bounds DEF Init, TypeOK, Quiet, Shared, Holds, Rows
<1>3. OneLivePerType
  BY Bounds DEF Init, OneLivePerType, Live
<1>4. \A type \in Types : Stranded(type) = {}
  BY Bounds DEF Init, Stranded
<1>5. IsFiniteSet({}) /\ Cardinality({}) = 0
  BY FS_EmptySet
<1>6. StrandedCounted
  BY <1>4, <1>5 DEF Init, StrandedCounted
<1>. QED
  BY <1>2, <1>3, <1>6 DEF IInv

\* A row seeded is the only live one of its type.
LEMMA SeedsUnique ==
  ASSUME NEW type \in Types, NEW g \in Generations, NEW h \in Generations,
         <<type, g>> \in ToSeed, <<type, h>> \in ToSeed
  PROVE  g = h
<1>1. /\ status[<<type, g>>] = "absent"
      /\ status[<<type, h>>] = "absent"
      /\ \A i \in Generations : i < g => status[<<type, i>>] # "absent"
      /\ \A i \in Generations : i < h => status[<<type, i>>] # "absent"
  BY DEF ToSeed
<1>2. ~(g < h) /\ ~(h < g)
  BY <1>1
<1>3. g \in Int /\ h \in Int
  BY Bounds
<1>. QED
  BY <1>2, <1>3

LEMMA SeedsAlone ==
  ASSUME NEW type \in Types, NEW g \in Generations, NEW h \in Generations,
         <<type, g>> \in ToSeed, status[<<type, h>>] = "pending"
  PROVE  FALSE
<1>1. FindPendingByType(type) = {}
  BY DEF ToSeed
<1>2. <<type, h>> \in FindPendingByType(type)
  BY Bounds DEF FindPendingByType, FindPending
<1>. QED
  BY <1>1, <1>2

LEMMA BootStep ==
  ASSUME IInv, NEW t \in Ticks, Boot(t)
  PROVE  IInv'
<1>. USE DEF IInv, Boot, StartTick
<1>0. /\ active = {}
      /\ \A u \in Ticks : todo[u] = {} /\ handling[u] = None
  BY DEF Quiet
<1>1. TypeOK'
  BY DEF TypeOK, SelectDueJobs, FindPending
<1>2. Quiet'
  BY <1>0 DEF Quiet, TypeOK
<1>3. \A r \in SelectDueJobs : r \in Rows /\ status[r] = "pending"
  BY DEF SelectDueJobs, FindPending
<1>4. \A r \in Reminders : status'[r] = status[r]
  BY Bounds, SchedulerAssumption DEF ToSeed
<1>5. Shared'
  BY <1>0, <1>3, <1>4, Bounds DEF Shared, Holds, TypeOK
<1>6. OneLivePerType'
  <2>. SUFFICES ASSUME NEW type \in Types, NEW g \in Generations,
                       NEW h \in Generations,
                       Live(<<type, g>>)', Live(<<type, h>>)'
                PROVE  g = h
    BY DEF OneLivePerType
  <2>1. ASSUME NEW i \in Generations, Live(<<type, i>>)'
        PROVE  status[<<type, i>>] = "pending" \/ <<type, i>> \in ToSeed
    BY <1>0, <1>3, <2>1, Bounds DEF Live, TypeOK
  <2>2. \A i \in Generations :
          status[<<type, i>>] = "pending" => Live(<<type, i>>)
    BY DEF Live
  <2>3. CASE <<type, g>> \in ToSeed
    BY <2>1, <2>3, SeedsUnique, SeedsAlone
  <2>4. CASE <<type, h>> \in ToSeed
    BY <2>1, <2>4, SeedsUnique, SeedsAlone
  <2>. QED
    BY <2>1, <2>2, <2>3, <2>4 DEF OneLivePerType
<1>7. \A type \in Types, g \in Generations :
        g \in Stranded(type)' => g \in Stranded(type)
  BY Bounds DEF Stranded
<1>8. StrandedCounted'
  BY <1>7, StrandedShrinks
<1>. QED
  BY <1>1, <1>2, <1>5, <1>6, <1>8

LEMMA TickStep ==
  ASSUME IInv, NEW t \in Ticks, Tick(t)
  PROVE  IInv'
<1>. USE DEF IInv, Tick, StartTick, table
<1>1. TypeOK'
  BY DEF TypeOK, SelectDueJobs, FindPending
<1>2. Quiet'
  BY DEF Quiet, TypeOK
<1>3. \A r \in SelectDueJobs : r \in Rows /\ status[r] = "pending"
  BY DEF SelectDueJobs, FindPending
<1>4. /\ \A r \in Reminders : r \in SelectDueJobs =>
           ~(runs[r] > 0) /\ \A u \in Ticks : handling[u] # r
      /\ todo[t] = {} /\ handling[t] = None
  BY <1>3 DEF Shared, Quiet
<1>5. /\ \A r \in Reminders : \A u \in Ticks :
           Holds(u, r)' <=> Holds(u, r) \/ (u = t /\ r \in SelectDueJobs)
      /\ \A r \in SelectDueJobs \cap Reminders : \A u \in Ticks :
           Holds(u, r) => r \in shared'
  BY <1>4, Bounds DEF Holds, TypeOK
<1>6. Shared'
  BY <1>4, <1>5, Bounds DEF Shared, TypeOK
<1>7. \A type \in Types, g \in Generations :
        Live(<<type, g>>)' => Live(<<type, g>>)
  BY <1>3 DEF Live, TypeOK
<1>8. \A type \in Types, g \in Generations :
        g \in Stranded(type)' => g \in Stranded(type)
  BY DEF Stranded
<1>. QED
  BY <1>1, <1>2, <1>6, <1>7, <1>8, LiveShrinks, StrandedShrinks

LEMMA FinishStep ==
  ASSUME IInv, NEW t \in Ticks, Finish(t)
  PROVE  IInv'
<1>. USE DEF IInv, Finish, EndTick, table, history
<1>1. TypeOK'
  BY DEF TypeOK
<1>2. Quiet' /\ Shared'
  BY Bounds DEF Quiet, Shared, Holds, TypeOK
<1>3. \A type \in Types, g \in Generations :
        Live(<<type, g>>)' => Live(<<type, g>>)
  BY DEF Live, TypeOK
<1>4. \A type \in Types, g \in Generations :
        g \in Stranded(type)' => g \in Stranded(type)
  BY DEF Stranded
<1>. QED
  BY <1>1, <1>2, <1>3, <1>4, LiveShrinks, StrandedShrinks

\* markRunning: the tick goes on holding the row, now as its handler.
LEMMA StartHandlerStep ==
  ASSUME IInv, NEW t \in Ticks, NEW r \in Rows, StartHandler(t, r)
  PROVE  IInv'
<1>. USE DEF IInv, StartHandler, MarkRunning, history
<1>1. TypeOK'
  BY DEF TypeOK
<1>2. t \in active
  BY DEF Quiet
<1>3. Quiet'
  BY <1>2 DEF Quiet, TypeOK
<1>0. /\ \A u \in Ticks : todo'[u] = IF u = t THEN todo[u] \ {r} ELSE todo[u]
      /\ \A u \in Ticks : handling'[u] = IF u = t THEN r ELSE handling[u]
      /\ r \in todo[t]
  BY DEF TypeOK
<1>4. \A u \in Ticks, x \in Reminders : Holds(u, x)' => Holds(u, x)
  BY <1>0 DEF Holds
<1>5. /\ \A x \in Reminders : status'[x] = IF x = r THEN "running" ELSE status[x]
      /\ r \notin todo'[t]
  BY <1>0, Bounds DEF TypeOK
<1>6. Shared'
  BY <1>4, <1>5, <1>0 DEF Shared
<1>7. Live(r)
  BY DEF Live
<1>8. \A type \in Types, g \in Generations :
        Live(<<type, g>>)' => Live(<<type, g>>)
  BY <1>7, Bounds DEF Live, TypeOK
<1>9. \A type \in Types, g \in Generations :
        g \in Stranded(type)' => g \in Stranded(type)
  BY Bounds DEF Stranded, TypeOK
<1>. QED
  BY <1>1, <1>3, <1>6, <1>8, <1>9, LiveShrinks, StrandedShrinks

\* A reminder's handler comes to an end: no row of a type changes.
LEMMA ReminderEnds ==
  ASSUME IInv, NEW t \in Ticks, handling[t] \in Reminders,
         status' = status, crashes' = crashes,
         handling' = [handling EXCEPT ![t] = None],
         \A u \in Ticks : todo'[u] \subseteq todo[u],
         TypeOK'
  PROVE  OneLivePerType' /\ StrandedCounted'
<1>. USE DEF IInv
<1>1. \A type \in Types, g \in Generations :
        \A u \in Ticks : handling'[u] = <<type, g>> <=> handling[u] = <<type, g>>
  <2>. SUFFICES ASSUME NEW type \in Types, NEW g \in Generations, NEW u \in Ticks
                PROVE  handling'[u] = <<type, g>> <=> handling[u] = <<type, g>>
    OBVIOUS
  <2>1. <<type, g>> \notin Reminders /\ <<type, g>> # None
    BY Bounds
  <2>2. handling'[u] = IF u = t THEN None ELSE handling[u]
    BY DEF TypeOK
  <2>. QED
    BY <2>1, <2>2
<1>2. \A type \in Types, g \in Generations :
        /\ Live(<<type, g>>)' => Live(<<type, g>>)
        /\ g \in Stranded(type)' => g \in Stranded(type)
  BY <1>1 DEF Live, Stranded
<1>. QED
  BY <1>2, LiveShrinks, StrandedShrinks

LEMMA FireReminderStep ==
  ASSUME IInv, NEW t \in Ticks, FireReminder(t)
  PROVE  IInv'
<1>. USE DEF IInv, FireReminder, table
<1>1. TypeOK'
  BY DEF TypeOK
<1>2. Quiet'
  BY DEF Quiet, TypeOK
<1>3. PICK r \in Reminders : handling[t] = r
  OBVIOUS
<1>4. /\ \A u \in Ticks, x \in Reminders : Holds(u, x)' => Holds(u, x)
      /\ \A u \in Ticks, x \in Reminders : handling'[u] = x => handling[u] = x
      /\ ~Holds(t, r)' /\ Holds(t, r)
  BY <1>3, Bounds DEF Holds, TypeOK, Shared
<1>5. \A x \in Reminders : /\ runs[x] \in Nat
                           /\ runs'[x] = IF x = r THEN runs[x] + 1 ELSE runs[x]
  BY <1>3 DEF TypeOK
<1>6. Shared'
  BY <1>3, <1>4, <1>5 DEF Shared
<1>7. \A u \in Ticks : todo'[u] \subseteq todo[u]
  OBVIOUS
<1>. QED
  BY <1>1, <1>2, <1>6, <1>7, ReminderEnds

LEMMA ReminderThrowsStep ==
  ASSUME IInv, NEW t \in Ticks, ReminderThrows(t)
  PROVE  IInv'
<1>. USE DEF IInv, ReminderThrows, EndTick, table
<1>1. TypeOK'
  BY DEF TypeOK
<1>2. t \in active
  BY Bounds DEF Quiet
<1>3. Quiet'
  BY <1>2 DEF Quiet, TypeOK
<1>4. /\ \A u \in Ticks, x \in Reminders : Holds(u, x)' => Holds(u, x)
      /\ \A u \in Ticks, x \in Reminders : handling'[u] = x => handling[u] = x
      /\ \A u \in Ticks : todo'[u] \subseteq todo[u]
  BY Bounds DEF Holds, TypeOK
<1>5. Shared'
  BY <1>4 DEF Shared
<1>. QED
  BY <1>1, <1>3, <1>4, <1>5, ReminderEnds

\* Both ends of a recurring handler reschedule the row.
LEMMA HandlerEndStep ==
  ASSUME IInv, NEW t \in Ticks, HandlerReturns(t) \/ HandlerThrows(t)
  PROVE  IInv'
<1>. USE DEF IInv, Reschedule, history
<1>0. /\ Reschedule(handling[t])
      /\ handling' = [handling EXCEPT ![t] = None]
      /\ UNCHANGED <<phase, active, todo, runs, shared, lost, crashes>>
  BY DEF HandlerReturns, HandlerThrows
<1>1. PICK r \in Occurrences : handling[t] = r
  BY DEF HandlerReturns, HandlerThrows
<1>. HIDE DEF Reschedule
<1>2. /\ r \in Rows /\ r \notin Reminders
      /\ status' = [status EXCEPT ![r] = "pending"]
      /\ due' = due \ {r}
  BY <1>0, <1>1, SchedulerAssumption DEF Rows, Reschedule
<1>3. TypeOK'
  BY <1>0, <1>2 DEF TypeOK
<1>4. Quiet'
  BY <1>0 DEF Quiet, TypeOK
<1>5. /\ \A u \in Ticks, x \in Reminders : Holds(u, x)' => Holds(u, x)
      /\ \A u \in Ticks, x \in Reminders : handling'[u] = x => handling[u] = x
      /\ \A x \in Reminders : status'[x] = status[x]
  BY <1>0, <1>2, Bounds DEF Holds, TypeOK
<1>6. Shared'
  BY <1>0, <1>5 DEF Shared
<1>7. Live(r)
  BY <1>1 DEF Live
<1>8. \A type \in Types, g \in Generations :
        Live(<<type, g>>)' => Live(<<type, g>>)
  BY <1>0, <1>2, <1>7, Bounds DEF Live, TypeOK
<1>9. \A type \in Types, g \in Generations :
        g \in Stranded(type)' => g \in Stranded(type)
  BY <1>0, <1>1, <1>2, Bounds DEF Stranded, TypeOK
<1>. QED
  BY <1>0, <1>3, <1>4, <1>6, <1>8, <1>9, LiveShrinks, StrandedShrinks

LEMMA CommandStep ==
  ASSUME IInv, NEW r \in Reminders, CreateReminder(r) \/ CancelReminder(r)
  PROVE  IInv'
<1>. USE DEF IInv
<1>1. /\ status[r] \in {"absent", "pending"}
      /\ \/ status' = [status EXCEPT ![r] = "pending"]
         \/ status' = [status EXCEPT ![r] = "cancelado"]
      /\ UNCHANGED <<due, phase, active, todo, handling, runs, shared, lost, crashes>>
  BY DEF CreateReminder, CancelReminder, process, history
<1>2. /\ TypeOK'
      /\ \A type \in Types, g \in Generations :
           status'[<<type, g>>] = status[<<type, g>>]
  BY <1>1, Bounds DEF TypeOK
<1>3. Quiet'
  BY <1>1 DEF Quiet
<1>4. Shared'
  BY <1>1, Bounds DEF Shared, Holds, TypeOK
<1>5. UNCHANGED <<todo, handling, crashes>>
  BY <1>1
<1>6. \A type \in Types, g \in Generations :
        Live(<<type, g>>)' => Live(<<type, g>>)
  BY <1>2, <1>5 DEF Live
<1>7. \A type \in Types, g \in Generations :
        g \in Stranded(type)' => g \in Stranded(type)
  BY <1>2, <1>5 DEF Stranded
<1>. QED
  BY <1>2, <1>3, <1>4, <1>5, <1>6, <1>7, LiveShrinks, StrandedShrinks

LEMMA ComesDueStep ==
  ASSUME IInv, NEW r \in Rows, ComesDue(r)
  PROVE  IInv'
<1>. USE DEF IInv, ComesDue, process, history
<1>1. TypeOK'
  BY DEF TypeOK
<1>2. Quiet' /\ Shared'
  BY DEF Quiet, Shared, Holds
<1>3. \A type \in Types, g \in Generations :
        /\ Live(<<type, g>>)' => Live(<<type, g>>)
        /\ g \in Stranded(type)' => g \in Stranded(type)
  BY DEF Live, Stranded
<1>. QED
  BY <1>1, <1>2, <1>3, LiveShrinks, StrandedShrinks

\* A crash strands the row whose handler it cut off: one per type, for a
\* type has one live row.
LEMMA CrashStep ==
  ASSUME IInv, Crash
  PROVE  IInv'
<1>. USE DEF IInv, Crash, table, history
<1>1. TypeOK' /\ crashes \in Nat
  BY SchedulerAssumption DEF TypeOK
<1>2. Quiet' /\ Shared'
  BY Bounds DEF Quiet, Shared, Holds, TypeOK
<1>3. \A type \in Types, g \in Generations :
        Live(<<type, g>>)' => Live(<<type, g>>)
  BY Bounds DEF Live
<1>4. ASSUME NEW type \in Types
      PROVE  /\ IsFiniteSet(Stranded(type)')
             /\ Cardinality(Stranded(type)') <= crashes + 1
  <2>1. IsFiniteSet(Stranded(type)) /\ Cardinality(Stranded(type)) <= crashes
    BY DEF StrandedCounted
  <2>2. Cardinality(Stranded(type)) \in Nat
    BY <2>1, FS_CardinalityType
  <2>3. CASE Stranded(type)' \subseteq Stranded(type)
    <3>1. /\ IsFiniteSet(Stranded(type)')
          /\ Cardinality(Stranded(type)') <= Cardinality(Stranded(type))
      BY <2>1, <2>3, FS_Subset
    <3>2. Cardinality(Stranded(type)') \in Nat
      BY <3>1, FS_CardinalityType
    <3>. QED
      BY <1>1, <2>1, <2>2, <3>1, <3>2
  <2>4. CASE \E g \in Stranded(type)' : g \notin Stranded(type)
    <3>1. PICK g \in Stranded(type)' : g \notin Stranded(type)
      BY <2>4
    <3>2. g \in Generations /\ Live(<<type, g>>)
      BY <3>1 DEF Stranded, Live
    <3>3. ASSUME NEW h \in Stranded(type)', h \notin Stranded(type)
          PROVE  h = g
      <4>1. h \in Generations /\ Live(<<type, h>>)
        BY <3>3 DEF Stranded, Live
      <4>. QED
        BY <3>2, <4>1 DEF OneLivePerType
    <3>4. Stranded(type)' \subseteq Stranded(type) \cup {g}
      BY <3>3
    <3>5. /\ IsFiniteSet(Stranded(type) \cup {g})
          /\ Cardinality(Stranded(type) \cup {g}) = Cardinality(Stranded(type)) + 1
      BY <2>1, <3>1, FS_AddElement
    <3>6. /\ IsFiniteSet(Stranded(type)')
          /\ Cardinality(Stranded(type)') <= Cardinality(Stranded(type) \cup {g})
      BY <3>4, <3>5, FS_Subset
    <3>7. Cardinality(Stranded(type)') \in Nat
      BY <3>6, FS_CardinalityType
    <3>. QED
      BY <1>1, <2>1, <2>2, <3>5, <3>6, <3>7
  <2>. QED
    BY <2>3, <2>4
<1>5. StrandedCounted'
  BY <1>4 DEF StrandedCounted
<1>. QED
  BY <1>1, <1>2, <1>3, <1>5, LiveShrinks

LEMMA StutterStep ==
  ASSUME IInv, UNCHANGED vars
  PROVE  IInv'
<1>. USE DEF IInv, vars
<1>1. TypeOK'
  BY DEF TypeOK
<1>2. Quiet' /\ Shared'
  BY DEF Quiet, Shared, Holds
<1>3. OneLivePerType'
  BY DEF OneLivePerType, Live
<1>4. StrandedCounted'
  BY DEF StrandedCounted, Stranded
<1>. QED
  BY <1>1, <1>2, <1>3, <1>4

LEMMA NextIInv == IInv /\ [Next]_vars => IInv'
<1>. SUFFICES ASSUME IInv, [Next]_vars PROVE IInv'
  OBVIOUS
<1>1. ASSUME NEW t \in Ticks, Step(t) PROVE IInv'
  BY <1>1, StartHandlerStep, FireReminderStep, ReminderThrowsStep,
     HandlerEndStep, FinishStep DEF Step
<1>2. CASE \E t \in Ticks : Boot(t) \/ Tick(t) \/ Step(t)
  BY <1>1, <1>2, BootStep, TickStep
<1>3. CASE \E r \in Reminders : CreateReminder(r) \/ CancelReminder(r)
  BY <1>3, CommandStep
<1>4. CASE \E r \in Rows : ComesDue(r)
  BY <1>4, ComesDueStep
<1>5. CASE Crash
  BY <1>5, CrashStep
<1>6. CASE UNCHANGED vars
  BY <1>6, StutterStep
<1>. QED
  BY <1>2, <1>3, <1>4, <1>5, <1>6 DEF Next

-----------------------------------------------------------------------------
(* The theorems.                                                           *)

\* The inductive invariant holds throughout.
THEOREM SchedulerInvariance == Spec => []IInv
  BY InitIInv, NextIInv, PTL DEF Spec

\* Type correctness of the jobs table and of the ticks' memory.
THEOREM SchedulerTypeCorrect == Spec => []TypeOK
<1>1. IInv => TypeOK
  BY DEF IInv
<1>. QED
  BY <1>1, SchedulerInvariance, PTL

\* Seeding is idempotent: no restart, orphan or overlap of ticks leaves two
\* live rows of one recurring type.
THEOREM OneLiveTheorem == Spec => []OneLivePerType
<1>1. IInv => OneLivePerType
  BY DEF IInv
<1>. QED
  BY <1>1, SchedulerInvariance, PTL

\* A type loses at most one row per crash to the status 'running', and none
\* to a failure of its handler.
THEOREM StrandedTheorem == Spec => []StrandedOnlyByCrash
<1>1. IInv => StrandedOnlyByCrash
  BY DEF IInv, StrandedCounted, Stranded, StrandedOnlyByCrash
<1>. QED
  BY <1>1, SchedulerInvariance, PTL

\* A reminder reaches the owner twice only through two overlapping ticks.
THEOREM RepeatTheorem == Spec => []RepeatNeedsOverlap
<1>1. IInv => RepeatNeedsOverlap
  BY DEF IInv, Shared, RepeatNeedsOverlap
<1>. QED
  BY <1>1, SchedulerInvariance, PTL

\* What a cancellation is good for: from the moment on in which no tick has the
\* step in its snapshot, it never runs.
THEOREM CancelledTheorem == Spec => UnselectedStaysCancelled
<1>1. ASSUME IInv, [Next]_vars, NEW r \in Reminders, status[r] = "cancelado",
             \A t \in Ticks : r \notin todo[t]
      PROVE  /\ status'[r] = "cancelado" /\ runs'[r] = runs[r]
             /\ \A t \in Ticks : r \notin todo'[t]
  <2>. USE DEF IInv, TypeOK, StartTick, EndTick, Reschedule, MarkRunning, table,
               process, history
  <2>1. r \in Rows /\ r \notin Occurrences /\ r # None
    BY Bounds
  <2>2. r \notin SelectDueJobs /\ r \notin ToSeed
    BY <1>1, <2>1 DEF SelectDueJobs, FindPending, ToSeed
  <2>3. \A t \in Ticks : handling[t] # r
    BY <1>1 DEF Shared
  <2>4. CASE \E t \in Ticks : Boot(t) \/ Tick(t)
    BY <1>1, <2>1, <2>2, <2>4 DEF Boot, Tick
  <2>5. ASSUME NEW t \in Ticks, Step(t)
        PROVE  /\ status'[r] = "cancelado" /\ runs'[r] = runs[r]
               /\ \A u \in Ticks : r \notin todo'[u]
    <3>1. CASE \E x \in Rows : StartHandler(t, x)
      BY <1>1, <2>1, <3>1 DEF StartHandler
    <3>2. CASE FireReminder(t) \/ ReminderThrows(t)
      BY <1>1, <2>1, <2>3, <3>2 DEF FireReminder, ReminderThrows
    <3>3. CASE HandlerReturns(t) \/ HandlerThrows(t)
      BY <1>1, <2>1, <2>3, <3>3 DEF HandlerReturns, HandlerThrows
    <3>4. CASE Finish(t)
      BY <1>1, <3>4 DEF Finish
    <3>. QED
      BY <2>5, <3>1, <3>2, <3>3, <3>4 DEF Step
  <2>6. CASE \E x \in Reminders : CreateReminder(x) \/ CancelReminder(x)
    BY <1>1, <2>1, <2>6 DEF CreateReminder, CancelReminder
  <2>7. CASE (\E x \in Rows : ComesDue(x)) \/ Crash \/ UNCHANGED vars
    BY <1>1, <2>7 DEF ComesDue, Crash, vars
  <2>. QED
    BY <1>1, <2>4, <2>5, <2>6, <2>7 DEF Next
<1>2. IInv /\ [Next]_vars
        => [\A r \in Reminders :
              status[r] = "cancelado" /\ (\A t \in Ticks : r \notin todo[t])
                => /\ status'[r] = "cancelado" /\ runs'[r] = runs[r]
                   /\ \A t \in Ticks : r \notin todo'[t]]_vars
  BY <1>1
<1>. QED
  BY <1>2, SchedulerInvariance, PTL DEF Spec, UnselectedStaysCancelled

=============================================================================
