-------------------------- MODULE TimetableProofs --------------------------
(***************************************************************************)
(* The instants of Timetable for every length of the day, hours, poll,     *)
(* margin, horizon and number of outages.  Of the civil calendar the       *)
(* proofs use one fact only: midnight is at or before an instant and less  *)
(* than a day earlier.  The invariant bounds the row of the ritual from    *)
(* both sides by its last run, and says that what is still pending while   *)
(* the process is up is not overdue, unless it has just come up.           *)
(***************************************************************************)
EXTENDS Timetable, TLAPS

\* At most a poll late, or the catch-up of the boot is still to reach it.
NotOverdue(at) == now <= at + PollLag \/ now = wake

ClockInv ==
  /\ now \in Instants /\ up \in BOOLEAN /\ outages \in 0 .. MaxOutages
  /\ wake \in Instants /\ wake <= now

RitualInv ==
  /\ hour \in Hours
  /\ ritual \in {"absent", "pending", "running", "stranded"}
  /\ ritualAt \in Nat
  /\ started \in Instants \cup {Never} /\ started <= now
  /\ reseeded \in BOOLEAN
  /\ up => ritual \in {"pending", "running"}
  /\ ritual = "running" => /\ up /\ ~reseeded
                           /\ started \in Instants
                           /\ now <= started + HandlerTime
  /\ ritual = "pending" =>
       /\ \E t \in {started, wake} : ritualAt <= t + HandlerTime + DayLength
       /\ up => NotOverdue(ritualAt)
       /\ ~reseeded => started + DayLength <= ritualAt

ChainInv ==
  /\ item \in {"none", "aberta", "feita", "dropada"}
  /\ startAt \in Instants
  /\ step \in [Stages -> StepStatus]
  /\ stepAt \in [Stages -> Int]
  /\ foreseen \in BOOLEAN
  /\ \A s \in Stages : step[s] = "pending" =>
       stepAt[s] < startAt /\ (up => NotOverdue(stepAt[s]))
  /\ item = "aberta" /\ foreseen =>
       /\ stepAt["preparo"] = startAt - Prep
       /\ step["preparo"] \in {"pending", "running"}

IInv == ClockInv /\ RitualInv /\ ChainInv

-----------------------------------------------------------------------------
(* Civil time.                                                             *)

LEMMA ConstantTypes ==
  /\ DayLength \in Nat /\ Horizon \in Nat /\ PollLag \in Nat
  /\ HandlerTime \in Nat /\ Prep \in Nat /\ MaxOutages \in Nat
  /\ Hours \subseteq Day /\ VesperaHour \in Day /\ ManhaHour \in Day
  /\ Starts \subseteq Instants
  /\ DayLength > HandlerTime + PollLag /\ Prep > PollLag
  BY TimetableAssumption

LEMMA Midnight ==
  ASSUME NEW t \in Instants
  PROVE  /\ StartOfZonedDay(t) \in Int
         /\ StartOfZonedDay(t) <= t /\ t < StartOfZonedDay(t) + DayLength
<1>1. t \in Nat /\ DayLength \in Nat /\ DayLength > 0
  BY ConstantTypes DEF Instants
<1>2. t % DayLength \in 0 .. DayLength - 1
  BY <1>1
<1>. QED
  BY <1>1, <1>2 DEF StartOfZonedDay

\* The next run of a daily job lies ahead, and within a day.
LEMMA NextRun ==
  ASSUME NEW h \in Day, NEW t \in Instants
  PROVE  /\ NextDailyRunAt(h, t) \in Int
         /\ NextDailyRunAt(h, t) > t /\ NextDailyRunAt(h, t) <= t + DayLength
<1>1. h \in Int /\ 0 <= h /\ h < DayLength /\ t \in Int /\ DayLength \in Int
  BY ConstantTypes DEF Day, Instants
<1>2. NextDailyRunAt(h, t) = IF StartOfZonedDay(t) + h > t
                             THEN StartOfZonedDay(t) + h
                             ELSE StartOfZonedDay(t) + DayLength + h
  BY <1>1, Midnight DEF NextDailyRunAt, AddZonedDays
<1>. QED
  BY <1>1, <1>2, Midnight

LEMMA StageTypes ==
  ASSUME NEW s \in Stages, NEW t \in Instants  PROVE  StageAt(s, t) \in Int
<1>1. VesperaHour \in Int /\ ManhaHour \in Int /\ DayLength \in Int
      /\ Prep \in Int /\ t \in Int /\ StartOfZonedDay(t) \in Int
  BY ConstantTypes, Midnight DEF Day, Instants
<1>. QED
  BY <1>1 DEF StageAt, AddZonedDays, Stages

\* Instants a day apart lie on different days.
LEMMA ADayApart ==
  ASSUME NEW t \in Instants, NEW u \in Instants, t + DayLength <= u
  PROVE  StartOfZonedDay(t) < StartOfZonedDay(u)
<1>1. t \in Int /\ u \in Int /\ DayLength \in Int
  BY ConstantTypes DEF Instants
<1>2. StartOfZonedDay(t) \in Int /\ StartOfZonedDay(t) <= t
  BY Midnight
<1>3. StartOfZonedDay(u) \in Int /\ u < StartOfZonedDay(u) + DayLength
  BY Midnight
<1>. QED
  BY <1>1, <1>2, <1>3

-----------------------------------------------------------------------------
LEMMA RitualUnchanged ==
  ASSUME RitualInv, UNCHANGED <<clock, rituals>>  PROVE  RitualInv'
  BY DEF RitualInv, clock, rituals, NotOverdue

LEMMA ChainUnchanged ==
  ASSUME ChainInv, UNCHANGED <<clock, chains>>  PROVE  ChainInv'
  BY DEF ChainInv, clock, chains, NotOverdue

LEMMA ClockUnchanged ==
  ASSUME ClockInv, UNCHANGED clock  PROVE  ClockInv'
  BY DEF ClockInv, clock

LEMMA InitIInv == Init => IInv
<1>. SUFFICES ASSUME Init  PROVE  IInv
  OBVIOUS
<1>1. 0 \in Instants /\ 0 \in 0 .. MaxOutages
  BY ConstantTypes DEF Instants
<1>2. ClockInv
  <2>1. wake <= now
    BY DEF Init
  <2>. QED
    BY <1>1, <2>1, Zenon DEF Init, ClockInv
<1>3. RitualInv
  <2>1. started \in Instants \cup {Never} /\ started <= now /\ ritualAt \in Nat
    BY DEF Init, Never
  <2>. QED
    BY <2>1 DEF Init, RitualInv
<1>4. ChainInv
  <2>1. step \in [Stages -> StepStatus] /\ stepAt \in [Stages -> Int]
    BY DEF Init, StepStatus
  <2>2. \A s \in Stages : step[s] # "pending"
    BY DEF Init
  <2>3. startAt \in Instants
    BY <1>1 DEF Init
  <2>. QED
    BY <2>1, <2>2, <2>3 DEF Init, ChainInv
<1>. QED
  BY <1>2, <1>3, <1>4 DEF IInv

-----------------------------------------------------------------------------
(* The clock and the process.                                              *)

LEMMA TimePassesStep == ASSUME IInv, TimePasses  PROVE  IInv'
<1>1. /\ now < Horizon /\ now' = now + 1 /\ (up => InTime)
      /\ UNCHANGED <<up, outages, wake, rituals, chains>>
  BY DEF TimePasses
<1>2. now \in Nat /\ wake \in Nat /\ Horizon \in Nat /\ PollLag \in Nat
      /\ HandlerTime \in Nat
  BY ConstantTypes DEF IInv, ClockInv, Instants
<1>3. ClockInv'
  BY <1>1, <1>2 DEF IInv, ClockInv, Instants
<1>4. RitualInv'
  <2>1. ritual = "running" => now' <= started + HandlerTime
    BY <1>1, <1>2 DEF IInv, RitualInv, InTime, Instants
  <2>2. ritual = "pending" /\ up => now' <= ritualAt + PollLag
    BY <1>1, <1>2 DEF IInv, RitualInv, InTime
  <2>3. started <= now'
    BY <1>1, <1>2 DEF IInv, RitualInv, Instants, Never
  <2>. QED
    BY <1>1, <2>1, <2>2, <2>3 DEF IInv, RitualInv, rituals, NotOverdue
<1>5. ChainInv'
  <2>1. \A s \in Stages : step[s] = "pending" /\ up => now' <= stepAt[s] + PollLag
    BY <1>1, <1>2 DEF IInv, ChainInv, InTime
  <2>. QED
    BY <1>1, <2>1 DEF IInv, ChainInv, chains, NotOverdue
<1>. QED
  BY <1>3, <1>4, <1>5 DEF IInv

LEMMA GoesDownStep == ASSUME IInv, GoesDown  PROVE  IInv'
<1>1. /\ outages < MaxOutages /\ up' = FALSE /\ outages' = outages + 1
      /\ ritual' = IF ritual = "running" THEN "stranded" ELSE ritual
      /\ UNCHANGED <<now, wake, hour, ritualAt, started, reseeded, chains>>
  BY DEF GoesDown
<1>2. outages' \in 0 .. MaxOutages
  BY <1>1, ConstantTypes DEF IInv, ClockInv
<1>3. ClockInv'
  BY <1>1, <1>2 DEF IInv, ClockInv
<1>4. RitualInv'
  BY <1>1 DEF IInv, RitualInv
<1>5. ChainInv'
  BY <1>1 DEF IInv, ChainInv, chains
<1>. QED
  BY <1>3, <1>4, <1>5 DEF IInv

LEMMA BootStep == ASSUME IInv, Boot  PROVE  IInv'
<1>1. /\ up' = TRUE /\ wake' = now
      /\ UNCHANGED <<now, outages, hour, started, chains>>
  BY DEF Boot
<1>2. now \in Nat /\ wake \in Nat /\ wake <= now /\ now \in Instants
  BY ConstantTypes DEF IInv, ClockInv, Instants
<1>3. ClockInv'
  BY <1>1, <1>2 DEF IInv, ClockInv
<1>4. DayLength \in Nat /\ HandlerTime \in Nat
  BY ConstantTypes
<1>5. RitualInv'
  <2>1. CASE NonePending
    <3>1. /\ ritual' = "pending" /\ reseeded' = TRUE
          /\ ritualAt' = NextDailyRunAt(hour, now)
      BY <2>1 DEF Boot
    <3>2. ritualAt' \in Nat /\ ritualAt' <= now + DayLength
      BY <3>1, <1>2, <1>4, NextRun, ConstantTypes DEF IInv, RitualInv
    <3>3. ritualAt' <= wake' + HandlerTime + DayLength
      BY <1>1, <1>2, <1>4, <3>2
    <3>. QED
      BY <1>1, <3>1, <3>2, <3>3 DEF IInv, RitualInv, NotOverdue
  <2>2. CASE ~NonePending
    <3>1. ritual = "pending" /\ UNCHANGED <<ritual, ritualAt, reseeded>>
      BY <2>2 DEF Boot, NonePending
    <3>2. \E t \in {started, wake'} : ritualAt <= t + HandlerTime + DayLength
      <4>1. CASE ritualAt <= started + HandlerTime + DayLength
        BY <4>1
      <4>2. CASE ritualAt <= wake + HandlerTime + DayLength
        BY <4>2, <1>1, <1>2, <1>4 DEF IInv, RitualInv
      <4>. QED
        BY <3>1, <4>1, <4>2 DEF IInv, RitualInv
    <3>. QED
      BY <1>1, <3>1, <3>2 DEF IInv, RitualInv, NotOverdue
  <2>. QED
    BY <2>1, <2>2
<1>6. ChainInv'
  BY <1>1 DEF IInv, ChainInv, chains, NotOverdue
<1>. QED
  BY <1>3, <1>5, <1>6 DEF IInv

-----------------------------------------------------------------------------
(* The ritual.                                                             *)

LEMMA AdjustHourStep ==
  ASSUME IInv, NEW h \in Hours, AdjustHour(h)  PROVE  IInv'
<1>1. RitualInv'
  BY DEF IInv, RitualInv, AdjustHour, clock, NotOverdue
<1>. QED
  BY <1>1, ClockUnchanged, ChainUnchanged DEF IInv, AdjustHour

LEMMA StartRitualStep == ASSUME IInv, StartRitual  PROVE  IInv'
<1>1. now <= now + HandlerTime /\ now <= now
  BY ConstantTypes DEF IInv, ClockInv, Instants
<1>2. RitualInv'
  BY <1>1 DEF IInv, ClockInv, RitualInv, StartRitual, clock
<1>. QED
  BY <1>2, ClockUnchanged, ChainUnchanged DEF IInv, StartRitual

LEMMA HandlerEndsStep == ASSUME IInv, HandlerEnds  PROVE  IInv'
<1>1. /\ ritual = "running" /\ ritual' = "pending"
      /\ ritualAt' = NextOccurrence(now)
      /\ UNCHANGED <<clock, hour, started, reseeded, chains>>
  BY DEF HandlerEnds
<1>2. /\ now \in Nat /\ started \in Nat /\ started <= now
      /\ now <= started + HandlerTime
      /\ DayLength \in Nat /\ HandlerTime \in Nat /\ PollLag \in Nat
  BY <1>1, ConstantTypes DEF IInv, ClockInv, RitualInv, Instants
<1>3. ritualAt' = now + DayLength
  BY <1>1, <1>2 DEF NextOccurrence, AddZonedDays
<1>4. /\ ritualAt' \in Nat
      /\ ritualAt' <= started + HandlerTime + DayLength
      /\ started + DayLength <= ritualAt'
      /\ now <= ritualAt' + PollLag
  BY <1>2, <1>3
<1>5. RitualInv'
  BY <1>1, <1>4 DEF IInv, RitualInv, clock, NotOverdue
<1>. QED
  BY <1>1, <1>5, ClockUnchanged, ChainUnchanged DEF IInv

-----------------------------------------------------------------------------
(* The commitment and its chain.                                           *)

\* A chain that is scheduled lies between now and the start, and has its last
\* stage whenever there is time for it.
LEMMA Scheduled ==
  ASSUME IInv, NEW start \in Starts, ScheduleForEvent(start), UNCHANGED clock,
         item' = "aberta"
  PROVE  ChainInv'
<1>1. start \in Instants /\ start \in Int /\ now \in Int /\ Prep \in Nat
      /\ Prep > 0 /\ PollLag \in Nat /\ now \in Instants
  BY ConstantTypes DEF IInv, ClockInv, Instants
<1>2. /\ startAt' = start
      /\ step' = [s \in Stages |-> IF Kept(s, start, now) THEN "pending" ELSE "none"]
      /\ stepAt' = [s \in Stages |-> StageAt(s, start)]
      /\ foreseen' = (start - Prep > now)
  BY DEF ScheduleForEvent
<1>3. step' \in [Stages -> StepStatus] /\ stepAt' \in [Stages -> Int]
  BY <1>1, <1>2, StageTypes DEF StepStatus
<1>4. ASSUME NEW s \in Stages, step'[s] = "pending"
      PROVE  stepAt'[s] < startAt' /\ now <= stepAt'[s] + PollLag
  <2>1. StageAt(s, start) > now /\ StageAt(s, start) < start
    BY <1>2, <1>4 DEF Kept
  <2>. QED
    BY <1>1, <1>2, <2>1, StageTypes
<1>5. ASSUME foreseen'
      PROVE  stepAt'["preparo"] = startAt' - Prep /\ step'["preparo"] = "pending"
  <2>1. "preparo" \in Stages /\ StageAt("preparo", start) = start - Prep
    BY DEF Stages, StageAt
  <2>2. start - Prep > now
    BY <1>2, <1>5, Zenon
  <2>3. start - Prep < start
    BY <1>1
  <2>4. Kept("preparo", start, now)
    BY <2>1, <2>2, <2>3, Zenon DEF Kept
  <2>. QED
    BY <1>2, <2>1, <2>4
<1>. QED
  BY <1>1, <1>2, <1>3, <1>4, <1>5 DEF ChainInv, clock, NotOverdue

LEMMA CaptureStep ==
  ASSUME IInv, NEW start \in Starts, Capture(start) \/ Snooze(start)
  PROVE  IInv'
<1>1. /\ item' = "aberta" /\ ScheduleForEvent(start)
      /\ UNCHANGED <<clock, rituals>>
  BY DEF Capture, Snooze
<1>2. ChainInv'
  BY <1>1, Scheduled
<1>. QED
  BY <1>1, <1>2, ClockUnchanged, RitualUnchanged DEF IInv

LEMMA CompleteStep == ASSUME IInv, Complete  PROVE  IInv'
<1>1. ChainInv'
  BY DEF IInv, ChainInv, Complete, clock, NotOverdue
<1>. QED
  BY <1>1, ClockUnchanged, RitualUnchanged DEF IInv, Complete

LEMMA DropStep == ASSUME IInv, Drop  PROVE  IInv'
<1>1. /\ item' = "dropada"
      /\ step' = [s \in Stages |-> IF step[s] = "pending" THEN "cancelado" ELSE step[s]]
      /\ UNCHANGED <<startAt, stepAt, foreseen, clock, rituals>>
  BY DEF Drop
<1>2. step' \in [Stages -> StepStatus]
  BY <1>1 DEF IInv, ChainInv, StepStatus
<1>3. \A s \in Stages : step'[s] # "pending"
  BY <1>1
<1>4. ChainInv'
  BY <1>1, <1>2, <1>3 DEF IInv, ChainInv
<1>. QED
  BY <1>1, <1>4, ClockUnchanged, RitualUnchanged DEF IInv

LEMMA FireStep ==
  ASSUME IInv, NEW s \in Stages, Fire(s)  PROVE  IInv'
<1>1. /\ step' = [step EXCEPT ![s] = "running"]
      /\ UNCHANGED <<item, startAt, stepAt, foreseen, clock, rituals>>
  BY DEF Fire
<1>2. /\ step' \in [Stages -> StepStatus]
      /\ \A r \in Stages : step'[r] = step[r] \/ step'[r] = "running"
  BY <1>1 DEF IInv, ChainInv, StepStatus
<1>3. "preparo" \in Stages
  BY DEF Stages
<1>4. ChainInv'
  BY <1>1, <1>2, <1>3 DEF IInv, ChainInv, clock, NotOverdue
<1>. QED
  BY <1>1, <1>4, ClockUnchanged, RitualUnchanged DEF IInv

-----------------------------------------------------------------------------
LEMMA NextIInv == IInv /\ [Next]_vars => IInv'
<1>. SUFFICES ASSUME IInv, [Next]_vars  PROVE  IInv'
  OBVIOUS
<1>1. CASE TimePasses \/ GoesDown \/ Boot
  BY <1>1, TimePassesStep, GoesDownStep, BootStep
<1>2. CASE \E h \in Hours : AdjustHour(h)
  BY <1>2, AdjustHourStep
<1>3. CASE StartRitual \/ HandlerEnds
  BY <1>3, StartRitualStep, HandlerEndsStep
<1>4. CASE \E start \in Starts : Capture(start) \/ Snooze(start)
  BY <1>4, CaptureStep
<1>5. CASE Complete \/ Drop \/ \E s \in Stages : Fire(s)
  BY <1>5, CompleteStep, DropStep, FireStep
<1>6. CASE UNCHANGED vars
  BY <1>6, ClockUnchanged, RitualUnchanged, ChainUnchanged DEF IInv, vars
<1>. QED
  BY <1>1, <1>2, <1>3, <1>4, <1>5, <1>6 DEF Next

\* The inductive invariant of the clock, the ritual and the chain.
THEOREM TimetableInvariance == Spec => []IInv
  BY InitIInv, NextIInv, PTL DEF Spec

\* The clock, the row of the ritual and the chain keep their types.
THEOREM TimetableTypeCorrect == Spec => []TypeOK
<1>1. IInv => TypeOK
  BY DEF IInv, ClockInv, RitualInv, ChainInv, TypeOK
<1>. QED
  BY <1>1, TimetableInvariance, PTL

\* Whatever its hour is set to and however late it runs, a process that is up
\* begins the ritual within a day, its handler's time and a poll.
THEOREM PaceTheorem == Spec => []RitualKeepsPace
<1>1. IInv => RitualKeepsPace
  <2>. SUFFICES ASSUME IInv, up
       PROVE  \E t \in {started, wake} : now <= t + HandlerTime + DayLength + PollLag
    BY DEF RitualKeepsPace
  <2>1. /\ now \in Nat /\ wake \in Nat /\ started \in Int /\ ritualAt \in Nat
        /\ HandlerTime \in Nat /\ DayLength \in Nat /\ PollLag \in Nat
    BY ConstantTypes DEF IInv, ClockInv, RitualInv, Instants, Never
  <2>2. CASE ritual = "running"
    BY <2>1, <2>2 DEF IInv, RitualInv
  <2>3. CASE ritual = "pending" /\ now = wake
    BY <2>1, <2>3
  <2>4. CASE ritual = "pending" /\ now <= ritualAt + PollLag
    <3>1. PICK t \in {started, wake} : ritualAt <= t + HandlerTime + DayLength
      BY <2>4 DEF IInv, RitualInv
    <3>. QED
      BY <2>1, <2>4, <3>1
  <2>. QED
    BY <2>2, <2>3, <2>4 DEF IInv, RitualInv, NotOverdue
<1>. QED
  BY <1>1, TimetableInvariance, PTL

\* The last reminder of an open commitment has been given by its start, when
\* there was time for it and the process was up, for any margin above a poll.
THEOREM PreparedTheorem == Spec => []PreparedInTime
<1>1. IInv => PreparedInTime
  <2>. SUFFICES ASSUME IInv, up, item = "aberta", now >= startAt, foreseen,
                       wake <= startAt - Prep
       PROVE  step["preparo"] = "running"
    BY DEF PreparedInTime
  <2>1. /\ now \in Int /\ wake \in Int /\ startAt \in Int
        /\ Prep \in Nat /\ PollLag \in Nat /\ Prep > PollLag
    BY ConstantTypes DEF IInv, ClockInv, ChainInv, Instants
  <2>2. /\ stepAt["preparo"] = startAt - Prep /\ "preparo" \in Stages
        /\ step["preparo"] \in {"pending", "running"}
    BY DEF IInv, ChainInv, Stages
  <2>3. ~ (now <= stepAt["preparo"] + PollLag \/ now = wake)
    BY <2>1, <2>2
  <2>. QED
    BY <2>2, <2>3 DEF IInv, ChainInv, NotOverdue
<1>. QED
  BY <1>1, TimetableInvariance, PTL

\* Two runs of the ritual fall on different civil days, drift and changes of
\* the hour included, unless a boot replaced its row in between.
THEOREM OncePerDayTheorem == Spec => RitualOncePerDay
<1>1. ASSUME IInv, [Next]_vars
      PROVE  [ RitualBegins /\ started # Never /\ ~reseeded
               => StartOfZonedDay(started) < StartOfZonedDay(now) ]_vars
  <2>. SUFFICES ASSUME Next, RitualBegins, started # Never, ~reseeded
       PROVE  StartOfZonedDay(started) < StartOfZonedDay(now)
    BY <1>1
  <2>1. StartRitual
    BY DEF RitualBegins, Next, TimePasses, GoesDown, Boot, AdjustHour, rituals,
           HandlerEnds, Capture, Snooze, Complete, Drop, Fire
  <2>2. ritual = "pending" /\ ritualAt <= now
    BY <2>1 DEF StartRitual, Due
  <2>3. started + DayLength <= now /\ started \in Instants /\ now \in Instants
    <3>1. /\ started \in Instants /\ now \in Instants /\ ritualAt \in Nat
          /\ started + DayLength <= ritualAt
      BY <1>1, <2>2 DEF IInv, ClockInv, RitualInv
    <3>2. started \in Nat /\ now \in Nat /\ DayLength \in Nat
      BY <3>1, ConstantTypes DEF Instants
    <3>. QED
      BY <2>2, <3>1, <3>2
  <2>. QED
    BY <2>3, ADayApart
<1>. QED
  BY <1>1, TimetableInvariance, PTL DEF Spec, RitualOncePerDay

\* A reminder about what has begun comes from an outage, or from a stage that
\* is less than a poll before the start.
THEOREM RetroactiveTheorem == Spec => RetroactiveOnlyAfterOutage
<1>1. ASSUME IInv, [Next]_vars
      PROVE  [ \A s \in Stages :
                 Fires(s) => \/ now < startAt
                             \/ stepAt[s] < wake
                             \/ startAt \in stepAt[s] + 1 .. stepAt[s] + PollLag ]_vars
  <2>. SUFFICES ASSUME Next, NEW s \in Stages, Fires(s), ~(now < startAt),
                       ~(stepAt[s] < wake)
       PROVE  startAt \in stepAt[s] + 1 .. stepAt[s] + PollLag
    BY <1>1
  <2>1. up
    BY DEF Fires, Next, TimePasses, GoesDown, Boot, AdjustHour, chains,
           StartRitual, HandlerEnds, Capture, Snooze, Complete, Drop, Fire
  <2>2. stepAt[s] < startAt /\ NotOverdue(stepAt[s])
    BY <1>1, <2>1 DEF IInv, ChainInv, Fires
  <2>3. /\ now \in Int /\ wake \in Int /\ startAt \in Int /\ stepAt[s] \in Int
        /\ PollLag \in Nat
    BY <1>1, ConstantTypes DEF IInv, ClockInv, ChainInv, Instants
  <2>. QED
    BY <2>2, <2>3 DEF NotOverdue
<1>. QED
  BY <1>1, TimetableInvariance, PTL DEF Spec, RetroactiveOnlyAfterOutage

=============================================================================
