----------------------------- MODULE Timetable -----------------------------
(***************************************************************************)
(* When things happen: the daily ritual and the chain of reminders of one  *)
(* commitment on the clock of the owner, across outages of the process.    *)
(* Scheduler says which rows of jobs run, and in which ticks; here a row   *)
(* has the instant next_run_at, ticks are abstracted to "a due row runs    *)
(* within PollLag while the process is up", and the arithmetic of the code *)
(* decides the instants (timezone.ts, recurrence.ts, expand-chain.ts).     *)
(*                                                                         *)
(* An instant is a number of slots since some midnight in Sao Paulo, which *)
(* has no daylight saving: a civil day is DayLength slots.                 *)
(***************************************************************************)
EXTENDS Integers

CONSTANTS
  DayLength,         \* slots of a day; the hours below are slots of it
  Horizon,           \* bound: the last instant
  PollLag,           \* a due row waits no longer than this for a tick
  HandlerTime,       \* the ritual's handler takes no longer than this
  Hours,             \* hours of the ritual the owner may configure
  VesperaHour,
  ManhaHour,
  Prep,              \* deslocamentoMin + prepMarginMin
  Starts,            \* when the commitment may be, past or to come
  MaxOutages         \* bound: how often the process goes down

Instants == 0 .. Horizon
Day == 0 .. DayLength - 1
Never == -1
Stages == {"vespera", "manha", "preparo"}

ASSUME TimetableAssumption ==
  /\ {DayLength, Horizon, PollLag, HandlerTime, Prep, MaxOutages} \subseteq Nat
  /\ Hours \subseteq Day /\ {VesperaHour, ManhaHour} \subseteq Day
  /\ Starts \subseteq Instants
  /\ DayLength > HandlerTime + PollLag
  /\ Prep > PollLag            \* minutes of margin against a poll of 30 s

VARIABLES
  now,
  up,                \* the process runs
  outages,
  (* the ritual *)
  hour,              \* the setting briefingHour
  ritual,            \* status of its newest row in jobs, "absent" before it
                     \* ("stranded": 'running' with no handler left)
  ritualAt,          \* its next_run_at
  (* the commitment *)
  item,              \* "none" before its capture; "feita" also archived
  startAt,           \* startAt of its active event
  step,              \* status of the jobs of its chain
  stepAt,            \* their next_run_at
  (* history *)
  wake,              \* instant of the last boot
  started,           \* instant at which the ritual last began
  reseeded,          \* the boot replaced the ritual's row since then
  foreseen           \* there was time to prepare when the chain was made

clock == <<now, up, outages, wake>>
rituals == <<hour, ritual, ritualAt, started, reseeded>>
chains == <<item, startAt, step, stepAt, foreseen>>
vars == <<clock, rituals, chains>>

StepStatus == {"none", "pending", "running", "cancelado"}

TypeOK ==
  /\ now \in Instants /\ up \in BOOLEAN /\ outages \in 0 .. MaxOutages
  /\ hour \in Hours
  /\ ritual \in {"absent", "pending", "running", "stranded"}
  /\ ritualAt \in Nat
  /\ item \in {"none", "aberta", "feita", "dropada"}
  /\ startAt \in Instants
  /\ step \in [Stages -> StepStatus]
  /\ stepAt \in [Stages -> Int]
  /\ wake \in Instants
  /\ started \in Instants \cup {Never}
  /\ {reseeded, foreseen} \subseteq BOOLEAN

Init ==
  /\ now = 0 /\ up = FALSE /\ outages = 0 /\ wake = 0
  /\ hour \in Hours
  /\ ritual = "absent" /\ ritualAt = 0
  /\ started = Never /\ reseeded = FALSE
  /\ item = "none" /\ startAt = 0 /\ foreseen = FALSE
  /\ step = [s \in Stages |-> "none"]
  /\ stepAt = [s \in Stages |-> 0]

-----------------------------------------------------------------------------
(* Civil time.                                                             *)

StartOfZonedDay(t) == t - (t % DayLength)

AddZonedDays(t, days) == t + days * DayLength

\* Today's hour if it is still to come, else tomorrow's.
NextDailyRunAt(h, t) ==
  IF StartOfZonedDay(t) + h > t
  THEN StartOfZonedDay(t) + h
  ELSE AddZonedDays(StartOfZonedDay(t), 1) + h

\* Mutant: the next hour of the setting, which cures the drift.
NextOccurrenceAtHour(fireAt) == NextDailyRunAt(hour, fireAt)

\* rule 'daily', the only civil rule a job is created with.
NextOccurrence(fireAt) == AddZonedDays(fireAt, 1)

StageAt(s, start) ==
  CASE s = "vespera" -> AddZonedDays(StartOfZonedDay(start), -1) + VesperaHour
    [] s = "manha"   -> StartOfZonedDay(start) + ManhaHour
    [] s = "preparo" -> start - Prep

\* Mutant: a stage after the start is kept too.
KeptIfAhead(s, start, t) == StageAt(s, start) > t

\* The filter of expandChain: neither for the past nor after the start.
Kept(s, start, t) == StageAt(s, start) > t /\ StageAt(s, start) < start

-----------------------------------------------------------------------------
(* The clock and the process.                                              *)

Due(status, at) == status = "pending" /\ at <= now

\* The poll reaches what is due in time, and the handler ends in time.
InTime ==
  /\ ritual = "pending" => now < ritualAt + PollLag
  /\ ritual = "running" => now < started + HandlerTime
  /\ \A s \in Stages : step[s] = "pending" => now < stepAt[s] + PollLag

TimePasses ==
  /\ now < Horizon
  /\ up => InTime
  /\ now' = now + 1
  /\ UNCHANGED <<up, outages, wake, rituals, chains>>

\* The process ends, by a crash, a deploy or the machine being switched off.
GoesDown ==
  /\ up
  /\ outages < MaxOutages
  /\ up' = FALSE
  /\ outages' = outages + 1
  /\ ritual' = IF ritual = "running" THEN "stranded" ELSE ritual
  /\ UNCHANGED <<now, wake, hour, ritualAt, started, reseeded, chains>>

\* Mutant: a row of any status counts as an existing one.
NoRow == ritual = "absent"

\* findPendingByType finds nothing: no row yet, or the newest is stranded.
NonePending == ritual # "pending"

\* ensureDailyRitualJob on the way up; the catch-up follows as due rows run.
Boot ==
  /\ ~up
  /\ up' = TRUE
  /\ wake' = now
  /\ IF NonePending
     THEN /\ ritual' = "pending"
          /\ ritualAt' = NextDailyRunAt(hour, now)
          /\ reseeded' = TRUE
     ELSE UNCHANGED <<ritual, ritualAt, reseeded>>
  /\ UNCHANGED <<now, outages, hour, started, chains>>

-----------------------------------------------------------------------------
(* The ritual.                                                             *)

\* The owner changes the setting; the row that is pending keeps its instant.
AdjustHour(h) ==
  /\ h # hour
  /\ hour' = h
  /\ UNCHANGED <<clock, ritual, ritualAt, started, reseeded, chains>>

StartRitual ==
  /\ up
  /\ Due(ritual, ritualAt)
  /\ ritual' = "running"
  /\ started' = now
  /\ reseeded' = FALSE
  /\ UNCHANGED <<clock, hour, ritualAt, chains>>

\* runJob after the handler, whether it returned or threw.
HandlerEnds ==
  /\ up
  /\ ritual = "running"
  /\ ritual' = "pending"
  /\ ritualAt' = NextOccurrence(now)
  /\ UNCHANGED <<clock, hour, started, reseeded, chains>>

-----------------------------------------------------------------------------
(* The commitment and its chain.                                           *)

\* scheduleForEvent: one job for every stage that the filter keeps.
ScheduleForEvent(start) ==
  /\ startAt' = start
  /\ step' = [s \in Stages |-> IF Kept(s, start, now) THEN "pending" ELSE "none"]
  /\ stepAt' = [s \in Stages |-> StageAt(s, start)]
  /\ foreseen' = (start - Prep > now)

Capture(start) ==
  /\ up
  /\ item = "none"
  /\ item' = "aberta"
  /\ ScheduleForEvent(start)
  /\ UNCHANGED <<clock, rituals>>

\* Mutant: the jobs are cancelled after the new chain has been made.
SnoozeThenCancel(start) ==
  /\ up
  /\ item = "aberta"
  /\ startAt' = start
  /\ step' = [s \in Stages |-> IF Kept(s, start, now) THEN "cancelado" ELSE "none"]
  /\ stepAt' = [s \in Stages |-> StageAt(s, start)]
  /\ foreseen' = (start - Prep > now)
  /\ UNCHANGED <<item, clock, rituals>>

\* onItemRescheduled: the old jobs are cancelled, another event is created.
Snooze(start) ==
  /\ up
  /\ item = "aberta"
  /\ ScheduleForEvent(start)
  /\ UNCHANGED <<item, clock, rituals>>

\* complete and archive publish nothing.
Complete ==
  /\ up
  /\ item = "aberta"
  /\ item' = "feita"
  /\ UNCHANGED <<startAt, step, stepAt, foreseen, clock, rituals>>

\* onItemDropped: what is pending is cancelled, what has run stays.
Drop ==
  /\ up
  /\ item = "aberta"
  /\ item' = "dropada"
  /\ step' = [s \in Stages |-> IF step[s] = "pending" THEN "cancelado" ELSE step[s]]
  /\ UNCHANGED <<startAt, stepAt, foreseen, clock, rituals>>

\* The handler of a reminder only puts its text into the outbox, and a job
\* without recurrence stays 'running' for good.
Fire(s) ==
  /\ up
  /\ Due(step[s], stepAt[s])
  /\ step' = [step EXCEPT ![s] = "running"]
  /\ UNCHANGED <<item, startAt, stepAt, foreseen, clock, rituals>>

-----------------------------------------------------------------------------

Next ==
  \/ TimePasses \/ GoesDown \/ Boot
  \/ \E h \in Hours : AdjustHour(h)
  \/ StartRitual \/ HandlerEnds
  \/ \E start \in Starts : Capture(start) \/ Snooze(start)
  \/ Complete \/ Drop
  \/ \E s \in Stages : Fire(s)

Spec == Init /\ [][Next]_vars

-----------------------------------------------------------------------------
(* Properties.                                                             *)

RitualBegins == ritual = "pending" /\ ritual' = "running"
Fires(s) == step[s] = "pending" /\ step'[s] = "running"

\* The ritual begins once on a civil day at most, however much it drifts,
\* however often its hour is changed and across outages; only when an outage
\* interrupted it and the boot seeded another row may it begin again.
RitualOncePerDay ==
  [][ RitualBegins /\ started # Never /\ ~reseeded
      => StartOfZonedDay(started) < StartOfZonedDay(now) ]_vars

\* The price of the drift is bounded: while the process is up, the ritual
\* begins within a day, the handler's time and a poll of the last one or of
\* the boot, also after a crash that stranded its row.
RitualKeepsPace ==
  up => \E t \in {started, wake} : now <= t + HandlerTime + DayLength + PollLag

\* A reminder about what has already begun, which expandChain leaves out, can
\* only come out of the catch-up after an outage, or out of a stage so close
\* to the start that the poll passes it.
RetroactiveOnlyAfterOutage ==
  [][ \A s \in Stages :
        Fires(s) => \/ now < startAt
                    \/ stepAt[s] < wake
                    \/ startAt \in stepAt[s] + 1 .. stepAt[s] + PollLag ]_vars

\* The owner has been told to leave before the commitment begins, whenever
\* there was time to and the process was there: no sequence of snoozes,
\* stages in the past and outages elsewhere loses the last stage.
PreparedInTime ==
  /\ up /\ item = "aberta"
  /\ now >= startAt
  /\ foreseen /\ wake <= startAt - Prep
  => step["preparo"] = "running"

\* PRD RF-05: the ritual is a daily job at a fixed hour, or it is what a boot
\* catches up with.  The code counts the next day from the end of the last
\* run: one late catch-up moves the hour for good, so this does not hold:
\* README, section 7.
FixedHour ==
  [][ RitualBegins => \/ now - (StartOfZonedDay(now) + hour) \in 0 .. PollLag
                      \/ now <= wake + PollLag ]_vars

=============================================================================
