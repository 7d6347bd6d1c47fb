---------------------------- MODULE CostMonitor ----------------------------
(***************************************************************************)
(* The alarm of cache regression (infra-ops/cost-monitor-service.ts): the  *)
(* usage rows that the calls of the language models leave in messages, and *)
(* the job that looks at a sliding window of them every Interval and runs  *)
(* detectCacheRegression, one pass with a counter.  An instant is a slot;  *)
(* a row keeps its model, whether its cache was cold, and its created_at.  *)
(***************************************************************************)
EXTENDS Naturals, Sequences

CONSTANTS
  Threshold,         \* infraOps.cacheRegressionThreshold
  MaxGap,            \* infraOps.cacheRegressionMaxGapMs
  Interval,          \* infraOps.costMonitorIntervalMinutes
  Window,            \* infraOps.costMonitorSampleWindowDays
  MaxRows,           \* bound: calls of the models
  Horizon            \* bound: the last instant

\* The defaults are 3 calls, 5 minutes, 60 minutes and a day.
ASSUME CostAssumption ==
  /\ Threshold \in Nat \ {0}
  /\ {MaxGap, Interval, Window, MaxRows, Horizon} \subseteq Nat
  /\ Window >= Interval + (Threshold - 1) * MaxGap

VARIABLES
  now,
  rows,              \* usage rows of messages, in the order of their ids
  nextRun,           \* next_run_at of the job cost_monitor
  alarms             \* history: runs of the job that raised the alarm

costVars == <<now, rows, nextRun, alarms>>

Usage == [haiku : BOOLEAN, cold : BOOLEAN, at : 0 .. Horizon]

CostTypeOK ==
  /\ now \in 0 .. Horizon
  /\ rows \in Seq(Usage)
  /\ nextRun \in Nat
  /\ alarms \subseteq 0 .. Horizon

\* ensureRecurringJob plans the first run an interval after the boot.
CostInit == now = 0 /\ rows = <<>> /\ nextRun = Interval /\ alarms = {}

-----------------------------------------------------------------------------

\* Rows selected are named by their indices; modelForIntent: only the triage
\* goes to Haiku.
FindUsageSince(since) == {i \in DOMAIN rows : rows[i].at + Window >= since}
OfSonnet(sample) == {i \in sample : ~rows[i].haiku}

\* Mutant: a hit does not end the sequence.
CountedThroughHits(seen, row) ==
  LET apart == seen.any /\ row.at > seen.last + MaxGap
      base == IF apart THEN 0 ELSE seen.zeros
      zeros == IF row.cold THEN base + 1 ELSE base
  IN [any |-> TRUE, last |-> row.at, zeros |-> zeros]

\* One turn of the loop of detectCacheRegression, at a call of Sonnet.
Counted(seen, row) ==
  LET apart == seen.any /\ row.at > seen.last + MaxGap
      base == IF apart THEN 0 ELSE seen.zeros
      zeros == IF row.cold THEN base + 1 ELSE 0
  IN [any |-> TRUE, last |-> row.at, zeros |-> zeros]

NothingSeen == [any |-> FALSE, last |-> 0, zeros |-> 0]

\* The loop's state after each row; the calls not in sample are passed over.
Turns(sample) ==
  LET turn[i \in 0 .. Len(rows)] ==
        IF i = 0 THEN NothingSeen
        ELSE IF i \in sample THEN Counted(turn[i - 1], rows[i])
        ELSE turn[i - 1]
  IN turn

\* It returns at the first turn that reaches the threshold.
DetectCacheRegression(sample) ==
  \E i \in 0 .. Len(rows) : Turns(OfSonnet(sample))[i].zeros >= Threshold

-----------------------------------------------------------------------------

\* A call of a model has been answered: onUsage records it.
RecordLlmUsage ==
  /\ Len(rows) < MaxRows
  /\ \E haiku, cold \in BOOLEAN :
       rows' = Append(rows, [haiku |-> haiku, cold |-> cold, at |-> now])
  /\ UNCHANGED <<now, nextRun, alarms>>

RunCostMonitor ==
  /\ now = nextRun
  /\ nextRun' = now + Interval
  /\ alarms' = IF DetectCacheRegression(FindUsageSince(now))
               THEN alarms \cup {now} ELSE alarms
  /\ UNCHANGED <<now, rows>>

\* The job runs in time: the process stays up here.
TimePasses ==
  /\ now < Horizon /\ now < nextRun
  /\ now' = now + 1
  /\ UNCHANGED <<rows, nextRun, alarms>>

CostNext == RecordLlmUsage \/ RunCostMonitor \/ TimePasses

CostSpec == CostInit /\ [][CostNext]_costVars

-----------------------------------------------------------------------------
(* Properties.                                                             *)

Sonnets == {i \in DOMAIN rows : ~rows[i].haiku}

\* n calls of C one after the other, all cold and none far from the last.
Chain(C, n, s) ==
  /\ s \in [1 .. n -> C]
  /\ \A j \in 1 .. n : rows[s[j]].cold
  /\ \A j, k \in 1 .. n : j < k => s[j] < s[k]
  /\ \A j \in 1 .. n - 1 :
       /\ \A c \in C : ~(s[j] < c /\ c < s[j + 1])
       /\ rows[s[j + 1]].at <= rows[s[j]].at + MaxGap

\* The regressions by the definition of FEAT-008: Threshold successive calls
\* of Sonnet without a hit.
Streaks == {s \in [1 .. Threshold -> Sonnets] : Chain(Sonnets, Threshold, s)}

Began(s) == rows[s[1]].at
Ended(s) == rows[s[Threshold]].at

\* The alarm is raised for a streak that lies within the window, and for no
\* other reason; and no streak slides out of the window unnoticed: the first
\* run after its last call raises the alarm.
AlarmsMatchStreaks ==
  /\ \A a \in alarms :
       \E s \in Streaks : Ended(s) <= a /\ Began(s) + Window >= a
  /\ \A s \in Streaks :
       now > Ended(s) + Interval =>
         \E a \in alarms : Ended(s) <= a /\ a <= Ended(s) + Interval

=============================================================================
