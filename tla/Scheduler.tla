----------------------------- MODULE Scheduler -----------------------------
(***************************************************************************)
(* The durable scheduler (core/scheduler): the table jobs, the 30 s poll,  *)
(* and the boot that seeds the recurring jobs and catches up with what     *)
(* came due while the process was away.                                    *)
(*                                                                         *)
(* A tick reads the due rows once and runs them one after the other.  The  *)
(* handlers of recurring jobs (briefing, review, charges, dead man's       *)
(* switch, cost monitor) await the LLM, Google or HTTP, longer than the    *)
(* poll interval when these are slow, and nothing keeps the next tick from *)
(* starting meanwhile.  The handler of a reminder awaits nothing, so that  *)
(* only a crash comes between its row's markRunning and its INSERT into    *)
(* the outbox, two commits; while no tick is inside runJob, or all await a *)
(* recurring handler, the event loop serves everything else.               *)
(***************************************************************************)
EXTENDS Naturals, FiniteSets

CONSTANTS
  Types,             \* job types seeded at boot, all recurring
  Reminders,         \* one-off rows: point reminders and chain steps
  Ticks,             \* polls that may overlap
  MaxCrashes,        \* bound: process crashes per behaviour
  None               \* a tick that awaits no handler

\* A crash can strand the current row of a type; the next boot seeds another.
Generations == 1 .. MaxCrashes + 1
Occurrences == Types \X Generations
Rows == Occurrences \cup Reminders

ASSUME SchedulerAssumption ==
  /\ MaxCrashes \in Nat
  /\ Reminders \cap Occurrences = {}
  /\ None \notin Rows

VARIABLES
  (* the table *)
  status,            \* "absent" before the INSERT, then the column
  due,               \* rows whose next_run_at has passed
  (* the process *)
  phase,             \* boot: "recovering" pending messages, "catchup"; "up"
  active,            \* ticks in progress
  todo,              \* rows a tick selected and has not run yet
  handling,          \* the job whose handler a tick runs or awaits
  (* history *)
  runs,              \* times the handler of a reminder enqueued its message
  shared,            \* reminders that were in two ticks' snapshots at once
  lost,              \* reminders whose handler threw or was cut off by a crash
  crashes

table == <<status, due>>
process == <<phase, active, todo, handling>>
history == <<runs, shared, lost>>
vars == <<status, due, phase, active, todo, handling, runs, shared, lost, crashes>>

TypeOK ==
  /\ status \in [Rows -> {"absent", "pending", "running", "cancelado"}]
  /\ due \subseteq Rows
  /\ phase \in {"recovering", "catchup", "up"}
  /\ active \subseteq Ticks
  /\ todo \in [Ticks -> SUBSET Rows]
  /\ handling \in [Ticks -> Rows \cup {None}]
  /\ runs \in [Reminders -> Nat]
  /\ shared \subseteq Reminders /\ lost \subseteq Reminders
  /\ crashes \in 0 .. MaxCrashes

Init ==
  /\ status = [r \in Rows |-> "absent"]
  /\ due = {}
  /\ phase = "recovering"
  /\ active = {}
  /\ todo = [t \in Ticks |-> {}]
  /\ handling = [t \in Ticks |-> None]
  /\ runs = [r \in Reminders |-> 0]
  /\ shared = {} /\ lost = {}
  /\ crashes = 0

-----------------------------------------------------------------------------
(* Queries.                                                                *)

FindPending == {r \in Rows : status[r] = "pending"}

\* Mutant: one job per tick, the recurring ones (the older ids) first.
SelectOldestDueJobs ==
  IF FindPending \cap due \cap Occurrences # {}
    THEN FindPending \cap due \cap Occurrences
    ELSE FindPending \cap due

\* findPending filtered by isDue; delivered_at is NULL in every row, for
\* nothing in the code calls markConfirmed.
SelectDueJobs == FindPending \cap due

FindPendingByType(type) == FindPending \cap ({type} \X Generations)

\* Mutant: seeding without looking for an existing row.
ToSeedBlindly ==
  {row \in Occurrences :
     /\ status[row] = "absent"
     /\ \A g \in Generations : g < row[2] => status[<<row[1], g>>] # "absent"}

\* The ensure functions INSERT a row for a type that has none pending.
ToSeed ==
  {row \in Occurrences :
     /\ status[row] = "absent"
     /\ \A g \in Generations : g < row[2] => status[<<row[1], g>>] # "absent"
     /\ FindPendingByType(row[1]) = {}}

-----------------------------------------------------------------------------
(* Boot and poll.                                                          *)

\* One thread: others run only while every tick awaits a recurring handler.
EventLoopFree == \A t \in active : handling[t] \in Occurrences

StartTick(t, selected) ==
  /\ active' = active \cup {t}
  /\ todo' = [todo EXCEPT ![t] = selected]
  /\ shared' = shared \cup
       {r \in selected \cap Reminders : \E u \in Ticks : r \in todo[u]}
  /\ UNCHANGED <<handling, runs, lost, crashes>>

\* Seeds due in the future, then runCatchUp; the poll starts after it.
Boot(t) ==
  /\ phase = "recovering"
  /\ phase' = "catchup"
  /\ status' = [r \in Rows |-> IF r \in ToSeed THEN "pending" ELSE status[r]]
  /\ StartTick(t, SelectDueJobs)
  /\ UNCHANGED due

Tick(t) ==
  /\ phase = "up"
  /\ t \notin active
  /\ EventLoopFree
  /\ StartTick(t, SelectDueJobs)
  /\ UNCHANGED <<table, phase>>

EndTick(t) ==
  /\ active' = active \ {t}
  /\ todo' = [todo EXCEPT ![t] = {}]

Finish(t) ==
  /\ t \in active
  /\ todo[t] = {}
  /\ handling[t] = None
  /\ EndTick(t)
  /\ phase' = "up"
  /\ UNCHANGED <<table, handling, history, crashes>>

-----------------------------------------------------------------------------
(* runJob.  It reads the row again and never looks at its status.          *)

\* Mutant: a one-off is marked by its handler, at the end, or never.
MarkRunningRecurring(r) ==
  status' = [status EXCEPT ![r] = IF r \in Reminders THEN @ ELSE "running"]

MarkRunning(r) == status' = [status EXCEPT ![r] = "running"]

StartHandler(t, r) ==
  /\ r \in todo[t]
  /\ handling[t] = None
  /\ MarkRunning(r)
  /\ todo' = [todo EXCEPT ![t] = @ \ {r}]
  /\ handling' = [handling EXCEPT ![t] = r]
  /\ UNCHANGED <<due, phase, active, history, crashes>>

\* The handler of a one-off enqueues; its row stays 'running'.
FireReminder(t) ==
  /\ handling[t] \in Reminders
  /\ runs' = [runs EXCEPT ![handling[t]] = @ + 1]
  /\ handling' = [handling EXCEPT ![t] = None]
  /\ UNCHANGED <<table, phase, active, todo, shared, lost, crashes>>

\* Mutant: a one-off that threw is put back for the next tick.
ReminderThrowsRequeued(t) ==
  /\ handling[t] \in Reminders
  /\ status' = [status EXCEPT ![handling[t]] = "pending"]
  /\ handling' = [handling EXCEPT ![t] = None]
  /\ EndTick(t)
  /\ phase' = IF phase = "catchup" THEN "recovering" ELSE phase
  /\ UNCHANGED <<due, history, crashes>>

\* The exception leaves the tick and drops the rest of its snapshot; during
\* the catch-up it leaves start() too, and the process exits.
ReminderThrows(t) ==
  /\ handling[t] \in Reminders
  /\ lost' = lost \cup {handling[t]}
  /\ handling' = [handling EXCEPT ![t] = None]
  /\ EndTick(t)
  /\ phase' = IF phase = "catchup" THEN "recovering" ELSE phase
  /\ UNCHANGED <<table, runs, shared, crashes>>

\* rescheduleRecurring: pending again, due in the future.
Reschedule(r) ==
  /\ status' = [status EXCEPT ![r] = "pending"]
  /\ due' = due \ {r}

HandlerReturns(t) ==
  /\ handling[t] \in Occurrences
  /\ EventLoopFree
  /\ Reschedule(handling[t])
  /\ handling' = [handling EXCEPT ![t] = None]
  /\ UNCHANGED <<phase, active, todo, history, crashes>>

\* Mutant: a failed run of a recurring job is not rescheduled.
HandlerThrowsForGood(t) ==
  /\ handling[t] \in Occurrences
  /\ EventLoopFree
  /\ handling' = [handling EXCEPT ![t] = None]
  /\ UNCHANGED <<table, phase, active, todo, history, crashes>>

\* A failure of a recurring job is logged and rescheduled like a success.
HandlerThrows(t) ==
  /\ handling[t] \in Occurrences
  /\ EventLoopFree
  /\ Reschedule(handling[t])
  /\ handling' = [handling EXCEPT ![t] = None]
  /\ UNCHANGED <<phase, active, todo, history, crashes>>

-----------------------------------------------------------------------------
(* The modules that own reminders; their commands run while the process is *)
(* up and while the boot reprocesses pending messages.                     *)

CommandsRun == phase \in {"recovering", "up"} /\ EventLoopFree

CreateReminder(r) ==
  /\ CommandsRun
  /\ status[r] = "absent"
  /\ status' = [status EXCEPT ![r] = "pending"]
  /\ UNCHANGED <<due, process, history, crashes>>

\* The owner drops or reschedules a commitment: chains cancels its steps.
CancelReminder(r) ==
  /\ CommandsRun
  /\ status[r] = "pending"
  /\ status' = [status EXCEPT ![r] = "cancelado"]
  /\ UNCHANGED <<due, process, history, crashes>>

-----------------------------------------------------------------------------
(* Time and failure.                                                       *)

ComesDue(r) ==
  /\ status[r] = "pending"
  /\ r \notin due
  /\ due' = due \cup {r}
  /\ UNCHANGED <<status, process, history, crashes>>

Crash ==
  /\ crashes < MaxCrashes
  /\ crashes' = crashes + 1
  /\ phase' = "recovering"
  /\ active' = {}
  /\ todo' = [t \in Ticks |-> {}]
  /\ handling' = [t \in Ticks |-> None]
  /\ lost' = lost \cup {r \in Reminders : \E t \in Ticks : handling[t] = r}
  /\ UNCHANGED <<table, runs, shared>>

Step(t) ==
  \/ \E r \in Rows : StartHandler(t, r)
  \/ FireReminder(t) \/ ReminderThrows(t)
  \/ HandlerReturns(t) \/ HandlerThrows(t)
  \/ Finish(t)

Next ==
  \/ \E t \in Ticks : Boot(t) \/ Tick(t) \/ Step(t)
  \/ \E r \in Reminders : CreateReminder(r) \/ CancelReminder(r)
  \/ \E r \in Rows : ComesDue(r)
  \/ Crash

\* The container restarts the process, the timer fires and the clock
\* advances.  Every handler ends (its calls time out) and its continuation
\* is queued: the event loop reaches it even if other ticks keep running.
Fairness ==
  /\ WF_vars(\E t \in Ticks : Boot(t))
  /\ WF_vars(\E t \in Ticks : Tick(t))
  /\ \A t \in Ticks : SF_vars(Step(t))
  /\ \A r \in Rows : WF_vars(ComesDue(r))

Spec == Init /\ [][Next]_vars
FairSpec == Spec /\ Fairness

-----------------------------------------------------------------------------
(* Properties.                                                             *)

\* A row that is waiting for its time, selected, or being handled.
Live(r) ==
  \/ status[r] = "pending"
  \/ \E t \in Ticks : r \in todo[t] \/ r = handling[t]

\* Idempotent seeding: restarts, orphaned rows and overlapping ticks never
\* leave two live rows of one type, which would double every briefing.
OneLivePerType ==
  \A type \in Types : \A g, h \in Generations :
    Live(<<type, g>>) /\ Live(<<type, h>>) => g = h

\* A recurring row is 'running' without a handler only after a crash, at
\* most as many as handlers were in flight: failures never strand one.
StrandedOnlyByCrash ==
  \A type \in Types :
    Cardinality({g \in Generations :
                   /\ status[<<type, g>>] = "running"
                   /\ \A t \in Ticks : handling[t] # <<type, g>>})
      <= crashes

\* The owner reads a reminder twice only if two overlapping ticks had both
\* selected it before either ran it; a restart never repeats one.
RepeatNeedsOverlap ==
  \A r \in Reminders : runs[r] > 1 => r \in shared

\* A reminder that came due is enqueued or cancelled, whatever restarts,
\* failures of other jobs and slow handlers come in between, unless its own
\* handler threw or a crash came between its two commits: what is behind it
\* in a tick that broke off is not lost with it.
DueReminderRuns ==
  \A r \in Reminders :
    (status[r] = "pending" /\ r \in due)
      ~> (runs[r] > 0 \/ status[r] = "cancelado" \/ r \in lost)

\* The same without the exception: "zero lost jobs" (ADR-004).
\* It does not hold: README, section 7.
NoReminderLost ==
  \A r \in Reminders :
    (status[r] = "pending" /\ r \in due) ~> (runs[r] > 0 \/ status[r] = "cancelado")

\* A recurring job keeps firing: no failure and no restart ends it.
TypeKeepsFiring ==
  \A type \in Types :
    []<>(\E t \in Ticks, g \in Generations : handling[t] = <<type, g>>)

\* A job that throws in the catch-up ends the process, but the restarts it
\* causes come to an end: the boot always completes.
BootCompletes == phase # "up" ~> phase = "up"

\* FEAT-004: dropping a commitment cancels the pending steps of its chain;
\* a cancelled step stays cancelled.
CancelledStaysCancelled ==
  [][\A r \in Reminders :
       status[r] = "cancelado" => status'[r] = "cancelado"]_vars

\* What is left of it: a cancelled step that no tick has selected stays
\* cancelled, and none selects it any more; runs of it come from before.
UnselectedStaysCancelled ==
  [][\A r \in Reminders :
       status[r] = "cancelado" /\ (\A t \in Ticks : r \notin todo[t])
         => /\ status'[r] = "cancelado" /\ runs'[r] = runs[r]
            /\ \A t \in Ticks : r \notin todo'[t]]_vars

=============================================================================
