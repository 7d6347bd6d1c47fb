# Norte: formal models

Norte is a personal assistant that lives in one WhatsApp conversation. It is
one Node process on one host with one SQLite database (better-sqlite3, every
query synchronous), a WhatsApp gateway (Evolution) that posts messages to its
webhook, and a few services it awaits: a language model, speech to text, Google
Calendar, a mail server and Healthchecks.io. Its promise is that reminders
arrive, once, and that the owner's answers do what he meant, across crashes,
restarts of the container and every order in which these calls end.

This directory holds TLA+ models of the parts that carry this promise, the TLC
configurations that check them on small instances, and machine-checked proofs of every
safety property that a passing run checks: of the outgoing queue, the scheduler, the
incoming messages, the commitments, the menus, the supervision, the timetable, the Google
tokens, the brain and the cost monitor. Paths below are relative to `src/src/` unless they
begin with `docs/`.

Contents: 1 inventory, 2 modules and how they correspond to the code, 3 runs,
4 bounds, 5 fairness, 6 proofs, 7 what the runs found in the code, 8 what is
not modelled, 9 plan.

## 1. Inventory

One thread runs everything. What makes it hard is that every `await` lets any
timer, webhook call or promise run, that a crash may fall between any two
commits, and that three timers (the outbox every 5 s, the scheduler every 30 s,
the monitors as jobs) and the owner act on the same tables.

| Component | State | Operations | Interacts with | Hard | Correct means |
|---|---|---|---|---|---|
| Outbox (`core/outbox`) | `outbox_messages`, the flag `isRunning` | enqueue, processPending, claim, deliver, fail and back off | everybody enqueues; Evolution; alert mails | overlapping ticks over 10-45 s delays, lost answers, crash between claim and delivery, midnight | the daily cap, every message settles, resends are bounded, rituals first |
| Scheduler (`core/scheduler`) | `jobs`, the ticks in progress | seed, catch up, tick, runJob, reschedule, cancel | handlers of rituals, charges, reminders, monitors; chains cancels | no guard against overlapping ticks, slow handlers, throwing handlers, boot | one live job per type, recurring jobs never die, due reminders run |
| Webhook, message store, sweep (`core/channel`) | `messages` with `processing_status`, one promise per message | record, process, mark, recover | commands, capture, audio | redelivery, crash in the middle, media that expires, restart limits | nothing dealt with in silence, nothing replayed without a crash, nothing forgotten |
| Capture (`modules/capture`) | none of its own | triage, store items, transcribe, converse | tasks, chains, Google, outbox, LLM, STT | replays of a nondeterministic triage, calls outside the transaction | a processed message has the items of its triage |
| Tasks (`modules/tasks`) | `items`, `events` | create, complete, archive, drop, snooze, link | publishes on the bus | many callers act on one item | terminal states are final |
| Chains (`modules/chains`) | jobs of an event | schedule, cancel, reschedule | bus (failures swallowed), scheduler | handlers cut off half way | one live chain per commitment, silence after a drop |
| Google Calendar (`modules/integrations/google-calendar`) | `auth_tokens`, the pending OAuth state (memory), links in `events` | insert, read and sync the agenda, refresh, set up | capture, brain, briefing | remote insertion and local link are two steps; a refresh and a setup overlap | one commitment has one event and one chain; a state is used once; the row is of one grant |
| Charges (`modules/nudges`) | `nudges_charges`, `pending_menus` | check and send, answer, record | outbox, tasks, return mode | digits answer a menu that may not have been read | caps, no item charged twice a day |
| Rituals (`modules/rituals`) | jobs, `pending_menus` | briefing, review, answer | LLM, agenda, hygiene, outbox | the question is chosen before the draft is awaited | the digit acts on the item of its menu |
| Hygiene (`modules/hygiene`) | `pending_menus` | propose, answer | review, tasks | menu closed before its effect | a decision is applied or moot |
| Return mode (`modules/return-mode`) | derived from `messages` | suppress, re-entry summary | charges, webhook | other rows in the same table | 48 hours of silence stop the charges |
| Alerts and monitors (`infra-ops`) | `infra_ops_alert_dispatches` | claim, mail, watch disk and cost, ping | mail server, Healthchecks.io | failed mails, restarts within the window | one mail per window, a lasting condition is mailed |
| Session watchdog, provisioner, health | `ConnectionWatchdog.state` (memory) | observe, provision, judge | Evolution, dead man's switch | lost and overtaken webhook calls, boot | the owner learns that the session is down |
| Next action, kernel registry, settings, migrations, env, logger | `settings`, tables read only, start-up state | queries, registration | all | a setting read once | not modelled but for a changed ritual hour, see section 8 |
| LLM, STT | none | external calls | capture, rituals | any answer, any failure | choices of the models that call them |
| Brain loop (`core/llm/brain-loop.ts`) | the conversation so far (memory) | ask the model, resolve its tool calls, stop at the ceiling | capture, Google, tasks | a model that never stops asking, a call repeated, a replay after a crash | the owner is answered; what the model is told is true; no second copy at Google |
| Time (`core/scheduler/domain`, chain stages, ritual hours) | `next_run_at` of jobs, the hour in `settings` | next occurrence, stages of a chain | scheduler, chains, rituals | drift, outages, a setting changed after the row was made | one ritual a day, the last reminder comes before the start |
| Cost monitor (`infra-ops/domain/cost-monitor.ts`) | usage rows in `messages` | detect cold caches in a window | alerts | a window that slides through a streak | an alarm for every streak and for nothing else |

The hazards, each at its line, are listed in `PROJECT.json`.

## 2. Modules

| Module | Models | Builds on |
|---|---|---|
| `DailyQuota` | what the outbox promises to its callers, without machinery | |
| `Outbox` | queue and processor | `DailyQuota` by a refinement mapping |
| `OutboxProofs` | theorems about `Outbox` | `Outbox`, TLAPS |
| `Scheduler` | jobs, boot, poll | |
| `SchedulerProofs` | theorems about `Scheduler` | `Scheduler`, TLAPS |
| `Handling` | abstract: what the owner is promised of each of his messages | |
| `Inbound` | webhook, processing of a message, sweep | `Handling` by a refinement mapping |
| `InboundProofs` | theorems about `Inbound` and about the silence that its rows measure | `Inbound`, `ReturnMode`, TLAPS |
| `Commitments`, `MCCommitments` | items, events, chains, Google | |
| `CommitmentsProofs` | theorems about `Commitments` | `Commitments`, TLAPS |
| `Menus` | charges, review, hygiene, pending menus, answers | |
| `MenusProofs` | theorems about `Menus` | `Menus`, TLAPS |
| `Supervision` | session, alerts, health, dead man's switch | |
| `SupervisionProofs` | theorems about `Supervision` and about the cost monitor, one of the conditions it is told of | `Supervision`, `CostMonitor`, TLAPS |
| `ReturnMode` | silence and its suppression of charges | |
| `Timetable` | the instants of a daily ritual and of a chain, across outages | |
| `TimetableProofs` | theorems about `Timetable` | `Timetable`, TLAPS |
| `Tokens` | OAuth setup, the row of tokens, its refresh | |
| `Brain` | the loop of the brain and its `create_event` | |
| `GoogleProofs` | theorems about `Tokens` and `Brain` | `Tokens`, `Brain`, TLAPS |
| `CostMonitor` | the alarm for cold caches over a sliding window | |

The modules share no variables; where two meet, each takes the other's outcome
as a choice. `Scheduler` knows a job as due or not due, `Timetable` when it is due.
`Inbound` knows that the brain answers or fails, `Brain` how it comes to that, and
`Tokens` when Google can be called at all. `Commitments` has every way in which an
event enters, `Brain` the one through the model call by call. `Outbox` delivers, late
or never, what `Menus` enqueues.

Conventions. Tables are variables that a crash leaves alone; the memory of the
process is variables that `Crash` resets. An action is the code between two
awaits, with every write it makes. Variables marked *history* are not in the
code; they only let a property speak of the past. Definitions called *Mutant*
in a comment are wrong variants of the definition after them; they are not part
of any specification, and `PROJECT.json` records for every property a mutant
that it rejects.

**Outbox.** Columns are functions of the row. `ProcessPending(t)` is one firing
of the timer (`app.ts:530-535`): it does nothing while `isRunning`, otherwise it
takes the due rows, and `Precedes` is the ORDER BY of `findPending`. For each
row the cap is compared (`HoldBack`), then the row is claimed by a conditional
UPDATE (`Claim`), a proactive one waits 10-45 s (`DelayOver`), then the HTTP call
ends in one of three ways: 2xx (`SendSucceeds`), refused, or taken with a lost
answer (`SendFails`); before it the presence call may be refused (`PresenceFails`).
`SendSucceeds` is the commit of `markDelivered`. `onDelivered` is a step of its own,
at the place `record`: it returns (`Recorded`), or throws inside the same `try`
(`RecordingFails`), which makes the catch put the delivered row back.
`HandleSendFailure` counts the attempt and backs off or gives up with an awaited
alert. `RetryDue` and `Midnight` are the clock. `Crash` may come after WhatsApp has
taken the message, or between the two commits. The cap the code compares counts rows
delivered today, as `countProactiveSentSince` does; `takenToday` counts what WhatsApp
took, and `lostToday` what of it no delivered row shows.

**Scheduler.** Rows are recurring occurrences (a type and a generation, for a boot seeds
another row when a crash stranded the last one) and one-off reminders. `Boot` is the part of
the start that seeds and takes the snapshot of the catch-up; it follows the recovery of
messages, during which commands already run. `Tick(t)` may start while another tick awaits a
handler. `StartHandler` marks the row 'running', a commit of its own. The handler of a
recurring job is then awaited until `HandlerReturns` or `HandlerThrows`. A reminder's
handler awaits nothing: `FireReminder`, its INSERT into the outbox, or `ReminderThrows`
follows, with nothing but a crash in between. `EventLoopFree` says that others run only
while all ticks in progress await a recurring handler. A throwing one-off ends its tick, and
during the catch-up the process: the container starts it again. `lost` remembers the
reminders that threw or were cut off, 'running' for ever.

**Inbound.** `stage` is where the promise of a message stands: media, speech to text,
triage, capture, command, reply, mark. `Receive` inserts the row and starts it; `Redeliver`
is refused by the unique index. The same stages run live and in the sweep, with the
differences the code has: limits of audio only live, expired media only in the sweep.
`Triaged(m, split)` chooses anew on each attempt which items a text holds and in what order:
any distinct contents from the first position on. `ToStore` skips a position that is in the
task store, whatever is there; `resplit` remembers the messages whose triage differed from
what was stored. `Scan`, `RecoverNext` and `Listen` are the boot.

**Commitments.** The tables `items` and `events` are sequences of rows. A
commitment enters by `Capture` (one transaction, then `InsertEvent` and
`SetGcalId`), by `BrainCreates` (`InsertEvent`, then `BrainStores`) or by
`AppearsInGoogle`; `ListAgenda` and `SyncListed` are the two sides of the await in
`listTodayAndSync`. `Drop` and `Snooze` include what the bus handler of chains
does; `HandlerCutShort` is every prefix of it. `armed` says that the jobs of an
event's chain are not cancelled. Lists of the agenda are read whole, and one
list is under way at a time, as the briefing is its only caller on a timer.

**Menus.** A charge, a review question or a hygiene proposal puts a message in
`outbox` and a row in `menus`. `CheckAndSendDue` is one pass, with both caps: the
charge cap is read once (`ChargesLeft`), the rows committed to the outbox are counted
again before each charge. Of an item's status only open or closed is kept. The
review is two actions, because the draft is awaited in between. An answer is
handled in two writes, in the order each module has them: effect and record for
charges, record and effect for the other two. Commands keep the event loop, so
only a crash comes between those. `OwnerReads` lets any enqueued message be the
last one read; Outbox is where its delay, cap and retries are.

**Supervision.** `SessionChanges` is the world, `posts` the webhook calls on
their way. Each is an HTTP request of its own: any of them may be the next to arrive
(`PostDelivered(i)`) or to get lost (`PostLost(i)`), and `overtaken` counts those that a
later one has passed. `Observe` is `observe`, `setState` and the callback of
`app.ts:338-352`; `ToConnectionState` turns every state the code has no name for into
'unknown'.
`Dispatch` claims the window and starts the mail; `RunMonitor` is one hourly
check of a condition that `holding` says is over its threshold. `Healthy` is
`evaluateSystemHealth`; `alarm` is what Healthchecks.io does without pings.

**ReturnMode.** Ages are counted in half days up to the threshold.
`lastInbound` is what the code derives from `messages`, `lastWritten` the truth.

**Timetable.** An instant is a slot since a midnight in Sao Paulo. `ritualAt` and
`stepAt` are the `next_run_at` of the ritual's newest row and of the chain's jobs,
computed as the code does: `NextDailyRunAt` at the boot that seeds,
`NextOccurrence` from the instant after the handler, `StageAt` and the filter `Kept`
of `expandChain`. `AdjustHour` is the settings command, which no row follows. Ticks
are abstracted to `InTime`: while the process is up, time does not pass a due row by
more than `PollLag`, nor a handler by more than `HandlerTime`. `GoesDown` strands a ritual
that runs; `Boot` seeds when nothing is pending, and the catch-up is the due rows
firing late. `wake`, `started`, `reseeded` and `foreseen` are history.

**Tokens.** A grant is numbered by the consent page it comes from, and a token is the
grant it belongs to. `BuildConsentUrl` replaces the pending state, `CompleteSetup(s)`
consumes it and starts the exchange, `ExchangeSucceeds` is `upsert`, which writes
every column, `RefreshSucceeds` is `updateAccessToken`, which writes the access token and
its expiry only. A callback with another state changes nothing, so it is no
action. `ForgetTokens` is a crash: the state is in memory, the row stays.

**Brain.** One message in the loop of `runBrainLoop`. `ModelAnswers` is any answer: a
text, a failure (the canned reply), or up to `MaxCalls` tool calls, each
`create_event` for some event or "other". `CreateEvent` is the lookup
`findExistingBrainEvent` and the checks before the insertion. The lookup asks for the
oldest item of the message and that item's active event with a `gcal_id`: `oldest` is
that event, "bare" when the item has none, "none" without items. Items come from
`StoreEvent` and, when an earlier attempt was taken for a capture, from `CaptureItems`;
`Withdraws` is a drop or a snooze, by a tool of the loop (`ResolveOther`) or by the owner
during an await (`OwnerWithdraws`); `GoogleInserts`,
`InsertFails`, `AnswerLost`, `StoreEvent` are how the insertion and the transaction
after it end. `ListTodayAndSync` is the briefing between them. A copy is an event as
it exists in Google's calendar: `unlinked`, `adopted` by the sync, or `mirrored` by
items of the message itself.

**CostMonitor.** `RecordLlmUsage` appends a usage row, `RunCostMonitor` is the job:
`FindUsageSince` names the rows of the window and `Turns` is the loop of
`detectCacheRegression`, a recursive function that keeps the loop's two variables after
each row; `Counted` is one turn of it. The reference it is compared with, `Streaks`, has
no counter: a streak is a choice of calls of Sonnet, one after the other, all cold and
none far from the last.

## 3. Runs

Times are for two workers. States are distinct.

| Run | States | Asks |
|---|---|---|
| `outbox` | 654,630, 88 s | cap, orphans, resends, rituals first, refinement of `DailyQuota`, every message settles |
| `scheduler` | 28,614, 9 s | one live job per type, strandings, repeats; due reminders run, types keep firing, the boot completes |
| `scheduler_cancel` | violation | does a cancelled job stay cancelled? |
| `inbound` | 700,805, 135 s | complete captures, replays, forgotten rows, refinement of `Handling`, every message settles |
| `commitments` | 3,681,071, 91 s | one live event per item, silence after a drop, links, duplicates only by unlinked reads |
| `menus` | 4,663,035, 91 s | caps, digits act on their menu, tables agree, decisions, menus close |
| `supervision` | 553,564, 200 s | one mail per window, the watchdog, a fallen session is noticed, conditions are mailed |
| `return_mode` | violation | does silence stop the charges? |
| `timetable` | 2,174,312, 22 s | one ritual a day, its pace, the last reminder in time, retroactive reminders only after an outage |
| `tokens` | 5,434, 1 s | a state is exchanged once, tokens of two grants only after an overlap |
| `brain` | 887,799, 45 s | second copies, false successes, every conversation is answered |
| `cost_monitor` | 2,876,678, 30 s | alarms are the streaks of the definition |

What the passing runs show, property by property, is in the comment above each
property. Some deserve a word.

* `DuplicateNeedsUnlinked` is the strongest thing true about duplicates: two
  live chains for one appointment never come from dropping, snoozing, reading
  the agenda again or replays by themselves, but only from an agenda read over
  a remote event that no row was linked to, or from the brain being asked again
  after it moved its event. The first does occur (section 7).
* Several properties carry an exception that the code earned and that bounds the
  damage: `DailyCapRespected` (one message over the cap for each that WhatsApp took and
  no delivered row shows), `OrphansComeFromCrashes` (one row per crash),
  `DueReminderRuns` (the reminder whose own handler threw or was cut off),
  `CaptureComplete` (the positions of the last triage, and its items unless a replay
  split the text otherwise), `OutdatedOnlyByLoss` (the newest report lost, overtaken or
  without a name), `ForgottenOnlyAtBoot` (only
  rows that a sweep left aside), `RetroactiveOnlyAfterOutage`,
  `FalseSuccessOnlyBySibling`, `MismatchNeedsOverlap`. The stronger sentence of the
  documents, without the exception, is a definition of the same module (section 7).
* `RitualKeepsPace` is what the drift leaves: a ritual wanders over the day, but never
  skips one while the process is up.
* `SecondCopyNeedsMishap` counts: the copies of an event at Google exceed one by no more
  than there were lost answers, crashes and agenda reads in the gap and replays taken for
  a capture. It says nothing of a message whose oldest item is without its event: there
  the lookup finds nothing, and the copies have no bound but that of the loop.
* `ImplementsQuota` relates each step of the processor to the quota
  service that the modules enqueueing into the outbox rely on. There a message is sent,
  and done when the delivery has been recorded; only a record that fails takes it back.
* `ImplementsHandling` does the same for the way in. `Handling` knows of a message only
  whether it has an outcome, what was kept, and how often it was acted on and
  answered: an outcome is for good, a handled message has been answered and is not
  touched again, and repetition costs a crash. `Outcome` maps the row and the
  promise of the module to it.

## 4. Bounds

All bounds are constants, named in the modules.

* `MaxCrashes` (0 to 2): a behaviour has finitely many crashes. Two are needed for
  a crash during the recovery from the first one; nothing in the code counts
  crashes, so further ones repeat these states.
* `Outbox`: two rows and two ticks are the least for overlap, priority and a cap
  of one reached by another row; three attempts leave one failure that is neither
  the first nor the last. The proofs lift all of these.
* `Scheduler`: one recurring type keeps a tick waiting while another selects; two reminders
  let one throw and drop the other. Generations are one more than the crashes. Also lifted
  by the proofs.
* `Inbound`: two messages and a sweep that takes one; two items per message, of two
  contents, let a replay find one of them stored and split the text into more, fewer or
  other items, or the same in another order.
* `Commitments`: two appointments, three rows in `events`, two remote events:
  enough for a duplicate, a snooze and a second commitment whose link could be
  confused with it. The appointments are interchangeable (symmetry; the
  run has no liveness property).
* `Menus`: three items under a charge cap of two, so that the cap has something to
  refuse, three messages, one answer, two days, one crash; the cap of proactive messages
  (3) is reached too. One of the items may become overdue and one is often snoozed: a
  decision of the review, a proposal of the hygiene and an item that is neither.
* `Timetable`: three days of six slots, so that a drift of one slot a day passes the hour
  of the setting, a midnight and the start of a commitment; two outages, one to
  strand the ritual and one over a stage; starts in the past, on the first day, early
  and late on later days.
* `Tokens`: three consent pages and two callers let a refresh overlap a setup and another
  refresh; two exchanges per state and two expiries let every path repeat.
* `Brain`: two events, two calls per answer and two rounds instead of six: a
  sibling, a repeated call and the ceiling in the middle of work; one crash, so that the
  message is replayed once, as a conversation or as a capture.
* `CostMonitor`: streaks of two, a gap of one slot, a window of three against an interval
  of two, the least for which the assumption (no streak slides out unseen) is tight.
* `Supervision`: one condition beside the session, two calls on their way, which is the
  least for one to overtake the other, every state of the session, one of them without a
  name in the code, one attempt to provision per boot, one crash. The proofs lift these.

`CHECK_DEADLOCK FALSE` is set for the six specifications that end: `Commitments` and
`Menus` when rows, answers and days are used up, `Timetable` and `CostMonitor` at their
horizon, `Tokens` when pages and expiries are used up, `Brain` when the message has been
processed and no copy is left to adopt. The others never stop.

## 5. Fairness

* Timers fire: `setInterval` for outbox and scheduler (`app.ts`), hence weak
  fairness of `ProcessPending`, `Tick`. The container restarts the process
  (`restart: unless-stopped` in `infra`), hence `Boot` and `Scan`.
* Every await ends: HTTP clients, mailer, LLM and STT have timeouts, and every
  outcome is one of the actions of the step; hence weak fairness of `Step`.
* In `Scheduler` a handler's continuation is enabled only while other ticks wait
  too. Node's queue is first in first out, so it is reached although others keep
  coming: strong fairness of `Step(t)`.
* In `Supervision` a mail that is tried for ever is sent once: strong fairness of
  `MailSent`. It is an assumption about the mail server and is used only for
  `PersistentConditionMailed` and `DownNoticed`.
* In `Brain` the loop as a whole is weakly fair (`LoopStep`): the model answers or times
  out after 15 s, Google's calls end, and a message that a crash interrupted is taken up
  by the recovery; that this may take another boot is in `Inbound`.
* `Commitments`, `Menus`, `Timetable`, `Tokens` and `CostMonitor` assume no fairness:
  their properties are about what may not happen. In `Timetable` the promptness of the
  poll is a guard of the clock instead.
* Never fair: enqueues, messages, answers, cancellations, crashes, session
  changes, successes of a send.

## 6. Proofs

Checked by TLAPS for every value of the constants that satisfies the
assumption named in the module (`OutboxAssumption`, `SchedulerAssumption`,
`InboundAssumption`, `CommitmentsAssumption`, `SupervisionAssumption`,
`TimetableAssumption`, `TokensAssumption`, `BrainAssumption`, `MenusAssumption`,
`CostAssumption`): any sets of messages, jobs, appointments, callers and events, any
bounds. Each module has the same shape: a lemma per action that the inductive invariant
is preserved, a theorem that puts them together, and one theorem per property.

**Outbox** (`OutboxProofs`). `TypeCorrect`, `CapTheorem`, `OrphanTheorem`,
`ResendTheorem`, `RitualsFirstTheorem`: the safety properties of the run, for any set of
rows, any number of overlapping ticks, any cap, attempts and crashes. `Refinement`:
`Outbox` implements `DailyQuota`.

`DailyCapRespected` is not inductive: it says nothing of a run that compared the
cap before its delay and delivers after it. The inductive invariant `IInv` adds
that the flag admits one active run (`Serial`), that a run holds a row exactly
between claim and outcome and that the row is 'sending', or 'delivered' while its
delivery is being recorded (`Holding`), and that
while it holds a proactive row there is still room under the cap
(`CapReserved`), for midnight only makes room and nobody else delivers. That bounds the
delivered rows; `Booked` says that what WhatsApp took today is those rows and the lost
ones, and the cap follows for messages instead of rows. Orphans
are finite and at most as many as crashes (`OrphansCounted`): a crash can add
only the row of the single active run. `Counted` compares acceptances by WhatsApp with
counted failures, by status. Each action has a lemma; the refinement is proved
step by step under the same invariant. `RitualsFirst` needs one thing more, that no row
of a snapshot is still to be inserted (`SnapshotInv`): only the INSERT makes an anchor,
so a run that has taken a common row has no anchor left and gets none.

**Scheduler** (`SchedulerProofs`). `SchedulerTypeCorrect`, `OneLiveTheorem`,
`StrandedTheorem`, `RepeatTheorem`, `CancelledTheorem`. The inductive invariant adds to the
properties that ticks not in progress hold nothing, that none is in progress while the boot
seeds and one during the catch-up (`Quiet`): seeding looks at pending rows only, and it is
sound because no snapshot and no handler exists then. `Shared` says of reminders who may
still run them and that such ticks overlapped, and that the one whose handler runs is marked
and out of its tick's snapshot. `CancelledTheorem` is what finding 1 leaves of a
cancellation: a cancelled row that no tick holds in its snapshot is selected by none and
never runs again.

**Supervision** (`SupervisionProofs`). `SupervisionTypeCorrect`, `OneMailTheorem`,
`WatchdogTheorem`. `OneMailPerWindow` needs `Claimed`: a key outside its window
has no mail sent or under way, so a new claim starts from nothing.
`OutdatedOnlyByLoss` speaks of an empty channel; `Routed` says what holds
before it is empty: the newest call on its way carries the session's present
state unless a later one was lost or has arrived, and when all calls on their way are
late ones the watchdog has what `ToConnectionState` makes of the session, unless the
newest report was missed. Which call arrives next is left open, so the channel is a
bag. It also says that a process that is down counts as having missed the session's
state.

**Inbound** (`InboundProofs`). `CaptureTheorem`, `AnswerTheorem`, `RedoneTheorem`,
`ForgottenTheorem`: the safety properties. They speak of rows that are done, and
are not inductive: the invariant `Row` says how far a row has come at every stage of
its promise (`Captured`: no split is in memory before the triage, an item is stored at
each of its positions before the answer, and these are the split's own unless a replay
split the text otherwise; `Counts`: an attempt beyond the first has cost a crash), and of a row
that waits with nobody working on it that a crash left it there and that the sweep
holds it or has left it aside (`Placed`). The rows are independent: a step on one
is lifted to the invariant by `SameRow` and `OneRow`. `HandlingRefinement`: `Inbound`
implements `Handling`, action by action. It needs `Row` (a message is marked only after
an answer; only a crash starts another attempt) and one thing more, `Purpose`: nothing but
the mark is done for a message that asks for nothing.

**Return mode** (in `InboundProofs`). RF-10 is violated (finding 2), so the theorem is
what is true instead. `ChargedTheorem`: a charge in the owner's silence goes out
only while a row that he did not write is newer than his last message. It needs that
a silence that has begun has lasted its 48 hours, and that the newest inbound row is never
older than the owner's last message (`SilenceIInv`).

**Commitments** (`CommitmentsProofs`). `OneLiveEventTheorem`, `DroppedTheorem`,
`LinksTheorem`, `DuplicateTheorem`. The tables are sequences that only grow, and cardinalities
are replaced by uniqueness (`OneLive`) and brought back at the end. What makes
the properties inductive is knowing what an answer of Google under way will find
(`CallInv`: the id is of the appointment asked for, the event is not linked yet), that
an appointment enters once (`EntryInv`), and that one which is not exposed has at most one
item and no reading under way that would add another (`SingleInv`).

**Timetable** (`TimetableProofs`). `OncePerDayTheorem`, `PaceTheorem`, `PreparedTheorem`,
`RetroactiveTheorem`, `TimetableTypeCorrect`. Of the calendar the proofs use that midnight is
at or before an instant and less than a day earlier (`Midnight`). The invariant bounds
`ritualAt` from both sides by the last run or the last boot, and says that a pending
row is not overdue while the process is up unless it has just come up
(`NotOverdue`). That the day is longer than a handler and a poll, and the margin of
the last stage longer than a poll, are assumptions; the code's values meet them by far.

**Menus** (`MenusProofs`). `OncePerDayTheorem`, `AnswerActsOnItsMenuTheorem`,
`MenusMatchChargesTheorem`, `DecisionLostTheorem`, `AnswerClosesMenuTheorem` (an action
property), `MenusTypeCorrect`. A digit is handled in two writes, and `AnswerInv` says what
stands between them: after the effect of a charge its menu is still the newest pending one,
after the record of a decision it is resolved and nothing has been done. `MenusMatchCharges`
speaks of what is pending, and nothing follows from it about the rows that become so;
the invariant `Matched` pairs *all* charges with all menus of origin `cobranca`, answered
ones included, in order and with equal items and states, as long as nothing has
crashed. `NewestPair` is the lemma for which it is needed: the newest pending menu that
`recordResponse` closes, when it is a charge's, is paired with the newest charge without
a response, which it ends by a query of its own. TLC confirmed the inductive invariant on
all states of the run before it was proved.

**Cost monitor** (`SupervisionProofs`). `AlarmsTheorem`, `CostInvariance`. The loop is a
recursive function, and what it computes for every sequence of calls is an induction over
the rows. It is carried out by the least counterexample (`LeastNat`, from the
well-foundedness of the naturals): `TurnsUnfold` gives the recursion, `LoopInvariant` says
that the counter after row i is the length of the longest chain of cold calls that ends at
the last call of Sonnet up to i. `DetectsStreaks` follows, the equality of the one-pass loop
and the definition on the rows of any window. `CostIInv` adds that ids and
clock agree and that each streak has raised its alarm or will be looked at within an
interval of its end; there `CostAssumption` is used, that the window covers an interval and
the longest streak (a day against an hour and ten minutes in the settings).

**Tokens** (`GoogleProofs`). `StateUsedOnceTheorem`, `MismatchTheorem`,
`TokensTypeCorrect`. Added: an exchanged state is not the pending one, for states are
issued once (`StatesInv`), and a refresh under way works for the stored grant
unless a setup overlapped it (`GrantInv`).

**Brain** (`GoogleProofs`). `SecondCopyTheorem`, `FalseSuccessTheorem`,
`BrainTypeCorrect`. Added: an insertion under way means that the oldest item has no event
(`LoopInv`), the mishaps pay for every copy before the message has an item, but for the
one on its way into the transaction, and for all but one while its oldest item has
its event (`Paid`), and a reported success means that something has been stored
(`ToldInv`). Once the event is withdrawn it does not come back, so nothing is needed of
the copies from then on.

Only model-checked: liveness (`EveryMessageSettles` twice, `DueReminderRuns`,
`TypeKeepsFiring`, `BootCompletes`, `DownNoticed`, `PersistentConditionMailed`,
`ConversationAnswered`), which is out of the prover's reach under fairness.


## 7. What the runs found in the code

Every finding is in `PROJECT.json` with the sentence it contradicts. The first two are
counterexamples of violation runs. For those after them the run named passes with a
property that says exactly when it happens; the stronger sentence of the documents is the
definition named, and it is violated when it is added to that module's `.cfg` (as
`PROPERTY` when it is temporal, else as `INVARIANT`).

1. A job cancelled after a tick selected it still fires (`scheduler_cancel`).
2. The usage rows of rituals reset the silence, so the return mode never begins
   while briefing and review are drafted by the model (`return_mode`).
3. A crash between `claimForSending` and `markDelivered` leaves a message in
   'sending' for ever (`outbox`; `NothingStuckAfterRestart`, temporal).
4. A message in flight when the process crashes and is back within the threshold
   stays pending until some later restart (`inbound`; `NothingForgotten`, temporal).
5. An agenda read between the insertion at Google and the storing of its id
   stores the commitment a second time (`commitments`; `OneLivePerAppointment`).
6. A digit may act on a question that has not been delivered yet (`menus`;
   `AnswersTheQuestionAsked`).
7. The daily rituals move later every day by the poll and their handler, and by hours
   for good after a late catch-up; and a changed hour in the settings never takes effect,
   for a pending row always exists (`timetable`; `FixedHour`, temporal).
8. A stage of a chain that falls into an outage is delivered by the catch-up, also
   after the commitment has begun (`timetable`, `RetroactiveOnlyAfterOutage`).
9. A proactive message that WhatsApp took with a lost answer, whose recording threw, or
   that a crash cut off before `markDelivered`, does not count against the daily cap: one
   more goes out (`outbox`; `DailyCapHard`).
10. A reminder whose handler throws, or whose tick dies between `markRunning` and the
   INSERT, stays 'running' for ever and reaches nobody (`scheduler`; `NoReminderLost`,
   temporal).
11. A replay that splits the text otherwise skips the positions stored before: an item
   found is not stored, another one is stored twice (`inbound`; `NoItemLost`, an action
   property, as `PROPERTY`).
12. When the oldest item of a message is dropped or snoozed, or was captured without an
   event, the brain's lookup finds nothing and `create_event` inserts the event again
   (`brain`; `CopiesCostMishaps`).
13. The second `create_event` of one message is reported to the model as done, with the
   first event as its result, and nothing is created (`brain`; `SuccessMeansCreated`).
14. A refresh that overlaps a setup leaves the row with tokens of two grants, and the
   comment above `upsert` describes neither it nor the refresh; a wrong OAuth state is
   not consumed although the comment says "confira ou não" (`tokens`).

Read off the code, without a run: an unknown session counts as healthy, and so does
every state Evolution reports that the code has no name for; the recorded
transcription is not used by the recovery; a cancelled event's gcal_id keeps
the sync from storing it again.

## 8. Not modelled

* Texts: tone, templates, prompts, schemas, parsing of dates and of digits.
* Weekly and monthly recurrence, which no caller uses, and changes of the offset: Sao
  Paulo has had none since 2019.
* The projection of the month's cost, a product of real numbers, and the prices.
* Encryption of tokens; the random value of an OAuth state (a number here).
* The requests of the providers of language models and the fallback between the two
  of speech to text: straight-line code whose outcomes are choices of `Inbound` and `Brain`.
* Authentication of webhook and setup routes, migrations, environment,
  logging, kernel registry, `next-action`: no interleaving and little state.
* The order of equal timestamps (`created_at` has a resolution of one second) in
  queries for the most recent item.

## 9. Plan

Done, in the order of importance: `DailyQuota`, `Outbox`, `Scheduler`, `Inbound`,
`Commitments`, `Menus`, `Supervision`, `ReturnMode`; then `Timetable`, `Tokens`, `Brain`,
`CostMonitor`; `Handling`; proofs for all of them, for `ReturnMode` of what the code leaves
of its property.

Left:

1. `Reminders`: Scheduler and Outbox composed, from a due job to the delivered
   message, refining an abstract "each due reminder is delivered, or given up
   with an alert, or orphaned by a crash".
