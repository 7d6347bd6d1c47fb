----------------------------- MODULE Supervision -----------------------------
(***************************************************************************)
(* How the owner learns that his assistant is in trouble (infra-ops,       *)
(* core/health and the watchdog of core/channel): the state of the         *)
(* WhatsApp session as Evolution's webhook reports it, the alerts by mail  *)
(* with their anti-flood windows, and the dead man's switch, whose pings   *)
(* stop when the system is unhealthy so that Healthchecks.io raises an     *)
(* alarm of its own.                                                       *)
(*                                                                         *)
(* A session alert is sent on a change of the watchdog's state; the        *)
(* monitors of disk, cost and cache look at a condition again every hour.  *)
(* The watchdog's state is memory, the anti-flood window is a table.       *)
(*                                                                         *)
(* Every webhook call is an HTTP request of its own: calls may overtake    *)
(* one another or get lost.                                                *)
(***************************************************************************)
EXTENDS Naturals, Sequences

CONSTANTS
  Conditions,        \* alert keys of the hourly monitors
  MaxAttempts,       \* attempts of a boot to provision the webhook
  MaxPosts,          \* bound: webhook calls on their way
  MaxCrashes         \* bound: process crashes per behaviour

ASSUME SupervisionAssumption ==
  /\ "session_down" \notin Conditions
  /\ MaxAttempts \in Nat \ {0}
  /\ MaxPosts \in Nat \ {0}
  /\ MaxCrashes \in Nat

VARIABLES
  (* the world *)
  session,           \* the WhatsApp session as Evolution knows it
  posts,             \* webhook calls on their way, in the order of issue
  provisioned,       \* Evolution knows the webhook's address
  holding,           \* conditions over their threshold
  alarm,             \* Healthchecks.io misses its pings and tells the owner
  (* the process *)
  up,
  state,             \* ConnectionWatchdog.state
  lastTick,          \* getLastTickAt: "never", "recent" or "stale"
  attempts,          \* of the current boot to provision
  sending,           \* calls of mailer.send in flight, per key
  (* the table infra_ops_alert_dispatches *)
  window,            \* keys claimed within the anti-flood window
  (* history *)
  mailed,            \* mails per key since its window began
  told,              \* a session alert went out since the session fell
  overtaken,         \* calls, the first of posts, of which a later one arrived
  missed,            \* the newest report is not the last one the watchdog took
  crashes

world == <<session, posts, provisioned, holding, alarm>>
process == <<up, state, lastTick, attempts>>
mail == <<sending, window, mailed, told>>
history == <<overtaken, missed>>
vars == <<world, process, mail, history, crashes>>

Keys == Conditions \cup {"session_down"}

\* Evolution's names for the states of a session; "other" is any the code does
\* not know.
SessionStates == {"open", "connecting", "close", "qr_requested", "other"}

ConnectionStates == {"open", "connecting", "close", "qr_requested", "unknown"}

\* The states onStateChange raises an alert for.
Down == {"close", "qr_requested"}

TypeOK ==
  /\ session \in SessionStates
  /\ posts \in Seq(SessionStates) /\ Len(posts) <= MaxPosts
  /\ provisioned \in BOOLEAN
  /\ holding \subseteq Conditions
  /\ alarm \in BOOLEAN
  /\ up \in BOOLEAN
  /\ state \in ConnectionStates
  /\ lastTick \in {"never", "recent", "stale"}
  /\ attempts \in 0 .. MaxAttempts
  /\ sending \in [Keys -> Nat]
  /\ window \subseteq Keys
  /\ mailed \in [Keys -> Nat]
  /\ told \in BOOLEAN
  /\ overtaken \in 0 .. Len(posts)
  /\ missed \in BOOLEAN
  /\ crashes \in 0 .. MaxCrashes

Init ==
  /\ session \in SessionStates
  /\ posts = <<>>
  /\ provisioned = FALSE
  /\ holding = {}
  /\ alarm = FALSE
  /\ up = TRUE
  /\ state = "unknown"
  /\ lastTick = "never"
  /\ attempts = 0
  /\ sending = [k \in Keys |-> 0]
  /\ window = {}
  /\ mailed = [k \in Keys |-> 0]
  /\ told = FALSE
  /\ overtaken = 0
  /\ missed = TRUE
  /\ crashes = 0

-----------------------------------------------------------------------------
(* Alerts.                                                                 *)

\* Mutant: the window is looked up and only claimed once the mail went out.
DispatchUnclaimed(k) ==
  /\ sending' = IF mailed[k] > 0 THEN sending ELSE [sending EXCEPT ![k] = @ + 1]
  /\ window' = window \cup {k}

\* dispatch: tryClaim, then the mail; a key claimed already is suppressed.
Dispatch(k) ==
  IF k \in window
    THEN UNCHANGED <<sending, window>>
    ELSE /\ sending' = [sending EXCEPT ![k] = @ + 1]
         /\ window' = window \cup {k}

MailSent(k) ==
  /\ sending[k] > 0
  /\ sending' = [sending EXCEPT ![k] = @ - 1]
  /\ mailed' = [mailed EXCEPT ![k] = @ + 1]
  /\ told' = (told \/ (k = "session_down" /\ session \in Down))
  /\ UNCHANGED <<world, process, window, history, crashes>>

\* The failure is logged; the claim stays.
MailFails(k) ==
  /\ sending[k] > 0
  /\ sending' = [sending EXCEPT ![k] = @ - 1]
  /\ UNCHANGED <<world, process, window, mailed, told, history, crashes>>

\* Mutant: a claimed key is never given out again.
WindowNeverOver(k) ==
  /\ k \in window /\ sending[k] = 0
  /\ mailed' = [mailed EXCEPT ![k] = 0]
  /\ UNCHANGED <<world, process, sending, window, told, history, crashes>>

\* 30 minutes after the claim; a mail that was being sent has timed out.
WindowOver(k) ==
  /\ k \in window /\ sending[k] = 0
  /\ window' = window \ {k}
  /\ mailed' = [mailed EXCEPT ![k] = 0]
  /\ UNCHANGED <<world, process, sending, told, history, crashes>>

-----------------------------------------------------------------------------
(* The session and the watchdog.                                           *)

Room == Len(posts) < MaxPosts

\* A change is posted if Evolution has an address to post it to.
SessionChanges(s) ==
  /\ s # session
  /\ session' = s
  /\ told' = (told /\ s \in Down)
  /\ IF provisioned
       THEN /\ Room
            /\ posts' = Append(posts, s)
            /\ UNCHANGED missed
       ELSE /\ missed' = TRUE
            /\ UNCHANGED posts
  /\ UNCHANGED <<provisioned, holding, alarm, process, sending, window, mailed,
                 overtaken, crashes>>

\* Evolution may repeat a state; nothing obliges it to.
Reemits ==
  /\ provisioned /\ Room
  /\ posts' = Append(posts, session)
  /\ UNCHANGED <<session, provisioned, holding, alarm, process, mail, history,
                 crashes>>

ToConnectionState(raw) == IF raw = "other" THEN "unknown" ELSE raw

\* Mutant: only a state that raises an alert is stored.
ObserveAlerting(raw) ==
  LET s == ToConnectionState(raw) IN
  IF s # state /\ s \in Down
    THEN state' = s /\ Dispatch("session_down")
    ELSE UNCHANGED <<state, sending, window>>

\* observe, setState and the callback that app.ts gives the watchdog.
Observe(raw) ==
  LET s == ToConnectionState(raw) IN
  /\ state' = s
  /\ IF s # state /\ s \in Down
       THEN Dispatch("session_down")
       ELSE UNCHANGED <<sending, window>>

Without(i) ==
  [j \in 1 .. Len(posts) - 1 |-> posts[IF j < i THEN j ELSE j + 1]]

\* Any call may be the next to arrive, and those before it are late then.
PostDelivered(i) ==
  /\ up
  /\ posts' = Without(i)
  /\ Observe(posts[i])
  /\ missed' = (i <= overtaken)
  /\ overtaken' = IF i <= overtaken THEN overtaken - 1 ELSE i - 1
  /\ UNCHANGED <<session, provisioned, holding, alarm, up, lastTick, attempts,
                 mailed, told, crashes>>

\* The process is down or does not answer: Evolution does not try again.  When
\* it was the newest report, the others are out of date.
PostLost(i) ==
  /\ posts' = Without(i)
  /\ missed' = (missed \/ (i = Len(posts) /\ i > overtaken))
  /\ overtaken' = IF i <= overtaken THEN overtaken - 1
                  ELSE IF i = Len(posts) THEN i - 1
                  ELSE overtaken
  /\ UNCHANGED <<session, provisioned, holding, alarm, process, mail, crashes>>

ProvisionEvolutionWebhook ==
  /\ up /\ attempts < MaxAttempts
  /\ provisioned' = TRUE
  /\ attempts' = MaxAttempts
  /\ UNCHANGED <<session, posts, holding, alarm, up, state, lastTick, mail,
                 history, crashes>>

\* A failed attempt; after the last one the process serves without a webhook.
ProvisionFails ==
  /\ up /\ attempts < MaxAttempts
  /\ attempts' = attempts + 1
  /\ UNCHANGED <<world, up, state, lastTick, mail, history, crashes>>

-----------------------------------------------------------------------------
(* The jobs of infra-ops and the health they look at.                      *)

\* Mutant: only a closed session counts as degraded.
HealthyUnlessClosed == lastTick # "stale" /\ state # "close"

\* evaluateSystemHealth: no tick yet and no session state yet count as well.
Healthy == lastTick # "stale" /\ state \in {"open", "unknown"}

TickEnds ==
  /\ up
  /\ lastTick' = "recent"
  /\ UNCHANGED <<world, up, state, attempts, mail, history, crashes>>

\* Ticks hang or throw for longer than schedulerStaleAfterMs.
TicksGoStale ==
  /\ lastTick = "recent"
  /\ lastTick' = "stale"
  /\ UNCHANGED <<world, up, state, attempts, mail, history, crashes>>

RunMonitor(k) ==
  /\ up /\ k \in holding
  /\ Dispatch(k)
  /\ UNCHANGED <<world, process, mailed, told, history, crashes>>

PingDeadMansSwitch ==
  /\ up /\ Healthy
  /\ alarm' = FALSE
  /\ UNCHANGED <<session, posts, provisioned, holding, process, mail, history,
                 crashes>>

\* The grace period passes without a ping.
PingsMissing ==
  /\ ~(up /\ Healthy)
  /\ alarm' = TRUE
  /\ UNCHANGED <<session, posts, provisioned, holding, process, mail, history,
                 crashes>>

-----------------------------------------------------------------------------
(* The world.                                                              *)

ConditionChanges(k) ==
  /\ holding' = IF k \in holding THEN holding \ {k} ELSE holding \cup {k}
  /\ UNCHANGED <<session, posts, provisioned, alarm, process, mail, history,
                 crashes>>

Crash ==
  /\ up /\ crashes < MaxCrashes
  /\ crashes' = crashes + 1
  /\ up' = FALSE
  /\ state' = "unknown"
  /\ missed' = TRUE
  /\ lastTick' = "never"
  /\ sending' = [k \in Keys |-> 0]
  /\ UNCHANGED <<world, attempts, window, mailed, told, overtaken>>

Boot ==
  /\ ~up
  /\ up' = TRUE
  /\ attempts' = 0
  /\ UNCHANGED <<world, state, lastTick, mail, history, crashes>>

Next ==
  \/ \E s \in SessionStates : SessionChanges(s)
  \/ \E k \in Keys : MailSent(k) \/ MailFails(k) \/ WindowOver(k)
  \/ \E k \in Conditions : RunMonitor(k) \/ ConditionChanges(k)
  \/ Reemits
  \/ \E i \in 1 .. Len(posts) : PostDelivered(i) \/ PostLost(i)
  \/ ProvisionEvolutionWebhook \/ ProvisionFails
  \/ TickEnds \/ TicksGoStale
  \/ PingDeadMansSwitch \/ PingsMissing
  \/ Crash \/ Boot

\* The container restarts the process, which answers the calls that reach it
\* and runs its jobs; windows and grace periods pass, every mail is sent or
\* fails, and a transport that is tried again and again works in the end.
Fairness ==
  /\ WF_vars(Boot) /\ WF_vars(PingsMissing)
  /\ WF_vars(\E i \in 1 .. Len(posts) : PostDelivered(i))
  /\ \A k \in Keys :
       /\ WF_vars(WindowOver(k))
       /\ WF_vars(MailSent(k) \/ MailFails(k))
       /\ SF_vars(MailSent(k))
  /\ \A k \in Conditions : WF_vars(RunMonitor(k))

Spec == Init /\ [][Next]_vars
FairSpec == Spec /\ Fairness

-----------------------------------------------------------------------------
(* Properties.                                                             *)

\* A flapping session, overlapping monitors and restarts cost the owner at
\* most one mail per key and window: the claim is atomic and durable.
OneMailPerWindow == \A k \in Keys : mailed[k] + sending[k] <= 1

\* Once every report has arrived, the watchdog that /health and the dead man's
\* switch rely on is wrong about the session only if the newest report was lost,
\* never posted or overtaken by an older one, or the memory was lost; or if the
\* session is in a state that the code has no name for, which reads as if
\* nothing had been reported.
OutdatedOnlyByLoss ==
  up /\ posts = <<>> /\ ~missed =>
    \/ state = session
    \/ session = "other" /\ state = "unknown"

\* The owner learns of a session that is down, by mail or from Healthchecks
\* (RF-13), whatever mails fail or are suppressed, unless the watchdog has
\* missed the change or taken an older report after it.
DownNoticed ==
  session \in Down ~> (session \notin Down \/ told \/ alarm \/ missed)

\* A condition that persists is mailed although earlier mails failed or died
\* with the process after they had claimed the window.
PersistentConditionMailed ==
  \A k \in Conditions : k \in holding ~> (k \notin holding \/ mailed[k] > 0)

=============================================================================
