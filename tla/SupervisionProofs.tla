------------------------- MODULE SupervisionProofs -------------------------
(***************************************************************************)
(* The safety of Supervision for every set of monitored conditions, any    *)
(* number of webhook calls on their way, attempts and crashes.  Two things *)
(* have to be added to the properties: a key that is not claimed has no    *)
(* mail sent or under way, and the newest webhook call on its way, if none *)
(* has overtaken it, tells what the session is now; once a report of the   *)
(* present state has been taken and none is late, the watchdog is right.   *)
(* The second half is the cost monitor, whose alarm is one of the          *)
(* conditions: its loop over any sequence of calls finds the streaks, and  *)
(* the job runs in time to see each of them whole.                         *)
(***************************************************************************)
EXTENDS Supervision, CostMonitor, SequenceTheorems, WellFoundedInduction, TLAPS

\* A mail needs a claim, and a claim gives one mail.
Claimed ==
  \A k \in Keys : k \notin window => mailed[k] = 0 /\ sending[k] = 0

\* The newest call, unless it is late, carries the session's present state, and
\* the watchdog has it when all that are on their way are late; without an
\* address there are no calls, and a process that is down has missed everything.
Routed ==
  /\ Len(posts) > 0 => provisioned
  /\ Len(posts) > overtaken => posts[Len(posts)] = session
  /\ Len(posts) = overtaken /\ ~missed => state = ToConnectionState(session)
  /\ ~up => missed

\* What the alerts are about.
MailInv ==
  /\ sending \in [Keys -> Nat]
  /\ window \subseteq Keys
  /\ mailed \in [Keys -> Nat]
  /\ OneMailPerWindow
  /\ Claimed

\* What the session and its watchdog are about.
SessionInv ==
  /\ session \in SessionStates
  /\ posts \in Seq(SessionStates) /\ Len(posts) <= MaxPosts
  /\ provisioned \in BOOLEAN
  /\ up \in BOOLEAN
  /\ state \in ConnectionStates
  /\ overtaken \in 0 .. Len(posts)
  /\ missed \in BOOLEAN
  /\ Routed

\* The rest of the type invariant.
OtherInv ==
  /\ holding \subseteq Conditions
  /\ alarm \in BOOLEAN
  /\ lastTick \in {"never", "recent", "stale"}
  /\ attempts \in 0 .. MaxAttempts
  /\ told \in BOOLEAN
  /\ crashes \in 0 .. MaxCrashes

IInv == MailInv /\ SessionInv /\ OtherInv

-----------------------------------------------------------------------------
(* Each part depends on few variables only.                                *)

mailVars == <<sending, window, mailed>>
sessionVars == <<session, posts, provisioned, up, state, overtaken, missed>>
otherVars == <<holding, alarm, lastTick, attempts, told, crashes>>

LEMMA MailUnchanged ==
  ASSUME MailInv, UNCHANGED mailVars  PROVE  MailInv'
  BY DEF MailInv, mailVars, OneMailPerWindow, Claimed

LEMMA SessionUnchanged ==
  ASSUME SessionInv, UNCHANGED sessionVars  PROVE  SessionInv'
  BY DEF SessionInv, sessionVars, Routed

LEMMA OtherUnchanged ==
  ASSUME OtherInv, UNCHANGED otherVars  PROVE  OtherInv'
  BY DEF OtherInv, otherVars

\* A claim gives its key one mail to send.
LEMMA DispatchMail ==
  ASSUME MailInv, NEW k \in Keys, Dispatch(k), UNCHANGED mailed
  PROVE  MailInv'
<1>1. CASE k \in window
  BY <1>1, MailUnchanged DEF Dispatch, mailVars
<1>2. CASE k \notin window
  <2>1. /\ sending' = [sending EXCEPT ![k] = @ + 1]
        /\ window' = window \cup {k}
        /\ mailed' = mailed
    BY <1>2 DEF Dispatch
  <2>2. sending \in [Keys -> Nat] /\ mailed \in [Keys -> Nat]
    BY DEF MailInv
  <2>3. sending[k] = 0 /\ mailed[k] = 0
    BY <1>2 DEF MailInv, Claimed
  <2>4. /\ sending' \in [Keys -> Nat] /\ sending'[k] = 1
        /\ \A j \in Keys : j # k => sending'[j] = sending[j]
    BY <2>1, <2>2, <2>3
  <2>5. OneMailPerWindow'
    BY <2>1, <2>2, <2>3, <2>4 DEF MailInv, OneMailPerWindow
  <2>6. Claimed'
    BY <2>1, <2>4 DEF MailInv, Claimed
  <2>7. window' \subseteq Keys /\ mailed' \in [Keys -> Nat]
    BY <2>1, <2>2 DEF MailInv
  <2>. QED
    BY <2>4, <2>5, <2>6, <2>7 DEF MailInv
<1>. QED
  BY <1>1, <1>2

-----------------------------------------------------------------------------
LEMMA InitIInv == Init => IInv
<1>. SUFFICES ASSUME Init  PROVE  IInv
  OBVIOUS
<1>1. MailInv
  BY DEF Init, MailInv, OneMailPerWindow, Claimed
<1>2. SessionInv
  <2>1. posts \in Seq(SessionStates) /\ Len(posts) <= MaxPosts
    BY SupervisionAssumption DEF Init
  <2>2. Routed /\ overtaken \in 0 .. Len(posts)
    BY DEF Init, Routed
  <2>. QED
    BY <2>1, <2>2 DEF Init, SessionInv, ConnectionStates
<1>3. OtherInv
  <2>1. attempts \in 0 .. MaxAttempts /\ crashes \in 0 .. MaxCrashes
    BY SupervisionAssumption DEF Init
  <2>. QED
    BY <2>1 DEF Init, OtherInv
<1>. QED
  BY <1>1, <1>2, <1>3 DEF IInv

-----------------------------------------------------------------------------
(* The alerts.                                                             *)

LEMMA MailSentStep ==
  ASSUME IInv, NEW k \in Keys, MailSent(k)  PROVE  IInv'
<1>1. MailInv'
  BY DEF IInv, MailSent, MailInv, OneMailPerWindow, Claimed
<1>2. SessionInv'
  BY SessionUnchanged DEF IInv, MailSent, sessionVars, world, process, history
<1>3. OtherInv'
  BY DEF IInv, MailSent, OtherInv, world, process
<1>. QED
  BY <1>1, <1>2, <1>3 DEF IInv

LEMMA MailFailsStep ==
  ASSUME IInv, NEW k \in Keys, MailFails(k)  PROVE  IInv'
<1>1. MailInv'
  BY DEF IInv, MailFails, MailInv, OneMailPerWindow, Claimed
<1>2. SessionInv'
  BY SessionUnchanged DEF IInv, MailFails, sessionVars, world, process, history
<1>3. OtherInv'
  BY OtherUnchanged DEF IInv, MailFails, otherVars, world, process
<1>. QED
  BY <1>1, <1>2, <1>3 DEF IInv

LEMMA WindowOverStep ==
  ASSUME IInv, NEW k \in Keys, WindowOver(k)  PROVE  IInv'
<1>1. MailInv'
  BY DEF IInv, WindowOver, MailInv, OneMailPerWindow, Claimed
<1>2. SessionInv'
  BY SessionUnchanged DEF IInv, WindowOver, sessionVars, world, process, history
<1>3. OtherInv'
  BY OtherUnchanged DEF IInv, WindowOver, otherVars, world, process
<1>. QED
  BY <1>1, <1>2, <1>3 DEF IInv

-----------------------------------------------------------------------------
(* The session and the watchdog.                                           *)

\* A call appended to those on their way is the newest one.
LEMMA Posted ==
  ASSUME NEW s \in SessionStates, posts \in Seq(SessionStates), Room,
         posts' = Append(posts, s)
  PROVE  /\ posts' \in Seq(SessionStates)
         /\ Len(posts') <= MaxPosts
         /\ Len(posts') = Len(posts) + 1
         /\ posts'[Len(posts')] = s
  BY SupervisionAssumption DEF Room

\* Of several calls any may arrive or get lost; the others keep their order.
LEMMA Taken ==
  ASSUME posts \in Seq(SessionStates), Len(posts) <= MaxPosts,
         NEW i \in 1 .. Len(posts), posts' = Without(i)
  PROVE  /\ posts' \in Seq(SessionStates)
         /\ Len(posts') = Len(posts) - 1
         /\ Len(posts') <= MaxPosts
         /\ posts[i] \in SessionStates
         /\ i < Len(posts) => posts'[Len(posts')] = posts[Len(posts)]
<1>. DEFINE n == Len(posts)
<1>1. n \in Nat \ {0} /\ MaxPosts \in Nat /\ i \in 1 .. n
  BY SupervisionAssumption
<1>2. posts \in [1 .. n -> SessionStates]
  OBVIOUS
<1>3. posts' = [j \in 1 .. n - 1 |-> posts[IF j < i THEN j ELSE j + 1]]
  BY DEF Without
<1>. HIDE DEF n
<1>4. \A j \in 1 .. n - 1 :
        posts[IF j < i THEN j ELSE j + 1] \in SessionStates
  BY <1>1, <1>2
<1>5. posts' \in [1 .. n - 1 -> SessionStates] /\ n - 1 \in Nat
  BY <1>1, <1>3, <1>4
<1>6. posts' \in Seq(SessionStates) /\ Len(posts') = n - 1
  BY <1>5
<1>7. i < n => posts'[n - 1] = posts[n]
  BY <1>1, <1>3
<1>. QED
  BY <1>1, <1>2, <1>6, <1>7 DEF n

LEMMA SessionChangesStep ==
  ASSUME IInv, NEW s \in SessionStates, SessionChanges(s)  PROVE  IInv'
<1>1. MailInv'
  BY MailUnchanged DEF IInv, SessionChanges, mailVars
<1>2. SessionInv'
  <2>1. /\ session' = s
        /\ UNCHANGED <<provisioned, up, state, overtaken>>
        /\ overtaken \in 0 .. Len(posts) /\ Len(posts) \in Nat
    BY DEF SessionChanges, process, IInv, SessionInv
  <2>2. CASE provisioned
    <3>1. Room /\ posts' = Append(posts, s) /\ UNCHANGED missed
      BY <2>2 DEF SessionChanges
    <3>2. /\ posts' \in Seq(SessionStates) /\ Len(posts') <= MaxPosts
          /\ Len(posts') = Len(posts) + 1 /\ posts'[Len(posts')] = s
      BY <3>1, Posted DEF IInv, SessionInv
    <3>. QED
      BY <2>1, <2>2, <3>1, <3>2 DEF IInv, SessionInv, Routed
  <2>3. CASE ~provisioned
    <3>1. missed' = TRUE /\ UNCHANGED posts
      BY <2>3 DEF SessionChanges
    <3>. QED
      BY <2>1, <2>3, <3>1 DEF IInv, SessionInv, Routed
  <2>. QED
    BY <2>2, <2>3
<1>3. OtherInv'
  <2>1. told' \in BOOLEAN
    BY DEF SessionChanges
  <2>2. UNCHANGED <<holding, alarm, lastTick, attempts, crashes>>
    BY DEF SessionChanges, process
  <2>. QED
    BY <2>1, <2>2 DEF IInv, OtherInv
<1>. QED
  BY <1>1, <1>2, <1>3 DEF IInv

LEMMA ReemitsStep ==
  ASSUME IInv, Reemits  PROVE  IInv'
<1>1. MailInv'
  BY MailUnchanged DEF IInv, Reemits, mailVars, mail
<1>2. SessionInv'
  <2>1. /\ Room /\ posts' = Append(posts, session)
        /\ UNCHANGED <<session, provisioned, up, state, overtaken, missed>>
        /\ provisioned
        /\ overtaken \in 0 .. Len(posts) /\ Len(posts) \in Nat
    BY DEF Reemits, process, history, IInv, SessionInv
  <2>2. /\ posts' \in Seq(SessionStates) /\ Len(posts') <= MaxPosts
        /\ Len(posts') = Len(posts) + 1 /\ posts'[Len(posts')] = session
    BY <2>1, Posted DEF IInv, SessionInv
  <2>. QED
    BY <2>1, <2>2 DEF IInv, SessionInv, Routed
<1>3. OtherInv'
  BY OtherUnchanged DEF IInv, Reemits, otherVars, process, mail
<1>. QED
  BY <1>1, <1>2, <1>3 DEF IInv

LEMMA PostDeliveredStep ==
  ASSUME IInv, NEW i \in 1 .. Len(posts), PostDelivered(i)  PROVE  IInv'
<1>1. MailInv'
  <2>1. UNCHANGED mailed /\ Observe(posts[i])
    BY DEF PostDelivered
  <2>2. CASE Dispatch("session_down")
    BY <2>1, <2>2, DispatchMail DEF IInv, Keys
  <2>3. CASE UNCHANGED <<sending, window>>
    BY <2>1, <2>3, MailUnchanged DEF IInv, mailVars
  <2>. QED
    BY <2>1, <2>2, <2>3 DEF Observe
<1>2. SessionInv'
  <2>1. /\ posts' = Without(i)
        /\ state' = ToConnectionState(posts[i])
        /\ missed' = (i <= overtaken)
        /\ overtaken' = IF i <= overtaken THEN overtaken - 1 ELSE i - 1
        /\ up
        /\ UNCHANGED <<session, provisioned, up>>
    BY DEF PostDelivered, Observe
  <2>2. /\ posts' \in Seq(SessionStates) /\ Len(posts') <= MaxPosts
        /\ Len(posts') = Len(posts) - 1
        /\ posts[i] \in SessionStates
        /\ i < Len(posts) => posts'[Len(posts')] = posts[Len(posts)]
    BY <2>1, Taken DEF IInv, SessionInv
  <2>3. /\ Len(posts) \in Nat /\ Len(posts') \in Nat
        /\ overtaken \in 0 .. Len(posts)
    BY <2>2 DEF IInv, SessionInv
  <2>4. overtaken' \in 0 .. Len(posts') /\ state' \in ConnectionStates
    BY <2>1, <2>2, <2>3
    DEF ToConnectionState, ConnectionStates, SessionStates
  <2>5. Routed'
    <3>1. CASE i = Len(posts)
      BY <2>1, <2>2, <2>3, <3>1 DEF IInv, SessionInv, Routed
    <3>2. CASE i < Len(posts)
      BY <2>1, <2>2, <2>3, <3>2 DEF IInv, SessionInv, Routed
    <3>. QED
      BY <2>3, <3>1, <3>2
  <2>. QED
    BY <2>1, <2>2, <2>4, <2>5 DEF IInv, SessionInv
<1>3. OtherInv'
  BY OtherUnchanged DEF IInv, PostDelivered, otherVars
<1>. QED
  BY <1>1, <1>2, <1>3 DEF IInv

LEMMA PostLostStep ==
  ASSUME IInv, NEW i \in 1 .. Len(posts), PostLost(i)  PROVE  IInv'
<1>1. MailInv'
  BY MailUnchanged DEF IInv, PostLost, mailVars, mail
<1>2. SessionInv'
  <2>1. /\ posts' = Without(i)
        /\ missed' = (missed \/ (i = Len(posts) /\ i > overtaken))
        /\ overtaken' = IF i <= overtaken THEN overtaken - 1
                        ELSE IF i = Len(posts) THEN i - 1
                        ELSE overtaken
        /\ UNCHANGED <<session, provisioned, up, state>>
    BY DEF PostLost, process
  <2>2. /\ posts' \in Seq(SessionStates) /\ Len(posts') <= MaxPosts
        /\ Len(posts') = Len(posts) - 1
        /\ i < Len(posts) => posts'[Len(posts')] = posts[Len(posts)]
    BY <2>1, Taken DEF IInv, SessionInv
  <2>3. /\ Len(posts) \in Nat /\ Len(posts') \in Nat
        /\ overtaken \in 0 .. Len(posts)
    BY <2>2 DEF IInv, SessionInv
  <2>4. overtaken' \in 0 .. Len(posts') /\ missed' \in BOOLEAN
    BY <2>1, <2>2, <2>3 DEF IInv, SessionInv
  <2>5. Routed'
    <3>1. CASE i = Len(posts)
      BY <2>1, <2>2, <2>3, <3>1 DEF IInv, SessionInv, Routed
    <3>2. CASE i < Len(posts)
      BY <2>1, <2>2, <2>3, <3>2 DEF IInv, SessionInv, Routed
    <3>. QED
      BY <2>3, <3>1, <3>2
  <2>. QED
    BY <2>1, <2>2, <2>4, <2>5 DEF IInv, SessionInv
<1>3. OtherInv'
  BY OtherUnchanged DEF IInv, PostLost, otherVars, process, mail
<1>. QED
  BY <1>1, <1>2, <1>3 DEF IInv

LEMMA ProvisionStep ==
  ASSUME IInv, ProvisionEvolutionWebhook \/ ProvisionFails  PROVE  IInv'
<1>0. MaxAttempts \in Nat /\ attempts \in 0 .. MaxAttempts
  BY SupervisionAssumption DEF IInv, OtherInv
<1>1. MailInv'
  BY MailUnchanged
  DEF IInv, ProvisionEvolutionWebhook, ProvisionFails, mailVars, mail
<1>2. SessionInv'
  <2>1. /\ UNCHANGED <<session, posts, up, state, overtaken, missed>>
        /\ provisioned' = TRUE \/ UNCHANGED provisioned
    BY DEF ProvisionEvolutionWebhook, ProvisionFails, world, history
  <2>. QED
    BY <2>1 DEF IInv, SessionInv, Routed
<1>3. OtherInv'
  <2>1. attempts' \in 0 .. MaxAttempts
    BY <1>0 DEF ProvisionEvolutionWebhook, ProvisionFails
  <2>2. UNCHANGED <<holding, alarm, lastTick, told, crashes>>
    BY DEF ProvisionEvolutionWebhook, ProvisionFails, world, mail
  <2>. QED
    BY <2>1, <2>2 DEF IInv, OtherInv
<1>. QED
  BY <1>1, <1>2, <1>3 DEF IInv

-----------------------------------------------------------------------------
(* Jobs, world and crashes.                                                *)

LEMMA RunMonitorStep ==
  ASSUME IInv, NEW k \in Conditions, RunMonitor(k)  PROVE  IInv'
<1>1. MailInv'
  BY DispatchMail DEF IInv, RunMonitor, Keys
<1>2. SessionInv'
  BY SessionUnchanged DEF IInv, RunMonitor, sessionVars, world, process, history
<1>3. OtherInv'
  BY OtherUnchanged DEF IInv, RunMonitor, otherVars, world, process
<1>. QED
  BY <1>1, <1>2, <1>3 DEF IInv

\* Ticks, pings, alarms and conditions touch neither mails nor session.
LEMMA QuietStep ==
  ASSUME IInv,
         \/ TickEnds \/ TicksGoStale \/ PingDeadMansSwitch \/ PingsMissing
         \/ \E k \in Conditions : ConditionChanges(k)
  PROVE  IInv'
<1>. USE DEF TickEnds, TicksGoStale, PingDeadMansSwitch, PingsMissing,
             ConditionChanges, world, process, mail, history
<1>1. MailInv'
  BY MailUnchanged DEF IInv, mailVars
<1>2. SessionInv'
  BY SessionUnchanged DEF IInv, sessionVars
<1>3. OtherInv'
  BY DEF IInv, OtherInv
<1>. QED
  BY <1>1, <1>2, <1>3 DEF IInv

LEMMA CrashStep ==
  ASSUME IInv, Crash  PROVE  IInv'
<1>1. MailInv'
  BY DEF IInv, Crash, MailInv, OneMailPerWindow, Claimed
<1>2. SessionInv'
  <2>1. /\ UNCHANGED <<session, posts, provisioned, overtaken>>
        /\ up' = FALSE /\ state' = "unknown" /\ missed' = TRUE
    BY DEF Crash, world
  <2>. QED
    BY <2>1 DEF IInv, SessionInv, Routed, ConnectionStates
<1>3. OtherInv'
  <2>1. MaxCrashes \in Nat /\ crashes \in 0 .. MaxCrashes
    BY SupervisionAssumption DEF IInv, OtherInv
  <2>2. crashes' \in 0 .. MaxCrashes
    BY <2>1 DEF Crash
  <2>. QED
    BY <2>2 DEF IInv, OtherInv, Crash, world
<1>. QED
  BY <1>1, <1>2, <1>3 DEF IInv

LEMMA BootStep ==
  ASSUME IInv, Boot  PROVE  IInv'
<1>1. MailInv'
  BY MailUnchanged DEF IInv, Boot, mailVars, mail
<1>2. SessionInv'
  <2>1. /\ ~up /\ up' = TRUE
        /\ UNCHANGED <<session, posts, provisioned, state, overtaken, missed>>
    BY DEF Boot, world, history
  <2>. QED
    BY <2>1 DEF IInv, SessionInv, Routed
<1>3. OtherInv'
  <2>1. 0 \in 0 .. MaxAttempts
    BY SupervisionAssumption
  <2>. QED
    BY <2>1 DEF IInv, OtherInv, Boot, world, mail
<1>. QED
  BY <1>1, <1>2, <1>3 DEF IInv

-----------------------------------------------------------------------------
(* The theorems.                                                           *)

LEMMA NextIInv == IInv /\ [Next]_vars => IInv'
<1>. SUFFICES ASSUME IInv, [Next]_vars  PROVE  IInv'
  OBVIOUS
<1>1. CASE \E s \in SessionStates : SessionChanges(s)
  BY <1>1, SessionChangesStep
<1>2. CASE \E k \in Keys : MailSent(k)
  BY <1>2, MailSentStep
<1>3. CASE \E k \in Keys : MailFails(k)
  BY <1>3, MailFailsStep
<1>4. CASE \E k \in Keys : WindowOver(k)
  BY <1>4, WindowOverStep
<1>5. CASE \E k \in Conditions : RunMonitor(k)
  BY <1>5, RunMonitorStep
<1>6. CASE Reemits
  BY <1>6, ReemitsStep
<1>7. CASE \E i \in 1 .. Len(posts) : PostDelivered(i)
  BY <1>7, PostDeliveredStep
<1>8. CASE \E i \in 1 .. Len(posts) : PostLost(i)
  BY <1>8, PostLostStep
<1>9. CASE ProvisionEvolutionWebhook \/ ProvisionFails
  BY <1>9, ProvisionStep
<1>10. CASE \/ TickEnds \/ TicksGoStale \/ PingDeadMansSwitch \/ PingsMissing
            \/ \E k \in Conditions : ConditionChanges(k)
  BY <1>10, QuietStep
<1>11. CASE Crash
  BY <1>11, CrashStep
<1>12. CASE Boot
  BY <1>12, BootStep
<1>13. CASE UNCHANGED vars
  <2>1. UNCHANGED mailVars /\ UNCHANGED sessionVars /\ UNCHANGED otherVars
    BY <1>13
    DEF vars, world, process, mail, history, mailVars, sessionVars, otherVars
  <2>. QED
    BY <2>1, MailUnchanged, SessionUnchanged, OtherUnchanged DEF IInv
<1>. QED
  BY <1>1, <1>2, <1>3, <1>4, <1>5, <1>6, <1>7, <1>8, <1>9, <1>10, <1>11,
     <1>12, <1>13 DEF Next

\* The invariant above holds in every behaviour.
THEOREM SupervisionInvariance == Spec => []IInv
  BY InitIInv, NextIInv, PTL DEF Spec

\* The tables, the watchdog and the counters of alerts keep their types.
THEOREM SupervisionTypeCorrect == Spec => []TypeOK
<1>1. IInv => TypeOK
  BY DEF IInv, MailInv, SessionInv, OtherInv, TypeOK
<1>. QED
  BY <1>1, SupervisionInvariance, PTL

\* At most one mail per alert key and anti-flood window, whatever monitors
\* overlap, sessions flap and processes die (email-alerter.ts, tryClaim).
THEOREM OneMailTheorem == Spec => []OneMailPerWindow
<1>1. IInv => OneMailPerWindow
  BY DEF IInv, MailInv
<1>. QED
  BY <1>1, SupervisionInvariance, PTL

\* With any number of reports under way, in any order, the watchdog is wrong
\* about the session only after a lost or overtaken report or a restart, or
\* when the session is in a state without a name (connection-watchdog.ts).
THEOREM WatchdogTheorem == Spec => []OutdatedOnlyByLoss
<1>1. IInv => OutdatedOnlyByLoss
  <2>. SUFFICES ASSUME SessionInv, up, posts = <<>>, ~missed
                PROVE  \/ state = session
                       \/ session = "other" /\ state = "unknown"
    BY DEF IInv, OutdatedOnlyByLoss
  <2>1. Len(posts) = 0 /\ overtaken = 0
    BY DEF SessionInv
  <2>. QED
    BY <2>1 DEF SessionInv, Routed, ToConnectionState
<1>. QED
  BY <1>1, SupervisionInvariance, PTL

-----------------------------------------------------------------------------
(* The cost monitor: the loop over the calls.                              *)

TurnType == [any : BOOLEAN, last : 0 .. Horizon, zeros : Nat]

\* What the loop makes of row i, from its state before.
Turn(sample, i, before) ==
  IF i \in sample THEN Counted(before, rows[i]) ELSE before

LEMMA LeastNat ==
  ASSUME NEW S, S \subseteq Nat, S # {}
  PROVE  \E x \in S : \A y \in S : x <= y
<1>1. IsWellFoundedOn(OpToRel(<, Nat), Nat)
  BY NatLessThanWellFounded
<1>2. PICK x \in S : \A y \in S : ~(<<y, x>> \in OpToRel(<, Nat))
  BY <1>1, WFMin
<1>3. ASSUME NEW y \in S  PROVE  x <= y
  <2>1. ~(y < x)
    BY <1>2 DEF OpToRel
  <2>. QED
    BY <2>1
<1>. QED
  BY <1>3

\* f solves the recursion of Turns over the first l rows.
Loop(sample, l, f) ==
  f = [i \in 0 .. l |-> IF i = 0 THEN NothingSeen
                        ELSE IF i \in sample THEN Counted(f[i - 1], rows[i])
                        ELSE f[i - 1]]

\* The recursion that defines the loop has a solution for any number of rows.
LEMMA TurnsExist ==
  ASSUME NEW sample, NEW l \in Nat
  PROVE  \E f : Loop(sample, l, f)
<1>. DEFINE Bad == {n \in Nat : ~ \E f : Loop(sample, n, f)}
<1>. SUFFICES ASSUME Bad # {}  PROVE  FALSE
  OBVIOUS
<1>1. PICK n \in Bad : \A m \in Bad : n <= m
  <2>1. Bad \subseteq Nat
    OBVIOUS
  <2>. HIDE DEF Bad
  <2>. QED
    BY <2>1, LeastNat
<1>2. n \in Nat /\ ~ \E f : Loop(sample, n, f)
  OBVIOUS
<1>3. CASE n = 0
  <2>1. Loop(sample, n, [i \in 0 .. 0 |-> NothingSeen])
    BY <1>3 DEF Loop
  <2>. QED
    BY <1>2, <2>1
<1>4. CASE n # 0
  <2>1. n - 1 \in Nat /\ n - 1 < n
    BY <1>2, <1>4
  <2>2. n - 1 \notin Bad
    BY <1>1, <1>2, <2>1
  <2>3. PICK f : Loop(sample, n - 1, f)
    BY <2>1, <2>2
  <2>. DEFINE g == [i \in 0 .. n |-> IF i < n THEN f[i]
                      ELSE IF i \in sample THEN Counted(f[i - 1], rows[i])
                      ELSE f[i - 1]]
  <2>4. \A i \in 0 .. n : g[i] = IF i = 0 THEN NothingSeen
                                 ELSE IF i \in sample
                                   THEN Counted(g[i - 1], rows[i])
                                 ELSE g[i - 1]
    <3>. SUFFICES ASSUME NEW i \in 0 .. n
         PROVE  g[i] = IF i = 0 THEN NothingSeen
                       ELSE IF i \in sample THEN Counted(g[i - 1], rows[i])
                       ELSE g[i - 1]
      OBVIOUS
    <3>1. i # 0 => i - 1 \in 0 .. n /\ i - 1 < n /\ g[i - 1] = f[i - 1]
      BY <1>2
    <3>2. CASE i < n
      <4>1. i \in 0 .. n - 1 /\ g[i] = f[i]
        BY <1>2, <3>2
      <4>. QED
        BY <2>3, <3>1, <4>1 DEF Loop
    <3>3. CASE i = n
      BY <1>2, <1>4, <3>1, <3>3
    <3>. QED
      BY <1>2, <3>2, <3>3
  <2>5. Loop(sample, n, g)
    BY <2>4 DEF Loop
  <2>. QED
    BY <1>2, <2>5
<1>. QED
  BY <1>3, <1>4

\* The loop row by row.
LEMMA TurnsUnfold ==
  ASSUME CostTypeOK, NEW sample
  PROVE  /\ Turns(sample)[0] = NothingSeen
         /\ \A i \in 1 .. Len(rows) :
              Turns(sample)[i] = Turn(sample, i, Turns(sample)[i - 1])
<1>. DEFINE t == Turns(sample)
<1>1. Len(rows) \in Nat
  BY DEF CostTypeOK
<1>2. Loop(sample, Len(rows), t)
  <2>1. \E f : Loop(sample, Len(rows), f)
    BY <1>1, TurnsExist
  <2>2. t = CHOOSE f : Loop(sample, Len(rows), f)
    BY DEF Turns, Loop
  <2>. HIDE DEF t
  <2>. QED
    BY <2>1, <2>2
<1>. HIDE DEF t
<1>3. t[0] = NothingSeen
  BY <1>1, <1>2 DEF Loop
<1>4. ASSUME NEW i \in 1 .. Len(rows)
      PROVE  t[i] = Turn(sample, i, t[i - 1])
  <2>1. i \in 0 .. Len(rows) /\ i # 0
    BY <1>1
  <2>. QED
    BY <1>2, <2>1 DEF Turn, Loop
<1>. QED
  BY <1>3, <1>4 DEF t
LEMMA UpTo ==
  ASSUME NEW l \in Nat, NEW S, 0 \in S, \A i \in 1 .. l : i - 1 \in S => i \in S
  PROVE  \A i \in 0 .. l : i \in S
<1>. DEFINE Bad == (0 .. l) \ S
<1>. SUFFICES ASSUME Bad # {}  PROVE  FALSE
  OBVIOUS
<1>1. Bad \subseteq Nat
  OBVIOUS
<1>2. PICK n \in Bad : \A m \in Bad : n <= m
  BY <1>1, LeastNat
<1>3. n \in 1 .. l /\ n - 1 \in 0 .. l
  BY <1>2
<1>4. n - 1 \in S
  BY <1>2, <1>3
<1>. QED
  BY <1>2, <1>3, <1>4

LEMMA RowTyped ==
  ASSUME CostTypeOK
  PROVE  /\ Len(rows) \in Nat /\ DOMAIN rows = 1 .. Len(rows)
         /\ \A i \in DOMAIN rows : /\ rows[i] \in Usage /\ rows[i].at \in Nat
                                  /\ rows[i].cold \in BOOLEAN
                                  /\ rows[i].haiku \in BOOLEAN
         /\ MaxGap \in Nat /\ Window \in Nat /\ Horizon \in Nat
         /\ Interval \in Nat /\ Threshold \in Nat \ {0}
<1>1. rows \in Seq(Usage)
  BY DEF CostTypeOK
<1>2. \A i \in DOMAIN rows : rows[i] \in Usage
  BY <1>1
<1>. QED
  BY <1>1, <1>2, CostAssumption DEF Usage

\* One turn at a call of Sonnet.
LEMMA CountedFacts ==
  ASSUME CostTypeOK, NEW b \in TurnType, NEW i \in DOMAIN rows
  PROVE  LET a == Counted(b, rows[i])
             apart == b.any /\ rows[i].at > b.last + MaxGap
         IN  /\ a \in TurnType /\ a.any /\ a.last = rows[i].at
             /\ ~rows[i].cold => a.zeros = 0
             /\ rows[i].cold /\ apart => a.zeros = 1
             /\ rows[i].cold /\ ~apart => a.zeros = b.zeros + 1
  BY RowTyped DEF Counted, TurnType, Usage

LEMMA TurnsTyped ==
  ASSUME CostTypeOK, NEW C, C \subseteq DOMAIN rows
  PROVE  \A i \in 0 .. Len(rows) : Turns(C)[i] \in TurnType
<1>. DEFINE S == {i \in 0 .. Len(rows) : Turns(C)[i] \in TurnType}
<1>1. Len(rows) \in Nat /\ Horizon \in Nat
  BY RowTyped
<1>2. 0 \in S
  <2>1. Turns(C)[0] = NothingSeen
    BY TurnsUnfold
  <2>2. NothingSeen \in TurnType
    BY <1>1 DEF TurnType, NothingSeen
  <2>. QED
    BY <1>1, <2>1, <2>2
<1>3. ASSUME NEW i \in 1 .. Len(rows), i - 1 \in S  PROVE  i \in S
  <2>1. Turns(C)[i] = Turn(C, i, Turns(C)[i - 1]) /\ Turns(C)[i - 1] \in TurnType
    BY <1>3, TurnsUnfold
  <2>2. Turns(C)[i] \in TurnType
    BY <2>1, CountedFacts DEF Turn
  <2>. QED
    BY <1>1, <2>2
<1>. HIDE DEF S
<1>4. \A i \in 0 .. Len(rows) : i \in S
  BY <1>1, <1>2, <1>3, UpTo
<1>. QED
  BY <1>4 DEF S

-----------------------------------------------------------------------------
(* Chains of cold calls.                                                   *)

\* p is the last call of C up to row i.
LastIn(C, i, p) == p \in C /\ p <= i /\ \A c \in C : ~(p < c /\ c <= i)

LEMMA ChainOfOne ==
  ASSUME NEW C, NEW i \in C, rows[i].cold
  PROVE  \E s : Chain(C, 1, s) /\ s[1] = i
<1>. DEFINE s == [j \in 1 .. 1 |-> i]
<1>1. Chain(C, 1, s) /\ s[1] = i
  BY DEF Chain
<1>. QED
  BY <1>1

LEMMA ChainExtended ==
  ASSUME NEW C, C \subseteq Nat, NEW n \in Nat \ {0}, NEW s, Chain(C, n, s),
         NEW i \in C, s[n] < i, \A c \in C : ~(s[n] < c /\ c < i),
         rows[i].cold, rows[i].at <= rows[s[n]].at + MaxGap
  PROVE  \E r : Chain(C, n + 1, r) /\ r[n + 1] = i
<1>. DEFINE r == [j \in 1 .. n + 1 |-> IF j <= n THEN s[j] ELSE i]
<1>0. s \in [1 .. n -> C]
  BY DEF Chain
<1>1. /\ s \in [1 .. n -> C]
      /\ \A j \in 1 .. n : s[j] \in C /\ s[j] \in Nat /\ r[j] = s[j]
      /\ r[n + 1] = i /\ i \in Nat
  <2>1. \A j \in 1 .. n : s[j] \in C /\ s[j] \in Nat
    BY <1>0
  <2>2. \A j \in 1 .. n : r[j] = s[j]
    OBVIOUS
  <2>3. r[n + 1] = i /\ i \in Nat
    OBVIOUS
  <2>. QED
    BY <1>0, <2>1, <2>2, <2>3
<1>2. ASSUME NEW j \in 1 .. n  PROVE  s[j] <= s[n]
  <2>1. n \in 1 .. n /\ (j = n \/ j < n)
    OBVIOUS
  <2>2. s[j] \in Nat /\ s[n] \in Nat
    BY <1>1, <2>1
  <2>3. j < n => s[j] < s[n]
    BY <2>1 DEF Chain
  <2>. QED
    BY <2>1, <2>2, <2>3
<1>3. r \in [1 .. n + 1 -> C] /\ \A j \in 1 .. n + 1 : rows[r[j]].cold
  BY <1>1 DEF Chain
<1>. HIDE DEF r
<1>4. ASSUME NEW j \in 1 .. n + 1, NEW k \in 1 .. n + 1, j < k
      PROVE  r[j] < r[k]
  <2>1. CASE k \in 1 .. n
    BY <1>1, <1>4, <2>1, SMTT(40) DEF Chain
  <2>2. CASE k = n + 1
    <3>1. j \in 1 .. n
      BY <1>4, <2>2
    <3>. QED
      BY <1>1, <1>2, <2>2, <3>1
  <2>. QED
    BY <2>1, <2>2
<1>5. ASSUME NEW j \in 1 .. (n + 1) - 1
      PROVE  /\ \A c \in C : ~(r[j] < c /\ c < r[j + 1])
             /\ rows[r[j + 1]].at <= rows[r[j]].at + MaxGap
  <2>1. CASE j \in 1 .. n - 1
    <3>1. j \in 1 .. n /\ j + 1 \in 1 .. n
      BY <2>1
    <3>. QED
      BY <1>1, <2>1, <3>1 DEF Chain
  <2>2. CASE j = n
    <3>1. r[j] = s[n]
      <4>1. n \in 1 .. n
        OBVIOUS
      <4>. QED
        BY <1>1, <2>2, <4>1
    <3>2. r[j + 1] = i
      BY <1>1, <2>2
    <3>. QED
      BY <3>1, <3>2
  <2>. QED
    BY <2>1, <2>2
<1>6. Chain(C, n + 1, r)
  BY <1>3, <1>4, <1>5 DEF Chain
<1>. QED
  BY <1>1, <1>6

\* The last m calls of a chain, and all but its last, are chains.
LEMMA ChainTail ==
  ASSUME NEW C, NEW n \in Nat \ {0}, NEW s, Chain(C, n, s), NEW m \in 1 .. n
  PROVE  \E r : Chain(C, m, r)
<1>. DEFINE r == [j \in 1 .. m |-> s[n - m + j]]
<1>1. \A j \in 1 .. m : n - m + j \in 1 .. n /\ r[j] = s[n - m + j]
  OBVIOUS
<1>2. s \in [1 .. n -> C]
  BY DEF Chain
<1>3. r \in [1 .. m -> C] /\ \A j \in 1 .. m : rows[r[j]].cold
  BY <1>1, <1>2 DEF Chain
<1>. HIDE DEF r
<1>4. \A j, k \in 1 .. m : j < k => r[j] < r[k]
  BY <1>1 DEF Chain
<1>5. ASSUME NEW j \in 1 .. m - 1
      PROVE  /\ \A c \in C : ~(r[j] < c /\ c < r[j + 1])
             /\ rows[r[j + 1]].at <= rows[r[j]].at + MaxGap
  <2>1. j \in 1 .. m /\ j + 1 \in 1 .. m /\ n - m + j \in 1 .. n - 1
        /\ n - m + (j + 1) = (n - m + j) + 1
    OBVIOUS
  <2>2. r[j] = s[n - m + j] /\ r[j + 1] = s[(n - m + j) + 1]
    BY <1>1, <2>1
  <2>. QED
    BY <2>1, <2>2 DEF Chain
<1>6. Chain(C, m, r)
  BY <1>3, <1>4, <1>5 DEF Chain
<1>. QED
  BY <1>6

LEMMA ChainCut ==
  ASSUME NEW C, NEW n \in Nat, n > 1, NEW s, Chain(C, n, s)
  PROVE  \E r : Chain(C, n - 1, r) /\ r[n - 1] = s[n - 1]
<1>. DEFINE r == [j \in 1 .. n - 1 |-> s[j]]
<1>1. s \in [1 .. n -> C] /\ \A j \in 1 .. n - 1 : j \in 1 .. n /\ r[j] = s[j]
  BY DEF Chain
<1>2. r \in [1 .. n - 1 -> C]
  BY <1>1
<1>. HIDE DEF r
<1>3. /\ \A j \in 1 .. n - 1 : rows[r[j]].cold
      /\ \A j, k \in 1 .. n - 1 : j < k => r[j] < r[k]
  BY <1>1 DEF Chain
<1>4. ASSUME NEW j \in 1 .. (n - 1) - 1
      PROVE  /\ \A c \in C : ~(r[j] < c /\ c < r[j + 1])
             /\ rows[r[j + 1]].at <= rows[r[j]].at + MaxGap
  <2>1. j \in 1 .. n - 1 /\ j + 1 \in 1 .. n - 1
    OBVIOUS
  <2>2. r[j] = s[j] /\ r[j + 1] = s[j + 1]
    BY <1>1, <2>1
  <2>. QED
    BY <2>1, <2>2 DEF Chain
<1>5. Chain(C, n - 1, r) /\ r[n - 1] = s[n - 1]
  BY <1>1, <1>2, <1>3, <1>4 DEF Chain
<1>. QED
  BY <1>5
-----------------------------------------------------------------------------
(* What the counter of the loop stands for.                                *)

\* After row i, b knows the last call passed, and its counter is the length
\* of a chain that ends there, as long as any.
LoopInv(C, i, b) ==
  /\ ~b.any => b.zeros = 0 /\ \A c \in C : ~(c <= i)
  /\ b.any => \E p : /\ LastIn(C, i, p) /\ b.last = rows[p].at
                     /\ b.zeros > 0 => \E s : /\ Chain(C, b.zeros, s)
                                             /\ s[b.zeros] = p
  /\ \A n \in Nat \ {0} : \A s :
       Chain(C, n, s) /\ LastIn(C, i, s[n]) => n <= b.zeros

\* A row that is passed over.
LEMMA LoopSkips ==
  ASSUME CostTypeOK, NEW C, C \subseteq DOMAIN rows, NEW i \in DOMAIN rows,
         i \notin C, NEW b, LoopInv(C, i - 1, b)
  PROVE  LoopInv(C, i, b)
<1>1. i \in Nat /\ C \subseteq Nat
  BY RowTyped
<1>2. \A c \in C : c <= i <=> c <= i - 1
  BY <1>1
<1>3. \A p : LastIn(C, i, p) <=> LastIn(C, i - 1, p)
  BY <1>2 DEF LastIn
<1>. QED
  BY <1>2, <1>3 DEF LoopInv

\* A call of Sonnet.
LEMMA LoopCounts ==
  ASSUME CostTypeOK, NEW C, C \subseteq DOMAIN rows, NEW i \in C,
         NEW b \in TurnType, LoopInv(C, i - 1, b)
  PROVE  LoopInv(C, i, Counted(b, rows[i]))
<1>. DEFINE a == Counted(b, rows[i])
            apart == b.any /\ rows[i].at > b.last + MaxGap
<1>1. i \in Nat /\ C \subseteq Nat /\ i \in DOMAIN rows
  BY RowTyped
<1>2. /\ a \in TurnType /\ a.any /\ a.last = rows[i].at
      /\ ~rows[i].cold => a.zeros = 0
      /\ rows[i].cold /\ apart => a.zeros = 1
      /\ rows[i].cold /\ ~apart => a.zeros = b.zeros + 1
  BY <1>1, CountedFacts
<1>3. b.zeros \in Nat /\ b.last \in Nat /\ a.zeros \in Nat /\ MaxGap \in Nat
      /\ \A c \in C : rows[c].at \in Nat
  BY <1>2, RowTyped DEF TurnType
<1>. HIDE DEF a
<1>4. LastIn(C, i, i) /\ \A p : LastIn(C, i, p) => p = i
  BY <1>1 DEF LastIn
<1>5. ASSUME a.zeros > 0  PROVE  \E s : Chain(C, a.zeros, s) /\ s[a.zeros] = i
  <2>1. rows[i].cold
    BY <1>2, <1>5
  <2>2. CASE a.zeros = 1
    BY <2>1, <2>2, ChainOfOne
  <2>3. CASE a.zeros # 1
    <3>1. ~apart /\ a.zeros = b.zeros + 1 /\ b.zeros \in Nat \ {0}
      BY <1>2, <1>3, <1>5, <2>1, <2>3
    <3>2. b.any
      BY <3>1 DEF LoopInv
    <3>3. PICK p : /\ LastIn(C, i - 1, p) /\ b.last = rows[p].at
                   /\ \E s : Chain(C, b.zeros, s) /\ s[b.zeros] = p
      BY <1>3, <3>1, <3>2 DEF LoopInv
    <3>4. PICK s : Chain(C, b.zeros, s) /\ s[b.zeros] = p
      BY <3>3
    <3>5. p \in C /\ p < i /\ \A c \in C : ~(p < c /\ c < i)
      BY <1>1, <3>3 DEF LastIn
    <3>6. rows[i].at <= rows[p].at + MaxGap
      BY <1>3, <3>1, <3>2, <3>3, <3>5
    <3>7. \E r : Chain(C, b.zeros + 1, r) /\ r[b.zeros + 1] = i
      BY <1>1, <2>1, <3>1, <3>4, <3>5, <3>6, ChainExtended
    <3>. QED
      BY <3>1, <3>7
  <2>. QED
    BY <2>2, <2>3
<1>6. ASSUME NEW n \in Nat \ {0}, NEW s, Chain(C, n, s), s[n] = i
      PROVE  n <= a.zeros
  <2>1. rows[i].cold
    <3>1. n \in 1 .. n
      OBVIOUS
    <3>. QED
      BY <1>6, <3>1 DEF Chain
  <2>2. CASE n = 1
    BY <1>2, <1>3, <2>1, <2>2
  <2>3. CASE n # 1
    <3>1. n > 1 /\ n - 1 \in Nat \ {0} /\ n - 1 \in 1 .. n - 1
          /\ n - 1 \in 1 .. n /\ n \in 1 .. n /\ n - 1 < n /\ (n - 1) + 1 = n
      BY <2>3
    <3>. DEFINE p == s[n - 1]
    <3>2. PICK r : Chain(C, n - 1, r) /\ r[n - 1] = p
      BY <1>6, <3>1, ChainCut
    <3>3. /\ p \in C /\ p < i /\ \A c \in C : ~(p < c /\ c < i)
          /\ rows[i].at <= rows[p].at + MaxGap
      <4>1. /\ s \in [1 .. n -> C]
            /\ \A j, k \in 1 .. n : j < k => s[j] < s[k]
            /\ \A j \in 1 .. n - 1 :
                 /\ \A c \in C : ~(s[j] < c /\ c < s[j + 1])
                 /\ rows[s[j + 1]].at <= rows[s[j]].at + MaxGap
        BY <1>6 DEF Chain
      <4>2. p \in C /\ p < s[n]
        BY <3>1, <4>1
      <4>3. /\ \A c \in C : ~(s[n - 1] < c /\ c < s[(n - 1) + 1])
            /\ rows[s[(n - 1) + 1]].at <= rows[s[n - 1]].at + MaxGap
        BY <3>1, <4>1
      <4>. QED
        BY <1>6, <3>1, <4>2, <4>3
    <3>. HIDE DEF p
    <3>4. LastIn(C, i - 1, p)
      BY <1>1, <3>3 DEF LastIn
    <3>5. n - 1 <= b.zeros
      BY <3>1, <3>2, <3>4 DEF LoopInv
    <3>6. b.any
      BY <1>3, <3>1, <3>5 DEF LoopInv
    <3>7. PICK q : LastIn(C, i - 1, q) /\ b.last = rows[q].at
      BY <3>6 DEF LoopInv
    <3>8. q = p
      BY <1>1, <3>4, <3>7 DEF LastIn
    <3>9. ~apart
      BY <1>1, <1>3, <3>3, <3>7, <3>8
    <3>. QED
      BY <1>2, <1>3, <2>1, <3>1, <3>5, <3>9
  <2>. QED
    BY <2>2, <2>3
<1>7. LoopInv(C, i, a)
  BY <1>2, <1>4, <1>5, <1>6 DEF LoopInv
<1>. QED
  BY <1>7 DEF a

LEMMA LoopInvariant ==
  ASSUME CostTypeOK, NEW C, C \subseteq DOMAIN rows
  PROVE  \A i \in 0 .. Len(rows) : LoopInv(C, i, Turns(C)[i])
<1>. DEFINE S == {i \in 0 .. Len(rows) : LoopInv(C, i, Turns(C)[i])}
<1>1. Len(rows) \in Nat /\ DOMAIN rows = 1 .. Len(rows)
  BY RowTyped
<1>2. 0 \in S
  <2>1. Turns(C)[0] = NothingSeen /\ \A c \in C : ~(c <= 0)
    BY <1>1, TurnsUnfold
  <2>2. \A p : ~LastIn(C, 0, p)
    BY <2>1 DEF LastIn
  <2>3. LoopInv(C, 0, NothingSeen)
    BY <2>1, <2>2 DEF LoopInv, NothingSeen
  <2>. QED
    BY <1>1, <2>1, <2>3
<1>3. ASSUME NEW i \in 1 .. Len(rows), i - 1 \in S  PROVE  i \in S
  <2>. DEFINE b == Turns(C)[i - 1]
  <2>1. i - 1 \in 0 .. Len(rows) /\ LoopInv(C, i - 1, b)
    BY <1>3
  <2>2. b \in TurnType
    BY <2>1, TurnsTyped
  <2>3. Turns(C)[i] = Turn(C, i, b)
    BY TurnsUnfold
  <2>. HIDE DEF b
  <2>4. LoopInv(C, i, Turns(C)[i])
    <3>1. CASE i \in C
      BY <1>1, <2>1, <2>2, <2>3, <3>1, LoopCounts DEF Turn
    <3>2. CASE i \notin C
      BY <1>1, <2>1, <2>3, <3>2, LoopSkips DEF Turn
    <3>. QED
      BY <3>1, <3>2
  <2>. QED
    BY <1>1, <2>4
<1>. HIDE DEF S
<1>4. \A i \in 0 .. Len(rows) : i \in S
  BY <1>1, <1>2, <1>3, UpTo
<1>. QED
  BY <1>4 DEF S
-----------------------------------------------------------------------------
(* The cost monitor: the invariant.                                        *)

\* Ids and clock agree.
RowsOrdered ==
  /\ \A i \in DOMAIN rows : rows[i].at <= now
  /\ \A i, j \in DOMAIN rows : i < j => rows[i].at <= rows[j].at

RaisedForStreaks ==
  \A a \in alarms : \E s \in Streaks : Ended(s) <= a /\ Began(s) + Window >= a

\* A streak has raised its alarm, or the run that will is still to come.
StreaksRaise ==
  \A s \in Streaks :
    \/ nextRun <= Ended(s) + Interval
    \/ \E a \in alarms : Ended(s) <= a /\ a <= Ended(s) + Interval

CostIInv ==
  /\ CostTypeOK
  /\ RowsOrdered
  /\ now <= nextRun /\ nextRun <= now + Interval
  /\ RaisedForStreaks
  /\ StreaksRaise

\* The calls of Sonnet that a run looks at.
Looked == OfSonnet(FindUsageSince(now))

LEMMA LookedAt ==
  Looked = {i \in Sonnets : rows[i].at + Window >= now}
  BY DEF Looked, OfSonnet, FindUsageSince, Sonnets

LEMMA StreakFacts ==
  ASSUME CostTypeOK, NEW s \in Streaks
  PROVE  /\ \A j \in 1 .. Threshold : /\ s[j] \in Sonnets /\ s[j] \in DOMAIN rows
                                      /\ s[j] \in Nat /\ rows[s[j]].at \in Nat
         /\ 1 \in 1 .. Threshold /\ Threshold \in 1 .. Threshold
         /\ Began(s) \in Nat /\ Ended(s) \in Nat
<1>1. s \in [1 .. Threshold -> Sonnets]
  BY DEF Streaks
<1>2. 1 \in 1 .. Threshold /\ Threshold \in 1 .. Threshold
  BY RowTyped
<1>3. \A j \in 1 .. Threshold : s[j] \in Sonnets
  BY <1>1
<1>4. \A i \in Sonnets : i \in DOMAIN rows /\ i \in Nat /\ rows[i].at \in Nat
  BY RowTyped DEF Sonnets
<1>. QED
  BY <1>2, <1>3, <1>4 DEF Began, Ended

\* A streak lasts at most Threshold - 1 gaps.
LEMMA StreakLasts ==
  ASSUME CostTypeOK, NEW s \in Streaks
  PROVE  Ended(s) <= Began(s) + (Threshold - 1) * MaxGap
<1>. DEFINE at(j) == rows[s[j]].at
            S == {j \in 0 .. Threshold : j > 0 => at(j) <= at(1) + (j - 1) * MaxGap}
<1>1. Threshold \in Nat \ {0} /\ MaxGap \in Nat
  BY RowTyped
<1>2. \A j \in 1 .. Threshold : at(j) \in Nat
  BY StreakFacts
<1>3. 0 \in S
  BY <1>1
<1>4. ASSUME NEW j \in 1 .. Threshold, j - 1 \in S  PROVE  j \in S
  <2>1. CASE j = 1
    <3>1. at(1) <= at(1) + 0 * MaxGap
      BY <1>1, <1>2
    <3>. QED
      BY <1>1, <2>1, <3>1
  <2>2. CASE j > 1
    <3>1. j - 1 \in 1 .. Threshold - 1 /\ (j - 1) + 1 = j /\ j - 1 \in 1 .. Threshold
          /\ 1 \in 1 .. Threshold
      BY <1>1, <2>2
    <3>2. at(j) <= at(j - 1) + MaxGap
      <4>1. \A k \in 1 .. Threshold - 1 :
              rows[s[k + 1]].at <= rows[s[k]].at + MaxGap
        BY DEF Streaks, Chain
      <4>2. rows[s[(j - 1) + 1]].at <= rows[s[j - 1]].at + MaxGap
        BY <3>1, <4>1
      <4>. QED
        BY <3>1, <4>2
    <3>3. at(j - 1) <= at(1) + ((j - 1) - 1) * MaxGap
      BY <1>4, <3>1
    <3>4. at(j) \in Nat /\ at(j - 1) \in Nat /\ at(1) \in Nat
      BY <1>2, <3>1
    <3>. HIDE DEF at
    <3>5. ((j - 1) - 1) * MaxGap + MaxGap = (j - 1) * MaxGap
      BY <1>1
    <3>6. ((j - 1) - 1) * MaxGap \in Int /\ (j - 1) * MaxGap \in Int
      BY <1>1
    <3>7. at(j) <= at(1) + (j - 1) * MaxGap
      BY <1>1, <3>2, <3>3, <3>4, <3>5, <3>6
    <3>. QED
      BY <1>1, <3>7
  <2>. QED
    BY <1>1, <2>1, <2>2
<1>. HIDE DEF S
<1>5. Threshold \in S
  BY <1>1, <1>3, <1>4, UpTo
<1>. QED
  BY <1>1, <1>5 DEF S, Began, Ended

\* The loop over the window finds a regression exactly if a streak lies in it.
LEMMA DetectsStreaks ==
  ASSUME CostTypeOK, RowsOrdered
  PROVE  DetectCacheRegression(FindUsageSince(now)) <=>
           \E s \in Streaks : Began(s) + Window >= now
<1>. DEFINE C == Looked
            T == Threshold
<1>1. /\ C \subseteq Sonnets /\ C \subseteq DOMAIN rows /\ C \subseteq Nat
      /\ Sonnets \subseteq Nat
      /\ \A c \in C : rows[c].at + Window >= now
      /\ \A i \in Sonnets, c \in C : c < i => i \in C
  <2>1. C = {i \in Sonnets : rows[i].at + Window >= now}
    BY LookedAt
  <2>2. Sonnets \subseteq DOMAIN rows
    BY DEF Sonnets
  <2>3. now \in Nat
    BY RowTyped DEF CostTypeOK
  <2>. HIDE DEF C
  <2>. QED
    BY <2>1, <2>2, <2>3, RowTyped, SMTT(40) DEF RowsOrdered
<1>2. DetectCacheRegression(FindUsageSince(now)) <=>
        \E i \in 0 .. Len(rows) : Turns(C)[i].zeros >= T
  BY DEF DetectCacheRegression, Looked
<1>3. \A i \in 0 .. Len(rows) :
        Turns(C)[i] \in TurnType /\ LoopInv(C, i, Turns(C)[i])
  BY <1>1, TurnsTyped, LoopInvariant
<1>4. T \in Nat \ {0}
  BY RowTyped
<1>. HIDE DEF C
<1>5. ASSUME NEW i \in 0 .. Len(rows), Turns(C)[i].zeros >= T
      PROVE  \E s \in Streaks : Began(s) + Window >= now
  <2>. DEFINE n == Turns(C)[i].zeros
  <2>1. n \in Nat \ {0} /\ T \in 1 .. n
    BY <1>3, <1>4, <1>5 DEF TurnType
  <2>2. \E s : Chain(C, n, s)
    BY <1>3, <2>1 DEF LoopInv
  <2>. HIDE DEF n
  <2>3. PICK r : Chain(C, T, r)
    BY <2>1, <2>2, ChainTail
  <2>4. r \in [1 .. T -> C] /\ \A j \in 1 .. T : r[j] \in C
    BY <2>3 DEF Chain
  <2>5. r \in [1 .. T -> Sonnets]
    BY <1>1, <2>4
  <2>6. ASSUME NEW j \in 1 .. T - 1, NEW c \in Sonnets, r[j] < c, c < r[j + 1]
        PROVE  FALSE
    <3>1. j \in 1 .. T
      BY <1>4
    <3>2. c \in C
      BY <1>1, <2>4, <2>6, <3>1
    <3>. QED
      BY <2>3, <2>6, <3>2 DEF Chain
  <2>7. Chain(Sonnets, T, r)
    BY <2>3, <2>5, <2>6 DEF Chain
  <2>8. r \in Streaks
    BY <2>5, <2>7 DEF Streaks
  <2>9. Began(r) + Window >= now
    BY <1>1, <1>4, <2>4 DEF Began
  <2>. QED
    BY <2>8, <2>9
<1>6. ASSUME NEW s \in Streaks, Began(s) + Window >= now
      PROVE  \E i \in 0 .. Len(rows) : Turns(C)[i].zeros >= T
  <2>1. /\ Chain(Sonnets, T, s) /\ s \in [1 .. T -> Sonnets]
        /\ 1 \in 1 .. T /\ T \in 1 .. T
    BY <1>4 DEF Streaks
  <2>2. s[1] \in C
    BY <1>6, <2>1, LookedAt DEF Began, C
  <2>3. ASSUME NEW j \in 1 .. T  PROVE  s[j] \in C
    <3>1. s[j] \in Sonnets /\ (j = 1 \/ s[1] < s[j])
      BY <2>1 DEF Chain
    <3>. QED
      BY <1>1, <2>2, <3>1
  <2>4. s \in [1 .. T -> C]
    BY <2>1, <2>3
  <2>5. Chain(C, T, s)
    BY <1>1, <2>1, <2>4 DEF Chain
  <2>6. s[T] \in C /\ s[T] \in 0 .. Len(rows)
    BY <1>1, <2>1, <2>3, RowTyped
  <2>7. LastIn(C, s[T], s[T])
    BY <1>1, <2>6 DEF LastIn
  <2>8. T <= Turns(C)[s[T]].zeros
    BY <1>3, <1>4, <2>5, <2>6, <2>7 DEF LoopInv
  <2>9. Turns(C)[s[T]].zeros >= T
    BY <1>3, <1>4, <2>6, <2>8 DEF TurnType
  <2>. QED
    BY <2>6, <2>9
<1>. QED
  BY <1>2, <1>5, <1>6
LEMMA RecordLlmUsageStep == ASSUME CostIInv, RecordLlmUsage  PROVE  CostIInv'
<1>. DEFINE l == Len(rows)
            T == Threshold
<1>1. CostTypeOK /\ l \in Nat /\ DOMAIN rows = 1 .. l /\ T \in Nat \ {0}
      /\ now \in Nat /\ nextRun \in Nat /\ Interval \in Nat
  BY RowTyped DEF CostIInv, CostTypeOK
<1>2. PICK haiku \in BOOLEAN, cold \in BOOLEAN :
        rows' = Append(rows, [haiku |-> haiku, cold |-> cold, at |-> now])
  BY DEF RecordLlmUsage
<1>3. UNCHANGED <<now, nextRun, alarms>>
  BY DEF RecordLlmUsage
<1>4. /\ rows' \in Seq(Usage) /\ DOMAIN rows' = 1 .. l + 1
      /\ \A i \in DOMAIN rows : rows'[i] = rows[i]
      /\ rows'[l + 1].at = now
  <2>1. rows \in Seq(Usage)
        /\ [haiku |-> haiku, cold |-> cold, at |-> now] \in Usage
    BY <1>1 DEF CostTypeOK, Usage
  <2>. QED
    BY <1>2, <2>1
<1>5. CostTypeOK'
  BY <1>1, <1>3, <1>4 DEF CostTypeOK
<1>6. RowsOrdered'
  <2>1. \A i \in DOMAIN rows : rows'[i].at = rows[i].at /\ rows[i].at <= now
    BY <1>4 DEF CostIInv, RowsOrdered
  <2>2. \A i \in DOMAIN rows' : i \in DOMAIN rows \/ i = l + 1
    BY <1>1, <1>4
  <2>3. \A i \in DOMAIN rows' : rows'[i].at <= now
    BY <1>1, <1>4, <2>1, <2>2
  <2>4. ASSUME NEW i \in DOMAIN rows', NEW j \in DOMAIN rows', i < j
        PROVE  rows'[i].at <= rows'[j].at
    <3>1. i \in DOMAIN rows
      BY <1>1, <1>4, <2>2, <2>4
    <3>2. CASE j \in DOMAIN rows
      BY <2>1, <2>4, <3>1, <3>2 DEF CostIInv, RowsOrdered
    <3>3. CASE j = l + 1
      BY <1>4, <2>1, <3>1, <3>3
    <3>. QED
      BY <2>2, <3>2, <3>3
  <2>. QED
    BY <1>3, <2>3, <2>4 DEF RowsOrdered
<1>7. /\ Sonnets \subseteq Sonnets' /\ Sonnets \subseteq DOMAIN rows
      /\ \A i \in Sonnets' : i \in Sonnets \/ i = l + 1
  BY <1>1, <1>4 DEF Sonnets
<1>8. ASSUME NEW s \in Streaks
      PROVE  s \in Streaks' /\ Began(s)' = Began(s) /\ Ended(s)' = Ended(s)
  <2>1. /\ s \in [1 .. T -> Sonnets] /\ Chain(Sonnets, T, s)
        /\ \A j \in 1 .. T : s[j] \in DOMAIN rows /\ rows'[s[j]] = rows[s[j]]
        /\ 1 \in 1 .. T /\ T \in 1 .. T
    BY <1>1, <1>4, StreakFacts DEF Streaks
  <2>2. s \in [1 .. T -> Sonnets']
    BY <1>7, <2>1
  <2>3. \A j \in 1 .. T : rows'[s[j]].cold
    BY <2>1 DEF Chain
  <2>4. ASSUME NEW j \in 1 .. T - 1
        PROVE  /\ \A c \in Sonnets' : ~(s[j] < c /\ c < s[j + 1])
               /\ rows'[s[j + 1]].at <= rows'[s[j]].at + MaxGap
    <3>1. j \in 1 .. T /\ j + 1 \in 1 .. T
      BY <1>1
    <3>2. s[j + 1] \in 1 .. l
      BY <1>1, <2>1, <3>1
    <3>3. \A c \in Sonnets : ~(s[j] < c /\ c < s[j + 1])
      BY <2>1 DEF Chain
    <3>4. ~(l + 1 < s[j + 1])
      BY <1>1, <3>2
    <3>. QED
      BY <1>7, <2>1, <3>1, <3>3, <3>4 DEF Chain
  <2>5. \A j, k \in 1 .. T : j < k => s[j] < s[k]
    BY <2>1 DEF Chain
  <2>6. Chain(Sonnets, T, s)'
    BY <2>2, <2>3, <2>4, <2>5 DEF Chain
  <2>. QED
    BY <2>1, <2>2, <2>6 DEF Streaks, Began, Ended
<1>9. RaisedForStreaks'
  BY <1>3, <1>8 DEF CostIInv, RaisedForStreaks
<1>10. StreaksRaise'
  <2>. SUFFICES ASSUME NEW s \in Streaks'
       PROVE  \/ nextRun <= Ended(s)' + Interval
              \/ \E a \in alarms : Ended(s)' <= a /\ a <= Ended(s)' + Interval
    BY <1>3 DEF StreaksRaise
  <2>1. /\ s \in [1 .. T -> Sonnets'] /\ Chain(Sonnets, T, s)'
        /\ 1 \in 1 .. T /\ T \in 1 .. T
    BY <1>1 DEF Streaks
  <2>2. CASE s[T] = l + 1
    <3>1. Ended(s)' = now
      BY <1>4, <2>2 DEF Ended
    <3>. QED
      BY <3>1 DEF CostIInv
  <2>3. CASE s[T] # l + 1
    <3>1. s[T] \in Sonnets /\ s[T] \in 1 .. l
      BY <1>1, <1>7, <2>1, <2>3
    <3>2. ASSUME NEW j \in 1 .. T  PROVE  s[j] \in Sonnets
      <4>1. s[j] \in Sonnets' /\ (j = T \/ s[j] < s[T])
        BY <1>1, <2>1 DEF Chain
      <4>. QED
        BY <1>1, <1>7, <3>1, <4>1
    <3>3. s \in [1 .. T -> Sonnets]
      BY <2>1, <3>2
    <3>4. \A j \in 1 .. T : rows'[s[j]] = rows[s[j]]
      BY <1>4, <1>7, <3>2
    <3>5. Chain(Sonnets, T, s)
      <4>1. \A j \in 1 .. T : rows[s[j]].cold
        BY <2>1, <3>4 DEF Chain
      <4>2. \A j, k \in 1 .. T : j < k => s[j] < s[k]
        BY <2>1 DEF Chain
      <4>3. ASSUME NEW j \in 1 .. T - 1
            PROVE  /\ \A c \in Sonnets : ~(s[j] < c /\ c < s[j + 1])
                   /\ rows[s[j + 1]].at <= rows[s[j]].at + MaxGap
        <5>1. j \in 1 .. T /\ j + 1 \in 1 .. T
          BY <1>1
        <5>2. /\ \A c \in Sonnets' : ~(s[j] < c /\ c < s[j + 1])
              /\ rows'[s[j + 1]].at <= rows'[s[j]].at + MaxGap
          BY <2>1 DEF Chain
        <5>. QED
          BY <1>7, <3>4, <5>1, <5>2
      <4>. QED
        BY <3>3, <4>1, <4>2, <4>3 DEF Chain
    <3>6. s \in Streaks
      BY <3>3, <3>5 DEF Streaks
    <3>. QED
      BY <1>8, <3>6 DEF CostIInv, StreaksRaise
  <2>. QED
    BY <2>2, <2>3
<1>. QED
  BY <1>3, <1>5, <1>6, <1>9, <1>10 DEF CostIInv

LEMMA RunCostMonitorStep == ASSUME CostIInv, RunCostMonitor  PROVE  CostIInv'
<1>1. CostTypeOK /\ RowsOrdered /\ now \in 0 .. Horizon /\ Interval \in Nat
      /\ Window \in Nat
  BY RowTyped DEF CostIInv, CostTypeOK
<1>2. /\ now = nextRun /\ nextRun' = now + Interval /\ UNCHANGED <<now, rows>>
      /\ alarms' = IF DetectCacheRegression(FindUsageSince(now))
                   THEN alarms \cup {now} ELSE alarms
  BY DEF RunCostMonitor
<1>3. Streaks' = Streaks /\ \A s : Began(s)' = Began(s) /\ Ended(s)' = Ended(s)
  BY <1>2 DEF Streaks, Sonnets, Chain, Began, Ended
<1>4. CostTypeOK'
  BY <1>1, <1>2 DEF CostTypeOK
<1>5. RowsOrdered'
  BY <1>1, <1>2 DEF RowsOrdered
<1>6. \A s \in Streaks : Ended(s) <= now
  BY <1>1, StreakFacts DEF RowsOrdered, Ended
<1>7. RaisedForStreaks'
  <2>. SUFFICES ASSUME NEW a \in alarms'
       PROVE  \E s \in Streaks : Ended(s) <= a /\ Began(s) + Window >= a
    BY <1>3 DEF RaisedForStreaks
  <2>1. CASE a \in alarms
    BY <2>1 DEF CostIInv, RaisedForStreaks
  <2>2. CASE a \notin alarms
    <3>1. a = now /\ DetectCacheRegression(FindUsageSince(now))
      BY <1>2, <2>2
    <3>. QED
      BY <1>1, <1>6, <3>1, DetectsStreaks
  <2>. QED
    BY <2>1, <2>2
<1>8. StreaksRaise'
  <2>. SUFFICES ASSUME NEW s \in Streaks
       PROVE  \/ nextRun' <= Ended(s) + Interval
              \/ \E a \in alarms' : Ended(s) <= a /\ a <= Ended(s) + Interval
    BY <1>3 DEF StreaksRaise
  <2>1. CASE \E a \in alarms : Ended(s) <= a /\ a <= Ended(s) + Interval
    BY <1>2, <2>1
  <2>2. CASE nextRun <= Ended(s) + Interval
    <3>. DEFINE g == (Threshold - 1) * MaxGap
    <3>1. Began(s) \in Nat /\ Ended(s) \in Nat
      BY <1>1, StreakFacts
    <3>2. g \in Int
      BY RowTyped, <1>1
    <3>3. Ended(s) <= Began(s) + g /\ Window >= Interval + g
      BY <1>1, StreakLasts, CostAssumption
    <3>. HIDE DEF g
    <3>4. Began(s) + Window >= now
      BY <1>1, <1>2, <2>2, <3>1, <3>2, <3>3
    <3>5. DetectCacheRegression(FindUsageSince(now))
      BY <1>1, <3>4, DetectsStreaks
    <3>6. now \in alarms' /\ Ended(s) <= now /\ now <= Ended(s) + Interval
      BY <1>2, <1>6, <2>2, <3>5
    <3>. QED
      BY <3>6
  <2>. QED
    BY <2>1, <2>2 DEF CostIInv, StreaksRaise
<1>9. now' <= nextRun' /\ nextRun' <= now' + Interval
  BY <1>1, <1>2
<1>. QED
  BY <1>4, <1>5, <1>7, <1>8, <1>9 DEF CostIInv

LEMMA TimePassesStep ==
  ASSUME CostIInv, TimePasses \/ UNCHANGED costVars  PROVE  CostIInv'
<1>1. CostTypeOK /\ now \in Nat /\ nextRun \in Nat /\ Interval \in Nat
      /\ Horizon \in Nat
  BY RowTyped DEF CostIInv, CostTypeOK
<1>2. /\ UNCHANGED <<rows, nextRun, alarms>> /\ now' \in Nat /\ now' >= now
      /\ now' <= nextRun /\ now' \in 0 .. Horizon
  BY <1>1 DEF TimePasses, costVars, CostIInv, CostTypeOK
<1>3. Streaks' = Streaks /\ \A s : Began(s)' = Began(s) /\ Ended(s)' = Ended(s)
  BY <1>2 DEF Streaks, Sonnets, Chain, Began, Ended
<1>4. CostTypeOK' /\ RaisedForStreaks' /\ StreaksRaise'
  BY <1>2, <1>3 DEF CostIInv, CostTypeOK, RaisedForStreaks, StreaksRaise
<1>5. RowsOrdered'
  BY <1>1, <1>2, RowTyped DEF CostIInv, RowsOrdered
<1>6. now <= nextRun /\ nextRun <= now + Interval
  BY DEF CostIInv
<1>7. now' <= nextRun' /\ nextRun' <= now' + Interval
  <2>1. nextRun' = nextRun
    BY <1>2
  <2>2. nextRun <= now' + Interval
    <3>1. \A n, m, r, d \in Nat : n <= m /\ r <= n + d => r <= m + d
      OBVIOUS
    <3>. QED
      BY <1>1, <1>2, <1>6, <3>1, Zenon
  <2>. QED
    BY <1>2, <2>1, <2>2
<1>. QED
  BY <1>4, <1>5, <1>7 DEF CostIInv

\* The invariant holds whenever the calls of the models come.
THEOREM CostInvariance == CostSpec => []CostIInv
<1>1. CostInit => CostIInv
  <2>. SUFFICES ASSUME CostInit  PROVE  CostIInv
    OBVIOUS
  <2>1. CostTypeOK
    BY CostAssumption DEF CostInit, CostTypeOK
  <2>2. Streaks = {}
    <3>1. Sonnets = {}
      BY DEF CostInit, Sonnets
    <3>. QED
      BY <2>1, <3>1, StreakFacts
  <2>. QED
    BY <2>1, <2>2, CostAssumption
    DEF CostInit, CostIInv, RowsOrdered, RaisedForStreaks, StreaksRaise
<1>2. CostIInv /\ [CostNext]_costVars => CostIInv'
  BY RecordLlmUsageStep, RunCostMonitorStep, TimePassesStep DEF CostNext
<1>. QED
  BY <1>1, <1>2, PTL DEF CostSpec

\* The alarm of cache regression is raised for a streak of cold calls within
\* its window and for nothing else, and for every streak, at the first run
\* after it.
THEOREM AlarmsTheorem == CostSpec => []AlarmsMatchStreaks
<1>1. CostIInv => AlarmsMatchStreaks
  <2>. SUFFICES ASSUME CostIInv  PROVE  AlarmsMatchStreaks
    OBVIOUS
  <2>1. ASSUME NEW s \in Streaks, now > Ended(s) + Interval
        PROVE  \E a \in alarms : Ended(s) <= a /\ a <= Ended(s) + Interval
    <3>1. /\ now \in Nat /\ nextRun \in Nat /\ Ended(s) \in Nat /\ Interval \in Nat
          /\ now <= nextRun
      BY StreakFacts, RowTyped DEF CostIInv, CostTypeOK
    <3>2. ~(nextRun <= Ended(s) + Interval)
      BY <2>1, <3>1
    <3>. QED
      BY <3>2 DEF CostIInv, StreaksRaise
  <2>. QED
    BY <2>1 DEF CostIInv, RaisedForStreaks, AlarmsMatchStreaks
<1>. QED
  BY <1>1, CostInvariance, PTL

=============================================================================
