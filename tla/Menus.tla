------------------------------- MODULE Menus -------------------------------
(***************************************************************************)
(* The numbered menus: the charges of modules/nudges, the decision of the  *)
(* nightly review (modules/rituals) and the hygiene proposal that replaces *)
(* it (modules/hygiene), all registered in pending_menus (core/menu), and  *)
(* the owner's "1", "2" or "3", which the newest pending menu resolves.    *)
(*                                                                         *)
(* A command runs without leaving the event loop, so nothing interleaves   *)
(* with it but the death of the process, between its two writes; the       *)
(* review waits for the model's draft between collecting and registering.  *)
(* The messages travel through the outbox, whose delays, retries, resends  *)
(* and daily cap are Outbox's subject: here the owner may read any message *)
(* enqueued, in any order, or never.                                       *)
(***************************************************************************)
EXTENDS Naturals, Sequences, FiniteSets, FiniteSetsExt, Functions

CONSTANTS
  Items,             \* open items of the list, by id
  OftenSnoozed,      \* those snoozed three times or more: hygiene proposes
  Dated,             \* bound: those whose due date may pass
  DailyChargeCap,    \* nudges.dailyChargeCap
  DailyProactiveCap, \* outbox.dailyProactiveCap
  MaxMenus,          \* bound: menus and menu messages
  MaxAnswers,        \* bound: digits the owner sends
  MaxDays,           \* bound: days of a behaviour
  MaxCrashes         \* bound: deaths of the process

\* With at most three items each open one is a top priority of the day.
ASSUME MenusAssumption ==
  /\ Items \subseteq Nat \ {0}
  /\ IsFiniteSet(Items) /\ Cardinality(Items) <= 3
  /\ OftenSnoozed \subseteq Items /\ Dated \subseteq Items
  /\ {DailyChargeCap, DailyProactiveCap, MaxMenus, MaxAnswers, MaxDays,
      MaxCrashes} \subseteq Nat
  /\ MaxDays > 0

VARIABLES
  status,            \* of each item
  overdue,           \* open items whose due date has passed
  menus,             \* pending_menus [origin, item, resolved, done]
  charges,           \* nudges_charges [item, day, responded]
  outbox,            \* proactive rows [menu, day]; menu 0: no menu
  review,            \* the decision a review is drafting
  seen,              \* menu of the question the owner read last, 0 for none
  answer,            \* the digit being handled
  answers,           \* digits sent
  day,
  crashes

vars == <<status, overdue, menus, charges, outbox, review, seen, answer,
          answers, day, crashes>>

Origins == {"cobranca", "revisao", "higiene"}
\* "open": ativa or adiada, which the charges and the review do not tell apart;
\* "closed": feita, arquivada or dropada.
Statuses == {"open", "closed"}
Open == {i \in Items : status[i] = "open"}

NoReview == [origin |-> "none", item |-> 0]
\* phase: none, arrived, half (one of its two writes done), replying (not yet
\* marked processed); menu: the one it hit; asked: the one the owner meant;
\* acted: the items it changed (history).
NoAnswer == [phase |-> "none", digit |-> 0, menu |-> 0, asked |-> 0,
             acted |-> {}, replayed |-> FALSE]

\* done is a history: what became of the question, whoever resolved it.
TypeOK ==
  /\ status \in [Items -> Statuses]
  /\ overdue \subseteq Items
  /\ menus \in Seq([origin : Origins, item : Items, resolved : BOOLEAN,
                    done : {"no", "applied", "moot"}])
  /\ charges \in Seq([item : Items, day : 1 .. MaxDays, responded : BOOLEAN])
  /\ outbox \in Seq([menu : 0 .. Len(menus), day : 1 .. MaxDays])
  /\ review \in [origin : Origins \cup {"none"}, item : Items \cup {0}]
  /\ seen \in 0 .. Len(menus)
  /\ answer \in [phase : {"none", "arrived", "half", "replying"}, digit : 0 .. 3,
                 menu : 0 .. Len(menus), asked : 0 .. Len(menus),
                 acted : SUBSET Items, replayed : BOOLEAN]
  /\ answers \in 0 .. MaxAnswers
  /\ day \in 1 .. MaxDays
  /\ crashes \in 0 .. MaxCrashes

Init ==
  /\ status = [i \in Items |-> "open"]
  /\ overdue = {}
  /\ menus = <<>>
  /\ charges = <<>>
  /\ outbox = <<>>
  /\ review = NoReview
  /\ seen = 0
  /\ answer = NoAnswer
  /\ answers = 0
  /\ day = 1
  /\ crashes = 0

-----------------------------------------------------------------------------
(* Queries.                                                                *)

Newest(S) == IF S = {} THEN 0 ELSE Max(S)

PendingMenus == {m \in DOMAIN menus : ~menus[m].resolved}
FindMostRecentPending == Newest(PendingMenus)
PendingCharges == {c \in DOMAIN charges : ~charges[c].responded}

ChargedOn(d) == {c \in DOMAIN charges : charges[c].day = d}

\* countProactiveCommittedSince: of the rows created today, none failed here.
CommittedToday == Cardinality({r \in DOMAIN outbox : outbox[r].day = day})

Message(m) == [menu |-> m, day |-> day]
Menu(origin, i) ==
  [origin |-> origin, item |-> i, resolved |-> FALSE, done |-> "no"]

\* No callback runs while a command has the event loop.
LoopFree == answer.phase \notin {"half", "replying"}

Room(n) == Len(outbox) + n <= MaxMenus /\ Len(charges) + n <= MaxMenus

-----------------------------------------------------------------------------
(* checkAndSendDue, the job cobranca.                                      *)

\* Mutant: an item already charged today is charged again.
ChargeableRepeatedly == Open

Chargeable == Open \ {charges[c].item : c \in ChargedOn(day)}

\* Mutant: the charge cap is off by one.
ChargesLeftOneMore ==
  DailyChargeCap + 1 - Min({DailyChargeCap + 1, Cardinality(ChargedOn(day))})

ChargesLeft == DailyChargeCap - Min({DailyChargeCap, Cardinality(ChargedOn(day))})

\* How many the caps leave: the charge cap is read once for a pass, the
\* committed rows are counted again before each charge of it.
Budget ==
  Min({ChargesLeft,
       DailyProactiveCap - Min({DailyProactiveCap, CommittedToday}),
       Cardinality(Chargeable)})

\* The list is ordered by due dates, which the model leaves open.
Batches(n) == {q \in [1 .. n -> Chargeable] : IsInjective(q)}

Charge(q) ==
  charges \o [k \in DOMAIN q |->
                [item |-> q[k], day |-> day, responded |-> FALSE]]

CheckAndSendDue ==
  /\ LoopFree
  /\ Budget > 0 /\ Room(Budget)
  /\ \E q \in Batches(Budget) :
       /\ charges' = Charge(q)
       /\ outbox' = outbox \o [k \in DOMAIN q |-> Message(Len(menus) + k)]
       /\ menus' = menus \o [k \in DOMAIN q |-> Menu("cobranca", q[k])]
  /\ UNCHANGED <<status, overdue, review, seen, answer, answers, day, crashes>>

-----------------------------------------------------------------------------
(* The review.                                                             *)

Oldest(S) == IF S = {} THEN 0 ELSE Min(S)

\* collectData and resolvePendingDecision: hygiene replaces the decision.
PendingDecision ==
  LET proposal == Oldest(Open \cap OftenSnoozed)
      decision == Oldest(Open \cap overdue)
  IN  IF proposal # 0 THEN [origin |-> "higiene", item |-> proposal]
      ELSE IF decision # 0 THEN [origin |-> "revisao", item |-> decision]
      ELSE NoReview

ReviewBegins ==
  /\ LoopFree
  /\ review = NoReview /\ PendingDecision # NoReview
  /\ review' = PendingDecision
  /\ UNCHANGED <<status, overdue, menus, charges, outbox, seen, answer,
                 answers, day, crashes>>

\* The draft, or its fallback, is there: the messages go to the outbox and
\* the question is registered.
ReviewEnds ==
  /\ LoopFree
  /\ review # NoReview /\ Room(1)
  /\ outbox' = Append(outbox, Message(Len(menus) + 1))
  /\ menus' = Append(menus, Menu(review.origin, review.item))
  /\ review' = NoReview
  /\ UNCHANGED <<status, overdue, charges, seen, answer, answers, day, crashes>>

-----------------------------------------------------------------------------
(* The owner reads a question and sends a digit.                           *)

OwnerReads(r) ==
  /\ LoopFree
  /\ outbox[r].menu \notin {0, seen}
  /\ seen' = outbox[r].menu
  /\ UNCHANGED <<status, overdue, menus, charges, outbox, review, answer,
                 answers, day, crashes>>

OwnerAnswers(d) ==
  /\ answer.phase = "none"
  /\ seen # 0
  /\ answers < MaxAnswers
  /\ answers' = answers + 1
  /\ answer' = [NoAnswer EXCEPT !.phase = "arrived", !.digit = d, !.asked = seen]
  /\ UNCHANGED <<status, overdue, menus, charges, outbox, review, seen, day,
                 crashes>>

\* What each menu's digit does to the item: done, snoozed or dropped; kept,
\* snoozed or dropped; archived, dropped or kept for a later day.
Effect(origin, d) ==
  CASE origin = "cobranca" -> <<"close", "snooze", "close">>[d]
    [] origin = "revisao"  -> <<"keep", "snooze", "close">>[d]
    [] origin = "higiene"  -> <<"close", "close", "snooze">>[d]

Changes(i, what) ==
  /\ status' = IF what = "close" THEN [status EXCEPT ![i] = "closed"] ELSE status
  /\ overdue' = IF what = "keep" THEN overdue ELSE overdue \ {i}

Apply(m, d) == Changes(menus[m].item, Effect(menus[m].origin, d))

Resolved(m, what) ==
  [menus EXCEPT ![m].resolved = TRUE,
                ![m].done = IF @ = "no" THEN what ELSE @]

\* Mutant: the oldest pending charge is marked instead of the newest.
RecordResponseOfOldest ==
  /\ menus' = IF FindMostRecentPending = 0 THEN menus
              ELSE Resolved(FindMostRecentPending, "moot")
  /\ charges' = IF PendingCharges = {} THEN charges
                ELSE [charges EXCEPT ![Min(PendingCharges)].responded = TRUE]

\* Mutant: only a charge that could be applied ends its menu.
RecordResponseIfOpen ==
  /\ FindMostRecentPending # 0
  /\ menus' = IF menus[FindMostRecentPending].done = "no" THEN menus
              ELSE Resolved(FindMostRecentPending, "moot")
  /\ charges' = IF PendingCharges = {} THEN charges
                ELSE [charges EXCEPT ![Newest(PendingCharges)].responded = TRUE]

\* The newest pending menu and the newest pending charge, read again.
RecordResponse ==
  /\ menus' = IF FindMostRecentPending = 0 THEN menus
              ELSE Resolved(FindMostRecentPending, "moot")
  /\ charges' = IF PendingCharges = {} THEN charges
                ELSE [charges EXCEPT ![Newest(PendingCharges)].responded = TRUE]

\* No menu is pending: the digit is triaged like any other text.
DigitFallsThrough ==
  /\ answer.phase = "arrived"
  /\ FindMostRecentPending = 0
  /\ answer' = [answer EXCEPT !.phase = "replying"]
  /\ UNCHANGED <<status, overdue, menus, charges, outbox, review, seen,
                 answers, day, crashes>>

\* The charged item was closed meanwhile: the charge is over.
ChargeMoot ==
  LET m == FindMostRecentPending IN
  /\ answer.phase = "arrived" /\ m # 0
  /\ menus[m].origin = "cobranca" /\ menus[m].item \notin Open
  /\ RecordResponse
  /\ answer' = [answer EXCEPT !.phase = "replying", !.menu = m]
  /\ UNCHANGED <<status, overdue, outbox, review, seen, answers, day, crashes>>

\* A charge: first the effect, then the record of the response.
ChargeAnswered ==
  LET m == FindMostRecentPending IN
  /\ answer.phase = "arrived" /\ m # 0
  /\ menus[m].origin = "cobranca" /\ menus[m].item \in Open
  /\ Apply(m, answer.digit)
  /\ menus' = [menus EXCEPT ![m].done = "applied"]
  /\ answer' = [answer EXCEPT !.phase = "half", !.menu = m,
                              !.acted = @ \cup {menus[m].item}]
  /\ UNCHANGED <<charges, outbox, review, seen, answers, day, crashes>>

ChargeRecorded ==
  /\ answer.phase = "half" /\ menus[answer.menu].origin = "cobranca"
  /\ RecordResponse
  /\ answer' = [answer EXCEPT !.phase = "replying"]
  /\ UNCHANGED <<status, overdue, outbox, review, seen, answers, day, crashes>>

\* Review and hygiene: first the menu is resolved, then the effect.
DecisionAnswered ==
  LET m == FindMostRecentPending IN
  /\ answer.phase = "arrived" /\ m # 0
  /\ menus[m].origin \in {"revisao", "higiene"}
  /\ menus' = [menus EXCEPT ![m].resolved = TRUE]
  /\ answer' = [answer EXCEPT !.phase = "half", !.menu = m]
  /\ UNCHANGED <<status, overdue, charges, outbox, review, seen, answers, day,
                 crashes>>

\* Mutant: the effect falls on the menu that is the newest one by now.
EffectTargetReread ==
  IF FindMostRecentPending = 0 THEN answer.menu ELSE FindMostRecentPending

\* The command read the item of its menu before it resolved it.
EffectTarget == answer.menu

DecisionApplied ==
  LET m == EffectTarget
      i == menus[m].item
  IN  /\ answer.phase = "half"
      /\ menus[answer.menu].origin \in {"revisao", "higiene"}
      /\ IF i \in Open
           THEN /\ Apply(m, answer.digit)
                /\ menus' = Resolved(m, "applied")
                /\ answer' = [answer EXCEPT !.phase = "replying",
                                            !.acted = @ \cup {i}]
           ELSE /\ menus' = Resolved(m, "moot")
                /\ answer' = [answer EXCEPT !.phase = "replying"]
                /\ UNCHANGED <<status, overdue>>
      /\ UNCHANGED <<charges, outbox, review, seen, answers, day, crashes>>

\* The reply is in the outbox and the message is marked processed.
MarkProcessed ==
  /\ answer.phase = "replying"
  /\ answer' = [answer EXCEPT !.phase = "none"]
  /\ UNCHANGED <<status, overdue, menus, charges, outbox, review, seen,
                 answers, day, crashes>>

-----------------------------------------------------------------------------
(* The world.                                                              *)

\* "feito", "adia", or "dropa", which closes like "feito", in words, or a tool
\* of the brain.
ChangedElsewhere(i, what) ==
  /\ LoopFree
  /\ i \in Open
  /\ Changes(i, what)
  /\ UNCHANGED <<menus, charges, outbox, review, seen, answer, answers, day,
                 crashes>>

BecomesOverdue(i) ==
  /\ LoopFree
  /\ i \in (Open \cap Dated) \ overdue
  /\ overdue' = overdue \cup {i}
  /\ UNCHANGED <<status, menus, charges, outbox, review, seen, answer, answers,
                 day, crashes>>

Midnight ==
  /\ LoopFree
  /\ day < MaxDays
  /\ day' = day + 1
  /\ UNCHANGED <<status, overdue, menus, charges, outbox, review, seen, answer,
                 answers, crashes>>

\* The review is lost.  The message of an answer not marked processed is
\* replayed at the boot, or forgotten (Inbound.tla says when).
Dies ==
  /\ crashes < MaxCrashes
  /\ crashes' = crashes + 1
  /\ review' = NoReview
  /\ IF answer.phase = "none" THEN UNCHANGED answer
     ELSE \/ answer' = [answer EXCEPT !.phase = "arrived", !.menu = 0,
                                      !.replayed = TRUE]
          \/ answer' = NoAnswer

Crash ==
  /\ Dies
  /\ UNCHANGED <<status, overdue, menus, charges, outbox, seen, answers, day>>

\* The process dies between the writes of a charge: charged, not asked.
ChargeCutShort ==
  /\ LoopFree
  /\ Budget > 0 /\ Room(1)
  /\ \E i \in Chargeable :
       /\ charges' = Charge(<<i>>)
       /\ outbox' = outbox \/ outbox' = Append(outbox, Message(0))
  /\ Dies
  /\ UNCHANGED <<status, overdue, menus, seen, answers, day>>

Next ==
  \/ CheckAndSendDue \/ ReviewBegins \/ ReviewEnds
  \/ \E r \in DOMAIN outbox : OwnerReads(r)
  \/ \E d \in 1 .. 3 : OwnerAnswers(d)
  \/ DigitFallsThrough \/ ChargeMoot \/ ChargeAnswered \/ ChargeRecorded
  \/ DecisionAnswered \/ DecisionApplied \/ MarkProcessed
  \/ \E i \in Items :
       \/ \E what \in {"close", "snooze"} : ChangedElsewhere(i, what)
       \/ BecomesOverdue(i)
  \/ Midnight \/ Crash \/ ChargeCutShort

Spec == Init /\ [][Next]_vars

-----------------------------------------------------------------------------
(* Properties.                                                             *)

\* A day never sees more charges than its cap, nor one item charged twice,
\* whatever the checks, the answers and the crashes between them (RF-08).
OncePerDay ==
  \A d \in 1 .. MaxDays :
    /\ Cardinality(ChargedOn(d)) <= DailyChargeCap
    /\ \A c, e \in ChargedOn(d) : charges[c].item = charges[e].item => c = e

\* A digit changes the item of the menu it hit and no other; only a replay
\* of its message after a crash may change one more item.
AnswerActsOnItsMenu ==
  /\ Cardinality(answer.acted) <= 1 + crashes
  /\ ~answer.replayed /\ answer.menu # 0 =>
       answer.acted \subseteq {menus[answer.menu].item}

\* The two tables tell the same story: the charges without a response are
\* those of the pending menus, item by item and in the same order, unless the
\* process died between the two records.  recordResponse relies on it: it ends
\* the newest menu and the newest charge, each by a query of its own.
MenusMatchCharges ==
  LET asked == {m \in PendingMenus : menus[m].origin = "cobranca"}
  IN  crashes = 0 =>
        \E f \in [PendingCharges -> asked] :
          /\ \A m \in asked : \E c \in PendingCharges : f[c] = m
          /\ \A c, e \in PendingCharges : c < e => f[c] < f[e]
          /\ \A c \in PendingCharges : charges[c].item = menus[f[c]].item

\* A question counted as answered has had its effect, or its item was closed
\* already; a crash between the two writes is the only way to lose it.
DecisionLostOnlyByCrash ==
  \A m \in DOMAIN menus :
    menus[m].resolved /\ menus[m].done = "no" =>
      crashes > 0 \/ (answer.phase = "half" /\ answer.menu = m)

\* A handled digit always closes the menu it hit, also when the item was
\* closed meanwhile: no menu swallows digits for ever (FEAT-007).
AnswerClosesMenu ==
  [][answer.phase # "replying" /\ answer'.phase = "replying" /\ answer'.menu # 0
       => menus'[answer'.menu].resolved]_vars

\* FEAT-007: a digit acts on the question the owner answers, the last one he
\* got, and never on an item another menu is about.  It does not hold: README,
\* section 7.
AnswersTheQuestionAsked ==
  ~answer.replayed /\ answer.menu # 0 =>
    \/ menus[answer.menu].item = menus[answer.asked].item
    \/ answer.acted = {}

=============================================================================
