---------------------------- MODULE Commitments ----------------------------
(***************************************************************************)
(* Commitments in their three places: the item of the task store           *)
(* (modules/tasks), its event with the chain of reminders (modules/chains) *)
(* and the event of the owner's Google Calendar                            *)
(* (modules/integrations/google-calendar).                                 *)
(*                                                                         *)
(* A commitment enters by a captured message (item, event and chain in one *)
(* transaction, the remote event afterwards), by the brain's create_event  *)
(* tool (the remote event first), or from Google, when the briefing reads  *)
(* the agenda and stores what it has no event for.  Dropping and snoozing  *)
(* reach the chain through the event bus, which swallows a failure.        *)
(*                                                                         *)
(* The tables items and events are sequences of rows; armed says that the  *)
(* reminder jobs of an event's chain have not been cancelled; when they    *)
(* fire is Scheduler's subject.                                            *)
(***************************************************************************)
EXTENDS Naturals, Sequences, FiniteSets, SequencesExt

CONSTANTS
  Appointments,      \* commitments of the owner's life
  MaxEvents,         \* bound: rows of events
  MaxRemotes         \* bound: events Google creates

ASSUME CommitmentsAssumption == MaxEvents \in Nat /\ MaxRemotes \in Nat

VARIABLES
  items,             \* rows [appt, status, source]
  events,            \* rows [item, gcal, active, armed]; gcal 0 is NULL
  remotes,           \* Google's events, each of one appointment
  origin,            \* how an appointment entered, "none" before
  open,              \* appointments whose message the brain still processes
  calls,             \* the insertion Google has been asked for, if any
  listed,            \* the agenda as Google returned it, not yet synced
  interrupted,       \* items whose bus handler failed half way (history)
  exposed            \* read from the agenda while not linked, or asked of
                     \* Google again after its event was moved (history)

vars == <<items, events, remotes, origin, open, calls, listed, interrupted,
          exposed>>

Statuses == {"ativa", "adiada", "feita", "arquivada", "dropada"}
Sources == {"capture", "brain", "google"}
NoCall == [path |-> "none", event |-> 0, gcal |-> 0]

TypeOK ==
  /\ items \in Seq([appt : Appointments, status : Statuses, source : Sources])
  /\ events \in Seq([item : DOMAIN items, gcal : 0 .. Len(remotes),
                     active : BOOLEAN, armed : BOOLEAN])
  /\ remotes \in Seq(Appointments)
  /\ origin \in [Appointments -> Sources \cup {"none"}]
  /\ open \subseteq Appointments
  /\ calls \in [Appointments ->
                  [path : {"none", "capture", "brain"},
                   event : 0 .. Len(events), gcal : 0 .. Len(remotes)]]
  /\ listed \subseteq DOMAIN remotes
  /\ interrupted \subseteq DOMAIN items
  /\ exposed \subseteq Appointments

Init ==
  /\ items = <<>>
  /\ events = <<>>
  /\ remotes = <<>>
  /\ origin = [a \in Appointments |-> "none"]
  /\ open = {}
  /\ calls = [a \in Appointments |-> NoCall]
  /\ listed = {}
  /\ interrupted = {}
  /\ exposed = {}

-----------------------------------------------------------------------------
(* The tables.                                                             *)

NewItem(a, source) == [appt |-> a, status |-> "ativa", source |-> source]

\* EventService.create and scheduleForEvent.
NewEvent(i, g) == [item |-> i, gcal |-> g, active |-> TRUE, armed |-> TRUE]

ActiveEvents(i) == {e \in DOMAIN events : events[e].item = i /\ events[e].active}

\* Rows that hold a gcal_id, cancelled ones too: the unique index sees them.
HasRow(g) == \E e \in DOMAIN events : events[e].gcal = g

\* Mutant: only the query for active events guards the sync.
SyncedActively(g) ==
  \E e \in DOMAIN events : events[e].gcal = g /\ events[e].active

\* findByGcalId skips an event already active, the unique index any other.
AlreadySynced(g) == HasRow(g)

Room == Len(events) < MaxEvents

-----------------------------------------------------------------------------
(* A commitment enters.                                                    *)

\* The owner's message: one transaction, then Google is asked.
Capture(a) ==
  /\ origin[a] = "none"
  /\ Room
  /\ origin' = [origin EXCEPT ![a] = "capture"]
  /\ items' = Append(items, NewItem(a, "capture"))
  /\ events' = Append(events, NewEvent(Len(items) + 1, 0))
  /\ calls' = [calls EXCEPT ![a] =
                 [path |-> "capture", event |-> Len(events) + 1, gcal |-> 0]]
  /\ UNCHANGED <<remotes, open, listed, interrupted, exposed>>

\* The items the message of an appointment has given.
BrainItems(a) ==
  {i \in DOMAIN items : items[i].appt = a /\ items[i].source = "brain"}

\* The oldest of them has an active event, linked to Google.
ExistingBrainEvent(a) ==
  \E i \in BrainItems(a) :
    /\ \A j \in BrainItems(a) : i <= j
    /\ \E e \in ActiveEvents(i) : events[e].gcal # 0

\* create_event: Google is asked unless the message already has its event.
\* The message is reprocessed after a crash, and the model may call again.
BrainCreates(a) ==
  /\ origin[a] = "none" \/ a \in open
  /\ calls[a] = NoCall
  /\ origin' = [origin EXCEPT ![a] = "brain"]
  /\ open' = open \cup {a}
  /\ IF ExistingBrainEvent(a)
       THEN UNCHANGED <<calls, exposed>>
       ELSE /\ calls' = [calls EXCEPT ![a] =
                           [path |-> "brain", event |-> 0, gcal |-> 0]]
            /\ exposed' = IF BrainItems(a) = {} THEN exposed
                          ELSE exposed \cup {a}
  /\ UNCHANGED <<items, events, remotes, listed, interrupted>>

\* The owner, or somebody who invites him, puts it into Google.
AppearsInGoogle(a) ==
  /\ origin[a] = "none"
  /\ Len(remotes) < MaxRemotes
  /\ origin' = [origin EXCEPT ![a] = "google"]
  /\ remotes' = Append(remotes, a)
  /\ UNCHANGED <<items, events, open, calls, listed, interrupted, exposed>>

-----------------------------------------------------------------------------
(* The call to Google and its answer.                                      *)

InsertEvent(a) ==
  /\ calls[a].path # "none"
  /\ calls[a].gcal = 0
  /\ Len(remotes) < MaxRemotes
  /\ remotes' = Append(remotes, a)
  /\ calls' = [calls EXCEPT ![a].gcal = Len(remotes) + 1]
  /\ UNCHANGED <<items, events, origin, open, listed, interrupted, exposed>>

\* No token, a refused request, an answer lost after the insertion, or the
\* process dead before it used the answer.  The capture never tries again;
\* the brain may, in the same conversation or when its message is replayed.
CallFails(a) ==
  /\ calls[a].path # "none"
  /\ calls' = [calls EXCEPT ![a] = NoCall]
  /\ open' = open \/ open' = open \ {a}
  /\ UNCHANGED <<items, events, remotes, origin, listed, interrupted, exposed>>

\* Mutant: the id goes to the newest event instead of the one written.
SetGcalIdOfNewest(a) ==
  /\ calls[a].path = "capture"
  /\ calls[a].gcal # 0
  /\ calls' = [calls EXCEPT ![a] = NoCall]
  /\ events' = IF HasRow(calls[a].gcal) THEN events
               ELSE [events EXCEPT ![Len(events)].gcal = calls[a].gcal]
  /\ UNCHANGED <<items, remotes, origin, open, listed, interrupted, exposed>>

\* The capture links its event; a violation of the unique index is logged.
SetGcalId(a) ==
  /\ calls[a].path = "capture"
  /\ calls[a].gcal # 0
  /\ calls' = [calls EXCEPT ![a] = NoCall]
  /\ events' = IF HasRow(calls[a].gcal) THEN events
               ELSE [events EXCEPT ![calls[a].event].gcal = calls[a].gcal]
  /\ UNCHANGED <<items, remotes, origin, open, listed, interrupted, exposed>>

\* The brain stores item, event and chain in one transaction; a violation of
\* the unique index undoes it and the tool reports an error.
BrainStores(a) ==
  /\ calls[a].path = "brain"
  /\ calls[a].gcal # 0
  /\ Room
  /\ calls' = [calls EXCEPT ![a] = NoCall]
  /\ IF HasRow(calls[a].gcal)
       THEN UNCHANGED <<items, events>>
       ELSE /\ items' = Append(items, NewItem(a, "brain"))
            /\ events' = Append(events, NewEvent(Len(items) + 1, calls[a].gcal))
  /\ UNCHANGED <<remotes, origin, open, listed, interrupted, exposed>>

\* The conversation ends and its message is processed.
BrainReplies(a) ==
  /\ a \in open
  /\ calls[a] = NoCall
  /\ open' = open \ {a}
  /\ UNCHANGED <<items, events, remotes, origin, calls, listed, interrupted,
                 exposed>>

-----------------------------------------------------------------------------
(* listTodayAndSync, called by the briefing.                               *)

Unlinked == {g \in DOMAIN remotes : ~HasRow(g)}

ListAgenda ==
  /\ listed = {}
  /\ remotes # <<>>
  /\ listed' = DOMAIN remotes
  /\ exposed' = exposed \cup
       {a \in Appointments :
          origin[a] # "google" /\ \E g \in Unlinked : remotes[g] = a}
  /\ UNCHANGED <<items, events, remotes, origin, open, calls, interrupted>>

Fresh == {g \in listed : ~AlreadySynced(g)}

\* Each event of the answer without a row gets item, event and chain, in the
\* order of their starts, whatever it is.
SyncListed ==
  /\ listed # {}
  /\ Len(events) + Cardinality(Fresh) <= MaxEvents
  /\ \E fresh \in SetToSeqs(Fresh) :
       /\ items' = items \o
            [k \in DOMAIN fresh |-> NewItem(remotes[fresh[k]], "google")]
       /\ events' = events \o
            [k \in DOMAIN fresh |-> NewEvent(Len(items) + k, fresh[k])]
  /\ listed' = {}
  /\ UNCHANGED <<remotes, origin, open, calls, interrupted, exposed>>

\* The process dies, or the briefing gives up, between reading and storing.
AgendaLost ==
  /\ listed # {}
  /\ listed' = {}
  /\ UNCHANGED <<items, events, remotes, origin, open, calls, interrupted,
                 exposed>>

-----------------------------------------------------------------------------
(* The owner acts on an item, by command, menu or tool.                    *)

\* TRANSITIONS: an active or snoozed item goes anywhere, a terminal nowhere.
CanTransition(from, to) ==
  /\ from \in {"ativa", "adiada"}
  /\ from = to => from = "adiada"

Becomes(i, status) ==
  /\ CanTransition(items[i].status, status)
  /\ items' = [items EXCEPT ![i].status = status]

\* complete and archive publish nothing: event and chain stay.
CompleteOrArchive(i) ==
  /\ Becomes(i, "feita") \/ Becomes(i, "arquivada")
  /\ UNCHANGED <<events, remotes, origin, open, calls, listed, interrupted,
                 exposed>>

\* cancelActiveForItem alone: how far a handler may come before it is cut off
\* (and a mutant of CancelChain).
CancelEventOnly(i) ==
  [e \in DOMAIN events |->
     IF e \in ActiveEvents(i)
       THEN [events[e] EXCEPT !.active = FALSE] ELSE events[e]]

\* cancelActiveForItem, then the pending jobs of that event.
CancelChain(i) ==
  [e \in DOMAIN events |->
     IF e \in ActiveEvents(i)
       THEN [events[e] EXCEPT !.active = FALSE, !.armed = FALSE] ELSE events[e]]

Drop(i) ==
  /\ Becomes(i, "dropada")
  /\ events' = CancelChain(i)
  /\ UNCHANGED <<remotes, origin, open, calls, listed, interrupted, exposed>>

\* Mutant: the new event is created beside the old one.
RescheduleBeside(i) ==
  IF ActiveEvents(i) = {} THEN events ELSE Append(events, NewEvent(i, 0))

\* onItemRescheduled: a new event, without gcal_id, and a new chain.
Reschedule(i) ==
  IF ActiveEvents(i) = {} THEN events
  ELSE Append(CancelChain(i), NewEvent(i, 0))

Snooze(i) ==
  /\ Becomes(i, "adiada")
  /\ Room
  /\ events' = Reschedule(i)
  /\ UNCHANGED <<remotes, origin, open, calls, listed, interrupted, exposed>>

\* The status is committed and the bus handler throws, or the process dies,
\* before it ends: nothing, the event, or event and jobs were cancelled, or
\* the new event of a snooze was created and its chain was not.
HandlerCutShort(i) ==
  /\ Becomes(i, "dropada") \/ Becomes(i, "adiada")
  /\ ActiveEvents(i) # {}
  /\ \/ UNCHANGED events
     \/ events' = CancelEventOnly(i)
     \/ events' = CancelChain(i)
     \/ /\ items'[i].status = "adiada" /\ Room
        /\ events' = Append(CancelChain(i),
                            [NewEvent(i, 0) EXCEPT !.armed = FALSE])
  /\ interrupted' = interrupted \cup {i}
  /\ UNCHANGED <<remotes, origin, open, calls, listed, exposed>>

Next ==
  \/ \E a \in Appointments :
       \/ Capture(a) \/ BrainCreates(a) \/ AppearsInGoogle(a)
       \/ InsertEvent(a) \/ CallFails(a) \/ SetGcalId(a)
       \/ BrainStores(a) \/ BrainReplies(a)
  \/ ListAgenda \/ SyncListed \/ AgendaLost
  \/ \E i \in DOMAIN items :
       CompleteOrArchive(i) \/ Drop(i) \/ Snooze(i) \/ HandlerCutShort(i)

Spec == Init /\ [][Next]_vars

-----------------------------------------------------------------------------
(* Properties.                                                             *)

\* A commitment has at most one live event, also when handlers are cut off
\* and when links and syncs arrive while it is being rescheduled.
OneLiveEventPerItem ==
  \A i \in DOMAIN items : Cardinality(ActiveEvents(i)) <= 1

\* After a drop nothing reminds the owner any more, and no reminder hangs on
\* a cancelled event (FEAT-004), unless the handler was cut off.
DroppedIsQuiet ==
  \A e \in DOMAIN events :
    events[e].item \notin interrupted =>
      /\ items[events[e].item].status = "dropada" => ~events[e].active
      /\ ~events[e].active => ~events[e].armed

\* A row linked to Google is linked to its own appointment's event, and no
\* two rows to the same one, in whatever order the answers come.
LinksMatch ==
  \A e \in DOMAIN events : events[e].gcal # 0 =>
    /\ remotes[events[e].gcal] = items[events[e].item].appt
    /\ \A f \in DOMAIN events : events[f].gcal = events[e].gcal => f = e

Live(a) ==
  {i \in DOMAIN items : items[i].appt = a /\ ActiveEvents(i) # {}}

\* Two live chains for one appointment arise only when the agenda was read
\* while Google had the event and its row was not linked to it, or when the
\* brain was asked again after its event had been moved; dropping, moving and
\* reading the agenda again never duplicate.
DuplicateNeedsUnlinked ==
  \A a \in Appointments : Cardinality(Live(a)) > 1 => a \in exposed

\* FEAT-005: one commitment never gets a second event with its own chain.
\* It does not hold: README, section 7.
OneLivePerAppointment ==
  \A a \in Appointments : Cardinality(Live(a)) <= 1

=============================================================================
