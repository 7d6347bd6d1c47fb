------------------------- MODULE CommitmentsProofs -------------------------
(***************************************************************************)
(* The safety of Commitments for every set of appointments and any bounds. *)
(* The tables only grow: a row keeps its item and, once it has one, its    *)
(* gcal_id.  What has to be added to the properties is what a call to      *)
(* Google under way will find when it is answered, and how many items an   *)
(* appointment has while it is not exposed: none before it is stored, one  *)
(* afterwards.                                                             *)
(***************************************************************************)
EXTENDS Commitments, FiniteSetTheorems, SequenceTheorems, TLAPS

ItemRow == [appt : Appointments, status : Statuses, source : Sources]
EventRow == [item : Nat, gcal : Nat, active : BOOLEAN, armed : BOOLEAN]
Call == [path : {"none", "capture", "brain"}, event : Nat, gcal : Nat]

TypeInv ==
  /\ items \in Seq(ItemRow)
  /\ events \in Seq(EventRow)
  /\ remotes \in Seq(Appointments)
  /\ origin \in [Appointments -> Sources \cup {"none"}]
  /\ open \subseteq Appointments
  /\ calls \in [Appointments -> Call]
  /\ listed \subseteq DOMAIN remotes
  /\ interrupted \subseteq DOMAIN items
  /\ exposed \subseteq Appointments
  /\ \A e \in DOMAIN events :
       events[e].item \in DOMAIN items /\ events[e].gcal \in 0 .. Len(remotes)

\* OneLiveEventPerItem without cardinalities.
OneLive ==
  \A e, f \in DOMAIN events :
    events[e].active /\ events[f].active /\ events[e].item = events[f].item
    => e = f

TablesInv == OneLive /\ DroppedIsQuiet /\ LinksMatch

\* The id that Google has given is of the appointment asked for, and the
\* event of a capture is of this appointment and not linked yet.
CallInv(a) ==
  /\ calls[a].gcal # 0 =>
       calls[a].gcal \in DOMAIN remotes /\ remotes[calls[a].gcal] = a
  /\ calls[a].path = "capture" =>
       /\ calls[a].event \in DOMAIN events
       /\ events[calls[a].event].gcal = 0
       /\ items[events[calls[a].event].item].appt = a

\* An appointment enters once, and its calls belong to its way of entering.
EntryInv(a) ==
  /\ origin[a] = "none" =>
       /\ \A i \in DOMAIN items : items[i].appt # a
       /\ \A g \in DOMAIN remotes : remotes[g] # a
       /\ calls[a].path = "none" /\ a \notin open
  /\ a \in open \/ calls[a].path = "brain" => origin[a] = "brain"
  /\ calls[a].path = "capture" => origin[a] = "capture"
  /\ origin[a] = "google" =>
       /\ \A g, h \in DOMAIN remotes : remotes[g] = a /\ remotes[h] = a => g = h
       /\ \A i \in DOMAIN items : items[i].appt = a =>
            \A g \in DOMAIN remotes : remotes[g] = a => HasRow(g)

\* While it is not exposed it has one item at most, and no reading of the
\* agenda under way will add another.
SingleInv(a) ==
  a \notin exposed =>
    /\ \A i, j \in DOMAIN items : items[i].appt = a /\ items[j].appt = a => i = j
    /\ calls[a].path = "brain" => \A i \in DOMAIN items : items[i].appt # a
    /\ origin[a] = "brain" =>
         \A i \in DOMAIN items : items[i].appt = a => items[i].source = "brain"
    /\ origin[a] # "google" =>
         \A g \in listed : remotes[g] = a => HasRow(g)

ApptInv == \A a \in Appointments : CallInv(a) /\ EntryInv(a) /\ SingleInv(a)

IInv == TypeInv /\ TablesInv /\ ApptInv

-----------------------------------------------------------------------------
(* Sequences.                                                              *)

LEMMA Appended ==
  ASSUME NEW S, NEW s \in Seq(S), NEW x \in S
  PROVE  /\ Append(s, x) \in Seq(S)
         /\ DOMAIN s = 1 .. Len(s) /\ Len(s) \in Nat
         /\ DOMAIN Append(s, x) = 1 .. Len(s) + 1
         /\ Len(Append(s, x)) = Len(s) + 1
         /\ \A i \in DOMAIN s : Append(s, x)[i] = s[i]
         /\ Append(s, x)[Len(s) + 1] = x
  OBVIOUS

LEMMA Concatenated ==
  ASSUME NEW S, NEW s \in Seq(S), NEW n \in Nat, NEW f \in [1 .. n -> S]
  PROVE  /\ s \o f \in Seq(S)
         /\ DOMAIN s = 1 .. Len(s) /\ Len(s) \in Nat
         /\ Len(s \o f) = Len(s) + n
         /\ DOMAIN (s \o f) = 1 .. Len(s) + n
         /\ \A i \in DOMAIN s : (s \o f)[i] = s[i]
         /\ \A k \in 1 .. n : (s \o f)[Len(s) + k] = f[k]
<1>1. f \in Seq(S) /\ Len(f) = n
  OBVIOUS
<1>. QED
  BY <1>1

\* A table rewritten row by row keeps its length.
LEMMA Rewritten ==
  ASSUME NEW S, NEW s \in Seq(S), NEW f \in [DOMAIN s -> S]
  PROVE  f \in Seq(S) /\ Len(f) = Len(s) /\ DOMAIN f = DOMAIN s
  OBVIOUS

-----------------------------------------------------------------------------
(* What holds of rows that are kept.                                       *)

ItemsKept ==
  /\ DOMAIN items \subseteq DOMAIN items'
  /\ \A i \in DOMAIN items : /\ items'[i].appt = items[i].appt
                             /\ items'[i].source = items[i].source

EventsKept ==
  /\ DOMAIN events \subseteq DOMAIN events'
  /\ \A e \in DOMAIN events :
       /\ events'[e].item = events[e].item
       /\ events'[e].gcal = events[e].gcal

\* A table that keeps its rows keeps what the agenda has found in it.
LEMMA HasRowKept ==
  ASSUME EventsKept, NEW g, HasRow(g)  PROVE  HasRow(g)'
  BY DEF EventsKept, HasRow

LEMMA TablesUnchanged ==
  ASSUME TablesInv, UNCHANGED <<items, events, remotes, interrupted>>
  PROVE  TablesInv'
  BY DEF TablesInv, OneLive, DroppedIsQuiet, LinksMatch

\* A step on the events and statuses of items that adds no item, no link and
\* no remote event.
LEMMA ApptKept ==
  ASSUME TypeInv, ApptInv, ItemsKept, EventsKept, DOMAIN items' = DOMAIN items,
         UNCHANGED <<remotes, origin, open, calls, listed, exposed>>
  PROVE  ApptInv'
<1>. SUFFICES ASSUME NEW a \in Appointments
     PROVE  (CallInv(a) /\ EntryInv(a) /\ SingleInv(a))'
  BY DEF ApptInv
<1>1. CallInv(a) /\ EntryInv(a) /\ SingleInv(a)
  BY DEF ApptInv
<1>2. CallInv(a)'
  BY <1>1 DEF CallInv, TypeInv, ItemsKept, EventsKept
<1>3. EntryInv(a)'
  BY <1>1, HasRowKept DEF EntryInv, ItemsKept
<1>4. SingleInv(a)'
  BY <1>1, HasRowKept DEF SingleInv, ItemsKept
<1>. QED
  BY <1>2, <1>3, <1>4

-----------------------------------------------------------------------------
LEMMA InitIInv == Init => IInv
<1>. SUFFICES ASSUME Init  PROVE  IInv
  OBVIOUS
<1>1. TypeInv
  <2>1. NoCall \in Call
    BY DEF NoCall, Call
  <2>2. items \in Seq(ItemRow) /\ events \in Seq(EventRow)
        /\ remotes \in Seq(Appointments)
    BY DEF Init
  <2>3. DOMAIN events = {}
    BY DEF Init
  <2>4. origin \in [Appointments -> Sources \cup {"none"}]
        /\ calls \in [Appointments -> Call]
    BY <2>1, Zenon DEF Init
  <2>. QED
    BY <2>2, <2>3, <2>4 DEF Init, TypeInv
<1>2. TablesInv
  BY DEF Init, TablesInv, OneLive, DroppedIsQuiet, LinksMatch
<1>3. ApptInv
  <2>. SUFFICES ASSUME NEW a \in Appointments
       PROVE  CallInv(a) /\ EntryInv(a) /\ SingleInv(a)
    BY DEF ApptInv
  <2>1. calls[a].path = "none" /\ calls[a].gcal = 0 /\ origin[a] = "none"
    BY DEF Init, NoCall
  <2>2. DOMAIN items = {} /\ DOMAIN remotes = {} /\ listed = {} /\ open = {}
    BY DEF Init
  <2>. QED
    BY <2>1, <2>2 DEF CallInv, EntryInv, SingleInv
<1>. QED
  BY <1>1, <1>2, <1>3 DEF IInv

-----------------------------------------------------------------------------
(* A commitment enters.                                                    *)

LEMMA NewRows ==
  ASSUME NEW a \in Appointments, NEW src \in Sources, NEW i \in Nat, NEW g \in Nat
  PROVE  /\ NewItem(a, src) \in ItemRow
         /\ NewItem(a, src).appt = a /\ NewItem(a, src).source = src
         /\ NewItem(a, src).status = "ativa"
         /\ NewEvent(i, g) \in EventRow
         /\ NewEvent(i, g).item = i /\ NewEvent(i, g).gcal = g
         /\ NewEvent(i, g).active /\ NewEvent(i, g).armed
  BY DEF NewItem, NewEvent, ItemRow, EventRow, Statuses

\* An item and its event are appended together, the event linked to a remote
\* event of the appointment that no row knows, or not linked.
LEMMA StoredTables ==
  ASSUME TypeInv, TablesInv, NEW a \in Appointments, NEW src \in Sources,
         NEW g \in 0 .. Len(remotes),
         g # 0 => g \in DOMAIN remotes /\ remotes[g] = a /\ ~HasRow(g),
         items' = Append(items, NewItem(a, src)),
         events' = Append(events, NewEvent(Len(items) + 1, g)),
         UNCHANGED <<remotes, interrupted>>
  PROVE  /\ TablesInv'
         /\ ItemsKept /\ EventsKept
         /\ items' \in Seq(ItemRow) /\ events' \in Seq(EventRow)
         /\ DOMAIN items' = DOMAIN items \cup {Len(items) + 1}
         /\ Len(items) + 1 \notin DOMAIN items
         /\ items'[Len(items) + 1].appt = a
         /\ items'[Len(items) + 1].source = src
         /\ DOMAIN events' = DOMAIN events \cup {Len(events) + 1}
         /\ Len(events) + 1 \notin DOMAIN events
         /\ events'[Len(events) + 1].item = Len(items) + 1
         /\ events'[Len(events) + 1].gcal = g
         /\ \A e \in DOMAIN events' :
              events'[e].item \in DOMAIN items' /\ events'[e].gcal \in 0 .. Len(remotes')
<1>. DEFINE i == Len(items) + 1
            e == Len(events) + 1
<1>1. items \in Seq(ItemRow) /\ events \in Seq(EventRow)
      /\ Len(items) \in Nat /\ i \in Nat /\ g \in Nat
      /\ remotes \in Seq(Appointments)
  BY DEF TypeInv
<1>2. /\ NewItem(a, src) \in ItemRow
      /\ NewItem(a, src).appt = a /\ NewItem(a, src).source = src
      /\ NewItem(a, src).status = "ativa"
      /\ NewEvent(i, g) \in EventRow
      /\ NewEvent(i, g).item = i /\ NewEvent(i, g).gcal = g
      /\ NewEvent(i, g).active /\ NewEvent(i, g).armed
  BY <1>1, NewRows
<1>3. /\ items' \in Seq(ItemRow) /\ DOMAIN items' = DOMAIN items \cup {i}
      /\ i \notin DOMAIN items
      /\ \A j \in DOMAIN items : items'[j] = items[j]
      /\ items'[i] = NewItem(a, src)
  <2>1. DOMAIN items = 1 .. Len(items) /\ DOMAIN items' = 1 .. Len(items) + 1
    BY <1>1, <1>2, Appended
  <2>2. DOMAIN items' = DOMAIN items \cup {i} /\ i \notin DOMAIN items
    BY <1>1, <2>1
  <2>. QED
    BY <1>1, <1>2, <2>2, Appended
<1>4. /\ events' \in Seq(EventRow) /\ DOMAIN events' = DOMAIN events \cup {e}
      /\ e \notin DOMAIN events
      /\ \A f \in DOMAIN events : events'[f] = events[f]
      /\ events'[e] = NewEvent(i, g)
  <2>1. DOMAIN events = 1 .. Len(events) /\ DOMAIN events' = 1 .. Len(events) + 1
    BY <1>1, <1>2, Appended
  <2>2. DOMAIN events' = DOMAIN events \cup {e} /\ e \notin DOMAIN events
    BY <1>1, <2>1
  <2>. QED
    BY <1>1, <1>2, <2>2, Appended
<1>5. \A f \in DOMAIN events :
        events[f].item \in DOMAIN items /\ events[f].gcal \in 0 .. Len(remotes)
  BY DEF TypeInv
<1>. HIDE DEF i, e
<1>6. ItemsKept /\ EventsKept
  BY <1>3, <1>4 DEF ItemsKept, EventsKept
<1>7. \A f \in DOMAIN events' :
        events'[f].item \in DOMAIN items' /\ events'[f].gcal \in 0 .. Len(remotes')
  BY <1>2, <1>3, <1>4, <1>5, SMTT(40)
<1>8. OneLive'
  BY <1>2, <1>3, <1>4, <1>5 DEF TablesInv, OneLive
<1>9. DroppedIsQuiet'
  BY <1>2, <1>3, <1>4, <1>5 DEF TablesInv, DroppedIsQuiet
<1>10. LinksMatch'
  <2>1. g # 0 => \A f \in DOMAIN events : events[f].gcal # g
    BY DEF HasRow
  <2>2. ASSUME NEW f \in DOMAIN events', events'[f].gcal # 0
        PROVE  remotes'[events'[f].gcal] = items'[events'[f].item].appt
    <3>1. CASE f = e
      BY <1>2, <1>3, <1>4, <2>2, <3>1
    <3>2. CASE f # e
      BY <1>3, <1>4, <1>5, <2>2, <3>2 DEF TablesInv, LinksMatch
    <3>. QED
      BY <3>1, <3>2
  <2>3. ASSUME NEW f \in DOMAIN events', events'[f].gcal # 0,
               NEW h \in DOMAIN events', events'[h].gcal = events'[f].gcal
        PROVE  h = f
    <3>1. CASE f = e \/ h = e
      BY <1>2, <1>4, <2>1, <2>3, <3>1
    <3>2. CASE f # e /\ h # e
      BY <1>4, <2>3, <3>2 DEF TablesInv, LinksMatch
    <3>. QED
      BY <3>1, <3>2
  <2>. QED
    BY <2>2, <2>3, Zenon DEF LinksMatch
<1>. QED
  BY <1>2, <1>3, <1>4, <1>6, <1>7, <1>8, <1>9, <1>10 DEF TablesInv, i, e

LEMMA CaptureStep ==
  ASSUME IInv, NEW a \in Appointments, Capture(a)  PROVE  IInv'
<1>1. /\ origin[a] = "none"
      /\ origin' = [origin EXCEPT ![a] = "capture"]
      /\ items' = Append(items, NewItem(a, "capture"))
      /\ events' = Append(events, NewEvent(Len(items) + 1, 0))
      /\ calls' = [calls EXCEPT ![a] =
                     [path |-> "capture", event |-> Len(events) + 1, gcal |-> 0]]
      /\ UNCHANGED <<remotes, open, listed, interrupted, exposed>>
  BY DEF Capture
<1>2. TypeInv /\ TablesInv /\ ApptInv
  BY DEF IInv
<1>3. "capture" \in Sources /\ 0 \in 0 .. Len(remotes) /\ Len(events) \in Nat
  BY <1>2 DEF Sources, TypeInv
<1>4. /\ TablesInv'
      /\ ItemsKept /\ EventsKept
      /\ items' \in Seq(ItemRow) /\ events' \in Seq(EventRow)
      /\ DOMAIN items' = DOMAIN items \cup {Len(items) + 1}
      /\ items'[Len(items) + 1].appt = a
      /\ DOMAIN events' = DOMAIN events \cup {Len(events) + 1}
      /\ Len(events) + 1 \notin DOMAIN events
      /\ events'[Len(events) + 1].item = Len(items) + 1
      /\ events'[Len(events) + 1].gcal = 0
      /\ \A e \in DOMAIN events' :
           events'[e].item \in DOMAIN items' /\ events'[e].gcal \in 0 .. Len(remotes')
  BY <1>1, <1>2, <1>3, StoredTables
<1>5. /\ calls' \in [Appointments -> Call]
      /\ calls'[a].path = "capture" /\ calls'[a].event = Len(events) + 1
      /\ calls'[a].gcal = 0
      /\ \A b \in Appointments \ {a} : calls'[b] = calls[b]
  BY <1>1, <1>2, <1>3 DEF TypeInv, Call
<1>6. /\ origin' \in [Appointments -> Sources \cup {"none"}]
      /\ origin'[a] = "capture"
      /\ \A b \in Appointments \ {a} : origin'[b] = origin[b]
  BY <1>1, <1>2, <1>3 DEF TypeInv
<1>7. TypeInv'
  BY <1>1, <1>2, <1>4, <1>5, <1>6 DEF TypeInv
<1>8. ApptInv'
  <2>. SUFFICES ASSUME NEW b \in Appointments
       PROVE  (CallInv(b) /\ EntryInv(b) /\ SingleInv(b))'
    BY DEF ApptInv
  <2>1. CallInv(b) /\ EntryInv(b) /\ SingleInv(b) /\ EntryInv(a)
    BY <1>2 DEF ApptInv
  <2>2. \A j \in DOMAIN items : items'[j].appt = items[j].appt
                                /\ items'[j].source = items[j].source
    BY <1>4 DEF ItemsKept
  <2>3. CASE b = a
    <3>1. CallInv(a)'
      BY <1>4, <1>5 DEF CallInv
    <3>2. EntryInv(a)'
      BY <1>1, <1>5, <1>6, <2>1, <2>3 DEF EntryInv
    <3>3. SingleInv(a)'
      BY <1>1, <1>4, <1>5, <1>6, <2>1, <2>2, <2>3 DEF SingleInv, EntryInv, TypeInv, IInv
    <3>. QED
      BY <2>3, <3>1, <3>2, <3>3
  <2>4. CASE b # a
    <3>1. CallInv(b)'
      BY <1>1, <1>2, <1>4, <1>5, <2>1, <2>2, <2>4
         DEF CallInv, EventsKept, TypeInv
    <3>2. EntryInv(b)'
      BY <1>1, <1>4, <1>5, <1>6, <2>1, <2>2, <2>4, HasRowKept DEF EntryInv
    <3>3. SingleInv(b)'
      BY <1>1, <1>4, <1>5, <1>6, <2>1, <2>2, <2>4, HasRowKept DEF SingleInv
    <3>. QED
      BY <3>1, <3>2, <3>3
  <2>. QED
    BY <2>3, <2>4
<1>. QED
  BY <1>4, <1>7, <1>8 DEF IInv

\* A step that leaves the tables, Google and the agenda alone.
LEMMA BrainCreatesStep ==
  ASSUME IInv, NEW a \in Appointments, BrainCreates(a)  PROVE  IInv'
<1>1. /\ origin[a] = "none" \/ a \in open
      /\ calls[a] = NoCall
      /\ origin' = [origin EXCEPT ![a] = "brain"]
      /\ open' = open \cup {a}
      /\ UNCHANGED <<items, events, remotes, listed, interrupted>>
  BY DEF BrainCreates
<1>2. TypeInv /\ TablesInv /\ ApptInv
  BY DEF IInv
<1>3. CallInv(a) /\ EntryInv(a) /\ SingleInv(a)
  BY <1>2 DEF ApptInv
<1>4. /\ origin' \in [Appointments -> Sources \cup {"none"}]
      /\ origin'[a] = "brain"
      /\ \A b \in Appointments \ {a} : origin'[b] = origin[b]
  BY <1>1, <1>2 DEF TypeInv, Sources
<1>5. /\ calls' \in [Appointments -> Call]
      /\ calls'[a].path \in {"none", "brain"} /\ calls'[a].gcal = 0
      /\ \A b \in Appointments \ {a} : calls'[b] = calls[b]
  <2>1. CASE ExistingBrainEvent(a)
    BY <1>1, <1>2, <2>1 DEF BrainCreates, TypeInv, NoCall
  <2>2. CASE ~ExistingBrainEvent(a)
    <3>1. calls' = [calls EXCEPT ![a] =
                      [path |-> "brain", event |-> 0, gcal |-> 0]]
      BY <2>2 DEF BrainCreates
    <3>. QED
      BY <1>2, <3>1 DEF TypeInv, Call
  <2>. QED
    BY <2>1, <2>2
<1>6. /\ exposed' \subseteq Appointments /\ exposed \subseteq exposed'
      /\ calls'[a].path = "brain" /\ a \notin exposed' => BrainItems(a) = {}
  <2>1. CASE ExistingBrainEvent(a)
    <3>1. calls'[a].path = "none" /\ exposed' = exposed
      BY <1>1, <2>1 DEF BrainCreates, NoCall
    <3>. QED
      BY <1>2, <3>1 DEF TypeInv
  <2>2. CASE ~ExistingBrainEvent(a)
    <3>1. exposed' = IF BrainItems(a) = {} THEN exposed ELSE exposed \cup {a}
      BY <2>2 DEF BrainCreates
    <3>. QED
      BY <1>2, <3>1 DEF TypeInv
  <2>. QED
    BY <2>1, <2>2
<1>7. TypeInv'
  BY <1>1, <1>2, <1>4, <1>5, <1>6 DEF TypeInv
<1>8. TablesInv'
  BY <1>1, <1>2, TablesUnchanged
<1>9. ApptInv'
  <2>. SUFFICES ASSUME NEW b \in Appointments
       PROVE  (CallInv(b) /\ EntryInv(b) /\ SingleInv(b))'
    BY DEF ApptInv
  <2>1. CallInv(b) /\ EntryInv(b) /\ SingleInv(b)
    BY <1>2 DEF ApptInv
  <2>2. CASE b = a
    <3>1. CallInv(a)'
      BY <1>5 DEF CallInv
    <3>2. EntryInv(a)'
      BY <1>4, <1>5 DEF EntryInv
    <3>3. SingleInv(a)'
      <4>. SUFFICES ASSUME a \notin exposed'
           PROVE  SingleInv(a)'
        BY DEF SingleInv
      <4>1. a \notin exposed
        BY <1>6
      <4>2. \A j \in DOMAIN items : items[j].appt = a => items[j].source = "brain"
        BY <1>1, <1>3, <4>1 DEF EntryInv, SingleInv
      <4>3. calls'[a].path = "brain" => \A j \in DOMAIN items : items[j].appt # a
        BY <1>6, <4>2 DEF BrainItems
      <4>4. \A g \in listed : remotes[g] = a => HasRow(g)
        BY <1>1, <1>2, <1>3, <4>1 DEF EntryInv, SingleInv, TypeInv
      <4>. QED
        BY <1>1, <1>3, <1>4, <4>1, <4>2, <4>3, <4>4 DEF SingleInv, HasRow
    <3>. QED
      BY <2>2, <3>1, <3>2, <3>3
  <2>3. CASE b # a
    <3>1. CallInv(b)'
      BY <1>1, <1>5, <2>1, <2>3 DEF CallInv
    <3>2. EntryInv(b)'
      BY <1>1, <1>4, <1>5, <2>1, <2>3 DEF EntryInv, HasRow
    <3>3. SingleInv(b)'
      BY <1>1, <1>4, <1>5, <1>6, <2>1, <2>3 DEF SingleInv, HasRow
    <3>. QED
      BY <3>1, <3>2, <3>3
  <2>. QED
    BY <2>2, <2>3
<1>. QED
  BY <1>7, <1>8, <1>9 DEF IInv

\* Google has one event more; what the rows are linked to is not touched.
LEMMA RemoteAdded ==
  ASSUME TypeInv, TablesInv, NEW a \in Appointments,
         remotes' = Append(remotes, a), UNCHANGED <<items, events, interrupted>>
  PROVE  /\ TablesInv'
         /\ remotes' \in Seq(Appointments)
         /\ Len(remotes) \in Nat /\ Len(remotes') = Len(remotes) + 1
         /\ DOMAIN remotes' = DOMAIN remotes \cup {Len(remotes) + 1}
         /\ Len(remotes) + 1 \notin DOMAIN remotes
         /\ \A g \in DOMAIN remotes : remotes'[g] = remotes[g]
         /\ remotes'[Len(remotes) + 1] = a
         /\ \A e \in DOMAIN events' :
              events'[e].item \in DOMAIN items' /\ events'[e].gcal \in 0 .. Len(remotes')
<1>1. remotes \in Seq(Appointments)
  BY DEF TypeInv
<1>2. /\ remotes' \in Seq(Appointments)
      /\ DOMAIN remotes = 1 .. Len(remotes) /\ Len(remotes) \in Nat
      /\ DOMAIN remotes' = 1 .. Len(remotes) + 1
      /\ Len(remotes') = Len(remotes) + 1
      /\ \A g \in DOMAIN remotes : remotes'[g] = remotes[g]
      /\ remotes'[Len(remotes) + 1] = a
  BY <1>1, Appended
<1>3. /\ DOMAIN remotes' = DOMAIN remotes \cup {Len(remotes) + 1}
      /\ Len(remotes) + 1 \notin DOMAIN remotes
  BY <1>2
<1>4. \A e \in DOMAIN events :
        events[e].item \in DOMAIN items /\ events[e].gcal \in 0 .. Len(remotes)
  BY DEF TypeInv
<1>5. \A e \in DOMAIN events : events[e].gcal # 0 => events[e].gcal \in DOMAIN remotes
  BY <1>2, <1>4
<1>6. LinksMatch'
  BY <1>2, <1>5 DEF TablesInv, LinksMatch
<1>7. OneLive' /\ DroppedIsQuiet'
  BY DEF TablesInv, OneLive, DroppedIsQuiet
<1>8. \A e \in DOMAIN events' :
        events'[e].item \in DOMAIN items' /\ events'[e].gcal \in 0 .. Len(remotes')
  BY <1>2, <1>4
<1>. QED
  BY <1>2, <1>3, <1>6, <1>7, <1>8 DEF TablesInv

LEMMA AppearsInGoogleStep ==
  ASSUME IInv, NEW a \in Appointments, AppearsInGoogle(a)  PROVE  IInv'
<1>1. /\ origin[a] = "none"
      /\ origin' = [origin EXCEPT ![a] = "google"]
      /\ remotes' = Append(remotes, a)
      /\ UNCHANGED <<items, events, open, calls, listed, interrupted, exposed>>
  BY DEF AppearsInGoogle
<1>2. TypeInv /\ TablesInv /\ ApptInv
  BY DEF IInv
<1>3. /\ TablesInv'
      /\ remotes' \in Seq(Appointments)
      /\ DOMAIN remotes' = DOMAIN remotes \cup {Len(remotes) + 1}
      /\ Len(remotes) + 1 \notin DOMAIN remotes
      /\ \A g \in DOMAIN remotes : remotes'[g] = remotes[g]
      /\ remotes'[Len(remotes) + 1] = a
      /\ \A e \in DOMAIN events' :
           events'[e].item \in DOMAIN items' /\ events'[e].gcal \in 0 .. Len(remotes')
  BY <1>1, <1>2, RemoteAdded
<1>4. /\ origin' \in [Appointments -> Sources \cup {"none"}]
      /\ origin'[a] = "google"
      /\ \A b \in Appointments \ {a} : origin'[b] = origin[b]
  BY <1>1, <1>2 DEF TypeInv, Sources
<1>5. TypeInv'
  BY <1>1, <1>2, <1>3, <1>4 DEF TypeInv
<1>6. ApptInv'
  <2>. SUFFICES ASSUME NEW b \in Appointments
       PROVE  (CallInv(b) /\ EntryInv(b) /\ SingleInv(b))'
    BY DEF ApptInv
  <2>1. CallInv(b) /\ EntryInv(b) /\ SingleInv(b)
    BY <1>2 DEF ApptInv
  <2>2. CallInv(b)'
    BY <1>1, <1>3, <2>1 DEF CallInv
  <2>3. CASE b = a
    <3>1. EntryInv(a)'
      BY <1>1, <1>3, <1>4, <2>1, <2>3 DEF EntryInv
    <3>2. SingleInv(a)'
      BY <1>1, <1>2, <1>4, <2>1, <2>3 DEF SingleInv, EntryInv
    <3>. QED
      BY <2>2, <2>3, <3>1, <3>2
  <2>4. CASE b # a
    <3>1. EntryInv(b)'
      BY <1>1, <1>3, <1>4, <2>1, <2>4 DEF EntryInv, HasRow
    <3>2. SingleInv(b)'
      BY <1>1, <1>2, <1>3, <1>4, <2>1, <2>4 DEF SingleInv, HasRow, TypeInv
    <3>. QED
      BY <2>2, <3>1, <3>2
  <2>. QED
    BY <2>3, <2>4
<1>. QED
  BY <1>3, <1>5, <1>6 DEF IInv

-----------------------------------------------------------------------------
(* The call to Google and its answer.                                      *)

LEMMA InsertEventStep ==
  ASSUME IInv, NEW a \in Appointments, InsertEvent(a)  PROVE  IInv'
<1>1. /\ calls[a].path # "none" /\ calls[a].gcal = 0
      /\ remotes' = Append(remotes, a)
      /\ calls' = [calls EXCEPT ![a].gcal = Len(remotes) + 1]
      /\ UNCHANGED <<items, events, origin, open, listed, interrupted, exposed>>
  BY DEF InsertEvent
<1>2. TypeInv /\ TablesInv /\ ApptInv
  BY DEF IInv
<1>3. /\ TablesInv'
      /\ remotes' \in Seq(Appointments)
      /\ Len(remotes) \in Nat
      /\ DOMAIN remotes' = DOMAIN remotes \cup {Len(remotes) + 1}
      /\ Len(remotes) + 1 \notin DOMAIN remotes
      /\ \A g \in DOMAIN remotes : remotes'[g] = remotes[g]
      /\ remotes'[Len(remotes) + 1] = a
      /\ \A e \in DOMAIN events' :
           events'[e].item \in DOMAIN items' /\ events'[e].gcal \in 0 .. Len(remotes')
  BY <1>1, <1>2, RemoteAdded
<1>4. /\ calls' \in [Appointments -> Call]
      /\ calls'[a].path = calls[a].path /\ calls'[a].event = calls[a].event
      /\ calls'[a].gcal = Len(remotes) + 1
      /\ \A b \in Appointments \ {a} : calls'[b] = calls[b]
  <2>1. calls \in [Appointments -> Call] /\ calls[a] \in Call
    BY <1>2 DEF TypeInv
  <2>2. [calls[a] EXCEPT !.gcal = Len(remotes) + 1] \in Call
    BY <1>3, <2>1, SMTT(40) DEF Call
  <2>3. calls' = [calls EXCEPT ![a] = [calls[a] EXCEPT !.gcal = Len(remotes) + 1]]
    BY <1>1
  <2>4. calls'[a] = [calls[a] EXCEPT !.gcal = Len(remotes) + 1]
    BY <2>1, <2>3
  <2>5. /\ calls'[a].path = calls[a].path /\ calls'[a].event = calls[a].event
        /\ calls'[a].gcal = Len(remotes) + 1
    BY <2>1, <2>4 DEF Call
  <2>. QED
    BY <2>1, <2>2, <2>3, <2>5
<1>5. TypeInv'
  BY <1>1, <1>2, <1>3, <1>4 DEF TypeInv
<1>6. ApptInv'
  <2>. SUFFICES ASSUME NEW b \in Appointments
       PROVE  (CallInv(b) /\ EntryInv(b) /\ SingleInv(b))'
    BY DEF ApptInv
  <2>1. CallInv(b) /\ EntryInv(b) /\ SingleInv(b)
    BY <1>2 DEF ApptInv
  <2>2. CallInv(b)'
    BY <1>1, <1>3, <1>4, <2>1 DEF CallInv
  <2>3. \A g \in DOMAIN remotes' : remotes'[g] = b /\ b # a =>
          g \in DOMAIN remotes /\ remotes[g] = b
    BY <1>3
  <2>4. calls'[b].path = calls[b].path
    BY <1>4
  <2>5. origin[a] # "none" /\ origin[a] # "google"
    BY <1>1, <1>2 DEF ApptInv, EntryInv, TypeInv, Call
  <2>6. EntryInv(b)'
    BY <1>1, <1>3, <2>1, <2>3, <2>4, <2>5 DEF EntryInv, HasRow
  <2>7. SingleInv(b)'
    BY <1>1, <1>2, <1>3, <2>1, <2>4 DEF SingleInv, HasRow, TypeInv
  <2>. QED
    BY <2>2, <2>6, <2>7
<1>. QED
  BY <1>3, <1>5, <1>6 DEF IInv

LEMMA CallFailsStep ==
  ASSUME IInv, NEW a \in Appointments, CallFails(a)  PROVE  IInv'
<1>1. /\ calls' = [calls EXCEPT ![a] = NoCall]
      /\ open' = open \/ open' = open \ {a}
      /\ UNCHANGED <<items, events, remotes, origin, listed, interrupted, exposed>>
  BY DEF CallFails
<1>2. TypeInv /\ TablesInv /\ ApptInv
  BY DEF IInv
<1>3. /\ calls' \in [Appointments -> Call]
      /\ calls'[a].path = "none" /\ calls'[a].gcal = 0
      /\ \A b \in Appointments \ {a} : calls'[b] = calls[b]
  BY <1>1, <1>2 DEF TypeInv, Call, NoCall
<1>4. open' \subseteq open
  BY <1>1
<1>5. TypeInv'
  BY <1>1, <1>2, <1>3, <1>4 DEF TypeInv
<1>6. TablesInv'
  BY <1>1, <1>2, TablesUnchanged
<1>7. ApptInv'
  <2>. SUFFICES ASSUME NEW b \in Appointments
       PROVE  (CallInv(b) /\ EntryInv(b) /\ SingleInv(b))'
    BY DEF ApptInv
  <2>1. CallInv(b) /\ EntryInv(b) /\ SingleInv(b)
    BY <1>2 DEF ApptInv
  <2>2. calls'[b] = calls[b] \/ (calls'[b].path = "none" /\ calls'[b].gcal = 0)
    BY <1>3
  <2>3. CallInv(b)'
    BY <1>1, <2>1, <2>2 DEF CallInv
  <2>4. EntryInv(b)'
    BY <1>1, <1>4, <2>1, <2>2 DEF EntryInv, HasRow
  <2>5. SingleInv(b)'
    BY <1>1, <2>1, <2>2 DEF SingleInv, HasRow
  <2>. QED
    BY <2>3, <2>4, <2>5
<1>. QED
  BY <1>5, <1>6, <1>7 DEF IInv

LEMMA BrainRepliesStep ==
  ASSUME IInv, NEW a \in Appointments, BrainReplies(a)  PROVE  IInv'
<1>1. /\ open' = open \ {a}
      /\ UNCHANGED <<items, events, remotes, origin, calls, listed, interrupted,
                     exposed>>
  BY DEF BrainReplies
<1>2. TypeInv /\ TablesInv /\ ApptInv
  BY DEF IInv
<1>3. TypeInv'
  BY <1>1, <1>2 DEF TypeInv
<1>4. TablesInv'
  BY <1>1, <1>2, TablesUnchanged
<1>5. ApptInv'
  BY <1>1, <1>2 DEF ApptInv, CallInv, EntryInv, SingleInv, HasRow
<1>. QED
  BY <1>3, <1>4, <1>5 DEF IInv

\* A step that only takes the answer of a call away.
LEMMA AnswerDropped ==
  ASSUME IInv, NEW a \in Appointments, calls' = [calls EXCEPT ![a] = NoCall],
         UNCHANGED <<items, events, remotes, origin, open, listed, interrupted,
                     exposed>>
  PROVE  IInv'
<1>1. CallFails(a) \/ calls[a].path = "none"
  BY DEF CallFails
<1>2. CASE CallFails(a)
  BY <1>2, CallFailsStep
<1>3. CASE calls[a].path = "none"
  <2>1. TypeInv /\ TablesInv /\ ApptInv
    BY DEF IInv
  <2>2. /\ calls' \in [Appointments -> Call]
        /\ calls'[a].path = "none" /\ calls'[a].gcal = 0
        /\ \A b \in Appointments \ {a} : calls'[b] = calls[b]
    BY <2>1 DEF TypeInv, Call, NoCall
  <2>3. TypeInv' /\ TablesInv'
    BY <2>1, <2>2, TablesUnchanged DEF TypeInv
  <2>4. ApptInv'
    BY <2>1, <2>2 DEF ApptInv, CallInv, EntryInv, SingleInv, HasRow
  <2>. QED
    BY <2>3, <2>4 DEF IInv
<1>. QED
  BY <1>1, <1>2, <1>3

LEMMA SetGcalIdStep ==
  ASSUME IInv, NEW a \in Appointments, SetGcalId(a)  PROVE  IInv'
<1>. DEFINE g == calls[a].gcal
            w == calls[a].event
<1>1. /\ calls[a].path = "capture" /\ g # 0
      /\ calls' = [calls EXCEPT ![a] = NoCall]
      /\ UNCHANGED <<items, remotes, origin, open, listed, interrupted, exposed>>
  BY DEF SetGcalId
<1>2. TypeInv /\ TablesInv /\ ApptInv
  BY DEF IInv
<1>3. CASE HasRow(g)
  <2>1. events' = events
    BY <1>3 DEF SetGcalId
  <2>. QED
    BY <1>1, <2>1, AnswerDropped
<1>4. CASE ~HasRow(g)
  <2>1. /\ w \in DOMAIN events /\ events[w].gcal = 0
        /\ items[events[w].item].appt = a
        /\ g \in DOMAIN remotes /\ remotes[g] = a
    BY <1>1, <1>2 DEF ApptInv, CallInv
  <2>2. events \in Seq(EventRow) /\ g \in Nat /\ g \in 0 .. Len(remotes)
    <3>1. remotes \in Seq(Appointments) /\ events \in Seq(EventRow)
      BY <1>2 DEF TypeInv
    <3>. QED
      BY <2>1, <3>1
  <2>3. events' = [events EXCEPT ![w].gcal = g]
    BY <1>4 DEF SetGcalId
  <2>. DEFINE row == [events[w] EXCEPT !.gcal = g]
  <2>. HIDE DEF g, w
  <2>4. /\ row \in EventRow /\ row.item = events[w].item /\ row.gcal = g
        /\ row.active <=> events[w].active
        /\ row.armed <=> events[w].armed
    <3>1. events[w] \in EventRow
      BY <2>1, <2>2
    <3>. QED
      BY <2>2, <3>1 DEF EventRow
  <2>. HIDE DEF row
  <2>5. /\ DOMAIN events' = DOMAIN events /\ events' \in Seq(EventRow)
        /\ Len(events') = Len(events)
        /\ events'[w] = row
        /\ \A e \in DOMAIN events \ {w} : events'[e] = events[e]
    <3>1. events' = [events EXCEPT ![w] = row]
      BY <2>3 DEF row
    <3>. QED
      BY <2>1, <2>2, <2>4, <3>1
  <2>6. /\ events'[w].item = events[w].item /\ events'[w].gcal = g
        /\ events'[w].active <=> events[w].active
        /\ events'[w].armed <=> events[w].armed
    BY <2>4, <2>5
  <2>7. \A e \in DOMAIN events :
          /\ events'[e].item = events[e].item
          /\ events'[e].active <=> events[e].active
          /\ events'[e].armed <=> events[e].armed
          /\ events'[e].gcal = events[e].gcal
             \/ (e = w /\ events[e].gcal = 0 /\ events'[e].gcal = g)
    BY <2>1, <2>5, <2>6
  <2>8. /\ calls' \in [Appointments -> Call]
        /\ calls'[a].path = "none" /\ calls'[a].gcal = 0
        /\ \A b \in Appointments \ {a} : calls'[b] = calls[b]
    BY <1>1, <1>2 DEF TypeInv, Call, NoCall
  <2>9. TypeInv'
    BY <1>1, <1>2, <2>2, <2>5, <2>7, <2>8 DEF TypeInv
  <2>10. TablesInv'
    <3>1. OneLive'
      BY <1>2, <2>5, <2>7 DEF TablesInv, OneLive
    <3>2. DroppedIsQuiet'
      BY <1>1, <1>2, <2>5, <2>7 DEF TablesInv, DroppedIsQuiet
    <3>3. \A e \in DOMAIN events : events[e].gcal # g
      BY <1>4 DEF HasRow
    <3>4. ASSUME NEW e \in DOMAIN events', events'[e].gcal # 0
          PROVE  remotes'[events'[e].gcal] = items'[events'[e].item].appt
      <4>1. CASE e = w
        BY <1>1, <2>1, <2>6, <4>1
      <4>2. CASE e # w
        BY <1>1, <1>2, <2>5, <3>4, <4>2 DEF TablesInv, LinksMatch
      <4>. QED
        BY <4>1, <4>2
    <3>5. ASSUME NEW e \in DOMAIN events', events'[e].gcal # 0,
                 NEW f \in DOMAIN events', events'[f].gcal = events'[e].gcal
          PROVE  f = e
      <4>1. CASE e = w \/ f = w
        BY <2>5, <2>6, <3>3, <3>5, <4>1
      <4>2. CASE e # w /\ f # w
        BY <1>2, <2>5, <3>5, <4>2 DEF TablesInv, LinksMatch
      <4>. QED
        BY <4>1, <4>2
    <3>6. LinksMatch'
      BY <3>4, <3>5, Zenon DEF LinksMatch
    <3>. QED
      BY <3>1, <3>2, <3>6 DEF TablesInv
  <2>11. \A h \in DOMAIN remotes : HasRow(h) => HasRow(h)'
    <3>. SUFFICES ASSUME NEW h \in DOMAIN remotes, HasRow(h)  PROVE  HasRow(h)'
      OBVIOUS
    <3>1. PICK e \in DOMAIN events : events[e].gcal = h
      BY DEF HasRow
    <3>2. h # 0
      BY <1>2 DEF TypeInv
    <3>. QED
      BY <2>5, <2>7, <3>1, <3>2 DEF HasRow
  <2>12. ApptInv'
    <3>. SUFFICES ASSUME NEW b \in Appointments
         PROVE  (CallInv(b) /\ EntryInv(b) /\ SingleInv(b))'
      BY DEF ApptInv
    <3>1. CallInv(b) /\ EntryInv(b) /\ SingleInv(b)
      BY <1>2 DEF ApptInv
    <3>2. calls'[b].path = "none" \/ (b # a /\ calls'[b] = calls[b])
      BY <2>8
    <3>3. CallInv(b)'
      BY <1>1, <2>1, <2>5, <2>7, <2>8, <3>1, <3>2 DEF CallInv
    <3>4. EntryInv(b)'
      BY <1>1, <2>11, <3>1, <3>2 DEF EntryInv
    <3>5. \A h \in listed : remotes[h] = b /\ HasRow(h) => HasRow(h)'
      BY <1>2, <2>11 DEF TypeInv
    <3>6. SingleInv(b)'
      BY <1>1, <3>1, <3>2, <3>5 DEF SingleInv
    <3>. QED
      BY <3>3, <3>4, <3>6
  <2>. QED
    BY <2>9, <2>10, <2>12 DEF IInv
<1>. QED
  BY <1>3, <1>4

LEMMA BrainStoresStep ==
  ASSUME IInv, NEW a \in Appointments, BrainStores(a)  PROVE  IInv'
<1>. DEFINE g == calls[a].gcal
<1>1. /\ calls[a].path = "brain" /\ g # 0
      /\ calls' = [calls EXCEPT ![a] = NoCall]
      /\ UNCHANGED <<remotes, origin, open, listed, interrupted, exposed>>
  BY DEF BrainStores
<1>2. TypeInv /\ TablesInv /\ ApptInv
  BY DEF IInv
<1>3. CASE HasRow(g)
  <2>1. UNCHANGED <<items, events>>
    BY <1>3 DEF BrainStores
  <2>. QED
    BY <1>1, <2>1, AnswerDropped
<1>4. CASE ~HasRow(g)
  <2>1. /\ items' = Append(items, NewItem(a, "brain"))
        /\ events' = Append(events, NewEvent(Len(items) + 1, g))
    BY <1>4 DEF BrainStores
  <2>2. g \in DOMAIN remotes /\ remotes[g] = a /\ origin[a] = "brain"
    BY <1>1, <1>2 DEF ApptInv, CallInv, EntryInv
  <2>3. g \in 0 .. Len(remotes) /\ "brain" \in Sources
    <3>1. remotes \in Seq(Appointments)
      BY <1>2 DEF TypeInv
    <3>. QED
      BY <2>2, <3>1 DEF Sources
  <2>4. /\ TablesInv'
        /\ ItemsKept /\ EventsKept
        /\ items' \in Seq(ItemRow) /\ events' \in Seq(EventRow)
        /\ DOMAIN items' = DOMAIN items \cup {Len(items) + 1}
        /\ items'[Len(items) + 1].appt = a
        /\ items'[Len(items) + 1].source = "brain"
        /\ \A e \in DOMAIN events' :
             events'[e].item \in DOMAIN items' /\ events'[e].gcal \in 0 .. Len(remotes')
    BY <1>1, <1>2, <1>4, <2>1, <2>2, <2>3, StoredTables
  <2>5. /\ calls' \in [Appointments -> Call]
        /\ calls'[a].path = "none" /\ calls'[a].gcal = 0
        /\ \A b \in Appointments \ {a} : calls'[b] = calls[b]
    BY <1>1, <1>2 DEF TypeInv, Call, NoCall
  <2>6. TypeInv'
    BY <1>1, <1>2, <2>4, <2>5 DEF TypeInv
  <2>7. ApptInv'
    <3>. SUFFICES ASSUME NEW b \in Appointments
         PROVE  (CallInv(b) /\ EntryInv(b) /\ SingleInv(b))'
      BY DEF ApptInv
    <3>1. CallInv(b) /\ EntryInv(b) /\ SingleInv(b)
      BY <1>2 DEF ApptInv
    <3>2. \A j \in DOMAIN items : items'[j].appt = items[j].appt
                                  /\ items'[j].source = items[j].source
      BY <2>4 DEF ItemsKept
    <3>3. CASE b = a
      <4>1. CallInv(a)'
        BY <2>5 DEF CallInv
      <4>2. EntryInv(a)'
        BY <1>1, <2>2, <2>5 DEF EntryInv
      <4>3. SingleInv(a)'
        BY <1>1, <2>2, <2>4, <2>5, <3>1, <3>2, <3>3, HasRowKept, ZenonT(60)
        DEF SingleInv
      <4>. QED
        BY <3>3, <4>1, <4>2, <4>3
    <3>4. CASE b # a
      <4>1. CallInv(b)'
        BY <1>1, <1>2, <2>4, <2>5, <3>1, <3>2, <3>4
           DEF CallInv, EventsKept, TypeInv
      <4>2. EntryInv(b)'
        BY <1>1, <2>4, <2>5, <3>1, <3>2, <3>4, HasRowKept DEF EntryInv
      <4>3. SingleInv(b)'
        BY <1>1, <2>4, <2>5, <3>1, <3>2, <3>4, HasRowKept DEF SingleInv
      <4>. QED
        BY <4>1, <4>2, <4>3
    <3>. QED
      BY <3>3, <3>4
  <2>. QED
    BY <2>4, <2>6, <2>7 DEF IInv
<1>. QED
  BY <1>3, <1>4

-----------------------------------------------------------------------------
(* The owner acts on an item.                                              *)

LEMMA StatusSet ==
  ASSUME TypeInv, NEW i \in DOMAIN items, NEW st \in Statuses, Becomes(i, st)
  PROVE  /\ items' \in Seq(ItemRow) /\ DOMAIN items' = DOMAIN items
         /\ ItemsKept
         /\ items'[i].status = st
         /\ \A j \in DOMAIN items \ {i} : items'[j].status = items[j].status
<1>1. items \in Seq(ItemRow) /\ items[i] \in ItemRow
  BY DEF TypeInv
<1>. DEFINE row == [items[i] EXCEPT !.status = st]
<1>2. /\ row \in ItemRow /\ row.status = st /\ row.appt = items[i].appt
      /\ row.source = items[i].source
  BY <1>1 DEF ItemRow
<1>3. items' = [items EXCEPT ![i] = row]
  BY DEF Becomes
<1>. HIDE DEF row
<1>4. /\ items' \in Seq(ItemRow) /\ DOMAIN items' = DOMAIN items
      /\ items'[i] = row /\ \A j \in DOMAIN items \ {i} : items'[j] = items[j]
  BY <1>1, <1>2, <1>3
<1>. QED
  BY <1>2, <1>4 DEF ItemsKept

\* What cancelling does to the rows: no event of i stays active, and those
\* cancelled now have no armed job either, unless only the event was.
LEMMA Cancelled ==
  ASSUME TypeInv, NEW i \in DOMAIN items,
         NEW c \in {CancelChain(i), CancelEventOnly(i)}
  PROVE  /\ c \in Seq(EventRow) /\ DOMAIN c = DOMAIN events
         /\ Len(c) = Len(events)
         /\ \A e \in DOMAIN events :
              /\ c[e].item = events[e].item /\ c[e].gcal = events[e].gcal
              /\ c[e].active => events[e].active /\ events[e].item # i
              /\ events[e].item # i => c[e] = events[e]
              /\ ~events[e].active => c[e] = events[e]
         /\ c = CancelChain(i) =>
              \A e \in DOMAIN events : events[e].active /\ events[e].item = i
                                         => ~c[e].armed
<1>1. events \in Seq(EventRow)
  BY DEF TypeInv
<1>2. ASSUME NEW e \in DOMAIN events
      PROVE  /\ c[e] \in EventRow
             /\ c[e].item = events[e].item /\ c[e].gcal = events[e].gcal
             /\ c[e].active => events[e].active /\ events[e].item # i
             /\ events[e].item # i => c[e] = events[e]
             /\ ~events[e].active => c[e] = events[e]
             /\ c = CancelChain(i) /\ events[e].active /\ events[e].item = i
                  => ~c[e].armed
  <2>1. events[e] \in EventRow
    BY <1>1
  <2>2. CASE e \notin ActiveEvents(i)
    <3>1. c[e] = events[e]
      BY <2>2 DEF CancelChain, CancelEventOnly
    <3>. QED
      BY <2>1, <2>2, <3>1 DEF ActiveEvents
  <2>3. CASE e \in ActiveEvents(i)
    <3>1. events[e].active /\ events[e].item = i
      BY <2>3 DEF ActiveEvents
    <3>2. c[e] = [events[e] EXCEPT !.active = FALSE, !.armed = FALSE]
          \/ c[e] = [events[e] EXCEPT !.active = FALSE]
      BY <2>3 DEF CancelChain, CancelEventOnly
    <3>3. /\ c[e] \in EventRow /\ c[e].active = FALSE
          /\ c[e].item = events[e].item /\ c[e].gcal = events[e].gcal
      BY <2>1, <3>2 DEF EventRow
    <3>4. c = CancelChain(i) => c[e].armed = FALSE
      <4>1. c = CancelChain(i) =>
              c[e] = [events[e] EXCEPT !.active = FALSE, !.armed = FALSE]
        BY <2>3 DEF CancelChain
      <4>. QED
        BY <2>1, <4>1 DEF EventRow
    <3>. QED
      BY <3>1, <3>3, <3>4
  <2>. QED
    BY <2>2, <2>3
<1>3. DOMAIN c = DOMAIN events
  BY DEF CancelChain, CancelEventOnly
<1>4. c = [e \in DOMAIN events |-> c[e]]
  BY DEF CancelChain, CancelEventOnly
<1>5. c \in [DOMAIN events -> EventRow]
  BY <1>2, <1>4
<1>6. c \in Seq(EventRow) /\ Len(c) = Len(events)
  BY <1>1, <1>5, Rewritten
<1>. QED
  BY <1>2, <1>3, <1>6

\* What is left to show of a step on the status of i: its rows of events.
LEMMA StatusStep ==
  ASSUME IInv, NEW i \in DOMAIN items, NEW st \in Statuses, Becomes(i, st),
         EventsKept, events' \in Seq(EventRow),
         \A e \in DOMAIN events' \ DOMAIN events :
           events'[e].item = i /\ events'[e].gcal = 0,
         OneLive', DroppedIsQuiet', interrupted' \subseteq DOMAIN items,
         UNCHANGED <<remotes, origin, open, calls, listed, exposed>>
  PROVE  IInv'
<1>1. TypeInv /\ TablesInv /\ ApptInv
  BY DEF IInv
<1>2. items' \in Seq(ItemRow) /\ DOMAIN items' = DOMAIN items /\ ItemsKept
  BY <1>1, StatusSet
<1>3. \A e \in DOMAIN events :
        events[e].item \in DOMAIN items /\ events[e].gcal \in 0 .. Len(remotes)
  BY <1>1 DEF TypeInv
<1>4. 0 \in 0 .. Len(remotes)
  BY <1>1 DEF TypeInv
<1>5. \A e \in DOMAIN events' :
        events'[e].item \in DOMAIN items' /\ events'[e].gcal \in 0 .. Len(remotes')
  BY <1>2, <1>3, <1>4 DEF EventsKept
<1>6. TypeInv'
  BY <1>1, <1>2, <1>5 DEF TypeInv
<1>7. LinksMatch'
  <2>1. \A e \in DOMAIN events' : events'[e].gcal # 0 =>
          e \in DOMAIN events /\ events[e].gcal = events'[e].gcal
          /\ events[e].item = events'[e].item
    BY DEF EventsKept
  <2>2. ASSUME NEW e \in DOMAIN events', events'[e].gcal # 0
        PROVE  remotes'[events'[e].gcal] = items'[events'[e].item].appt
    BY <1>1, <1>2, <1>3, <2>1, <2>2, SMTT(40)
    DEF TablesInv, LinksMatch, ItemsKept
  <2>3. ASSUME NEW e \in DOMAIN events', events'[e].gcal # 0,
               NEW f \in DOMAIN events', events'[f].gcal = events'[e].gcal
        PROVE  f = e
    BY <1>1, <2>1, <2>3 DEF TablesInv, LinksMatch
  <2>. QED
    BY <2>2, <2>3, Zenon DEF LinksMatch
<1>8. ApptInv'
  BY <1>1, <1>2, ApptKept
<1>. QED
  BY <1>6, <1>7, <1>8 DEF IInv, TablesInv

\* Rows as they were.
LEMMA SameEvents ==
  ASSUME TypeInv, UNCHANGED events
  PROVE  /\ EventsKept /\ events' \in Seq(EventRow)
         /\ DOMAIN events' \ DOMAIN events = {}
         /\ OneLive => OneLive'
  BY DEF TypeInv, EventsKept, OneLive

LEMMA CompleteOrArchiveStep ==
  ASSUME IInv, NEW i \in DOMAIN items, CompleteOrArchive(i)  PROVE  IInv'
<1>1. UNCHANGED <<events, remotes, origin, open, calls, listed, interrupted,
                  exposed>>
  BY DEF CompleteOrArchive
<1>2. PICK st \in {"feita", "arquivada"} : Becomes(i, st)
  BY DEF CompleteOrArchive
<1>3. st \in Statuses /\ st # "dropada"
  BY DEF Statuses
<1>4. TypeInv /\ TablesInv
  BY DEF IInv
<1>5. DroppedIsQuiet'
  <2>1. /\ items'[i].status = st
        /\ \A j \in DOMAIN items \ {i} : items'[j].status = items[j].status
    BY <1>2, <1>3, <1>4, StatusSet
  <2>2. \A e \in DOMAIN events : events[e].item \in DOMAIN items
    BY <1>4 DEF TypeInv
  <2>. QED
    BY <1>1, <1>3, <1>4, <2>1, <2>2 DEF TablesInv, DroppedIsQuiet
<1>6. /\ EventsKept /\ events' \in Seq(EventRow)
      /\ DOMAIN events' \ DOMAIN events = {} /\ OneLive'
  BY <1>1, <1>4, SameEvents DEF TablesInv
<1>7. interrupted' \subseteq DOMAIN items
  BY <1>1, <1>4 DEF TypeInv
<1>. QED
  BY <1>1, <1>2, <1>3, <1>5, <1>6, <1>7, StatusStep

\* Cancelling, with or without the jobs.
LEMMA CancelledEvents ==
  ASSUME TypeInv, OneLive, NEW i \in DOMAIN items,
         events' \in {CancelChain(i), CancelEventOnly(i)}
  PROVE  /\ EventsKept /\ events' \in Seq(EventRow)
         /\ DOMAIN events' = DOMAIN events
         /\ OneLive'
<1>1. /\ events' \in Seq(EventRow) /\ DOMAIN events' = DOMAIN events
      /\ \A e \in DOMAIN events :
           /\ events'[e].item = events[e].item /\ events'[e].gcal = events[e].gcal
           /\ events'[e].active => events[e].active /\ events[e].item # i
  BY Cancelled
<1>. QED
  BY <1>1 DEF EventsKept, OneLive

LEMMA DropStep ==
  ASSUME IInv, NEW i \in DOMAIN items, Drop(i)  PROVE  IInv'
<1>1. /\ Becomes(i, "dropada") /\ events' = CancelChain(i)
      /\ UNCHANGED <<remotes, origin, open, calls, listed, interrupted, exposed>>
  BY DEF Drop
<1>2. "dropada" \in Statuses
  BY DEF Statuses
<1>3. TypeInv /\ TablesInv
  BY DEF IInv
<1>4. /\ EventsKept /\ events' \in Seq(EventRow)
      /\ DOMAIN events' = DOMAIN events /\ OneLive'
  BY <1>1, <1>3, CancelledEvents DEF TablesInv
<1>5. DroppedIsQuiet'
  <2>1. \A j \in DOMAIN items \ {i} : items'[j].status = items[j].status
    BY <1>1, <1>2, <1>3, StatusSet
  <2>2. \A e \in DOMAIN events : events[e].item \in DOMAIN items
    BY <1>3 DEF TypeInv
  <2>3. \A e \in DOMAIN events :
          /\ events'[e].item = events[e].item
          /\ events'[e].active => events[e].active /\ events[e].item # i
          /\ events[e].item # i => events'[e] = events[e]
          /\ ~events[e].active => events'[e] = events[e]
          /\ events[e].active /\ events[e].item = i => ~events'[e].armed
    BY <1>1, <1>3, Cancelled
  <2>. QED
    BY <1>1, <1>3, <1>4, <2>1, <2>2, <2>3 DEF TablesInv, DroppedIsQuiet
<1>6. interrupted' \subseteq DOMAIN items
  BY <1>1, <1>3 DEF TypeInv
<1>. QED
  BY <1>1, <1>2, <1>4, <1>5, <1>6, StatusStep

\* Cancelling and a new row for the item, without gcal_id.
LEMMA MovedEvents ==
  ASSUME TypeInv, OneLive, NEW i \in DOMAIN items, NEW r \in EventRow,
         r.item = i, r.gcal = 0, events' = Append(CancelChain(i), r)
  PROVE  /\ EventsKept /\ events' \in Seq(EventRow)
         /\ \A e \in DOMAIN events : events'[e] = CancelChain(i)[e]
         /\ \A e \in DOMAIN events' \ DOMAIN events : events'[e] = r
         /\ OneLive'
<1>. DEFINE c == CancelChain(i)
<1>1. /\ c \in Seq(EventRow) /\ DOMAIN c = DOMAIN events
      /\ \A e \in DOMAIN events :
           /\ c[e].item = events[e].item /\ c[e].gcal = events[e].gcal
           /\ c[e].active => events[e].active /\ events[e].item # i
  BY Cancelled
<1>. HIDE DEF c
<1>2. events' = Append(c, r)
  BY DEF c
<1>3. /\ events' \in Seq(EventRow)
      /\ \A e \in DOMAIN c : events'[e] = c[e]
      /\ DOMAIN c = 1 .. Len(c) /\ Len(c) \in Nat
      /\ DOMAIN events' = 1 .. Len(c) + 1
      /\ events'[Len(c) + 1] = r
  BY <1>1, <1>2, Appended
<1>4. DOMAIN events' = DOMAIN events \cup {Len(c) + 1}
      /\ Len(c) + 1 \notin DOMAIN events
  BY <1>1, <1>3
<1>5. OneLive'
  BY <1>1, <1>3, <1>4 DEF OneLive
<1>6. EventsKept
  BY <1>1, <1>3, <1>4 DEF EventsKept
<1>. QED
  BY <1>1, <1>3, <1>4, <1>5, <1>6 DEF c

LEMMA SnoozeStep ==
  ASSUME IInv, NEW i \in DOMAIN items, Snooze(i)  PROVE  IInv'
<1>1. /\ Becomes(i, "adiada")
      /\ UNCHANGED <<remotes, origin, open, calls, listed, interrupted, exposed>>
  BY DEF Snooze
<1>2. "adiada" \in Statuses
  BY DEF Statuses
<1>3. TypeInv /\ TablesInv
  BY DEF IInv
<1>4. /\ items'[i].status = "adiada"
      /\ \A j \in DOMAIN items \ {i} : items'[j].status = items[j].status
  BY <1>1, <1>2, <1>3, StatusSet
<1>5. \A e \in DOMAIN events : events[e].item \in DOMAIN items
  BY <1>3 DEF TypeInv
<1>6. interrupted' \subseteq DOMAIN items
  BY <1>1, <1>3 DEF TypeInv
<1>7. CASE ActiveEvents(i) = {}
  <2>1. UNCHANGED events
    BY <1>7 DEF Snooze, Reschedule
  <2>2. /\ EventsKept /\ events' \in Seq(EventRow)
        /\ DOMAIN events' \ DOMAIN events = {} /\ OneLive'
    BY <1>3, <2>1, SameEvents DEF TablesInv
  <2>3. DroppedIsQuiet'
    BY <1>1, <1>3, <1>4, <1>5, <2>1 DEF TablesInv, DroppedIsQuiet
  <2>. QED
    BY <1>1, <1>2, <1>6, <2>2, <2>3, StatusStep
<1>8. CASE ActiveEvents(i) # {}
  <2>1. events' = Append(CancelChain(i), NewEvent(i, 0))
    BY <1>8 DEF Snooze, Reschedule
  <2>2. i \in Nat
    BY <1>3 DEF TypeInv
  <2>3. /\ NewEvent(i, 0) \in EventRow
        /\ NewEvent(i, 0).item = i /\ NewEvent(i, 0).gcal = 0
        /\ NewEvent(i, 0).active
    BY <2>2 DEF NewEvent, EventRow
  <2>4. /\ EventsKept /\ events' \in Seq(EventRow)
        /\ \A e \in DOMAIN events : events'[e] = CancelChain(i)[e]
        /\ \A e \in DOMAIN events' \ DOMAIN events : events'[e] = NewEvent(i, 0)
        /\ OneLive'
    BY <1>3, <2>1, <2>3, MovedEvents DEF TablesInv
  <2>5. DroppedIsQuiet'
    <3>1. \A e \in DOMAIN events :
            /\ events'[e].item = events[e].item
            /\ events'[e].active => events[e].active /\ events[e].item # i
            /\ events[e].item # i => events'[e] = events[e]
            /\ ~events[e].active => events'[e] = events[e]
            /\ events[e].active /\ events[e].item = i => ~events'[e].armed
      BY <1>3, <2>4, Cancelled
    <3>2. ASSUME NEW e \in DOMAIN events', events'[e].item \notin interrupted'
          PROVE  /\ items'[events'[e].item].status = "dropada" => ~events'[e].active
                 /\ ~events'[e].active => ~events'[e].armed
      <4>1. CASE e \in DOMAIN events
        BY <1>1, <1>3, <1>4, <1>5, <3>1, <3>2, <4>1 DEF TablesInv, DroppedIsQuiet
      <4>2. CASE e \notin DOMAIN events
        BY <1>4, <2>3, <2>4, <4>2
      <4>. QED
        BY <4>1, <4>2
    <3>. QED
      BY <3>2 DEF DroppedIsQuiet
  <2>. QED
    BY <1>1, <1>2, <1>6, <2>3, <2>4, <2>5, StatusStep
<1>. QED
  BY <1>7, <1>8

LEMMA HandlerCutShortStep ==
  ASSUME IInv, NEW i \in DOMAIN items, HandlerCutShort(i)  PROVE  IInv'
<1>1. /\ interrupted' = interrupted \cup {i}
      /\ UNCHANGED <<remotes, origin, open, calls, listed, exposed>>
  BY DEF HandlerCutShort
<1>2. PICK st \in {"dropada", "adiada"} : Becomes(i, st)
  BY DEF HandlerCutShort
<1>3. st \in Statuses
  BY DEF Statuses
<1>4. TypeInv /\ TablesInv
  BY DEF IInv
<1>5. \A j \in DOMAIN items \ {i} : items'[j].status = items[j].status
  BY <1>2, <1>3, <1>4, StatusSet
<1>6. /\ \A e \in DOMAIN events : events[e].item \in DOMAIN items
      /\ interrupted' \subseteq DOMAIN items
  BY <1>1, <1>4 DEF TypeInv
<1>7. /\ EventsKept /\ events' \in Seq(EventRow)
      /\ \A e \in DOMAIN events' \ DOMAIN events :
           events'[e].item = i /\ events'[e].gcal = 0
      /\ OneLive'
      /\ \A e \in DOMAIN events : events[e].item # i => events'[e] = events[e]
  <2>1. CASE UNCHANGED events
    BY <1>4, <2>1, SameEvents DEF TablesInv
  <2>2. CASE events' \in {CancelChain(i), CancelEventOnly(i)}
    <3>1. \A e \in DOMAIN events : events[e].item # i => events'[e] = events[e]
      BY <1>4, <2>2, Cancelled
    <3>. QED
      BY <1>4, <2>2, <3>1, CancelledEvents DEF TablesInv
  <2>3. CASE events' = Append(CancelChain(i), [NewEvent(i, 0) EXCEPT !.armed = FALSE])
    <3>. DEFINE r == [NewEvent(i, 0) EXCEPT !.armed = FALSE]
    <3>1. i \in Nat
      BY <1>4 DEF TypeInv
    <3>2. r \in EventRow /\ r.item = i /\ r.gcal = 0
      BY <3>1 DEF NewEvent, EventRow
    <3>. HIDE DEF r
    <3>3. events' = Append(CancelChain(i), r)
      BY <2>3 DEF r
    <3>4. /\ EventsKept /\ events' \in Seq(EventRow)
          /\ \A e \in DOMAIN events : events'[e] = CancelChain(i)[e]
          /\ \A e \in DOMAIN events' \ DOMAIN events : events'[e] = r
          /\ OneLive'
      BY <1>4, <3>2, <3>3, MovedEvents DEF TablesInv
    <3>5. \A e \in DOMAIN events :
            events[e].item # i => CancelChain(i)[e] = events[e]
      BY <1>4, Cancelled
    <3>. QED
      BY <3>2, <3>4, <3>5
  <2>. QED
    BY <2>1, <2>2, <2>3 DEF HandlerCutShort
<1>8. DroppedIsQuiet'
  <2>1. ASSUME NEW e \in DOMAIN events', events'[e].item \notin interrupted'
        PROVE  /\ items'[events'[e].item].status = "dropada" => ~events'[e].active
               /\ ~events'[e].active => ~events'[e].armed
    <3>1. e \in DOMAIN events /\ events'[e].item = events[e].item
          /\ events[e].item # i /\ events[e].item \notin interrupted
      BY <1>1, <1>7, <2>1 DEF EventsKept
    <3>2. events'[e] = events[e]
      BY <1>7, <3>1
    <3>3. items'[events[e].item].status = items[events[e].item].status
      BY <1>5, <1>6, <3>1
    <3>. QED
      BY <1>4, <3>1, <3>2, <3>3 DEF TablesInv, DroppedIsQuiet
  <2>. QED
    BY <2>1 DEF DroppedIsQuiet
<1>. QED
  BY <1>1, <1>2, <1>3, <1>6, <1>7, <1>8, StatusStep

-----------------------------------------------------------------------------
(* listTodayAndSync.                                                       *)

LEMMA ListAgendaStep ==
  ASSUME IInv, ListAgenda  PROVE  IInv'
<1>1. /\ listed' = DOMAIN remotes
      /\ exposed' = exposed \cup
           {a \in Appointments :
              origin[a] # "google" /\ \E g \in Unlinked : remotes[g] = a}
      /\ UNCHANGED <<items, events, remotes, origin, open, calls, interrupted>>
  BY DEF ListAgenda
<1>2. TypeInv /\ TablesInv /\ ApptInv
  BY DEF IInv
<1>3. TypeInv'
  BY <1>1, <1>2 DEF TypeInv
<1>4. TablesInv'
  BY <1>1, <1>2, TablesUnchanged
<1>5. ApptInv'
  <2>. SUFFICES ASSUME NEW a \in Appointments
       PROVE  (CallInv(a) /\ EntryInv(a) /\ SingleInv(a))'
    BY DEF ApptInv
  <2>1. CallInv(a) /\ EntryInv(a) /\ SingleInv(a)
    BY <1>2 DEF ApptInv
  <2>2. CallInv(a)' /\ EntryInv(a)'
    BY <1>1, <2>1 DEF CallInv, EntryInv, HasRow
  <2>3. ASSUME a \notin exposed', origin[a] # "google",
               NEW g \in DOMAIN remotes, remotes[g] = a
        PROVE  HasRow(g)
    BY <1>1, <2>3 DEF Unlinked
  <2>4. SingleInv(a)'
    BY <1>1, <2>1, <2>3 DEF SingleInv, HasRow
  <2>. QED
    BY <2>2, <2>4
<1>. QED
  BY <1>3, <1>4, <1>5 DEF IInv

LEMMA AgendaLostStep ==
  ASSUME IInv, AgendaLost  PROVE  IInv'
<1>1. /\ listed' = {}
      /\ UNCHANGED <<items, events, remotes, origin, open, calls, interrupted,
                     exposed>>
  BY DEF AgendaLost
<1>2. TypeInv /\ TablesInv /\ ApptInv
  BY DEF IInv
<1>3. TypeInv'
  BY <1>1, <1>2 DEF TypeInv
<1>4. TablesInv'
  BY <1>1, <1>2, TablesUnchanged
<1>5. ApptInv'
  BY <1>1, <1>2 DEF ApptInv, CallInv, EntryInv, SingleInv, HasRow
<1>. QED
  BY <1>3, <1>4, <1>5 DEF IInv

LEMMA FreshFinite ==
  ASSUME TypeInv
  PROVE  Cardinality(Fresh) \in Nat
<1>1. remotes \in Seq(Appointments) /\ listed \subseteq DOMAIN remotes
  BY DEF TypeInv
<1>2. Len(remotes) \in Nat /\ DOMAIN remotes = 1 .. Len(remotes)
  BY <1>1
<1>3. IsFiniteSet(1 .. Len(remotes))
  BY <1>2, FS_Interval
<1>4. Fresh \in SUBSET (1 .. Len(remotes))
  BY <1>1, <1>2 DEF Fresh
<1>. QED
  BY <1>3, <1>4, FS_Subset, FS_CardinalityType

\* The rows a sync appends: the k-th item and the k-th event are those of the
\* k-th remote event that had no row.
LEMMA SyncedTables ==
  ASSUME TypeInv, SyncListed
  PROVE  \E n \in Nat : \E fresh \in [1 .. n -> Fresh] :
           LET I == Len(items)
               E == Len(events)
           IN /\ \A j, k \in 1 .. n : j # k => fresh[j] # fresh[k]
              /\ I \in Nat /\ E \in Nat
              /\ items' \in Seq(ItemRow) /\ events' \in Seq(EventRow)
              /\ DOMAIN items = 1 .. I /\ DOMAIN items' = 1 .. I + n
              /\ DOMAIN events = 1 .. E /\ DOMAIN events' = 1 .. E + n
              /\ \A j \in DOMAIN items : items'[j] = items[j]
              /\ \A e \in DOMAIN events : events'[e] = events[e]
              /\ \A k \in 1 .. n :
                   /\ items'[I + k] = NewItem(remotes[fresh[k]], "google")
                   /\ events'[E + k] = NewEvent(I + k, fresh[k])
<1>. DEFINE n == Cardinality(Fresh)
            I == Len(items)
            E == Len(events)
<1>1. n \in Nat
  BY FreshFinite
<1>2. PICK fresh \in [1 .. n -> Fresh] :
        /\ \A j, k \in 1 .. n : j # k => fresh[j] # fresh[k]
        /\ items' = items \o
             [k \in DOMAIN fresh |-> NewItem(remotes[fresh[k]], "google")]
        /\ events' = events \o
             [k \in DOMAIN fresh |-> NewEvent(I + k, fresh[k])]
  BY DEF SyncListed, SetToSeqs
<1>. DEFINE newItems == [k \in 1 .. n |-> NewItem(remotes[fresh[k]], "google")]
            newEvents == [k \in 1 .. n |-> NewEvent(I + k, fresh[k])]
<1>3. items' = items \o newItems /\ events' = events \o newEvents
  BY <1>2
<1>. HIDE DEF n
<1>4. /\ items \in Seq(ItemRow) /\ events \in Seq(EventRow)
      /\ I \in Nat /\ E \in Nat
  BY DEF TypeInv
<1>5. \A k \in 1 .. n : remotes[fresh[k]] \in Appointments /\ fresh[k] \in Nat
                        /\ I + k \in Nat
  <2>1. \A g \in Fresh : remotes[g] \in Appointments /\ g \in Nat
    BY DEF Fresh, TypeInv
  <2>. QED
    BY <1>1, <1>2, <1>4, <2>1
<1>6. newItems \in [1 .. n -> ItemRow]
  <2>1. \A k \in 1 .. n : NewItem(remotes[fresh[k]], "google") \in ItemRow
    BY <1>5 DEF NewItem, ItemRow, Statuses, Sources
  <2>. QED
    BY <2>1
<1>7. newEvents \in [1 .. n -> EventRow]
  <2>1. \A k \in 1 .. n : NewEvent(I + k, fresh[k]) \in EventRow
    BY <1>5 DEF NewEvent, EventRow
  <2>. QED
    BY <2>1
<1>. HIDE DEF newItems, newEvents, I, E
<1>8. /\ items' \in Seq(ItemRow)
      /\ DOMAIN items = 1 .. I /\ DOMAIN items' = 1 .. I + n
      /\ \A j \in DOMAIN items : items'[j] = items[j]
      /\ \A k \in 1 .. n : items'[I + k] = newItems[k]
  BY <1>1, <1>3, <1>4, <1>6, Concatenated DEF I
<1>9. /\ events' \in Seq(EventRow)
      /\ DOMAIN events = 1 .. E /\ DOMAIN events' = 1 .. E + n
      /\ \A e \in DOMAIN events : events'[e] = events[e]
      /\ \A k \in 1 .. n : events'[E + k] = newEvents[k]
  BY <1>1, <1>3, <1>4, <1>7, Concatenated DEF E
<1>10. \A k \in 1 .. n :
         /\ items'[I + k] = NewItem(remotes[fresh[k]], "google")
         /\ events'[E + k] = NewEvent(I + k, fresh[k])
  BY <1>8, <1>9 DEF newItems, newEvents
<1>11. \A j, k \in 1 .. n : j # k => fresh[j] # fresh[k]
  BY <1>2
<1>. QED
  BY <1>1, <1>4, <1>8, <1>9, <1>10, <1>11 DEF I, E

LEMMA SyncListedStep ==
  ASSUME IInv, SyncListed  PROVE  IInv'
<1>. DEFINE I == Len(items)
            E == Len(events)
<1>1. /\ listed' = {}
      /\ UNCHANGED <<remotes, origin, open, calls, interrupted, exposed>>
  BY DEF SyncListed
<1>2. TypeInv /\ TablesInv /\ ApptInv
  BY DEF IInv
<1>. DEFINE Appends(n, fresh) ==
        /\ \A j, k \in 1 .. n : j # k => fresh[j] # fresh[k]
        /\ I \in Nat /\ E \in Nat
        /\ items' \in Seq(ItemRow) /\ events' \in Seq(EventRow)
        /\ DOMAIN items = 1 .. I /\ DOMAIN items' = 1 .. I + n
        /\ DOMAIN events = 1 .. E /\ DOMAIN events' = 1 .. E + n
        /\ \A j \in DOMAIN items : items'[j] = items[j]
        /\ \A e \in DOMAIN events : events'[e] = events[e]
        /\ \A k \in 1 .. n :
             /\ items'[I + k] = NewItem(remotes[fresh[k]], "google")
             /\ events'[E + k] = NewEvent(I + k, fresh[k])
<1>. HIDE DEF I, E
<1>a. \E n \in Nat : \E fresh \in [1 .. n -> Fresh] : Appends(n, fresh)
  BY <1>2, SyncedTables DEF I, E
<1>b. PICK n \in Nat : \E fresh \in [1 .. n -> Fresh] : Appends(n, fresh)
  BY <1>a, Zenon
<1>c. PICK fresh \in [1 .. n -> Fresh] : Appends(n, fresh)
  BY <1>b, Zenon
<1>3. /\ \A j, k \in 1 .. n : j # k => fresh[j] # fresh[k]
      /\ I \in Nat /\ E \in Nat
      /\ items' \in Seq(ItemRow) /\ events' \in Seq(EventRow)
      /\ DOMAIN items = 1 .. I /\ DOMAIN items' = 1 .. I + n
      /\ DOMAIN events = 1 .. E /\ DOMAIN events' = 1 .. E + n
      /\ \A j \in DOMAIN items : items'[j] = items[j]
      /\ \A e \in DOMAIN events : events'[e] = events[e]
      /\ \A k \in 1 .. n :
           /\ items'[I + k] = NewItem(remotes[fresh[k]], "google")
           /\ events'[E + k] = NewEvent(I + k, fresh[k])
  BY <1>c
<1>. HIDE DEF Appends
<1>4. \A k \in 1 .. n : /\ fresh[k] \in listed /\ fresh[k] \in DOMAIN remotes
                        /\ fresh[k] \in 1 .. Len(remotes) /\ ~HasRow(fresh[k])
  <2>1. \A g \in Fresh : /\ g \in listed /\ g \in DOMAIN remotes
                         /\ g \in 1 .. Len(remotes) /\ ~HasRow(g)
    BY <1>2 DEF Fresh, AlreadySynced, TypeInv
  <2>. QED
    BY <1>3, <2>1
<1>5. \A k \in 1 .. n :
        /\ items'[I + k].appt = remotes[fresh[k]]
        /\ items'[I + k].status = "ativa"
        /\ events'[E + k].item = I + k /\ events'[E + k].gcal = fresh[k]
        /\ events'[E + k].active
  <2>1. ASSUME NEW k \in 1 .. n
        PROVE  /\ items'[I + k].appt = remotes[fresh[k]]
               /\ items'[I + k].status = "ativa"
    <3>1. items'[I + k] = NewItem(remotes[fresh[k]], "google")
      BY <1>3
    <3>. QED
      BY <3>1 DEF NewItem
  <2>2. ASSUME NEW k \in 1 .. n
        PROVE  /\ events'[E + k].item = I + k /\ events'[E + k].gcal = fresh[k]
               /\ events'[E + k].active
    <3>1. events'[E + k] = NewEvent(I + k, fresh[k])
      BY <1>3
    <3>. QED
      BY <3>1 DEF NewEvent
  <2>. QED
    BY <2>1, <2>2
<1>6. \A i \in DOMAIN items' : i \in DOMAIN items \/ \E k \in 1 .. n : i = I + k
  <2>. SUFFICES ASSUME NEW i \in DOMAIN items', i \notin DOMAIN items
       PROVE  \E k \in 1 .. n : i = I + k
    OBVIOUS
  <2>1. i - I \in 1 .. n /\ i = I + (i - I)
    BY <1>3
  <2>. QED
    BY <2>1
<1>7. \A e \in DOMAIN events' : e \in DOMAIN events \/ \E k \in 1 .. n : e = E + k
  <2>. SUFFICES ASSUME NEW e \in DOMAIN events', e \notin DOMAIN events
       PROVE  \E k \in 1 .. n : e = E + k
    OBVIOUS
  <2>1. e - E \in 1 .. n /\ e = E + (e - E)
    BY <1>3
  <2>. QED
    BY <2>1
<1>8. \A k \in 1 .. n : /\ I + k \in DOMAIN items' /\ I + k \notin DOMAIN items
                        /\ E + k \in DOMAIN events' /\ E + k \notin DOMAIN events
  BY <1>3
<1>9. DOMAIN items \subseteq DOMAIN items' /\ DOMAIN events \subseteq DOMAIN events'
  BY <1>3
<1>10. ItemsKept /\ EventsKept
  BY <1>3, <1>9 DEF ItemsKept, EventsKept
<1>11. \A e \in DOMAIN events :
         events[e].item \in DOMAIN items /\ events[e].gcal \in 0 .. Len(remotes)
  BY <1>2 DEF TypeInv
<1>12. TypeInv'
  <2>1. \A k \in 1 .. n : fresh[k] \in 0 .. Len(remotes)
    BY <1>4
  <2>2. ASSUME NEW e \in DOMAIN events'
        PROVE  events'[e].item \in DOMAIN items' /\ events'[e].gcal \in 0 .. Len(remotes)
    <3>1. CASE e \in DOMAIN events
      BY <1>3, <1>9, <1>11, <3>1
    <3>2. CASE e \notin DOMAIN events
      <4>1. PICK k \in 1 .. n : e = E + k
        BY <1>7, <3>2
      <4>. QED
        BY <1>5, <1>8, <2>1, <4>1
    <3>. QED
      BY <3>1, <3>2
  <2>. QED
    BY <1>1, <1>2, <1>3, <1>9, <2>2 DEF TypeInv
<1>13. TablesInv'
  <2>1. ASSUME NEW e \in DOMAIN events', NEW f \in DOMAIN events',
               events'[e].active, events'[f].active,
               events'[e].item = events'[f].item
        PROVE  e = f
    <3>1. CASE e \in DOMAIN events /\ f \in DOMAIN events
      BY <1>2, <1>3, <2>1, <3>1 DEF TablesInv, OneLive
    <3>2. ASSUME NEW x \in DOMAIN events, NEW y \in DOMAIN events' \ DOMAIN events
          PROVE  events'[x].item # events'[y].item
      <4>1. PICK k \in 1 .. n : y = E + k
        BY <1>7
      <4>2. events'[y].item = I + k /\ I + k \notin DOMAIN items
        BY <1>5, <1>8, <4>1
      <4>3. events'[x].item \in DOMAIN items
        BY <1>3, <1>11
      <4>. QED
        BY <4>2, <4>3
    <3>3. CASE e \notin DOMAIN events /\ f \notin DOMAIN events
      <4>1. PICK j \in 1 .. n : e = E + j
        BY <1>7, <3>3
      <4>2. PICK k \in 1 .. n : f = E + k
        BY <1>7, <3>3
      <4>3. I + j = I + k
        BY <1>5, <2>1, <4>1, <4>2
      <4>. QED
        BY <1>3, <4>1, <4>2, <4>3
    <3>. QED
      BY <2>1, <3>1, <3>2, <3>3
  <2>2. ASSUME NEW e \in DOMAIN events', events'[e].item \notin interrupted'
        PROVE  /\ items'[events'[e].item].status = "dropada" => ~events'[e].active
               /\ ~events'[e].active => ~events'[e].armed
    <3>1. CASE e \in DOMAIN events
      BY <1>1, <1>2, <1>3, <1>11, <2>2, <3>1 DEF TablesInv, DroppedIsQuiet
    <3>2. CASE e \notin DOMAIN events
      BY <1>5, <1>7, <3>2
    <3>. QED
      BY <3>1, <3>2
  <2>3. ASSUME NEW e \in DOMAIN events', events'[e].gcal # 0
        PROVE  remotes'[events'[e].gcal] = items'[events'[e].item].appt
    <3>1. CASE e \in DOMAIN events
      BY <1>1, <1>2, <1>3, <1>11, <2>3, <3>1, SMTT(40) DEF TablesInv, LinksMatch
    <3>2. CASE e \notin DOMAIN events
      BY <1>1, <1>5, <1>7, <3>2
    <3>. QED
      BY <3>1, <3>2
  <2>4. ASSUME NEW e \in DOMAIN events', events'[e].gcal # 0,
               NEW f \in DOMAIN events', events'[f].gcal = events'[e].gcal
        PROVE  f = e
    <3>1. CASE e \in DOMAIN events /\ f \in DOMAIN events
      BY <1>2, <1>3, <2>4, <3>1 DEF TablesInv, LinksMatch
    <3>2. ASSUME NEW x \in DOMAIN events, NEW y \in DOMAIN events' \ DOMAIN events
          PROVE  events'[x].gcal # events'[y].gcal
      <4>1. PICK k \in 1 .. n : y = E + k
        BY <1>7
      <4>2. events'[y].gcal = fresh[k] /\ ~HasRow(fresh[k])
        BY <1>4, <1>5, <4>1
      <4>. QED
        BY <1>3, <4>2 DEF HasRow
    <3>3. CASE e \notin DOMAIN events /\ f \notin DOMAIN events
      <4>1. PICK j \in 1 .. n : e = E + j
        BY <1>7, <3>3
      <4>2. PICK k \in 1 .. n : f = E + k
        BY <1>7, <3>3
      <4>3. fresh[j] = fresh[k]
        BY <1>5, <2>4, <4>1, <4>2
      <4>. QED
        BY <1>3, <4>1, <4>2, <4>3
    <3>. QED
      BY <2>4, <3>1, <3>2, <3>3
  <2>5. OneLive' /\ DroppedIsQuiet' /\ LinksMatch'
    <3>1. OneLive'
      BY <2>1, Zenon DEF OneLive
    <3>2. DroppedIsQuiet'
      BY <2>2, Zenon DEF DroppedIsQuiet
    <3>3. LinksMatch'
      BY <2>3, <2>4, Zenon DEF LinksMatch
    <3>. QED
      BY <3>1, <3>2, <3>3
  <2>. QED
    BY <2>5 DEF TablesInv
<1>14. ApptInv'
  <2>. SUFFICES ASSUME NEW a \in Appointments
       PROVE  (CallInv(a) /\ EntryInv(a) /\ SingleInv(a))'
    BY DEF ApptInv
  <2>1. CallInv(a) /\ EntryInv(a) /\ SingleInv(a)
    BY <1>2 DEF ApptInv
  <2>2. CallInv(a)'
    BY <1>1, <1>3, <1>9, <1>11, <2>1 DEF CallInv
  <2>3. \A k \in 1 .. n : items'[I + k].appt = a => remotes[fresh[k]] = a
    BY <1>5
  <2>4. \A k \in 1 .. n : HasRow(fresh[k])'
    BY <1>5, <1>8 DEF HasRow
  <2>5. EntryInv(a)'
    <3>1. origin[a] = "none" => \A i \in DOMAIN items' : items'[i].appt # a
      BY <1>3, <1>4, <1>6, <2>1, <2>3, SMTT(40) DEF EntryInv
    <3>2. ASSUME origin[a] = "google", NEW i \in DOMAIN items',
                 items'[i].appt = a, NEW g \in DOMAIN remotes, remotes[g] = a
          PROVE  HasRow(g)'
      <4>1. CASE i \in DOMAIN items
        BY <1>3, <1>10, <2>1, <3>2, <4>1, HasRowKept DEF EntryInv
      <4>2. CASE i \notin DOMAIN items
        <5>1. PICK k \in 1 .. n : i = I + k
          BY <1>6, <4>2
        <5>2. g = fresh[k]
          BY <1>4, <2>1, <2>3, <3>2, <5>1 DEF EntryInv
        <5>. QED
          BY <2>4, <5>2
      <4>. QED
        BY <4>1, <4>2
    <3>. QED
      BY <1>1, <2>1, <3>1, <3>2 DEF EntryInv
  <2>6. SingleInv(a)'
    <3>. SUFFICES ASSUME a \notin exposed  PROVE  SingleInv(a)'
      BY <1>1 DEF SingleInv
    <3>1. origin[a] # "google" => \A k \in 1 .. n : items'[I + k].appt # a
      BY <1>4, <2>1, <2>3 DEF SingleInv
    <3>2. ASSUME NEW i \in DOMAIN items', NEW j \in DOMAIN items',
                 items'[i].appt = a, items'[j].appt = a
          PROVE  i = j
      <4>1. CASE i \in DOMAIN items /\ j \in DOMAIN items
        BY <1>3, <2>1, <3>2, <4>1 DEF SingleInv
      <4>2. ASSUME NEW k \in 1 .. n, items'[I + k].appt = a,
                   NEW h \in DOMAIN items, items[h].appt = a
            PROVE  FALSE
        <5>1. origin[a] = "google" /\ remotes[fresh[k]] = a
          BY <2>3, <3>1, <4>2
        <5>2. HasRow(fresh[k])
          BY <1>4, <2>1, <4>2, <5>1 DEF EntryInv
        <5>. QED
          BY <1>4, <5>2
      <4>3. ASSUME NEW k \in 1 .. n, items'[I + k].appt = a,
                   NEW l \in 1 .. n, items'[I + l].appt = a
            PROVE  k = l
        <5>1. origin[a] = "google" /\ remotes[fresh[k]] = a /\ remotes[fresh[l]] = a
          BY <2>3, <3>1, <4>3
        <5>2. fresh[k] = fresh[l]
          BY <1>4, <2>1, <5>1 DEF EntryInv
        <5>. QED
          BY <1>3, <5>2
      <4>. QED
        BY <1>3, <1>6, <3>2, <4>1, <4>2, <4>3, SMTT(40)
    <3>3. calls[a].path = "brain" => origin[a] # "google"
      BY <2>1 DEF EntryInv
    <3>4. calls[a].path = "brain" => \A i \in DOMAIN items' : items'[i].appt # a
      BY <1>3, <1>6, <2>1, <3>1, <3>3 DEF SingleInv
    <3>5. origin[a] = "brain" =>
            \A i \in DOMAIN items' : items'[i].appt = a => items'[i].source = "brain"
      BY <1>3, <1>6, <2>1, <3>1, ZenonT(60) DEF SingleInv
    <3>. QED
      BY <1>1, <3>2, <3>4, <3>5, Zenon DEF SingleInv
  <2>. QED
    BY <2>2, <2>5, <2>6
<1>. QED
  BY <1>12, <1>13, <1>14 DEF IInv

-----------------------------------------------------------------------------
LEMMA NextIInv == IInv /\ [Next]_vars => IInv'
<1>. SUFFICES ASSUME IInv, [Next]_vars  PROVE  IInv'
  OBVIOUS
<1>1. CASE UNCHANGED vars
  BY <1>1 DEF vars, IInv, TypeInv, TablesInv, OneLive, DroppedIsQuiet, LinksMatch,
              ApptInv, CallInv, EntryInv, SingleInv, HasRow
<1>2. CASE \E a \in Appointments :
             \/ Capture(a) \/ BrainCreates(a) \/ AppearsInGoogle(a)
             \/ InsertEvent(a) \/ CallFails(a) \/ SetGcalId(a)
             \/ BrainStores(a) \/ BrainReplies(a)
  BY <1>2, CaptureStep, BrainCreatesStep, AppearsInGoogleStep, InsertEventStep,
     CallFailsStep, SetGcalIdStep, BrainStoresStep, BrainRepliesStep
<1>3. CASE ListAgenda \/ SyncListed \/ AgendaLost
  BY <1>3, ListAgendaStep, SyncListedStep, AgendaLostStep
<1>4. CASE \E i \in DOMAIN items :
             CompleteOrArchive(i) \/ Drop(i) \/ Snooze(i) \/ HandlerCutShort(i)
  BY <1>4, CompleteOrArchiveStep, DropStep, SnoozeStep, HandlerCutShortStep
<1>. QED
  BY <1>1, <1>2, <1>3, <1>4 DEF Next

\* The invariant holds in every state, whatever the order of messages, answers
\* of Google, agendas read and handlers cut off.
THEOREM CommitmentsInvariance == Spec => []IInv
  BY InitIInv, NextIInv, PTL DEF Spec

\* A set whose elements are all equal has one at most.
LEMMA AtMostOne ==
  ASSUME NEW S, \A x, y \in S : x = y
  PROVE  Cardinality(S) <= 1
<1>1. CASE S = {}
  BY <1>1, FS_EmptySet
<1>2. CASE S # {}
  <2>1. PICK x \in S : S = {x}
    BY <1>2
  <2>. QED
    BY <2>1, FS_Singleton
<1>. QED
  BY <1>1, <1>2

\* A commitment has at most one live event: chains of reminders never double,
\* however snoozes, links and syncs interleave and wherever a handler dies.
THEOREM OneLiveEventTheorem == Spec => []OneLiveEventPerItem
<1>1. IInv => OneLiveEventPerItem
  <2>. SUFFICES ASSUME IInv, NEW i \in DOMAIN items
       PROVE  Cardinality(ActiveEvents(i)) <= 1
    BY DEF OneLiveEventPerItem
  <2>1. \A e, f \in ActiveEvents(i) : e = f
    BY DEF IInv, TablesInv, OneLive, ActiveEvents
  <2>. QED
    BY <2>1, AtMostOne
<1>. QED
  BY <1>1, CommitmentsInvariance, PTL

\* A dropped commitment whose handler ran to its end has no live event and no
\* armed reminder.
THEOREM DroppedTheorem == Spec => []DroppedIsQuiet
<1>1. IInv => DroppedIsQuiet
  BY DEF IInv, TablesInv
<1>. QED
  BY <1>1, CommitmentsInvariance, PTL

\* A row is linked to its own appointment's event of Google, and to that event
\* no other row.
THEOREM LinksTheorem == Spec => []LinksMatch
<1>1. IInv => LinksMatch
  BY DEF IInv, TablesInv
<1>. QED
  BY <1>1, CommitmentsInvariance, PTL

\* Two live chains for one appointment need an agenda read while its event was
\* not linked, or a create_event asked again after the event was moved.
THEOREM DuplicateTheorem == Spec => []DuplicateNeedsUnlinked
<1>1. IInv => DuplicateNeedsUnlinked
  <2>. SUFFICES ASSUME IInv, NEW a \in Appointments, a \notin exposed
       PROVE  ~(Cardinality(Live(a)) > 1)
    BY DEF DuplicateNeedsUnlinked
  <2>1. \A i, j \in Live(a) : i = j
    BY DEF IInv, ApptInv, SingleInv, Live
  <2>2. \A x \in {0, 1} : ~(x > 1)
    OBVIOUS
  <2>3. Cardinality(Live(a)) \in {0, 1}
    <3>1. CASE Live(a) = {}
      BY <3>1, FS_EmptySet
    <3>2. CASE Live(a) # {}
      <4>1. PICK x \in Live(a) : Live(a) = {x}
        BY <2>1, <3>2
      <4>. QED
        BY <4>1, FS_Singleton
    <3>. QED
      BY <3>1, <3>2
  <2>. QED
    BY <2>2, <2>3
<1>. QED
  BY <1>1, CommitmentsInvariance, PTL

=============================================================================
