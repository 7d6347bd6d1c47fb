------------------------------ MODULE Inbound ------------------------------
(***************************************************************************)
(* The way in: the Evolution webhook, the background processing of a       *)
(* message (command, free text, audio) and the sweep that reprocesses      *)
(* pending messages at boot (core/channel and modules/capture).            *)
(*                                                                         *)
(* The webhook records the row and answers 2xx; an unawaited promise then  *)
(* does the work, one commit after another with network calls in between.  *)
(* The stage of that promise is memory: a crash loses it and leaves the    *)
(* row 'pending' with whatever had been committed.                         *)
(*                                                                         *)
(* The triage is a language model: classified again, the same text may be  *)
(* split into other items, more or fewer, or the same in another order.    *)
(***************************************************************************)
EXTENDS Integers, FiniteSets

CONSTANTS
  Messages,          \* autoincrement ids of inbound rows
  Contents,          \* what an item may be about
  None,              \* no item at a position
  MaxItems,          \* items one message may be split into
  MaxPerBoot,        \* capture.pendingRecoveryMaxPerBoot
  MaxCrashes         \* bound: process crashes per behaviour

ASSUME InboundAssumption ==
  /\ Messages \subseteq Nat
  /\ None \notin Contents
  /\ MaxItems \in Nat
  /\ MaxPerBoot \in Nat
  /\ MaxCrashes \in Nat

Positions == 1 .. MaxItems
Slots == [Positions -> Contents \cup {None}]
Empty == [i \in Positions |-> None]

\* What a triage may make of a text: any items, from the first position on,
\* each named once.
Splits ==
  {s \in Slots : \A i, j \in Positions :
                   i < j /\ s[j] # None => s[i] \notin {None, s[j]}}

VARIABLES
  (* the table messages, and items by (source_message_id, index) *)
  status,            \* "absent" before the INSERT, then processing_status
  kind,              \* what the message carries
  young,             \* rows younger than the recovery threshold (60 s)
  transcribed,       \* audio rows with their transcription recorded
  stored,            \* the message's items in the task store, by index
  (* the process *)
  phase,             \* "down", "recovering" before it listens, "up"
  todo,              \* rows the sweep selected and has not reached
  stage,             \* where the promise of a message stands
  extracted,         \* the split of a message by its triage, in memory
  (* history *)
  resplit,           \* messages triaged other than their stored items were
  effects,           \* times a command changed the task store
  replies,           \* answers enqueued for the owner
  asked,             \* audio rows answered with a request for text
  left,              \* pending rows the latest sweep left aside
  crashes

table == <<status, kind, young, transcribed, stored>>
process == <<phase, todo, stage, extracted>>
history == <<resplit, effects, replies, asked, left>>
vars == <<status, kind, young, transcribed, stored, phase, todo, stage,
          extracted, resplit, effects, replies, asked, left, crashes>>

Kinds == {"command", "text", "audio", "other"}
Stages == {"none", "media", "stt", "triage", "capture", "command", "reply",
           "mark", "throw"}

TypeOK ==
  /\ status \in [Messages -> {"absent", "pending", "processed", "failed"}]
  /\ kind \in [Messages -> Kinds]
  /\ young \subseteq Messages
  /\ transcribed \subseteq Messages
  /\ stored \in [Messages -> Slots]
  /\ phase \in {"down", "recovering", "up"}
  /\ todo \subseteq Messages
  /\ stage \in [Messages -> Stages]
  /\ extracted \in [Messages -> Splits]
  /\ resplit \subseteq Messages
  /\ effects \in [Messages -> Nat]
  /\ replies \in [Messages -> Nat]
  /\ asked \subseteq Messages
  /\ left \subseteq Messages
  /\ crashes \in 0 .. MaxCrashes

Init ==
  /\ status = [m \in Messages |-> "absent"]
  /\ kind = [m \in Messages |-> "other"]
  /\ young = {}
  /\ transcribed = {}
  /\ stored = [m \in Messages |-> Empty]
  /\ phase = "down"
  /\ todo = {}
  /\ stage = [m \in Messages |-> "none"]
  /\ extracted = [m \in Messages |-> Empty]
  /\ resplit = {}
  /\ effects = [m \in Messages |-> 0]
  /\ replies = [m \in Messages |-> 0]
  /\ asked = {}
  /\ left = {}
  /\ crashes = 0

-----------------------------------------------------------------------------
(* The webhook.                                                            *)

\* Mutant: no handler for audio, as for an image.
EntryWithoutAudio(k) ==
  CASE k = "command" -> "command"
    [] k = "text" -> "triage"
    [] OTHER -> "mark"

\* Where processing starts: a command matched, the triage, the media fetch;
\* a message with nothing to process is only marked.
Entry(k) ==
  CASE k = "command" -> "command"
    [] k = "text" -> "triage"
    [] k = "audio" -> "media"
    [] k = "other" -> "mark"

Goto(m, s) == stage' = [stage EXCEPT ![m] = s]

\* The first delivery: tryRecordInbound inserts the row and the promise runs.
Receive(m) ==
  /\ phase = "up"
  /\ status[m] = "absent"
  /\ \A earlier \in Messages : earlier < m => status[earlier] # "absent"
  /\ status' = [status EXCEPT ![m] = "pending"]
  /\ young' = young \cup {m}
  /\ \E k \in Kinds : kind' = [kind EXCEPT ![m] = k] /\ Goto(m, Entry(k))
  /\ UNCHANGED <<transcribed, stored, phase, todo, extracted, history,
                 crashes>>

\* Mutant: the unique index on wa_message_id is missing.
RedeliverUndetected(m) ==
  /\ phase = "up"
  /\ status[m] # "absent"
  /\ Goto(m, Entry(kind[m]))
  /\ UNCHANGED <<table, phase, todo, extracted, history, crashes>>

\* The unique index on wa_message_id refuses the row, and that is all.
Redeliver(m) ==
  /\ phase = "up"
  /\ status[m] # "absent"
  /\ UNCHANGED vars

-----------------------------------------------------------------------------
(* The processing of one message, live or in the sweep.                    *)

Replied(m) == replies' = [replies EXCEPT ![m] = @ + 1]

\* An audio over the limits, by its metadata or once it was fetched, is
\* answered with a hint; the sweep does not apply the limits again.
AudioTooLong(m) ==
  /\ phase = "up"
  /\ stage[m] = "media"
  /\ Replied(m)
  /\ Goto(m, "mark")
  /\ UNCHANGED <<table, phase, todo, extracted, resplit, effects, asked, left,
                 crashes>>

MediaFetched(m) ==
  /\ stage[m] = "media"
  /\ Goto(m, "stt")
  /\ UNCHANGED <<table, phase, todo, extracted, history, crashes>>

\* In the sweep the media may have expired: the owner is asked for text and
\* the row counts as processed.  Live it is a failure like any other.
MediaExpired(m) ==
  /\ phase = "recovering"
  /\ stage[m] = "media"
  /\ Replied(m)
  /\ asked' = asked \cup {m}
  /\ Goto(m, "mark")
  /\ UNCHANGED <<table, phase, todo, extracted, resplit, effects, left,
                 crashes>>

\* recordTranscription, before anything else can fail.
Transcribed(m) ==
  /\ stage[m] = "stt"
  /\ transcribed' = transcribed \cup {m}
  /\ Goto(m, "triage")
  /\ UNCHANGED <<status, kind, young, stored, phase, todo, extracted, history,
                 crashes>>

\* Both transcription providers failed: asks for text, then throws.
SttFails(m) ==
  /\ stage[m] = "stt"
  /\ Replied(m)
  /\ asked' = asked \cup {m}
  /\ Goto(m, "throw")
  /\ UNCHANGED <<table, phase, todo, extracted, resplit, effects, left,
                 crashes>>

\* An item in the task store is not the one that a split has at its index.
Differs(m, split) ==
  \E i \in Positions : stored[m][i] # None /\ stored[m][i] # split[i]

\* The triage splits the text; with no item, or when it fails, the brain
\* answers.
Triaged(m, split) ==
  /\ stage[m] = "triage"
  /\ extracted' = [extracted EXCEPT ![m] = split]
  /\ resplit' = IF Differs(m, split) THEN resplit \cup {m} ELSE resplit
  /\ Goto(m, IF split = Empty THEN "reply" ELSE "capture")
  /\ UNCHANGED <<table, phase, todo, effects, replies, asked, left, crashes>>

Extracted(m) == {i \in Positions : extracted[m][i] # None}
Stored(m) == {i \in Positions : stored[m][i] # None}

\* Mutant: a message with any item stored counts as captured.
ToStorePerMessage(m) == IF Stored(m) # {} THEN {} ELSE Extracted(m)

\* captureItems skips an index that is in the task store, whatever is there.
ToStore(m) == Extracted(m) \ Stored(m)

\* One transaction: the item with its event and chain, or its reminder.  The
\* call to Google that follows may fail or be absent without consequence.
StoreItem(m, i) ==
  /\ stage[m] = "capture"
  /\ i \in ToStore(m)
  /\ \A j \in ToStore(m) : i <= j
  /\ stored' = [stored EXCEPT ![m][i] = extracted[m][i]]
  /\ UNCHANGED <<status, kind, young, transcribed, process, history, crashes>>

RunCommand(m) ==
  /\ stage[m] = "command"
  /\ effects' = [effects EXCEPT ![m] = @ + 1]
  /\ Goto(m, "reply")
  /\ UNCHANGED <<table, phase, todo, extracted, resplit, replies, asked, left,
                 crashes>>

\* The command's reply, the brain's answer or the capture's confirmation.
Reply(m) ==
  /\ \/ stage[m] = "reply"
     \/ stage[m] = "capture" /\ ToStore(m) = {}
  /\ Replied(m)
  /\ Goto(m, "mark")
  /\ UNCHANGED <<table, phase, todo, extracted, resplit, effects, asked, left,
                 crashes>>

\* The promise ends, and what it held in memory with it.
Ends(m) ==
  /\ Goto(m, "none")
  /\ extracted' = [extracted EXCEPT ![m] = Empty]
  /\ UNCHANGED <<phase, todo>>

MarkProcessed(m) ==
  /\ stage[m] = "mark"
  /\ status' = [status EXCEPT ![m] = "processed"]
  /\ Ends(m)
  /\ UNCHANGED <<kind, young, transcribed, stored, history, crashes>>

\* Mutant: an exception is logged and the row stays 'pending'.
ThrowsUnmarked(m) ==
  /\ stage[m] \notin {"none", "mark"}
  /\ Ends(m)
  /\ UNCHANGED <<table, history, crashes>>

\* Any exception that escapes the processing ends in markFailed.
Throws(m) ==
  /\ stage[m] \notin {"none", "mark"}
  /\ status' = [status EXCEPT ![m] = "failed"]
  /\ Ends(m)
  /\ UNCHANGED <<kind, young, transcribed, stored, history, crashes>>

-----------------------------------------------------------------------------
(* The sweep at boot: what is pending and old enough, oldest first, a      *)
(* bounded number, one at a time and before the process listens.           *)

FindPendingInbound == {m \in Messages : status[m] = "pending"}

Candidates == FindPendingInbound \ young

Eligible ==
  {m \in Candidates :
     Cardinality({n \in Candidates : n < m}) < MaxPerBoot}

Scan ==
  /\ phase = "down"
  /\ phase' = "recovering"
  /\ todo' = Eligible
  /\ left' = FindPendingInbound \ Eligible
  /\ UNCHANGED <<table, stage, extracted, resplit, effects, replies, asked,
                 crashes>>

Idle == \A m \in Messages : stage[m] = "none"

RecoverNext(m) ==
  /\ phase = "recovering"
  /\ Idle
  /\ m \in todo
  /\ \A n \in todo : m <= n
  /\ todo' = todo \ {m}
  /\ Goto(m, Entry(kind[m]))
  /\ UNCHANGED <<table, phase, extracted, history, crashes>>

Listen ==
  /\ phase = "recovering"
  /\ Idle
  /\ todo = {}
  /\ phase' = "up"
  /\ UNCHANGED <<table, todo, stage, extracted, history, crashes>>

-----------------------------------------------------------------------------
(* Time and failure.                                                       *)

GrowsOld(m) ==
  /\ m \in young
  /\ young' = young \ {m}
  /\ UNCHANGED <<status, kind, transcribed, stored, process, history, crashes>>

Crash ==
  /\ phase # "down"
  /\ crashes < MaxCrashes
  /\ crashes' = crashes + 1
  /\ phase' = "down"
  /\ todo' = {}
  /\ stage' = [m \in Messages |-> "none"]
  /\ extracted' = [m \in Messages |-> Empty]
  /\ UNCHANGED <<table, history>>

Step(m) ==
  \/ AudioTooLong(m) \/ MediaFetched(m) \/ MediaExpired(m)
  \/ Transcribed(m) \/ SttFails(m)
  \/ \E split \in Splits : Triaged(m, split)
  \/ \E i \in Positions : StoreItem(m, i)
  \/ RunCommand(m)
  \/ Reply(m) \/ MarkProcessed(m) \/ Throws(m)

Next ==
  \/ \E m \in Messages :
       \/ Receive(m) \/ Redeliver(m)
       \/ Step(m)
       \/ RecoverNext(m)
       \/ GrowsOld(m)
  \/ Scan \/ Listen
  \/ Crash

\* The container restarts the process, every network call ends (all of them
\* have timeouts) and the clock advances.  Nothing forces a new message.
Fairness ==
  /\ WF_vars(Scan) /\ WF_vars(Listen)
  /\ \A m \in Messages :
       /\ WF_vars(Step(m))
       /\ WF_vars(RecoverNext(m))
       /\ WF_vars(GrowsOld(m))

Spec == Init /\ [][Next]_vars
FairSpec == Spec /\ Fairness

-----------------------------------------------------------------------------
(* Properties.                                                             *)

\* The processing of a message ends well, its last triage in memory, unless
\* the sweep found the audio gone and asked for text.
Completes(m) == stage[m] = "mark" /\ status'[m] = "processed" /\ m \notin asked

\* A message is done only with an item at every index of its last triage,
\* also when earlier attempts stored some of them (ADR-018).  They are the
\* items of that triage and no others, unless a replay after a crash split
\* the text otherwise.
CaptureComplete ==
  [][\A m \in Messages :
       Completes(m) =>
         /\ \A i \in Positions : extracted[m][i] # None => stored[m][i] # None
         /\ stored[m] = extracted[m] \/ (m \in resplit /\ crashes > 0)]_vars

\* The same by content: what the last triage found in the text is stored,
\* wherever.  It does not hold: README, section 7.
NoItemLost ==
  [][\A m \in Messages :
       Completes(m) =>
         \A i \in Positions : extracted[m][i] # None =>
           \E j \in Positions : stored[m][j] = extracted[m][i]]_vars

\* No message of the owner's is dealt with in silence.
AnsweredWhenProcessed ==
  \A m \in Messages :
    status[m] = "processed" /\ kind[m] # "other" => replies[m] > 0

\* What Handling promises, read off the table.
Outcome(m) ==
  CASE status[m] = "absent" -> "new"
    [] status[m] = "pending" -> "owed"
    [] status[m] = "processed" -> "handled"
    [] status[m] = "failed" -> "givenUp"

Promised == INSTANCE Handling WITH
              Items <- Positions,
              outcome <- [m \in Messages |-> Outcome(m)],
              asks <- {m \in Messages :
                         status[m] # "absent" /\ kind[m] # "other"},
              kept <- [m \in Messages |-> Stored(m)],
              acts <- effects,
              answers <- replies,
              mishaps <- crashes

\* The webhook, the promises and the sweep implement it: what is processed or
\* failed is never taken up again, and nothing happens for it any more.
ImplementsHandling == Promised!Spec

\* A command acts again, an answer repeats, or a transcribed audio is asked
\* for as text, only because a crash cut the processing off: redeliveries and
\* failures never replay a message.
RedoneOnlyByCrash ==
  \A m \in Messages :
    /\ effects[m] <= 1 + crashes
    /\ replies[m] <= 1 + crashes
    /\ m \in transcribed \cap asked => crashes > 0

\* While the process serves, a row is pending with nobody working on it only
\* if a crash interrupted it and the sweep of the boot left it aside.
ForgottenOnlyAtBoot ==
  \A m \in Messages :
    (phase = "up" /\ status[m] = "pending" /\ stage[m] = "none")
      => m \in left /\ crashes > 0

Settled(m) == status[m] \in {"processed", "failed"}

\* Every message gets an outcome, unless a sweep left it aside.
EveryMessageSettles ==
  \A m \in Messages : status[m] = "pending" ~> (Settled(m) \/ m \in left)

\* The same without the exception: ADR-018 promises that a crash in the
\* middle of the processing does not lose the capture.  It does not hold:
\* README, section 7.
NothingForgotten ==
  \A m \in Messages : status[m] = "pending" ~> Settled(m)

=============================================================================
