------------------------------- MODULE Brain -------------------------------
(***************************************************************************)
(* One message of free conversation: the tool-use loop of the brain        *)
(* (core/llm/brain-loop.ts) with its create_event tool, which inserts at   *)
(* Google and mirrors the event in the task store, while the briefing      *)
(* reads the agenda and items are dropped and snoozed, by the brain itself *)
(* or by the owner.  Whether a caller gets an access token is a choice     *)
(* here: Tokens says how it comes about.                                   *)
(*                                                                         *)
(* The language model is a choice: it answers, fails, or asks for any      *)
(* sequence of tool calls.  A call of create_event is named by the event   *)
(* it asks for.  A copy is an event as it exists in Google's calendar.     *)
(***************************************************************************)
EXTENDS Naturals, Sequences

CONSTANTS
  Events,            \* what the owner may ask the brain to schedule
  MaxToolIterations, \* MAX_TOOL_ITERATIONS
  MaxCalls,          \* bound: tool calls of one answer of the model
  MaxCrashes         \* bound: crashes

ASSUME BrainAssumption ==
  /\ MaxToolIterations \in Nat \ {0}
  /\ {MaxCalls, MaxCrashes} \subseteq Nat
  /\ {"other", "none", "bare"} \cap Events = {}

\* "other": a call that is refused (no such tool, a wrong input), or another
\* tool of the task store.
Calls == Events \cup {"other"}

VARIABLES
  (* the message *)
  processed,         \* its processing_status
  pc,                \* what its promise awaits; "off" when there is none
  round,             \* answers of the model so far in this run of the loop
  calls,             \* tool calls of the last answer still to be resolved
  told,              \* events create_event has reported as created
  reply,             \* the text put into the outbox
  (* Google and the task store *)
  unlinked,          \* copies per event that no row knows
  mirrored,          \* copies per event linked to items of this message
  oldest,            \* the oldest of these items: its event if that is live and
                     \* linked, else "bare"; "none" without items
  adopted,           \* copies per event stored by the reading of the agenda
  arriving,          \* the copy just inserted is still unlinked
  (* history *)
  mishaps,           \* lost answers, crashes and agenda reads after an insert,
                     \* and replays that capture what was stored before
  crashes

loop == <<processed, pc, round, calls, told, reply>>
store == <<unlinked, mirrored, oldest, adopted, arriving>>
vars == <<loop, store, mishaps, crashes>>

Steps == {"off", "thinking", "calling", "inserting", "inserted", "replied"}
Replies == {"none", "text", "canned", "ceiling"}

TypeOK ==
  /\ processed \in BOOLEAN
  /\ pc \in Steps
  /\ round \in 0 .. MaxToolIterations
  /\ calls \in Seq(Calls)
  /\ told \subseteq Events
  /\ reply \in Replies
  /\ {unlinked, mirrored, adopted} \subseteq [Events -> Nat]
  /\ oldest \in Events \cup {"none", "bare"}
  /\ arriving \in BOOLEAN
  /\ {mishaps, crashes} \subseteq Nat

Init ==
  /\ processed = FALSE /\ pc = "off" /\ round = 0 /\ calls = <<>>
  /\ told = {} /\ reply = "none"
  /\ unlinked = [e \in Events |-> 0] /\ adopted = [e \in Events |-> 0]
  /\ mirrored = [e \in Events |-> 0] /\ oldest = "none" /\ arriving = FALSE
  /\ mishaps = 0 /\ crashes = 0

-----------------------------------------------------------------------------
(* The loop.                                                               *)

Enqueue(text) == pc' = "replied" /\ reply' = text

\* Mutant: the model is asked again for as long as it wants tools.
CeilingIgnored == FALSE

CeilingReached == round = MaxToolIterations

\* The webhook's promise, or the recovery after a crash: from the beginning,
\* for the answers of the model are not kept.
Begin ==
  /\ ~processed /\ pc = "off"
  /\ pc' = "thinking"
  /\ round' = 0 /\ calls' = <<>> /\ told' = {}
  /\ UNCHANGED <<processed, reply, store, mishaps, crashes>>

\* An attempt whose triage takes the message for a capture: the items are
\* stored, any of them linked to events at Google, and it is confirmed or cut
\* off by a crash.  The insertions themselves are in Commitments.
CaptureItems(linked) ==
  /\ ~processed /\ pc = "off"
  /\ mirrored' = [e \in Events |-> IF e \in linked THEN mirrored[e] + 1
                                                  ELSE mirrored[e]]
  /\ IF oldest = "none"
     THEN oldest' \in linked \cup {"bare"} /\ UNCHANGED mishaps
     ELSE mishaps' = mishaps + 1 /\ UNCHANGED oldest
  /\ \/ Enqueue("text") /\ UNCHANGED crashes
     \/ /\ crashes < MaxCrashes
        /\ crashes' = crashes + 1
        /\ UNCHANGED <<pc, reply>>
  /\ UNCHANGED <<processed, round, calls, told, unlinked, adopted, arriving>>

Counted == round' = IF round < MaxToolIterations THEN round + 1 ELSE round

ModelAnswers ==
  /\ pc = "thinking"
  /\ \/ calls' = <<>> /\ Enqueue("text") /\ Counted
     \/ calls' = <<>> /\ Enqueue("canned") /\ UNCHANGED round  \* LlmRequestError
     \/ \E n \in 1 .. MaxCalls : \E asked \in [1 .. n -> Calls] :
          /\ calls' = asked
          /\ pc' = "calling"
          /\ Counted
          /\ UNCHANGED reply
  /\ UNCHANGED <<processed, told, store, mishaps, crashes>>

\* The results of all calls go back to the model, up to the ceiling.
ReturnResults ==
  /\ pc = "calling" /\ calls = <<>>
  /\ IF CeilingReached
     THEN Enqueue("ceiling")
     ELSE pc' = "thinking" /\ UNCHANGED reply
  /\ UNCHANGED <<processed, round, calls, told, store, mishaps, crashes>>

MarkProcessed ==
  /\ pc = "replied"
  /\ processed' = TRUE
  /\ pc' = "off"
  /\ UNCHANGED <<round, calls, told, reply, store, mishaps, crashes>>

-----------------------------------------------------------------------------
(* The tools.                                                              *)

Asked == Head(calls)

\* The call is resolved, with or without an error for the model.
Resolved == pc' = "calling" /\ calls' = Tail(calls)

\* An item dropped has its event cancelled; an item snoozed has a new one,
\* which Google does not know.
Withdraws == oldest \in Events /\ oldest' = "bare"

\* drop_item and snooze_item may withdraw the event of this very message.
ResolveOther ==
  /\ pc = "calling" /\ calls # <<>> /\ Asked = "other"
  /\ Resolved
  /\ Withdraws \/ UNCHANGED oldest
  /\ UNCHANGED <<processed, round, told, reply, unlinked, mirrored, adopted,
                 arriving, mishaps, crashes>>

\* The owner does the same by a command, during any await of the loop.
OwnerWithdraws ==
  /\ Withdraws
  /\ UNCHANGED <<loop, unlinked, mirrored, adopted, arriving, mishaps, crashes>>

\* Mutant: nothing is looked up before the insertion.
NeverExisting == FALSE

\* findExistingBrainEvent asks for the oldest item of the message, whatever it
\* is about, and for that item's live event with a gcal_id.
ExistingBrainEvent == oldest \in Events

\* The event there is, an unacceptable date, or on to createRemoteEvent.
CreateEvent ==
  /\ pc = "calling" /\ calls # <<>> /\ Asked \in Events
  /\ \/ /\ ExistingBrainEvent
        /\ told' = told \cup {Asked}
        /\ Resolved
     \/ /\ ~ExistingBrainEvent
        /\ Resolved                     \* InvalidEventDateError
        /\ UNCHANGED told
     \/ /\ ~ExistingBrainEvent
        /\ pc' = "inserting"
        /\ UNCHANGED <<calls, told>>
  /\ UNCHANGED <<processed, round, reply, store, mishaps, crashes>>

GoogleInserts ==
  /\ pc = "inserting"
  /\ unlinked' = [unlinked EXCEPT ![Asked] = @ + 1]
  /\ arriving' = TRUE
  /\ pc' = "inserted"
  /\ UNCHANGED <<processed, round, calls, told, reply,
                 mirrored, oldest, adopted, mishaps, crashes>>

\* No token, or Google refuses.
InsertFails ==
  /\ pc = "inserting"
  /\ Resolved
  /\ UNCHANGED <<processed, round, told, reply, store, mishaps, crashes>>

\* Google has the event, and the network loses the answer.
AnswerLost ==
  /\ pc = "inserted"
  /\ Resolved
  /\ arriving' = FALSE
  /\ mishaps' = mishaps + 1
  /\ UNCHANGED <<processed, round, told, reply,
                 unlinked, mirrored, oldest, adopted, crashes>>

\* The row of the copy that arrives, the first of the message or a later one.
Links ==
  /\ unlinked' = [unlinked EXCEPT ![Asked] = @ - 1]
  /\ mirrored' = [mirrored EXCEPT ![Asked] = @ + 1]
  /\ oldest' = IF oldest = "none" THEN Asked ELSE oldest

\* Mutant: a gcal_id that is taken is passed over, as syncEvent does.
StoreEventSkipping ==
  /\ pc = "inserted"
  /\ Resolved
  /\ arriving' = FALSE
  /\ told' = told \cup {Asked}
  /\ IF arriving THEN Links ELSE UNCHANGED <<unlinked, mirrored, oldest>>
  /\ UNCHANGED <<processed, round, reply, adopted, mishaps, crashes>>

\* The transaction of item, event and chain; its gcal_id is taken when the
\* agenda was read in between, and then the call fails as a whole.
StoreEvent ==
  /\ pc = "inserted"
  /\ Resolved
  /\ arriving' = FALSE
  /\ IF arriving
     THEN Links /\ told' = told \cup {Asked}
     ELSE UNCHANGED <<unlinked, mirrored, oldest, told>>
  /\ UNCHANGED <<processed, round, reply, adopted, mishaps, crashes>>

-----------------------------------------------------------------------------
(* The briefing and the process.                                           *)

\* listTodayAndSync of the briefing: every copy that no row knows is stored.
ListTodayAndSync ==
  /\ \E e \in Events : unlinked[e] > 0
  /\ adopted' = [e \in Events |-> adopted[e] + unlinked[e]]
  /\ unlinked' = [e \in Events |-> 0]
  /\ arriving' = FALSE
  /\ mishaps' = IF arriving THEN mishaps + 1 ELSE mishaps
  /\ UNCHANGED <<loop, mirrored, oldest, crashes>>

Crash ==
  /\ crashes < MaxCrashes
  /\ crashes' = crashes + 1
  /\ pc' = "off"
  /\ round' = 0 /\ calls' = <<>> /\ told' = {}
  /\ arriving' = FALSE
  /\ mishaps' = IF arriving THEN mishaps + 1 ELSE mishaps
  /\ UNCHANGED <<processed, reply, unlinked, mirrored, oldest, adopted>>

-----------------------------------------------------------------------------

LoopStep ==
  \/ Begin \/ ModelAnswers \/ ReturnResults \/ MarkProcessed
  \/ ResolveOther \/ CreateEvent
  \/ GoogleInserts \/ InsertFails \/ AnswerLost \/ StoreEvent

Next ==
  \/ LoopStep
  \/ \E linked \in SUBSET Events : CaptureItems(linked)
  \/ OwnerWithdraws
  \/ ListTodayAndSync
  \/ Crash

\* The model answers or times out after 15 s; Google answers; the recovery of
\* a boot takes the message up again (Inbound says when it does not).
Fairness == WF_vars(LoopStep)

Spec == Init /\ [][Next]_vars /\ Fairness

-----------------------------------------------------------------------------
(* Properties.                                                             *)

Copies(e) == unlinked[e] + adopted[e] + mirrored[e]

\* However often the model repeats itself and the message is replayed, a
\* second copy at Google takes a mishap (an answer lost, a crash or a reading
\* of the agenda between the insertion and the transaction, a replay that
\* captures the text anew), unless the oldest item of the message has no event
\* that the lookup would find: captured without one, dropped or snoozed.
SecondCopyNeedsMishap ==
  oldest = "bare" \/ \A e \in Events : Copies(e) <= 1 + mishaps

\* The same without the exception: google-calendar-service.ts:263-269 and
\* items-repository.ts:109-115 promise that the lookup keeps a message from a
\* second event.  It does not hold: README, section 7.
CopiesCostMishaps == \A e \in Events : Copies(e) <= 1 + mishaps

\* What the model is told of an event it asked for is true, unless the same
\* message has created another one: then that one is reported instead.
FalseSuccessOnlyBySibling ==
  \A e \in told : mirrored[e] > 0 \/ \E d \in Events \ {e} : mirrored[d] > 0

\* FEAT-006: a valid call of create_event creates the event.  The lookup by
\* message reports the first event of a message for every later call, so this
\* does not hold: README, section 7.
SuccessMeansCreated == \A e \in told : mirrored[e] > 0

\* The loop ends and the owner gets a text, whatever the model asks for.
ConversationAnswered == ~processed ~> processed

=============================================================================
