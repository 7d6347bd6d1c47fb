------------------------------ MODULE Handling ------------------------------
(***************************************************************************)
(* What the way in promises the owner, without webhook, promise or sweep:  *)
(* a message is owed until it has been handled or given up, and neither is *)
(* ever taken back.  Its command acts, its items are stored and its answer *)
(* goes out while it is owed, not after: each item once, act and answer    *)
(* once and once more for each mishap; and what asks for something is      *)
(* answered before it counts as handled (ADR-018).                         *)
(***************************************************************************)
EXTENDS Naturals

CONSTANTS
  Messages,          \* identities of messages
  Items              \* positions of items within a message

VARIABLES
  outcome,           \* outcome[m]: "new", "owed", "handled" or "givenUp"
  asks,              \* the messages that ask for something
  kept,              \* kept[m]: what has been stored of a message
  acts,              \* times its command took effect
  answers,           \* answers sent to the owner
  mishaps            \* times the work was cut off

handlingVars == <<outcome, asks, kept, acts, answers, mishaps>>

Init ==
  /\ outcome = [m \in Messages |-> "new"]
  /\ asks = {}
  /\ kept = [m \in Messages |-> {}]
  /\ acts = [m \in Messages |-> 0]
  /\ answers = [m \in Messages |-> 0]
  /\ mishaps = 0

Move(m, from, to) ==
  /\ outcome[m] = from
  /\ outcome' = [outcome EXCEPT ![m] = to]

Accept(m) ==
  /\ Move(m, "new", "owed")
  /\ asks' \in {asks, asks \cup {m}}
  /\ UNCHANGED <<kept, acts, answers, mishaps>>

Asked(m) == outcome[m] = "owed" /\ m \in asks

Keep(m, i) ==
  /\ Asked(m) /\ i \notin kept[m]
  /\ kept' = [kept EXCEPT ![m] = @ \cup {i}]
  /\ UNCHANGED <<outcome, asks, acts, answers, mishaps>>

Act(m) ==
  /\ Asked(m) /\ acts[m] <= mishaps
  /\ acts' = [acts EXCEPT ![m] = @ + 1]
  /\ UNCHANGED <<outcome, asks, kept, answers, mishaps>>

Answer(m) ==
  /\ Asked(m) /\ answers[m] <= mishaps
  /\ answers' = [answers EXCEPT ![m] = @ + 1]
  /\ UNCHANGED <<outcome, asks, kept, acts, mishaps>>

Handle(m) ==
  /\ Move(m, "owed", "handled")
  /\ m \in asks => answers[m] > 0
  /\ UNCHANGED <<asks, kept, acts, answers, mishaps>>

GiveUp(m) ==
  /\ Move(m, "owed", "givenUp")
  /\ UNCHANGED <<asks, kept, acts, answers, mishaps>>

Mishap ==
  /\ mishaps' = mishaps + 1
  /\ UNCHANGED <<outcome, asks, kept, acts, answers>>

Next ==
  \/ \E m \in Messages :
       \/ Accept(m)
       \/ \E i \in Items : Keep(m, i)
       \/ Act(m) \/ Answer(m)
       \/ Handle(m) \/ GiveUp(m)
  \/ Mishap

Spec == Init /\ [][Next]_handlingVars

=============================================================================
