\* Two events, answers of up to two tool calls, two rounds instead of six.
CONSTANTS
  Events = {"dentist", "school"}
  MaxToolIterations = 2
  MaxCalls = 2
  MaxCrashes = 1
SPECIFICATION Spec
INVARIANTS
  SecondCopyNeedsMishap
  FalseSuccessOnlyBySibling
PROPERTIES
  ConversationAnswered
CHECK_DEADLOCK FALSE
