\* The brain and the briefing ask for tokens while the owner authorises the
\* application three times.
CONSTANTS
  Callers = {"brain", "briefing"}
  MaxConsents = 3
  MaxExchanges = 2
  MaxExpiries = 2
SPECIFICATION TokensSpec
INVARIANTS
  StateUsedOnce
  MismatchNeedsOverlap
CHECK_DEADLOCK FALSE
