\* Two days of silence with the rituals drafted as usual.
CONSTANT
  Threshold = 4
SPECIFICATION SilenceSpec
INVARIANTS
  SilenceSuppresses
