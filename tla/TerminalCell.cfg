SPECIFICATION Spec
CONSTANTS
  Setters = {w1, w2, w3}
  NoValue = NoValue
INVARIANTS
  OneWinner
  NoLostWake
CHECK_DEADLOCK FALSE
