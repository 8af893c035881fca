SPECIFICATION Spec
CONSTANTS
  Addr = {1, 2}
  Value = {0, 1}
  Latency = {1, 3}
  Bridge = "ahb"
  Redirect = FALSE
  Pausing = FALSE
INVARIANTS DataAnswer InstrAnswer IssuedOnce
PROPERTY Linearizable
