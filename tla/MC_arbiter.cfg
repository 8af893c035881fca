SPECIFICATION Spec
CONSTANTS
  Addr = {1, 2}
  Value = {0, 1}
  Latency = {0, 2}
  Bridge = "ahb"
  Redirect = TRUE
  Pausing = TRUE
INVARIANTS TypeOK NoLockup
PROPERTY Served
