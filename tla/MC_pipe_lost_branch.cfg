SPECIFICATION Spec
CONSTANTS
  Code = 4
  Programs <- Straight
  Handler = 3
  Target = 1
  DataAddr = 5
  Protected = {}
  Interrupts = TRUE
  Latency = {0}
  Bridge = "generic"
PROPERTIES PreciseTrap
