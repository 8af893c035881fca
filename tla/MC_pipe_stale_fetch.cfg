SPECIFICATION Spec
CONSTANTS
  Code = 4
  Programs <- Straight
  Handler = 3
  Target = 1
  DataAddr = 5
  Protected = {}
  Interrupts = TRUE
  Latency = {1}
  Bridge = "generic"
PROPERTIES InOrder
