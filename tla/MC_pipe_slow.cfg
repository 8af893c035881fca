SPECIFICATION Spec
CONSTANTS
  Code = 5
  Programs <- Faulting
  Handler = 4
  Target = 1
  DataAddr = 6
  Protected = {3}
  Interrupts = TRUE
  Latency = {0, 1}
  Bridge = "generic"
PROPERTIES PortProtocol PreciseOffBranch Progress
