CONSTANTS
  Groups = {0}
  CfgValues <- MCCfgValues
  Registers = {0, 1, 2}
  AddrValues <- MCAddrValues
  WordAddr <- MCWordAddr
  Tests = {"pmp_csr"}
  Ticks = {1, 2, 5}
  Expiry = 14
  InsnCycles = 3
SPECIFICATION Spec
INVARIANT PmpCsrPasses
