CONSTANTS
  Groups = {0}
  CfgValues <- MCCfgValues
  Registers = {0, 1, 2}
  AddrValues <- MCAddrValues
  WordAddr <- MCWordAddr
  Tests = {"ecall", "vectored", "ex_after_int", "pmp_csr", "pmp_na4", "pmp_napot", "pmp_tor", "pma", "u_mode", "csr", "any"}
  Ticks = {1, 2, 5}
  Expiry = 14
  InsnCycles = 3
SPECIFICATION Spec
INVARIANTS TypeOK Passes EachOnce AlignedRegion
PROPERTIES LockedKept PrefixKept ReturnsWhere UserConfined Ends
