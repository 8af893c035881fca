SPECIFICATION Spec
CONSTANTS
  Csr = {"mstatus", "mtvec", "mip", "mie", "mcounteren", "cycle"}
  Sources = {"timer"}
  Ops = {"swap", "set", "mret", "ecall"}
  Fetch = {"ok"}
INVARIANTS TypeOK LegalFields TrapFrame
PROPERTY UserConfined
