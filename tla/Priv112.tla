-------------------------------- MODULE Priv112 --------------------------------
(***************************************************************************)
(* Traps, returns and machine CSRs of the privileged unit                  *)
(* (privs/priv_1_12: csr, int_ex_handler, mode and the glue in block),     *)
(* with the part of the hazard unit that tells it which instruction traps. *)
(*                                                                         *)
(* One step is one clock edge.  Next chooses the wires of the cycle: the   *)
(* instruction in the execute stage, how fetching the one behind it ends   *)
(* and whether it is still under way, and the interrupt and clear lines.   *)
(* A CSR is the set of its bits that are 1; an address is only the stage   *)
(* that it comes from.                                                     *)
(***************************************************************************)
CONSTANTS
  Csr,      \* the CSRs that instructions name
  Sources,  \* the machine-level interrupts that have a line
  Ops,      \* what an instruction in the execute stage may be
  Fetch     \* how fetching the instruction behind it may end

ASSUME CsrAssumption ==
  Csr \subseteq {"mstatus", "mtvec", "mie", "mip", "mcounteren", "cycle"}
ASSUME SourcesAssumption == Sources \subseteq {"ext", "soft", "timer"}
ASSUME OpsAssumption ==
  Ops \subseteq {"bubble", "other", "illegal", "swap", "set", "clear", "mret",
                 "ecall", "ebreak", "wfi", "mal_l", "mal_s", "fault_l", "fault_s"}
ASSUME FetchAssumption == {"ok"} \subseteq Fetch /\ Fetch \subseteq {"ok", "fault", "mal"}

VARIABLES
  mode,       \* curr_priv_level
  mstatus, mtvec, mie, mip, mcounteren,
  mcause, mepc, mtval,
  saved       \* history: mode and mie when the last trap was taken, or None

vars == <<mode, mstatus, mtvec, mie, mip, mcounteren, mcause, mepc, mtval, saved>>

-----------------------------------------------------------------------------
Mode == {"U", "M"}
MstatusBits == {"mie", "mpie", "mpp0", "mpp1", "mprv", "tw"}
MPP == {"mpp0", "mpp1"}
MtvecBits == {"mode0", "mode1"}

\* The bits an instruction can change in each CSR; cycle is read-only.
Bits(csr) == IF csr = "mstatus" THEN MstatusBits
             ELSE IF csr = "mtvec" THEN MtvecBits
             ELSE IF csr \in {"mie", "mip"} THEN Sources
             ELSE IF csr = "mcounteren" THEN {"cy"} ELSE {}

\* mstatus.mpp holds M_MODE, U_MODE or one of two encodings that mean nothing.
Mpp(m) == IF MPP \subseteq m THEN "M" ELSE IF m \cap MPP = {} THEN "U" ELSE "none"
MppOf(md) == IF md = "M" THEN MPP ELSE {}

\* cause 0 of reset; SOFT_INT_S is int_src when no line is high.
Cause == [interrupt : {TRUE}, code : Sources \cup {"soft_s"}]
  \cup [interrupt : {FALSE},
        code : {"none", "breakpoint", "insn_access", "illegal", "env_u", "env_m",
                "insn_mal", "mal_s", "mal_l", "fault_s", "fault_l"}]
Stage == {"none", "fetch", "ex"}
None == [mode |-> "none", mie |-> FALSE]

TypeOK ==
  /\ mode \in Mode
  /\ mstatus \subseteq MstatusBits
  /\ mtvec \subseteq MtvecBits
  /\ mie \subseteq Sources /\ mip \subseteq Sources
  /\ mcounteren \subseteq {"cy"}
  /\ mcause \in Cause
  /\ mepc \in Stage /\ mtval \in Stage
  /\ saved \in {None} \cup [mode : Mode, mie : BOOLEAN]

Init ==
  /\ mode = "M"
  /\ mstatus = {"tw"} /\ mtvec = {} /\ mie = {} /\ mip = {} /\ mcounteren = {"cy"}
  /\ mcause = [interrupt |-> FALSE, code |-> "none"]
  /\ mepc = "none" /\ mtval = "none"
  /\ saved = None

-----------------------------------------------------------------------------
(* The wires of a cycle.  i is the instruction in the execute stage, with  *)
(* the CSR and the operand its bits name whatever it is; f tells how the   *)
(* fetch behind it fares, w whether that fetch is under way.               *)
CsrOps == {"swap", "set", "clear"}
Fixed == {"bubble", "mret", "ecall", "ebreak", "wfi"}

\* The bits that hold the CSR address belong to an immediate in an instruction
\* that is no system instruction.
Instr ==
  (UNION {[op : Ops \cap CsrOps, csr : {c}, val : SUBSET Bits(c), rs1_x0 : {FALSE}] : c \in Csr})
    \cup [op : Ops \cap CsrOps, csr : Csr, val : {{}}, rs1_x0 : {TRUE}]
    \cup [op : Ops \cap Fixed, csr : {"none"}, val : {{}}, rs1_x0 : {TRUE}]
    \cup [op : Ops \ (CsrOps \cup Fixed), csr : Csr \cup {"none"}, val : {{}}, rs1_x0 : {TRUE}]

IsCsrOp(i) == i.op \in CsrOps

\* A read-only CSR is written, or the CSR belongs to a higher privilege level.
InvalidCsrPriv(i) ==
  /\ IsCsrOp(i)
  /\ IF i.csr = "cycle" THEN ~i.rs1_x0 ELSE mode = "U"

\* User code may not read the cycle counter: the instruction need not be one
\* that accesses a CSR.
InvalidCsrAddr(i) == i.csr = "cycle" /\ mode = "U" /\ "cy" \notin mcounteren

Illegal(i) ==
  \/ i.op = "illegal"
  \/ InvalidCsrPriv(i) \/ InvalidCsrAddr(i)
  \/ i.op = "mret" /\ mode # "M"
  \/ i.op = "wfi" /\ mode = "U" /\ "tw" \in mstatus

\* e_ex_stage of the hazard unit.
ExFault(i) ==
  Illegal(i) \/ i.op \in {"ecall", "ebreak", "mal_l", "mal_s", "fault_l", "fault_s"}

InterruptFired == "mie" \in mstatus /\ mie \cap mip # {}
Exception(i, f) == ExFault(i) \/ f # "ok"
Trap(i, f) == Exception(i, f) \/ InterruptFired
Mret(i) == i.op = "mret" /\ mode = "M"

\* if_ex_stall, for an instruction that does not access memory.
Stalled(i, f, w) == w /\ (ExFault(i) \/ ~(Trap(i, f) \/ i.op = "mret"))

\* ex_src: the first cause in the order of the handler.
ExSrc(i, f) ==
  IF i.op = "ebreak" THEN "breakpoint"
  ELSE IF f = "fault" THEN "insn_access"
  ELSE IF Illegal(i) THEN "illegal"
  ELSE IF f = "mal" THEN "insn_mal"
  ELSE IF i.op = "ecall" THEN (IF mode = "M" THEN "env_m" ELSE "env_u")
  ELSE i.op

\* int_src: the first line that is high, whether it is enabled or not.
IntSrc(lines) ==
  IF "ext" \in lines THEN "ext" ELSE IF "soft" \in lines THEN "soft"
  ELSE IF "timer" \in lines THEN "timer" ELSE "soft_s"

\* The CSR operation of i takes place, on the old value of the CSR.
Writes(i, f, w, csr) == IsCsrOp(i) /\ i.csr = csr /\ ~InvalidCsrPriv(i) /\ ~Stalled(i, f, w)
Result(i, old) == IF i.op = "swap" THEN i.val
                  ELSE IF i.op = "set" THEN old \cup i.val ELSE old \ i.val

-----------------------------------------------------------------------------
\* Mutant: the operand's mpp is taken as it is.
WrittenMstatusUnchecked(i) == Result(i, mstatus)

\* A write of mstatus looks at the operand's mpp, not at the mpp it results in.
WrittenMstatus(i) ==
  IF Mpp(i.val) = "none" THEN Result(i, mstatus) \ MPP ELSE Result(i, mstatus)

WrittenMtvec(i) ==
  IF "mode1" \in i.val THEN Result(i, mtvec) \ MtvecBits ELSE Result(i, mtvec)

\* Mutant: a trap that does not mask interrupts.
TrappedMstatusUnmasked ==
  (mstatus \ (MPP \cup {"mpie"})) \cup MppOf(mode)
    \cup (IF "mie" \in mstatus THEN {"mpie"} ELSE {})

TrappedMstatus ==
  (mstatus \ (MPP \cup {"mie", "mpie"})) \cup MppOf(mode)
    \cup (IF "mie" \in mstatus THEN {"mpie"} ELSE {})

ReturnedMstatus ==
  (mstatus \ (MPP \cup {"mie", "mpie"} \cup (IF Mpp(mstatus) # "M" THEN {"mprv"} ELSE {})))
    \cup (IF "mpie" \in mstatus THEN {"mie"} ELSE {})

ModeStep(i, f) ==
  mode' = IF Trap(i, f) THEN "M" ELSE IF Mret(i) THEN Mpp(mstatus) ELSE mode

\* What the handler injects overrules what the instruction writes.
MstatusStep(i, f, w) ==
  mstatus' = IF Trap(i, f) THEN TrappedMstatus
             ELSE IF Mret(i) THEN ReturnedMstatus
             ELSE IF Writes(i, f, w, "mstatus") THEN WrittenMstatus(i)
             ELSE mstatus

\* Mutant: a CSR is written whatever the privilege level.
PlainStepOpen(i, f, w) ==
  /\ mtvec' = IF IsCsrOp(i) /\ i.csr = "mtvec" THEN WrittenMtvec(i) ELSE mtvec
  /\ mie' = IF IsCsrOp(i) /\ i.csr = "mie" THEN Result(i, mie) ELSE mie
  /\ mcounteren' = IF IsCsrOp(i) /\ i.csr = "mcounteren"
                     THEN Result(i, mcounteren) ELSE mcounteren

PlainStep(i, f, w) ==
  /\ mtvec' = IF Writes(i, f, w, "mtvec") THEN WrittenMtvec(i) ELSE mtvec
  /\ mie' = IF Writes(i, f, w, "mie") THEN Result(i, mie) ELSE mie
  /\ mcounteren' = IF Writes(i, f, w, "mcounteren")
                     THEN Result(i, mcounteren) ELSE mcounteren

\* A line that is high sets its bit, a clear takes it back; while any of them
\* moves, a write of mip is lost.
MipStep(i, f, w, lines, clears) ==
  mip' = IF lines \cup clears # {} THEN lines \cup (mip \ clears)
         ELSE IF Writes(i, f, w, "mip") THEN Result(i, mip)
         ELSE mip

\* mtval is written only when no older instruction is in the execute stage.
CauseStep(i, f, lines) ==
  \/ /\ Trap(i, f)
     /\ mcause' = IF Exception(i, f) THEN [interrupt |-> FALSE, code |-> ExSrc(i, f)]
                  ELSE [interrupt |-> TRUE, code |-> IntSrc(lines)]
     /\ mepc' = IF ExFault(i) THEN "ex" ELSE "fetch"
     /\ mtval' = IF \/ ExFault(i) /\ (i.op # "ecall" \/ f # "ok" \/ Illegal(i))
                    \/ ~ExFault(i) /\ f # "ok" /\ i.op = "bubble"
                   THEN (IF f # "ok" THEN "fetch" ELSE "ex") ELSE mtval
  \/ ~Trap(i, f) /\ UNCHANGED <<mcause, mepc, mtval>>

HistoryStep(i, f, w) ==
  saved' = IF Trap(i, f) THEN [mode |-> mode, mie |-> "mie" \in mstatus]
           ELSE IF Mret(i) \/ Writes(i, f, w, "mstatus") THEN None
           ELSE saved

Edge(i, f, w, lines, clears) ==
  /\ ModeStep(i, f) /\ MstatusStep(i, f, w) /\ PlainStep(i, f, w)
  /\ MipStep(i, f, w, lines, clears) /\ CauseStep(i, f, lines) /\ HistoryStep(i, f, w)

Next == \E i \in Instr, f \in Fetch, w \in BOOLEAN,
           lines \in SUBSET Sources, clears \in SUBSET Sources :
          Edge(i, f, w, lines, clears)

Spec == Init /\ [][Next]_vars

-----------------------------------------------------------------------------
(* Properties *)

\* mpp and mtvec.mode only ever hold encodings that mean something, although
\* the write checks the operand and a set or clear stores something else.
LegalFields == Mpp(mstatus) # "none" /\ "mode1" \notin mtvec

\* Until it returns or writes mstatus, the handler of a trap runs in machine
\* mode with interrupts masked, and mstatus holds what the trap interrupted.
TrapFrame ==
  saved # None =>
    /\ mode = "M" /\ "mie" \notin mstatus
    /\ Mpp(mstatus) = saved.mode
    /\ "mpie" \in mstatus <=> saved.mie

\* User mode changes no machine register (but mip, which follows the lines),
\* and is left only by a trap.
UserConfined ==
  [][mode = "U" => /\ UNCHANGED <<mtvec, mie, mcounteren>>
                   /\ \/ mode' = "U" /\ UNCHANGED <<mstatus, mcause, mepc, mtval>>
                      \/ mode' = "M" /\ saved' = [mode |-> "U", mie |-> "mie" \in mstatus]]_vars
===============================================================================
