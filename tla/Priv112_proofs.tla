---------------------------- MODULE Priv112_proofs ----------------------------
(***************************************************************************)
(* Proofs that the properties of Priv112 that the runs check hold for      *)
(* every set of CSRs, interrupt lines, instructions and fetch outcomes.    *)
(***************************************************************************)
EXTENDS Priv112, TLAPS

\* TypeOK is not inductive without LegalFields: mret takes mode from mpp.
IInv == TypeOK /\ LegalFields

\* mpp is legal when its two bits agree.
LEMMA MppLegal ==
  ASSUME NEW m
  PROVE  Mpp(m) # "none" <=> ("mpp0" \in m <=> "mpp1" \in m)
  <1>1. MPP \subseteq m <=> "mpp0" \in m /\ "mpp1" \in m
    BY DEF MPP
  <1>2. m \cap MPP = {} <=> "mpp0" \notin m /\ "mpp1" \notin m
    BY DEF MPP
  <1> QED
    BY <1>1, <1>2 DEF Mpp

\* What the value of mpp is when it is legal.
LEMMA MppValue ==
  ASSUME NEW m, "mpp0" \in m <=> "mpp1" \in m
  PROVE  Mpp(m) = IF "mpp0" \in m THEN "M" ELSE "U"
  <1>1. MPP \subseteq m <=> "mpp0" \in m /\ "mpp1" \in m
    BY DEF MPP
  <1>2. m \cap MPP = {} <=> "mpp0" \notin m /\ "mpp1" \notin m
    BY DEF MPP
  <1> QED
    BY <1>1, <1>2 DEF Mpp

\* The fields of an instruction: its operand only has bits of its CSR.
LEMMA InstrFields ==
  ASSUME NEW i \in Instr
  PROVE  /\ i.op \in Ops
         /\ IsCsrOp(i) => i.csr \in Csr /\ i.val \subseteq Bits(i.csr)
  <1>1. CASE \E c \in Csr :
               i \in [op : Ops \cap CsrOps, csr : {c}, val : SUBSET Bits(c), rs1_x0 : {FALSE}]
    BY <1>1
  <1>2. CASE i \in [op : Ops \cap CsrOps, csr : Csr, val : {{}}, rs1_x0 : {TRUE}]
    BY <1>2
  <1>3. CASE i \in [op : Ops \cap Fixed, csr : {"none"}, val : {{}}, rs1_x0 : {TRUE}]
    <2>1. i.op \in Ops /\ i.op \in Fixed
      BY <1>3
    <2> QED
      BY <2>1 DEF IsCsrOp, Fixed, CsrOps
  <1>4. CASE i \in [op : Ops \ (CsrOps \cup Fixed), csr : Csr \cup {"none"},
                    val : {{}}, rs1_x0 : {TRUE}]
    <2>1. i.op \in Ops /\ i.op \notin CsrOps
      BY <1>4
    <2> QED
      BY <2>1 DEF IsCsrOp
  <1> QED
    BY <1>1, <1>2, <1>3, <1>4 DEF Instr

\* A CSR instruction keeps a set of bits within the bits of its CSR.
LEMMA ResultBits ==
  ASSUME NEW i \in Instr, IsCsrOp(i), NEW old \in SUBSET Bits(i.csr)
  PROVE  Result(i, old) \subseteq Bits(i.csr)
  BY InstrFields DEF Result

\* What a write leaves in mstatus is legal if what was there is legal.
LEMMA MstatusWritten ==
  ASSUME NEW i \in Instr, IsCsrOp(i), i.csr = "mstatus",
         mstatus \subseteq MstatusBits, Mpp(mstatus) # "none"
  PROVE  WrittenMstatus(i) \subseteq MstatusBits /\ Mpp(WrittenMstatus(i)) # "none"
  <1>1. Result(i, mstatus) \subseteq MstatusBits
    <2>1. Bits(i.csr) = MstatusBits
      BY DEF Bits
    <2> QED
      BY <2>1, ResultBits
  <1>2. CASE Mpp(i.val) = "none"
    <2>1. WrittenMstatus(i) = Result(i, mstatus) \ MPP
      BY <1>2 DEF WrittenMstatus
    <2>2. "mpp0" \notin WrittenMstatus(i) /\ "mpp1" \notin WrittenMstatus(i)
      BY <2>1 DEF MPP
    <2> QED
      BY <1>1, <2>1, <2>2, MppLegal
  <1>3. CASE Mpp(i.val) # "none"
    <2>1. WrittenMstatus(i) = Result(i, mstatus)
      BY <1>3 DEF WrittenMstatus
    <2>2. "mpp0" \in i.val <=> "mpp1" \in i.val
      BY <1>3, MppLegal
    <2>3. "mpp0" \in mstatus <=> "mpp1" \in mstatus
      BY MppLegal
    <2>4. "mpp0" \in Result(i, mstatus) <=> "mpp1" \in Result(i, mstatus)
      BY <2>2, <2>3 DEF Result
    <2> QED
      BY <1>1, <2>1, <2>4, MppLegal
  <1> QED
    BY <1>2, <1>3

\* Entering a trap stores the mode and the interrupt enable of before.
LEMMA MstatusTrapped ==
  ASSUME mstatus \subseteq MstatusBits, mode \in Mode
  PROVE  /\ TrappedMstatus \subseteq MstatusBits
         /\ Mpp(TrappedMstatus) = mode
         /\ "mie" \notin TrappedMstatus
         /\ "mpie" \in TrappedMstatus <=> "mie" \in mstatus
  <1>1. TrappedMstatus \subseteq MstatusBits
    BY DEF TrappedMstatus, MppOf, MPP, MstatusBits
  <1>2. /\ "mie" \notin TrappedMstatus
        /\ "mpie" \in TrappedMstatus <=> "mie" \in mstatus
    BY DEF TrappedMstatus, MppOf, MPP
  <1>3. /\ "mpp0" \in TrappedMstatus <=> mode = "M"
        /\ "mpp1" \in TrappedMstatus <=> mode = "M"
    BY DEF TrappedMstatus, MppOf, MPP
  <1>4. Mpp(TrappedMstatus) = IF "mpp0" \in TrappedMstatus THEN "M" ELSE "U"
    BY <1>3, MppValue
  <1> QED
    BY <1>1, <1>2, <1>3, <1>4 DEF Mode

\* Returning leaves user mode in mpp.
LEMMA MstatusReturned ==
  ASSUME mstatus \subseteq MstatusBits
  PROVE  ReturnedMstatus \subseteq MstatusBits /\ Mpp(ReturnedMstatus) # "none"
  <1>1. ReturnedMstatus \subseteq MstatusBits
    BY DEF ReturnedMstatus, MstatusBits
  <1>2. "mpp0" \notin ReturnedMstatus /\ "mpp1" \notin ReturnedMstatus
    BY DEF ReturnedMstatus, MPP
  <1> QED
    BY <1>1, <1>2, MppLegal

-----------------------------------------------------------------------------
(* What one clock edge does to each group of registers. *)

LEMMA ModeTyped ==
  ASSUME IInv, NEW i, NEW f, ModeStep(i, f)
  PROVE  mode' \in Mode
  <1>1. Mpp(mstatus) \in Mode
    BY DEF IInv, LegalFields, Mpp, Mode
  <1> QED
    BY <1>1 DEF IInv, TypeOK, ModeStep, Mode

LEMMA MstatusTyped ==
  ASSUME IInv, NEW i \in Instr, NEW f, NEW w, MstatusStep(i, f, w)
  PROVE  mstatus' \subseteq MstatusBits /\ Mpp(mstatus') # "none"
  <1> USE DEF IInv, TypeOK, LegalFields
  <1>1. CASE mstatus' = TrappedMstatus
    BY <1>1, MstatusTrapped DEF Mode
  <1>2. CASE mstatus' = ReturnedMstatus
    BY <1>2, MstatusReturned
  <1>3. CASE Writes(i, f, w, "mstatus") /\ mstatus' = WrittenMstatus(i)
    BY <1>3, MstatusWritten DEF Writes
  <1>4. CASE mstatus' = mstatus
    BY <1>4
  <1> QED
    BY <1>1, <1>2, <1>3, <1>4 DEF MstatusStep

LEMMA MtvecTyped ==
  ASSUME mtvec \subseteq MtvecBits, "mode1" \notin mtvec,
         NEW i \in Instr, IsCsrOp(i), i.csr = "mtvec"
  PROVE  WrittenMtvec(i) \subseteq MtvecBits /\ "mode1" \notin WrittenMtvec(i)
  <1>1. Result(i, mtvec) \subseteq MtvecBits
    <2>1. Bits(i.csr) = MtvecBits
      BY DEF Bits
    <2> QED
      BY <2>1, ResultBits
  <1>2. CASE "mode1" \in i.val
    BY <1>1, <1>2 DEF WrittenMtvec, MtvecBits
  <1>3. CASE "mode1" \notin i.val
    <2>1. "mode1" \notin Result(i, mtvec)
      BY <1>3 DEF Result
    <2> QED
      BY <1>1, <1>3, <2>1 DEF WrittenMtvec
  <1> QED
    BY <1>2, <1>3

LEMMA PlainTyped ==
  ASSUME IInv, NEW i \in Instr, NEW f, NEW w, PlainStep(i, f, w)
  PROVE  /\ mtvec' \subseteq MtvecBits /\ "mode1" \notin mtvec'
         /\ mie' \subseteq Sources
         /\ mcounteren' \subseteq {"cy"}
  <1> USE DEF IInv, TypeOK, LegalFields
  <1>1. mtvec' \subseteq MtvecBits /\ "mode1" \notin mtvec'
    <2>1. CASE Writes(i, f, w, "mtvec")
      BY <2>1, MtvecTyped DEF PlainStep, Writes
    <2> QED
      BY <2>1 DEF PlainStep
  <1>2. mie' \subseteq Sources
    <2>1. CASE Writes(i, f, w, "mie")
      <3>1. IsCsrOp(i) /\ i.csr = "mie" /\ Bits(i.csr) = Sources
        BY <2>1 DEF Writes, Bits
      <3>2. Result(i, mie) \subseteq Sources
        BY <3>1, ResultBits
      <3> QED
        BY <2>1, <3>2 DEF PlainStep
    <2> QED
      BY <2>1 DEF PlainStep
  <1>3. mcounteren' \subseteq {"cy"}
    <2>1. CASE Writes(i, f, w, "mcounteren")
      <3>1. IsCsrOp(i) /\ i.csr = "mcounteren" /\ Bits(i.csr) = {"cy"}
        BY <2>1 DEF Writes, Bits
      <3>2. Result(i, mcounteren) \subseteq {"cy"}
        BY <3>1, ResultBits
      <3> QED
        BY <2>1, <3>2 DEF PlainStep
    <2> QED
      BY <2>1 DEF PlainStep
  <1> QED
    BY <1>1, <1>2, <1>3

LEMMA MipTyped ==
  ASSUME IInv, NEW i \in Instr, NEW f, NEW w,
         NEW lines \in SUBSET Sources, NEW clears \in SUBSET Sources,
         MipStep(i, f, w, lines, clears)
  PROVE  mip' \subseteq Sources
  <1> USE DEF IInv, TypeOK
  <1>1. CASE lines \cup clears # {}
    BY <1>1 DEF MipStep
  <1>2. CASE lines \cup clears = {} /\ Writes(i, f, w, "mip")
    <2>1. IsCsrOp(i) /\ i.csr = "mip" /\ Bits(i.csr) = Sources
      BY <1>2 DEF Writes, Bits
    <2>2. Result(i, mip) \subseteq Sources
      BY <2>1, ResultBits
    <2> QED
      BY <1>2, <2>2 DEF MipStep
  <1> QED
    BY <1>1, <1>2 DEF MipStep

\* Every cause the handler reports is one of the machine's causes.
LEMMA CauseTyped ==
  ASSUME IInv, NEW i \in Instr, NEW f \in Fetch, NEW lines \in SUBSET Sources,
         CauseStep(i, f, lines)
  PROVE  mcause' \in Cause /\ mepc' \in Stage /\ mtval' \in Stage
  <1> USE DEF IInv, TypeOK
  <1>1. mepc' \in Stage /\ mtval' \in Stage
    BY DEF CauseStep, Stage
  <1>2. IntSrc(lines) \in Sources \cup {"soft_s"}
    BY DEF IntSrc
  <1>3. Exception(i, f) =>
          ExSrc(i, f) \in {"breakpoint", "insn_access", "illegal", "env_u", "env_m",
                           "insn_mal", "mal_s", "mal_l", "fault_s", "fault_l"}
    <2>1. f \in {"ok", "fault", "mal"}
      BY FetchAssumption
    <2> QED
      BY <2>1 DEF Exception, ExFault, ExSrc
  <1>4. mcause' \in Cause
    <2>1. CASE Trap(i, f) /\ Exception(i, f)
      <3>1. mcause' = [interrupt |-> FALSE, code |-> ExSrc(i, f)]
        BY <2>1, Zenon DEF CauseStep
      <3> HIDE DEF IInv, TypeOK
      <3> QED
        BY <1>3, <2>1, <3>1 DEF Cause
    <2>2. CASE Trap(i, f) /\ ~Exception(i, f)
      <3>1. mcause' = [interrupt |-> TRUE, code |-> IntSrc(lines)]
        BY <2>2, Zenon DEF CauseStep
      <3> HIDE DEF IInv, TypeOK
      <3> QED
        BY <1>2, <3>1 DEF Cause
    <2>3. CASE ~Trap(i, f)
      BY <2>3 DEF CauseStep
    <2> QED
      BY <2>1, <2>2, <2>3
  <1> QED
    BY <1>1, <1>4

LEMMA HistoryTyped ==
  ASSUME IInv, NEW i, NEW f, NEW w, HistoryStep(i, f, w)
  PROVE  saved' \in {None} \cup [mode : Mode, mie : BOOLEAN]
  BY DEF IInv, TypeOK, HistoryStep

-----------------------------------------------------------------------------
\* IInv is inductive.
LEMMA InductiveInvariant == Spec => []IInv
  <1>1. Init => IInv
    <2>1. Mpp({"tw"}) = "U"
      BY MppValue
    <2> QED
      BY <2>1 DEF Init, IInv, TypeOK, LegalFields, Mode, MstatusBits, MtvecBits,
                  Cause, Stage
  <1>2. IInv /\ [Next]_vars => IInv'
    <2> SUFFICES ASSUME IInv, [Next]_vars PROVE IInv'
      OBVIOUS
    <2>1. CASE UNCHANGED vars
      BY <2>1 DEF vars, IInv, TypeOK, LegalFields, Mpp
    <2>2. CASE Next
      <3>1. PICK i \in Instr, f \in Fetch, w \in BOOLEAN,
                 lines \in SUBSET Sources, clears \in SUBSET Sources :
              Edge(i, f, w, lines, clears)
        BY <2>2 DEF Next
      <3>2. mode' \in Mode
        BY <3>1, ModeTyped DEF Edge
      <3>3. mstatus' \subseteq MstatusBits /\ Mpp(mstatus') # "none"
        BY <3>1, MstatusTyped DEF Edge
      <3>4. /\ mtvec' \subseteq MtvecBits /\ "mode1" \notin mtvec'
            /\ mie' \subseteq Sources /\ mcounteren' \subseteq {"cy"}
        BY <3>1, PlainTyped DEF Edge
      <3>5. mip' \subseteq Sources
        BY <3>1, MipTyped DEF Edge
      <3>6. mcause' \in Cause /\ mepc' \in Stage /\ mtval' \in Stage
        BY <3>1, CauseTyped DEF Edge
      <3>7. saved' \in {None} \cup [mode : Mode, mie : BOOLEAN]
        BY <3>1, HistoryTyped DEF Edge
      <3>8. TypeOK'
        BY <3>2, <3>3, <3>4, <3>5, <3>6, <3>7 DEF TypeOK
      <3>9. LegalFields'
        BY <3>3, <3>4 DEF LegalFields, Mpp
      <3> QED
        BY <3>8, <3>9 DEF IInv
    <2> QED
      BY <2>1, <2>2
  <1> QED
    BY <1>1, <1>2, PTL DEF Spec

\* Every register holds a value of its type, mode included, which mret takes
\* from mstatus (mode.sv, csr.sv).
THEOREM TypeCorrect == Spec => []TypeOK
  <1>1. IInv => TypeOK
    BY DEF IInv
  <1> QED
    BY <1>1, InductiveInvariant, PTL

\* mpp and mtvec.mode never leave their legal encodings, although a write
\* checks the operand and not what it stores (csr.sv).
THEOREM FieldsLegal == Spec => []LegalFields
  <1>1. IInv => LegalFields
    BY DEF IInv
  <1> QED
    BY <1>1, InductiveInvariant, PTL

\* Until it returns or writes mstatus, a handler runs in machine mode with
\* interrupts masked, and mstatus holds what the trap interrupted.
THEOREM FrameKept == Spec => []TrapFrame
  <1>1. Init => TrapFrame
    BY DEF Init, TrapFrame
  <1>2. IInv /\ TrapFrame /\ [Next]_vars => TrapFrame'
    <2> SUFFICES ASSUME IInv, TrapFrame, [Next]_vars PROVE TrapFrame'
      OBVIOUS
    <2>1. CASE UNCHANGED vars
      BY <2>1 DEF vars, TrapFrame, Mpp
    <2>2. CASE Next
      <3>1. PICK i \in Instr, f \in Fetch, w \in BOOLEAN :
              ModeStep(i, f) /\ MstatusStep(i, f, w) /\ HistoryStep(i, f, w)
        BY <2>2 DEF Next, Edge
      <3>2. CASE Trap(i, f)
        <4>1. /\ mode' = "M" /\ mstatus' = TrappedMstatus
              /\ saved' = [mode |-> mode, mie |-> "mie" \in mstatus]
          BY <3>1, <3>2 DEF ModeStep, MstatusStep, HistoryStep
        <4>2. /\ Mpp(mstatus') = mode
              /\ "mie" \notin mstatus'
              /\ "mpie" \in mstatus' <=> "mie" \in mstatus
          BY <4>1, MstatusTrapped DEF IInv, TypeOK
        <4>3. saved'.mode = mode /\ (saved'.mie <=> "mie" \in mstatus)
          BY <4>1
        <4>4. Mpp(mstatus)' = Mpp(mstatus')
          BY DEF Mpp
        <4> QED
          BY <4>1, <4>2, <4>3, <4>4 DEF TrapFrame
      <3>3. CASE ~Trap(i, f) /\ (Mret(i) \/ Writes(i, f, w, "mstatus"))
        BY <3>1, <3>3 DEF HistoryStep, TrapFrame
      <3>4. CASE ~Trap(i, f) /\ ~Mret(i) /\ ~Writes(i, f, w, "mstatus")
        <4>1. mode' = mode /\ mstatus' = mstatus /\ saved' = saved
          BY <3>1, <3>4 DEF ModeStep, MstatusStep, HistoryStep
        <4> QED
          BY <4>1 DEF TrapFrame, Mpp
      <3> QED
        BY <3>2, <3>3, <3>4
    <2> QED
      BY <2>1, <2>2
  <1> QED
    BY <1>1, <1>2, InductiveInvariant, PTL DEF Spec

\* User code changes no machine register and gets out of user mode only
\* through a trap.
THEOREM UserIsConfined == Spec => UserConfined
  <1> DEFINE Confined ==
        mode = "U" =>
          /\ UNCHANGED <<mtvec, mie, mcounteren>>
          /\ \/ mode' = "U" /\ UNCHANGED <<mstatus, mcause, mepc, mtval>>
             \/ mode' = "M" /\ saved' = [mode |-> "U", mie |-> "mie" \in mstatus]
  <1>1. Next => Confined
    <2> SUFFICES ASSUME Next, mode = "U" PROVE Confined
      OBVIOUS
    <2>1. PICK i \in Instr, f \in Fetch, w \in BOOLEAN,
               lines \in SUBSET Sources, clears \in SUBSET Sources :
            Edge(i, f, w, lines, clears)
      BY DEF Next
    <2>2. ~Mret(i)
      BY DEF Mret
    <2>3. \A csr : Writes(i, f, w, csr) => csr = "cycle"
      BY DEF Writes, InvalidCsrPriv
    <2>4. UNCHANGED <<mtvec, mie, mcounteren>>
      BY <2>1, <2>3 DEF Edge, PlainStep
    <2>5. CASE Trap(i, f)
      <3>1. mode' = "M" /\ saved' = [mode |-> "U", mie |-> "mie" \in mstatus]
        BY <2>1, <2>5 DEF Edge, ModeStep, HistoryStep
      <3> QED
        BY <2>4, <3>1
    <2>6. CASE ~Trap(i, f)
      <3>1. mode' = "U" /\ UNCHANGED mstatus
        BY <2>1, <2>2, <2>3, <2>6 DEF Edge, ModeStep, MstatusStep
      <3>2. UNCHANGED <<mcause, mepc, mtval>>
        BY <2>1, <2>6 DEF Edge, CauseStep
      <3> QED
        BY <2>4, <3>1, <3>2
    <2> QED
      BY <2>5, <2>6
  <1>2. [Next]_vars => [Confined]_vars
    BY <1>1
  <1> QED
    BY <1>2, PTL DEF Spec, UserConfined
===============================================================================
