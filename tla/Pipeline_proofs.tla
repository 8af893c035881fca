---------------------------- MODULE Pipeline_proofs ----------------------------
(* For every program, memory latency and bridge: the pipeline is a client of *)
(* the memory controller, it follows program order, and an instruction that  *)
(* enters the execute stage is the one memory holds, as long as no interrupt *)
(* withdraws a fetch too late for the arbiter.                                *)
EXTENDS Pipeline, TLAPS

-----------------------------------------------------------------------------
(* What the pipeline hands the memory controller *)

LEMMA CodeFacts ==
  /\ Code \in Nat /\ Code >= 1
  /\ Handler \in 1 .. Code /\ Target \in 1 .. Code /\ 1 \in 1 .. Code
  /\ Protected \subseteq 1 .. Code
  /\ DataAddr \notin 1 .. Code
BY CodeAssumption

LEMMA SuccType == ASSUME NEW a \in 1 .. Code PROVE Succ(a) \in 1 .. Code
BY CodeFacts DEF Succ

LEMMA RequestFacts ==
  /\ \A a \in 1 .. Code : [op |-> "read", addr |-> a] \in MC!Reads
  /\ [op |-> "read", addr |-> DataAddr] \in MC!Reads
  /\ [op |-> "write", addr |-> DataAddr] \in MC!Writes
  /\ MC!Request = {MC!NoReq} \cup MC!Reads \cup MC!Writes
  /\ \A q \in MC!Reads \cup MC!Writes : q # MC!NoReq /\ q.addr \in Addr
BY DEF MC!Reads, MC!Writes, MC!Request, MC!NoReq, Addr

\* The kinds of instruction exclude each other.
LEMMA Kinds ==
  /\ ~(DmemAccess /\ BranchJump) /\ ~(DmemAccess /\ ExFault) /\ ~(DmemAccess /\ Ret)
  /\ ex = Bubble => ~DmemAccess /\ ~BranchJump /\ ~ExFault /\ ~Ret
BY DEF DmemAccess, BranchJump, ExFault, Ret, Bubble

\* A data access is what the pipeline puts on the data port.
LEMMA DataPortFacts ==
  /\ DataPort \in MC!Request
  /\ DataPort # MC!NoReq <=> DmemAccess
  /\ ex = Bubble => DataPort = MC!NoReq
<1>1. CASE ex.op = "load"
  <2>1. DataPort = [op |-> "read", addr |-> DataAddr]
    BY <1>1, Zenon DEF DataPort
  <2> QED
    BY <1>1, <2>1, RequestFacts DEF DmemAccess, Bubble
<1>2. CASE ex.op = "store"
  <2>1. DataPort = [op |-> "write", addr |-> DataAddr]
    BY <1>2, Zenon DEF DataPort
  <2> QED
    BY <1>2, <2>1, RequestFacts DEF DmemAccess, Bubble
<1>3. CASE ex.op \notin {"load", "store"}
  <2>1. DataPort = MC!NoReq
    BY <1>3, Zenon DEF DataPort
  <2> QED
    BY <1>3, <2>1, RequestFacts DEF DmemAccess
<1> QED
  BY <1>1, <1>2, <1>3

LEMMA FetchPortFacts ==
  ASSUME pc \in 1 .. Code
  PROVE  /\ FetchPort \in {MC!NoReq} \cup MC!Reads
         /\ FetchPort = MC!NoReq <=> Intr \/ FetchFault
         /\ ~Intr /\ ~FetchFault => FetchPort = [op |-> "read", addr |-> pc]
BY RequestFacts DEF FetchPort

-----------------------------------------------------------------------------
(* The hazard unit *)

\* An instruction enters the execute stage only when the fetch is answered and
\* nothing stands in its way.
LEMMA ArrivesMeans ==
  Arrives => /\ ~MC!IBusy /\ ~WaitForImem /\ ~WaitForDmem /\ ~FlushHazard
             /\ ~ExFault /\ ~Ret /\ ~BranchJump /\ ~FetchFault /\ ~Intr
             /\ ~InterruptFired /\ ~Trap
BY DEF Arrives, Flush, Stall, FlushHazard, WaitForImem, WaitForDmem, Trap, Intr

\* The stage behind moves on without it only for a change of control flow.
LEMMA PcMoves ==
  /\ PcEn => Arrives \/ BranchJump \/ Trap \/ Ret
  /\ BranchJump \/ Trap \/ Ret \/ Arrives => PcEn
<1>1. ~WaitForDmem /\ ~WaitForImem /\ ~FlushHazard => Arrives \/ BranchJump
  BY DEF Arrives, Flush, Stall
<1> QED
  BY <1>1, ArrivesMeans DEF PcEn

\* The two ports are never answered at the same edge.
LEMMA OneAnswer ==
  /\ MC!IBusy \/ MC!DBusy
  /\ ~MC!IBusy => bus # MC!NoReq /\ mc \in {"INSTR_WAIT", "INSTR_DATA_REQ"}
  /\ ~MC!DBusy => bus # MC!NoReq /\ mc \in {"DATA_WAIT", "DATA_INSTR_REQ"}
BY DEF MC!IBusy, MC!DBusy, MC!OutBusy, MC!Done

\* A data access stays in ex exactly until it is answered.
LEMMA AccessHeld ==
  ASSUME DmemAccess
  PROVE  /\ MC!DBusy => ~Flush /\ Stall /\ ~Arrives
         /\ ~MC!DBusy => ~Arrives /\ (Flush \/ ~Stall)
<1>1. ~BranchJump /\ ~ExFault /\ ~Ret
  BY Kinds
<1>2. MC!DBusy => ~Flush /\ Stall /\ ~Arrives
  BY <1>1 DEF Flush, Stall, FlushHazard, WaitForDmem, Arrives
<1>3. ~MC!DBusy => ~Stall
  BY DEF Stall, WaitForDmem
<1>4. ~MC!DBusy => ~Arrives
  BY ArrivesMeans, OneAnswer
<1> QED
  BY <1>2, <1>3, <1>4

\* An instruction that changes the control flow leaves ex at the next edge.
LEMMA TurnsLeave == BranchJump \/ ExFault \/ Ret => Flush
BY DEF Flush, FlushHazard

-----------------------------------------------------------------------------
(* Types *)

LEMMA InitType == Init => TypeOK
<1> SUFFICES ASSUME Init PROVE TypeOK
  OBVIOUS
<1>1. mem \in [Addr -> Op]
  BY ProgramAssumption DEF Init, Addr, Op
<1>3. ireq \in {MC!NoReq} \cup MC!Reads
  BY FetchPortFacts, CodeFacts DEF Init
<1>4. dreq \in MC!Request
  BY DataPortFacts DEF Init
<1>5. MC!TypeOK
  BY <1>1, <1>3, <1>4, RequestFacts DEF Init, MC!TypeOK, MC!State, Op
<1> QED
  BY <1>5, CodeFacts DEF Init, TypeOK

LEMMA BusAddr == MC!TypeOK /\ bus # MC!NoReq => bus.addr \in Addr
BY RequestFacts DEF MC!TypeOK

LEMMA BusStepType ==
  ASSUME MC!TypeOK, MC!BusStep
  PROVE  /\ bus' \in MC!Request /\ held' \in Op /\ wait' \in Nat
         /\ mem' \in [Addr -> Op]
<1>1. MC!WriteData \in Op
  BY DEF MC!TypeOK, MC!WriteData
<1>2. mem' \in [Addr -> Op]
  BY <1>1 DEF MC!TypeOK, MC!BusStep
<1>3. MC!Out \in MC!Request
  BY RequestFacts DEF MC!TypeOK, MC!Out
<1>4. \A n \in Latency : n \in Nat
  BY MemoryAssumption
<1>5. CASE bus = MC!NoReq \/ MC!Done
  BY <1>2, <1>3, <1>4, <1>5 DEF MC!TypeOK, MC!BusStep
<1>6. CASE bus # MC!NoReq /\ ~MC!Done
  BY <1>2, <1>6 DEF MC!TypeOK, MC!BusStep, MC!Done
<1> QED
  BY <1>5, <1>6

\* The registers of the pipeline after an edge.
LEMMA CoreStepType ==
  ASSUME TypeOK, Next
  PROVE  /\ pc' \in 1 .. Code /\ mepc' \in 1 .. Code /\ due' \in 1 .. Code
         /\ ex' \in {Bubble} \cup Instr
         /\ {mie', mpie', mip', intact'} \subseteq BOOLEAN
<1>1. pc' \in 1 .. Code
  <2>1. Npc \in 1 .. Code
    BY CodeFacts, SuccType DEF TypeOK, Npc
  <2> QED
    BY <2>1 DEF TypeOK, Next, FetchStep
<1>2. ex' \in {Bubble} \cup Instr
  <2>1. CASE Flush
    BY <2>1 DEF Next, FetchStep, Arrives
  <2>2. CASE ~Flush /\ Stall
    BY <2>2 DEF Next, FetchStep, Arrives, TypeOK
  <2>3. CASE Arrives
    <3>1. PICK taken \in BOOLEAN : ex' = [pc |-> pc, op |-> mem[bus.addr], taken |-> taken]
      BY <2>3 DEF Next, FetchStep, Arrives
    <3>2. mem[bus.addr] \in Op
      BY <2>3, ArrivesMeans, OneAnswer, BusAddr DEF TypeOK, MC!TypeOK
    <3> QED
      BY <3>1, <3>2 DEF TypeOK, Instr
  <2> QED
    BY <2>1, <2>2, <2>3 DEF Arrives
<1>3. mepc' \in 1 .. Code
  <2>1. ExFault => ex.pc \in 1 .. Code
    BY DEF TypeOK, ExFault, Bubble, Instr
  <2> QED
    BY <2>1 DEF TypeOK, Next, TrapStep
<1>4. mie' \in BOOLEAN /\ mpie' \in BOOLEAN
  <2>1. (ex.op = "set") \in BOOLEAN
    OBVIOUS
  <2> QED
    BY <2>1 DEF TypeOK, Next, TrapStep
<1>5. mip' \in BOOLEAN
  BY DEF Next, InterruptStep
<1>6. intact' \in BOOLEAN
  <2>1. intact' = (intact /\ ~(Intr /\ TooLate))
    BY DEF Next, WithdrawStep
  <2> QED
    BY <2>1, Zenon
<1>7. due' \in 1 .. Code
  <2>1. \/ due' \in {Handler, due, mepc, Target, Succ(pc)}
    BY Zenon DEF Next, OrderStep
  <2> QED
    BY <2>1, CodeFacts, SuccType DEF TypeOK
<1> QED
  BY <1>1, <1>2, <1>3, <1>4, <1>5, <1>6, <1>7

LEMMA StepType == TypeOK /\ [Next]_vars => TypeOK'
<1> SUFFICES ASSUME TypeOK, [Next]_vars PROVE TypeOK'
  OBVIOUS
<1>1. CASE Next
  <2>1. /\ pc' \in 1 .. Code /\ mepc' \in 1 .. Code /\ due' \in 1 .. Code
        /\ ex' \in {Bubble} \cup Instr
        /\ {mie', mpie', mip', intact'} \subseteq BOOLEAN
    BY <1>1, CoreStepType
  <2>2. bus' \in MC!Request /\ held' \in Op /\ wait' \in Nat /\ mem' \in [Addr -> Op]
    BY <1>1, BusStepType DEF TypeOK, Next
  <2>3. ireq' \in {MC!NoReq} \cup MC!Reads
    BY <1>1, <2>1, RequestFacts DEF Next, PortStep, FetchPort
  <2>4. dreq' \in MC!Request
    <3>1. dreq' \in {[op |-> "read", addr |-> DataAddr], [op |-> "write", addr |-> DataAddr],
                     MC!NoReq}
      BY <1>1, Zenon DEF Next, PortStep, DataPort
    <3> QED
      BY <3>1, RequestFacts
  <2>5. mc' \in MC!State
    BY <1>1 DEF TypeOK, Next, MC!TypeOK, MC!State, MC!Arbitrate, MC!InIdle, MC!InInstrReq,
       MC!InInstrDataReq, MC!InInstrWait, MC!InDataReq, MC!InDataInstrReq, MC!InDataWait
  <2>6. wdata' \in Op
    BY <1>1 DEF TypeOK, MC!TypeOK, Next, PortStep
  <2>7. igot' \in Op
    BY <1>1, OneAnswer, BusAddr DEF TypeOK, MC!TypeOK, Next, PortStep
  <2>8. dgot' \in Op
    BY <1>1, OneAnswer, BusAddr DEF TypeOK, MC!TypeOK, Next, PortStep
  <2>9. MC!TypeOK'
    BY <2>2, <2>3, <2>4, <2>5, <2>6, <2>7, <2>8 DEF MC!TypeOK
  <2> QED
    BY <2>1, <2>9 DEF TypeOK
<1>2. CASE UNCHANGED vars
  BY <1>2 DEF TypeOK, MC!TypeOK, vars, core, memory
<1> QED
  BY <1>1, <1>2

\* The registers of the pipeline keep their types: what enters the execute stage
\* (tspp_fetch_stage.sv:103) is always a word that memory holds.
THEOREM TypeCorrect == Spec => []TypeOK
BY InitType, StepType, PTL DEF Spec

-----------------------------------------------------------------------------
(* The ports.  That a fetch keeps its address until it is answered depends   *)
(* on when a branch, a return or an exception can be in the execute stage:   *)
(* only at the edge after the fetch of that instruction has been answered,   *)
(* when the arbiter is idle again.                                           *)

PortsFollow == ireq = FetchPort /\ dreq = DataPort

DataHeld ==
  mc \in {"DATA_REQ", "DATA_INSTR_REQ", "DATA_WAIT", "INSTR_DATA_REQ"} => dreq # MC!NoReq

\* Data accesses start when the arbiter is idle: none comes in behind a fetch.
AccessFromIdle ==
  dreq # MC!NoReq => mc \in {"IDLE", "DATA_REQ", "DATA_INSTR_REQ", "DATA_WAIT"}

TurnsIdle == BranchJump \/ ExFault \/ Ret => mc = "IDLE"

PortInv == TypeOK /\ PortsFollow /\ DataHeld /\ AccessFromIdle /\ TurnsIdle

LEMMA InitPorts == Init => PortInv
<1> SUFFICES ASSUME Init PROVE PortInv
  OBVIOUS
<1>1. ex = Bubble /\ mc = "IDLE"
  BY DEF Init
<1> QED
  BY <1>1, InitType DEF Init, PortInv, PortsFollow, DataHeld, AccessFromIdle, TurnsIdle

\* What the ports say about the execute stage.
LEMMA PortFacts ==
  ASSUME PortInv
  PROVE  /\ dreq # MC!NoReq <=> DmemAccess
         /\ ireq = MC!NoReq <=> Intr \/ FetchFault
         /\ ireq # MC!NoReq => ireq = [op |-> "read", addr |-> pc] /\ ~Intr
BY DataPortFacts, FetchPortFacts DEF PortInv, PortsFollow, TypeOK

\* The fetch of an instruction is over, and no data access waits behind it.
LEMMA ArrivesIdle ==
  ASSUME PortInv, Next, Arrives
  PROVE  mc = "INSTR_WAIT" /\ mc' = "IDLE"
<1>1. ~MC!IBusy /\ ~WaitForDmem
  BY ArrivesMeans
<1>2. mc \in {"INSTR_WAIT", "INSTR_DATA_REQ"} /\ ~MC!OutBusy /\ MC!DBusy
  BY <1>1, OneAnswer DEF MC!IBusy
<1>3. dreq = MC!NoReq
  BY <1>1, <1>2, PortFacts DEF WaitForDmem
<1>4. mc = "INSTR_WAIT"
  BY <1>2, <1>3 DEF PortInv, DataHeld
<1> QED
  BY <1>2, <1>3, <1>4 DEF Next, MC!Arbitrate, MC!InIdle, MC!InInstrReq, MC!InInstrDataReq,
     MC!InInstrWait, MC!InDataReq, MC!InDataInstrReq, MC!InDataWait

\* A fetch that is on the bus keeps its address, unless an interrupt takes it back.
LEMMA FetchHeld ==
  ASSUME PortInv, Next, ireq # MC!NoReq, MC!IBusy, mc # "IDLE"
  PROVE  pc' = pc /\ (ireq' = ireq \/ ireq' = MC!NoReq)
<1>1. ~Intr /\ ~FetchFault /\ ireq = [op |-> "read", addr |-> pc]
  BY PortFacts
<1>2. ~BranchJump /\ ~ExFault /\ ~Ret
  BY DEF PortInv, TurnsIdle
<1>3. ~Trap /\ ~Arrives
  BY <1>1, <1>2, ArrivesMeans DEF Trap, Intr
<1>4. pc' = pc
  BY <1>2, <1>3, PcMoves DEF Next, FetchStep
<1>5. ireq' = FetchPort'
  BY DEF Next, PortStep
<1> QED
  BY <1>1, <1>4, <1>5 DEF FetchPort

\* A data access that is not answered stays on its port.
LEMMA AccessStays ==
  ASSUME PortInv, Next, dreq # MC!NoReq, MC!DBusy
  PROVE  ex' = ex /\ dreq' = dreq
<1>1. DmemAccess
  BY PortFacts
<1>2. ex' = ex
  BY <1>1, AccessHeld DEF Next, FetchStep
<1>3. dreq' = DataPort' /\ dreq = DataPort
  BY DEF Next, PortStep, PortInv, PortsFollow
<1> QED
  BY <1>2, <1>3, Zenon DEF DataPort

\* What is in the execute stage after an edge at which nothing arrives.
LEMMA NothingNew ==
  ASSUME Next, ~Arrives PROVE ex' = Bubble \/ (ex' = ex /\ ~Flush /\ Stall)
BY DEF Next, FetchStep, Arrives

LEMMA StepPorts == PortInv /\ [Next]_vars => PortInv'
<1> SUFFICES ASSUME PortInv, [Next]_vars PROVE PortInv'
  OBVIOUS
<1>1. CASE Next
  <2>1. TypeOK'
    BY <1>1, StepType DEF PortInv
  <2>2. PortsFollow'
    BY <1>1 DEF Next, PortStep, PortsFollow
  <2>3. dreq # MC!NoReq /\ MC!DBusy => dreq' # MC!NoReq
    BY <1>1, AccessStays
  <2>4. MC!DBusy <=> MC!OutBusy \/ mc \notin {"DATA_WAIT", "DATA_INSTR_REQ"}
    BY DEF MC!DBusy
  <2>5. MC!Arbitrate /\ mc \in MC!State
    BY <1>1 DEF Next, PortInv, TypeOK, MC!TypeOK
  <2>6. DataHeld'
    BY <2>3, <2>4, <2>5 DEF PortInv, DataHeld, MC!State, MC!Arbitrate, MC!InIdle, MC!InInstrReq,
       MC!InInstrDataReq, MC!InInstrWait, MC!InDataReq, MC!InDataInstrReq, MC!InDataWait
  <2>7. ex' = Bubble => ~BranchJump' /\ ~ExFault' /\ ~Ret' /\ ~DmemAccess'
    BY DEF DmemAccess, BranchJump, ExFault, Ret, Bubble
  <2>8. dreq' # MC!NoReq => DmemAccess'
    BY <1>1, Zenon DEF Next, PortStep, DataPort, DmemAccess
  <2>9. AccessFromIdle' /\ TurnsIdle'
    <3>1. CASE Arrives
      BY <1>1, <3>1, ArrivesIdle DEF AccessFromIdle, TurnsIdle
    <3>2. CASE ex' = Bubble
      BY <2>7, <2>8, <3>2 DEF AccessFromIdle, TurnsIdle
    <3>3. CASE ex' = ex /\ ~Flush /\ Stall
      <4>1. ~BranchJump /\ ~ExFault /\ ~Ret
        BY <3>3, TurnsLeave
      <4>2. TurnsIdle'
        BY <3>3, <4>1 DEF TurnsIdle, BranchJump, ExFault, Ret
      <4>3. ASSUME dreq' # MC!NoReq
            PROVE  mc' \in {"IDLE", "DATA_REQ", "DATA_INSTR_REQ", "DATA_WAIT"}
        <5>1. DmemAccess
          BY <2>8, <3>3, <4>3 DEF DmemAccess
        <5>2. MC!DBusy
          BY <3>3, <5>1, AccessHeld
        <5>3. dreq # MC!NoReq
          BY <5>1, PortFacts
        <5> QED
          BY <2>4, <2>5, <5>2, <5>3 DEF PortInv, AccessFromIdle, MC!Arbitrate, MC!InIdle,
             MC!InInstrReq, MC!InInstrDataReq, MC!InInstrWait, MC!InDataReq,
             MC!InDataInstrReq, MC!InDataWait
      <4> QED
        BY <4>2, <4>3 DEF AccessFromIdle
    <3> QED
      BY <1>1, <3>1, <3>2, <3>3, NothingNew
  <2> QED
    BY <2>1, <2>2, <2>6, <2>9 DEF PortInv
<1>2. CASE UNCHANGED vars
  <2>1. TypeOK'
    BY StepType DEF PortInv
  <2>2. UNCHANGED <<FetchPort, DataPort, BranchJump, ExFault, Ret, mc, ireq, dreq>>
    BY <1>2, Zenon DEF vars, core, memory, FetchPort, DataPort, BranchJump, ExFault, Ret,
       Intr, InterruptFired, FetchFault
  <2> QED
    BY <2>1, <2>2 DEF PortInv, PortsFollow, DataHeld, AccessFromIdle, TurnsIdle
<1> QED
  BY <1>1, <1>2

\* At each edge the ports move as those of the clients of the memory controller.
LEMMA ClientStep ==
  ASSUME PortInv, Next PROVE MC!Next
<1>1. pc \in 1 .. Code /\ TypeOK'
  BY StepType DEF PortInv, TypeOK
<1>2. MC!BusStep /\ MC!Arbitrate
  BY DEF Next
<1>3. ireq' \in MC!NextFetch
  BY <1>1, RequestFacts DEF TypeOK, MC!TypeOK, MC!NextFetch
<1>4. MC!IPortStep
  <2>1. igot' = IF ireq # MC!NoReq /\ ~MC!IBusy THEN mem[bus.addr] ELSE igot
    BY DEF Next, PortStep
  <2>2. CASE ireq # MC!NoReq /\ ~MC!IBusy
    BY <1>3, <2>1, <2>2 DEF MC!IPortStep
  <2>3. CASE ireq # MC!NoReq /\ MC!IBusy /\ mc # "IDLE"
    BY <2>1, <2>3, FetchHeld DEF MC!IPortStep
  <2>4. CASE ireq = MC!NoReq \/ (MC!IBusy /\ mc = "IDLE")
    BY <1>3, <2>1, <2>4 DEF MC!IPortStep
  <2> QED
    BY <2>2, <2>3, <2>4
<1>5. MC!DPortStep
  <2>1. dgot' = IF dreq.op = "read" /\ ~MC!DBusy THEN mem[bus.addr] ELSE dgot
    BY DEF Next, PortStep
  <2>2. dreq' \in MC!Request /\ wdata' \in Op /\ wdata' = wdata
    BY <1>1 DEF TypeOK, MC!TypeOK, Next, PortStep
  <2>3. CASE dreq # MC!NoReq /\ ~MC!DBusy
    BY <2>1, <2>2, <2>3 DEF MC!DPortStep
  <2>4. CASE dreq # MC!NoReq /\ MC!DBusy
    BY <2>1, <2>2, <2>4, AccessStays DEF MC!DPortStep
  <2>5. CASE dreq = MC!NoReq
    <3>1. dreq.op # "read"
      BY <2>5 DEF MC!NoReq
    <3> QED
      BY <2>1, <2>2, <2>5, <3>1 DEF MC!DPortStep
  <2> QED
    BY <2>3, <2>4, <2>5
<1> QED
  BY <1>2, <1>4, <1>5 DEF MC!Next, MC!Clock

LEMMA ClientInit == Init => MC!Init
<1> SUFFICES ASSUME Init PROVE MC!Init
  OBVIOUS
<1>1. TypeOK /\ ex = Bubble
  BY InitType DEF Init
<1>2. ireq \in MC!NextFetch
  BY <1>1 DEF TypeOK, MC!TypeOK, MC!NextFetch
<1>3. dreq = MC!NoReq
  BY <1>1, DataPortFacts DEF Init
<1> QED
  BY <1>1, <1>2, <1>3 DEF Init, MC!Init, TypeOK, MC!TypeOK

\* The arbiter, the bridge and the memory behind the pipeline behave as they do
\* with the clients of MemoryController (memory_controller.sv:59 expects that a
\* request stays); the fairness of the clock is the one part of PortProtocol
\* that is not proved.
THEOREM PortsKeep == Spec => MC!Init /\ [][MC!Next]_MC!vars
<1>1. PortInv /\ [Next]_vars => [MC!Next]_MC!vars
  BY ClientStep DEF vars, memory, MC!vars
<1> QED
  BY <1>1, InitPorts, StepPorts, ClientInit, PTL DEF Spec

-----------------------------------------------------------------------------
(* No lock-up: the proof about the memory controller carries over. *)

M == INSTANCE MemoryController_proofs
       WITH Value <- Op, Redirect <- TRUE, Pausing <- TRUE

LEMMA MemoryFits ==
  /\ M!AddrAssumption /\ M!ValueAssumption /\ M!LatencyAssumption
  /\ M!BridgeAssumption /\ M!PortAssumption
<1>1. Addr \subseteq Nat /\ Addr # {}
  BY CodeAssumption DEF Addr
<1> QED
  BY <1>1, MemoryAssumption DEF M!AddrAssumption, M!ValueAssumption, M!LatencyAssumption,
     M!BridgeAssumption, M!PortAssumption, Op

\* MC and M are the same module.
LEMMA SameMemory ==
  /\ MC!Init => M!Init
  /\ [MC!Next]_MC!vars => [M!Next]_M!vars
  /\ M!NoLockup => MC!NoLockup
BY Zenon
DEF M!Init, MC!Init, M!Next, MC!Next, M!vars, MC!vars, M!NoReq, MC!NoReq,
   M!Reads, MC!Reads, M!Writes, MC!Writes, M!Request, MC!Request, M!State,
   MC!State, M!DrivesFetch, MC!DrivesFetch, M!DrivesData, MC!DrivesData,
   M!Out, MC!Out, M!Done, MC!Done, M!OutBusy, MC!OutBusy, M!IBusy, MC!IBusy,
   M!DBusy, MC!DBusy, M!WriteData, MC!WriteData, M!NextFetch, MC!NextFetch,
   M!BusStep, MC!BusStep, M!IPortStep, MC!IPortStep, M!DPortStep,
   MC!DPortStep, M!Clock, MC!Clock, M!InIdle, MC!InIdle, M!InInstrReq,
   MC!InInstrReq, M!InInstrDataReq, MC!InInstrDataReq, M!InDataReq,
   MC!InDataReq, M!InDataInstrReq, MC!InDataInstrReq, M!InInstrWait,
   MC!InInstrWait, M!InDataWait, MC!InDataWait, M!Arbitrate, MC!Arbitrate,
   M!NoLockup, MC!NoLockup

\* generic_nonpipeline never reports the end of an access to the address 0
\* (generic_nonpipeline.sv:56).
NoZero == Bridge = "generic" => DataAddr # 0

\* The lock-up that memory_controller.sv:59 describes cannot happen on the core
\* whatever its program, its memory and its interrupts.
THEOREM LockupFree == ASSUME NoZero PROVE Spec => []MC!NoLockup
<1>1. M!ZeroFree
  BY CodeAssumption DEF NoZero, M!ZeroFree, Addr
<1>2. /\ M!Init => M!LockupInv
      /\ M!LockupInv /\ [M!Next]_M!vars => M!LockupInv'
      /\ M!LockupInv => M!NoLockup
  BY <1>1, MemoryFits, M!LockupKeeps
<1>3. /\ MC!Init => M!Init
      /\ [MC!Next]_MC!vars => [M!Next]_M!vars
      /\ M!NoLockup => MC!NoLockup
  BY SameMemory
<1> QED
  BY <1>2, <1>3, PortsKeep, PTL

-----------------------------------------------------------------------------
(* Program order *)

\* The fetch stage is where program order goes on behind the execute stage,
\* unless what is in there redirects it.
DueInv == due = IF Ret THEN mepc ELSE IF BranchJump THEN Target ELSE pc

LEMMA InitDue == Init => DueInv
BY DEF Init, DueInv, Ret, BranchJump, Bubble

\* An instruction that arrives is followed by where it says.
LEMMA DueArrives ==
  ASSUME Next, Arrives PROVE DueInv'
<1>1. ~Trap /\ ~Ret /\ ~BranchJump /\ PcEn
  BY ArrivesMeans, PcMoves
<1>2. pc' = Succ(pc) /\ mepc' = mepc
  BY <1>1 DEF Next, FetchStep, TrapStep, Npc
<1>3. /\ ex'.op = "mret" => due' = mepc
      /\ ex'.op = "jump" \/ (ex'.op = "branch" /\ ex'.taken) => due' = Target
      /\ ex'.op # "mret" /\ ~(ex'.op = "jump" \/ (ex'.op = "branch" /\ ex'.taken))
           => due' = Succ(pc)
  <2>1. due' = CASE ex'.op = "mret" -> mepc
                 [] ex'.op = "jump" \/ (ex'.op = "branch" /\ ex'.taken) -> Target
                 [] OTHER -> Succ(pc)
    BY <1>1 DEF Next, OrderStep
  <2>2. ex'.op = "mret" => ~(ex'.op = "jump" \/ (ex'.op = "branch" /\ ex'.taken))
    OBVIOUS
  <2> QED
    BY <2>1, <2>2, Zenon
<1> QED
  BY <1>2, <1>3 DEF DueInv, Ret, BranchJump

LEMMA DueStep == DueInv /\ [Next]_vars => DueInv'
<1> SUFFICES ASSUME DueInv, [Next]_vars PROVE DueInv'
  OBVIOUS
<1>1. CASE Next /\ Arrives
  BY <1>1, DueArrives
<1>2. CASE Next /\ ~Arrives
  <2>1. due' = IF Trap THEN Handler ELSE due
    BY <1>2 DEF Next, OrderStep
  <2>2. ex' = Bubble \/ (ex' = ex /\ ~Flush /\ Stall)
    BY <1>2, NothingNew
  <2>3. ~Ret' /\ ~BranchJump'
    <3>1. CASE ex' = Bubble
      BY <3>1 DEF Ret, BranchJump, Bubble
    <3>2. CASE ex' = ex /\ ~Flush
      BY <3>2, TurnsLeave DEF Ret, BranchJump
    <3> QED
      BY <2>2, <3>1, <3>2
  <2>4. pc' = IF PcEn THEN Npc ELSE pc
    BY <1>2 DEF Next, FetchStep
  <2>5. pc' = due'
    <3>1. CASE Trap
      BY <2>1, <2>4, <3>1, PcMoves DEF Npc
    <3>2. CASE ~Trap /\ Ret
      BY <2>1, <2>4, <3>2, PcMoves DEF Npc, DueInv
    <3>3. CASE ~Trap /\ ~Ret /\ BranchJump
      BY <2>1, <2>4, <3>3, PcMoves DEF Npc, DueInv
    <3>4. CASE ~Trap /\ ~Ret /\ ~BranchJump
      BY <1>2, <2>1, <2>4, <3>4, PcMoves DEF DueInv
    <3> QED
      BY <3>1, <3>2, <3>3, <3>4
  <2> QED
    BY <2>3, <2>5 DEF DueInv
<1>3. CASE UNCHANGED vars
  BY <1>3 DEF vars, core, DueInv, Ret, BranchJump
<1> QED
  BY <1>1, <1>2, <1>3

\* What enters the execute stage comes from where program order goes on,
\* whatever the interrupts do (tspp_fetch_stage.sv:101).
THEOREM FetchInOrder == Spec => [][Arrives => pc = due]_vars
<1>1. DueInv => (Arrives => pc = due)
  BY ArrivesMeans DEF DueInv
<1> QED
  BY <1>1, InitDue, DueStep, PTL DEF Spec

\* Traps are precise but at the edges where a taken branch or a return is in the
\* execute stage: epc is the first instruction without effect
\* (tspp_hazard_unit.sv:110).
THEOREM TrapsPrecise == Spec => PreciseOffBranch
<1>1. DueInv /\ Next
        => (Trap /\ ~BranchJump /\ ~Ret => mepc' = IF ExFault THEN ex.pc ELSE due)
  BY DEF DueInv, Next, TrapStep
<1> QED
  BY <1>1, InitDue, DueStep, PTL DEF Spec, PreciseOffBranch

-----------------------------------------------------------------------------
(* Answers.  As long as no interrupt has taken back a fetch too late, the    *)
(* arbiter never takes one transfer for another, and what it waits for is    *)
(* the fetch at pc.  It is in DATA_WAIT only with interrupts masked and a    *)
(* data access that goes on, which it leaves by driving the handler's fetch. *)
(* The exception is a handler that must not be executed: the core then never *)
(* executes again.                                                           *)

Stuck == Handler \in Protected /\ pc = Handler

Matched ==
  /\ mc \in {"IDLE", "INSTR_REQ", "DATA_REQ"} => bus = MC!NoReq
  /\ mc = "INSTR_WAIT" => bus = [op |-> "read", addr |-> pc]
  /\ mc = "DATA_INSTR_REQ" /\ NoZero => bus = dreq
  /\ mc = "DATA_WAIT" => bus = dreq /\ wait # 0 /\ mie = FALSE
  /\ mc \in {"DATA_REQ", "DATA_INSTR_REQ", "DATA_WAIT", "INSTR_WAIT"} => ~FetchFault
  /\ mc # "INSTR_DATA_REQ"

MatchInv == intact => Stuck \/ Matched

LEMMA InitMatch == Init => MatchInv
BY DEF Init, MatchInv, Matched

LEMMA StuckStays == ASSUME Next, Stuck PROVE Stuck'
<1>1. Trap
  BY DEF Stuck, Trap, FetchFault
<1>2. PcEn /\ Npc = Handler
  BY <1>1, PcMoves DEF Npc
<1> QED
  BY <1>2 DEF Stuck, Next, FetchStep

\* What the fetch stage does behind a data access that was not answered.
LEMMA PcBehindAccess ==
  ASSUME PortInv, Next, DmemAccess, MC!DBusy
  PROVE  pc' = IF Trap THEN Handler ELSE pc
<1>1. ~BranchJump /\ ~Ret /\ ~Arrives
  BY Kinds, AccessHeld
<1> QED
  BY <1>1, PcMoves DEF Next, FetchStep, Npc

LEMMA MatchStep ==
  ASSUME PortInv, Next, intact', Matched
  PROVE  Stuck' \/ Matched'
<1>1. intact /\ ~(Intr /\ TooLate)
  BY DEF Next, WithdrawStep
<1>2. /\ bus = MC!NoReq \/ MC!Done => bus' = MC!Out
      /\ bus # MC!NoReq /\ ~MC!Done => bus' = bus
  BY DEF Next, MC!BusStep
<1>3. /\ dreq # MC!NoReq <=> DmemAccess
      /\ ireq = MC!NoReq <=> Intr \/ FetchFault
      /\ ireq # MC!NoReq => ireq = [op |-> "read", addr |-> pc]
  BY PortFacts
<1>4. dreq # MC!NoReq /\ MC!DBusy => dreq' = dreq
  BY AccessStays
<1>5. ireq # MC!NoReq /\ MC!IBusy /\ mc # "IDLE" => pc' = pc
  BY FetchHeld
<1>6. MC!OutBusy /\ bus # MC!NoReq /\ bus.addr # 0 => bus' = bus
  BY <1>2 DEF MC!OutBusy
<1>7. ~MC!OutBusy => MC!Done
  BY DEF MC!OutBusy
<1>8. FetchFault' <=> pc' \in Protected
  BY DEF FetchFault
<1>9. ~FetchFault /\ DmemAccess /\ MC!DBusy => ~FetchFault' \/ Stuck'
  BY <1>8, PcBehindAccess DEF Stuck, FetchFault
<1> USE DEF Matched
<1>10. CASE MC!InIdle
  <2>1. mc = "IDLE" /\ bus = MC!NoReq /\ bus' = MC!NoReq /\ MC!DBusy
    BY <1>2, <1>10 DEF MC!InIdle, MC!Out, MC!DrivesFetch, MC!DrivesData, MC!DBusy
  <2>2. CASE mc' = "DATA_REQ"
    <3>1. DmemAccess
      BY <1>3, <1>10, <2>2 DEF MC!InIdle
    <3>2. pc' = IF Trap THEN Handler ELSE pc
      BY <2>1, <3>1, PcBehindAccess
    <3>3. ~FetchFault' \/ Stuck'
      BY <1>8, <3>2 DEF Stuck, FetchFault, Trap
    <3> QED
      BY <2>1, <2>2, <3>3
  <2>3. CASE mc' \in {"IDLE", "INSTR_REQ"}
    BY <2>1, <2>3
  <2> QED
    BY <1>10, <2>2, <2>3 DEF MC!InIdle
<1>11. CASE MC!InInstrReq
  <2>1. mc = "INSTR_REQ" /\ bus = MC!NoReq /\ bus' = ireq /\ MC!IBusy
    BY <1>2, <1>11 DEF MC!InInstrReq, MC!Out, MC!DrivesFetch, MC!IBusy
  <2>2. dreq = MC!NoReq
    BY <2>1 DEF PortInv, AccessFromIdle
  <2>3. CASE ireq = MC!NoReq
    BY <1>11, <2>1, <2>3 DEF MC!InInstrReq
  <2>4. CASE ireq # MC!NoReq
    BY <1>3, <1>5, <1>8, <1>11, <2>1, <2>2, <2>4 DEF MC!InInstrReq, FetchFault
  <2> QED
    BY <2>3, <2>4
<1>12. CASE MC!InInstrWait
  <2>1. mc = "INSTR_WAIT" /\ bus = [op |-> "read", addr |-> pc] /\ ~FetchFault
        /\ MC!Out = MC!NoReq
    BY <1>12 DEF MC!InInstrWait, MC!Out, MC!DrivesFetch, MC!DrivesData
  <2>2. dreq = MC!NoReq
    BY <2>1 DEF PortInv, AccessFromIdle
  <2>3. CASE ~MC!OutBusy
    BY <1>2, <1>7, <1>12, <2>1, <2>2, <2>3 DEF MC!InInstrWait
  <2>4. CASE MC!OutBusy
    <3>1. MC!IBusy /\ ~Intr
      BY <1>1, <2>1, <2>4 DEF MC!IBusy, TooLate
    <3>2. pc' = pc
      BY <1>3, <1>5, <2>1, <3>1
    <3>3. bus' = bus
      <4>1. bus \in MC!Reads /\ bus.addr = pc /\ pc # 0
        BY <2>1, RequestFacts DEF PortInv, TypeOK
      <4> QED
        BY <1>6, <2>4, <4>1, RequestFacts
    <3> QED
      BY <1>8, <1>12, <2>1, <2>2, <2>4, <3>2, <3>3 DEF MC!InInstrWait, FetchFault
  <2> QED
    BY <2>3, <2>4
<1>13. CASE MC!InDataReq
  <2>1. mc = "DATA_REQ" /\ bus' = dreq /\ MC!DBusy /\ MC!IBusy /\ dreq # MC!NoReq
    BY <1>2, <1>13 DEF MC!InDataReq, MC!Out, MC!DrivesFetch, MC!DrivesData, MC!DBusy, MC!IBusy,
       PortInv, DataHeld
  <2>2. bus = MC!NoReq /\ ~FetchFault /\ DmemAccess
    BY <1>3, <2>1
  <2>3. CASE ireq # MC!NoReq
    BY <1>4, <1>5, <1>8, <1>13, <2>1, <2>2, <2>3 DEF MC!InDataReq, FetchFault
  <2>4. CASE ireq = MC!NoReq
    <3>1. Intr /\ Trap /\ mc' = "DATA_WAIT"
      BY <1>3, <1>13, <2>2, <2>4 DEF MC!InDataReq, Intr, Trap
    <3>2. wait' # 0
      BY <1>1, <2>1, <3>1 DEF TooLate
    <3>3. mie' = FALSE
      BY <3>1 DEF Next, TrapStep
    <3>4. dreq' = dreq
      BY <1>4, <2>1
    <3>5. ~FetchFault' \/ Stuck'
      BY <1>9, <2>1, <2>2 DEF MC!InDataReq
    <3> QED
      BY <2>1, <3>1, <3>2, <3>3, <3>4, <3>5
  <2> QED
    BY <2>3, <2>4
<1>14. CASE MC!InDataInstrReq
  <2>1. mc = "DATA_INSTR_REQ" /\ (NoZero => bus = dreq) /\ MC!IBusy /\ dreq # MC!NoReq /\ MC!Out = ireq
    BY <1>14 DEF MC!InDataInstrReq, MC!Out, MC!DrivesFetch, MC!IBusy, PortInv, DataHeld
  <2>2. ~FetchFault /\ DmemAccess
    BY <1>3, <2>1
  <2>3. CASE ~MC!OutBusy /\ ireq = MC!NoReq
    BY <1>2, <1>7, <1>14, <2>1, <2>3 DEF MC!InDataInstrReq
  <2>4. CASE ~MC!OutBusy /\ ireq # MC!NoReq
    <3>1. pc' = pc
      BY <1>5, <2>1, <2>4
    <3> QED
      BY <1>2, <1>3, <1>7, <1>8, <1>14, <2>1, <2>2, <2>4, <3>1 DEF MC!InDataInstrReq, FetchFault
  <2>5. CASE MC!OutBusy
    <3>1. MC!DBusy /\ dreq' = dreq
      BY <1>4, <2>1, <2>5 DEF MC!DBusy
    <3>2. NoZero => bus' = bus
      <4>1. DataPort.addr = DataAddr /\ dreq = DataPort
        BY <1>3, <2>1 DEF PortInv, PortsFollow, DmemAccess, DataPort
      <4>2. Bridge # "generic" => bus' = bus
        BY <1>2, <2>1, <2>5 DEF MC!OutBusy, NoZero
      <4> QED
        BY <1>6, <2>1, <2>5, <4>1, <4>2 DEF NoZero
    <3>3. ~FetchFault' \/ Stuck'
      BY <1>9, <2>2, <3>1
    <3>4. mc' = "DATA_INSTR_REQ"
      BY <1>14, <2>1, <2>5 DEF MC!InDataInstrReq
    <3> QED
      BY <2>1, <3>1, <3>2, <3>3, <3>4
  <2> QED
    BY <2>3, <2>4, <2>5
<1>15. CASE MC!InDataWait
  <2>1. mc = "DATA_WAIT" /\ bus = dreq /\ wait # 0 /\ mie = FALSE /\ ~FetchFault /\ dreq # MC!NoReq
    BY <1>15 DEF MC!InDataWait, PortInv, DataHeld
  <2>2. ~MC!Done /\ MC!OutBusy /\ MC!DBusy /\ bus' = bus
    BY <1>2, <2>1 DEF MC!Done, MC!OutBusy, MC!DBusy
  <2>3. ~Intr /\ ireq # MC!NoReq
    BY <1>3, <2>1 DEF Intr, InterruptFired
  <2>4. mc' = "DATA_INSTR_REQ"
    BY <1>15, <2>2, <2>3 DEF MC!InDataWait
  <2>5. dreq' = dreq /\ (~FetchFault' \/ Stuck')
    BY <1>3, <1>4, <1>9, <2>1, <2>2
  <2> QED
    BY <2>1, <2>2, <2>4, <2>5
<1>16. ~MC!InInstrDataReq
  BY DEF MC!InInstrDataReq
<1> QED
  BY <1>10, <1>11, <1>12, <1>13, <1>14, <1>15, <1>16 DEF Next, MC!Arbitrate

LEMMA StepMatch == MatchInv /\ PortInv /\ [Next]_vars => MatchInv'
<1> SUFFICES ASSUME MatchInv, PortInv, [Next]_vars, intact' PROVE Stuck' \/ Matched'
  BY DEF MatchInv
<1>1. CASE Next
  <2>1. intact
    BY <1>1 DEF Next, WithdrawStep
  <2> QED
    BY <1>1, <2>1, StuckStays, MatchStep DEF MatchInv
<1>2. CASE UNCHANGED vars
  BY <1>2 DEF vars, core, memory, MatchInv, Stuck, Matched, FetchFault
<1> QED
  BY <1>1, <1>2

\* What arrives is what memory holds at pc.
LEMMA ArrivesMatched ==
  ASSUME MatchInv, PortInv, Next, Arrives, intact
  PROVE  ex'.op = mem[pc]
<1>1. ~FetchFault /\ ~Flush /\ ~(~Flush /\ Stall)
  BY ArrivesMeans DEF Arrives
<1>2. Matched
  BY <1>1 DEF MatchInv, Stuck, FetchFault
<1>3. bus.addr = pc
  BY <1>2, ArrivesIdle DEF Matched
<1>4. \E taken \in BOOLEAN : ex' = [pc |-> pc, op |-> mem[bus.addr], taken |-> taken]
  BY <1>1 DEF Next, FetchStep
<1> QED
  BY <1>3, <1>4

\* Until an interrupt takes back a fetch too late, each instruction that enters
\* the execute stage is the next one in program order, and it is the word of its
\* address and no other answer: no instruction is skipped, repeated or replaced,
\* with any memory. Every interrupt that the abort covers is included: one in
\* INSTR_REQ or during a data access, also in the very cycle in which that ends
\* (memory_controller.sv:68,99), and one in DATA_REQ if the memory waits.
THEOREM OrderKept == Spec => InOrderIntact
<1>1. MatchInv /\ PortInv /\ DueInv /\ Next => (Arrives /\ intact => pc = due /\ ex'.op = mem[pc])
  BY ArrivesMeans, ArrivesMatched DEF DueInv
<1> QED
  BY <1>1, InitMatch, StepMatch, InitPorts, StepPorts, InitDue, DueStep, PTL
     DEF Spec, InOrderIntact

\* Without interrupts nothing takes a fetch back.
LEMMA QuietStays ==
  ASSUME Interrupts = FALSE
  PROVE  /\ Init => mip = FALSE /\ intact = TRUE
         /\ mip = FALSE /\ intact = TRUE /\ [Next]_vars => (mip = FALSE /\ intact = TRUE)'
<1>1. ASSUME mip = FALSE, intact = TRUE, Next PROVE (mip = FALSE /\ intact = TRUE)'
  <2>1. ~Intr
    BY <1>1 DEF Intr, InterruptFired
  <2>2. intact' = (intact /\ ~(Intr /\ TooLate))
    BY <1>1 DEF Next, WithdrawStep
  <2>3. intact'
    BY <1>1, <2>1, <2>2
  <2>4. intact' \in BOOLEAN
    BY <2>2, Zenon
  <2>5. mip' = FALSE
    BY <1>1 DEF Next, InterruptStep
  <2> QED
    BY <2>3, <2>4, <2>5
<1> QED
  BY <1>1 DEF Init, vars, core

\* A core whose interrupt lines never rise runs in program order with any memory,
\* faults and traps included (tspp_hazard_unit.sv:91).
THEOREM OrderKeptQuiet == ASSUME Interrupts = FALSE PROVE Spec => InOrder
<1>1. MatchInv /\ PortInv /\ DueInv /\ intact = TRUE /\ Next
        => (Arrives => pc = due /\ ex'.op = mem[pc])
  BY ArrivesMeans, ArrivesMatched DEF DueInv
<1>2. /\ Init => mip = FALSE /\ intact = TRUE
      /\ mip = FALSE /\ intact = TRUE /\ [Next]_vars => (mip = FALSE /\ intact = TRUE)'
  BY QuietStays
<1> QED
  BY <1>1, <1>2, InitMatch, StepMatch, InitPorts, StepPorts, InitDue, DueStep, PTL
     DEF Spec, InOrder

\* As long as no fetch is taken back too late, an access is ended by its own
\* transfer, data accesses are issued once (memory_controller.sv:182), and a fetch
\* gets its own word, also from a memory without wait states.
Answers == intact => MC!DataAnswer /\ MC!InstrAnswer /\ MC!IssuedOnce

THEOREM AnswersRight ==
  ASSUME NoZero, Handler \notin Protected
  PROVE  Spec => []Answers
<1>1. MatchInv /\ PortInv => Answers
  <2> SUFFICES ASSUME Matched, PortInv
               PROVE  MC!DataAnswer /\ MC!InstrAnswer /\ MC!IssuedOnce
    BY DEF MatchInv, Stuck, Answers
  <2>1. ~MC!DBusy => mc = "DATA_INSTR_REQ" /\ bus = dreq
    BY OneAnswer DEF Matched, MC!DBusy, MC!OutBusy, MC!Done
  <2>2. ~MC!IBusy => mc = "INSTR_WAIT" /\ bus = [op |-> "read", addr |-> pc]
    BY OneAnswer DEF Matched
  <2> QED
    BY <2>1, <2>2, PortFacts DEF MC!DataAnswer, MC!InstrAnswer, MC!IssuedOnce, MC!DrivesData
<1> QED
  BY <1>1, InitMatch, StepMatch, InitPorts, StepPorts, PTL DEF Spec
================================================================================
