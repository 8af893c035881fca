------------------------------- MODULE Pipeline -------------------------------
(***************************************************************************)
(* The two-stage pipeline (pipelines/tspp) on top of the memory            *)
(* controller, with pass-through caches and the trap entry and return of   *)
(* the privileged unit (privs/priv_1_12).  An instruction is the word that *)
(* memory holds at its address, abstracted to what it does to the pipeline *)
(* and to the memory ports; the register file is left out.                 *)
(*                                                                         *)
(* As in MemoryController a step is one rising clock edge, the variables   *)
(* are registers, and the operators are the wires of the cycle it ends.    *)
(***************************************************************************)
EXTENDS Integers

CONSTANTS
  Code,       \* the number of instruction addresses, which are 1 .. Code
  Programs,   \* what memory may hold there: functions from 1 .. Code to Op
  Handler,    \* base address of mtvec
  Target,     \* the address every jump and branch goes to
  DataAddr,   \* the word that loads and stores access
  Protected,  \* addresses at which fetching faults (PMA or PMP)
  Interrupts, \* whether an interrupt line ever rises
  Latency, Bridge

ASSUME CodeAssumption ==
  /\ Code \in Nat \ {0}
  /\ {Handler, Target} \subseteq 1 .. Code
  /\ DataAddr \in Nat \ (1 .. Code)
  /\ Protected \subseteq 1 .. Code
  /\ Interrupts \in BOOLEAN

\* As for MemoryController.
ASSUME MemoryAssumption ==
  Latency \subseteq Nat /\ Latency # {} /\ Bridge \in {"ahb", "generic"}

Addr == 1 .. Code \cup {DataAddr}

\* "set" and "clear" are CSR instructions that write mstatus.mie; "ecall"
\* stands for every instruction that traps in the execute stage.
Op == {"alu", "load", "store", "jump", "branch", "set", "clear", "ecall", "mret"}

ASSUME ProgramAssumption == Programs \subseteq [1 .. Code -> Op] /\ Programs # {}

VARIABLES
  pc,        \* the fetch address
  ex,        \* fetch_ex_reg: the instruction in the execute stage
  mie, mpie, \* mstatus.mie and mstatus.mpie
  mepc,      \* where a trap returns to
  mip,       \* an interrupt that mie lets through is pending
  due,       \* history: where program order goes on behind what has entered ex
  intact,    \* history: no interrupt has taken back a fetch too late
  mc, ireq, dreq, wdata, bus, held, wait, mem, igot, dgot

core == <<pc, ex, mie, mpie, mepc, mip, due, intact>>
memory == <<mc, ireq, dreq, wdata, bus, held, wait, mem, igot, dgot>>
vars == <<core, memory>>

MC == INSTANCE MemoryController
        WITH Value <- Op, Redirect <- TRUE, Pausing <- TRUE

-----------------------------------------------------------------------------
Bubble == [pc |-> 0, op |-> "none", taken |-> FALSE]
Instr == [pc : 1 .. Code, op : Op, taken : BOOLEAN]

Succ(a) == IF a = Code THEN 1 ELSE a + 1

\* The hazard unit's view of the execute stage and of the privileged unit.
DmemAccess == ex.op \in {"load", "store"}
BranchJump == ex.op = "jump" \/ (ex.op = "branch" /\ ex.taken)
ExFault == ex.op = "ecall"
FetchFault == pc \in Protected
Ret == ex.op = "mret"
InterruptFired == mie /\ mip
Trap == ExFault \/ FetchFault \/ InterruptFired
Intr == InterruptFired /\ ~ExFault /\ ~FetchFault

WaitForImem == ~Intr /\ MC!IBusy
WaitForDmem == DmemAccess /\ MC!DBusy

\* Mutant: an interrupt flushes a data access that is on the bus.
FlushHazardEager == Intr \/ FetchFault \/ ExFault \/ Ret

FlushHazard == ((Intr \/ FetchFault) /\ ~WaitForDmem) \/ ExFault \/ Ret

PcEn == (~WaitForDmem /\ ~WaitForImem /\ ~FlushHazard) \/ BranchJump \/ Trap \/ Ret

\* Mutant: a data access that ends before the fetch behind it stays in ex.
FlushKeepsAccess == FlushHazard \/ BranchJump

Flush == FlushHazard \/ BranchJump \/ (WaitForImem /\ DmemAccess /\ ~MC!DBusy)

Stall == (WaitForDmem \/ (WaitForImem /\ ~DmemAccess)) /\ (~FlushHazard \/ ExFault)

\* The instruction behind the one in ex reaches it.
Arrives == ~Flush /\ ~Stall

Npc == IF Trap THEN Handler
       ELSE IF Ret THEN mepc
       ELSE IF BranchJump THEN Target
       ELSE Succ(pc)

\* What the stages drive on the memory ports.
FetchPort == IF Intr \/ FetchFault THEN MC!NoReq ELSE [op |-> "read", addr |-> pc]
DataPort == CASE ex.op = "load" -> [op |-> "read", addr |-> DataAddr]
              [] ex.op = "store" -> [op |-> "write", addr |-> DataAddr]
              [] OTHER -> MC!NoReq

TypeOK ==
  /\ pc \in 1 .. Code /\ mepc \in 1 .. Code /\ due \in 1 .. Code
  /\ ex \in {Bubble} \cup Instr
  /\ {mie, mpie, mip, intact} \subseteq BOOLEAN
  /\ MC!TypeOK

Init ==
  /\ pc = 1 /\ mepc = 1 /\ due = 1
  /\ ex = Bubble
  /\ mie = FALSE /\ mpie = FALSE /\ mip = FALSE /\ intact = TRUE
  /\ \E p \in Programs :
       mem = [a \in Addr |-> IF a \in 1 .. Code THEN p[a] ELSE "alu"]
  /\ mc = "IDLE" /\ bus = MC!NoReq /\ wait = 0
  /\ wdata = "alu" /\ held = wdata /\ igot = wdata /\ dgot = wdata
  /\ ireq = FetchPort /\ dreq = DataPort

-----------------------------------------------------------------------------
FetchStep ==
  /\ pc' = IF PcEn THEN Npc ELSE pc
  /\ \/ Flush /\ ex' = Bubble
     \/ Arrives /\ \E taken \in IF mem[bus.addr] = "branch" THEN BOOLEAN ELSE {FALSE} :
          ex' = [pc |-> pc, op |-> mem[bus.addr], taken |-> taken]
     \/ ~Flush /\ Stall /\ ex' = ex

\* Mutant: every trap returns to the instruction that is being fetched.
TrapStepFetch ==
  \/ Trap /\ mepc' = pc /\ mpie' = mie /\ mie' = FALSE
  \/ ~Trap /\ Ret /\ mie' = mpie /\ mpie' = FALSE /\ mepc' = mepc
  \/ ~Trap /\ ~Ret /\ UNCHANGED <<mie, mpie, mepc>>

\* Traps and returns overrule what a CSR instruction writes at the same edge.
TrapStep ==
  \/ /\ Trap
     /\ mepc' = IF ExFault THEN ex.pc ELSE pc
     /\ mpie' = mie /\ mie' = FALSE
  \/ /\ ~Trap /\ Ret
     /\ mie' = mpie /\ mpie' = FALSE
     /\ UNCHANGED mepc
  \/ /\ ~Trap /\ ~Ret
     /\ mie' = IF ex.op \in {"set", "clear"} /\ ~Stall THEN ex.op = "set" ELSE mie
     /\ UNCHANGED <<mpie, mepc>>

\* mip follows the interrupt lines, which rise and are cleared at any time.
InterruptStep == mip' \in IF Interrupts THEN BOOLEAN ELSE {FALSE}

\* Where program order goes on behind the instruction that enters ex.
OrderStep ==
  due' = IF Trap THEN Handler
         ELSE IF ~Arrives THEN due
         ELSE CASE ex'.op = "mret" -> mepc
                [] ex'.op = "jump" \/ (ex'.op = "branch" /\ ex'.taken) -> Target
                [] OTHER -> Succ(pc)

\* The ports after the edge show the new pc and the new ex; the history
\* variables of MemoryController record the answers.
PortStep ==
  /\ ireq' = FetchPort' /\ dreq' = DataPort'
  /\ wdata' = wdata
  /\ igot' = IF ireq # MC!NoReq /\ ~MC!IBusy THEN mem[bus.addr] ELSE igot
  /\ dgot' = IF dreq.op = "read" /\ ~MC!DBusy THEN mem[bus.addr] ELSE dgot

\* An interrupt takes a fetch back where the arbiter has no way out for it: the
\* fetch is all there is on the bus, or the data access ahead of it is being
\* driven and is to end in the next cycle, in which DATA_WAIT drives it again.
TooLate == \/ mc = "INSTR_WAIT" /\ MC!OutBusy
           \/ mc = "DATA_REQ" /\ wait' = 0
WithdrawStep == intact' = (intact /\ ~(Intr /\ TooLate))

Next == /\ FetchStep /\ TrapStep /\ InterruptStep /\ OrderStep /\ PortStep
        /\ MC!BusStep /\ MC!Arbitrate /\ WithdrawStep

Spec == Init /\ [][Next]_vars /\ WF_vars(Next)

-----------------------------------------------------------------------------
(* Properties *)

\* The pipeline keeps to what the memory controller assumes of its clients:
\* a data request is held until it is answered, a fetch changes only while the
\* arbiter is idle or when an interrupt withdraws it.
PortProtocol == MC!Spec

\* What enters ex is the word at the address at which program order goes on:
\* no instruction is skipped, repeated, or replaced by another fetch's answer.
InOrder == [][Arrives => pc = due /\ ex'.op = mem[pc]]_vars

\* The same until an interrupt takes back a fetch too late for the abort of the
\* arbiter (memory_controller.sv:68), which helps in INSTR_REQ and behind a data
\* access, whether that goes on or ends in the cycle of the interrupt.
InOrderIntact == [][Arrives /\ intact => pc = due /\ ex'.op = mem[pc]]_vars

\* A trap returns to the instruction that trapped or, for an interrupt and a
\* fetch fault, to the first instruction that has not had its effect.
PreciseTrap == [][Trap => mepc' = IF ExFault THEN ex.pc ELSE due]_vars

\* The same but for an edge at which a taken branch or a return is in ex.
PreciseOffBranch ==
  [][Trap /\ ~BranchJump /\ ~Ret => mepc' = IF ExFault THEN ex.pc ELSE due]_vars

\* The pipeline never stops taking instructions.
Progress == []<><<Arrives>>_vars
===============================================================================
