--------------------------- MODULE MemoryController ---------------------------
(***************************************************************************)
(* The arbiter between the instruction and the data port of the core       *)
(* (standard_core/memory_controller.sv), the bus bridge behind it          *)
(* (bus_bridges/ahb.sv or bus_bridges/generic_nonpipeline.sv) and the      *)
(* memory that the bridge talks to.                                        *)
(*                                                                         *)
(* The design is synchronous: every step is one rising clock edge.  The    *)
(* variables are the registers, and the wires that each port drives during *)
(* the cycle which that edge ends.  The ports belong to the caches or,     *)
(* when these are pass-through, to the pipeline.  Here they are clients    *)
(* that hold a request until it is answered; the instruction port may also *)
(* withdraw one, as the pipeline does when an interrupt arrives.  Module   *)
(* Pipeline shows that the real pipeline is such a client.                 *)
(***************************************************************************)
EXTENDS Integers

CONSTANTS
  Addr,      \* word addresses the ports ask for
  Value,     \* contents of a memory word
  Latency,   \* the numbers of wait states the memory may insert
  Bridge,    \* "ahb" or "generic": the bridge the core is configured with
  Redirect,  \* whether the instruction port may withdraw a request
  Pausing    \* whether the instruction port may have nothing to ask for

ASSUME AddrAssumption == Addr \subseteq Nat /\ Addr # {}
ASSUME ValueAssumption == Value # {}
ASSUME LatencyAssumption == Latency \subseteq Nat /\ Latency # {}
ASSUME BridgeAssumption == Bridge \in {"ahb", "generic"}
ASSUME PortAssumption == Redirect \in BOOLEAN /\ Pausing \in BOOLEAN

VARIABLES
  mc,     \* current_state of the arbiter
  ireq,   \* what the wires of i_gen_bus_if ask for in this cycle
  dreq,   \* what the wires of d_gen_bus_if ask for in this cycle
  wdata,  \* the wdata wires of d_gen_bus_if, which carry something always
  bus,    \* the transfer in its data phase, NoReq if there is none
  held,   \* wdata as generic_nonpipeline registered it with the transfer
  wait,   \* wait states the memory still inserts in the transfer
  mem,    \* the memory
  igot,   \* the word the instruction port was handed last
  dgot    \* the word the data port was handed last

ports == <<ireq, dreq, wdata, igot, dgot>>
vars == <<mc, ireq, dreq, wdata, bus, held, wait, mem, igot, dgot>>

-----------------------------------------------------------------------------
State == {"IDLE", "INSTR_REQ", "INSTR_DATA_REQ", "INSTR_WAIT",
          "DATA_REQ", "DATA_INSTR_REQ", "DATA_WAIT"}

\* ren, wen and addr of a generic_bus_if: at most one of ren and wen is set.
NoReq == [op |-> "none", addr |-> 0]
Reads == [op : {"read"}, addr : Addr]
Writes == [op : {"write"}, addr : Addr]
Request == {NoReq} \cup Reads \cup Writes

\* The request the arbiter puts on out_gen_bus_if in this cycle.
DrivesFetch == mc \in {"INSTR_REQ", "DATA_INSTR_REQ"}
DrivesData == mc \in {"DATA_REQ", "DATA_WAIT", "INSTR_DATA_REQ"}
Out == IF DrivesFetch THEN ireq ELSE IF DrivesData THEN dreq ELSE NoReq

\* The memory ends a data phase in this cycle (HREADY, or busy low).
Done == bus # NoReq /\ wait = 0

\* out_gen_bus_if.busy: generic_nonpipeline takes the address 0 for no request.
OutBusy == ~Done \/ (Bridge = "generic" /\ bus.addr = 0)

\* Mutants: a port that takes the other port's answer for its own.
IBusyUnmasked == OutBusy
DBusyUnmasked == OutBusy

IBusy == OutBusy \/ mc \notin {"INSTR_WAIT", "INSTR_DATA_REQ"}
DBusy == OutBusy \/ mc \notin {"DATA_WAIT", "DATA_INSTR_REQ"}

\* HWDATA is the live data of the data port; the generic bridge registers it.
WriteData == IF Bridge = "ahb" THEN wdata ELSE held

TypeOK ==
  /\ mc \in State
  /\ ireq \in {NoReq} \cup Reads
  /\ dreq \in Request
  /\ wdata \in Value /\ held \in Value
  /\ bus \in Request
  /\ wait \in Nat
  /\ mem \in [Addr -> Value]
  /\ igot \in Value /\ dgot \in Value

\* The pipeline asks for an instruction in every cycle but one in which it
\* takes an interrupt; an instruction cache asks only when it misses.
NextFetch == Reads \cup (IF Redirect \/ Pausing THEN {NoReq} ELSE {})

Init ==
  /\ mc = "IDLE"
  /\ ireq \in NextFetch
  /\ dreq = NoReq
  /\ wdata \in Value /\ held = wdata
  /\ bus = NoReq
  /\ wait = 0
  /\ mem \in [Addr -> Value]
  /\ igot = wdata /\ dgot = wdata

-----------------------------------------------------------------------------
\* Mutant: the memory counts on after its last wait state.
BusStepNoEnd ==
  /\ mem' = mem
  /\ \/ bus = NoReq /\ bus' = Out /\ held' = wdata /\ wait' \in Latency
     \/ bus # NoReq /\ wait' = wait - 1 /\ UNCHANGED <<bus, held>>

\* The bridge takes what the arbiter drives when it has no transfer or the
\* memory ends the one it has; the memory counts its wait states otherwise.
BusStep ==
  /\ mem' = IF Done /\ bus.op = "write"
              THEN [mem EXCEPT ![bus.addr] = WriteData] ELSE mem
  /\ \/ /\ bus = NoReq \/ Done
        /\ bus' = Out /\ held' = wdata
        /\ \/ Out = NoReq /\ wait' = 0
           \/ Out # NoReq /\ wait' \in Latency
     \/ /\ bus # NoReq /\ ~Done
        /\ wait' = wait - 1
        /\ UNCHANGED <<bus, held>>

\* An arbiter in IDLE has driven no fetch: a jump may still change the address.
IPortStep ==
  \/ /\ ireq # NoReq /\ ~IBusy
     /\ igot' = mem[bus.addr]
     /\ ireq' \in NextFetch
  \/ /\ ireq # NoReq /\ IBusy /\ mc # "IDLE"
     /\ ireq' = ireq \/ (Redirect /\ ireq' = NoReq)
     /\ UNCHANGED igot
  \/ /\ ireq = NoReq \/ mc = "IDLE"
     /\ ireq' \in NextFetch
     /\ UNCHANGED igot

DPortStep ==
  \/ /\ dreq # NoReq /\ ~DBusy
     /\ dgot' = IF dreq.op = "read" THEN mem[bus.addr] ELSE dgot
     /\ dreq' \in Request /\ wdata' \in Value
  \/ /\ dreq # NoReq /\ DBusy
     /\ UNCHANGED <<dreq, wdata, dgot>>
  \/ /\ dreq = NoReq
     /\ dreq' \in Request /\ wdata' \in Value
     /\ UNCHANGED dgot

Clock == BusStep /\ IPortStep /\ DPortStep

\* One action for each state of the arbiter.
InIdle ==
  /\ mc = "IDLE"
  /\ \/ dreq # NoReq /\ mc' = "DATA_REQ"
     \/ dreq = NoReq /\ ireq # NoReq /\ mc' = "INSTR_REQ"
     \/ dreq = NoReq /\ ireq = NoReq /\ mc' = "IDLE"

\* Mutant: the state as it was before fetches could be withdrawn.
InInstrReqNoAbort ==
  /\ mc = "INSTR_REQ"
  /\ \/ dreq # NoReq /\ mc' = "INSTR_DATA_REQ"
     \/ dreq = NoReq /\ mc' = "INSTR_WAIT"

InInstrReq ==
  /\ mc = "INSTR_REQ"
  /\ \/ ireq = NoReq /\ mc' = "IDLE"
     \/ ireq # NoReq /\ dreq # NoReq /\ mc' = "INSTR_DATA_REQ"
     \/ ireq # NoReq /\ dreq = NoReq /\ mc' = "INSTR_WAIT"

InInstrDataReq ==
  /\ mc = "INSTR_DATA_REQ"
  /\ \/ ~OutBusy /\ mc' = "DATA_WAIT"
     \/ OutBusy /\ mc' = mc

InDataReq ==
  /\ mc = "DATA_REQ"
  /\ \/ ireq # NoReq /\ mc' = "DATA_INSTR_REQ"
     \/ ireq = NoReq /\ mc' = "DATA_WAIT"

\* Mutant: the fetch that was driven behind a data access is forgotten.
InDataInstrReqForgets ==
  /\ mc = "DATA_INSTR_REQ"
  /\ \/ ~OutBusy /\ mc' = "IDLE"
     \/ OutBusy /\ mc' = mc

InDataInstrReq ==
  /\ mc = "DATA_INSTR_REQ"
  /\ \/ ~OutBusy /\ ireq = NoReq /\ mc' = "IDLE"
     \/ ~OutBusy /\ ireq # NoReq /\ mc' = "INSTR_WAIT"
     \/ OutBusy /\ mc' = mc

InInstrWait ==
  /\ mc = "INSTR_WAIT"
  /\ \/ ~OutBusy /\ dreq # NoReq /\ mc' = "DATA_REQ"
     \/ ~OutBusy /\ dreq = NoReq /\ mc' = "IDLE"
     \/ OutBusy /\ dreq # NoReq /\ mc' = "INSTR_DATA_REQ"
     \/ OutBusy /\ dreq = NoReq /\ mc' = mc

\* Mutant: the next fetch is not driven before the data access has ended.
InDataWaitSerial ==
  /\ mc = "DATA_WAIT"
  /\ \/ ~OutBusy /\ ireq # NoReq /\ mc' = "INSTR_REQ"
     \/ ~OutBusy /\ ireq = NoReq /\ mc' = "IDLE"
     \/ OutBusy /\ mc' = mc

InDataWait ==
  /\ mc = "DATA_WAIT"
  /\ \/ ~OutBusy /\ ireq # NoReq /\ mc' = "INSTR_REQ"
     \/ ~OutBusy /\ ireq = NoReq /\ mc' = "IDLE"
     \/ OutBusy /\ ireq # NoReq /\ mc' = "DATA_INSTR_REQ"
     \/ OutBusy /\ ireq = NoReq /\ mc' = mc

Arbitrate == \/ InIdle \/ InInstrReq \/ InInstrDataReq \/ InInstrWait
             \/ InDataReq \/ InDataInstrReq \/ InDataWait

Next == Arbitrate /\ Clock

\* The clock keeps running.
Spec == Init /\ [][Next]_vars /\ WF_vars(Next)

-----------------------------------------------------------------------------
(* Properties *)

\* The arbiter waits for the end of a transfer only while the bridge has one:
\* the lock-up that memory_controller.sv:59-73 describes (the FSM in a wait
\* state, the bridge idle) cannot happen, whenever a fetch is withdrawn.
NoLockup ==
  mc \in {"INSTR_WAIT", "INSTR_DATA_REQ", "DATA_INSTR_REQ", "DATA_WAIT"} => bus # NoReq

\* A data access is told that it is over by the end of its own transfer.
DataAnswer == dreq # NoReq /\ ~DBusy => bus = dreq

\* A fetch is handed the word at the address it asks for, not that of a fetch
\* withdrawn before nor that of a data access.
InstrAnswer == ireq # NoReq /\ ~IBusy => bus = ireq

\* The cycle that ends a data access does not put it on the bus once more
\* (DATA_WAIT drives the request still, memory_controller.sv:182-189).
IssuedOnce == dreq # NoReq /\ ~DBusy => ~DrivesData

\* Every data access is answered, however many fetches compete with it, and
\* every fetch that is not withdrawn, however many data accesses do.
Served == /\ (dreq # NoReq) ~> (dreq # NoReq /\ ~DBusy)
          /\ (ireq # NoReq) ~> (ireq = NoReq \/ ~IBusy)

\* The arbiter, the bridge and the memory together look to the core like a
\* memory that serves each access of either port in one step.
Abstract == INSTANCE AtomicMemory
Linearizable == Abstract!Spec
===============================================================================
