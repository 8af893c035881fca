------------------------ MODULE MemoryController_proofs ------------------------
(***************************************************************************)
(* Proofs about the arbiter and its bridge, for every set of addresses and *)
(* values and every latency the theorems name.                             *)
(***************************************************************************)
EXTENDS MemoryController, TLAPS

\* generic_nonpipeline never reports the end of a transfer at the address 0
\* (generic_nonpipeline.sv:56): with it, nothing is asked for at that address.
ZeroFree == Bridge = "generic" => 0 \notin Addr


-----------------------------------------------------------------------------
(* What one clock edge does, apart from the state of the arbiter.          *)

LEMMA InitTypeOK == Init => TypeOK
  BY DEF Init, TypeOK, State, Request, NextFetch

LEMMA OutType == TypeOK => Out \in Request
  BY DEF TypeOK, Out, DrivesFetch, DrivesData, Request

LEMMA LatencyNat == \A n \in Latency : n \in Nat
  BY LatencyAssumption

LEMMA BusAddr == TypeOK /\ bus # NoReq => bus.addr \in Addr
  BY DEF TypeOK, Request, NoReq, Reads, Writes

LEMMA BusStepType ==
  ASSUME TypeOK, BusStep
  PROVE  /\ bus' \in Request
         /\ held' \in Value
         /\ wait' \in Nat
         /\ mem' \in [Addr -> Value]
<1>1. WriteData \in Value
  BY DEF TypeOK, WriteData
<1>2. mem' \in [Addr -> Value]
  BY <1>1 DEF TypeOK, BusStep
<1>3. CASE bus = NoReq \/ Done
  <2>0. bus' = Out /\ held' = wdata /\ (wait' = 0 \/ wait' \in Latency)
    BY <1>3 DEF BusStep
  <2>1. wait' \in Nat
    BY <2>0, LatencyNat
  <2>2. QED
    BY <1>2, <2>0, <2>1, OutType DEF TypeOK
<1>4. CASE bus # NoReq /\ ~Done
  BY <1>2, <1>4 DEF TypeOK, BusStep, Done
<1>5. QED
  BY <1>3, <1>4

LEMMA PortStepType ==
  ASSUME TypeOK, IPortStep, DPortStep
  PROVE  /\ ireq' \in {NoReq} \cup Reads
         /\ dreq' \in Request
         /\ wdata' \in Value
         /\ igot' \in Value
         /\ dgot' \in Value
<1>1. ireq # NoReq /\ ~IBusy => bus.addr \in Addr
  BY BusAddr DEF IBusy, OutBusy, Done
<1>2. dreq # NoReq /\ ~DBusy => bus.addr \in Addr
  BY BusAddr DEF DBusy, OutBusy, Done
<1>3. ireq' \in {NoReq} \cup Reads /\ igot' \in Value
  BY <1>1 DEF TypeOK, IPortStep, NextFetch
<1>4. dreq' \in Request /\ wdata' \in Value /\ dgot' \in Value
  BY <1>2 DEF TypeOK, DPortStep
<1>5. QED
  BY <1>3, <1>4

LEMMA NextIsClock == ASSUME TypeOK, Next PROVE Clock /\ mc' \in State
  BY DEF TypeOK, State, Next, Arbitrate, InIdle, InInstrReq, InInstrDataReq, InInstrWait,
         InDataReq, InDataInstrReq, InDataWait

\* Every register and every port keeps its type.
THEOREM TypeCorrect == Spec => []TypeOK
<1>1. TypeOK /\ [Next]_vars => TypeOK'
  <2>1. CASE Next
    BY <2>1, NextIsClock, BusStepType, PortStepType DEF TypeOK, Clock
  <2>2. CASE UNCHANGED vars
    BY <2>2 DEF TypeOK, vars
  <2>3. QED
    BY <2>1, <2>2
<1>2. QED
  BY <1>1, InitTypeOK, PTL DEF Spec

-----------------------------------------------------------------------------
(* No lock-up.  NoLockup alone is not inductive: that the transfer of a    *)
(* data access reaches the bridge depends on the access staying on its     *)
(* port while the arbiter is in a state that drives it.                    *)

DataHeld ==
  mc \in {"DATA_REQ", "DATA_INSTR_REQ", "DATA_WAIT", "INSTR_DATA_REQ"} => dreq # NoReq

LockupInv == TypeOK /\ DataHeld /\ NoLockup

\* A data access that was not answered stays on its port.
LEMMA DataStays ==
  ASSUME DPortStep, dreq # NoReq, DBusy
  PROVE  dreq' # NoReq
  BY DEF DPortStep

\* The edge that ends a transfer hands the bridge what the arbiter drives.
LEMMA BusTakes ==
  ASSUME BusStep
  PROVE  /\ bus = NoReq \/ Done => bus' = Out
         /\ bus # NoReq /\ ~Done => bus' = bus
         /\ Out # NoReq \/ (bus # NoReq /\ ~Done) => bus' # NoReq
  BY DEF BusStep

LEMMA OutBusyIsWaiting ==
  ASSUME ZeroFree, TypeOK
  PROVE  OutBusy <=> ~Done
<1>1. bus # NoReq => bus.addr \in Addr
  BY BusAddr
<1>2. QED
  BY <1>1 DEF ZeroFree, OutBusy, Done

LEMMA LockupStep ==
  ASSUME ZeroFree, LockupInv, Next
  PROVE  DataHeld' /\ NoLockup'
<1> USE DEF LockupInv, DataHeld, NoLockup
<1>1. Clock
  BY NextIsClock
<1>2. /\ bus = NoReq \/ Done => bus' = Out
      /\ bus # NoReq /\ ~Done => bus' = bus
      /\ Out # NoReq \/ (bus # NoReq /\ ~Done) => bus' # NoReq
  BY <1>1, BusTakes DEF Clock
<1>3. dreq # NoReq /\ DBusy => dreq' # NoReq
  BY <1>1, DataStays DEF Clock
<1>4. OutBusy <=> ~Done
  BY OutBusyIsWaiting
<1>5. CASE InIdle
  BY <1>3, <1>5 DEF InIdle, DBusy
<1>6. CASE InInstrReq
  BY <1>2, <1>3, <1>6 DEF InInstrReq, DBusy, Out, DrivesFetch, DrivesData
<1>7. CASE InInstrDataReq
  BY <1>2, <1>3, <1>4, <1>7 DEF InInstrDataReq, DBusy, Out, DrivesFetch, DrivesData
<1>8. CASE InInstrWait
  BY <1>2, <1>3, <1>4, <1>8 DEF InInstrWait, DBusy, Out, DrivesFetch, DrivesData
<1>9. CASE InDataReq
  BY <1>2, <1>3, <1>9 DEF InDataReq, DBusy, Out, DrivesFetch, DrivesData
<1>10. CASE InDataInstrReq
  BY <1>2, <1>3, <1>4, <1>10 DEF InDataInstrReq, DBusy, Out, DrivesFetch, DrivesData
<1>11. CASE InDataWait
  BY <1>2, <1>3, <1>4, <1>11 DEF InDataWait, DBusy, Out, DrivesFetch, DrivesData
<1>12. QED
  BY <1>5, <1>6, <1>7, <1>8, <1>9, <1>10, <1>11 DEF Next, Arbitrate

LEMMA LockupKeeps ==
  ASSUME ZeroFree
  PROVE  /\ Init => LockupInv
         /\ LockupInv /\ [Next]_vars => LockupInv'
         /\ LockupInv => NoLockup
<1>1. Init => LockupInv
  BY InitTypeOK DEF Init, LockupInv, DataHeld, NoLockup
<1>2. LockupInv /\ [Next]_vars => LockupInv'
  <2>1. CASE LockupInv /\ Next
    <3>1. TypeOK'
      BY <2>1, NextIsClock, BusStepType, PortStepType DEF LockupInv, TypeOK, Clock
    <3>2. QED
      BY <2>1, <3>1, LockupStep DEF LockupInv
  <2>2. CASE LockupInv /\ UNCHANGED vars
    BY <2>2 DEF LockupInv, TypeOK, DataHeld, NoLockup, vars
  <2>3. QED
    BY <2>1, <2>2
<1>3. LockupInv => NoLockup
  BY DEF LockupInv
<1>4. QED
  BY <1>1, <1>2, <1>3

\* Whatever the memory's latency, and whenever fetches are withdrawn, the
\* arbiter waits only for transfers that the bridge really has.
THEOREM LockupFree == ASSUME ZeroFree PROVE Spec => []NoLockup
<1>1. /\ Init => LockupInv
      /\ LockupInv /\ [Next]_vars => LockupInv'
      /\ LockupInv => NoLockup
  BY LockupKeeps
<1>2. QED
  BY <1>1, PTL DEF Spec

-----------------------------------------------------------------------------
(* Answers go to the request they belong to, when the pipeline asks for an *)
(* instruction in every cycle and the memory inserts at least one wait     *)
(* state: then a data access is never put on the bus a second time, and no *)
(* other transfer can be taken for its answer or for that of a fetch.      *)

Steady == ~Redirect /\ ~Pausing /\ 0 \notin Latency

Pairing ==
  /\ ireq # NoReq
  /\ mc \in {"IDLE", "INSTR_REQ", "DATA_REQ"} => bus = NoReq
  /\ mc \in {"INSTR_WAIT", "INSTR_DATA_REQ"} => bus = ireq
  /\ mc \in {"DATA_WAIT", "DATA_INSTR_REQ"} => bus = dreq /\ held = wdata
  /\ mc = "DATA_WAIT" => wait # 0

PairInv == TypeOK /\ DataHeld /\ Pairing

\* What the ports do at an edge that does not answer them.
LEMMA PortsHold ==
  ASSUME Steady, TypeOK, ireq # NoReq, IPortStep, DPortStep
  PROVE  /\ ireq' # NoReq
         /\ IBusy /\ mc # "IDLE" => ireq' = ireq
         /\ dreq # NoReq /\ DBusy => dreq' = dreq /\ wdata' = wdata
<1>1. NoReq \notin NextFetch
  BY DEF Steady, NextFetch, NoReq, Reads
<1>2. ireq' # NoReq /\ (IBusy /\ mc # "IDLE" => ireq' = ireq)
  BY <1>1 DEF IPortStep, Steady
<1>3. dreq # NoReq /\ DBusy => dreq' = dreq /\ wdata' = wdata
  BY DEF DPortStep
<1>4. QED
  BY <1>2, <1>3

LEMMA PairStep ==
  ASSUME ZeroFree, Steady, PairInv, Next
  PROVE  DataHeld' /\ Pairing'
<1> USE DEF PairInv, DataHeld, Pairing
<1>1. Clock /\ mc' \in State
  BY NextIsClock
<1>2. /\ ireq' # NoReq
      /\ IBusy /\ mc # "IDLE" => ireq' = ireq
      /\ dreq # NoReq /\ DBusy => dreq' = dreq /\ wdata' = wdata
  BY <1>1, PortsHold DEF Clock
<1>3. /\ bus = NoReq \/ Done => bus' = Out /\ held' = wdata
      /\ bus # NoReq /\ ~Done => bus' = bus /\ held' = held
      /\ (bus = NoReq \/ Done) /\ Out # NoReq => wait' # 0
  BY <1>1, LatencyNat DEF Clock, BusStep, Steady
<1>4. OutBusy <=> ~Done
  BY OutBusyIsWaiting
<1>5. CASE InIdle
  BY <1>2, <1>3, <1>5 DEF InIdle, IBusy, DBusy, Out, DrivesFetch, DrivesData
<1>6. CASE InInstrReq
  BY <1>2, <1>3, <1>6 DEF InInstrReq, IBusy, DBusy, Out, DrivesFetch, DrivesData
<1>7. CASE InInstrDataReq
  BY <1>2, <1>3, <1>4, <1>7
     DEF InInstrDataReq, IBusy, DBusy, Out, DrivesFetch, DrivesData
<1>8. CASE InInstrWait
  BY <1>2, <1>3, <1>4, <1>8
     DEF InInstrWait, IBusy, DBusy, Out, DrivesFetch, DrivesData
<1>9. CASE InDataReq
  BY <1>2, <1>3, <1>9 DEF InDataReq, IBusy, DBusy, Out, DrivesFetch, DrivesData
<1>10. CASE InDataInstrReq
  BY <1>2, <1>3, <1>4, <1>10
     DEF InDataInstrReq, IBusy, DBusy, Out, DrivesFetch, DrivesData
<1>11. CASE InDataWait
  BY <1>2, <1>3, <1>4, <1>11
     DEF InDataWait, IBusy, DBusy, Out, DrivesFetch, DrivesData, Done
<1>12. QED
  BY <1>5, <1>6, <1>7, <1>8, <1>9, <1>10, <1>11 DEF Next, Arbitrate

LEMMA PairInvariant == ASSUME ZeroFree, Steady PROVE Spec => []PairInv
<1>1. Init => PairInv
  <2>1. Init => ireq # NoReq
    BY DEF Init, Steady, NextFetch, NoReq, Reads
  <2>2. QED
    BY <2>1, InitTypeOK DEF Init, PairInv, DataHeld, Pairing
<1>2. PairInv /\ [Next]_vars => PairInv'
  <2>1. CASE PairInv /\ Next
    <3>1. TypeOK'
      BY <2>1, NextIsClock, BusStepType, PortStepType DEF PairInv, TypeOK, Clock
    <3>2. QED
      BY <2>1, <3>1, PairStep DEF PairInv
  <2>2. CASE PairInv /\ UNCHANGED vars
    BY <2>2 DEF PairInv, TypeOK, DataHeld, Pairing, vars
  <2>3. QED
    BY <2>1, <2>2
<1>3. QED
  BY <1>1, <1>2, PTL DEF Spec

LEMMA PairAnswers ==
  ASSUME ZeroFree, PairInv
  PROVE  DataAnswer /\ InstrAnswer /\ IssuedOnce
<1>1. OutBusy <=> ~Done
  BY OutBusyIsWaiting DEF PairInv
<1>2. QED
  BY <1>1 DEF PairInv, Pairing, DataAnswer, InstrAnswer, IssuedOnce, IBusy, DBusy,
              DrivesData, Done

\* With such a memory every answer is the one its port asked for, and every
\* data access is on the bus once.
THEOREM AnswersPaired ==
  ASSUME ZeroFree, Steady
  PROVE  Spec => [](DataAnswer /\ InstrAnswer /\ IssuedOnce)
<1>1. PairInv => DataAnswer /\ InstrAnswer /\ IssuedOnce
  BY PairAnswers
<1>2. QED
  BY <1>1, PairInvariant, PTL

\* A load or a store is never ended by the transfer of another request, a fetch
\* driven ahead of it included (memory_controller.sv:160).
THEOREM DataAnswered == ASSUME ZeroFree, Steady PROVE Spec => []DataAnswer
BY AnswersPaired, PTL

\* A store is not carried out twice, although the arbiter drives it for as long
\* as it waits (memory_controller.sv:182).
THEOREM DataIssuedOnce == ASSUME ZeroFree, Steady PROVE Spec => []IssuedOnce
BY AnswersPaired, PTL

-----------------------------------------------------------------------------
(* The refinement: an edge at which a port is told that it is no longer    *)
(* busy is the abstract memory's answer to it, every other edge a step in  *)
(* which the ports only raise or hold requests.                            *)

\* The memory's word changes only at the edge that answers the store.
LEMMA StoresAnswered ==
  ASSUME ZeroFree, PairInv, BusStep
  PROVE  /\ dreq.op = "write" /\ ~DBusy
              => mem' = [mem EXCEPT ![dreq.addr] = wdata]
         /\ DBusy \/ dreq.op # "write" => mem' = mem
<1> USE DEF PairInv, Pairing
<1>1. OutBusy <=> ~Done
  BY OutBusyIsWaiting
<1>2. ireq.op # "write"
  BY DEF TypeOK, NoReq, Reads
<1>3. CASE Done /\ bus.op = "write"
  <2>1. mc \in {"DATA_WAIT", "DATA_INSTR_REQ"}
    BY <1>2, <1>3 DEF TypeOK, State, Done
  <2>2. WriteData = wdata
    BY <2>1 DEF WriteData
  <2>3. QED
    BY <1>1, <1>3, <2>1, <2>2 DEF BusStep, DBusy
<1>4. CASE ~(Done /\ bus.op = "write")
  <2>1. mem' = mem
    BY <1>4 DEF BusStep
  <2>2. ~(dreq.op = "write" /\ ~DBusy)
    BY <1>1, <1>4 DEF DBusy
  <2>3. QED
    BY <2>1, <2>2
<1>5. QED
  BY <1>3, <1>4

LEMMA RefineStep ==
  ASSUME ZeroFree, Steady, PairInv, Next
  PROVE  Abstract!Next
<1> USE DEF PairInv, Pairing, DataHeld
<1>0. Clock
  BY NextIsClock
<1>1. /\ dreq.op = "write" /\ ~DBusy => mem' = [mem EXCEPT ![dreq.addr] = wdata]
      /\ DBusy \/ dreq.op # "write" => mem' = mem
  BY <1>0, StoresAnswered DEF Clock
<1>2. DataAnswer /\ InstrAnswer
  BY PairAnswers
<1>3. /\ ~IBusy => igot' = mem[ireq.addr]
      /\ IBusy => igot' = igot
      /\ ireq' \in {NoReq} \cup Reads
  <2>1. IBusy => igot' = igot
    BY <1>0 DEF Clock, IPortStep
  <2>2. ~IBusy => bus = ireq /\ igot' = mem[bus.addr]
    BY <1>0, <1>2 DEF Clock, IPortStep, InstrAnswer
  <2>3. ireq' \in {NoReq} \cup Reads
    BY <1>0, PortStepType DEF Clock
  <2>4. QED
    BY <2>1, <2>2, <2>3
<1>4. dreq # NoReq /\ ~DBusy => /\ dgot' = IF dreq.op = "read" THEN mem[dreq.addr] ELSE dgot
                               /\ dreq' \in Request /\ wdata' \in Value
  BY <1>0, <1>2 DEF Clock, DPortStep, DataAnswer
<1>5. dreq = NoReq \/ DBusy => dgot' = dgot /\ Abstract!DataMoves
  BY <1>0 DEF Clock, DPortStep, Abstract!DataMoves, Abstract!NoReq, Abstract!Request,
              Abstract!Reads, NoReq, Request, Reads, Writes
<1>6. Abstract!FetchMoves
  BY <1>3 DEF Abstract!FetchMoves, Abstract!NoReq, Abstract!Reads, NoReq, Reads
<1>7. IBusy \/ DBusy
  BY DEF IBusy, DBusy
<1>8. ~DBusy => dreq # NoReq
  BY DEF DBusy
<1>9. CASE ~IBusy
  <2>1. mem' = mem /\ dgot' = dgot /\ Abstract!DataMoves
    BY <1>1, <1>5, <1>7, <1>9
  <2>2. Abstract!AnswerFetch
    BY <1>3, <1>9, <2>1 DEF Abstract!AnswerFetch, Abstract!NoReq, Abstract!Reads, NoReq, Reads
  <2>3. QED
    BY <2>2 DEF Abstract!Next
<1>10. CASE ~DBusy /\ dreq.op = "read"
  <2>1. Abstract!AnswerLoad
    BY <1>1, <1>3, <1>4, <1>6, <1>7, <1>8, <1>10
       DEF Abstract!AnswerLoad, Abstract!Request, Abstract!NoReq, Abstract!Reads,
           Request, NoReq, Reads, Writes
  <2>2. QED
    BY <2>1 DEF Abstract!Next
<1>11. CASE ~DBusy /\ dreq.op = "write"
  <2>1. Abstract!AnswerStore
    BY <1>1, <1>3, <1>4, <1>6, <1>7, <1>8, <1>11
       DEF Abstract!AnswerStore, Abstract!Request, Abstract!NoReq, Abstract!Reads,
           Request, NoReq, Reads, Writes
  <2>2. QED
    BY <2>1 DEF Abstract!Next
<1>12. CASE IBusy /\ DBusy
  <2>1. Abstract!Wait
    BY <1>1, <1>3, <1>5, <1>6, <1>12 DEF Abstract!Wait
  <2>2. QED
    BY <2>1 DEF Abstract!Next
<1>13. ~DBusy => dreq.op \in {"read", "write"}
  BY <1>8 DEF TypeOK, Request, NoReq, Reads, Writes
<1>14. QED
  BY <1>9, <1>10, <1>11, <1>12, <1>13

\* With such a memory the arbiter and its bridge implement the atomic memory.
THEOREM ImplementsAtomicMemory ==
  ASSUME ZeroFree, Steady
  PROVE  Spec => Linearizable
<1>1. Init => Abstract!Init
  BY DEF Init, Abstract!Init, Abstract!NoReq, Abstract!Reads, NextFetch, NoReq, Reads
<1>2. PairInv /\ [Next]_vars => [Abstract!Next]_Abstract!vars
  BY RefineStep DEF vars, Abstract!vars
<1>3. QED
  BY <1>1, <1>2, PairInvariant, PTL DEF Spec, Linearizable, Abstract!Spec
===============================================================================
