------------------------- MODULE TestPrograms_proofs -------------------------
(***************************************************************************)
(* The test programs, whatever the pace of the timer: an invariant for     *)
(* each group of programs, and the theorems about all of them.             *)
(*                                                                         *)
(*   VInv, EInv  vectored.c and ex_after_int.c, which use the timer        *)
(*   UInv        u-mode.c and csr.c, which run code in user mode           *)
(*   MInv        ecall.c, pma.c and the three tests of the matchers        *)
(*   CInv        pmp_csr.c                                                 *)
(***************************************************************************)
EXTENDS TestPrograms, Pmp_proofs

-----------------------------------------------------------------------------
(* What an operation does *)

\* In machine mode without mprv only locked entries are enforced.
Free(a) == \A n \in Entry : Locked(n) => ~Matches(n, a)

Harmless(i) ==
  /\ i.op # "ecall"
  /\ i.op = "csrw" => i.csr \notin {"cycle", "time"}
  /\ i.op = "store" => i.addr \in Nat /\ i.addr >= RomWords

LEMMA Words ==
  /\ Insn.op = "store" => DataWord = Insn.addr
  /\ Insn.op \in {"subtract", "x28"} => DataWord = Flag
  /\ Insn.op = "mtime" => DataWord = Mtime
  /\ Insn.op \notin {"store", "subtract", "x28", "mtime"} => DataWord = Text
BY Zenon DEF DataWord

\* All that programs access but Rom is behind the first 128 MB.
LEMMA Places ==
  /\ RomWords = 33554432 /\ Text = 536870976 /\ Flag = 536872960 /\ Bad = 268435456
  /\ Ram = 134217728 /\ Rom = 64 /\ Mtime = 1073741816 /\ Mtimecmp = 1073741818
  /\ Mtimecmph = 1073741819 /\ Msip = 1073741820 /\ ExtSet = 1073741821
  /\ ExtClear = 1073741822 /\ Magic = 1073741823
BY PowersOfTwo, SMT DEF RomWords, Text, Flag, Bad, Ram, Rom, Mtime, Mtimecmp, Mtimecmph, Msip,
   ExtSet, ExtClear, Magic

LEMMA NoCause ==
  ASSUME mode = "M", ~Checked, Free(Text), Free(DataWord), Harmless(Insn)
  PROVE  Cause = "none"
<1>1. ~LoadFault /\ ~StoreFault /\ ~FetchFault(Text, DataWord, Checked)
  BY DEF LoadFault, StoreFault, FetchFault, DataFault, Hit, Free
<1>2. ~Illegal
  BY DEF Illegal, Harmless
<1>3. ~(Stores /\ PmaStoreFault(DataWord))
  BY Words, Places, SMT DEF Stores, PmaStoreFault, Harmless
<1> QED
  BY <1>1, <1>2, <1>3 DEF Cause, Harmless

LEMMA EcallCause ==
  ASSUME mode = "M", Insn = Do("ecall"), \A a : Free(a), ~Checked
  PROVE  Cause = "env_m"
<1>1. Insn.op = "ecall"
  BY DEF Do
<1>2. ~LoadFault /\ ~StoreFault /\ ~FetchFault(Text, DataWord, Checked)
  BY <1>1 DEF LoadFault, StoreFault, FetchFault, DataFault, Hit, Free
<1>3. ~Illegal
  BY <1>1 DEF Illegal, CsrOps
<1> QED
  BY <1>1, <1>2, <1>3 DEF Cause

\* Each operation is a step of one kind.
LEMMA Ops ==
  /\ WriteCsr => Runs /\ Insn.op \in {"csrw", "csrs", "csrc"}
  /\ WritePmpcfg => Runs /\ Insn.op \in {"csrw", "csrs"}
  /\ WritePmpaddr => Runs /\ Insn.op = "csrw"
  /\ Count => Runs /\ Insn.op \in {"expect", "close", "subtract"}
  /\ StoreWord => Runs /\ Insn.op = "store"
  /\ ReadMtime => Runs /\ Insn.op = "mtime"
  /\ Until => Runs /\ Insn.op = "until"
  /\ ReadCsr => Runs /\ Insn.op = "csrr"
  /\ SkipInsn => Runs /\ Insn.op = "skip"
  /\ FinishOrSkip => Runs /\ Insn.op = "finish_or_skip"
  /\ ReturnFromTrap => Runs /\ Insn.op = "mret"
  /\ Finish => Runs /\ Insn.op \in {"return", "done"}
  /\ LoadResult => Runs /\ Insn.op = "x28"
  /\ InfLoop => Runs /\ Insn.op = "loop"
  /\ AnyPmp => Runs /\ Insn.op = "pmp"
<1>1. /\ WriteCsr => Runs /\ Insn.op \in {"csrw", "csrs", "csrc"}
      /\ WritePmpcfg => Runs /\ Insn.op \in {"csrw", "csrs"}
      /\ WritePmpaddr => Runs /\ Insn.op = "csrw"
  BY Zenon DEF WriteCsr, WritePmpcfg, WritePmpaddr
<1>2. Count => Runs /\ Insn.op \in {"expect", "close", "subtract"}
  BY Zenon DEF Count
<1>3. /\ StoreWord => Runs /\ Insn.op = "store"
      /\ ReadMtime => Runs /\ Insn.op = "mtime"
      /\ Until => Runs /\ Insn.op = "until"
      /\ ReadCsr => Runs /\ Insn.op = "csrr"
      /\ SkipInsn => Runs /\ Insn.op = "skip"
      /\ FinishOrSkip => Runs /\ Insn.op = "finish_or_skip"
  BY Zenon DEF StoreWord, ReadMtime, Until, ReadCsr, SkipInsn, FinishOrSkip
<1>4. /\ ReturnFromTrap => Runs /\ Insn.op = "mret"
      /\ Finish => Runs /\ Insn.op \in {"return", "done"}
      /\ LoadResult => Runs /\ Insn.op = "x28"
      /\ InfLoop => Runs /\ Insn.op = "loop"
      /\ AnyPmp => Runs /\ Insn.op = "pmp"
  BY Zenon DEF ReturnFromTrap, Finish, LoadResult, InfLoop, AnyPmp
<1> QED
  BY <1>1, <1>2, <1>3, <1>4

LEMMA StepKinds ==
  ASSUME Next, Cause = "none", ~InterruptFired
  PROVE  /\ Insn.op \in {"csrw", "csrs", "csrc"}
              => WriteCsr \/ WritePmpcfg \/ WritePmpaddr
         /\ Insn.op \in {"expect", "close", "subtract"} => Count
         /\ Insn.op = "store" => StoreWord
         /\ Insn.op = "mtime" => ReadMtime
         /\ Insn.op = "until" => Until
         /\ Insn.op = "csrr" => ReadCsr
         /\ Insn.op = "skip" => SkipInsn
         /\ Insn.op = "finish_or_skip" => FinishOrSkip
         /\ Insn.op = "mret" => ReturnFromTrap
         /\ Insn.op \in {"return", "done"} => Finish
         /\ Insn.op = "x28" => LoadResult
         /\ Insn.op = "loop" => InfLoop
<1>1. Step /\ ~Exception /\ ~Interrupt
  BY DEF Next, Exception, Interrupt
<1> QED
  BY <1>1, Ops DEF Step

LEMMA StepTraps ==
  ASSUME Next, Cause # "none" \/ InterruptFired
  PROVE  Exception \/ Interrupt
<1>1. ~Runs
  BY DEF Runs
<1> QED
  BY <1>1, Ops DEF Next, Step

LEMMA Stored ==
  ASSUME Next, Cause = "none", ~InterruptFired, NEW a, NEW v, Insn = Store(a, v)
  PROVE  /\ flag' = IF a = Flag THEN v ELSE flag
         /\ mtimecmp' = IF a = Mtimecmp THEN v ELSE mtimecmp
         /\ mtimecmph' = IF a = Mtimecmph THEN v ELSE mtimecmph
         /\ msip' = IF a = Msip THEN v ELSE msip
         /\ ext' = (a = ExtSet \/ (ext /\ a # ExtClear))
         /\ pc' = <<pc[1], pc[2] + 1>>
         /\ UNCHANGED <<x28, csrs, elapsed, history, pmp>>
<1>1. Insn.op = "store" /\ Insn.addr = a /\ Insn.val = v
  BY DEF Store
<1>2. StoreWord
  BY <1>1, StepKinds
<1> QED
  BY <1>1, <1>2 DEF StoreWord, Next1

CsrNames == {"mstatus", "mie", "mtvec", "mepc", "mcycle"}

LEMMA CsrPlaces == CsrNames \cap (DOMAIN CfgNumber \cup DOMAIN AddrNumber) = {}
BY DEF CsrNames, CfgNumber, AddrNumber

LEMMA CsrWritten ==
  ASSUME Next, Cause = "none", ~InterruptFired, NEW c \in CsrNames, NEW v, Insn = Csrw(c, v)
  PROVE  /\ mstatus' = IF c = "mstatus" THEN v ELSE mstatus
         /\ mie' = IF c = "mie" THEN v ELSE mie
         /\ mtvec' = IF c = "mtvec" THEN v ELSE mtvec
         /\ mepc' = IF c = "mepc" THEN v ELSE mepc
         /\ pc' = <<pc[1], pc[2] + 1>>
         /\ UNCHANGED <<x28, mode, mcause, flag, elapsed, device, history, pmp>>
<1>1. Insn.op = "csrw" /\ Insn.csr = c /\ Insn.val = v
  BY DEF Csrw
<1>2. WriteCsr
  <2>1. ~WritePmpcfg /\ ~WritePmpaddr
    BY <1>1, CsrPlaces, Zenon DEF WritePmpcfg, WritePmpaddr
  <2> QED
    BY <1>1, <2>1, StepKinds
<1>3. Written(mstatus) = v /\ Written(mie) = v
  BY <1>1 DEF Written
<1> QED
  BY <1>1, <1>2, <1>3 DEF WriteCsr, Next1

LEMMA Subtracted ==
  ASSUME Next, Cause = "none", ~InterruptFired, NEW n, Insn = Subtract(n)
  PROVE  /\ flag' = flag - n /\ pc' = <<pc[1], pc[2] + 1>>
         /\ UNCHANGED <<x28, csrs, elapsed, device, history, pmp>>
<1>1. Insn.op = "subtract" /\ Insn.val = n
  BY DEF Subtract
<1>2. Count
  BY <1>1, StepKinds
<1>3. flag' = flag - Insn.val
  BY <1>1, <1>2, Zenon DEF Count
<1>4. pc' = Next1 /\ UNCHANGED <<x28, csrs, elapsed, device, history, pmp>>
  BY <1>2, Zenon DEF Count
<1> QED
  BY <1>1, <1>3, <1>4 DEF Next1

\* The operations that are named only.
LEMMA Done ==
  ASSUME Next, Cause = "none", ~InterruptFired, NEW o, Insn = Do(o), mtime \in Int
  PROVE  /\ o = "mtime" => /\ elapsed' \in BOOLEAN /\ (elapsed' <=> mtime >= Expiry)
                           /\ pc' = <<pc[1], pc[2] + 1>>
                           /\ UNCHANGED <<x28, csrs, flag, device, history, pmp>>
         /\ o = "until" => /\ elapsed => pc' = <<pc[1], pc[2] + 1>>
                           /\ ~elapsed => pc' = <<pc[1], pc[2] - 1>>
                           /\ UNCHANGED <<x28, csrs, flag, elapsed, device, history, pmp>>
         /\ o = "mret" => ReturnFromTrap
         /\ o \in {"return", "done"} =>
              /\ pc' = <<"done", 1>>
              /\ UNCHANGED <<x28, csrs, flag, elapsed, device, history, pmp>>
         /\ o = "x28" => /\ x28' = flag /\ pc' = <<pc[1], pc[2] + 1>>
                         /\ UNCHANGED <<csrs, flag, elapsed, device, history, pmp>>
         /\ o = "loop" => UNCHANGED <<pc, x28, csrs, flag, elapsed, device, history, pmp>>
<1>1. Insn.op = o
  BY DEF Do
<1>2. o = "mtime" => elapsed' \in BOOLEAN /\ (elapsed' <=> mtime >= Expiry)
  <2>1. o = "mtime" => elapsed' = (mtime >= Expiry)
    BY <1>1, StepKinds, Zenon DEF ReadMtime
  <2>2. (mtime >= Expiry) \in BOOLEAN
    BY TicksAssumption, SMT
  <2> QED
    BY <2>1, <2>2, Zenon
<1>3. o = "until" => /\ elapsed => pc' = <<pc[1], pc[2] + 1>>
                     /\ ~elapsed => pc' = <<pc[1], pc[2] - 1>>
  BY <1>1, StepKinds DEF Until, Next1
<1> QED
  BY <1>1, <1>2, <1>3, StepKinds DEF ReadMtime, Until, Finish, LoadResult, InfLoop, Next1, Goto

LEMMA Skipped ==
  ASSUME Next, Cause = "none", ~InterruptFired, Insn = Skip
  PROVE  /\ mepc' = <<mepc[1], mepc[2] + 1>> /\ pc' = <<pc[1], pc[2] + 1>>
         /\ UNCHANGED <<x28, mode, mstatus, mie, mtvec, mcause, flag, elapsed, device, history, pmp>>
<1>1. SkipInsn
  BY StepKinds DEF Skip, Do
<1> QED
  BY <1>1 DEF SkipInsn, Next1

LEMMA CsrChanged ==
  ASSUME Next, Cause = "none", ~InterruptFired, NEW v,
         Insn = Csrs("mstatus", v) \/ Insn = Csrc("mstatus", v)
  PROVE  /\ mstatus' = IF Insn.op = "csrs" THEN mstatus \cup v ELSE mstatus \ v
         /\ pc' = <<pc[1], pc[2] + 1>>
         /\ UNCHANGED <<x28, mode, mie, mtvec, mcause, mepc, flag, elapsed, device, history, pmp>>
<1>1. Insn.op \in {"csrs", "csrc"} /\ Insn.csr = "mstatus" /\ Insn.val = v
  BY DEF Csrs, Csrc
<1>2. WriteCsr
  <2>1. ~WritePmpcfg /\ ~WritePmpaddr
    BY <1>1, CsrPlaces, Zenon DEF WritePmpcfg, WritePmpaddr, CsrNames
  <2> QED
    BY <1>1, <2>1, StepKinds
<1>3. Written(mstatus) = IF Insn.op = "csrs" THEN mstatus \cup v ELSE mstatus \ v
  BY <1>1 DEF Written
<1> QED
  BY <1>1, <1>2, <1>3 DEF WriteCsr, Next1

LEMMA CsrRead ==
  ASSUME Next, Cause = "none", ~InterruptFired, NEW c, Insn = Csrr(c)
  PROVE  /\ pc' = <<pc[1], pc[2] + 1>>
         /\ UNCHANGED <<x28, csrs, flag, elapsed, device, history, pmp>>
<1>1. ReadCsr
  BY StepKinds DEF Csrr
<1> QED
  BY <1>1 DEF ReadCsr, Next1

LEMMA Closed ==
  ASSUME Next, Cause = "none", ~InterruptFired, Insn = Do("close")
  PROVE  /\ flag' = IF Close THEN flag - 1 ELSE flag
         /\ pc' = <<pc[1], pc[2] + 1>>
         /\ UNCHANGED <<x28, csrs, elapsed, device, history, pmp>>
<1>1. Insn.op = "close"
  BY DEF Do
<1>2. Count
  BY <1>1, StepKinds
<1>3. flag' = IF Close THEN flag - 1 ELSE flag
  BY <1>1, <1>2, Zenon DEF Count
<1> QED
  BY <1>2, <1>3 DEF Count, Next1

LEMMA Expected ==
  ASSUME Next, Cause = "none", ~InterruptFired, NEW c, NEW v, Insn = Expect(c, v)
  PROVE  /\ flag' = flag \/ flag' = flag - 1
         /\ pc' = <<pc[1], pc[2] + 1>>
         /\ UNCHANGED <<x28, csrs, elapsed, device, history, pmp>>
<1>1. Insn.op = "expect"
  BY DEF Expect
<1>2. Count
  BY <1>1, StepKinds
<1>3. flag' = IF Holds THEN flag - 1 ELSE flag
  BY <1>1, <1>2, Zenon DEF Count
<1> QED
  BY <1>2, <1>3 DEF Count, Next1

LEMMA Finished ==
  ASSUME Next, Cause = "none", ~InterruptFired, Insn = Do("finish_or_skip")
  PROVE  /\ mstatus' = IF mcause = "env_u" THEN mstatus \cup {"mpp"} ELSE mstatus
         /\ mepc' = IF mcause = "env_u" THEN <<"done", 1>> ELSE <<mepc[1], mepc[2] + 1>>
         /\ flag' = IF mcause = "env_u" THEN flag ELSE flag - 1
         /\ pc' = <<pc[1], pc[2] + 1>>
         /\ UNCHANGED <<x28, mode, mie, mtvec, mcause, elapsed, device, history, pmp>>
<1>1. FinishOrSkip
  BY StepKinds DEF Do
<1> QED
  BY <1>1 DEF FinishOrSkip, Next1

\* The registers of memory protection.
CfgNames == {"pmpcfg0", "pmpcfg1", "pmpcfg2"}
AddrNames == {"pmpaddr0", "pmpaddr1", "pmpaddr2", "pmpaddr3", "pmpaddr7", "pmpaddr8", "pmpaddr9"}

LEMMA PmpPlaces ==
  /\ DOMAIN CfgNumber = CfgNames /\ DOMAIN AddrNumber = AddrNames
  /\ CfgNumber["pmpcfg0"] = 0 /\ CfgNumber["pmpcfg1"] = 1 /\ CfgNumber["pmpcfg2"] = 2
  /\ AddrNumber["pmpaddr0"] = 0 /\ AddrNumber["pmpaddr1"] = 1 /\ AddrNumber["pmpaddr2"] = 2
  /\ AddrNumber["pmpaddr3"] = 3 /\ AddrNumber["pmpaddr7"] = 7 /\ AddrNumber["pmpaddr8"] = 8
  /\ AddrNumber["pmpaddr9"] = 9
BY DEF CfgNumber, AddrNumber, CfgNames, AddrNames

LEMMA CfgWritten ==
  ASSUME Next, Cause = "none", ~InterruptFired, NEW c \in CfgNames, NEW v,
         Insn = Csrw(c, v) \/ Insn = Csrs(c, v)
  PROVE  /\ WriteCfg(CfgNumber[c],
              [i \in 0 .. 3 |-> (IF Insn.op = "csrs" THEN pmpcfg[4 * CfgNumber[c] + i] ELSE {})
                                 \cup v[i]])
         /\ pc' = <<pc[1], pc[2] + 1>>
         /\ UNCHANGED <<x28, csrs, flag, elapsed, device, history>>
<1>1. Insn.op \in {"csrw", "csrs"} /\ Insn.csr = c /\ Insn.val = v
  BY DEF Csrw, Csrs
<1>2. WritePmpcfg
  <2>1. ~WriteCsr /\ ~WritePmpaddr
    BY <1>1, PmpPlaces DEF WriteCsr, WritePmpaddr, CfgNames, AddrNames
  <2> QED
    BY <1>1, <2>1, StepKinds
<1>3. WriteCfg(CfgNumber[c],
        [i \in 0 .. 3 |-> [k \in 0 .. 3 |-> IF Insn.op = "csrs" THEN pmpcfg[4 * CfgNumber[c] + k]
                                           ELSE {}][i] \cup v[i]])
  BY <1>1, <1>2, Zenon DEF WritePmpcfg
<1>4. [i \in 0 .. 3 |-> [k \in 0 .. 3 |-> IF Insn.op = "csrs" THEN pmpcfg[4 * CfgNumber[c] + k]
                                           ELSE {}][i] \cup v[i]]
      = [i \in 0 .. 3 |-> (IF Insn.op = "csrs" THEN pmpcfg[4 * CfgNumber[c] + i] ELSE {})
                                 \cup v[i]]
  OBVIOUS
<1>5. pc' = Next1 /\ UNCHANGED <<x28, csrs, flag, elapsed, device, history>>
  BY <1>2, Zenon DEF WritePmpcfg
<1> QED
  BY <1>3, <1>4, <1>5, Zenon DEF Next1

LEMMA AddrWritten ==
  ASSUME Next, Cause = "none", ~InterruptFired, NEW c \in AddrNames, NEW v, Insn = Csrw(c, v)
  PROVE  /\ WriteAddr(AddrNumber[c], v)
         /\ pc' = <<pc[1], pc[2] + 1>>
         /\ UNCHANGED <<x28, csrs, flag, elapsed, device, history>>
<1>1. Insn.op = "csrw" /\ Insn.csr = c /\ Insn.val = v
  BY DEF Csrw
<1>2. WritePmpaddr
  <2>1. ~WriteCsr /\ ~WritePmpcfg
    BY <1>1, PmpPlaces DEF WriteCsr, WritePmpcfg, CfgNames, AddrNames
  <2> QED
    BY <1>1, <2>1, StepKinds
<1> QED
  BY <1>1, <1>2, Zenon DEF WritePmpaddr, Next1

LEMMA Left ==
  ASSUME Next, Cause = "none", ~InterruptFired, Insn = Mret
  PROVE  /\ mode' = (IF "mpp" \in mstatus THEN "M" ELSE "U")
         /\ mstatus' = (mstatus \ ({"mie", "mpie", "mpp"}
                                    \cup IF "mpp" \in mstatus THEN {} ELSE {"mprv"}))
                         \cup (IF "mpie" \in mstatus THEN {"mie"} ELSE {})
         /\ pc' = mepc /\ resume' = <<"zero", 1>>
         /\ UNCHANGED <<x28, mie, mtvec, mcause, mepc, flag, elapsed, device, entered, pmp>>
<1>1. ReturnFromTrap
  BY StepKinds DEF Mret, Do
<1> QED
  BY <1>1 DEF ReturnFromTrap

\* The return from a trap that was taken in machine mode.
LEMMA Returned ==
  ASSUME Next, Cause = "none", ~InterruptFired, Insn = Mret, mstatus = {"mpie", "mpp"}
  PROVE  /\ mode' = "M" /\ mstatus' = {"mie"} /\ pc' = mepc /\ resume' = <<"zero", 1>>
         /\ UNCHANGED <<x28, mie, mtvec, mcause, mepc, flag, elapsed, device, entered, pmp>>
<1>1. ReturnFromTrap
  BY StepKinds DEF Mret, Do
<1> QED
  BY <1>1 DEF ReturnFromTrap

LEMMA TimeMoves ==
  ASSUME Next, mtime \in 0 .. Expiry
  PROVE  mtime' \in 0 .. Expiry /\ mtime' >= mtime
<1>1. PICK d \in Nat : mtime' = IF mtime + d < Expiry THEN mtime + d ELSE Expiry
  BY TicksAssumption DEF Next, Tick
<1> QED
  BY <1>1, TicksAssumption

LEMMA ProgStays == Next => prog' = prog
BY DEF Next

-----------------------------------------------------------------------------
(* The code of vectored.c *)

LEMMA VectoredRoutines ==
  Routines["vectored"] =
    [main |-> vectored_main, m_ext_handler |-> m_ext_handler,
     m_timer_handler |-> m_timer_handler, m_sw_handler |-> m_sw_handler,
     default_handler |-> default_handler, done |-> done]
BY DEF Routines

LEMMA VectoredMain ==
  /\ vectored_main[1] = Store(Mtimecmph, 0) /\ vectored_main[2] = Store(Mtimecmp, Expiry)
  /\ vectored_main[3] = Csrw("mtvec", "vectored")
  /\ vectored_main[4] = Csrw("mie", {"soft", "timer", "ext"})
  /\ vectored_main[5] = Csrw("mstatus", {"mie"}) /\ vectored_main[6] = Store(Msip, 1)
  /\ vectored_main[7] = Store(ExtSet, 1) /\ vectored_main[8] = Do("mtime")
  /\ vectored_main[9] = Do("until") /\ vectored_main[10] = Return
BY DEF vectored_main

LEMMA VectoredCode ==
  ASSUME prog = "vectored"
  PROVE  /\ \A k \in 1 .. 10 : pc = <<"main", k>> => Insn = vectored_main[k]
         /\ \A k \in 1 .. 4 : pc = <<"m_ext_handler", k>> => Insn = m_ext_handler[k]
         /\ \A k \in 1 .. 3 : pc = <<"m_timer_handler", k>> => Insn = m_timer_handler[k]
         /\ \A k \in 1 .. 3 : pc = <<"m_sw_handler", k>> => Insn = m_sw_handler[k]
         /\ \A k \in 1 .. 2 : pc = <<"done", k>> => Insn = done[k]
BY VectoredRoutines DEF Insn

-----------------------------------------------------------------------------
(* vectored.c: the invariant *)

\* The line of main that is executed, or to which the handler returns.
Line == IF pc[1] = "main" THEN pc[2] ELSE IF pc[1] = "done" THEN 10 ELSE mepc[2]

\* The handler h has been entered and has done what its first k lines do.
Past(h, k) == entered[h] = 1 /\ ~(pc[1] = h /\ pc[2] <= k)

Handlers == {"m_ext_handler", "m_timer_handler", "m_sw_handler"}

VPlace ==
  \/ pc \in {"main"} \X (1 .. 10) \cup {"done"} \X (1 .. 2)
       /\ resume = <<"zero", 1>> /\ mstatus = IF Line <= 5 THEN {"tw"} ELSE {"mie"}
  \/ pc \in {"m_ext_handler"} \X (1 .. 4) \cup {"m_timer_handler", "m_sw_handler"} \X (1 .. 3)
       /\ entered[pc[1]] = 1 /\ mepc \in {"main"} \X (6 .. 10) /\ resume = mepc
       /\ mstatus = {"mpie", "mpp"}

VEntered ==
  /\ entered \in [DOMAIN Routines[prog] -> {0, 1}] /\ entered["default_handler"] = 0
  /\ Line <= 6 => entered["m_sw_handler"] = 0
  /\ Line >= 8 => entered["m_sw_handler"] = 1
  /\ Line <= 7 => entered["m_ext_handler"] = 0
  /\ Line >= 9 => entered["m_ext_handler"] = 1
  /\ Line <= 5 => entered["m_timer_handler"] = 0
  /\ Line = 10 => entered["m_timer_handler"] = 1

VDevices ==
  /\ msip = IF Line >= 7 /\ ~Past("m_sw_handler", 2) THEN 1 ELSE 0
  /\ ext \in BOOLEAN /\ (ext <=> Line >= 8 /\ ~Past("m_ext_handler", 2))
  /\ mtimecmph = IF Line >= 2 /\ ~Past("m_timer_handler", 2) THEN 0 ELSE 255
  /\ mtimecmp = IF Line >= 3 THEN Expiry ELSE Expiry + 1
  /\ elapsed \in BOOLEAN /\ (elapsed => mtime = Expiry)

VCsrs ==
  /\ mtvec = IF Line <= 3 THEN "reset" ELSE "vectored"
  /\ mie = IF Line <= 4 THEN {}
           ELSE IF Past("m_ext_handler", 3) THEN {"soft", "timer"} ELSE {"soft", "timer", "ext"}

VFlag ==
  /\ flag = 255 - (IF Past("m_ext_handler", 1) THEN 14 ELSE 0)
                - (IF Past("m_sw_handler", 1) THEN 16 ELSE 0)
                - (IF Past("m_timer_handler", 1) THEN 224 ELSE 0)
  /\ x28 \in Int /\ (pc = <<"done", 2>> => x28 = 1)

VInv == prog = "vectored" => VPlace /\ VEntered /\ VDevices /\ VCsrs /\ VFlag

Untouched == mode = "M" /\ PmpInit /\ mtime \in 0 .. Expiry

LEMMA VHarmless ==
  ASSUME VInv, Untouched, prog = "vectored"
  PROVE  Cause = "none"
<1>1. Harmless(Insn)
  <2>1. CASE pc[1] = "main"
    BY <2>1, VectoredCode, VectoredMain, Places
       DEF VInv, VPlace, Harmless, Store, Csrw, Do, Return
  <2>2. CASE pc[1] # "main"
    BY <2>2, VectoredCode, Places DEF VInv, VPlace, Harmless, Store, Csrw, Do, Return, Mret,
       Subtract, m_ext_handler, m_sw_handler, m_timer_handler, done
  <2> QED
    BY <2>1, <2>2
<1>2. \A a : Free(a)
  BY DEF Free, Untouched, PmpInit, Locked
<1>3. ~Checked
  BY DEF Checked, Untouched, VInv, VPlace
<1> QED
  BY <1>1, <1>2, <1>3, NoCause DEF Untouched

\* A step of main that is no trap.
LEMMA VMain ==
  ASSUME VInv, Untouched, prog = "vectored", Next, ~InterruptFired, pc[1] = "main"
  PROVE  VInv' /\ Untouched'
<1>1. Cause = "none" /\ prog' = "vectored" /\ mtime' \in 0 .. Expiry /\ mtime' >= mtime
  BY VHarmless, TimeMoves, ProgStays DEF Untouched
<1>0. mtime \in Int
  BY TicksAssumption DEF Untouched
<1>2. /\ VPlace /\ VEntered /\ VDevices /\ VCsrs /\ VFlag
  BY DEF VInv
<1>3. PICK k \in 1 .. 10 : pc = <<"main", k>>
  BY <1>2 DEF VPlace
<1>4. Insn = vectored_main[k]
  BY <1>3, VectoredCode
<1>5. Line = k /\ pc[1] = "main" /\ pc[2] = k
  BY <1>3 DEF Line
<1>6. entered \in [DOMAIN Routines["vectored"] -> {0, 1}]
  BY <1>2 DEF VEntered
<1>7. Handlers \subseteq DOMAIN Routines["vectored"]
  BY VectoredRoutines DEF Handlers
<1>8. /\ k = 7 => entered["m_sw_handler"] = 1
      /\ k = 8 => entered["m_ext_handler"] = 1
      /\ k = 9 /\ elapsed => entered["m_timer_handler"] = 1
  <2>1. CASE k \in {7, 8, 9}
    <3>1. mie \cap Lines = {}
      BY <1>2, <1>5, <2>1 DEF InterruptFired, VPlace
    <3>2. {"soft", "timer"} \subseteq mie /\ (entered["m_ext_handler"] # 1 => "ext" \in mie)
      BY <1>2, <1>5, <2>1 DEF VCsrs, Past
    <3>3. /\ msip % 2 # 1 /\ (entered["m_ext_handler"] # 1 => ~ext)
          /\ ~(mtimecmph = 0 /\ mtimecmp <= mtime)
      BY <3>1, <3>2 DEF Lines
    <3> QED
      BY <3>3, <1>2, <1>5, <2>1, TicksAssumption DEF VDevices, Past
  <2> QED
    BY <2>1
<1>9. /\ mtimecmp' = IF k = 2 THEN Expiry ELSE mtimecmp
      /\ mtimecmph' = IF k = 1 THEN 0 ELSE mtimecmph
      /\ msip' = IF k = 6 THEN 1 ELSE msip
      /\ ext' \in BOOLEAN /\ (ext' <=> k = 7 \/ ext)
      /\ mtvec' = IF k = 3 THEN "vectored" ELSE mtvec
      /\ mie' = IF k = 4 THEN {"soft", "timer", "ext"} ELSE mie
      /\ mstatus' = IF k = 5 THEN {"mie"} ELSE mstatus
      /\ elapsed' \in BOOLEAN /\ (elapsed' => IF k = 8 THEN mtime >= Expiry ELSE elapsed)
      /\ pc' = IF k = 10 THEN <<"done", 1>>
               ELSE <<"main", IF k = 9 /\ ~elapsed THEN 8 ELSE k + 1>>
      /\ x28' = x28 /\ mode' = mode /\ flag' = flag
      /\ entered' = entered /\ resume' = resume /\ pmpcfg' = pmpcfg /\ pmpaddr' = pmpaddr
  <2>0. ext \in BOOLEAN /\ elapsed \in BOOLEAN
    BY <1>2 DEF VDevices
  <2>1. CASE k \in {1, 2, 6, 7}
    <3>1. /\ k = 1 => Insn = Store(Mtimecmph, 0)
          /\ k = 2 => Insn = Store(Mtimecmp, Expiry)
          /\ k = 6 => Insn = Store(Msip, 1)
          /\ k = 7 => Insn = Store(ExtSet, 1)
      BY <1>4, VectoredMain
    <3>2. PICK a, v : /\ Insn = Store(a, v)
                      /\ (a = Mtimecmph <=> k = 1) /\ (a = Mtimecmp <=> k = 2)
                      /\ (a = Msip <=> k = 6) /\ (a = ExtSet <=> k = 7)
                      /\ a # Flag /\ a # ExtClear
                      /\ v = IF k = 1 THEN 0 ELSE IF k = 2 THEN Expiry ELSE 1
      BY <2>1, <3>1, Places, SMT
    <3>3. /\ flag' = flag
          /\ mtimecmp' = IF a = Mtimecmp THEN v ELSE mtimecmp
          /\ mtimecmph' = IF a = Mtimecmph THEN v ELSE mtimecmph
          /\ msip' = IF a = Msip THEN v ELSE msip
          /\ pc' = <<pc[1], pc[2] + 1>>
          /\ UNCHANGED <<x28, csrs, elapsed, history, pmp>>
      BY <1>1, <3>2, Stored
    <3>4. ext' = (a = ExtSet \/ (ext /\ a # ExtClear))
      BY <1>1, <3>2, Stored, Zenon
    <3>5. ext' \in BOOLEAN /\ (ext' <=> k = 7 \/ ext)
      BY <2>0, <3>2, <3>4, Zenon
    <3> QED
      BY <1>3, <2>0, <2>1, <3>2, <3>3, <3>5 DEF csrs, history, pmp
  <2>2. CASE k \in {3, 4, 5}
    <3>1. /\ k = 3 => Insn = Csrw("mtvec", "vectored")
          /\ k = 4 => Insn = Csrw("mie", {"soft", "timer", "ext"})
          /\ k = 5 => Insn = Csrw("mstatus", {"mie"})
      BY <1>4, VectoredMain
    <3> QED
      BY <1>1, <1>3, <2>0, <2>2, <3>1, CsrWritten DEF CsrNames, device, history, pmp
  <2>3. CASE k \in {8, 9, 10}
    <3>1. /\ k = 8 => Insn = Do("mtime")
          /\ k = 9 => Insn = Do("until")
          /\ k = 10 => Insn = Do("return")
      BY <1>4, VectoredMain DEF Return
    <3>2. /\ k # 8 => elapsed' = elapsed
          /\ k = 8 => elapsed' \in BOOLEAN /\ (elapsed' => mtime >= Expiry)
      BY <1>0, <1>1, <2>3, <3>1, Done
    <3>3. /\ k = 10 => pc' = <<"done", 1>>
          /\ k = 9 /\ ~elapsed => pc' = <<pc[1], pc[2] - 1>>
          /\ k = 8 \/ (k = 9 /\ elapsed) => pc' = <<pc[1], pc[2] + 1>>
      BY <1>0, <1>1, <2>3, <3>1, Done
    <3>4. UNCHANGED <<x28, csrs, flag, device, history, pmp>>
      BY <1>0, <1>1, <2>3, <3>1, Done
    <3> QED
      BY <1>3, <2>0, <2>3, <3>2, <3>3, <3>4 DEF csrs, device, history, pmp
  <2> QED
    BY <2>1, <2>2, <2>3
<1>10. /\ pc'[1] = IF k = 10 THEN "done" ELSE "main"
       /\ Line' = IF k = 10 THEN 10 ELSE IF k = 9 /\ ~elapsed THEN 8 ELSE k + 1
  BY <1>9 DEF Line
<1>11. VPlace'
  BY <1>2, <1>3, <1>5, <1>9, <1>10 DEF VPlace
<1>12. VEntered'
  BY <1>1, <1>2, <1>5, <1>8, <1>9, <1>10 DEF VEntered
<1>13. VDevices'
  <2>1. (elapsed \in BOOLEAN /\ (elapsed => mtime = Expiry))'
    BY <1>1, <1>2, <1>9, TicksAssumption DEF VDevices, Untouched
  <2>2. (ext \in BOOLEAN /\ (ext <=> Line >= 8 /\ ~Past("m_ext_handler", 2)))'
    BY <1>2, <1>5, <1>8, <1>9, <1>10 DEF VDevices, VEntered, Past
  <2>3. (/\ msip = IF Line >= 7 /\ ~Past("m_sw_handler", 2) THEN 1 ELSE 0
         /\ mtimecmph = IF Line >= 2 /\ ~Past("m_timer_handler", 2) THEN 0 ELSE 255
         /\ mtimecmp = IF Line >= 3 THEN Expiry ELSE Expiry + 1)'
    BY <1>2, <1>5, <1>8, <1>9, <1>10 DEF VDevices, VEntered, Past
  <2> QED
    BY <2>1, <2>2, <2>3 DEF VDevices
<1>14. VCsrs' /\ VFlag'
  BY <1>1, <1>2, <1>5, <1>9, <1>10 DEF VCsrs, VEntered, VFlag, Past
<1>15. Untouched'
  BY <1>1, <1>9 DEF Untouched, PmpInit
<1> QED
  BY <1>11, <1>12, <1>13, <1>14, <1>15 DEF VInv

LEMMA VHandlers ==
  /\ m_ext_handler[1] = Subtract(14) /\ m_ext_handler[2] = Store(ExtClear, 1)
  /\ m_ext_handler[3] = Csrw("mie", {"soft", "timer"}) /\ m_ext_handler[4] = Mret
  /\ m_timer_handler[1] = Subtract(224) /\ m_timer_handler[2] = Store(Mtimecmph, 255)
  /\ m_timer_handler[3] = Mret
  /\ m_sw_handler[1] = Subtract(16) /\ m_sw_handler[2] = Store(Msip, 0)
  /\ m_sw_handler[3] = Mret
BY DEF m_ext_handler, m_timer_handler, m_sw_handler

\* A step of a handler: it does its part, then main goes on where it was.
LEMMA VHandler ==
  ASSUME VInv, Untouched, prog = "vectored", Next, pc[1] \in Handlers
  PROVE  VInv' /\ Untouched'
<1>1. Cause = "none" /\ prog' = "vectored" /\ mtime' \in 0 .. Expiry /\ mtime' >= mtime
  BY VHarmless, TimeMoves, ProgStays DEF Untouched
<1>2. VPlace /\ VEntered /\ VDevices /\ VCsrs /\ VFlag
  BY DEF VInv
<1>3. PICK h \in Handlers, k \in 1 .. 4 : pc = <<h, k>> /\ (h # "m_ext_handler" => k <= 3)
  BY <1>2 DEF VPlace, Handlers
<1>4. /\ entered[h] = 1 /\ resume = mepc /\ mstatus = {"mpie", "mpp"}
      /\ mepc \in {"main"} \X (6 .. 10)
  BY <1>2, <1>3 DEF VPlace, Handlers
<1>5. ~InterruptFired
  BY <1>4 DEF InterruptFired
<1>6. /\ h = "m_ext_handler" => Insn = m_ext_handler[k]
      /\ h = "m_timer_handler" => Insn = m_timer_handler[k]
      /\ h = "m_sw_handler" => Insn = m_sw_handler[k]
  BY <1>3, VectoredCode
<1>7. Insn = Mret <=> (k = 4 \/ (k = 3 /\ h # "m_ext_handler"))
  BY <1>3, <1>6, VHandlers DEF Mret, Do, Store, Subtract, Csrw, Handlers
<1>8. Line = mepc[2] /\ Line \in 6 .. 10 /\ pc[1] = h /\ pc[2] = k
  BY <1>3, <1>4 DEF Line, Handlers
<1>9. /\ flag' = flag - (IF k # 1 THEN 0 ELSE IF h = "m_ext_handler" THEN 14
                         ELSE IF h = "m_sw_handler" THEN 16 ELSE 224)
      /\ mtimecmph' = IF k = 2 /\ h = "m_timer_handler" THEN 255 ELSE mtimecmph
      /\ msip' = IF k = 2 /\ h = "m_sw_handler" THEN 0 ELSE msip
      /\ ext' \in BOOLEAN /\ (ext' <=> ext /\ ~(k = 2 /\ h = "m_ext_handler"))
      /\ mie' = IF k = 3 /\ h = "m_ext_handler" THEN {"soft", "timer"} ELSE mie
      /\ IF Insn = Mret THEN pc' = mepc /\ mstatus' = {"mie"} /\ resume' = <<"zero", 1>>
         ELSE pc' = <<h, k + 1>> /\ mstatus' = mstatus /\ resume' = resume
      /\ mtvec' = mtvec /\ mepc' = mepc /\ mtimecmp' = mtimecmp /\ elapsed' = elapsed
      /\ x28' = x28 /\ mode' = "M" /\ entered' = entered
      /\ pmpcfg' = pmpcfg /\ pmpaddr' = pmpaddr
  <2>0. ext \in BOOLEAN /\ flag \in Int /\ mode = "M"
    BY <1>2 DEF VDevices, VFlag, Untouched
  <2>1. CASE k = 1
    <3>1. PICK n \in Int : /\ Insn = Subtract(n)
                           /\ n = IF h = "m_ext_handler" THEN 14
                                  ELSE IF h = "m_sw_handler" THEN 16 ELSE 224
      BY <1>6, <2>1, VHandlers DEF Handlers
    <3> QED
      BY <1>1, <1>3, <1>5, <1>7, <2>0, <2>1, <3>1, Subtracted
         DEF csrs, device, history, pmp, Handlers
  <2>2. CASE k = 2
    <3>1. PICK a, v : /\ Insn = Store(a, v)
                      /\ (a = ExtClear <=> h = "m_ext_handler")
                      /\ (a = Mtimecmph <=> h = "m_timer_handler")
                      /\ (a = Msip <=> h = "m_sw_handler")
                      /\ a # Flag /\ a # ExtSet /\ a # Mtimecmp
                      /\ (h = "m_timer_handler" => v = 255) /\ (h = "m_sw_handler" => v = 0)
      BY <1>6, <2>2, VHandlers, Places, SMT DEF Handlers
    <3>2. /\ flag' = flag
          /\ mtimecmp' = IF a = Mtimecmp THEN v ELSE mtimecmp
          /\ mtimecmph' = IF a = Mtimecmph THEN v ELSE mtimecmph
          /\ msip' = IF a = Msip THEN v ELSE msip
          /\ pc' = <<pc[1], pc[2] + 1>>
          /\ UNCHANGED <<x28, csrs, elapsed, history, pmp>>
      BY <1>1, <1>5, <3>1, Stored
    <3>3. ext' = (a = ExtSet \/ (ext /\ a # ExtClear))
      BY <1>1, <1>5, <3>1, Stored, Zenon
    <3>4. ext' \in BOOLEAN /\ (ext' <=> ext /\ h # "m_ext_handler")
      BY <2>0, <3>1, <3>3, Zenon
    <3> QED
      BY <1>3, <1>7, <2>0, <2>2, <3>1, <3>2, <3>4 DEF csrs, history, pmp
  <2>3. CASE k = 3 /\ h = "m_ext_handler"
    <3>1. Insn = Csrw("mie", {"soft", "timer"})
      BY <1>6, <2>3, VHandlers
    <3> QED
      BY <1>1, <1>3, <1>5, <1>7, <2>0, <2>3, <3>1, CsrWritten
         DEF CsrNames, device, history, pmp
  <2>4. CASE k = 4 \/ (k = 3 /\ h # "m_ext_handler")
    <3>1. Insn = Mret
      BY <1>7, <2>4
    <3> QED
      BY <1>1, <1>4, <1>5, <2>0, <2>4, <3>1, Returned DEF device, pmp
  <2> QED
    BY <1>3, <2>1, <2>2, <2>3, <2>4
<1>10. /\ Line' = Line /\ pc'[1] = (IF Insn = Mret THEN "main" ELSE h)
       /\ pc'[2] = IF Insn = Mret THEN Line ELSE k + 1
  BY <1>4, <1>8, <1>9 DEF Line, Handlers
<1>11. VPlace'
  BY <1>2, <1>3, <1>4, <1>7, <1>8, <1>9, <1>10 DEF VPlace, Handlers
<1>12. VEntered'
  BY <1>1, <1>2, <1>9, <1>10 DEF VEntered
<1>13. /\ Past("m_ext_handler", 1)' <=> (IF h = "m_ext_handler" THEN TRUE ELSE Past("m_ext_handler", 1))
       /\ Past("m_ext_handler", 2)' <=> (IF h = "m_ext_handler" THEN k >= 2 ELSE Past("m_ext_handler", 2))
       /\ Past("m_ext_handler", 3)' <=> (IF h = "m_ext_handler" THEN k >= 3 ELSE Past("m_ext_handler", 3))
       /\ Past("m_sw_handler", 1)' <=> (IF h = "m_sw_handler" THEN TRUE ELSE Past("m_sw_handler", 1))
       /\ Past("m_sw_handler", 2)' <=> (IF h = "m_sw_handler" THEN k >= 2 ELSE Past("m_sw_handler", 2))
       /\ Past("m_timer_handler", 1)' <=> (IF h = "m_timer_handler" THEN TRUE ELSE Past("m_timer_handler", 1))
       /\ Past("m_timer_handler", 2)' <=> (IF h = "m_timer_handler" THEN k >= 2 ELSE Past("m_timer_handler", 2))
  BY <1>3, <1>4, <1>7, <1>8, <1>9, <1>10 DEF Past, Handlers
<1>14. /\ Past("m_ext_handler", 1) <=> entered["m_ext_handler"] = 1 /\ ~(h = "m_ext_handler" /\ k = 1)
       /\ Past("m_ext_handler", 2) <=> entered["m_ext_handler"] = 1 /\ ~(h = "m_ext_handler" /\ k <= 2)
       /\ Past("m_ext_handler", 3) <=> entered["m_ext_handler"] = 1 /\ ~(h = "m_ext_handler" /\ k <= 3)
       /\ Past("m_sw_handler", 1) <=> entered["m_sw_handler"] = 1 /\ ~(h = "m_sw_handler" /\ k = 1)
       /\ Past("m_sw_handler", 2) <=> entered["m_sw_handler"] = 1 /\ ~(h = "m_sw_handler" /\ k <= 2)
       /\ Past("m_timer_handler", 1) <=> entered["m_timer_handler"] = 1 /\ ~(h = "m_timer_handler" /\ k = 1)
       /\ Past("m_timer_handler", 2) <=> entered["m_timer_handler"] = 1 /\ ~(h = "m_timer_handler" /\ k <= 2)
  BY <1>3, <1>8 DEF Past
<1>15. VDevices'
  <2>1. (elapsed \in BOOLEAN /\ (elapsed => mtime = Expiry))'
    BY <1>1, <1>2, <1>9, TicksAssumption DEF VDevices, Untouched
  <2>2. (ext \in BOOLEAN /\ (ext <=> Line >= 8 /\ ~Past("m_ext_handler", 2)))'
    BY <1>2, <1>3, <1>4, <1>8, <1>9, <1>10, <1>13, <1>14 DEF VDevices, VEntered
  <2>3. (/\ msip = IF Line >= 7 /\ ~Past("m_sw_handler", 2) THEN 1 ELSE 0
         /\ mtimecmph = IF Line >= 2 /\ ~Past("m_timer_handler", 2) THEN 0 ELSE 255
         /\ mtimecmp = IF Line >= 3 THEN Expiry ELSE Expiry + 1)'
    BY <1>2, <1>3, <1>4, <1>8, <1>9, <1>10, <1>13, <1>14 DEF VDevices, VEntered
  <2> QED
    BY <2>1, <2>2, <2>3 DEF VDevices
<1>16. VCsrs'
  BY <1>2, <1>3, <1>4, <1>8, <1>9, <1>10, <1>13, <1>14 DEF VCsrs, VEntered
<1>17. VFlag'
  BY <1>2, <1>3, <1>4, <1>8, <1>9, <1>10, <1>13, <1>14 DEF VFlag, VEntered, Handlers
<1>18. Untouched'
  BY <1>1, <1>9 DEF Untouched, PmpInit
<1> QED
  BY <1>11, <1>12, <1>15, <1>16, <1>17, <1>18 DEF VInv

\* In done all has been served, and x28 gets what is left of flag.
LEMMA VDone ==
  ASSUME VInv, Untouched, prog = "vectored", Next, pc[1] = "done"
  PROVE  VInv' /\ Untouched'
<1>1. Cause = "none" /\ prog' = "vectored" /\ mtime' \in 0 .. Expiry /\ mtime' >= mtime
  BY VHarmless, TimeMoves, ProgStays DEF Untouched
<1>2. VPlace /\ VEntered /\ VDevices /\ VCsrs /\ VFlag
  BY DEF VInv
<1>3. PICK k \in 1 .. 2 : pc = <<"done", k>>
  BY <1>2 DEF VPlace
<1>4. Line = 10 /\ pc[1] = "done" /\ pc[2] = k
  BY <1>3 DEF Line
<1>5. /\ entered["m_ext_handler"] = 1 /\ entered["m_sw_handler"] = 1
      /\ entered["m_timer_handler"] = 1
  BY <1>2, <1>4 DEF VEntered
<1>6. msip = 0 /\ ~ext /\ mtimecmph = 255 /\ flag = 1
  BY <1>2, <1>4, <1>5 DEF VDevices, VFlag, Past
<1>7. ~InterruptFired
  BY <1>6 DEF InterruptFired, Lines
<1>8. /\ k = 1 => Insn = Do("x28")
      /\ k = 2 => Insn = Do("loop")
  BY <1>3, VectoredCode DEF done
<1>9. mtime \in Int
  BY TicksAssumption DEF Untouched
<1>10. /\ UNCHANGED <<csrs, flag, elapsed, device, history, pmp>>
       /\ k = 1 => x28' = flag /\ pc' = <<pc[1], pc[2] + 1>>
       /\ k = 2 => x28' = x28 /\ pc' = pc
  BY <1>1, <1>3, <1>7, <1>8, <1>9, Done
<1>11. /\ mode' = mode /\ mstatus' = mstatus /\ mie' = mie /\ mtvec' = mtvec /\ mepc' = mepc
       /\ mtimecmp' = mtimecmp /\ mtimecmph' = mtimecmph /\ msip' = msip /\ ext' = ext
       /\ entered' = entered /\ resume' = resume /\ elapsed' = elapsed /\ flag' = flag
       /\ pmpcfg' = pmpcfg /\ pmpaddr' = pmpaddr
  BY <1>10 DEF csrs, device, history, pmp
<1>12. pc' = <<"done", 2>> /\ pc'[1] = "done" /\ pc'[2] = 2 /\ Line' = 10 /\ x28' \in Int
  BY <1>2, <1>3, <1>6, <1>10 DEF Line, VFlag
<1>13. VPlace' /\ VEntered'
  BY <1>1, <1>2, <1>4, <1>11, <1>12 DEF VPlace, VEntered
<1>14. VDevices'
  <2>1. (elapsed \in BOOLEAN /\ (elapsed => mtime = Expiry))'
    BY <1>1, <1>2, <1>11, TicksAssumption DEF VDevices, Untouched
  <2>2. (ext \in BOOLEAN /\ (ext <=> Line >= 8 /\ ~Past("m_ext_handler", 2)))'
    BY <1>2, <1>5, <1>6, <1>11, <1>12 DEF VDevices, Past
  <2> QED
    BY <1>2, <1>4, <1>5, <1>11, <1>12, <2>1, <2>2 DEF VDevices, Past
<1>15. VCsrs'
  BY <1>2, <1>4, <1>11, <1>12 DEF VCsrs, Past
<1>16. VFlag'
  <2>1. CASE k = 1
    BY <2>1, <1>2, <1>4, <1>5, <1>6, <1>10, <1>11, <1>12 DEF VFlag, Past
  <2>2. CASE k = 2
    BY <2>2, <1>2, <1>3, <1>4, <1>5, <1>6, <1>10, <1>11, <1>12 DEF VFlag, Past
  <2> QED
    BY <2>1, <2>2
<1>17. Untouched'
  BY <1>1, <1>11 DEF Untouched, PmpInit
<1> QED
  BY <1>13, <1>14, <1>15, <1>16, <1>17 DEF VInv

LEMMA Dispatched ==
  /\ vectored_dispatch["soft"] = "m_sw_handler"
  /\ vectored_dispatch["timer"] = "m_timer_handler"
  /\ vectored_dispatch["ext"] = "m_ext_handler"
BY DEF vectored_dispatch

\* An interrupt comes in main, for a line no handler has served; where the branch
\* of the loop is lost it is the timer's.
LEMMA VInterrupt ==
  ASSUME VInv, Untouched, prog = "vectored", Next, InterruptFired
  PROVE  VInv' /\ Untouched'
<1>1. Cause = "none" /\ prog' = "vectored" /\ mtime' \in 0 .. Expiry /\ mtime' >= mtime
  BY VHarmless, TimeMoves, ProgStays DEF Untouched
<1>2. VPlace /\ VEntered /\ VDevices /\ VCsrs /\ VFlag
  BY DEF VInv
<1>3. "mie" \in mstatus /\ mie \cap Lines # {}
  BY DEF InterruptFired
<1>4. PICK k \in 6 .. 10 : /\ pc = <<"main", k>> /\ mstatus = {"mie"}
                           /\ pc[1] = "main" /\ pc[2] = k /\ Line = k
  <2>1. pc[1] # "done"
    <3>1. SUFFICES ASSUME pc[1] = "done" PROVE FALSE
      OBVIOUS
    <3>2. Line = 10
      BY <3>1 DEF Line
    <3>3. /\ entered["m_ext_handler"] = 1 /\ entered["m_sw_handler"] = 1
          /\ entered["m_timer_handler"] = 1
      BY <1>2, <3>2 DEF VEntered
    <3>4. msip = 0 /\ ~ext /\ mtimecmph = 255
      BY <1>2, <3>1, <3>2, <3>3 DEF VDevices, Past
    <3> QED
      BY <1>3, <3>4 DEF Lines
  <2>2. PICK k \in 1 .. 10 : pc = <<"main", k>> /\ mstatus = IF Line <= 5 THEN {"tw"} ELSE {"mie"}
    BY <1>2, <1>3, <2>1 DEF VPlace
  <2>3. Line = k
    BY <2>2 DEF Line
  <2> QED
    BY <1>3, <2>2, <2>3
<1>5. PICK h \in Handlers :
        /\ h = vectored_dispatch[IntSrc] /\ entered[h] = 0
        /\ (h = "m_sw_handler" => k = 7) /\ (h = "m_ext_handler" => k = 8)
        /\ (k >= 9 => h = "m_timer_handler")
  <2>0. entered \in [DOMAIN Routines["vectored"] -> {0, 1}]
    BY <1>2 DEF VEntered
  <2>1. Handlers \subseteq DOMAIN Routines["vectored"]
    BY VectoredRoutines DEF Handlers
  <2>2. \A h \in Handlers : entered[h] \in {0, 1}
    BY <2>0, <2>1
  <2>3. /\ (msip % 2 = 1 => k = 7 /\ entered["m_sw_handler"] = 0)
        /\ (ext => k = 8 /\ entered["m_ext_handler"] = 0)
        /\ (mtimecmph = 0 => entered["m_timer_handler"] = 0)
    BY <1>2, <1>4, <2>2 DEF VDevices, VEntered, Past, Handlers
  <2>4. /\ IntSrc = "soft" => msip % 2 = 1
        /\ IntSrc = "ext" => ext
        /\ IntSrc = "timer" => mtimecmph = 0
        /\ IntSrc \in {"soft", "ext", "timer"}
    BY <1>3 DEF IntSrc, Lines
  <2> QED
    BY <2>3, <2>4, Dispatched DEF Handlers
<1>6. mtvec = "vectored"
  BY <1>2, <1>4 DEF VCsrs
<1>7. Dispatch(IntSrc) = h
  BY <1>5, <1>6 DEF Dispatch
<1>8. Insn = vectored_main[k]
  BY <1>4, VectoredCode
<1>9. Insn.op = "until" => k = 9
  BY <1>8, VectoredMain DEF Store, Csrw, Do, Return
<1>10. PICK epc : /\ Trap(IntSrc, h, epc) /\ resume' = epc
                  /\ epc = pc \/ (k = 9 /\ epc = <<"main", 10>>)
  <2>1. Interrupt
    BY <1>1, StepTraps DEF Exception
  <2> QED
    BY <1>4, <1>7, <1>9, <2>1 DEF Interrupt, Next1
<1>11. PICK n \in 6 .. 10 : /\ epc = <<"main", n>> /\ (n = k \/ (k = 9 /\ n = 10))
  BY <1>4, <1>10
<1>12. /\ mode' = "M" /\ mstatus' = {"mpie", "mpp"} /\ mepc' = <<"main", n>> /\ pc' = <<h, 1>>
       /\ resume' = mepc' /\ entered' = [entered EXCEPT ![h] = 1]
       /\ mie' = mie /\ mtvec' = mtvec /\ flag' = flag /\ elapsed' = elapsed /\ x28' = x28
       /\ mtimecmp' = mtimecmp /\ mtimecmph' = mtimecmph /\ msip' = msip /\ ext' = ext
       /\ pmpcfg' = pmpcfg /\ pmpaddr' = pmpaddr
  BY <1>4, <1>5, <1>10, <1>11 DEF Trap, Goto, device, pmp, Untouched
<1>13. /\ pc'[1] = h /\ pc'[2] = 1 /\ Line' = n
  BY <1>12 DEF Line, Handlers
<1>14. entered' \in [DOMAIN Routines["vectored"] -> {0, 1}] /\ entered'[h] = 1
       /\ \A r : r # h /\ r \in Handlers \cup {"default_handler"} => entered'[r] = entered[r]
  <2>1. Handlers \cup {"default_handler"} \subseteq DOMAIN Routines["vectored"]
    BY VectoredRoutines DEF Handlers
  <2> QED
    BY <1>2, <1>12, <2>1 DEF VEntered
<1>15. VPlace'
  BY <1>12, <1>13, <1>14 DEF VPlace, Handlers
<1>16. VEntered'
  BY <1>1, <1>2, <1>4, <1>5, <1>11, <1>13, <1>14 DEF VEntered, Handlers
<1>17. \A g \in Handlers : (g # h => entered'[g] = entered[g]) /\ (g = h => entered[g] = 0)
  BY <1>5, <1>14
<1>18. VDevices'
  <2>1. (elapsed \in BOOLEAN /\ (elapsed => mtime = Expiry))'
    BY <1>1, <1>2, <1>12, TicksAssumption DEF VDevices, Untouched
  <2>2. (ext \in BOOLEAN /\ (ext <=> Line >= 8 /\ ~Past("m_ext_handler", 2)))'
    BY <1>2, <1>4, <1>11, <1>12, <1>13, <1>17 DEF VDevices, Past, Handlers
  <2>3. (/\ msip = IF Line >= 7 /\ ~Past("m_sw_handler", 2) THEN 1 ELSE 0
         /\ mtimecmph = IF Line >= 2 /\ ~Past("m_timer_handler", 2) THEN 0 ELSE 255
         /\ mtimecmp = IF Line >= 3 THEN Expiry ELSE Expiry + 1)'
    BY <1>2, <1>4, <1>11, <1>12, <1>13, <1>17 DEF VDevices, Past, Handlers
  <2> QED
    BY <2>1, <2>2, <2>3 DEF VDevices
<1>19. VCsrs' /\ VFlag'
  BY <1>2, <1>4, <1>11, <1>12, <1>13, <1>17 DEF VCsrs, VFlag, Past, Handlers
<1>20. Untouched'
  BY <1>1, <1>12 DEF Untouched, PmpInit
<1> QED
  BY <1>15, <1>16, <1>18, <1>19, <1>20 DEF VInv

LEMMA VInit ==
  ASSUME Init, prog = "vectored"
  PROVE  VInv
<1>1. pc[1] = "main" /\ pc[2] = 1 /\ Line = 1
  BY DEF Init, Line
<1>2. /\ entered \in [DOMAIN Routines["vectored"] -> {0, 1}]
      /\ \A r \in Handlers \cup {"default_handler"} : entered[r] = 0
  BY VectoredRoutines DEF Init, Handlers
<1>3. VPlace
  BY <1>1 DEF Init, VPlace
<1>4. VEntered
  BY <1>1, <1>2 DEF VEntered, Handlers
<1>5. \A h \in Handlers, n \in 1 .. 3 : ~Past(h, n)
  BY <1>2 DEF Past
<1>6. VDevices
  <2>1. /\ msip = 0 /\ mtimecmph = 255 /\ mtimecmp = Expiry + 1
        /\ ext \in BOOLEAN /\ ~ext /\ elapsed \in BOOLEAN /\ ~elapsed
    BY DEF Init
  <2> QED
    BY <1>1, <2>1 DEF VDevices
<1>7. VCsrs /\ VFlag
  BY <1>1, <1>5 DEF Init, VCsrs, VFlag, Handlers
<1> QED
  BY <1>3, <1>4, <1>6, <1>7 DEF VInv

LEMMA VStep ==
  ASSUME VInv, Untouched, prog = "vectored", Next
  PROVE  VInv' /\ Untouched'
<1>1. pc[1] \in Handlers \cup {"main", "done"}
  BY DEF VInv, VPlace, Handlers
<1> QED
  BY <1>1, VMain, VHandler, VDone, VInterrupt

LEMMA VSafe ==
  ASSUME VInv, prog = "vectored"
  PROVE  /\ EachOnce /\ Passes
         /\ ReturnFromTrap /\ resume # <<"zero", 1>> => pc' = resume
<1>1. VPlace /\ VEntered /\ VFlag
  BY DEF VInv
<1>2. Passes
  BY <1>1 DEF Passes, Halted, VFlag
<1>3. \A r \in DOMAIN entered : entered[r] <= 1
  BY <1>1 DEF VEntered
<1>4. Halted => Line = 10
  BY DEF Halted, Line
<1>5. EachOnce
  BY <1>1, <1>3, <1>4 DEF EachOnce, VEntered
<1>6. ASSUME ReturnFromTrap, resume # <<"zero", 1>> PROVE pc' = resume
  BY <1>1, <1>6 DEF ReturnFromTrap, VPlace
<1> QED
  BY <1>2, <1>5, <1>6

-----------------------------------------------------------------------------
(* ex_after_int.c: an exception after an interrupt *)

LEMMA AfterRoutines ==
  Routines["ex_after_int"] =
    [main |-> ex_after_int_main, exception_handler |-> exception_handler,
     m_timer_handler |-> after_timer_handler,
     default_handler |-> after_default_handler, done |-> done]
BY DEF Routines

LEMMA AfterMain ==
  /\ ex_after_int_main[1] = Store(Mtimecmph, 0) /\ ex_after_int_main[2] = Store(Mtimecmp, Expiry)
  /\ ex_after_int_main[3] = Store(Flag, 4) /\ ex_after_int_main[4] = Csrw("mtvec", "vectored")
  /\ ex_after_int_main[5] = Csrw("mie", {"soft", "timer", "ext"})
  /\ ex_after_int_main[6] = Csrw("mstatus", {"mie"}) /\ ex_after_int_main[7] = Do("mtime")
  /\ ex_after_int_main[8] = Do("until") /\ ex_after_int_main[9] = Do("ecall")
  /\ ex_after_int_main[10] = Do("return")
BY DEF ex_after_int_main, SetFlag, Store, Return

LEMMA AfterHandlers ==
  /\ after_timer_handler[1] = Store(Magic, 0) /\ after_timer_handler[2] = Subtract(1)
  /\ after_timer_handler[3] = Store(Mtimecmph, 255) /\ after_timer_handler[4] = Mret
  /\ exception_handler[1] = Store(Magic, 0) /\ exception_handler[2] = Skip
  /\ exception_handler[3] = Subtract(2) /\ exception_handler[4] = Mret
BY DEF after_timer_handler, exception_handler, Message

LEMMA AfterCode ==
  ASSUME prog = "ex_after_int"
  PROVE  /\ \A k \in 1 .. 10 : pc = <<"main", k>> => Insn = ex_after_int_main[k]
         /\ \A k \in 1 .. 4 : pc = <<"m_timer_handler", k>> => Insn = after_timer_handler[k]
         /\ \A k \in 1 .. 4 : pc = <<"exception_handler", k>> => Insn = exception_handler[k]
         /\ \A k \in 1 .. 2 : pc = <<"done", k>> => Insn = done[k]
BY AfterRoutines DEF Insn

Catchers == {"m_timer_handler", "exception_handler"}

EPlace ==
  \/ pc \in {"main"} \X (1 .. 10) \cup {"done"} \X (1 .. 2)
       /\ resume = <<"zero", 1>> /\ mstatus = IF Line <= 6 THEN {"tw"} ELSE {"mie"}
  \/ pc \in {"m_timer_handler"} \X (1 .. 4)
       /\ mepc \in {"main"} \X (7 .. 9) /\ resume = mepc /\ mstatus = {"mpie", "mpp"}
  \/ pc \in {"exception_handler"} \X (1 .. 4)
       /\ mepc = <<"main", IF pc[2] <= 2 THEN 9 ELSE 10>>
       /\ resume = <<"main", 10>> /\ mstatus = {"mpie", "mpp"}

EEntered ==
  /\ entered \in [DOMAIN Routines[prog] -> {0, 1}] /\ entered["default_handler"] = 0
  /\ Line <= 6 => entered["m_timer_handler"] = 0
  /\ Line >= 9 \/ pc[1] = "m_timer_handler" => entered["m_timer_handler"] = 1
  /\ entered["exception_handler"] = IF Line = 10 \/ pc[1] = "exception_handler" THEN 1 ELSE 0

EDevices ==
  /\ msip = 0 /\ ext \in BOOLEAN /\ ~ext
  /\ mtimecmph = IF Line >= 2 /\ ~Past("m_timer_handler", 3) THEN 0 ELSE 255
  /\ mtimecmp = IF Line >= 3 THEN Expiry ELSE Expiry + 1
  /\ elapsed \in BOOLEAN /\ (elapsed => mtime = Expiry)

ECsrs ==
  /\ mtvec = IF Line <= 4 THEN "reset" ELSE "vectored"
  /\ mie = IF Line <= 5 THEN {} ELSE {"soft", "timer", "ext"}

EFlag ==
  /\ flag = IF Line <= 3 THEN 255
            ELSE 4 - (IF Past("m_timer_handler", 2) THEN 1 ELSE 0)
                   - (IF Past("exception_handler", 3) THEN 2 ELSE 0)
  /\ x28 \in Int /\ (pc = <<"done", 2>> => x28 = 1)

EInv == prog = "ex_after_int" => EPlace /\ EEntered /\ EDevices /\ ECsrs /\ EFlag

LEMMA EHarmless ==
  ASSUME EInv, Untouched, prog = "ex_after_int"
  PROVE  /\ pc # <<"main", 9>> => Cause = "none"
         /\ pc = <<"main", 9>> => Cause = "env_m"
<1>1. pc # <<"main", 9>> => Harmless(Insn)
  <2>1. CASE pc[1] = "main"
    BY <2>1, AfterCode, AfterMain, Places
       DEF EInv, EPlace, Harmless, Store, Csrw, Do
  <2>2. CASE pc[1] # "main"
    BY <2>2, AfterCode, AfterHandlers, Places
       DEF EInv, EPlace, Harmless, Store, Do, Mret, Skip, Subtract, done
  <2> QED
    BY <2>1, <2>2
<1>2. \A a : Free(a)
  BY DEF Free, Untouched, PmpInit, Locked
<1>3. ~Checked
  BY DEF Checked, Untouched, EInv, EPlace
<1>4. pc = <<"main", 9>> => Insn = Do("ecall")
  BY AfterCode, AfterMain
<1> QED
  BY <1>1, <1>2, <1>3, <1>4, NoCause, EcallCause DEF Untouched

\* No interrupt is pending before main sets mie, nor once the timer is served.
LEMMA EQuiet ==
  ASSUME EInv, Untouched, prog = "ex_after_int", InterruptFired
  PROVE  /\ pc \in {"main"} \X (7 .. 8) /\ mstatus = {"mie"}
         /\ IntSrc = "timer" /\ entered["m_timer_handler"] = 0
<1>1. EPlace /\ EEntered /\ EDevices /\ ECsrs
  BY DEF EInv
<1>2. "mie" \in mstatus /\ mie \cap Lines # {}
  BY DEF InterruptFired
<1>3. mtimecmph = 0 /\ IntSrc = "timer"
  BY <1>1, <1>2 DEF EDevices, Lines, IntSrc
<1>4. ~Past("m_timer_handler", 3)
  BY <1>1, <1>3 DEF EDevices
<1>5. pc \in {"main"} \X (1 .. 10) \cup {"done"} \X (1 .. 2)
      /\ mstatus = (IF Line <= 6 THEN {"tw"} ELSE {"mie"})
  BY <1>1, <1>2 DEF EPlace
<1>6. entered["m_timer_handler"] # 1
  BY <1>4, <1>5 DEF Past
<1>7. Line < 9 /\ Line > 6
  BY <1>1, <1>2, <1>5, <1>6 DEF EEntered, Line
<1>8. pc \in {"main"} \X (7 .. 8)
  BY <1>5, <1>7 DEF Line
<1>9. entered["m_timer_handler"] \in {0, 1}
  BY <1>1, AfterRoutines DEF EEntered
<1> QED
  BY <1>2, <1>3, <1>5, <1>6, <1>8, <1>9

\* A step of main that is no trap.
LEMMA EMain ==
  ASSUME EInv, Untouched, prog = "ex_after_int", Next, ~InterruptFired,
         pc[1] = "main", pc[2] # 9
  PROVE  EInv' /\ Untouched'
<1>0. mtime \in Int
  BY TicksAssumption DEF Untouched
<1>1. Cause = "none" /\ prog' = "ex_after_int" /\ mtime' \in 0 .. Expiry /\ mtime' >= mtime
  BY EHarmless, TimeMoves, ProgStays DEF Untouched
<1>2. EPlace /\ EEntered /\ EDevices /\ ECsrs /\ EFlag
  BY DEF EInv
<1>3. PICK k \in 1 .. 10 : pc = <<"main", k>> /\ k # 9
  BY <1>2 DEF EPlace
<1>4. Insn = ex_after_int_main[k]
  BY <1>3, AfterCode
<1>5. Line = k /\ pc[1] = "main" /\ pc[2] = k
  BY <1>3 DEF Line
<1>6. Catchers \subseteq DOMAIN Routines["ex_after_int"]
  BY AfterRoutines DEF Catchers
<1>7. k = 8 /\ elapsed => entered["m_timer_handler"] = 1
  <2>1. CASE k = 8
    <3>1. mie \cap Lines = {}
      BY <1>2, <1>5, <2>1 DEF InterruptFired, EPlace
    <3>2. ~(mtimecmph = 0 /\ mtimecmp <= mtime)
      BY <1>2, <1>5, <2>1, <3>1 DEF Lines, ECsrs
    <3> QED
      BY <3>2, <1>2, <1>5, <2>1, TicksAssumption DEF EDevices, Past
  <2> QED
    BY <2>1
<1>8. /\ mtimecmp' = IF k = 2 THEN Expiry ELSE mtimecmp
      /\ mtimecmph' = IF k = 1 THEN 0 ELSE mtimecmph
      /\ flag' = IF k = 3 THEN 4 ELSE flag
      /\ msip' = msip /\ ext' \in BOOLEAN /\ ~ext'
      /\ mtvec' = IF k = 4 THEN "vectored" ELSE mtvec
      /\ mie' = IF k = 5 THEN {"soft", "timer", "ext"} ELSE mie
      /\ mstatus' = IF k = 6 THEN {"mie"} ELSE mstatus
      /\ elapsed' \in BOOLEAN /\ (elapsed' => IF k = 7 THEN mtime >= Expiry ELSE elapsed)
      /\ pc' = IF k = 10 THEN <<"done", 1>>
               ELSE <<"main", IF k = 8 /\ ~elapsed THEN 7 ELSE k + 1>>
      /\ x28' = x28 /\ mode' = mode
      /\ entered' = entered /\ resume' = resume /\ pmpcfg' = pmpcfg /\ pmpaddr' = pmpaddr
  <2>0. ext \in BOOLEAN /\ ~ext /\ elapsed \in BOOLEAN
    BY <1>2 DEF EDevices
  <2>1. CASE k \in {1, 2, 3}
    <3>1. /\ k = 1 => Insn = Store(Mtimecmph, 0)
          /\ k = 2 => Insn = Store(Mtimecmp, Expiry)
          /\ k = 3 => Insn = Store(Flag, 4)
      BY <1>4, AfterMain
    <3>2. PICK a, v : /\ Insn = Store(a, v)
                      /\ (a = Mtimecmph <=> k = 1) /\ (a = Mtimecmp <=> k = 2)
                      /\ (a = Flag <=> k = 3) /\ a # Msip /\ a # ExtSet
                      /\ v = IF k = 1 THEN 0 ELSE IF k = 2 THEN Expiry ELSE 4
      BY <2>1, <3>1, Places, SMT
    <3>3. /\ flag' = IF a = Flag THEN v ELSE flag
          /\ mtimecmp' = IF a = Mtimecmp THEN v ELSE mtimecmp
          /\ mtimecmph' = IF a = Mtimecmph THEN v ELSE mtimecmph
          /\ msip' = IF a = Msip THEN v ELSE msip
          /\ pc' = <<pc[1], pc[2] + 1>>
          /\ UNCHANGED <<x28, csrs, elapsed, history, pmp>>
      BY <1>1, <3>2, Stored
    <3>4. ext' = (a = ExtSet \/ (ext /\ a # ExtClear))
      BY <1>1, <3>2, Stored, Zenon
    <3>5. ext' \in BOOLEAN /\ ~ext'
      BY <2>0, <3>2, <3>4, Zenon
    <3> QED
      BY <1>3, <2>0, <2>1, <3>2, <3>3, <3>5 DEF csrs, history, pmp
  <2>2. CASE k \in {4, 5, 6}
    <3>1. /\ k = 4 => Insn = Csrw("mtvec", "vectored")
          /\ k = 5 => Insn = Csrw("mie", {"soft", "timer", "ext"})
          /\ k = 6 => Insn = Csrw("mstatus", {"mie"})
      BY <1>4, AfterMain
    <3> QED
      BY <1>1, <1>3, <2>0, <2>2, <3>1, CsrWritten DEF CsrNames, device, history, pmp
  <2>3. CASE k \in {7, 8, 10}
    <3>1. /\ k = 7 => Insn = Do("mtime")
          /\ k = 8 => Insn = Do("until")
          /\ k = 10 => Insn = Do("return")
      BY <1>4, AfterMain
    <3>2. /\ k # 7 => elapsed' = elapsed
          /\ k = 7 => elapsed' \in BOOLEAN /\ (elapsed' => mtime >= Expiry)
      BY <1>0, <1>1, <2>3, <3>1, Done
    <3>3. /\ k = 10 => pc' = <<"done", 1>>
          /\ k = 8 /\ ~elapsed => pc' = <<pc[1], pc[2] - 1>>
          /\ k = 7 \/ (k = 8 /\ elapsed) => pc' = <<pc[1], pc[2] + 1>>
      BY <1>0, <1>1, <2>3, <3>1, Done
    <3>4. UNCHANGED <<x28, csrs, flag, device, history, pmp>>
      BY <1>0, <1>1, <2>3, <3>1, Done
    <3> QED
      BY <1>3, <2>0, <2>3, <3>2, <3>3, <3>4 DEF csrs, device, history, pmp
  <2> QED
    BY <1>3, <2>1, <2>2, <2>3
<1>9. /\ pc'[1] = IF k = 10 THEN "done" ELSE "main"
      /\ Line' = IF k = 10 THEN 10 ELSE IF k = 8 /\ ~elapsed THEN 7 ELSE k + 1
  BY <1>8 DEF Line
<1>10. EPlace'
  BY <1>2, <1>3, <1>5, <1>8, <1>9 DEF EPlace
<1>11. EEntered'
  BY <1>1, <1>2, <1>3, <1>5, <1>7, <1>8, <1>9 DEF EEntered
<1>12. EDevices'
  <2>1. (elapsed \in BOOLEAN /\ (elapsed => mtime = Expiry))'
    BY <1>1, <1>2, <1>8, TicksAssumption DEF EDevices, Untouched
  <2>2. (/\ mtimecmph = IF Line >= 2 /\ ~Past("m_timer_handler", 3) THEN 0 ELSE 255
         /\ mtimecmp = IF Line >= 3 THEN Expiry ELSE Expiry + 1)'
    BY <1>2, <1>3, <1>5, <1>8, <1>9 DEF EDevices, EEntered, Past
  <2> QED
    BY <1>2, <1>8, <2>1, <2>2 DEF EDevices
<1>13. ECsrs' /\ EFlag'
  BY <1>1, <1>2, <1>3, <1>5, <1>8, <1>9 DEF ECsrs, EEntered, EFlag, Past
<1>14. Untouched'
  BY <1>1, <1>8 DEF Untouched, PmpInit
<1> QED
  BY <1>10, <1>11, <1>12, <1>13, <1>14 DEF EInv

\* A step of a handler.  What traps in main is behind it once mepc is raised.
LEMMA EHandler ==
  ASSUME EInv, Untouched, prog = "ex_after_int", Next, pc[1] \in Catchers
  PROVE  EInv' /\ Untouched'
<1>1. prog' = "ex_after_int" /\ mtime' \in 0 .. Expiry /\ mtime' >= mtime
  BY TimeMoves, ProgStays DEF Untouched
<1>2. EPlace /\ EEntered /\ EDevices /\ ECsrs /\ EFlag
  BY DEF EInv
<1>3. PICK h \in Catchers, k \in 1 .. 4 : pc = <<h, k>>
  BY <1>2 DEF EPlace, Catchers
<1>4. /\ mstatus = {"mpie", "mpp"} /\ entered[h] = 1 /\ pc[1] = h /\ pc[2] = k
      /\ h = "m_timer_handler" => mepc \in {"main"} \X (7 .. 9) /\ resume = mepc
      /\ h = "exception_handler" => mepc = <<"main", IF k <= 2 THEN 9 ELSE 10>>
                                    /\ resume = <<"main", 10>>
  BY <1>2, <1>3 DEF EPlace, EEntered, Catchers
<1>5. ~InterruptFired /\ Cause = "none"
  BY <1>3, <1>4, EHarmless DEF InterruptFired, Catchers
<1>6. /\ h = "m_timer_handler" => Insn = after_timer_handler[k]
      /\ h = "exception_handler" => Insn = exception_handler[k]
  BY <1>3, AfterCode
<1>7. Line = mepc[2] /\ Line \in 7 .. 10 /\ mepc[1] = "main"
  BY <1>3, <1>4 DEF Line, Catchers
<1>8. /\ flag' = flag - (IF k = 2 /\ h = "m_timer_handler" THEN 1
                         ELSE IF k = 3 /\ h = "exception_handler" THEN 2 ELSE 0)
      /\ mtimecmph' = IF k = 3 /\ h = "m_timer_handler" THEN 255 ELSE mtimecmph
      /\ mepc' = IF k = 2 /\ h = "exception_handler" THEN <<"main", 10>> ELSE mepc
      /\ IF k = 4 THEN pc' = mepc /\ mstatus' = {"mie"} /\ resume' = <<"zero", 1>>
         ELSE pc' = <<h, k + 1>> /\ mstatus' = mstatus /\ resume' = resume
      /\ msip' = msip /\ ext' \in BOOLEAN /\ ~ext' /\ mie' = mie /\ mtvec' = mtvec
      /\ mtimecmp' = mtimecmp /\ elapsed' = elapsed
      /\ x28' = x28 /\ mode' = "M" /\ entered' = entered
      /\ pmpcfg' = pmpcfg /\ pmpaddr' = pmpaddr
  <2>0. ext \in BOOLEAN /\ ~ext /\ flag \in Int /\ mode = "M"
    BY <1>2 DEF EDevices, EFlag, Untouched
  <2>1. CASE k = 1 \/ (k = 3 /\ h = "m_timer_handler")
    <3>1. PICK a, v : /\ Insn = Store(a, v) /\ (a = Mtimecmph <=> k = 3)
                      /\ a # Flag /\ a # ExtSet /\ a # Mtimecmp /\ a # Msip
                      /\ (k = 3 => v = 255)
      BY <1>6, <2>1, AfterHandlers, Places, SMT DEF Catchers
    <3>2. /\ flag' = flag
          /\ mtimecmp' = IF a = Mtimecmp THEN v ELSE mtimecmp
          /\ mtimecmph' = IF a = Mtimecmph THEN v ELSE mtimecmph
          /\ msip' = IF a = Msip THEN v ELSE msip
          /\ pc' = <<pc[1], pc[2] + 1>>
          /\ UNCHANGED <<x28, csrs, elapsed, history, pmp>>
      BY <1>5, <3>1, Stored
    <3>3. ext' = (a = ExtSet \/ (ext /\ a # ExtClear))
      <4>1. Insn = Store(a, v) /\ Cause = "none" /\ ~InterruptFired
        BY <1>5, <3>1
      <4> QED
        BY <4>1, Stored, Zenon
    <3>4. ext' \in BOOLEAN /\ ~ext'
      BY <2>0, <3>1, <3>3, Zenon
    <3> QED
      BY <1>3, <2>0, <2>1, <3>1, <3>2, <3>4 DEF csrs, history, pmp
  <2>2. CASE (k = 2 /\ h = "m_timer_handler") \/ (k = 3 /\ h = "exception_handler")
    <3>1. PICK n \in Int : Insn = Subtract(n) /\ n = IF k = 2 THEN 1 ELSE 2
      BY <1>6, <2>2, AfterHandlers DEF Catchers
    <3> QED
      BY <1>3, <1>5, <2>0, <2>2, <3>1, Subtracted DEF csrs, device, history, pmp, Catchers
  <2>3. CASE k = 2 /\ h = "exception_handler"
    <3>1. Insn = Skip
      BY <1>6, <2>3, AfterHandlers
    <3> QED
      BY <1>3, <1>4, <1>5, <2>0, <2>3, <3>1, Skipped DEF device, history, pmp
  <2>4. CASE k = 4
    <3>1. Insn = Mret
      BY <1>6, <2>4, AfterHandlers DEF Catchers
    <3> QED
      BY <1>4, <1>5, <2>0, <2>4, <3>1, Returned DEF device, pmp
  <2> QED
    BY <1>3, <2>1, <2>2, <2>3, <2>4 DEF Catchers
<1>9. /\ Line' = (IF k = 2 /\ h = "exception_handler" THEN 10 ELSE Line)
      /\ pc'[1] = (IF k = 4 THEN "main" ELSE h)
      /\ pc'[2] = IF k = 4 THEN Line ELSE k + 1
  BY <1>3, <1>4, <1>7, <1>8 DEF Line, Catchers
<1>10. EPlace'
  BY <1>3, <1>4, <1>7, <1>8, <1>9 DEF EPlace, Catchers
<1>11. EEntered'
  BY <1>1, <1>2, <1>3, <1>4, <1>7, <1>8, <1>9 DEF EEntered, Catchers
<1>12. /\ Past("m_timer_handler", 2)' <=> (IF h = "m_timer_handler" THEN k >= 2
                                          ELSE entered["m_timer_handler"] = 1)
       /\ Past("m_timer_handler", 3)' <=> (IF h = "m_timer_handler" THEN k >= 3
                                          ELSE entered["m_timer_handler"] = 1)
       /\ Past("exception_handler", 3)' <=> h = "exception_handler" /\ k >= 3
  <2>1. h = "m_timer_handler" => entered["exception_handler"] = 0
    BY <1>2, <1>3, <1>4, <1>7 DEF EEntered
  <2> QED
    BY <1>3, <1>4, <1>8, <1>9, <2>1 DEF Past, Catchers
<1>13. /\ Past("m_timer_handler", 2) <=> (IF h = "m_timer_handler" THEN k > 2
                                         ELSE entered["m_timer_handler"] = 1)
       /\ Past("m_timer_handler", 3) <=> (IF h = "m_timer_handler" THEN k > 3
                                         ELSE entered["m_timer_handler"] = 1)
       /\ Past("exception_handler", 3) <=> h = "exception_handler" /\ k > 3
  <2>1. h = "m_timer_handler" => entered["exception_handler"] = 0
    BY <1>2, <1>3, <1>4, <1>7 DEF EEntered
  <2> QED
    BY <1>3, <1>4, <2>1 DEF Past, Catchers
<1>14. EDevices'
  <2>1. (elapsed \in BOOLEAN /\ (elapsed => mtime = Expiry))'
    BY <1>1, <1>2, <1>8, TicksAssumption DEF EDevices, Untouched
  <2>2. (/\ mtimecmph = IF Line >= 2 /\ ~Past("m_timer_handler", 3) THEN 0 ELSE 255
         /\ mtimecmp = IF Line >= 3 THEN Expiry ELSE Expiry + 1)'
    BY <1>2, <1>3, <1>4, <1>7, <1>8, <1>9, <1>12, <1>13 DEF EDevices, Catchers
  <2> QED
    BY <1>2, <1>8, <2>1, <2>2 DEF EDevices
<1>15. ECsrs' /\ EFlag'
  BY <1>2, <1>3, <1>4, <1>7, <1>8, <1>9, <1>12, <1>13 DEF ECsrs, EFlag, Catchers
<1>16. Untouched'
  BY <1>1, <1>8 DEF Untouched, PmpInit
<1> QED
  BY <1>10, <1>11, <1>14, <1>15, <1>16 DEF EInv

LEMMA EDone ==
  ASSUME EInv, Untouched, prog = "ex_after_int", Next, pc[1] = "done"
  PROVE  EInv' /\ Untouched'
<1>1. prog' = "ex_after_int" /\ mtime' \in 0 .. Expiry /\ mtime' >= mtime
  BY TimeMoves, ProgStays DEF Untouched
<1>2. EPlace /\ EEntered /\ EDevices /\ ECsrs /\ EFlag
  BY DEF EInv
<1>3. PICK k \in 1 .. 2 : pc = <<"done", k>>
  BY <1>2 DEF EPlace
<1>4. Line = 10 /\ pc[1] = "done" /\ pc[2] = k
  BY <1>3 DEF Line
<1>5. entered["m_timer_handler"] = 1 /\ entered["exception_handler"] = 1
  BY <1>2, <1>4 DEF EEntered
<1>6. mtimecmph = 255 /\ flag = 1
  BY <1>2, <1>4, <1>5 DEF EDevices, EFlag, Past
<1>7. ~InterruptFired /\ Cause = "none"
  BY <1>3, EQuiet, EHarmless
<1>8. /\ k = 1 => Insn = Do("x28")
      /\ k = 2 => Insn = Do("loop")
  BY <1>3, AfterCode DEF done
<1>9. mtime \in Int
  BY TicksAssumption DEF Untouched
<1>10. /\ UNCHANGED <<csrs, flag, elapsed, device, history, pmp>>
       /\ k = 1 => x28' = flag /\ pc' = <<pc[1], pc[2] + 1>>
       /\ k = 2 => x28' = x28 /\ pc' = pc
  BY <1>3, <1>7, <1>8, <1>9, Done
<1>11. /\ mode' = mode /\ mstatus' = mstatus /\ mie' = mie /\ mtvec' = mtvec /\ mepc' = mepc
       /\ mtimecmp' = mtimecmp /\ mtimecmph' = mtimecmph /\ msip' = msip /\ ext' = ext
       /\ entered' = entered /\ resume' = resume /\ elapsed' = elapsed /\ flag' = flag
       /\ pmpcfg' = pmpcfg /\ pmpaddr' = pmpaddr
  BY <1>10 DEF csrs, device, history, pmp
<1>12. pc' = <<"done", 2>> /\ pc'[1] = "done" /\ pc'[2] = 2 /\ Line' = 10
       /\ x28' \in Int /\ x28' = 1
  BY <1>2, <1>3, <1>6, <1>10 DEF Line, EFlag
<1>13. EPlace' /\ EEntered'
  BY <1>1, <1>2, <1>4, <1>11, <1>12 DEF EPlace, EEntered
<1>14. EDevices'
  <2>1. (elapsed \in BOOLEAN /\ (elapsed => mtime = Expiry))'
    BY <1>1, <1>2, <1>11, TicksAssumption DEF EDevices, Untouched
  <2>2. (ext \in BOOLEAN /\ ~ext)'
    BY <1>2, <1>11 DEF EDevices
  <2> QED
    BY <1>2, <1>4, <1>5, <1>11, <1>12, <2>1, <2>2 DEF EDevices, Past
<1>15. ECsrs'
  BY <1>2, <1>4, <1>11, <1>12 DEF ECsrs
<1>16. EFlag'
  BY <1>5, <1>6, <1>11, <1>12 DEF EFlag, Past
<1>17. Untouched'
  BY <1>1, <1>11 DEF Untouched, PmpInit
<1> QED
  BY <1>13, <1>14, <1>15, <1>16, <1>17 DEF EInv

\* A trap from machine mode with interrupts enabled, and where it goes.
LEMMA Trapped ==
  ASSUME NEW c, NEW h \in DOMAIN entered, NEW epc, Trap(c, h, epc),
         mode = "M", mstatus = {"mie"}, entered[h] = 0
  PROVE  /\ mode' = "M" /\ mstatus' = {"mpie", "mpp"} /\ mepc' = epc /\ pc' = <<h, 1>>
         /\ entered' = [entered EXCEPT ![h] = 1]
         /\ mie' = mie /\ mtvec' = mtvec /\ flag' = flag /\ elapsed' = elapsed /\ x28' = x28
         /\ mtimecmp' = mtimecmp /\ mtimecmph' = mtimecmph /\ msip' = msip /\ ext' = ext
         /\ pmpcfg' = pmpcfg /\ pmpaddr' = pmpaddr
BY DEF Trap, Goto, device, pmp

\* A trap of ex_after_int: the timer's interrupt in the loop, or the ecall.
LEMMA ETrap ==
  ASSUME EInv, Untouched, prog = "ex_after_int", Next,
         NEW h \in Catchers, NEW n \in 7 .. 9, NEW c,
         Trap(c, h, <<"main", n>>), entered[h] = 0, mstatus = {"mie"},
         pc[1] = "main", pc[2] \in 7 .. 9,
         pc[2] = n \/ (pc[2] = 8 /\ n = 9),
         h = "m_timer_handler" => pc[2] <= 8 /\ resume' = <<"main", n>>,
         h = "exception_handler" => pc[2] = 9 /\ resume' = <<"main", 10>>
  PROVE  EInv' /\ Untouched'
<1>1. prog' = "ex_after_int" /\ mtime' \in 0 .. Expiry /\ mtime' >= mtime
  BY TimeMoves, ProgStays DEF Untouched
<1>2. EPlace /\ EEntered /\ EDevices /\ ECsrs /\ EFlag
  BY DEF EInv
<1>3. Catchers \cup {"default_handler"} \subseteq DOMAIN Routines["ex_after_int"]
  BY AfterRoutines DEF Catchers
<1>4. entered \in [DOMAIN Routines["ex_after_int"] -> {0, 1}] /\ h \in DOMAIN entered
  BY <1>2, <1>3 DEF EEntered
<1>5. /\ mode' = "M" /\ mstatus' = {"mpie", "mpp"} /\ mepc' = <<"main", n>> /\ pc' = <<h, 1>>
      /\ entered' = [entered EXCEPT ![h] = 1]
      /\ mie' = mie /\ mtvec' = mtvec /\ flag' = flag /\ elapsed' = elapsed /\ x28' = x28
      /\ mtimecmp' = mtimecmp /\ mtimecmph' = mtimecmph /\ msip' = msip /\ ext' = ext
      /\ pmpcfg' = pmpcfg /\ pmpaddr' = pmpaddr
  BY <1>4, Trapped DEF Untouched
<1>6. pc'[1] = h /\ pc'[2] = 1 /\ Line' = n /\ Line = pc[2]
  BY <1>5 DEF Line, Catchers
<1>7. entered' \in [DOMAIN Routines["ex_after_int"] -> {0, 1}] /\ entered'[h] = 1
      /\ \A r \in Catchers \cup {"default_handler"} : r # h => entered'[r] = entered[r]
  BY <1>3, <1>4, <1>5
<1>8. EPlace'
  BY <1>5, <1>6 DEF EPlace, Catchers
<1>9. EEntered'
  BY <1>1, <1>2, <1>6, <1>7 DEF EEntered, Catchers
<1>10. EDevices'
  <2>1. (elapsed \in BOOLEAN /\ (elapsed => mtime = Expiry))'
    BY <1>1, <1>2, <1>5, TicksAssumption DEF EDevices, Untouched
  <2>2. (ext \in BOOLEAN /\ ~ext)'
    BY <1>2, <1>5 DEF EDevices
  <2>3. (mtimecmph = IF Line >= 2 /\ ~Past("m_timer_handler", 3) THEN 0 ELSE 255)'
    BY <1>2, <1>5, <1>6, <1>7 DEF EDevices, Past, Catchers
  <2> QED
    BY <1>2, <1>5, <1>6, <2>1, <2>2, <2>3 DEF EDevices
<1>11. ECsrs' /\ EFlag'
  BY <1>2, <1>5, <1>6, <1>7 DEF ECsrs, EFlag, Past, Catchers
<1>12. Untouched'
  BY <1>1, <1>5 DEF Untouched, PmpInit
<1> QED
  BY <1>8, <1>9, <1>10, <1>11, <1>12 DEF EInv

LEMMA AfterDispatched ==
  /\ after_dispatch["timer"] = "m_timer_handler"
  /\ after_dispatch["exception"] = "exception_handler"
BY DEF after_dispatch

LEMMA EInterrupt ==
  ASSUME EInv, Untouched, prog = "ex_after_int", Next, InterruptFired
  PROVE  EInv' /\ Untouched'
<1>1. /\ pc \in {"main"} \X (7 .. 8) /\ mstatus = {"mie"}
      /\ IntSrc = "timer" /\ entered["m_timer_handler"] = 0
  BY EQuiet
<1>2. PICK k \in 7 .. 8 : pc = <<"main", k>>
  BY <1>1
<1>3. Line = k /\ pc[1] = "main" /\ pc[2] = k /\ Insn = ex_after_int_main[k]
  BY <1>2, AfterCode DEF Line
<1>4. Dispatch(IntSrc) = "m_timer_handler"
  BY <1>1, <1>3, AfterDispatched DEF Dispatch, EInv, ECsrs
<1>5. Insn.op = "until" => k = 8
  BY <1>3, AfterMain DEF Do
<1>6. Cause = "none"
  BY <1>2, EHarmless
<1>7. Interrupt
  BY <1>6, StepTraps DEF Exception
<1>8. PICK n \in 7 .. 9 : /\ Trap(IntSrc, "m_timer_handler", <<"main", n>>)
                          /\ resume' = <<"main", n>> /\ (n = k \/ (k = 8 /\ n = 9))
  BY <1>2, <1>3, <1>4, <1>5, <1>7 DEF Interrupt, Next1
<1> QED
  BY <1>1, <1>3, <1>8, ETrap DEF Catchers

LEMMA EException ==
  ASSUME EInv, Untouched, prog = "ex_after_int", Next, pc = <<"main", 9>>
  PROVE  EInv' /\ Untouched'
<1>1. Cause = "env_m" /\ ~InterruptFired
  BY EHarmless, EQuiet
<1>2. Line = 9 /\ pc[1] = "main" /\ pc[2] = 9
  BY DEF Line
<1>3. mtvec = "vectored" /\ mstatus = {"mie"} /\ entered["exception_handler"] = 0
  BY <1>2 DEF EInv, ECsrs, EPlace, EEntered
<1>4. Dispatch("exception") = "exception_handler"
  BY <1>3, AfterDispatched DEF Dispatch
<1>5. Exception
  BY <1>1, StepTraps DEF Interrupt
<1>6. Trap(Cause, "exception_handler", <<"main", 9>>) /\ resume' = <<"main", 10>>
  BY <1>1, <1>2, <1>4, <1>5 DEF Exception, Next1
<1> QED
  BY <1>2, <1>3, <1>6, ETrap DEF Catchers

LEMMA EInit ==
  ASSUME Init, prog = "ex_after_int"
  PROVE  EInv
<1>1. pc[1] = "main" /\ pc[2] = 1 /\ Line = 1
  BY DEF Init, Line
<1>2. /\ entered \in [DOMAIN Routines["ex_after_int"] -> {0, 1}]
      /\ \A r \in Catchers \cup {"default_handler"} : entered[r] = 0
  BY AfterRoutines DEF Init, Catchers
<1>3. EPlace
  BY <1>1 DEF Init, EPlace
<1>4. EEntered
  BY <1>1, <1>2 DEF EEntered, Catchers
<1>5. EDevices
  <2>1. /\ msip = 0 /\ mtimecmph = 255 /\ mtimecmp = Expiry + 1
        /\ ext \in BOOLEAN /\ ~ext /\ elapsed \in BOOLEAN /\ ~elapsed
    BY DEF Init
  <2> QED
    BY <1>1, <2>1 DEF EDevices
<1>6. ECsrs /\ EFlag
  BY <1>1 DEF Init, ECsrs, EFlag
<1> QED
  BY <1>3, <1>4, <1>5, <1>6 DEF EInv

LEMMA EStep ==
  ASSUME EInv, Untouched, prog = "ex_after_int", Next
  PROVE  EInv' /\ Untouched'
<1>1. pc[1] \in Catchers \cup {"main", "done"} /\ pc = <<pc[1], pc[2]>>
  BY DEF EInv, EPlace, Catchers
<1>2. CASE pc[1] = "main" /\ pc[2] # 9
  BY <1>2, EMain, EInterrupt
<1>3. CASE pc[1] = "main" /\ pc[2] = 9
  BY <1>1, <1>3, EException
<1> QED
  BY <1>1, <1>2, <1>3, EHandler, EDone

LEMMA ESafe ==
  ASSUME EInv, prog = "ex_after_int"
  PROVE  /\ EachOnce /\ Passes
         /\ ReturnFromTrap /\ resume # <<"zero", 1>> => pc' = resume
<1>1. EPlace /\ EEntered /\ EFlag
  BY DEF EInv
<1>2. Passes
  BY <1>1 DEF Passes, Halted, EFlag
<1>3. \A r \in DOMAIN entered : entered[r] <= 1
  BY <1>1 DEF EEntered
<1>4. Halted => Line = 10
  BY DEF Halted, Line
<1>5. EachOnce
  BY <1>1, <1>3, <1>4 DEF EachOnce, EEntered
<1>6. ASSUME ReturnFromTrap, resume # <<"zero", 1>> PROVE pc' = resume
  <2>1. pc[1] # "exception_handler" => mepc = resume
    BY <1>1, <1>6 DEF EPlace
  <2>2. pc[1] = "exception_handler" => pc[2] = 4
    BY <1>1, <1>6, AfterCode, AfterHandlers DEF EPlace, ReturnFromTrap, Skip, Store, Subtract, Do
  <2> QED
    BY <1>1, <1>6, <2>1, <2>2 DEF EPlace, ReturnFromTrap
<1> QED
  BY <1>2, <1>5, <1>6

-----------------------------------------------------------------------------
(* The theorems about the programs with the timer *)

TInv == Timed => VInv /\ EInv /\ Untouched

LEMMA TInit ==
  ASSUME Init
  PROVE  TInv
<1>1. Untouched
  BY TicksAssumption DEF Init, Untouched
<1>2. VInv /\ EInv
  BY VInit, EInit DEF VInv, EInv
<1> QED
  BY <1>1, <1>2 DEF TInv

LEMMA TStep ==
  ASSUME TInv, [Next]_vars
  PROVE  TInv'
<1>1. CASE Next
  <2>1. prog' = prog
    BY <1>1, ProgStays
  <2>2. CASE prog = "vectored"
    <3>1. VInv' /\ Untouched'
      BY <1>1, <2>2, VStep DEF TInv, Timed
    <3> QED
      BY <2>1, <2>2, <3>1 DEF TInv, EInv
  <2>3. CASE prog = "ex_after_int"
    <3>1. EInv' /\ Untouched'
      BY <1>1, <2>3, EStep DEF TInv, Timed
    <3> QED
      BY <2>1, <2>3, <3>1 DEF TInv, VInv
  <2> QED
    BY <2>1, <2>2, <2>3 DEF TInv, Timed
<1>2. CASE UNCHANGED vars
  <2>1. /\ prog' = prog /\ pc' = pc /\ x28' = x28 /\ flag' = flag /\ elapsed' = elapsed
        /\ mtime' = mtime /\ UNCHANGED csrs /\ UNCHANGED device /\ UNCHANGED history
        /\ UNCHANGED pmp
    BY <1>2 DEF vars
  <2>2. /\ mode' = mode /\ mstatus' = mstatus /\ mie' = mie /\ mtvec' = mtvec /\ mepc' = mepc
        /\ mtimecmp' = mtimecmp /\ mtimecmph' = mtimecmph /\ msip' = msip /\ ext' = ext
        /\ entered' = entered /\ resume' = resume /\ pmpcfg' = pmpcfg /\ pmpaddr' = pmpaddr
    BY <2>1 DEF csrs, device, history, pmp
  <2>3. Line' = Line /\ \A h, k : Past(h, k)' <=> Past(h, k)
    BY <2>1, <2>2 DEF Line, Past
  <2>4. VInv' <=> VInv
    BY <2>1, <2>2, <2>3 DEF VInv, VPlace, VEntered, VDevices, VCsrs, VFlag
  <2>5. EInv' <=> EInv
    BY <2>1, <2>2, <2>3 DEF EInv, EPlace, EEntered, EDevices, ECsrs, EFlag
  <2>6. Untouched' <=> Untouched
    BY <2>1, <2>2 DEF Untouched, PmpInit
  <2> QED
    BY <2>1, <2>4, <2>5, <2>6 DEF TInv, Timed
<1> QED
  BY <1>1, <1>2

LEMMA TInvHolds == Spec => []TInv
BY TInit, TStep, PTL DEF Spec

\* No line of a routine is left out or left behind, and the values are in range.
LEMMA TTypes ==
  ASSUME TInv, Timed
  PROVE  TypeOK
<1>1. CASE prog = "vectored"
  <2>1. VPlace /\ VEntered /\ VDevices /\ VCsrs /\ VFlag /\ Untouched
    BY <1>1 DEF TInv, VInv, Timed
  <2>2. /\ DOMAIN vectored_main = 1 .. 10 /\ DOMAIN m_ext_handler = 1 .. 4
        /\ DOMAIN m_timer_handler = 1 .. 3 /\ DOMAIN m_sw_handler = 1 .. 3 /\ DOMAIN done = 1 .. 2
    BY DEF vectored_main, m_ext_handler, m_timer_handler, m_sw_handler, done
  <2>3. pc[1] \in DOMAIN Routines[prog] /\ pc[2] \in DOMAIN Routines[prog][pc[1]]
    BY <1>1, <2>1, <2>2, VectoredRoutines DEF VPlace
  <2>4. /\ mstatus \subseteq {"mie", "mpie", "mpp", "mprv", "tw"} /\ mie \subseteq {"soft", "timer", "ext"}
        /\ mtvec \in {"reset", "direct", "vectored"} /\ flag \in Int /\ x28 \in Int
    BY <2>1 DEF VPlace, VCsrs, VFlag
  <2>5. elapsed \in BOOLEAN /\ ext \in BOOLEAN /\ mtimecmp \in Nat /\ mtimecmph \in Nat /\ msip \in Nat
    BY <2>1, TicksAssumption DEF VDevices
  <2>6. PmpTypeOK
    BY <2>1 DEF Untouched, PmpInit, PmpTypeOK, Entry, Bit, Reserved, W, R
  <2> QED
    BY <2>1, <2>3, <2>4, <2>5, <2>6 DEF TypeOK, Untouched
<1>2. CASE prog = "ex_after_int"
  <2>1. EPlace /\ EEntered /\ EDevices /\ ECsrs /\ EFlag /\ Untouched
    BY <1>2 DEF TInv, EInv, Timed
  <2>2. /\ DOMAIN ex_after_int_main = 1 .. 10 /\ DOMAIN exception_handler = 1 .. 4
        /\ DOMAIN after_timer_handler = 1 .. 4 /\ DOMAIN done = 1 .. 2
    BY DEF ex_after_int_main, exception_handler, after_timer_handler, done
  <2>3. pc[1] \in DOMAIN Routines[prog] /\ pc[2] \in DOMAIN Routines[prog][pc[1]]
    BY <1>2, <2>1, <2>2, AfterRoutines DEF EPlace
  <2>4. /\ mstatus \subseteq {"mie", "mpie", "mpp", "mprv", "tw"} /\ mie \subseteq {"soft", "timer", "ext"}
        /\ mtvec \in {"reset", "direct", "vectored"} /\ flag \in Int /\ x28 \in Int
    BY <2>1 DEF EPlace, ECsrs, EFlag
  <2>5. elapsed \in BOOLEAN /\ ext \in BOOLEAN /\ mtimecmp \in Nat /\ mtimecmph \in Nat /\ msip \in Nat
    BY <2>1, TicksAssumption DEF EDevices
  <2>6. PmpTypeOK
    BY <2>1 DEF Untouched, PmpInit, PmpTypeOK, Entry, Bit, Reserved, W, R
  <2> QED
    BY <2>1, <2>3, <2>4, <2>5, <2>6 DEF TypeOK, Untouched
<1> QED
  BY <1>1, <1>2 DEF Timed

LEMMA TSafe ==
  ASSUME TInv
  PROVE  /\ EachOnce
         /\ Timed => Passes
         /\ Timed => (ReturnFromTrap /\ resume # <<"zero", 1>> => pc' = resume)
<1>1. CASE Timed
  BY <1>1, VSafe, ESafe DEF TInv, Timed
<1>2. CASE ~Timed
  BY <1>2 DEF EachOnce
<1> QED
  BY <1>1, <1>2

\* However fast the timer runs and whenever it expires, each handler of vectored.c
\* and ex_after_int.c runs once, and before main ends (vectored.c:15).
THEOREM OncePerInterrupt == Spec => []EachOnce
BY TInvHolds, TSafe, PTL

-----------------------------------------------------------------------------
(* Memory protection under any of the programs *)

LEMMA ProgramWrites == [Next]_vars => Writes \/ UNCHANGED pmp
<1>1. WritePmpcfg => Writes
  BY Zenon DEF WritePmpcfg, Writes
<1>2. WritePmpaddr => Writes
  BY Zenon DEF WritePmpaddr, Writes
<1>3. AnyPmp => Writes
  BY NextWrites, Zenon DEF AnyPmp
<1>4. Exception \/ Interrupt => UNCHANGED pmp
  BY DEF Exception, Interrupt, Trap
<1>5. WriteCsr \/ Count \/ StoreWord \/ ReadMtime \/ Until \/ ReadCsr => UNCHANGED pmp
  BY DEF WriteCsr, Count, StoreWord, ReadMtime, Until, ReadCsr
<1>6. SkipInsn \/ FinishOrSkip \/ ReturnFromTrap \/ Finish \/ LoadResult \/ InfLoop => UNCHANGED pmp
  BY DEF SkipInsn, FinishOrSkip, ReturnFromTrap, Finish, LoadResult, InfLoop
<1>7. UNCHANGED vars => UNCHANGED pmp
  BY DEF vars
<1> QED
  BY <1>1, <1>2, <1>3, <1>4, <1>5, <1>6, <1>7, Ops DEF Next, Step

LEMMA DomainHolds == Spec => [](DOMAIN pmpaddr = Entry)
<1>1. Init => DOMAIN pmpaddr = Entry
  BY DEF Init, PmpInit
<1>2. DOMAIN pmpaddr = Entry /\ [Next]_vars => (DOMAIN pmpaddr = Entry)'
  BY ProgramWrites, DomainStep DEF pmp
<1> QED
  BY <1>1, <1>2, PTL DEF Spec

\* No program gets round a lock, not even the one that writes the registers at
\* random (pmp.sv:82,100).
THEOREM ProgramLocks == Spec => LockedKept
<1>1. DOMAIN pmpaddr = Entry /\ [Next]_vars =>
        [\A n \in Entry : Locked(n) =>
           /\ pmpcfg'[n] = pmpcfg[n] /\ pmpaddr'[n] = pmpaddr[n]
           /\ n = 1 /\ Mode(n) = TOR => pmpaddr'[0] = pmpaddr[0]]_pmp
  BY ProgramWrites, LockedStep, BaseStep DEF pmp
<1> QED
  BY <1>1, DomainHolds, PTL DEF Spec, LockedKept

\* ... nor changes what entries locked from 0 up decide (pmp.sv:153).
THEOREM ProgramPrefix == Spec => PrefixKept
<1>1. DOMAIN pmpaddr = Entry /\ [Next]_vars =>
        [\A n \in Entry : (\A m \in 0 .. n : Locked(m)) =>
           \A a \in WordAddr : Hit(n, a) => Hit(n, a)' /\ pmpcfg'[n] = pmpcfg[n]]_pmp
  BY ProgramWrites, PrefixStep DEF pmp
<1> QED
  BY <1>1, DomainHolds, PTL DEF Spec, PrefixKept

-----------------------------------------------------------------------------
(* The protection that the programs set up *)

\* Entries 0 to 3 of the registers; nothing is in the others.
CfgOf(c0, c1, c2, c3) ==
  [n \in Entry |-> IF n = 0 THEN c0 ELSE IF n = 1 THEN c1
                   ELSE IF n = 2 THEN c2 ELSE IF n = 3 THEN c3 ELSE {}]
AddrOf(a0, a1, a2, a3) ==
  [n \in Entry |-> IF n = 0 THEN a0 ELSE IF n = 1 THEN a1
                   ELSE IF n = 2 THEN a2 ELSE IF n = 3 THEN a3 ELSE 0]

Fine(c) == c \subseteq Bit /\ c \cap Reserved = {} /\ (W \in c => R \in c)

LEMMA FineTypes ==
  ASSUME NEW c0, NEW c1, NEW c2, NEW c3, pmpcfg = CfgOf(c0, c1, c2, c3),
         Fine(c0), Fine(c1), Fine(c2), Fine(c3),
         NEW a0 \in Nat, NEW a1 \in Nat, NEW a2 \in Nat, NEW a3 \in Nat, pmpaddr = AddrOf(a0, a1, a2, a3)
  PROVE  PmpTypeOK
BY DEF CfgOf, AddrOf, Fine, PmpTypeOK, Entry, W, R, Reserved, Bit

LEMMA ByteBits ==
  ASSUME NEW b \in Nat
  PROVE  /\ Byte(b) \subseteq Bit
         /\ \A i \in Bit : i \in Byte(b) <=>
              \/ i = 0 /\ b % 2 = 1
              \/ i = 1 /\ (b \div 2) % 2 = 1
              \/ i = 2 /\ (b \div 4) % 2 = 1
              \/ i = 3 /\ (b \div 8) % 2 = 1
              \/ i = 4 /\ (b \div 16) % 2 = 1
              \/ i = 5 /\ (b \div 32) % 2 = 1
              \/ i = 6 /\ (b \div 64) % 2 = 1
              \/ i = 7 /\ (b \div 128) % 2 = 1
<1>1. b \div 1 = b
  OBVIOUS
<1> QED
  BY <1>1, PowersOfTwo DEF Byte, Bit

\* The bytes of the constants that programs write.
LEMMA Bytes ==
  /\ Byte(0) = {} /\ Byte(8) = {3} /\ Byte(16) = {4} /\ Byte(17) = {0, 4} /\ Byte(24) = {3, 4}
  /\ Byte(31) = {0, 1, 2, 3, 4} /\ Byte(128) = {7} /\ Byte(144) = {4, 7} /\ Byte(152) = {3, 4, 7}
<1>1. Byte(0) = {}
  BY ByteBits DEF Bit
<1>2. Byte(8) = {3}
  BY ByteBits DEF Bit
<1>3. Byte(16) = {4}
  BY ByteBits DEF Bit
<1>4. Byte(17) = {0, 4}
  BY ByteBits DEF Bit
<1>5. Byte(24) = {3, 4}
  BY ByteBits DEF Bit
<1>6. Byte(31) = {0, 1, 2, 3, 4}
  BY ByteBits DEF Bit
<1>7. Byte(128) = {7}
  BY ByteBits DEF Bit
<1>8. Byte(144) = {4, 7}
  BY ByteBits DEF Bit
<1>9. Byte(152) = {3, 4, 7}
  BY ByteBits DEF Bit
<1> QED
  BY <1>1, <1>2, <1>3, <1>4, <1>5, <1>6, <1>7, <1>8, <1>9

LEMMA Regions ==
  /\ ProgramRegion = 536879103 /\ DeviceRegion = 1073741815
  /\ LowestZero(ProgramRegion, 13) /\ LowestZero(DeviceRegion, 3) /\ LowestZero(Bad + 7, 3)
<1>1. ProgramRegion = 536879103 /\ DeviceRegion = 1073741815
  BY SMT DEF ProgramRegion, DeviceRegion
<1>2. LowestZero(536879103, 13)
  <2>1. (536879103 \div 2^13) % 2 = 0
    BY PowersOfTwo, SMT
  <2>2. /\ (536879103 \div 2^0) % 2 = 1 /\ (536879103 \div 2^1) % 2 = 1
        /\ (536879103 \div 2^2) % 2 = 1 /\ (536879103 \div 2^3) % 2 = 1
        /\ (536879103 \div 2^4) % 2 = 1 /\ (536879103 \div 2^5) % 2 = 1
        /\ (536879103 \div 2^6) % 2 = 1 /\ (536879103 \div 2^7) % 2 = 1
        /\ (536879103 \div 2^8) % 2 = 1 /\ (536879103 \div 2^9) % 2 = 1
        /\ (536879103 \div 2^10) % 2 = 1 /\ (536879103 \div 2^11) % 2 = 1
        /\ (536879103 \div 2^12) % 2 = 1
    BY PowersOfTwo, SMT
  <2>3. \A k \in 0 .. 12 : \/ k = 0 \/ k = 1 \/ k = 2 \/ k = 3 \/ k = 4 \/ k = 5 \/ k = 6
                            \/ k = 7 \/ k = 8 \/ k = 9 \/ k = 10 \/ k = 11 \/ k = 12
    OBVIOUS
  <2> QED
    BY <2>1, <2>2, <2>3, SMT DEF LowestZero
<1>3. LowestZero(1073741815, 3)
  BY PowersOfTwo, SMT DEF LowestZero
<1>4. Bad + 7 = 268435463 /\ LowestZero(268435463, 3)
  BY PowersOfTwo, SMT DEF LowestZero, Bad
<1> QED
  BY <1>1, <1>2, <1>3, <1>4, SMT

LEMMA ProgramWords ==
  ASSUME PmpTypeOK, NEW n \in Entry, pmpaddr[n] = ProgramRegion, NEW a
  PROVE  Napot(n, a) <=> a \div 16384 = 32768
<1>1. Napot(n, a) <=> a \div 2^14 = pmpaddr[n] \div 2^14
  <2>1. 13 \in 0 .. 28 /\ 13 + 1 = 14 /\ LowestZero(pmpaddr[n], 13)
    BY Regions
  <2> QED
    BY <2>1, NapotCompares, SMT
<1>2. pmpaddr[n] \div 16384 = 32768 /\ 2^14 = 16384
  BY Regions, PowersOfTwo, SMT
<1> QED
  BY <1>1, <1>2, SMT

LEMMA SmallWords ==
  ASSUME PmpTypeOK, NEW n \in Entry, pmpaddr[n] \in {DeviceRegion, Bad + 7}, NEW a
  PROVE  /\ pmpaddr[n] = DeviceRegion => (Napot(n, a) <=> a \div 16 = 67108863)
         /\ pmpaddr[n] = Bad + 7 => (Napot(n, a) <=> a \div 16 = 16777216)
<1>1. Napot(n, a) <=> a \div 2^4 = pmpaddr[n] \div 2^4
  <2>1. 3 \in 0 .. 28 /\ 3 + 1 = 4 /\ LowestZero(pmpaddr[n], 3)
    BY Regions
  <2> QED
    BY <2>1, NapotCompares, SMT
<1>2. 2^4 = 16
  BY PowersOfTwo
<1>3. pmpaddr[n] = DeviceRegion => pmpaddr[n] \div 16 = 67108863
  BY Regions, SMT
<1>4. pmpaddr[n] = Bad + 7 => pmpaddr[n] \div 16 = 16777216
  BY Places, SMT
<1> QED
  BY <1>1, <1>2, <1>3, <1>4, SMT

\* Which of the regions the words of the programs are in.
LEMMA Blocks ==
  /\ Text \div 16384 = 32768 /\ Flag \div 16384 = 32768
  /\ \A a \in {Mtime, Mtimecmp, Mtimecmph, Msip, ExtSet, ExtClear, Magic} :
       a \div 16384 # 32768 /\ a \div 16 # 16777216
  /\ Magic \div 16 = 67108863 /\ Text \div 16 # 67108863 /\ Flag \div 16 # 67108863
  /\ Text \div 16 # 16777216 /\ Flag \div 16 # 16777216
  /\ \A d \in 0 .. 15 : (Bad + d) \div 16 = 16777216 /\ (Bad + d) \div 16384 # 32768
BY Places, SMT

LEMMA WordBytes ==
  ASSUME NEW b3, NEW b2, NEW b1, NEW b0
  PROVE  /\ Word(b3, b2, b1, b0)[0] = Byte(b0) /\ Word(b3, b2, b1, b0)[1] = Byte(b1)
         /\ Word(b3, b2, b1, b0)[2] = Byte(b2) /\ Word(b3, b2, b1, b0)[3] = Byte(b3)
<1> DEFINE Chosen(i) == CASE i = 0 -> b0 [] i = 1 -> b1 [] i = 2 -> b2 [] i = 3 -> b3
<1>1. \A i \in 0 .. 3 : Word(b3, b2, b1, b0)[i] = Byte(Chosen(i))
  BY Zenon DEF Word
<1>2. 1 # 0 /\ 2 # 0 /\ 2 # 1 /\ 3 # 0 /\ 3 # 1 /\ 3 # 2
  OBVIOUS
<1>3. Chosen(0) = b0 /\ Chosen(1) = b1 /\ Chosen(2) = b2 /\ Chosen(3) = b3
  BY <1>2, Zenon
<1> HIDE DEF Chosen
<1> QED
  BY <1>1, <1>3, SMT

LEMMA CfgSet ==
  ASSUME Next, Cause = "none", ~InterruptFired,
         NEW c0, NEW c1, NEW c2, NEW c3, pmpcfg = CfgOf(c0, c1, c2, c3),
         L \notin c0, L \notin c1, L \notin c2, L \notin c3,
         NEW b3, NEW b2, NEW b1, NEW b0,
         \/ Insn = Csrw("pmpcfg0", Word(b3, b2, b1, b0))
         \/ Insn = Csrs("pmpcfg0", Word(b3, b2, b1, b0))
  PROVE  /\ Insn.op = "csrw" => pmpcfg' = CfgOf(Legal(Byte(b0)), Legal(Byte(b1)), Legal(Byte(b2)), Legal(Byte(b3)))
         /\ Insn.op = "csrs" => pmpcfg' = CfgOf(Legal(c0 \cup Byte(b0)), Legal(c1 \cup Byte(b1)),
                                     Legal(c2 \cup Byte(b2)), Legal(c3 \cup Byte(b3)))
         /\ pmpaddr' = pmpaddr /\ pc' = <<pc[1], pc[2] + 1>>
         /\ UNCHANGED <<x28, csrs, flag, elapsed, device, history>>
<1> DEFINE w == Word(b3, b2, b1, b0)
           v == [i \in 0 .. 3 |-> (IF Insn.op = "csrs" THEN pmpcfg[4 * 0 + i] ELSE {}) \cup w[i]]
<1>1. w[0] = Byte(b0) /\ w[1] = Byte(b1) /\ w[2] = Byte(b2) /\ w[3] = Byte(b3)
  BY WordBytes
<1> HIDE DEF w
<1>2. /\ WriteCfg(0, v)
      /\ pc' = <<pc[1], pc[2] + 1>> /\ UNCHANGED <<x28, csrs, flag, elapsed, device, history>>
  BY CfgWritten, PmpPlaces DEF CfgNames, w
<1>3. pmpcfg[0] = c0 /\ pmpcfg[1] = c1 /\ pmpcfg[2] = c2 /\ pmpcfg[3] = c3
      /\ \A n \in Entry : n >= 4 => pmpcfg[n] = {}
  BY DEF CfgOf, Entry
<1>4. \A n \in Entry : ~Locked(n)
  BY <1>3 DEF Locked, Entry
<1>5. /\ v[0] = (IF Insn.op = "csrs" THEN c0 ELSE {}) \cup Byte(b0)
      /\ v[1] = (IF Insn.op = "csrs" THEN c1 ELSE {}) \cup Byte(b1)
      /\ v[2] = (IF Insn.op = "csrs" THEN c2 ELSE {}) \cup Byte(b2)
      /\ v[3] = (IF Insn.op = "csrs" THEN c3 ELSE {}) \cup Byte(b3)
  BY <1>1, <1>3
<1> HIDE DEF v
<1>6. pmpcfg' = [n \in Entry |-> IF n = 0 THEN Legal(v[0]) ELSE IF n = 1 THEN Legal(v[1])
                                ELSE IF n = 2 THEN Legal(v[2]) ELSE IF n = 3 THEN Legal(v[3]) ELSE {}]
  <2>1. pmpcfg' = [n \in Entry |-> IF n \div 4 = 0 THEN Legal(v[n % 4]) ELSE pmpcfg[n]]
    BY <1>2, <1>4 DEF WriteCfg
  <2>2. \A n \in Entry : /\ n <= 3 => n \div 4 = 0 /\ n % 4 = n
                         /\ n >= 4 => n \div 4 # 0
    BY DEF Entry
  <2> QED
    BY <2>1, <2>2, <1>3 DEF Entry
<1>7. pmpaddr' = pmpaddr
  BY <1>2 DEF WriteCfg
<1> QED
  BY <1>2, <1>5, <1>6, <1>7 DEF CfgOf

\* The first write, and one that sets bits of entry n alone.
LEMMA CfgFirst ==
  ASSUME Next, Cause = "none", ~InterruptFired, pmpcfg = CfgOf({}, {}, {}, {}),
         NEW b3, NEW b2, NEW b1, NEW b0, Insn = Csrw("pmpcfg0", Word(b3, b2, b1, b0))
  PROVE  /\ pmpcfg' = CfgOf(Legal(Byte(b0)), Legal(Byte(b1)), Legal(Byte(b2)), Legal(Byte(b3)))
         /\ pmpaddr' = pmpaddr /\ pc' = <<pc[1], pc[2] + 1>>
         /\ UNCHANGED <<x28, csrs, flag, elapsed, device, history>>
<1>1. Insn.op = "csrw"
  BY DEF Csrw
<1>2. L \notin {}
  OBVIOUS
<1>3. PICK e : e = {}
  OBVIOUS
<1>4. pmpcfg = CfgOf(e, e, e, e) /\ L \notin e
  BY <1>3
<1>5. pmpcfg' = CfgOf(Legal(Byte(b0)), Legal(Byte(b1)), Legal(Byte(b2)), Legal(Byte(b3)))
  BY <1>1, <1>4, CfgSet
<1>6. pmpaddr' = pmpaddr /\ pc' = <<pc[1], pc[2] + 1>>
      /\ UNCHANGED <<x28, csrs, flag, elapsed, device, history>>
  BY <1>1, <1>4, CfgSet
<1> QED
  BY <1>5, <1>6

LEMMA AddrSet ==
  ASSUME Next, Cause = "none", ~InterruptFired, \A n \in Entry : ~Locked(n),
         NEW a0, NEW a1, NEW a2, NEW a3, pmpaddr = AddrOf(a0, a1, a2, a3), NEW c, NEW v, Insn = Csrw(c, v),
         c \in {"pmpaddr0", "pmpaddr1", "pmpaddr2", "pmpaddr3"}
  PROVE  /\ pmpaddr' = AddrOf(IF c = "pmpaddr0" THEN v ELSE a0, IF c = "pmpaddr1" THEN v ELSE a1,
                  IF c = "pmpaddr2" THEN v ELSE a2, IF c = "pmpaddr3" THEN v ELSE a3)
         /\ pmpcfg' = pmpcfg /\ pc' = <<pc[1], pc[2] + 1>>
         /\ UNCHANGED <<x28, csrs, flag, elapsed, device, history>>
<1>1. /\ WriteAddr(AddrNumber[c], v)
      /\ pc' = <<pc[1], pc[2] + 1>> /\ UNCHANGED <<x28, csrs, flag, elapsed, device, history>>
  BY AddrWritten DEF AddrNames
<1>2. PICK m \in 0 .. 3 : /\ m = AddrNumber[c]
                         /\ (m = 0 <=> c = "pmpaddr0") /\ (m = 1 <=> c = "pmpaddr1")
                         /\ (m = 2 <=> c = "pmpaddr2") /\ (m = 3 <=> c = "pmpaddr3")
  BY PmpPlaces
<1>3. Writable(m)
  BY <1>2 DEF Writable, Entry, Above
<1>4. pmpaddr' = [pmpaddr EXCEPT ![m] = v] /\ pmpcfg' = pmpcfg
  BY <1>1, <1>2, <1>3 DEF WriteAddr
<1>5. pmpaddr' = AddrOf(IF c = "pmpaddr0" THEN v ELSE a0, IF c = "pmpaddr1" THEN v ELSE a1,
            IF c = "pmpaddr2" THEN v ELSE a2, IF c = "pmpaddr3" THEN v ELSE a3)
  BY <1>2, <1>4 DEF AddrOf, Entry
<1> QED
  BY <1>1, <1>4, <1>5

LEMMA Unlocked ==
  ASSUME NEW c0, NEW c1, NEW c2, NEW c3, pmpcfg = CfgOf(c0, c1, c2, c3),
         L \notin c0, L \notin c1, L \notin c2, L \notin c3
  PROVE  \A n \in Entry : ~Locked(n)
BY DEF CfgOf, Locked

-----------------------------------------------------------------------------
(* User mode *)

\* The protection of u-mode.c and csr.c: flag can be read, the region of the
\* program used, and nothing else.
Guarded == pmpcfg = CfgOf({R, 4}, {R, W, X, 3, 4}, {}, {}) /\ pmpaddr = AddrOf(Flag, ProgramRegion, 0, 0)

LEMMA GuardedHits ==
  ASSUME Guarded
  PROVE  /\ PmpTypeOK
         /\ \A a : Hit(0, a) <=> a = Flag
         /\ \A a : Hit(1, a) <=> a # Flag /\ a \div 16384 = 32768
         /\ \A a : \A n \in Entry : n >= 2 => ~Hit(n, a)
<1>1. PmpTypeOK
  <2>1. Fine({R, 4}) /\ Fine({R, W, X, 3, 4}) /\ Fine({})
    BY DEF Fine, R, W, X, Bit, Reserved
  <2>2. Flag \in Nat /\ ProgramRegion \in Nat
    BY Places, Regions, SMT
  <2> QED
    BY <2>1, <2>2, FineTypes DEF Guarded
<1>2. /\ Mode(0) = NA4 /\ Mode(1) = NAPOT /\ \A n \in Entry : n >= 2 => Mode(n) = OFF
      /\ pmpaddr[0] = Flag /\ pmpaddr[1] = ProgramRegion
  BY DEF Guarded, CfgOf, AddrOf, Mode, NA4, NAPOT, OFF, Entry, R, W, X
<1>3. NA4 # NAPOT /\ NA4 # TOR /\ NAPOT # TOR /\ OFF # NA4 /\ OFF # NAPOT /\ OFF # TOR
  BY DEF NA4, NAPOT, OFF, TOR
<1>4. /\ \A a : Matches(0, a) <=> a = Flag
      /\ \A a : \A n \in Entry : n >= 2 => ~Matches(n, a)
  BY <1>2, <1>3 DEF Matches
<1>5. \A a : Matches(1, a) <=> a \div 16384 = 32768
  <2>1. ASSUME NEW a PROVE Napot(1, a) <=> a \div 16384 = 32768
    BY <1>1, <1>2, ProgramWords DEF Entry
  <2> QED
    BY <1>2, <1>3, <2>1 DEF Matches
<1> QED
  BY <1>1, <1>4, <1>5 DEF Hit, Entry

\* Whatever the instructions of user mode are.
LEMMA Confined ==
  ASSUME Guarded, mode = "U", ext \in BOOLEAN, Next, Insn.op # "pmp"
  PROVE  /\ UNCHANGED <<flag, device, pmp, mie, mtvec>>
         /\ mode' = "U" => UNCHANGED <<mstatus, mcause, mepc>>
<1>1. Checked
  BY DEF Checked
<1>2. CASE Exception \/ Interrupt
  BY <1>2 DEF Exception, Interrupt, Trap
<1>3. ASSUME Insn.op \in CsrOps, Runs
      PROVE  Insn.op = "csrr"
  <2>1. ~Illegal
    BY <1>3 DEF Runs, Cause
  <2> QED
    BY <1>3, <2>1 DEF Illegal
<1>4. ~(Runs /\ Insn.op = "mret")
  BY DEF Runs, Cause, Illegal
<1>5. ASSUME Runs, Stores PROVE DataWord \div 16384 = 32768 /\ DataWord # Flag
  <2>1. PICK n \in Entry : Hit(n, DataWord) /\ W \in pmpcfg[n]
    <3>1. ~DataFault(DataWord, W, Checked)
      BY <1>5 DEF Runs, Cause, StoreFault
    <3> QED
      BY <1>1, <3>1 DEF DataFault
  <2>2. n # 0
    BY <2>1 DEF Guarded, CfgOf, Entry, W, R
  <2> QED
    BY <2>1, <2>2, GuardedHits DEF Entry
<1>6. ~(Runs /\ Insn.op = "subtract")
  <2>1. Insn.op = "subtract" => Stores /\ DataWord = Flag
    BY Words DEF Stores
  <2> QED
    BY <1>5, <2>1
<1>7. ~WriteCsr /\ ~WritePmpcfg /\ ~WritePmpaddr /\ ~Count /\ ~SkipInsn /\ ~FinishOrSkip
      /\ ~ReturnFromTrap /\ ~AnyPmp
  BY <1>3, <1>4, <1>6, Ops DEF CsrOps
<1>8. CASE StoreWord
  <2>1. Runs /\ Insn.op = "store"
    BY <1>8, Ops
  <2>2. Insn.addr \div 16384 = 32768 /\ Insn.addr # Flag
    BY <1>5, <2>1, Words DEF Stores
  <2>3. PICK a : a = Insn.addr /\ a \notin {Flag, Mtimecmp, Mtimecmph, Msip, ExtSet, ExtClear}
    BY <2>2, Blocks
  <2>4. ext' = (a = ExtSet \/ (ext /\ a # ExtClear))
    BY <1>8, <2>3, Zenon DEF StoreWord
  <2>5. ext' = ext
    BY <2>3, <2>4
  <2>6. /\ flag' = flag /\ mtimecmp' = mtimecmp /\ mtimecmph' = mtimecmph /\ msip' = msip
        /\ UNCHANGED <<csrs, pmp>>
    BY <1>8, <2>3 DEF StoreWord
  <2> QED
    BY <2>5, <2>6 DEF device, csrs
<1>9. CASE ReadMtime \/ Until \/ ReadCsr \/ Finish \/ LoadResult \/ InfLoop
  BY <1>9 DEF ReadMtime, Until, ReadCsr, Finish, LoadResult, InfLoop, csrs
<1> QED
  BY <1>2, <1>7, <1>8, <1>9 DEF Next, Step

\* In programs without the timer nothing interrupts, and the devices stay.
Steady ==
  /\ mie = {} /\ elapsed \in BOOLEAN /\ ext \in BOOLEAN /\ x28 \in Int
  /\ mtime \in 0 .. Expiry /\ mtimecmp \in Nat /\ mtimecmph \in Nat /\ msip \in Nat

Users == {"u_mode", "csr"}
MainLines == IF prog = "u_mode" THEN 8 ELSE 11
UserLines == IF prog = "u_mode" THEN 6 ELSE 3
Counted == IF Close THEN 1 ELSE 0

\* What flag holds before line k of main, and of the user code.
MainFlag(k) == IF k <= 6 THEN 255 ELSE IF prog = "u_mode" THEN 6
               ELSE IF k <= 8 THEN 3 ELSE IF k = 9 THEN 3 - Counted ELSE 2 - Counted
UserFlag(k) == IF prog = "u_mode" THEN 7 - k ELSE 2 - Counted

UMainAt ==
  /\ pc \in {"main"} \X (1 .. MainLines) /\ mode = "M" /\ resume = <<"zero", 1>>
  /\ mstatus = (IF pc[2] = 1 THEN {"tw"} ELSE {"tw", "mie"})
  /\ mtvec = (IF pc[2] <= 2 THEN "reset" ELSE "direct")
  /\ flag = MainFlag(pc[2])
  /\ pmpaddr = AddrOf(IF pc[2] <= 3 THEN 0 ELSE Flag, IF pc[2] <= 4 THEN 0 ELSE ProgramRegion, 0, 0)
  /\ IF pc[2] <= 5 THEN pmpcfg = CfgOf({}, {}, {}, {}) ELSE pmpcfg = CfgOf({R, 4}, {R, W, X, 3, 4}, {}, {})
  /\ MainLines <= pc[2] => mepc = <<"user_main", 1>>

UUserAt ==
  /\ pc \in {"user_main"} \X (1 .. UserLines) /\ mode = "U" /\ resume = <<"zero", 1>>
  /\ mstatus = {"tw"} /\ flag = UserFlag(pc[2]) /\ Guarded /\ mtvec = "direct"

\* The handler runs for line t of the user code; the last one ends the program.
UHandlerAt(t) ==
  /\ pc \in {"handler"} \X (1 .. 4) /\ mode = "M" /\ Guarded /\ mtvec = "direct"
  /\ mcause = "env_u" <=> t = UserLines
  /\ mstatus = (IF pc[2] = 4 /\ t = UserLines THEN {"tw", "mpp"} ELSE {"tw"})
  /\ flag = UserFlag(IF pc[2] = 4 /\ t < UserLines THEN t + 1 ELSE t)
  /\ resume = (IF t = UserLines THEN <<"done", 1>> ELSE <<"user_main", t + 1>>)
  /\ mepc = (IF pc[2] <= 3 THEN <<"user_main", t>> ELSE resume)

\* ... or for the write of cycle in csr.c.
UCycleAt ==
  /\ prog = "csr" /\ pc \in {"handler"} \X (1 .. 4) /\ mode = "M" /\ Guarded /\ mtvec = "direct"
  /\ mcause # "env_u" /\ mstatus = {"tw", "mpie", "mpp"}
  /\ flag = MainFlag(IF pc[2] <= 3 THEN 9 ELSE 10)
  /\ resume = <<"main", 10>> /\ mepc = <<"main", IF pc[2] <= 3 THEN 9 ELSE 10>>

UDoneAt ==
  /\ pc \in {"done"} \X (1 .. 2) /\ mode = "M" /\ mstatus = {"tw"} /\ resume = <<"zero", 1>>
  /\ flag = UserFlag(UserLines) /\ Guarded /\ mtvec = "direct"
  /\ pc[2] = 2 => x28 = flag

UInv == prog \in Users =>
  /\ Steady
  /\ UMainAt \/ UUserAt \/ (\E t \in 1 .. UserLines : (prog = "csr" => t = 3) /\ UHandlerAt(t))
      \/ UCycleAt \/ UDoneAt

LEMMA UCode ==
  ASSUME prog \in Users
  PROVE  /\ pc = <<"main", 1>> => Insn = Csrs("mstatus", {"mie"})
         /\ pc = <<"main", 2>> => Insn = Csrw("mtvec", "direct")
         /\ pc = <<"main", 3>> => Insn = Csrw("pmpaddr0", Flag)
         /\ pc = <<"main", 4>> => Insn = Csrw("pmpaddr1", ProgramRegion)
         /\ pc = <<"main", 5>> => Insn = Csrw("pmpcfg0", Word(0, 0, 31, 17))
         /\ pc = <<"main", 6>> => Insn = Store(Flag, IF prog = "u_mode" THEN 6 ELSE 3)
         /\ pc = <<"main", MainLines - 1>> => Insn = Csrw("mepc", <<"user_main", 1>>)
         /\ pc = <<"main", MainLines>> => Insn = Mret
         /\ pc = <<"handler", 1>> => Insn = Csrr("mcause")
         /\ pc = <<"handler", 2>> => Insn = Store(Magic, 0)
         /\ pc = <<"handler", 3>> => Insn = Do("finish_or_skip")
         /\ pc = <<"handler", 4>> => Insn = Mret
         /\ pc = <<"done", 1>> => Insn = Do("x28")
         /\ pc = <<"done", 2>> => Insn = Do("loop")
         /\ pc = <<"user_main", UserLines>> => Insn = Do("ecall")
<1>1. CASE prog = "u_mode"
  <2>1. Routines[prog] = [main |-> u_mode_main, handler |-> u_mode_handler,
                          user_main |-> user_main, done |-> done]
    BY <1>1 DEF Routines, User
  <2> QED
    BY <1>1, <2>1 DEF Insn, MainLines, UserLines, u_mode_main, u_mode_handler, user_main, done,
       SetFlag, Store, Message
<1>2. CASE prog = "csr"
  <2>1. Routines[prog] = [main |-> csr_main, handler |-> csr_handler,
                          user_main |-> csr_user_main, done |-> done]
    BY <1>2 DEF Routines, User
  <2> QED
    BY <1>2, <2>1 DEF Insn, MainLines, UserLines, csr_main, csr_handler, csr_user_main, done,
       SetFlag, Store, Message
<1> QED
  BY <1>1, <1>2 DEF Users

LEMMA UOwnCode ==
  /\ prog = "csr" =>
       /\ pc = <<"main", 7>> => Insn = Csrw("mcycle", 0)
       /\ pc = <<"main", 8>> => Insn = Do("close")
       /\ pc = <<"main", 9>> => Insn = Csrw("cycle", 0)
       /\ pc = <<"user_main", 1>> => Insn = Csrr("cycle")
       /\ pc = <<"user_main", 2>> => Insn = Csrr("time")
  /\ prog = "u_mode" =>
       /\ pc = <<"user_main", 1>> => Insn = Store(Magic, 0)
       /\ pc = <<"user_main", 2>> => Insn = Store(Flag, 0)
       /\ pc = <<"user_main", 3>> => Insn = Mret
       /\ pc = <<"user_main", 4>> => Insn = Csrr("mstatus")
       /\ pc = <<"user_main", 5>> => Insn = Do("wfi")
<1>1. CASE prog = "u_mode"
  <2>1. Routines[prog] = [main |-> u_mode_main, handler |-> u_mode_handler,
                          user_main |-> user_main, done |-> done]
    BY <1>1 DEF Routines, User
  <2> QED
    BY <1>1, <2>1 DEF Insn, user_main, SetFlag, Store, Message
<1>2. CASE prog = "csr"
  <2>1. Routines[prog] = [main |-> csr_main, handler |-> csr_handler,
                          user_main |-> csr_user_main, done |-> done]
    BY <1>2 DEF Routines, User
  <2> QED
    BY <1>2, <2>1 DEF Insn, csr_main, csr_user_main
<1> QED
  BY <1>1, <1>2

LEMMA SteadyStays ==
  ASSUME Steady, Next, mie' = mie, elapsed' = elapsed, ext' = ext, x28' \in Int,
         mtimecmp' = mtimecmp, mtimecmph' = mtimecmph, msip' = msip
  PROVE  Steady'
BY TimeMoves DEF Steady

\* A store that is for none of the devices.
LEMMA StoredBeside ==
  ASSUME Next, Cause = "none", ~InterruptFired, ext \in BOOLEAN,
         NEW a, NEW v, Insn = Store(a, v),
         a \notin {Mtimecmp, Mtimecmph, Msip, ExtSet, ExtClear}
  PROVE  /\ flag' = (IF a = Flag THEN v ELSE flag) /\ pc' = <<pc[1], pc[2] + 1>>
         /\ UNCHANGED <<x28, csrs, elapsed, device, history, pmp>>
<1>1. ext' = (a = ExtSet \/ (ext /\ a # ExtClear))
  BY Stored, Zenon
<1>2. ext' = ext
  BY <1>1
<1> QED
  BY <1>2, Stored DEF device

\* The operations of machine mode that trap in no program.
LEMMA UHarmless ==
  ASSUME Steady, mode = "M", \A n \in Entry : ~Locked(n), "mprv" \notin mstatus, Harmless(Insn)
  PROVE  Cause = "none" /\ ~InterruptFired
<1>1. Cause = "none"
  BY NoCause DEF Free, Checked
<1> QED
  BY <1>1 DEF Steady, InterruptFired

\* The code that sets up the protection, and the way into user mode.
LEMMA UMain ==
  ASSUME prog \in Users, Steady, UMainAt, Next, pc # <<"main", 9>>
  PROVE  UInv'
<1>1. prog' = prog /\ ext \in BOOLEAN
  BY ProgStays DEF Steady
<1>2. PICK k \in 1 .. MainLines : pc = <<"main", k>> /\ k # 9 /\ pc[1] = "main" /\ pc[2] = k
  BY DEF UMainAt
<1>3. MainLines \in {8, 11} /\ (MainLines = 8 <=> prog = "u_mode") /\ (MainLines = 11 <=> prog = "csr")
      /\ MainLines' = MainLines /\ UserLines' = UserLines /\ UserLines \in {3, 6}
      /\ MainFlag(k) \in Int /\ Counted \in {0, 1}
  BY <1>1 DEF MainLines, UserLines, Users, MainFlag, Counted
<1>4. /\ mode = "M" /\ resume = <<"zero", 1>> /\ mstatus = (IF k = 1 THEN {"tw"} ELSE {"tw", "mie"})
      /\ mtvec = (IF k <= 2 THEN "reset" ELSE "direct") /\ flag = MainFlag(k)
      /\ pmpaddr = AddrOf(IF k <= 3 THEN 0 ELSE Flag, IF k <= 4 THEN 0 ELSE ProgramRegion, 0, 0)
      /\ pmpcfg = (IF k <= 5 THEN CfgOf({}, {}, {}, {}) ELSE CfgOf({R, 4}, {R, W, X, 3, 4}, {}, {}))
      /\ k = MainLines => mepc = <<"user_main", 1>>
  BY <1>2, <1>3 DEF UMainAt
<1>5. \A n \in Entry : ~Locked(n)
  BY <1>4, Unlocked DEF L, R, W, X
<1>6. Insn = Csrw("mcycle", 0) \/ k # 7 \/ prog = "u_mode"
  BY <1>2, UOwnCode DEF Users
<1>7. Cause = "none" /\ ~InterruptFired
  <2>1. \/ Insn \in {Csrs("mstatus", {"mie"}), Csrw("mtvec", "direct"), Csrw("pmpaddr0", Flag),
                     Csrw("pmpaddr1", ProgramRegion), Csrw("pmpcfg0", Word(0, 0, 31, 17)),
                     Csrw("mepc", <<"user_main", 1>>), Mret, Csrw("mcycle", 0), Do("close")}
        \/ Insn = Store(Flag, IF prog = "u_mode" THEN 6 ELSE 3)
    BY <1>2, <1>3, <1>6, UCode, UOwnCode DEF Users
  <2>2. Harmless(Insn)
    BY <2>1, Places, SMT DEF Harmless, Csrs, Csrw, Mret, Do, Store
  <2> QED
    BY <1>4, <1>5, <2>2, UHarmless
<1>8. CASE k < MainLines
  <2>1. /\ mstatus' = (IF k = 1 THEN {"tw", "mie"} ELSE mstatus)
        /\ mtvec' = (IF k = 2 THEN "direct" ELSE mtvec)
        /\ mepc' = (IF k = MainLines - 1 THEN <<"user_main", 1>> ELSE mepc)
        /\ flag' = MainFlag(k + 1)
        /\ pmpaddr' = AddrOf(IF k <= 2 THEN 0 ELSE Flag, IF k <= 3 THEN 0 ELSE ProgramRegion, 0, 0)
        /\ pmpcfg' = (IF k <= 4 THEN CfgOf({}, {}, {}, {}) ELSE CfgOf({R, 4}, {R, W, X, 3, 4}, {}, {}))
        /\ pc' = <<"main", k + 1>> /\ mode' = mode /\ resume' = resume
        /\ mie' = mie /\ elapsed' = elapsed /\ ext' = ext /\ x28' = x28
        /\ mtimecmp' = mtimecmp /\ mtimecmph' = mtimecmph /\ msip' = msip
    <3>1. CASE k = 1
      <4>1. Insn = Csrs("mstatus", {"mie"}) /\ Insn.op = "csrs"
        BY <1>2, <3>1, UCode DEF Csrs
      <4> QED
        BY <1>2, <1>3, <1>4, <1>7, <3>1, <4>1, CsrChanged DEF device, history, pmp, MainFlag
    <3>2. CASE k = 2 \/ k = MainLines - 1 \/ (k = 7 /\ prog = "csr")
      <4>1. PICK c, v : /\ Insn = Csrw(c, v) /\ c \in CsrNames \ {"mstatus", "mie"}
                       /\ (c = "mtvec" <=> k = 2) /\ (c = "mepc" <=> k = MainLines - 1)
                       /\ (k = 2 => v = "direct") /\ (k = MainLines - 1 => v = <<"user_main", 1>>)
        <5>1. CASE k = 2
          BY <1>2, <1>3, <5>1, UCode DEF CsrNames
        <5>2. CASE k = MainLines - 1
          BY <1>2, <1>3, <5>2, UCode DEF CsrNames
        <5>3. CASE k = 7 /\ prog = "csr"
          BY <1>2, <1>3, <5>3, UOwnCode DEF CsrNames
        <5> QED
          BY <3>2, <5>1, <5>2, <5>3
      <4>2. MainFlag(k + 1) = MainFlag(k)
        BY <1>3, <3>2 DEF MainFlag, Users
      <4> QED
        BY <1>2, <1>3, <1>4, <1>7, <3>2, <4>1, <4>2, CsrWritten DEF CsrNames, device, history, pmp
    <3>3. CASE k \in {3, 4}
      <4>1. PICK c, v :
              /\ c \in {"pmpaddr0", "pmpaddr1"} /\ Insn = Csrw(c, v) /\ (c = "pmpaddr0" <=> k = 3)
              /\ v = IF k = 3 THEN Flag ELSE ProgramRegion
        BY <1>2, <3>3, UCode
      <4>2. pmpaddr = AddrOf(IF k = 3 THEN 0 ELSE Flag, 0, 0, 0)
        BY <1>4, <3>3
      <4> QED
        BY <1>2, <1>3, <1>4, <1>5, <1>7, <3>3, <4>1, <4>2, AddrSet DEF device, history, csrs, MainFlag
    <3>4. CASE k = 5
      <4>1. Insn = Csrw("pmpcfg0", Word(0, 0, 31, 17)) /\ Insn.op = "csrw"
        BY <1>2, <3>4, UCode DEF Csrw
      <4>2. /\ Legal(Byte(17)) = {R, 4} /\ Legal(Byte(31)) = {R, W, X, 3, 4} /\ Legal(Byte(0)) = {}
        BY Bytes DEF Legal, R, W, X, Reserved
      <4>3. /\ pmpcfg' = CfgOf(Legal(Byte(17)), Legal(Byte(31)), Legal(Byte(0)), Legal(Byte(0)))
            /\ pmpaddr' = pmpaddr /\ pc' = <<pc[1], pc[2] + 1>>
            /\ UNCHANGED <<x28, csrs, flag, elapsed, device, history>>
        <5>1. pmpcfg = CfgOf({}, {}, {}, {})
          BY <1>4, <3>4
        <5> QED
          BY <1>7, <4>1, <5>1, CfgFirst
      <4> QED
        BY <1>2, <1>3, <1>4, <3>4, <4>2, <4>3 DEF device, history, csrs, MainFlag
    <3>5. CASE k = 6
      <4>1. Insn = Store(Flag, IF prog = "u_mode" THEN 6 ELSE 3)
        BY <1>2, <3>5, UCode
      <4>2. Flag \notin {Mtimecmp, Mtimecmph, Msip, ExtSet, ExtClear}
        BY Places, SMT
      <4> QED
        BY <1>1, <1>2, <1>3, <1>4, <1>7, <3>5, <4>1, <4>2, StoredBeside
           DEF device, history, csrs, pmp, MainFlag
    <3>6. CASE k = 8
      <4>1. Insn = Do("close") /\ prog = "csr"
        BY <1>2, <1>3, <1>8, <3>6, UOwnCode DEF Users
      <4> QED
        BY <1>2, <1>3, <1>4, <1>7, <3>6, <4>1, Closed DEF device, history, csrs, pmp, MainFlag, Counted
    <3> QED
      BY <1>2, <1>3, <1>8, <3>1, <3>2, <3>3, <3>4, <3>5, <3>6 DEF Users
  <2>2. Steady'
    BY <2>1, SteadyStays DEF Steady
  <2>3. MainFlag(k + 1)' = MainFlag(k + 1)
    BY <1>1 DEF MainFlag, Counted, Close
  <2>4. UMainAt'
    BY <1>2, <1>3, <1>4, <1>8, <2>1, <2>3 DEF UMainAt
  <2> QED
    BY <2>2, <2>4 DEF UInv
<1>9. CASE k = MainLines
  <2>1. Insn = Mret /\ mstatus = {"tw", "mie"} /\ mepc = <<"user_main", 1>> /\ k >= 8
    BY <1>2, <1>3, <1>4, <1>9, UCode
  <2>2. /\ mode' = "U" /\ mstatus' = {"tw"} /\ pc' = <<"user_main", 1>> /\ resume' = <<"zero", 1>>
        /\ UNCHANGED <<x28, mie, mtvec, flag, elapsed, device, pmp>>
    BY <1>7, <2>1, Left
  <2>3. Guarded' /\ mtvec' = "direct"
    BY <1>3, <1>4, <1>9, <2>2 DEF Guarded, pmp
  <2>4. Steady'
    BY <2>2, SteadyStays DEF Steady, device
  <2>5. flag' = UserFlag(1)'
    BY <1>1, <1>3, <1>4, <1>9, <2>2 DEF MainFlag, UserFlag, Counted, Close, Users
  <2>6. UUserAt'
    BY <1>3, <2>2, <2>3, <2>5 DEF UUserAt
  <2> QED
    BY <2>4, <2>6 DEF UInv
<1> QED
  BY <1>2, <1>3, <1>8, <1>9

LEMMA GuardedUnlocked == Guarded => \A n \in Entry : ~Locked(n)
BY DEF Guarded, CfgOf, Locked, L, R, W, X

\* The fetches of user code do not fault.
LEMMA GuardedFetch ==
  ASSUME Guarded, Checked
  PROVE  ~FetchFault(Text, DataWord, Checked)
<1>1. Hit(1, Text)
  <2>1. Text # Flag
    BY Places, SMT
  <2> QED
    BY <2>1, GuardedHits, Blocks
<1>2. X \in pmpcfg[1] /\ 1 \in Entry
  BY DEF Guarded, CfgOf, Entry
<1> QED
  BY <1>1, <1>2 DEF FetchFault

\* All of the user code traps but the reads of the counters, and only the last
\* line is an ecall.
LEMMA UserCause ==
  ASSUME prog \in Users, UUserAt
  PROVE  /\ Cause = "none" <=> prog = "csr" /\ pc[2] \in {1, 2}
         /\ Cause = "env_u" <=> pc[2] = UserLines
<1>1. PICK k \in 1 .. UserLines : pc = <<"user_main", k>> /\ pc[2] = k
  BY DEF UUserAt
<1>2. mode = "U" /\ mstatus = {"tw"} /\ Guarded /\ Checked
  BY DEF UUserAt, Checked
<1>3. ~FetchFault(Text, DataWord, Checked)
  BY <1>2, GuardedFetch
<1>4. UserLines = (IF prog = "csr" THEN 3 ELSE 6)
  BY DEF UserLines, Users
<1>5. CASE k = UserLines
  <2>1. Insn.op = "ecall"
    BY <1>1, <1>5, UCode DEF Do
  <2>2. ~Illegal
    BY <2>1 DEF Illegal, CsrOps
  <2>3. Cause = "env_u"
    BY <1>2, <1>3, <2>1, <2>2 DEF Cause
  <2> QED
    BY <1>1, <1>4, <1>5, <2>3
<1>6. CASE prog = "csr" /\ k \in {1, 2}
  <2>1. Insn.op = "csrr" /\ Insn.csr \in {"cycle", "time"}
    BY <1>1, <1>6, UOwnCode DEF Csrr
  <2>2. ~Illegal /\ ~Loads /\ ~Stores
    BY <2>1 DEF Illegal, CsrOps, Loads, Stores
  <2>3. Cause = "none"
    BY <1>3, <2>1, <2>2 DEF Cause, LoadFault, StoreFault
  <2> QED
    BY <1>1, <1>4, <1>6, <2>3
<1>7. CASE prog = "u_mode" /\ k \in {1, 2}
  <2>1. PICK a \in {Magic, Flag} : Insn = Store(a, 0)
    BY <1>1, <1>7, UOwnCode
  <2>2. Insn.op = "store" /\ Insn.addr = a /\ DataWord = a
    BY <2>1, Words DEF Store
  <2>3. ~Illegal /\ Stores
    BY <2>2 DEF Illegal, CsrOps, Stores
  <2>4. ASSUME NEW n \in Entry, Hit(n, a), W \in pmpcfg[n] PROVE FALSE
    <3>1. n = 1
      BY <2>4, GuardedHits, <1>2 DEF Guarded, CfgOf, Entry, W, R
    <3>2. a # Flag /\ a \div 16384 = 32768
      BY <1>2, <2>4, <3>1, GuardedHits
    <3> QED
      BY <3>2, Blocks
  <2>5. DataFault(DataWord, W, Checked)
    BY <1>2, <2>2, <2>4 DEF DataFault
  <2>6. Cause = "fault_s"
    BY <1>2, <1>3, <2>2, <2>3, <2>5 DEF Cause, StoreFault
  <2> QED
    BY <1>1, <1>4, <1>7, <2>6
<1>8. CASE prog = "u_mode" /\ k \in {3, 4, 5}
  <2>1. \/ Insn = Mret
        \/ Insn = Csrr("mstatus")
        \/ Insn = Do("wfi")
    BY <1>1, <1>8, UOwnCode
  <2>2. Illegal
    BY <1>2, <2>1 DEF Illegal, CsrOps, Mret, Csrr, Do
  <2>3. Cause \in {"illegal", "insn_access"}
    BY <2>2 DEF Cause
  <2> QED
    BY <1>1, <1>4, <1>8, <2>3
<1> QED
  BY <1>1, <1>4, <1>5, <1>6, <1>7, <1>8 DEF Users

\* A step of the user code.
LEMMA UUser ==
  ASSUME prog \in Users, Steady, UUserAt, Next
  PROVE  UInv'
<1>1. prog' = prog /\ UserLines' = UserLines /\ UserLines = (IF prog = "csr" THEN 3 ELSE 6)
  BY ProgStays DEF UserLines, Users
<1>2. PICK k \in 1 .. UserLines : pc = <<"user_main", k>> /\ pc[1] = "user_main" /\ pc[2] = k
  BY DEF UUserAt
<1>3. /\ mode = "U" /\ resume = <<"zero", 1>> /\ mstatus = {"tw"} /\ flag = UserFlag(k)
      /\ Guarded /\ mtvec = "direct" /\ ~InterruptFired
  BY <1>2 DEF UUserAt, InterruptFired, Steady
<1>4. \A t : UserFlag(t)' = UserFlag(t)
  BY <1>1 DEF UserFlag, Counted, Close
<1>5. CASE Cause = "none"
  <2>1. prog = "csr" /\ k \in {1, 2}
    BY <1>2, <1>5, UserCause
  <2>2. PICK c : Insn = Csrr(c)
    BY <1>2, <2>1, UOwnCode
  <2>3. /\ pc' = <<"user_main", k + 1>>
        /\ UNCHANGED <<x28, csrs, flag, elapsed, device, history, pmp>>
    BY <1>2, <1>3, <1>5, <2>2, CsrRead
  <2>4. /\ mode' = mode /\ mstatus' = mstatus /\ mtvec' = mtvec /\ mie' = mie /\ resume' = resume
        /\ ext' = ext /\ mtimecmp' = mtimecmp /\ mtimecmph' = mtimecmph /\ msip' = msip
        /\ flag' = flag /\ elapsed' = elapsed /\ x28' = x28 /\ pmpcfg' = pmpcfg /\ pmpaddr' = pmpaddr
    BY <2>3 DEF csrs, device, history, pmp
  <2>5. flag' = UserFlag(k + 1)'
    BY <1>1, <1>3, <2>1, <2>4 DEF UserFlag, Counted, Close
  <2>6. UUserAt'
    BY <1>1, <1>3, <2>1, <2>3, <2>4, <2>5 DEF UUserAt, Guarded
  <2>7. Steady'
    BY <2>4, SteadyStays DEF Steady
  <2> QED
    BY <2>6, <2>7 DEF UInv
<1>6. CASE Cause # "none"
  <2>1. Exception
    BY <1>3, <1>6, StepTraps DEF Interrupt
  <2>2. /\ Trap(Cause, "handler", pc)
        /\ resume' = IF Cause = "env_u" THEN <<"done", 1>> ELSE <<pc[1], pc[2] + 1>>
    BY <1>3, <2>1 DEF Exception, Dispatch, Next1
  <2>3. /\ mode' = "M" /\ mstatus' = {"tw"} /\ mcause' = Cause /\ mepc' = pc
        /\ pc' = <<"handler", 1>> /\ x28' = x28 /\ mie' = mie /\ mtvec' = mtvec /\ flag' = flag
        /\ elapsed' = elapsed /\ ext' = ext /\ mtimecmp' = mtimecmp /\ mtimecmph' = mtimecmph
        /\ msip' = msip /\ pmpcfg' = pmpcfg /\ pmpaddr' = pmpaddr
    BY <1>3, <2>2 DEF Trap, Goto, device, pmp
  <2>4. Cause = "env_u" <=> k = UserLines
    BY <1>2, UserCause
  <2>5. prog = "csr" => k = 3
    BY <1>1, <1>2, <1>6, UserCause
  <2>6. UHandlerAt(k)'
    BY <1>1, <1>2, <1>3, <1>4, <2>2, <2>3, <2>4 DEF UHandlerAt, Guarded
  <2>7. Steady'
    BY <2>3, SteadyStays DEF Steady
  <2> QED
    BY <1>1, <1>2, <2>5, <2>6, <2>7 DEF UInv
<1> QED
  BY <1>5, <1>6

\* csr.c writes cycle, which is read-only, also from machine mode.
LEMMA UCycle ==
  ASSUME prog \in Users, Steady, UMainAt, Next, pc = <<"main", 9>>
  PROVE  UInv'
<1>1. prog' = prog /\ prog = "csr" /\ MainLines = 11
  BY ProgStays DEF UMainAt, MainLines, Users
<1>2. /\ mode = "M" /\ mstatus = {"tw", "mie"} /\ mtvec = "direct" /\ flag = MainFlag(9)
      /\ Guarded /\ ~InterruptFired
  BY <1>1 DEF UMainAt, InterruptFired, Steady, Guarded
<1>3. ~Checked /\ ~FetchFault(Text, DataWord, Checked)
  BY <1>2, GuardedUnlocked DEF Checked, FetchFault
<1>4. Cause = "illegal"
  <2>1. Insn.op = "csrw" /\ Insn.csr = "cycle"
    BY <1>1, UOwnCode DEF Csrw
  <2>2. Illegal
    BY <2>1 DEF Illegal, CsrOps
  <2> QED
    BY <1>3, <2>2 DEF Cause
<1>5. Exception
  BY <1>2, <1>4, StepTraps DEF Interrupt
<1>6. Trap(Cause, "handler", pc) /\ resume' = <<"main", 10>>
  BY <1>2, <1>4, <1>5 DEF Exception, Dispatch, Next1
<1>7. /\ mode' = "M" /\ mstatus' = {"tw", "mpie", "mpp"} /\ mcause' = Cause /\ mepc' = pc
      /\ pc' = <<"handler", 1>> /\ x28' = x28 /\ mie' = mie /\ mtvec' = mtvec /\ flag' = flag
      /\ elapsed' = elapsed /\ ext' = ext /\ mtimecmp' = mtimecmp /\ mtimecmph' = mtimecmph
      /\ msip' = msip /\ pmpcfg' = pmpcfg /\ pmpaddr' = pmpaddr
  BY <1>2, <1>6 DEF Trap, Goto, device, pmp
<1>8. flag' = MainFlag(9)'
  BY <1>1, <1>2, <1>7 DEF MainFlag, Counted, Close
<1>9. UCycleAt'
  BY <1>1, <1>2, <1>4, <1>6, <1>7, <1>8 DEF UCycleAt, Guarded
<1>10. Steady'
  BY <1>7, SteadyStays DEF Steady
<1> QED
  BY <1>9, <1>10 DEF UInv

\* What the lines of the handler do, for a trap that it counts and for the ecall.
LEMMA UHandling ==
  ASSUME prog \in Users, Steady, Guarded, mode = "M", mtvec = "direct", "mprv" \notin mstatus,
         NEW k \in 1 .. 4, pc = <<"handler", k>>, Next
  PROVE  /\ mie' = mie /\ mtvec' = mtvec /\ mcause' = mcause /\ x28' = x28 /\ elapsed' = elapsed
         /\ ext' = ext /\ mtimecmp' = mtimecmp /\ mtimecmph' = mtimecmph /\ msip' = msip
         /\ Guarded'
         /\ k # 4 => mode' = "M" /\ resume' = resume /\ pc' = <<"handler", k + 1>>
         /\ k \in {1, 2} => mstatus' = mstatus /\ flag' = flag /\ mepc' = mepc
         /\ k = 3 =>
              /\ mstatus' = (IF mcause = "env_u" THEN mstatus \cup {"mpp"} ELSE mstatus)
              /\ flag' = (IF mcause = "env_u" THEN flag ELSE flag - 1)
              /\ mepc' = (IF mcause = "env_u" THEN <<"done", 1>> ELSE <<mepc[1], mepc[2] + 1>>)
         /\ k = 4 =>
              /\ mode' = (IF "mpp" \in mstatus THEN "M" ELSE "U") /\ flag' = flag
              /\ mstatus' = (mstatus \ ({"mie", "mpie", "mpp"}
                                         \cup IF "mpp" \in mstatus THEN {} ELSE {"mprv"}))
                              \cup (IF "mpie" \in mstatus THEN {"mie"} ELSE {})
              /\ pc' = mepc /\ resume' = <<"zero", 1>>
<1>1. /\ k = 1 => Insn = Csrr("mcause")
      /\ k = 2 => Insn = Store(Magic, 0)
      /\ k = 3 => Insn = Do("finish_or_skip")
      /\ k = 4 => Insn = Mret
  BY UCode
<1>2. Cause = "none" /\ ~InterruptFired
  <2>1. Harmless(Insn)
    BY <1>1, Places, SMT DEF Harmless, Csrr, Mret, Do, Store
  <2> QED
    BY <2>1, GuardedUnlocked, UHarmless
<1>3. CASE k = 1
  BY <1>1, <1>2, <1>3, CsrRead DEF csrs, device, history, pmp, Guarded
<1>4. CASE k = 2
  <2>1. Magic # Flag /\ Magic \notin {Mtimecmp, Mtimecmph, Msip, ExtSet, ExtClear}
    BY Places, SMT
  <2>2. ext \in BOOLEAN
    BY DEF Steady
  <2>3. /\ flag' = flag /\ pc' = <<"handler", k + 1>>
        /\ UNCHANGED <<x28, csrs, elapsed, device, history, pmp>>
    BY <1>1, <1>2, <1>4, <2>1, <2>2, StoredBeside
  <2> QED
    BY <1>4, <2>3 DEF csrs, device, history, pmp, Guarded
<1>5. CASE k = 3
  BY <1>1, <1>2, <1>5, Finished DEF device, history, pmp, Guarded
<1>6. CASE k = 4
  BY <1>1, <1>2, <1>6, Left DEF device, pmp, Guarded
<1> QED
  BY <1>3, <1>4, <1>5, <1>6

LEMMA UHandler ==
  ASSUME prog \in Users, Steady, NEW t \in 1 .. UserLines, prog = "csr" => t = 3, UHandlerAt(t), Next
  PROVE  UInv'
<1>1. prog' = prog /\ UserLines' = UserLines /\ UserLines = (IF prog = "csr" THEN 3 ELSE 6)
  BY ProgStays DEF UserLines, Users
<1>2. PICK k \in 1 .. 4 : pc = <<"handler", k>> /\ pc[1] = "handler" /\ pc[2] = k
  BY DEF UHandlerAt
<1>3. /\ mode = "M" /\ Guarded /\ mtvec = "direct" /\ (mcause = "env_u" <=> t = UserLines)
      /\ mstatus = (IF k = 4 /\ t = UserLines THEN {"tw", "mpp"} ELSE {"tw"})
      /\ flag = UserFlag(IF k = 4 /\ t < UserLines THEN t + 1 ELSE t)
      /\ resume = (IF t = UserLines THEN <<"done", 1>> ELSE <<"user_main", t + 1>>)
      /\ mepc = (IF k <= 3 THEN <<"user_main", t>> ELSE resume)
  BY <1>2 DEF UHandlerAt
<1>4. \A i : UserFlag(i)' = UserFlag(i)
  BY <1>1 DEF UserFlag, Counted, Close
<1>5. /\ mie' = mie /\ mtvec' = mtvec /\ mcause' = mcause /\ x28' = x28 /\ elapsed' = elapsed
      /\ ext' = ext /\ mtimecmp' = mtimecmp /\ mtimecmph' = mtimecmph /\ msip' = msip
      /\ Guarded'
  BY <1>2, <1>3, UHandling
<1>6. Steady'
  BY <1>5, SteadyStays DEF Steady
<1>7. CASE k \in {1, 2}
  <2>1. /\ mode' = "M" /\ resume' = resume /\ pc' = <<"handler", k + 1>>
        /\ mstatus' = mstatus /\ flag' = flag /\ mepc' = mepc
    BY <1>2, <1>3, <1>7, UHandling
  <2>2. UHandlerAt(t)'
    BY <1>1, <1>3, <1>4, <1>5, <1>7, <2>1 DEF UHandlerAt
  <2> QED
    BY <1>1, <1>6, <2>2 DEF UInv
<1>8. CASE k = 3
  <2>1. /\ mode' = "M" /\ resume' = resume /\ pc' = <<"handler", 4>>
        /\ mstatus' = (IF t = UserLines THEN {"tw", "mpp"} ELSE {"tw"})
        /\ flag' = (IF t = UserLines THEN flag ELSE flag - 1)
        /\ mepc' = (IF t = UserLines THEN <<"done", 1>> ELSE <<"user_main", t + 1>>)
    BY <1>2, <1>3, <1>8, UHandling
  <2>2. t < UserLines => UserFlag(t + 1) = UserFlag(t) - 1
    BY <1>1 DEF UserFlag, Users
  <2>3. UHandlerAt(t)'
    BY <1>1, <1>3, <1>4, <1>5, <1>8, <2>1, <2>2 DEF UHandlerAt
  <2> QED
    BY <1>1, <1>6, <2>3 DEF UInv
<1>9. CASE k = 4 /\ t < UserLines
  <2>1. /\ mode' = "U" /\ mstatus' = {"tw"} /\ pc' = <<"user_main", t + 1>>
        /\ resume' = <<"zero", 1>> /\ flag' = UserFlag(t + 1)
    BY <1>2, <1>3, <1>9, UHandling
  <2>2. UUserAt'
    BY <1>1, <1>3, <1>4, <1>5, <1>9, <2>1 DEF UUserAt
  <2> QED
    BY <1>6, <2>2 DEF UInv
<1>10. CASE k = 4 /\ t = UserLines
  <2>1. /\ mode' = "M" /\ mstatus' = {"tw"} /\ pc' = <<"done", 1>>
        /\ resume' = <<"zero", 1>> /\ flag' = UserFlag(UserLines)
    BY <1>2, <1>3, <1>10, UHandling
  <2>2. UDoneAt'
    BY <1>1, <1>3, <1>4, <1>5, <2>1 DEF UDoneAt
  <2> QED
    BY <1>6, <2>2 DEF UInv
<1> QED
  BY <1>1, <1>2, <1>7, <1>8, <1>9, <1>10

\* The handler of csr.c, for the write of cycle: back to where main goes on.
LEMMA UCycleHandler ==
  ASSUME prog \in Users, Steady, UCycleAt, Next
  PROVE  UInv'
<1>1. prog' = prog /\ prog = "csr" /\ MainLines' = 11
  BY ProgStays DEF UCycleAt, MainLines
<1>2. PICK k \in 1 .. 4 : pc = <<"handler", k>> /\ pc[1] = "handler" /\ pc[2] = k
  BY DEF UCycleAt
<1>3. /\ mode = "M" /\ Guarded /\ mtvec = "direct" /\ mcause # "env_u"
      /\ mstatus = {"tw", "mpie", "mpp"} /\ flag = MainFlag(IF k <= 3 THEN 9 ELSE 10)
      /\ resume = <<"main", 10>> /\ mepc = <<"main", IF k <= 3 THEN 9 ELSE 10>>
  BY <1>2 DEF UCycleAt
<1>4. /\ MainFlag(9) = 3 - Counted /\ MainFlag(10) = 2 - Counted /\ Counted \in {0, 1}
      /\ MainFlag(9)' = MainFlag(9) /\ MainFlag(10)' = MainFlag(10)
  BY <1>1 DEF MainFlag, Counted, Close
<1>5. /\ mie' = mie /\ mtvec' = mtvec /\ mcause' = mcause /\ x28' = x28 /\ elapsed' = elapsed
      /\ ext' = ext /\ mtimecmp' = mtimecmp /\ mtimecmph' = mtimecmph /\ msip' = msip
      /\ Guarded'
  BY <1>2, <1>3, UHandling
<1>6. Steady'
  BY <1>5, SteadyStays DEF Steady
<1>7. CASE k # 4
  <2>1. /\ mode' = "M" /\ resume' = resume /\ pc' = <<"handler", k + 1>> /\ mstatus' = mstatus
        /\ k \in {1, 2} => flag' = flag /\ mepc' = mepc
        /\ k = 3 => flag' = flag - 1 /\ mepc' = <<"main", 10>>
    BY <1>2, <1>3, <1>7, UHandling
  <2>2. UCycleAt'
    BY <1>1, <1>2, <1>3, <1>4, <1>5, <1>7, <2>1 DEF UCycleAt
  <2> QED
    BY <1>6, <2>2 DEF UInv
<1>8. CASE k = 4
  <2>1. /\ mode' = "M" /\ mstatus' = {"tw", "mie"} /\ pc' = <<"main", 10>>
        /\ resume' = <<"zero", 1>> /\ flag' = MainFlag(10)'
    BY <1>2, <1>3, <1>4, <1>8, UHandling
  <2>2. UMainAt'
    BY <1>1, <1>3, <1>5, <2>1 DEF UMainAt, Guarded
  <2> QED
    BY <1>6, <2>2 DEF UInv
<1> QED
  BY <1>7, <1>8

LEMMA UDone ==
  ASSUME prog \in Users, Steady, UDoneAt, Next
  PROVE  UInv'
<1>1. prog' = prog /\ UserLines' = UserLines /\ UserLines \in {3, 6}
  BY ProgStays DEF UserLines
<1>2. PICK k \in 1 .. 2 : pc = <<"done", k>> /\ pc[2] = k
  BY DEF UDoneAt
<1>3. /\ mode = "M" /\ mstatus = {"tw"} /\ resume = <<"zero", 1>> /\ mtvec = "direct"
      /\ flag = UserFlag(UserLines) /\ Guarded /\ (k = 2 => x28 = flag)
  BY <1>2 DEF UDoneAt
<1>4. flag \in Int /\ UserFlag(UserLines)' = flag
  BY <1>1, <1>3 DEF UserFlag, Counted, Close
<1>5. Insn = Do(IF k = 1 THEN "x28" ELSE "loop")
  BY <1>2, UCode
<1>6. Cause = "none" /\ ~InterruptFired
  <2>1. Harmless(Insn)
    BY <1>5 DEF Harmless, Do
  <2> QED
    BY <1>3, <2>1, GuardedUnlocked, UHarmless
<1>7. mtime \in Int
  BY DEF Steady
<1>8. /\ pc' = <<"done", 2>> /\ x28' = flag /\ mode' = mode /\ mstatus' = mstatus /\ mie' = mie
      /\ mtvec' = mtvec /\ flag' = flag /\ elapsed' = elapsed /\ ext' = ext /\ mtimecmp' = mtimecmp
      /\ mtimecmph' = mtimecmph /\ msip' = msip /\ resume' = resume /\ pmpcfg' = pmpcfg
      /\ pmpaddr' = pmpaddr
  BY <1>2, <1>3, <1>5, <1>6, <1>7, Done DEF csrs, device, history, pmp
<1>9. UDoneAt'
  BY <1>3, <1>4, <1>8 DEF UDoneAt, Guarded
<1>10. Steady'
  BY <1>4, <1>8, SteadyStays DEF Steady
<1> QED
  BY <1>9, <1>10 DEF UInv

LEMMA SteadyInit == Init => Steady
<1>1. ASSUME Init PROVE Steady
  <2>1. /\ mie = {} /\ elapsed = FALSE /\ ext = FALSE /\ x28 = -1 /\ mtime = 0
        /\ mtimecmp = Expiry + 1 /\ mtimecmph = 255 /\ msip = 0
    BY <1>1 DEF Init
  <2>2. elapsed \in BOOLEAN /\ ext \in BOOLEAN
    BY <2>1, Zenon
  <2>3. 0 \in 0 .. Expiry /\ Expiry + 1 \in Nat /\ -1 \in Int
    BY TicksAssumption
  <2> QED
    BY <2>1, <2>2, <2>3 DEF Steady
<1> QED
  BY <1>1

LEMMA UInit == Init => UInv
<1>1. ASSUME Init, prog \in Users
      PROVE  UMainAt
  <2>1. MainLines \in {8, 11}
    BY DEF MainLines
  <2>2. /\ pc = <<"main", 1>> /\ mode = "M" /\ resume = <<"zero", 1>> /\ mstatus = {"tw"}
        /\ mtvec = "reset" /\ flag = 255 /\ PmpInit
    BY <1>1 DEF Init
  <2>3. pmpcfg = CfgOf({}, {}, {}, {}) /\ pmpaddr = AddrOf(0, 0, 0, 0)
    BY <2>2 DEF PmpInit, CfgOf, AddrOf, Entry
  <2> QED
    BY <2>1, <2>2, <2>3 DEF UMainAt, MainFlag
<1> QED
  BY <1>1, SteadyInit DEF UInv

LEMMA UStep == UInv /\ [Next]_vars => UInv'
<1>1. ASSUME UInv, UNCHANGED vars
      PROVE  UInv'
  <2>1. /\ pc' = pc /\ prog' = prog /\ x28' = x28 /\ mode' = mode /\ mstatus' = mstatus /\ mie' = mie
        /\ mtvec' = mtvec /\ mcause' = mcause /\ mepc' = mepc /\ flag' = flag /\ elapsed' = elapsed
        /\ mtime' = mtime /\ mtimecmp' = mtimecmp /\ mtimecmph' = mtimecmph /\ msip' = msip
        /\ ext' = ext /\ resume' = resume /\ pmpcfg' = pmpcfg /\ pmpaddr' = pmpaddr
    BY <1>1 DEF vars, csrs, device, history, pmp
  <2>2. /\ MainLines' = MainLines /\ UserLines' = UserLines
        /\ \A i : MainFlag(i)' = MainFlag(i) /\ UserFlag(i)' = UserFlag(i)
    BY <2>1 DEF MainLines, UserLines, MainFlag, UserFlag, Counted, Close
  <2>3. /\ Steady' <=> Steady
        /\ UMainAt' <=> UMainAt
        /\ UUserAt' <=> UUserAt
        /\ UDoneAt' <=> UDoneAt
    BY <2>1, <2>2 DEF Steady, UMainAt, UUserAt, UDoneAt, Guarded
  <2>4. /\ UCycleAt' <=> UCycleAt
        /\ \A t : UHandlerAt(t)' <=> UHandlerAt(t)
    BY <2>1, <2>2 DEF UCycleAt, UHandlerAt, Guarded
  <2> QED
    BY <1>1, <2>1, <2>2, <2>3, <2>4 DEF UInv
<1>2. ASSUME UInv, Next, prog \in Users
      PROVE  UInv'
  <2>1. Steady
    BY <1>2 DEF UInv
  <2>2. CASE UMainAt
    BY <1>2, <2>1, <2>2, UMain, UCycle
  <2>3. CASE UUserAt
    BY <1>2, <2>1, <2>3, UUser
  <2>4. ASSUME NEW t \in 1 .. UserLines, prog = "csr" => t = 3, UHandlerAt(t)
        PROVE  UInv'
    BY <1>2, <2>1, <2>4, UHandler
  <2>5. CASE UCycleAt
    BY <1>2, <2>1, <2>5, UCycleHandler
  <2>6. CASE UDoneAt
    BY <1>2, <2>1, <2>6, UDone
  <2> QED
    BY <1>2, <2>2, <2>3, <2>4, <2>5, <2>6 DEF UInv
<1>3. ASSUME Next, prog \notin Users
      PROVE  UInv'
  BY <1>3, ProgStays DEF UInv
<1> QED
  BY <1>1, <1>2, <1>3

LEMMA UInvHolds == Spec => []UInv
BY UInit, UStep, PTL DEF Spec

\* In user mode the program is in its user code, behind the protection.
LEMMA UConfined ==
  ASSUME UInv, prog \in Users, mode = "U", Next
  PROVE  /\ UNCHANGED <<flag, device, pmp, mie, mtvec>>
         /\ mode' = "U" => UNCHANGED <<mstatus, mcause, mepc>>
<1>1. UUserAt /\ ext \in BOOLEAN
  BY DEF UInv, UMainAt, UHandlerAt, UCycleAt, UDoneAt, Steady
<1>2. PICK k \in 1 .. UserLines : pc = <<"user_main", k>>
  BY <1>1 DEF UUserAt
<1>3. UserLines = (IF prog = "csr" THEN 3 ELSE 6)
  BY DEF UserLines, Users
<1>4. Insn.op # "pmp"
  BY <1>2, <1>3, UCode, UOwnCode DEF Users, Do, Store, Csrr, Mret
<1> QED
  BY <1>1, <1>4, Confined DEF UUserAt

-----------------------------------------------------------------------------
(* The programs that stay in machine mode *)

Pmps == {"pmp_na4", "pmp_napot", "pmp_tor"}
Machines == Pmps \cup {"ecall", "pma"}

\* The length of main and of the handler, and the lines of main that trap.
MLast == IF prog = "pmp_na4" THEN 15 ELSE IF prog = "pmp_napot" THEN 19
         ELSE IF prog = "pmp_tor" THEN 21 ELSE 6
HLast == IF prog \in {"pmp_napot", "pmp_tor"} THEN 5 ELSE 4
MTraps == IF prog = "pmp_na4" THEN {11, 14} ELSE IF prog = "pmp_napot" THEN {13, 14, 17, 18}
          ELSE IF prog = "pmp_tor" THEN {14, 15, 18} ELSE IF prog = "ecall" THEN {4} ELSE {3}

\* The lines that set and clear mprv.
MprvOn == IF prog = "pmp_na4" THEN 10 ELSE IF prog = "pmp_napot" THEN 12 ELSE 13
MprvOff == IF prog = "pmp_na4" THEN 12 ELSE IF prog = "pmp_napot" THEN 15 ELSE 16

\* What the registers and flag hold before line k of main.
MStatus(k) == IF prog \in Pmps
              THEN IF k <= MprvOn THEN {"tw"} ELSE IF k <= MprvOff THEN {"mprv"} ELSE {}
              ELSE IF k = 1 THEN {"tw"} ELSE {"mie"}
MVec(k) == IF k = 1 \/ (k = 2 /\ prog \notin Pmps) THEN "reset" ELSE "direct"

MFlag(k) ==
  IF prog = "ecall" THEN IF k <= 4 THEN 255 ELSE 1
  ELSE IF prog = "pma" THEN IF k <= 3 THEN 255 ELSE IF k <= 5 THEN 2 ELSE 1
  ELSE IF k <= 2 THEN 255
  ELSE IF prog = "pmp_na4"
       THEN IF k <= 9 THEN 4 ELSE IF k <= 11 THEN 3 ELSE IF k <= 14 THEN 2 ELSE 1
  ELSE IF prog = "pmp_napot"
       THEN IF k <= 9 THEN 7 ELSE IF k <= 11 THEN 6 ELSE IF k <= 13 THEN 5 ELSE IF k = 14 THEN 4
            ELSE IF k <= 17 THEN 3 ELSE IF k = 18 THEN 2 ELSE 1
  ELSE IF k <= 10 THEN 7 ELSE IF k <= 12 THEN 6 ELSE IF k <= 14 THEN 5 ELSE IF k = 15 THEN 4
       ELSE IF k <= 18 THEN 3 ELSE IF k <= 20 THEN 2 ELSE 1

\* The entry under test, its bits, and the two entries above it with all rights.
Rights == {R, W, X, 3, 4}
MEntry(k) == (IF k <= 6 THEN {} ELSE IF prog = "pmp_na4" THEN {4}
              ELSE IF prog = "pmp_napot" THEN {3, 4} ELSE {3})
               \cup (IF k <= MprvOff + 1 THEN {} ELSE {L})
MCfg(k) == IF prog \notin Pmps \/ k <= 3 THEN CfgOf({}, {}, {}, {})
           ELSE IF prog = "pmp_tor" THEN CfgOf({}, MEntry(k), Rights, Rights)
           ELSE CfgOf(MEntry(k), Rights, Rights, {})
MProgram(k) == IF k <= 4 THEN 0 ELSE ProgramRegion
MDevices(k) == IF k <= 5 THEN 0 ELSE DeviceRegion
MAddr(k) ==
  IF prog \notin Pmps THEN AddrOf(0, 0, 0, 0)
  ELSE IF prog = "pmp_na4" THEN AddrOf(IF k <= 7 THEN 0 ELSE Bad, MProgram(k), MDevices(k), 0)
  ELSE IF prog = "pmp_napot" THEN AddrOf(IF k <= 7 THEN 0 ELSE Bad + 7, MProgram(k), MDevices(k), 0)
  ELSE AddrOf(IF k <= 8 THEN 0 ELSE Bad, IF k <= 7 THEN 0 ELSE Bad + 8, MProgram(k), MDevices(k))

MState(k) ==
  /\ mode = "M" /\ mtvec = MVec(k) /\ pmpcfg = MCfg(k) /\ pmpaddr = MAddr(k)

MMainAt(k) ==
  /\ pc = <<"main", k>> /\ MState(k) /\ mstatus = MStatus(k) /\ flag = MFlag(k)
  /\ resume = <<"zero", 1>>

\* The handler, at line j of it, for the trap of line t.
MHandlerAt(t, j) ==
  /\ pc = <<"handler", j>> /\ MState(t) /\ mtvec = "direct"
  /\ mstatus = (MStatus(t) \ {"mie"}) \cup {"mpp"} \cup (IF "mie" \in MStatus(t) THEN {"mpie"} ELSE {})
  /\ flag = MFlag(IF j = HLast THEN t + 1 ELSE t)
  /\ resume = <<"main", t + 1>> /\ mepc = <<"main", IF j = 1 THEN t ELSE t + 1>>

MDoneAt ==
  /\ pc \in {"done"} \X (1 .. 2) /\ MState(MLast) /\ mstatus = MStatus(MLast) /\ flag = 1
  /\ resume = <<"zero", 1>> /\ (pc[2] = 2 => x28 = 1)

MInv == prog \in Machines =>
  /\ Steady
  /\ \/ \E k \in 1 .. MLast : MMainAt(k)
     \/ \E t \in MTraps, j \in 1 .. HLast : MHandlerAt(t, j)
     \/ MDoneAt

\* pmp_csr.c traps nowhere, for the one entry it locks, TOR with the address 0,
\* matches nothing.
CInv == prog = "pmp_csr" =>
  /\ Steady /\ PmpTypeOK /\ flag \in Int
  /\ mode = "M" /\ mstatus = {"tw"} /\ mtvec = "reset" /\ resume = <<"zero", 1>>
  /\ pc \in ({"main"} \X (1 .. 20)) \cup ({"done"} \X (1 .. 2))
  /\ \A n \in Entry : Locked(n) => n = 8 /\ Mode(8) = TOR
  /\ pmpaddr[8] = 0 /\ (pc[1] = "main" /\ pc[2] >= 9 => Locked(8))

LEMMA CCode ==
  ASSUME prog = "pmp_csr"
  PROVE  /\ pc = <<"main", 1>> => Insn = Store(Flag, 9)
         /\ pc \in {"main"} \X {2, 14, 16, 18} =>
              \E c \in {"pmpaddr0", "pmpaddr7", "pmpaddr8", "pmpaddr9"} :
                Insn = Csrw(c, DeadBeef) /\ (c = "pmpaddr8" => pc[2] = 14)
         /\ pc = <<"main", 4>> => Insn = Csrw("pmpcfg0", Word(0, 23, 0, 23))
         /\ pc = <<"main", 6>> => Insn = Csrw("pmpcfg1", Word(0, 26, 0, 39))
         /\ pc = <<"main", 8>> => Insn = Csrw("pmpcfg2", Word(0, 0, 0, 136))
         /\ pc = <<"main", 9>> => Insn = Csrs("pmpcfg2", Word(0, 0, 0, 7))
         /\ pc = <<"main", 11>> => Insn = Csrs("pmpcfg2", Word(0, 7, 0, 0))
         /\ pc \in {"main"} \X {3, 5, 7, 10, 15, 17, 19} => \E c, v : Insn = Expect(c, v)
         /\ pc = <<"main", 12>> => Insn = Csrr("pmpcfg2")
         /\ pc = <<"main", 13>> => Insn = Subtract(1)
         /\ pc = <<"main", 20>> => Insn = Return
         /\ pc = <<"done", 1>> => Insn = Do("x28")
         /\ pc = <<"done", 2>> => Insn = Do("loop")
<1>1. Routines[prog] = [main |-> pmp_csr_main, done |-> done]
  BY DEF Routines
<1>2. \A k \in {3, 5, 7, 10, 15, 17, 19} : pc = <<"main", k>> => \E c, v : Insn = Expect(c, v)
  BY <1>1, SMT DEF Insn, pmp_csr_main
<1>3. \A k \in {2, 14, 16, 18} : pc = <<"main", k>> =>
        \E c \in {"pmpaddr0", "pmpaddr7", "pmpaddr8", "pmpaddr9"} :
          Insn = Csrw(c, DeadBeef) /\ (c = "pmpaddr8" => k = 14)
  BY <1>1, SMT DEF Insn, pmp_csr_main
<1>4. /\ pc = <<"main", 1>> => Insn = Store(Flag, 9)
      /\ pc = <<"main", 4>> => Insn = Csrw("pmpcfg0", Word(0, 23, 0, 23))
      /\ pc = <<"main", 6>> => Insn = Csrw("pmpcfg1", Word(0, 26, 0, 39))
      /\ pc = <<"main", 8>> => Insn = Csrw("pmpcfg2", Word(0, 0, 0, 136))
      /\ pc = <<"main", 9>> => Insn = Csrs("pmpcfg2", Word(0, 0, 0, 7))
      /\ pc = <<"main", 11>> => Insn = Csrs("pmpcfg2", Word(0, 7, 0, 0))
  BY <1>1, SMT DEF Insn, pmp_csr_main, SetFlag, Store
<1>5. /\ pc = <<"main", 12>> => Insn = Csrr("pmpcfg2")
      /\ pc = <<"main", 13>> => Insn = Subtract(1)
      /\ pc = <<"main", 20>> => Insn = Return
      /\ pc = <<"done", 1>> => Insn = Do("x28")
      /\ pc = <<"done", 2>> => Insn = Do("loop")
  BY <1>1, SMT DEF Insn, pmp_csr_main, done
<1> QED
  BY <1>2, <1>3, <1>4, <1>5

\* What the writes of pmp_csr.c to the configuration keep.
LEMMA CConfig ==
  ASSUME PmpTypeOK, \A n \in Entry : Locked(n) => n = 8 /\ Mode(8) = TOR,
         NEW g \in 0 .. 2, NEW v, WriteCfg(g, v), \A i \in 0 .. 3 : v[i] \subseteq Bit,
         \A i \in 0 .. 3 : L \in v[i] => g = 2 /\ i = 0,
         g = 2 => v[0] = {3, L} \/ Locked(8)
  PROVE  /\ PmpTypeOK'
         /\ \A n \in Entry : Locked(n)' => n = 8 /\ (Mode(8) = TOR)'
         /\ Locked(8) \/ g = 2 => Locked(8)'
         /\ pmpaddr' = pmpaddr
<1>1. \A n \in Entry : n \div 4 \in 0 .. 3 /\ n % 4 \in 0 .. 3 /\ (n \div 4 = 2 /\ n % 4 = 0 <=> n = 8)
  BY DEF Entry
<1>2. /\ \A n \in Entry : pmpcfg'[n] = IF n \div 4 = g /\ ~Locked(n) THEN Legal(v[n % 4]) ELSE pmpcfg[n]
      /\ DOMAIN pmpcfg' = Entry /\ pmpcfg' = [n \in Entry |-> pmpcfg'[n]] /\ pmpaddr' = pmpaddr
  BY DEF WriteCfg
<1>3. \A n \in Entry : /\ Legal(v[n % 4]) \subseteq Bit /\ Legal(v[n % 4]) \cap Reserved = {}
                       /\ W \in Legal(v[n % 4]) => R \in Legal(v[n % 4])
                       /\ L \in Legal(v[n % 4]) => L \in v[n % 4]
  BY <1>1 DEF Legal, Reserved, R, W, Bit
<1>4. PmpTypeOK'
  BY <1>2, <1>3 DEF PmpTypeOK
<1>5. \A n \in Entry : Locked(n)' => n = 8
  <2> SUFFICES ASSUME NEW n \in Entry, Locked(n)' PROVE n = 8
    OBVIOUS
  <2>1. L \in pmpcfg'[n]
    BY DEF Locked
  <2>2. CASE n \div 4 = g /\ ~Locked(n)
    <3>1. L \in v[n % 4]
      BY <1>2, <1>3, <2>1, <2>2
    <3> QED
      BY <1>1, <2>2, <3>1
  <2>3. CASE ~(n \div 4 = g /\ ~Locked(n))
    BY <1>2, <2>1, <2>3 DEF Locked
  <2> QED
    BY <2>2, <2>3
<1>6. Locked(8) \/ g = 2 => Locked(8)' /\ (Mode(8) = TOR)'
  <2>1. CASE Locked(8)
    <3>1. pmpcfg'[8] = pmpcfg[8]
      BY <1>2, <2>1 DEF Entry
    <3> QED
      BY <2>1, <3>1 DEF Locked, Mode, Entry
  <2>2. CASE g = 2 /\ ~Locked(8)
    <3>1. pmpcfg'[8] = Legal({3, L})
      BY <1>1, <1>2, <2>2 DEF Entry
    <3>2. Legal({3, L}) = {3, L}
      BY DEF Legal, R, W, L, Reserved
    <3> QED
      BY <3>1, <3>2 DEF Locked, Mode, TOR, NAPOT, L
  <2> QED
    BY <2>1, <2>2
<1>7. Locked(8)' => Locked(8) \/ g = 2
  BY <1>2 DEF Locked, Entry
<1> QED
  BY <1>2, <1>4, <1>5, <1>6, <1>7

LEMMA CStep == 
  ASSUME CInv, prog = "pmp_csr", Next
  PROVE  CInv'
<1>1. prog' = prog /\ mtime \in Int
  BY ProgStays DEF CInv, Steady
<1>2. /\ Steady /\ PmpTypeOK /\ flag \in Int
      /\ mode = "M" /\ mstatus = {"tw"} /\ mtvec = "reset" /\ resume = <<"zero", 1>>
      /\ \A n \in Entry : Locked(n) => n = 8 /\ Mode(8) = TOR
      /\ pmpaddr[8] = 0 /\ (pc[1] = "main" /\ pc[2] >= 9 => Locked(8))
  BY DEF CInv
<1>3. Cause = "none" /\ ~InterruptFired
  <2>1. ASSUME NEW a \in Nat PROVE Free(a)
    <3> SUFFICES ASSUME Locked(8), Mode(8) = TOR, Matches(8, a) PROVE FALSE
      BY <1>2 DEF Free
    <3>1. TOR # NA4 /\ TOR # NAPOT
      BY DEF TOR, NA4, NAPOT
    <3>2. a < pmpaddr[8]
      BY <3>1 DEF Matches
    <3> QED
      BY <1>2, <3>2
  <2>2. PICK k : pc \in {<<"main", k>>, <<"done", k>>} /\ pc[2] = k
                 /\ (pc[1] = "main" => k \in 1 .. 20) /\ (pc[1] = "done" => k \in 1 .. 2)
    BY DEF CInv
  <2>3. \/ Insn = Store(Flag, 9)
        \/ \E c \in {"pmpaddr0", "pmpaddr7", "pmpaddr8", "pmpaddr9", "pmpcfg0", "pmpcfg1", "pmpcfg2"} : \E v :
             Insn = Csrw(c, v) \/ Insn = Csrs(c, v)
        \/ \E c, v : Insn = Expect(c, v)
        \/ Insn = Csrr("pmpcfg2") \/ Insn = Subtract(1) \/ \E o \in {"return", "x28", "loop"} : Insn = Do(o)
    BY <2>2, CCode DEF Return
  <2>4. Harmless(Insn) /\ DataWord \in {Text, Flag}
    BY <2>3, Places, Words, SMT DEF Harmless, Store, Csrw, Csrs, Expect, Csrr, Subtract, Do
  <2>5. Text \in Nat /\ Flag \in Nat
    BY Places, SMT
  <2>6. ~Checked
    BY <1>2 DEF Checked
  <2>7. Cause = "none"
    BY <1>2, <2>1, <2>4, <2>5, <2>6, NoCause
  <2> QED
    BY <1>2, <2>7 DEF InterruptFired
<1>4. ASSUME UNCHANGED <<mode, mstatus, mie, mtvec, resume, elapsed, mtimecmp, mtimecmph, msip, ext>>,
             x28' \in Int, flag' \in Int, PmpTypeOK',
             \A n \in Entry : Locked(n)' => n = 8 /\ (Mode(8) = TOR)',
             pmpaddr'[8] = 0,
             pc' \in ({"main"} \X (1 .. 20)) \cup ({"done"} \X (1 .. 2)),
             pc'[1] = "main" /\ pc'[2] >= 9 => Locked(8)'
      PROVE  CInv'
  <2>1. Steady'
    BY <1>2, <1>4, SteadyStays
  <2> QED
    BY <1>2, <1>4, <2>1 DEF CInv
<1>5. ASSUME UNCHANGED <<mode, mstatus, mie, mtvec, resume, elapsed, mtimecmp, mtimecmph, msip, ext>>,
             x28' \in Int, flag' \in Int, UNCHANGED pmp,
             pc' \in ({"main"} \X (1 .. 20)) \cup ({"done"} \X (1 .. 2)),
             pc'[1] = "main" /\ pc'[2] >= 9 => Locked(8)
      PROVE  CInv'
  <2>1. PmpTypeOK' /\ (\A n \in Entry : (Locked(n)' <=> Locked(n)) /\ Mode(n)' = Mode(n))
        /\ pmpaddr'[8] = 0
    BY <1>2, <1>5 DEF pmp, PmpTypeOK, Locked, Mode
  <2> QED
    BY <1>2, <1>4, <1>5, <2>1 DEF Entry
<1>6. /\ x28 \in Int /\ ext \in BOOLEAN
  BY <1>2 DEF Steady
<1>7. CASE pc[1] = "done"
  <2>1. \/ Insn = Do("x28") /\ pc = <<"done", 1>>
        \/ Insn = Do("loop") /\ pc = <<"done", 2>>
    BY <1>7, CCode DEF CInv
  <2>2. pc' = <<"done", 2>> /\ x28' \in {x28, flag} /\ UNCHANGED <<csrs, flag, elapsed, device, history, pmp>>
    BY <1>1, <1>3, <1>7, <2>1, Done
  <2> QED
    BY <1>2, <1>5, <1>6, <2>2 DEF csrs, device, history
<1>8. CASE pc[1] = "main"
  <2>1. PICK k \in 1 .. 20 : pc = <<"main", k>> /\ pc[2] = k
    BY <1>8 DEF CInv
  <2>2. CASE k = 20
    <3>1. Insn = Return
      BY <2>1, <2>2, CCode
    <3>2. pc' = <<"done", 1>> /\ UNCHANGED <<x28, csrs, flag, elapsed, device, history, pmp>>
      BY <1>1, <1>3, <3>1, Done DEF Return
    <3> QED
      BY <1>2, <1>5, <1>6, <3>2 DEF csrs, device, history
  <2>3. CASE k \in {3, 5, 7, 10, 12, 13, 15, 17, 19}
    <3>1. \/ \E c, v : Insn = Expect(c, v)
          \/ Insn = Csrr("pmpcfg2") \/ Insn = Subtract(1)
      BY <2>1, <2>3, CCode
    <3>2. /\ flag' \in {flag, flag - 1} /\ pc' = <<"main", k + 1>>
          /\ UNCHANGED <<x28, csrs, elapsed, device, history, pmp>>
      BY <1>3, <2>1, <3>1, Expected, CsrRead, Subtracted
    <3>3. k + 1 >= 9 => Locked(8)
      BY <1>2, <2>1, <2>3
    <3> QED
      BY <1>2, <1>5, <1>6, <2>3, <3>2, <3>3 DEF csrs, device, history
  <2>4. CASE k = 1
    <3>1. Insn = Store(Flag, 9) /\ Flag \notin {Mtimecmp, Mtimecmph, Msip, ExtSet, ExtClear}
      BY <2>1, <2>4, CCode, Places
    <3>2. /\ flag' = 9 /\ pc' = <<"main", 2>>
          /\ UNCHANGED <<x28, csrs, elapsed, device, history, pmp>>
      BY <1>3, <1>6, <2>1, <2>4, <3>1, StoredBeside
    <3> QED
      BY <1>2, <1>5, <1>6, <3>2 DEF csrs, device, history
  <2>5. CASE k \in {2, 14, 16, 18}
    <3>1. PICK c : /\ c \in {"pmpaddr0", "pmpaddr7", "pmpaddr8", "pmpaddr9"}
                   /\ Insn = Csrw(c, DeadBeef) /\ (c = "pmpaddr8" => k = 14)
      BY <2>1, <2>5, CCode
    <3>2. PICK m \in Entry : m = AddrNumber[c] /\ (m = 8 => k = 14)
      BY <3>1, PmpPlaces DEF Entry
    <3>3. /\ WriteAddr(m, DeadBeef)
          /\ pc' = <<"main", k + 1>> /\ UNCHANGED <<x28, csrs, flag, elapsed, device, history>>
      BY <1>3, <2>1, <3>1, <3>2, AddrWritten DEF AddrNames
    <3>4. DeadBeef \in Nat
      BY SMT DEF DeadBeef
    <3>5. m = 8 => ~Writable(m)
      BY <1>2, <2>1, <3>2 DEF Writable
    <3>6. /\ pmpcfg' = pmpcfg /\ pmpaddr' \in [Entry -> Nat] /\ pmpaddr'[8] = 0
      <4> HIDE DEF DeadBeef
      <4> QED
        BY <1>2, <3>2, <3>3, <3>4, <3>5 DEF WriteAddr, PmpTypeOK, Entry
    <3>7. PmpTypeOK' /\ (\A n \in Entry : (Locked(n)' <=> Locked(n)) /\ Mode(n)' = Mode(n))
      BY <1>2, <3>6 DEF PmpTypeOK, Locked, Mode
    <3>8. k + 1 >= 9 => Locked(8)'
      BY <1>2, <2>1, <2>5, <3>7 DEF Entry
    <3>9. \A n \in Entry : Locked(n)' => n = 8 /\ (Mode(8) = TOR)'
      BY <1>2, <3>7 DEF Entry
    <3> QED
      BY <1>2, <1>4, <1>6, <2>5, <3>3, <3>6, <3>7, <3>8, <3>9 DEF csrs, device, history
  <2>6. CASE k \in {4, 6, 8, 9, 11}
    <3>1. PICK c, b2, b0 :
            /\ c \in CfgNames /\ b2 \in {0, 7, 23, 26} /\ b0 \in {0, 7, 23, 39, 136}
            /\ \/ /\ Insn = Csrw(c, Word(0, b2, 0, b0)) /\ k \in {4, 6, 8}
                  /\ c = "pmpcfg2" => b0 = 136 /\ k = 8
               \/ Insn = Csrs(c, Word(0, b2, 0, b0)) /\ c = "pmpcfg2" /\ k \in {9, 11} /\ b0 \in {0, 7}
            /\ c # "pmpcfg2" => b0 # 136
            /\ k = 8 => c = "pmpcfg2"
      BY <2>1, <2>6, CCode DEF CfgNames
    <3> DEFINE w == Word(0, b2, 0, b0)
               g == CfgNumber[c]
               v == [i \in 0 .. 3 |-> (IF Insn.op = "csrs" THEN pmpcfg[4 * g + i] ELSE {}) \cup w[i]]
    <3>2. w[0] = Byte(b0) /\ w[1] = Byte(0) /\ w[2] = Byte(b2) /\ w[3] = Byte(0)
      BY WordBytes
    <3>3. g \in 0 .. 2 /\ (g = 2 <=> c = "pmpcfg2")
      BY <3>1, PmpPlaces DEF CfgNames
    <3>4. Insn.op = "csrs" <=> k \in {9, 11}
      BY <3>1, <2>6 DEF Csrw, Csrs
    <3>5. Insn.op = "csrs" => g = 2 /\ b0 \in {0, 7} /\ Locked(8)
      <4>1. k \in {9, 11} => c = "pmpcfg2" /\ b0 \in {0, 7}
        BY <3>1
      <4>2. k \in {9, 11} => Locked(8)
        BY <1>2, <2>1
      <4> QED
        BY <3>3, <3>4, <4>1, <4>2
    <3> HIDE DEF w, g
    <3>6. /\ WriteCfg(g, v) /\ pc' = <<"main", k + 1>>
          /\ UNCHANGED <<x28, csrs, flag, elapsed, device, history>>
      BY <1>3, <2>1, <3>1, CfgWritten DEF w, g
    <3>7. /\ \A i \in 0 .. 3 : w[i] \subseteq Bit
          /\ \A i \in 0 .. 3 : L \in w[i] => i = 0 /\ b0 = 136
          /\ b0 = 136 => w[0] = {3, L}
      <4>1. /\ Byte(0) = {} /\ Byte(7) = {0, 1, 2} /\ Byte(23) = {0, 1, 2, 4} /\ Byte(26) = {1, 3, 4}
            /\ Byte(39) = {0, 1, 2, 5} /\ Byte(136) = {3, 7}
        <5>1. Byte(0) = {} /\ Byte(7) = {0, 1, 2}
          BY ByteBits DEF Bit
        <5>2. Byte(23) = {0, 1, 2, 4}
          BY ByteBits DEF Bit
        <5>3. Byte(26) = {1, 3, 4}
          BY ByteBits DEF Bit
        <5>4. Byte(39) = {0, 1, 2, 5}
          BY ByteBits DEF Bit
        <5>5. Byte(136) = {3, 7}
          BY ByteBits DEF Bit
        <5> QED
          BY <5>1, <5>2, <5>3, <5>4, <5>5
      <4>2. \A i \in 0 .. 3 : i = 0 \/ i = 1 \/ i = 2 \/ i = 3
        OBVIOUS
      <4>3. w[0] \subseteq Bit /\ w[1] \subseteq Bit /\ w[2] \subseteq Bit /\ w[3] \subseteq Bit
        BY <3>1, <3>2, <4>1 DEF Bit
      <4>4. L \notin w[1] /\ L \notin w[2] /\ L \notin w[3] /\ (L \in w[0] => b0 = 136)
        BY <3>1, <3>2, <4>1 DEF L
      <4> QED
        BY <3>2, <4>1, <4>2, <4>3, <4>4 DEF L
    <3>8. \A i \in 0 .. 3 : v[i] = (IF Insn.op = "csrs" THEN pmpcfg[4 * g + i] ELSE {}) \cup w[i]
      OBVIOUS
    <3> HIDE DEF v
    <3>9. \A i \in 0 .. 3 : v[i] \subseteq Bit
      BY <1>2, <3>3, <3>7, <3>8 DEF PmpTypeOK, Entry
    <3>10. \A i \in 0 .. 3 : L \in v[i] => g = 2 /\ i = 0
      <4> SUFFICES ASSUME NEW i \in 0 .. 3, L \in v[i] PROVE g = 2 /\ i = 0
        OBVIOUS
      <4>1. CASE Insn.op # "csrs"
        BY <3>1, <3>3, <3>7, <3>8, <4>1
      <4>2. CASE Insn.op = "csrs"
        <5>1. g = 2 /\ L \notin w[i] /\ 8 + i \in Entry
          BY <3>5, <3>7, <4>2 DEF Entry
        <5>2. Locked(8 + i)
          BY <3>8, <4>2, <5>1 DEF Locked
        <5> QED
          BY <1>2, <5>1, <5>2
      <4> QED
        BY <4>1, <4>2
    <3>11. g = 2 => v[0] = {3, L} \/ Locked(8)
      <4>1. CASE Insn.op = "csrs"
        BY <3>5, <4>1
      <4>2. CASE Insn.op # "csrs" /\ g = 2
        <5>1. b0 = 136
          BY <3>1, <3>3, <3>4, <4>2
        <5> QED
          BY <3>7, <3>8, <4>2, <5>1
      <4> QED
        BY <4>1, <4>2
    <3>12. /\ PmpTypeOK'
           /\ \A n \in Entry : Locked(n)' => n = 8 /\ (Mode(8) = TOR)'
           /\ Locked(8) \/ g = 2 => Locked(8)'
           /\ pmpaddr' = pmpaddr
      BY <1>2, <3>3, <3>6, <3>9, <3>10, <3>11, CConfig
    <3>13. k + 1 >= 9 => Locked(8)'
      BY <1>2, <2>1, <2>6, <3>1, <3>3, <3>12
    <3> QED
      BY <1>2, <1>4, <1>6, <2>6, <3>6, <3>12, <3>13 DEF csrs, device, history
  <2> QED
    BY <2>1, <2>2, <2>3, <2>4, <2>5, <2>6
<1> QED
  BY <1>7, <1>8 DEF CInv

\* The words that the entry under test matches, once all entries are set up.
InProgram(a) == a \div 16384 = 32768
InDevices(a) == a \div 16 = 67108863
InBlock(a) == a \div 16 = 16777216
InRange(a) == Bad <= a /\ a < Bad + 8
Tested == IF prog = "pmp_tor" THEN 1 ELSE 0
TestedWords(a) == IF prog = "pmp_na4" THEN a = Bad
                  ELSE IF prog = "pmp_napot" THEN InBlock(a) ELSE InRange(a)
Ready(k) == prog \in Pmps /\ k \in Nat /\ (k >= 9 \/ (k = 8 /\ prog # "pmp_tor")) /\ MState(k)

LEMMA MEntries ==
  ASSUME NEW k, Ready(k)
  PROVE  /\ MEntry(k) \subseteq {3, 4, 7}
         /\ L \in MEntry(k) <=> k > MprvOff + 1
         /\ prog = "pmp_na4" => MEntry(k) \cap NAPOT = NA4
         /\ prog = "pmp_napot" => MEntry(k) \cap NAPOT = NAPOT
         /\ prog = "pmp_tor" => MEntry(k) \cap NAPOT = TOR
<1>1. k > 6 /\ prog \in {"pmp_na4", "pmp_napot", "pmp_tor"} /\ MprvOff + 1 \in Nat /\ k \in Nat
  BY DEF Ready, Pmps, MprvOff
<1>2. MEntry(k) = (IF prog = "pmp_na4" THEN {4} ELSE IF prog = "pmp_napot" THEN {3, 4} ELSE {3})
                    \cup (IF k > MprvOff + 1 THEN {7} ELSE {})
  BY <1>1 DEF MEntry, L
<1> QED
  BY <1>1, <1>2 DEF NAPOT, NA4, TOR, L

LEMMA MHits ==
  ASSUME NEW k, Ready(k)
  PROVE  /\ PmpTypeOK
         /\ \A n \in Entry : Locked(n) <=> n = Tested /\ k > MprvOff + 1
         /\ \A a : Matches(Tested, a) <=> TestedWords(a)
         /\ \A a : Matches(Tested + 1, a) <=> InProgram(a)
         /\ \A a : Matches(Tested + 2, a) <=> InDevices(a)
         /\ \A n \in Entry \ {Tested, Tested + 1, Tested + 2} : \A a : ~Matches(n, a)
         /\ pmpcfg[Tested] \cap {R, W, X} = {}
         /\ {R, W, X} \subseteq pmpcfg[Tested + 1]
<1> DEFINE e == MEntry(k)
<1>1. /\ e \subseteq {3, 4, 7} /\ (L \in e <=> k > MprvOff + 1)
      /\ prog = "pmp_na4" => e \cap NAPOT = NA4
      /\ prog = "pmp_napot" => e \cap NAPOT = NAPOT
      /\ prog = "pmp_tor" => e \cap NAPOT = TOR
  BY MEntries
<1> HIDE DEF e
<1>2. /\ prog \in Pmps /\ k \in Nat /\ k >= 8 /\ (prog = "pmp_tor" => k >= 9)
      /\ pmpcfg = MCfg(k) /\ pmpaddr = MAddr(k)
  BY DEF Ready, MState
<1>3. NA4 # NAPOT /\ NA4 # TOR /\ NAPOT # TOR /\ OFF # NA4 /\ OFF # NAPOT /\ OFF # TOR
  BY DEF NA4, NAPOT, OFF, TOR
<1>4. PICK z : z = {}
  OBVIOUS
<1>5. Fine(e) /\ Fine(Rights) /\ Fine(z) /\ Rights \cap NAPOT = NAPOT /\ L \notin Rights /\ L \notin z
      /\ z \cap NAPOT = OFF /\ {R, W, X} \subseteq Rights /\ e \cap {R, W, X} = {}
  BY <1>1, <1>4 DEF Fine, Rights, R, W, X, L, Bit, Reserved, NAPOT, OFF
<1>6. /\ Bad \in Nat /\ Bad + 7 \in Nat /\ Bad + 8 \in Nat
      /\ ProgramRegion \in Nat /\ DeviceRegion \in Nat
  BY Places, Regions, SMT
<1>7. CASE prog # "pmp_tor"
  <2>1. Tested = 0
    BY <1>7 DEF Tested
  <2>2. pmpcfg = CfgOf(e, Rights, Rights, z)
    BY <1>2, <1>4, <1>7 DEF MCfg, e
  <2>3. PICK b \in Nat : /\ pmpaddr = AddrOf(b, ProgramRegion, DeviceRegion, 0)
                        /\ b = IF prog = "pmp_na4" THEN Bad ELSE Bad + 7
    BY <1>2, <1>6, <1>7 DEF MAddr, Pmps, MProgram, MDevices
  <2>4. PmpTypeOK
    BY <1>5, <1>6, <2>2, <2>3, FineTypes
  <2>5. /\ pmpcfg[0] = e /\ pmpcfg[1] = Rights /\ pmpcfg[2] = Rights
        /\ \A n \in Entry : n >= 3 => pmpcfg[n] = z
        /\ pmpaddr[0] = b /\ pmpaddr[1] = ProgramRegion /\ pmpaddr[2] = DeviceRegion
    BY <1>4, <2>2, <2>3 DEF CfgOf, AddrOf, Entry
  <2>6. \A n \in Entry : Locked(n) <=> n = 0 /\ L \in e
    BY <1>5, <2>5 DEF Locked, Entry
  <2>7. /\ Mode(0) = e \cap NAPOT /\ Mode(1) = NAPOT /\ Mode(2) = NAPOT
        /\ \A n \in Entry : n >= 3 => Mode(n) = OFF
    BY <1>5, <2>5 DEF Mode
  <2>8. ASSUME NEW a PROVE Matches(0, a) <=> TestedWords(a)
    <3>1. CASE prog = "pmp_na4"
      BY <1>1, <1>3, <2>3, <2>5, <2>7, <3>1, Zenon DEF Matches, TestedWords
    <3>2. CASE prog = "pmp_napot"
      <4>1. Napot(0, a) <=> InBlock(a)
        BY <2>3, <2>4, <2>5, <3>2, SmallWords, SMT DEF Entry, InBlock
      <4> QED
        BY <1>1, <1>3, <2>7, <3>2, <4>1, Zenon DEF Matches, TestedWords
    <3> QED
      BY <1>2, <1>7, <3>1, <3>2 DEF Pmps
  <2>9. ASSUME NEW a PROVE Matches(1, a) <=> InProgram(a)
    <3>1. Napot(1, a) <=> InProgram(a)
      BY <2>4, <2>5, ProgramWords, SMT DEF Entry, InProgram
    <3> QED
      BY <1>3, <2>7, <3>1, Zenon DEF Matches
  <2>10. ASSUME NEW a PROVE Matches(2, a) <=> InDevices(a)
    <3>1. Napot(2, a) <=> InDevices(a)
      BY <2>4, <2>5, SmallWords, SMT DEF Entry, InDevices
    <3> QED
      BY <1>3, <2>7, <3>1, Zenon DEF Matches
  <2>11. ASSUME NEW n \in Entry, n # 0, n # 1, n # 2, NEW a PROVE ~Matches(n, a)
    <3>1. n >= 3
      BY <2>11 DEF Entry
    <3> QED
      BY <1>3, <2>7, <3>1, Zenon DEF Matches
  <2>12. 0 + 1 = 1 /\ 0 + 2 = 2
    OBVIOUS
  <2>13. \A n \in Entry : Locked(n) <=> n = Tested /\ k > MprvOff + 1
    BY <1>1, <2>1, <2>6
  <2>14. pmpcfg[Tested] \cap {R, W, X} = {} /\ {R, W, X} \subseteq pmpcfg[Tested + 1]
    BY <1>5, <2>1, <2>5, <2>12
  <2>15. /\ \A a : Matches(Tested, a) <=> TestedWords(a)
         /\ \A a : Matches(Tested + 1, a) <=> InProgram(a)
         /\ \A a : Matches(Tested + 2, a) <=> InDevices(a)
         /\ \A n \in Entry \ {Tested, Tested + 1, Tested + 2} : \A a : ~Matches(n, a)
    BY <2>1, <2>8, <2>9, <2>10, <2>11, <2>12, Zenon
  <2> QED
    BY <2>4, <2>13, <2>14, <2>15
<1>8. CASE prog = "pmp_tor"
  <2>1. Tested = 1
    BY <1>8 DEF Tested
  <2>2. pmpcfg = CfgOf(z, e, Rights, Rights)
    BY <1>2, <1>4, <1>8 DEF MCfg, e
  <2>3. pmpaddr = AddrOf(Bad, Bad + 8, ProgramRegion, DeviceRegion)
    BY <1>2, <1>8 DEF MAddr, MProgram, MDevices, Pmps
  <2>4. PmpTypeOK
    BY <1>5, <1>6, <2>2, <2>3, FineTypes
  <2>5. /\ pmpcfg[0] = z /\ pmpcfg[1] = e /\ pmpcfg[2] = Rights /\ pmpcfg[3] = Rights
        /\ \A n \in Entry : n >= 4 => pmpcfg[n] = z
        /\ pmpaddr[0] = Bad /\ pmpaddr[1] = Bad + 8
        /\ pmpaddr[2] = ProgramRegion /\ pmpaddr[3] = DeviceRegion
    BY <1>4, <2>2, <2>3 DEF CfgOf, AddrOf, Entry
  <2>6. \A n \in Entry : Locked(n) <=> n = 1 /\ L \in e
    BY <1>5, <2>5 DEF Locked, Entry
  <2>7. /\ Mode(0) = OFF /\ Mode(1) = TOR /\ Mode(2) = NAPOT /\ Mode(3) = NAPOT
        /\ \A n \in Entry : n >= 4 => Mode(n) = OFF
    BY <1>1, <1>5, <1>8, <2>5 DEF Mode
  <2>8. ASSUME NEW a PROVE Matches(1, a) <=> TestedWords(a)
    <3>1. Base(1) = Bad
      BY <2>5 DEF Base
    <3> QED
      BY <1>3, <1>8, <2>5, <2>7, <3>1, SMT DEF Matches, TestedWords, InRange
  <2>9. ASSUME NEW a PROVE Matches(2, a) <=> InProgram(a)
    <3>1. Napot(2, a) <=> InProgram(a)
      BY <2>4, <2>5, ProgramWords, SMT DEF Entry, InProgram
    <3> QED
      BY <1>3, <2>7, <3>1, Zenon DEF Matches
  <2>10. ASSUME NEW a PROVE Matches(3, a) <=> InDevices(a)
    <3>1. Napot(3, a) <=> InDevices(a)
      BY <2>4, <2>5, SmallWords, SMT DEF Entry, InDevices
    <3> QED
      BY <1>3, <2>7, <3>1, Zenon DEF Matches
  <2>11. ASSUME NEW n \in Entry, n # 1, n # 2, n # 3, NEW a PROVE ~Matches(n, a)
    <3>1. n = 0 \/ n >= 4
      BY <2>11 DEF Entry
    <3> QED
      BY <1>3, <2>7, <3>1, Zenon DEF Matches
  <2>12. 1 + 1 = 2 /\ 1 + 2 = 3
    OBVIOUS
  <2>13. \A n \in Entry : Locked(n) <=> n = Tested /\ k > MprvOff + 1
    BY <1>1, <2>1, <2>6
  <2>14. pmpcfg[Tested] \cap {R, W, X} = {} /\ {R, W, X} \subseteq pmpcfg[Tested + 1]
    BY <1>5, <2>1, <2>5, <2>12
  <2>15. /\ \A a : Matches(Tested, a) <=> TestedWords(a)
         /\ \A a : Matches(Tested + 1, a) <=> InProgram(a)
         /\ \A a : Matches(Tested + 2, a) <=> InDevices(a)
         /\ \A n \in Entry \ {Tested, Tested + 1, Tested + 2} : \A a : ~Matches(n, a)
    BY <2>1, <2>8, <2>9, <2>10, <2>11, <2>12, Zenon
  <2> QED
    BY <2>4, <2>13, <2>14, <2>15
<1> QED
  BY <1>7, <1>8

\* Before the lock no entry is locked, and every word is free; after it, those
\* the programs use.
LEMMA MOpen ==
  ASSUME prog \in Machines, NEW k \in Nat, MState(k), prog \notin Pmps \/ k <= MprvOff + 1
  PROVE  \A n \in Entry : ~Locked(n)
<1>1. PICK z : z = {}
  OBVIOUS
<1>2. L \notin z /\ L \notin Rights
  BY <1>1 DEF Rights, R, W, X, L
<1>3. prog \in Pmps => L \notin MEntry(k)
  BY DEF MEntry, L
<1>4. pmpcfg = MCfg(k)
  BY DEF MState
<1>5. CASE prog \notin Pmps \/ k <= 3
  <2>1. pmpcfg = CfgOf(z, z, z, z)
    BY <1>1, <1>4, <1>5 DEF MCfg
  <2> QED
    BY <1>2, <2>1, Unlocked
<1>6. CASE prog = "pmp_tor" /\ ~(k <= 3)
  <2>1. pmpcfg = CfgOf(z, MEntry(k), Rights, Rights)
    BY <1>1, <1>4, <1>6 DEF MCfg, Pmps
  <2> QED
    BY <1>2, <1>3, <1>6, <2>1, Unlocked DEF Pmps
<1>7. CASE prog \in Pmps \ {"pmp_tor"} /\ ~(k <= 3)
  <2>1. pmpcfg = CfgOf(MEntry(k), Rights, Rights, z)
    BY <1>1, <1>4, <1>7 DEF MCfg
  <2> QED
    BY <1>2, <1>3, <1>7, <2>1, Unlocked
<1> QED
  BY <1>5, <1>6, <1>7

LEMMA MFree ==
  ASSUME prog \in Machines, NEW k \in Nat, MState(k)
  PROVE  /\ Free(Text) /\ Free(Flag) /\ Free(Magic)
         /\ prog \notin Pmps \/ k <= MprvOff + 1 => \A a : Free(a)
         /\ prog = "pmp_tor" => Free(Bad + 8)
<1>1. CASE prog \notin Pmps \/ k <= MprvOff + 1
  BY <1>1, MOpen DEF Free
<1>2. CASE prog \in Pmps /\ k > MprvOff + 1
  <2>1. Ready(k)
    BY <1>2 DEF Ready, MprvOff
  <2>2. \A a : ~TestedWords(a) => Free(a)
    BY <2>1, MHits DEF Free
  <2>3. ~TestedWords(Text) /\ ~TestedWords(Flag) /\ ~TestedWords(Magic)
        /\ (prog = "pmp_tor" => ~TestedWords(Bad + 8))
    BY <1>2, Blocks, Places, SMT DEF TestedWords, Pmps, InBlock, InRange
  <2>4. MprvOff + 1 \in Nat
    BY DEF MprvOff
  <2> QED
    BY <1>2, <2>2, <2>3, <2>4
<1>3. MprvOff + 1 \in Nat
  BY DEF MprvOff
<1> QED
  BY <1>1, <1>2, <1>3

\* Where the tables go on from line to line.
LEMMA MSizes ==
  ASSUME prog \in Machines
  PROVE  /\ MLast \in {6, 15, 19, 21} /\ HLast \in {4, 5} /\ MTraps \subseteq 3 .. (MLast - 1)
         /\ \A t \in MTraps : t \in Nat /\ t + 1 \in 1 .. MLast
<1>1. MLast \in {6, 15, 19, 21} /\ HLast \in {4, 5}
  BY DEF MLast, HLast
<1>2. MTraps \subseteq 3 .. (MLast - 1)
  BY DEF MTraps, MLast, Machines, Pmps
<1> QED
  BY <1>1, <1>2

LEMMA MTrapped ==
  ASSUME prog \in Machines, NEW t \in MTraps
  PROVE  /\ MCfg(t + 1) = MCfg(t) /\ MAddr(t + 1) = MAddr(t)
         /\ MVec(t) = "direct" /\ MVec(t + 1) = "direct"
         /\ MStatus(t + 1) = MStatus(t) /\ MStatus(t) \in {{"mie"}, {"mprv"}, {}}
         /\ MFlag(t + 1) = (IF prog = "ecall" THEN 1 ELSE IF prog = "pma" THEN 2 ELSE MFlag(t) - 1)
         /\ MFlag(t) \in Int
<1>1. t \in Nat /\ t >= 3 /\ (prog \in Pmps => t >= 11)
  BY DEF MTraps, Machines, Pmps
<1>2. MEntry(t + 1) = MEntry(t)
  BY <1>1 DEF MEntry, MTraps, MprvOff, Machines, Pmps
<1>3. MCfg(t + 1) = MCfg(t)
  BY <1>1, <1>2 DEF MCfg
<1>4. MAddr(t + 1) = MAddr(t)
  BY <1>1 DEF MAddr, MProgram, MDevices
<1>5. /\ MVec(t) = "direct" /\ MVec(t + 1) = "direct"
      /\ MStatus(t + 1) = MStatus(t) /\ MStatus(t) \in {{"mie"}, {"mprv"}, {}}
  BY <1>1 DEF MVec, MStatus, MTraps, MprvOn, MprvOff, Machines, Pmps
<1>6. /\ MFlag(t + 1) = (IF prog = "ecall" THEN 1 ELSE IF prog = "pma" THEN 2 ELSE MFlag(t) - 1)
      /\ MFlag(t) \in Int
  BY <1>1 DEF MFlag, MTraps, Machines, Pmps
<1> QED
  BY <1>3, <1>4, <1>5, <1>6

LEMMA MSame ==
  ASSUME prog' = prog
  PROVE  /\ MLast' = MLast /\ HLast' = HLast /\ MTraps' = MTraps
         /\ \A k : /\ MStatus(k)' = MStatus(k) /\ MVec(k)' = MVec(k) /\ MFlag(k)' = MFlag(k)
                   /\ MCfg(k)' = MCfg(k) /\ MAddr(k)' = MAddr(k)
<1>1. /\ MLast' = MLast /\ HLast' = HLast /\ MTraps' = MTraps
      /\ \A k : MStatus(k)' = MStatus(k) /\ MVec(k)' = MVec(k) /\ MFlag(k)' = MFlag(k)
  BY DEF MLast, HLast, MTraps, MStatus, MVec, MFlag, MprvOn, MprvOff
<1>2. \A k : MEntry(k)' = MEntry(k)
  BY DEF MEntry, MprvOff
<1>3. \A k : MCfg(k)' = MCfg(k) /\ MAddr(k)' = MAddr(k)
  BY <1>2, SMT DEF MCfg, MAddr, MProgram, MDevices
<1> QED
  BY <1>1, <1>3

LEMMA MRoutines ==
  /\ Routines["ecall"] = [main |-> ecall_main, handler |-> ecall_handler, done |-> done]
  /\ Routines["pma"] = [main |-> pma_main, handler |-> pma_handler, done |-> done]
  /\ Routines["pmp_na4"] = [main |-> pmp_na4_main, handler |-> pmp_na4_handler, done |-> done]
  /\ Routines["pmp_napot"] = [main |-> pmp_napot_main, handler |-> pmp_napot_handler, done |-> done]
  /\ Routines["pmp_tor"] = [main |-> pmp_tor_main, handler |-> pmp_tor_handler, done |-> done]
BY DEF Routines, Direct

LEMMA MCode ==
  ASSUME prog \in Machines
  PROVE  /\ pc = <<"handler", 1>> => Insn = Skip
         /\ \A j \in 2 .. (HLast - 2) : pc = <<"handler", j>> =>
              Insn = Store(Magic, 0) \/ Insn = Csrr("mtval")
         /\ pc = <<"handler", HLast - 1>> =>
              \/ prog = "ecall" /\ Insn = Store(Flag, 1)
              \/ prog = "pma" /\ Insn = Store(Flag, 2)
              \/ prog \in Pmps /\ Insn = Subtract(1)
         /\ pc = <<"handler", HLast>> => Insn = Mret
         /\ pc = <<"main", MLast>> => Insn = Return
         /\ pc = <<"done", 1>> => Insn = Do("x28")
         /\ pc = <<"done", 2>> => Insn = Do("loop")
<1>1. CASE prog = "ecall"
  <2>1. HLast = 4 /\ MLast = 6 /\ Routines[prog] = [main |-> ecall_main, handler |-> ecall_handler, done |-> done]
    BY <1>1, MRoutines DEF HLast, MLast
  <2>2. /\ pc = <<"handler", 1>> => Insn = ecall_handler[1]
        /\ pc = <<"handler", 2>> => Insn = ecall_handler[2]
        /\ pc = <<"handler", 3>> => Insn = ecall_handler[3]
        /\ pc = <<"handler", 4>> => Insn = ecall_handler[4]
        /\ pc = <<"handler", 5>> => Insn = ecall_handler[5]
        /\ pc = <<"main", 6>> => Insn = ecall_main[6]
        /\ pc = <<"done", 1>> => Insn = done[1]
        /\ pc = <<"done", 2>> => Insn = done[2]
    BY <2>1 DEF Insn
  <2>3. ecall_main[6] = Return
    BY SMT DEF ecall_main
  <2>4. \A j \in 2 .. (HLast - 2) : j = 2
    BY <2>1
  <2> QED
    BY <1>1, <2>1, <2>2, <2>3, <2>4 DEF ecall_handler, done, Message, SetFlag, Store, Pmps
<1>2. CASE prog = "pma"
  <2>1. HLast = 4 /\ MLast = 6 /\ Routines[prog] = [main |-> pma_main, handler |-> pma_handler, done |-> done]
    BY <1>2, MRoutines DEF HLast, MLast
  <2>2. /\ pc = <<"handler", 1>> => Insn = pma_handler[1]
        /\ pc = <<"handler", 2>> => Insn = pma_handler[2]
        /\ pc = <<"handler", 3>> => Insn = pma_handler[3]
        /\ pc = <<"handler", 4>> => Insn = pma_handler[4]
        /\ pc = <<"handler", 5>> => Insn = pma_handler[5]
        /\ pc = <<"main", 6>> => Insn = pma_main[6]
        /\ pc = <<"done", 1>> => Insn = done[1]
        /\ pc = <<"done", 2>> => Insn = done[2]
    BY <2>1 DEF Insn
  <2>3. pma_main[6] = Return
    BY SMT DEF pma_main
  <2>4. \A j \in 2 .. (HLast - 2) : j = 2
    BY <2>1
  <2> QED
    BY <1>2, <2>1, <2>2, <2>3, <2>4 DEF pma_handler, done, Message, SetFlag, Store, Pmps
<1>3. CASE prog = "pmp_na4"
  <2>1. HLast = 4 /\ MLast = 15 /\ Routines[prog] = [main |-> pmp_na4_main, handler |-> pmp_na4_handler, done |-> done]
    BY <1>3, MRoutines DEF HLast, MLast
  <2>2. /\ pc = <<"handler", 1>> => Insn = pmp_na4_handler[1]
        /\ pc = <<"handler", 2>> => Insn = pmp_na4_handler[2]
        /\ pc = <<"handler", 3>> => Insn = pmp_na4_handler[3]
        /\ pc = <<"handler", 4>> => Insn = pmp_na4_handler[4]
        /\ pc = <<"handler", 5>> => Insn = pmp_na4_handler[5]
        /\ pc = <<"main", 15>> => Insn = pmp_na4_main[15]
        /\ pc = <<"done", 1>> => Insn = done[1]
        /\ pc = <<"done", 2>> => Insn = done[2]
    BY <2>1 DEF Insn
  <2>3. pmp_na4_main[15] = Return
    BY SMT DEF pmp_na4_main
  <2>4. \A j \in 2 .. (HLast - 2) : j = 2
    BY <2>1
  <2> QED
    BY <1>3, <2>1, <2>2, <2>3, <2>4 DEF pmp_na4_handler, done, Message, Pmps
<1>4. CASE prog = "pmp_napot"
  <2>1. HLast = 5 /\ MLast = 19 /\ Routines[prog] = [main |-> pmp_napot_main, handler |-> pmp_napot_handler, done |-> done]
    BY <1>4, MRoutines DEF HLast, MLast
  <2>2. /\ pc = <<"handler", 1>> => Insn = pmp_napot_handler[1]
        /\ pc = <<"handler", 2>> => Insn = pmp_napot_handler[2]
        /\ pc = <<"handler", 3>> => Insn = pmp_napot_handler[3]
        /\ pc = <<"handler", 4>> => Insn = pmp_napot_handler[4]
        /\ pc = <<"handler", 5>> => Insn = pmp_napot_handler[5]
        /\ pc = <<"main", 19>> => Insn = pmp_napot_main[19]
        /\ pc = <<"done", 1>> => Insn = done[1]
        /\ pc = <<"done", 2>> => Insn = done[2]
    BY <2>1 DEF Insn
  <2>3. pmp_napot_main[19] = Return
    BY SMT DEF pmp_napot_main
  <2>4. \A j \in 2 .. (HLast - 2) : j = 2 \/ j = 3
    BY <2>1
  <2> QED
    BY <1>4, <2>1, <2>2, <2>3, <2>4 DEF pmp_napot_handler, done, Message, Pmps
<1>5. CASE prog = "pmp_tor"
  <2>1. HLast = 5 /\ MLast = 21 /\ Routines[prog] = [main |-> pmp_tor_main, handler |-> pmp_tor_handler, done |-> done]
    BY <1>5, MRoutines DEF HLast, MLast
  <2>2. /\ pc = <<"handler", 1>> => Insn = pmp_tor_handler[1]
        /\ pc = <<"handler", 2>> => Insn = pmp_tor_handler[2]
        /\ pc = <<"handler", 3>> => Insn = pmp_tor_handler[3]
        /\ pc = <<"handler", 4>> => Insn = pmp_tor_handler[4]
        /\ pc = <<"handler", 5>> => Insn = pmp_tor_handler[5]
        /\ pc = <<"main", 21>> => Insn = pmp_tor_main[21]
        /\ pc = <<"done", 1>> => Insn = done[1]
        /\ pc = <<"done", 2>> => Insn = done[2]
    BY <2>1 DEF Insn
  <2>3. pmp_tor_main[21] = Return
    BY SMT DEF pmp_tor_main
  <2>4. \A j \in 2 .. (HLast - 2) : j = 2 \/ j = 3
    BY <2>1
  <2> QED
    BY <1>5, <2>1, <2>2, <2>3, <2>4 DEF pmp_tor_handler, done, Message, Pmps
<1> QED
  BY <1>1, <1>2, <1>3, <1>4, <1>5 DEF Machines, Pmps

\* The step of a line of main that traps.
LEMMA MTrap ==
  ASSUME prog \in Machines, Steady, NEW t \in MTraps, MMainAt(t), Next, Cause \in {"env_m", "fault_s"}
  PROVE  MInv'
<1>1. prog' = prog /\ HLast \in {4, 5} /\ t \in Nat
  BY ProgStays, MSizes
<1>2. /\ mode = "M" /\ mtvec = "direct" /\ mstatus = MStatus(t) /\ flag = MFlag(t) /\ pc = <<"main", t>>
      /\ pmpcfg = MCfg(t) /\ pmpaddr = MAddr(t) /\ MVec(t) = "direct" /\ MStatus(t) \in {{"mie"}, {"mprv"}, {}}
  BY MTrapped DEF MMainAt, MState
<1>3. Exception
  BY StepTraps DEF Interrupt, InterruptFired, Steady
<1>4. Trap(Cause, "handler", pc) /\ resume' = <<"main", t + 1>>
  BY <1>2, <1>3 DEF Exception, Dispatch, Next1
<1>5. /\ mode' = "M" /\ mepc' = pc /\ pc' = <<"handler", 1>>
      /\ mstatus' = (MStatus(t) \ {"mie"}) \cup {"mpp"} \cup (IF "mie" \in MStatus(t) THEN {"mpie"} ELSE {})
      /\ x28' = x28 /\ mie' = mie /\ mtvec' = mtvec /\ flag' = flag
      /\ elapsed' = elapsed /\ ext' = ext /\ mtimecmp' = mtimecmp /\ mtimecmph' = mtimecmph
      /\ msip' = msip /\ pmpcfg' = pmpcfg /\ pmpaddr' = pmpaddr
  BY <1>2, <1>4 DEF Trap, Goto, device, pmp
<1>6. MHandlerAt(t, 1)'
  BY <1>1, <1>2, <1>4, <1>5, MSame DEF MHandlerAt, MState
<1>7. Steady'
  BY <1>5, SteadyStays DEF Steady
<1>8. t \in MTraps' /\ 1 \in 1 .. HLast'
  BY <1>1, MSame
<1> QED
  BY <1>6, <1>7, <1>8 DEF MInv

\* No line of a handler traps.
LEMMA MHandlerQuiet ==
  ASSUME prog \in Machines, Steady, NEW t \in MTraps, NEW j \in 1 .. HLast, MHandlerAt(t, j)
  PROVE  Cause = "none" /\ ~InterruptFired
<1>1. mode = "M" /\ MState(t) /\ t \in Nat /\ ~Checked /\ pc = <<"handler", j>>
  BY MSizes DEF MHandlerAt, MState, Checked
<1>2. \/ Insn \in {Skip, Mret, Csrr("mtval"), Subtract(1)}
      \/ \E a \in {Flag, Magic} : \E v : Insn = Store(a, v)
  <2>1. j = 1 \/ j \in 2 .. (HLast - 2) \/ j = HLast - 1 \/ j = HLast
    BY MSizes
  <2> QED
    BY <1>1, <2>1, MCode
<1>3. Harmless(Insn) /\ DataWord \in {Text, Flag, Magic}
  BY <1>2, Words, Places, SMT DEF Harmless, Skip, Mret, Csrr, Subtract, Store, Do
<1>4. Free(Text) /\ Free(DataWord)
  BY <1>1, <1>3, MFree
<1>5. Cause = "none"
  BY <1>1, <1>3, <1>4, NoCause
<1> QED
  BY <1>5 DEF InterruptFired, Steady

LEMMA MHandler ==
  ASSUME prog \in Machines, Steady, NEW t \in MTraps, NEW j \in 1 .. HLast, MHandlerAt(t, j), Next
  PROVE  MInv'
<1>1. prog' = prog /\ HLast \in {4, 5} /\ t \in Nat /\ t + 1 \in 1 .. MLast /\ ext \in BOOLEAN
  BY ProgStays, MSizes DEF Steady
<1>2. Cause = "none" /\ ~InterruptFired
  BY MHandlerQuiet
<1>3. /\ pc = <<"handler", j>> /\ mode = "M" /\ mtvec = "direct" /\ pmpcfg = MCfg(t) /\ pmpaddr = MAddr(t)
      /\ mstatus = (MStatus(t) \ {"mie"}) \cup {"mpp"} \cup (IF "mie" \in MStatus(t) THEN {"mpie"} ELSE {})
      /\ flag = MFlag(IF j = HLast THEN t + 1 ELSE t)
      /\ resume = <<"main", t + 1>> /\ mepc = <<"main", IF j = 1 THEN t ELSE t + 1>>
      /\ pc[1] = "handler" /\ pc[2] = j
  BY DEF MHandlerAt, MState
<1>4. MVec(t) = "direct"
  BY MTrapped
<1>5. ASSUME mode' = mode, mtvec' = mtvec, pmpcfg' = pmpcfg, pmpaddr' = pmpaddr, mstatus' = mstatus,
             resume' = resume, x28' = x28, mie' = mie, elapsed' = elapsed, ext' = ext,
             mtimecmp' = mtimecmp, mtimecmph' = mtimecmph, msip' = msip,
             pc' = <<"handler", j + 1>>, j < HLast,
             mepc' = <<"main", t + 1>>, flag' = MFlag(IF j + 1 = HLast THEN t + 1 ELSE t)
      PROVE  MInv'
  <2>1. MHandlerAt(t, j + 1)'
    BY <1>1, <1>3, <1>4, <1>5, MSame DEF MHandlerAt, MState
  <2>2. Steady'
    BY <1>5, SteadyStays DEF Steady
  <2>3. t \in MTraps' /\ j + 1 \in 1 .. HLast'
    BY <1>1, <1>5, MSame
  <2> QED
    BY <2>1, <2>2, <2>3 DEF MInv
<1>6. CASE j = 1
  <2>1. Insn = Skip
    BY <1>3, <1>6, MCode
  <2>2. /\ mepc' = <<mepc[1], mepc[2] + 1>> /\ pc' = <<pc[1], pc[2] + 1>>
        /\ UNCHANGED <<x28, mode, mstatus, mie, mtvec, mcause, flag, elapsed, device, history, pmp>>
    BY <1>2, <2>1, Skipped
  <2> QED
    BY <1>1, <1>3, <1>5, <1>6, <2>2 DEF device, history, pmp
<1>7. CASE j \in 2 .. (HLast - 2)
  <2>1. Insn = Store(Magic, 0) \/ Insn = Csrr("mtval")
    BY <1>3, <1>7, MCode
  <2>2. Magic # Flag /\ Magic \notin {Mtimecmp, Mtimecmph, Msip, ExtSet, ExtClear}
    BY Places, SMT
  <2>3. pc' = <<pc[1], pc[2] + 1>> /\ UNCHANGED <<x28, csrs, flag, elapsed, device, history, pmp>>
    <3>1. CASE Insn = Store(Magic, 0)
      BY <1>1, <1>2, <2>2, <3>1, StoredBeside
    <3>2. CASE Insn = Csrr("mtval")
      BY <1>2, <3>2, CsrRead
    <3> QED
      BY <2>1, <3>1, <3>2
  <2> QED
    BY <1>1, <1>3, <1>5, <1>7, <2>3 DEF csrs, device, history, pmp
<1>8. CASE j = HLast - 1
  <2>1. /\ flag' = MFlag(t + 1) /\ pc' = <<pc[1], pc[2] + 1>>
        /\ UNCHANGED <<x28, csrs, elapsed, device, history, pmp>>
    <3>1. Flag \notin {Mtimecmp, Mtimecmph, Msip, ExtSet, ExtClear}
      BY Places, SMT
    <3>2. CASE prog \in {"ecall", "pma"}
      <4>1. Insn = Store(Flag, IF prog = "ecall" THEN 1 ELSE 2)
        BY <1>3, <1>8, <3>2, MCode DEF Pmps
      <4>2. MFlag(t + 1) = (IF prog = "ecall" THEN 1 ELSE 2)
        BY <3>2, MTrapped
      <4> QED
        BY <1>1, <1>2, <3>1, <4>1, <4>2, StoredBeside
    <3>3. CASE prog \in Pmps
      <4>1. Insn = Subtract(1)
        BY <1>3, <1>8, <3>3, MCode DEF Pmps
      <4>2. flag = MFlag(t) /\ MFlag(t + 1) = MFlag(t) - 1
        BY <1>1, <1>3, <1>8, <3>3, MTrapped DEF Pmps
      <4> QED
        BY <1>2, <4>1, <4>2, Subtracted
    <3> QED
      BY <3>2, <3>3 DEF Machines
  <2> QED
    BY <1>1, <1>3, <1>5, <1>8, <2>1 DEF csrs, device, history, pmp
<1>9. CASE j = HLast
  <2>1. Insn = Mret
    BY <1>3, <1>9, MCode
  <2>2. /\ mode' = (IF "mpp" \in mstatus THEN "M" ELSE "U")
        /\ mstatus' = (mstatus \ ({"mie", "mpie", "mpp"}
                                    \cup IF "mpp" \in mstatus THEN {} ELSE {"mprv"}))
                         \cup (IF "mpie" \in mstatus THEN {"mie"} ELSE {})
        /\ pc' = mepc /\ resume' = <<"zero", 1>>
        /\ UNCHANGED <<x28, mie, mtvec, mcause, mepc, flag, elapsed, device, entered, pmp>>
    BY <1>2, <2>1, Left
  <2>3. MStatus(t) \in {{"mie"}, {"mprv"}, {}} /\ MStatus(t + 1) = MStatus(t)
    BY MTrapped
  <2>4. mode' = "M" /\ mstatus' = MStatus(t + 1)
    BY <1>3, <2>2, <2>3
  <2>5. /\ mtvec' = MVec(t + 1) /\ pmpcfg' = MCfg(t + 1) /\ pmpaddr' = MAddr(t + 1)
        /\ flag' = MFlag(t + 1) /\ pc' = <<"main", t + 1>>
    BY <1>1, <1>3, <1>9, <2>2, MTrapped DEF pmp
  <2>6. MMainAt(t + 1)'
    BY <1>1, <2>2, <2>4, <2>5, MSame DEF MMainAt, MState
  <2>7. Steady'
    BY <2>2, SteadyStays DEF Steady, device
  <2>8. t + 1 \in 1 .. MLast'
    BY <1>1, MSame
  <2> QED
    BY <2>6, <2>7, <2>8 DEF MInv
<1> QED
  BY <1>1, <1>6, <1>7, <1>8, <1>9

\* How the line after line k of main follows from the operation at line k.
Devices == {Mtimecmp, Mtimecmph, Msip, ExtSet, ExtClear}
SameCsrs(k) == MStatus(k + 1) = MStatus(k) /\ MVec(k + 1) = MVec(k)
SameFlag(k) == MFlag(k + 1) = MFlag(k)
SameProtection(k) == MCfg(k + 1) = MCfg(k) /\ MAddr(k + 1) = MAddr(k)

Sets(k) == /\ \E c \in {"mstatus", "mtvec"} : \E v :
                /\ Insn = Csrw(c, v)
                /\ MStatus(k + 1) = (IF c = "mstatus" THEN v ELSE MStatus(k))
                /\ MVec(k + 1) = (IF c = "mtvec" THEN v ELSE MVec(k))
           /\ SameFlag(k) /\ SameProtection(k)
Clears(k) == /\ \E v : Insn = Csrc("mstatus", v) /\ MStatus(k + 1) = MStatus(k) \ v
             /\ MVec(k + 1) = MVec(k) /\ SameFlag(k) /\ SameProtection(k)
Puts(k) == /\ \E a, v : /\ Insn = Store(a, v) /\ a \notin Devices
                           /\ MFlag(k + 1) = (IF a = Flag THEN v ELSE MFlag(k))
              /\ SameCsrs(k) /\ SameProtection(k)
Counts(k) == /\ \E n : Insn = Subtract(n) /\ MFlag(k + 1) = MFlag(k) - n
             /\ SameCsrs(k) /\ SameProtection(k)
Configures(k) ==
  /\ \E b3, b2, b1, b0 :
       /\ Insn = Csrw("pmpcfg0", Word(b3, b2, b1, b0)) /\ MCfg(k) = CfgOf({}, {}, {}, {})
       /\ MCfg(k + 1) = CfgOf(Legal(Byte(b0)), Legal(Byte(b1)), Legal(Byte(b2)), Legal(Byte(b3)))
  /\ SameCsrs(k) /\ SameFlag(k) /\ MAddr(k + 1) = MAddr(k)
Adds(k) ==
  /\ \E b3, b2, b1, b0, c3, c2, c1, c0 :
       /\ Insn = Csrs("pmpcfg0", Word(b3, b2, b1, b0)) /\ MCfg(k) = CfgOf(c0, c1, c2, c3)
       /\ L \notin c0 /\ L \notin c1 /\ L \notin c2 /\ L \notin c3
       /\ MCfg(k + 1) = CfgOf(Legal(c0 \cup Byte(b0)), Legal(c1 \cup Byte(b1)),
                              Legal(c2 \cup Byte(b2)), Legal(c3 \cup Byte(b3)))
  /\ SameCsrs(k) /\ SameFlag(k) /\ MAddr(k + 1) = MAddr(k)
Addresses(k) ==
  /\ \E c, v, a3, a2, a1, a0 :
       /\ c \in {"pmpaddr0", "pmpaddr1", "pmpaddr2", "pmpaddr3"}
       /\ Insn = Csrw(c, v) /\ MAddr(k) = AddrOf(a0, a1, a2, a3)
       /\ MAddr(k + 1) = AddrOf(IF c = "pmpaddr0" THEN v ELSE a0, IF c = "pmpaddr1" THEN v ELSE a1,
                                IF c = "pmpaddr2" THEN v ELSE a2, IF c = "pmpaddr3" THEN v ELSE a3)
  /\ \A n \in Entry : ~Locked(n)
  /\ SameCsrs(k) /\ SameFlag(k) /\ MCfg(k + 1) = MCfg(k)

LEMMA MFollows ==
  ASSUME prog \in Machines, Steady, NEW k \in Nat, k >= 1, k < MLast, MMainAt(k), Next,
         Cause = "none", ~InterruptFired,
         \/ Sets(k) \/ Clears(k) \/ Puts(k) \/ Counts(k)
         \/ Configures(k) \/ Adds(k) \/ Addresses(k)
  PROVE  MInv'
<1>1. prog' = prog /\ ext \in BOOLEAN /\ MLast \in Nat
  BY ProgStays, MSizes DEF Steady
<1>2. /\ pc = <<"main", k>> /\ pc[1] = "main" /\ pc[2] = k /\ mode = "M" /\ mtvec = MVec(k)
      /\ pmpcfg = MCfg(k) /\ pmpaddr = MAddr(k) /\ mstatus = MStatus(k) /\ flag = MFlag(k)
      /\ resume = <<"zero", 1>>
  BY DEF MMainAt, MState
<1>3. ASSUME mode' = mode, mtvec' = MVec(k + 1), pmpcfg' = MCfg(k + 1), pmpaddr' = MAddr(k + 1),
             mstatus' = MStatus(k + 1), resume' = resume, flag' = MFlag(k + 1), pc' = <<"main", k + 1>>,
             x28' = x28, mie' = mie, elapsed' = elapsed, UNCHANGED device
      PROVE  MInv'
  <2>1. MMainAt(k + 1)'
    BY <1>1, <1>2, <1>3, MSame DEF MMainAt, MState
  <2>2. Steady'
    BY <1>3, SteadyStays DEF Steady, device
  <2>3. k + 1 \in 1 .. MLast'
    BY <1>1, MSame
  <2> QED
    BY <2>1, <2>2, <2>3 DEF MInv
<1>4. CASE Sets(k)
  <2>1. PICK c, v : /\ c \in {"mstatus", "mtvec"} /\ Insn = Csrw(c, v)
                    /\ MStatus(k + 1) = (IF c = "mstatus" THEN v ELSE MStatus(k))
                    /\ MVec(k + 1) = (IF c = "mtvec" THEN v ELSE MVec(k))
    BY <1>4 DEF Sets
  <2>2. /\ mstatus' = (IF c = "mstatus" THEN v ELSE mstatus) /\ mtvec' = (IF c = "mtvec" THEN v ELSE mtvec)
        /\ mie' = mie /\ pc' = <<pc[1], pc[2] + 1>>
        /\ UNCHANGED <<x28, mode, mcause, flag, elapsed, device, history, pmp>>
    BY <2>1, CsrWritten DEF CsrNames
  <2> QED
    BY <1>2, <1>3, <1>4, <2>1, <2>2 DEF Sets, SameFlag, SameProtection, history, pmp
<1>5. CASE Clears(k)
  <2>1. PICK v : Insn = Csrc("mstatus", v) /\ MStatus(k + 1) = MStatus(k) \ v
    BY <1>5 DEF Clears
  <2>2. Insn.op # "csrs"
    BY <2>1 DEF Csrc
  <2>3. /\ mstatus' = mstatus \ v /\ pc' = <<pc[1], pc[2] + 1>>
        /\ UNCHANGED <<x28, mode, mie, mtvec, mcause, mepc, flag, elapsed, device, history, pmp>>
    BY <2>1, <2>2, CsrChanged
  <2> QED
    BY <1>2, <1>3, <1>5, <2>1, <2>3 DEF Clears, SameFlag, SameProtection, history, pmp
<1>6. CASE Puts(k)
  <2>1. PICK a, v : /\ Insn = Store(a, v) /\ a \notin Devices
                    /\ MFlag(k + 1) = (IF a = Flag THEN v ELSE MFlag(k))
    BY <1>6 DEF Puts
  <2>2. /\ flag' = (IF a = Flag THEN v ELSE flag) /\ pc' = <<pc[1], pc[2] + 1>>
        /\ UNCHANGED <<x28, csrs, elapsed, device, history, pmp>>
    BY <1>1, <2>1, StoredBeside DEF Devices
  <2> QED
    BY <1>2, <1>3, <1>6, <2>1, <2>2 DEF Puts, SameCsrs, SameProtection, csrs, history, pmp
<1>7. CASE Counts(k)
  <2>1. PICK n : Insn = Subtract(n) /\ MFlag(k + 1) = MFlag(k) - n
    BY <1>7 DEF Counts
  <2>2. /\ flag' = flag - n /\ pc' = <<pc[1], pc[2] + 1>>
        /\ UNCHANGED <<x28, csrs, elapsed, device, history, pmp>>
    BY <2>1, Subtracted
  <2> QED
    BY <1>2, <1>3, <1>7, <2>1, <2>2 DEF Counts, SameCsrs, SameProtection, csrs, history, pmp
<1>8. CASE Configures(k)
  <2>1. PICK b3, b2, b1, b0 :
          /\ Insn = Csrw("pmpcfg0", Word(b3, b2, b1, b0)) /\ MCfg(k) = CfgOf({}, {}, {}, {})
          /\ MCfg(k + 1) = CfgOf(Legal(Byte(b0)), Legal(Byte(b1)), Legal(Byte(b2)), Legal(Byte(b3)))
    BY <1>8 DEF Configures
  <2>2. /\ pmpcfg' = MCfg(k + 1)
        /\ pmpaddr' = pmpaddr /\ pc' = <<pc[1], pc[2] + 1>>
        /\ UNCHANGED <<x28, csrs, flag, elapsed, device, history>>
    BY <1>2, <2>1, CfgFirst
  <2> QED
    BY <1>2, <1>3, <1>8, <2>2 DEF Configures, SameCsrs, SameFlag, csrs, history
<1>9. CASE Adds(k)
  <2>1. PICK b3, b2, b1, b0, c3, c2, c1, c0 :
          /\ Insn = Csrs("pmpcfg0", Word(b3, b2, b1, b0)) /\ MCfg(k) = CfgOf(c0, c1, c2, c3)
          /\ L \notin c0 /\ L \notin c1 /\ L \notin c2 /\ L \notin c3
          /\ MCfg(k + 1) = CfgOf(Legal(c0 \cup Byte(b0)), Legal(c1 \cup Byte(b1)),
                              Legal(c2 \cup Byte(b2)), Legal(c3 \cup Byte(b3)))
    BY <1>9 DEF Adds
  <2>2. Insn.op = "csrs" /\ pmpcfg = CfgOf(c0, c1, c2, c3)
    BY <1>2, <2>1 DEF Csrs
  <2>3. /\ pmpcfg' = MCfg(k + 1)
        /\ pmpaddr' = pmpaddr /\ pc' = <<pc[1], pc[2] + 1>>
        /\ UNCHANGED <<x28, csrs, flag, elapsed, device, history>>
    BY <2>1, <2>2, CfgSet
  <2> QED
    BY <1>2, <1>3, <1>9, <2>3 DEF Adds, SameCsrs, SameFlag, csrs, history
<1>10. CASE Addresses(k)
  <2>1. PICK c, v, a3, a2, a1, a0 :
          /\ c \in {"pmpaddr0", "pmpaddr1", "pmpaddr2", "pmpaddr3"}
          /\ Insn = Csrw(c, v) /\ MAddr(k) = AddrOf(a0, a1, a2, a3)
          /\ MAddr(k + 1) = AddrOf(IF c = "pmpaddr0" THEN v ELSE a0, IF c = "pmpaddr1" THEN v ELSE a1,
                                IF c = "pmpaddr2" THEN v ELSE a2, IF c = "pmpaddr3" THEN v ELSE a3)
    BY <1>10 DEF Addresses
  <2>2. /\ pmpaddr' = MAddr(k + 1)
        /\ pmpcfg' = pmpcfg /\ pc' = <<pc[1], pc[2] + 1>>
        /\ UNCHANGED <<x28, csrs, flag, elapsed, device, history>>
    BY <1>2, <1>10, <2>1, AddrSet DEF Addresses
  <2> QED
    BY <1>2, <1>3, <1>10, <2>2 DEF Addresses, SameCsrs, SameFlag, csrs, history
<1> QED
  BY <1>4, <1>5, <1>6, <1>7, <1>8, <1>9, <1>10

\* The last step of main, and start.S.
LEMMA MReturns ==
  ASSUME prog \in Machines, Steady, MMainAt(MLast) \/ MDoneAt, Next
  PROVE  MInv'
<1>1. prog' = prog /\ MLast \in {6, 15, 19, 21} /\ mtime \in Int /\ x28 \in Int
  BY ProgStays, MSizes DEF Steady
<1>2. MFlag(MLast) = 1
  BY DEF MFlag, MLast, Machines, Pmps
<1>3. /\ mode = "M" /\ MState(MLast) /\ mstatus = MStatus(MLast) /\ resume = <<"zero", 1>> /\ flag = 1
  BY <1>2 DEF MMainAt, MDoneAt, MState
<1>4. /\ pc \in {<<"main", MLast>>, <<"done", 1>>, <<"done", 2>>}
      /\ pc = <<"done", 2>> => x28 = 1
  BY DEF MMainAt, MDoneAt
<1>5. \/ pc = <<"main", MLast>> /\ Insn = Do("return")
      \/ pc = <<"done", 1>> /\ Insn = Do("x28")
      \/ pc = <<"done", 2>> /\ Insn = Do("loop")
  BY <1>4, MCode DEF Return
<1>6. Cause = "none" /\ ~InterruptFired
  <2>1. Harmless(Insn) /\ DataWord \in {Text, Flag}
    BY <1>5, Words DEF Harmless, Do
  <2>2. Free(Text) /\ Free(Flag)
    BY <1>1, <1>3, MFree
  <2>3. ~Checked
    BY <1>1, <1>3 DEF Checked, MStatus, MLast, Machines, Pmps, MprvOff, MprvOn
  <2>4. Cause = "none"
    BY <1>3, <2>1, <2>2, <2>3, NoCause
  <2> QED
    BY <2>4 DEF InterruptFired, Steady
<1>7. /\ pc' \in {"done"} \X (1 .. 2) /\ (pc'[2] = 2 => x28' = 1) /\ x28' \in Int
      /\ UNCHANGED <<csrs, flag, elapsed, device, history, pmp>>
  <2>1. CASE pc = <<"main", MLast>> /\ Insn = Do("return")
    BY <1>1, <1>6, <2>1, Done
  <2>2. CASE pc = <<"done", 1>> /\ Insn = Do("x28")
    BY <1>1, <1>3, <1>6, <2>2, Done
  <2>3. CASE pc = <<"done", 2>> /\ Insn = Do("loop")
    BY <1>1, <1>4, <1>6, <2>3, Done
  <2> QED
    BY <1>5, <2>1, <2>2, <2>3
<1>8. MDoneAt'
  BY <1>1, <1>3, <1>7, MSame DEF MDoneAt, MState, csrs, history, pmp
<1>9. Steady'
  BY <1>7, SteadyStays DEF Steady, csrs, device
<1> QED
  BY <1>8, <1>9 DEF MInv

\* ecall.c and pma.c, line by line.
LEMMA SimpleCode ==
  ASSUME prog \in {"ecall", "pma"}
  PROVE  /\ pc = <<"main", 1>> => Insn = Csrw("mstatus", {"mie"})
         /\ pc = <<"main", 2>> => Insn = Csrw("mtvec", "direct")
         /\ pc = <<"main", 3>> => Insn = (IF prog = "ecall" THEN Store(Magic, 0) ELSE Store(Rom, 1))
         /\ pc = <<"main", 4>> => Insn = (IF prog = "ecall" THEN Do("ecall") ELSE Store(Ram, 1))
         /\ pc = <<"main", 5>> => Insn = (IF prog = "ecall" THEN Store(Magic, 0) ELSE Subtract(1))
BY MRoutines, SMT DEF Insn, ecall_main, pma_main, Message

\* The three tests of memory protection are built alike.
Targets == {Bad, Bad + 4, Bad + 8}

LEMMA PmpCode ==
  ASSUME prog \in Pmps
  PROVE  /\ pc = <<"main", 1>> => Insn = Csrw("mtvec", "direct")
         /\ pc = <<"main", 2>> => Insn = Store(Flag, MFlag(3))
         /\ pc = <<"main", 3>> =>
              Insn = Csrw("pmpcfg0", IF prog = "pmp_tor" THEN Word(31, 31, 0, 0) ELSE Word(0, 31, 31, 0))
         /\ pc = <<"main", 4>> =>
              Insn = Csrw(IF prog = "pmp_tor" THEN "pmpaddr2" ELSE "pmpaddr1", ProgramRegion)
         /\ pc = <<"main", 5>> =>
              Insn = Csrw(IF prog = "pmp_tor" THEN "pmpaddr3" ELSE "pmpaddr2", DeviceRegion)
         /\ pc = <<"main", 6>> =>
              Insn = Csrs("pmpcfg0", IF prog = "pmp_na4" THEN Word(0, 0, 0, 16)
                                     ELSE IF prog = "pmp_napot" THEN Word(0, 0, 0, 24) ELSE Word(0, 0, 8, 0))
         /\ pc = <<"main", 7>> =>
              Insn = (IF prog = "pmp_na4" THEN Csrw("pmpaddr0", Bad)
                      ELSE IF prog = "pmp_napot" THEN Csrw("pmpaddr0", Bad + 7) ELSE Csrw("pmpaddr1", Bad + 8))
         /\ pc = <<"main", 8>> /\ prog = "pmp_tor" => Insn = Csrw("pmpaddr0", Bad)
         /\ pc = <<"main", MprvOn>> => Insn = Csrw("mstatus", {"mprv"})
         /\ pc = <<"main", MprvOff>> => Insn = Csrc("mstatus", {"mprv"})
         /\ pc = <<"main", MprvOff + 1>> =>
              Insn = Csrs("pmpcfg0", IF prog = "pmp_na4" THEN Word(0, 0, 0, 144)
                                     ELSE IF prog = "pmp_napot" THEN Word(0, 0, 0, 152) ELSE Word(0, 0, 128, 0))
<1>1. CASE prog = "pmp_na4"
  <2>1. MprvOn = 10 /\ MprvOff = 12 /\ MFlag(3) = 4
    BY <1>1 DEF MprvOn, MprvOff, MFlag, Pmps
  <2> QED
    BY <1>1, <2>1, MRoutines, SMT DEF Insn, pmp_na4_main, SetFlag, Store
<1>2. CASE prog = "pmp_napot"
  <2>1. MprvOn = 12 /\ MprvOff = 15 /\ MFlag(3) = 7
    BY <1>2 DEF MprvOn, MprvOff, MFlag, Pmps
  <2> QED
    BY <1>2, <2>1, MRoutines, SMT DEF Insn, pmp_napot_main, SetFlag, Store
<1>3. CASE prog = "pmp_tor"
  <2>1. MprvOn = 13 /\ MprvOff = 16 /\ MFlag(3) = 7
    BY <1>3 DEF MprvOn, MprvOff, MFlag, Pmps
  <2> QED
    BY <1>3, <2>1, MRoutines, SMT DEF Insn, pmp_tor_main, SetFlag, Store
<1> QED
  BY <1>1, <1>2, <1>3 DEF Pmps

\* The lines that count what the test stores have done.
Counting == IF prog = "pmp_na4" THEN {9} ELSE IF prog = "pmp_napot" THEN {9, 11} ELSE {10, 12, 20}

\* The stores that go through, and those that do not.
Storing == IF prog = "pmp_na4" THEN {8} ELSE IF prog = "pmp_napot" THEN {8, 10} ELSE {9, 11, 19}

LEMMA TestCode ==
  ASSUME prog \in Pmps
  PROVE  /\ \A k \in Counting : pc = <<"main", k>> => Insn = Subtract(1)
         /\ \A k \in Storing : pc = <<"main", k>> =>
              \E a \in Targets : \E v : Insn = Store(a, v) /\ (k = 19 => a = Bad + 8)
         /\ \A k \in MTraps : pc = <<"main", k>> =>
              \E a \in Targets : \E v :
                Insn = Store(a, v) /\ (k > MprvOff => a = (IF prog = "pmp_tor" \/ k = 18 THEN Bad + 4 ELSE Bad))
<1>1. CASE prog = "pmp_na4"
  <2>1. Counting = {9} /\ Storing = {8} /\ MTraps = {11, 14} /\ Routines[prog].main = pmp_na4_main
    BY <1>1, MRoutines DEF Counting, Storing, MTraps
  <2>2. /\ pmp_na4_main[9] = Subtract(1) /\ pmp_na4_main[8] = Store(Bad, 1)
        /\ pmp_na4_main[11] = Store(Bad, 2) /\ pmp_na4_main[14] = Store(Bad, 3)
    BY SMT DEF pmp_na4_main
  <2>3. \A k : pc = <<"main", k>> => Insn = pmp_na4_main[k]
    BY <1>1, MRoutines DEF Insn
  <2> QED
    BY <1>1, <2>1, <2>2, <2>3, SMT DEF Targets
<1>2. CASE prog = "pmp_napot"
  <2>1. Counting = {9, 11} /\ Storing = {8, 10} /\ MTraps = {13, 14, 17, 18} /\ MprvOff = 15
    BY <1>2 DEF Counting, Storing, MTraps, MprvOff
  <2>2. /\ pmp_napot_main[9] = Subtract(1) /\ pmp_napot_main[11] = Subtract(1)
        /\ pmp_napot_main[8] = Store(Bad, 1) /\ pmp_napot_main[10] = Store(Bad + 4, 1)
        /\ pmp_napot_main[13] = Store(Bad, 2) /\ pmp_napot_main[14] = Store(Bad + 4, 2)
        /\ pmp_napot_main[17] = Store(Bad, 3) /\ pmp_napot_main[18] = Store(Bad + 4, 3)
    BY SMT DEF pmp_napot_main
  <2>3. \A k : pc = <<"main", k>> => Insn = pmp_napot_main[k]
    BY <1>2, MRoutines DEF Insn
  <2> QED
    BY <1>2, <2>1, <2>2, <2>3, SMT DEF Targets
<1>3. CASE prog = "pmp_tor"
  <2>1. Counting = {10, 12, 20} /\ Storing = {9, 11, 19} /\ MTraps = {14, 15, 18} /\ MprvOff = 16
    BY <1>3 DEF Counting, Storing, MTraps, MprvOff
  <2>2. /\ pmp_tor_main[10] = Subtract(1) /\ pmp_tor_main[12] = Subtract(1) /\ pmp_tor_main[20] = Subtract(1)
        /\ pmp_tor_main[9] = Store(Bad + 4, 1) /\ pmp_tor_main[11] = Store(Bad + 8, 1)
        /\ pmp_tor_main[14] = Store(Bad + 4, 2) /\ pmp_tor_main[15] = Store(Bad + 8, 2)
        /\ pmp_tor_main[18] = Store(Bad + 4, 3) /\ pmp_tor_main[19] = Store(Bad + 8, 3)
    BY SMT DEF pmp_tor_main
  <2>3. \A k : pc = <<"main", k>> => Insn = pmp_tor_main[k]
    BY <1>3, MRoutines DEF Insn
  <2> QED
    BY <1>3, <2>1, <2>2, <2>3, SMT DEF Targets
<1> QED
  BY <1>1, <1>2, <1>3 DEF Pmps

\* A line of main that does not trap, outside the stretch with mprv.
LEMMA MQuiet ==
  ASSUME prog \in Machines, Steady, NEW k \in Nat, MMainAt(k), Harmless(Insn),
         prog \in Pmps => k <= MprvOn \/ k > MprvOff,
         \/ DataWord \in {Text, Flag} \/ prog \notin Pmps \/ k <= MprvOff + 1
         \/ prog = "pmp_tor" /\ DataWord = Bad + 8
  PROVE  Cause = "none" /\ ~InterruptFired
<1>1. mode = "M" /\ MState(k) /\ mstatus = MStatus(k)
  BY DEF MMainAt, MState
<1>2. ~Checked
  BY <1>1 DEF Checked, MStatus, MprvOn, MprvOff
<1>3. Free(Text) /\ Free(DataWord)
  BY <1>1, MFree
<1>4. Cause = "none"
  BY <1>1, <1>2, <1>3, NoCause
<1> QED
  BY <1>4 DEF InterruptFired, Steady

LEMMA SimpleMain ==
  ASSUME prog \in {"ecall", "pma"}, Steady, NEW k \in 1 .. 5, MMainAt(k), Next
  PROVE  MInv'
<1>1. /\ MLast = 6 /\ prog \in Machines /\ prog \notin Pmps /\ k \in Nat
      /\ MTraps = (IF prog = "ecall" THEN {4} ELSE {3})
  BY DEF MLast, Machines, Pmps, MTraps
<1>2. pc = <<"main", k>> /\ mode = "M" /\ mstatus = MStatus(k) /\ MState(k)
  BY DEF MMainAt, MState
<1>3. SameProtection(k)
  BY <1>1 DEF SameProtection, MCfg, MAddr
<1>4. CASE k \notin MTraps
  <2>1. Magic \notin Devices /\ Ram \notin Devices /\ Magic # Flag /\ Ram # Flag
    BY Places, SMT DEF Devices
  <2>2. Sets(k) \/ Puts(k) \/ Counts(k)
    <3>1. CASE k = 1
      <4>1. MStatus(2) = {"mie"} /\ MVec(2) = MVec(1) /\ MFlag(2) = MFlag(1)
        BY <1>1 DEF MStatus, MVec, MFlag
      <4> QED
        BY <1>2, <1>3, <3>1, <4>1, SimpleCode DEF Sets, SameFlag
    <3>2. CASE k = 2
      <4>1. MStatus(3) = MStatus(2) /\ MVec(3) = "direct" /\ MFlag(3) = MFlag(2)
        BY <1>1 DEF MStatus, MVec, MFlag
      <4> QED
        BY <1>2, <1>3, <3>2, <4>1, SimpleCode DEF Sets, SameFlag
    <3>3. CASE k \in {3, 4} \/ (k = 5 /\ prog = "ecall")
      <4>1. MStatus(k + 1) = MStatus(k) /\ MVec(k + 1) = MVec(k) /\ MFlag(k + 1) = MFlag(k)
        BY <1>1, <1>4, <3>3 DEF MStatus, MVec, MFlag
      <4>2. \E a \in {Magic, Ram} : \E v : Insn = Store(a, v)
        BY <1>1, <1>2, <1>4, <3>3, SimpleCode
      <4> QED
        BY <1>3, <2>1, <4>1, <4>2 DEF Puts, SameCsrs
    <3>4. CASE k = 5 /\ prog = "pma"
      <4>1. MStatus(6) = MStatus(5) /\ MVec(6) = MVec(5) /\ MFlag(6) = MFlag(5) - 1
        BY <1>1, <3>4 DEF MStatus, MVec, MFlag
      <4> QED
        BY <1>2, <1>3, <3>4, <4>1, SimpleCode DEF Counts, SameCsrs
    <3> QED
      BY <3>1, <3>2, <3>3, <3>4
  <2>3. Harmless(Insn)
    <3>1. \/ \E c \in {"mstatus", "mtvec"} : \E v : Insn = Csrw(c, v)
          \/ \E a \in {Magic, Ram} : \E v : Insn = Store(a, v)
          \/ Insn = Subtract(1)
      BY <1>1, <1>2, <1>4, SimpleCode
    <3> QED
      BY <3>1, Places, SMT DEF Harmless, Csrw, Store, Subtract
  <2>4. Cause = "none" /\ ~InterruptFired
    BY <1>1, <2>3, MQuiet
  <2> QED
    BY <1>1, <2>2, <2>4, MFollows
<1>5. CASE k \in MTraps
  <2>1. \A a : Free(a)
    BY <1>1, <1>2, MFree
  <2>2. ~Checked
    BY <1>1, <1>2 DEF Checked, MStatus
  <2>3. CASE prog = "ecall"
    <3>1. Insn = Do("ecall")
      BY <1>1, <1>2, <1>5, <2>3, SimpleCode
    <3>2. Cause = "env_m"
      BY <1>2, <2>1, <2>2, <3>1, EcallCause
    <3> QED
      BY <1>1, <1>5, <3>2, MTrap
  <2>4. CASE prog = "pma"
    <3>1. Insn = Store(Rom, 1)
      BY <1>1, <1>2, <1>5, <2>4, SimpleCode
    <3>2. Insn.op = "store" /\ DataWord = Rom /\ Stores /\ ~Loads
      BY <3>1, Words DEF Store, Stores, Loads
    <3>3. ~LoadFault /\ ~StoreFault /\ ~FetchFault(Text, DataWord, Checked) /\ ~Illegal
      BY <2>1, <2>2, <3>2 DEF LoadFault, StoreFault, FetchFault, DataFault, Hit, Free, Illegal, CsrOps
    <3>4. PmaStoreFault(Rom)
      BY Places, SMT DEF PmaStoreFault
    <3>5. Cause = "fault_s"
      BY <3>2, <3>3, <3>4 DEF Cause
    <3> QED
      BY <1>1, <1>5, <3>5, MTrap
  <2> QED
    BY <2>3, <2>4
<1> QED
  BY <1>4, <1>5

\* What the bytes make of the entries that they are written into.
LEMMA LegalBytes ==
  ASSUME NEW z, z = {}
  PROVE  /\ Legal(Byte(0)) = z /\ Legal(Byte(31)) = Rights /\ Legal(Rights \cup Byte(0)) = Rights
         /\ Legal(z \cup Byte(0)) = z /\ Legal(z \cup Byte(8)) = {3} /\ Legal(z \cup Byte(16)) = {4}
         /\ Legal(z \cup Byte(24)) = {3, 4} /\ Legal({3} \cup Byte(128)) = {3, L}
         /\ Legal({4} \cup Byte(144)) = {4, L} /\ Legal({3, 4} \cup Byte(152)) = {3, 4, L}
<1>1. R = 0 /\ W = 1 /\ X = 2 /\ L = 7 /\ Reserved = {5, 6} /\ Rights = {0, 1, 2, 3, 4}
  BY DEF R, W, X, L, Reserved, Rights
<1>2. /\ Legal(Byte(0)) = z /\ Legal(Byte(31)) = Rights /\ Legal(Rights \cup Byte(0)) = Rights
  BY <1>1, Bytes DEF Legal
<1>3. /\ Legal(z \cup Byte(0)) = z /\ Legal(z \cup Byte(8)) = {3} /\ Legal(z \cup Byte(16)) = {4}
      /\ Legal(z \cup Byte(24)) = {3, 4}
  BY <1>1, Bytes DEF Legal
<1>4. /\ Legal({3} \cup Byte(128)) = {3, L} /\ Legal({4} \cup Byte(144)) = {4, L}
      /\ Legal({3, 4} \cup Byte(152)) = {3, 4, L}
  BY <1>1, Bytes DEF Legal
<1> QED
  BY <1>2, <1>3, <1>4

LEMMA AddsBytes ==
  ASSUME NEW k, NEW b3, NEW b2, NEW b1, NEW b0, NEW c3, NEW c2, NEW c1, NEW c0,
         Insn = Csrs("pmpcfg0", Word(b3, b2, b1, b0)), MCfg(k) = CfgOf(c0, c1, c2, c3),
         L \notin c0, L \notin c1, L \notin c2, L \notin c3,
         MCfg(k + 1) = CfgOf(Legal(c0 \cup Byte(b0)), Legal(c1 \cup Byte(b1)),
                             Legal(c2 \cup Byte(b2)), Legal(c3 \cup Byte(b3))),
         SameCsrs(k), SameFlag(k), MAddr(k + 1) = MAddr(k)
  PROVE  Adds(k)
BY Zenon DEF Adds

\* The lines that set up the entries.
LEMMA PmpSetup ==
  ASSUME prog \in Pmps, Steady, NEW k \in 1 .. 8, k <= 7 \/ prog = "pmp_tor", MMainAt(k), Next
  PROVE  MInv'
<1>1. /\ prog \in Machines /\ k \in Nat /\ k < MLast /\ k <= MprvOn /\ k <= MprvOff + 1 /\ k + 1 <= MprvOff + 1
  BY DEF Machines, Pmps, MLast, MprvOn, MprvOff
<1>2. pc = <<"main", k>> /\ MState(k)
  BY DEF MMainAt
<1>3. k # 1 => SameCsrs(k)
  BY DEF SameCsrs, MStatus, MVec, Pmps, MprvOn
<1>4. k # 2 => SameFlag(k)
  BY DEF SameFlag, MFlag, Pmps
<1>5. k \notin {3, 6} => MCfg(k + 1) = MCfg(k)
  <2>1. k # 6 => MEntry(k + 1) = MEntry(k)
    BY <1>1 DEF MEntry
  <2> QED
    BY <2>1 DEF MCfg
<1>6. k \in {1, 2, 3, 6} => MAddr(k + 1) = MAddr(k)
  BY DEF MAddr, MProgram, MDevices
<1>7. PICK z : z = {}
  OBVIOUS
<1>8. \A n \in Entry : ~Locked(n)
  BY <1>1, <1>2, MOpen
<1>9. Flag \notin Devices
  BY Places, SMT DEF Devices
<1>10. CASE k = 1
  <2>1. /\ MStatus(2) = MStatus(1) /\ MVec(2) = "direct" /\ MFlag(2) = MFlag(1)
    BY DEF MStatus, MVec, MFlag, Pmps, MprvOn
  <2>2. Insn = Csrw("mtvec", "direct")
    BY <1>2, <1>10, PmpCode
  <2>3. Sets(k)
    BY <1>5, <1>6, <1>10, <2>1, <2>2 DEF Sets, SameFlag, SameProtection
  <2>4. Harmless(Insn)
    BY <2>2 DEF Harmless, Csrw
  <2> QED
    BY <1>1, <2>3, <2>4, MQuiet, MFollows
<1>11. CASE k = 2
  <2>1. Insn = Store(Flag, MFlag(3))
    BY <1>2, <1>11, PmpCode
  <2>2. Puts(k)
    BY <1>3, <1>5, <1>6, <1>9, <1>11, <2>1 DEF Puts, SameProtection
  <2>3. Harmless(Insn)
    BY <2>1, Places, SMT DEF Harmless, Store
  <2> QED
    BY <1>1, <2>2, <2>3, MQuiet, MFollows
<1>12. CASE k = 3
  <2>1. PICK b2, b1, b3 : /\ Insn = Csrw("pmpcfg0", Word(b3, b2, b1, 0)) /\ b2 = 31
                          /\ b3 = (IF prog = "pmp_tor" THEN 31 ELSE 0)
                          /\ b1 = (IF prog = "pmp_tor" THEN 0 ELSE 31)
    BY <1>2, <1>12, PmpCode
  <2>2. MCfg(3) = CfgOf(z, z, z, z)
    BY <1>7 DEF MCfg
  <2>3. MEntry(4) = z
    BY <1>1, <1>7, <1>12 DEF MEntry
  <2>4. MCfg(4) = CfgOf(Legal(Byte(0)), Legal(Byte(b1)), Legal(Byte(b2)), Legal(Byte(b3)))
    <3>1. Legal(Byte(0)) = z /\ Legal(Byte(31)) = Rights
      BY <1>7, LegalBytes
    <3>2. CASE prog = "pmp_tor"
      <4>1. MCfg(4) = CfgOf(z, z, Rights, Rights)
        BY <1>7, <2>3, <3>2 DEF MCfg
      <4> QED
        BY <2>1, <3>1, <3>2, <4>1
    <3>3. CASE prog # "pmp_tor"
      <4>1. MCfg(4) = CfgOf(z, Rights, Rights, z)
        BY <1>7, <2>3, <3>3 DEF MCfg
      <4> QED
        BY <2>1, <3>1, <3>3, <4>1
    <3> QED
      BY <3>2, <3>3
  <2>5. Configures(k)
    BY <1>3, <1>4, <1>6, <1>7, <1>12, <2>1, <2>2, <2>4 DEF Configures
  <2>6. Harmless(Insn)
    BY <2>1 DEF Harmless, Csrw
  <2> QED
    BY <1>1, <2>5, <2>6, MQuiet, MFollows
<1>13. CASE k \in {4, 5, 7, 8}
  <2>1. PICK c, v : /\ c \in {"pmpaddr0", "pmpaddr1", "pmpaddr2", "pmpaddr3"} /\ Insn = Csrw(c, v)
                    /\ \E a0, a1, a2, a3 :
                         /\ MAddr(k) = AddrOf(a0, a1, a2, a3)
                         /\ MAddr(k + 1) = AddrOf(IF c = "pmpaddr0" THEN v ELSE a0, IF c = "pmpaddr1" THEN v ELSE a1,
                                                IF c = "pmpaddr2" THEN v ELSE a2, IF c = "pmpaddr3" THEN v ELSE a3)
    <3>1. CASE prog = "pmp_tor"
      <4>1. MAddr(k) = AddrOf(0, IF k <= 7 THEN 0 ELSE Bad + 8, MProgram(k), MDevices(k))
        BY <3>1 DEF MAddr, Pmps
      <4>2. MAddr(k + 1) = AddrOf(IF k = 8 THEN Bad ELSE 0, IF k <= 6 THEN 0 ELSE Bad + 8, MProgram(k + 1), MDevices(k + 1))
        BY <3>1 DEF MAddr, Pmps
      <4>3. /\ MProgram(k + 1) = (IF k = 4 THEN ProgramRegion ELSE MProgram(k))
            /\ MDevices(k + 1) = (IF k = 5 THEN DeviceRegion ELSE MDevices(k))
        BY <1>13 DEF MProgram, MDevices
      <4>4. Insn = Csrw(IF k = 4 THEN "pmpaddr2" ELSE IF k = 5 THEN "pmpaddr3" ELSE IF k = 7 THEN "pmpaddr1" ELSE "pmpaddr0",
                        IF k = 4 THEN ProgramRegion ELSE IF k = 5 THEN DeviceRegion ELSE IF k = 7 THEN Bad + 8 ELSE Bad)
        BY <1>2, <1>13, <3>1, PmpCode
      <4> QED
        BY <1>13, <4>1, <4>2, <4>3, <4>4
    <3>2. CASE prog # "pmp_tor"
      <4>1. PICK b : b = (IF prog = "pmp_na4" THEN Bad ELSE Bad + 7)
        OBVIOUS
      <4>2. /\ MAddr(k) = AddrOf(0, MProgram(k), MDevices(k), 0)
            /\ MAddr(k + 1) = AddrOf(IF k = 7 THEN b ELSE 0, MProgram(k + 1), MDevices(k + 1), 0)
        BY <3>2, <4>1 DEF MAddr, Pmps
      <4>3. /\ MProgram(k + 1) = (IF k = 4 THEN ProgramRegion ELSE MProgram(k))
            /\ MDevices(k + 1) = (IF k = 5 THEN DeviceRegion ELSE MDevices(k))
        BY <1>13 DEF MProgram, MDevices
      <4>4. Insn = Csrw(IF k = 4 THEN "pmpaddr1" ELSE IF k = 5 THEN "pmpaddr2" ELSE "pmpaddr0",
                        IF k = 4 THEN ProgramRegion ELSE IF k = 5 THEN DeviceRegion ELSE b)
        BY <1>2, <1>13, <3>2, <4>1, PmpCode DEF Pmps
      <4> QED
        BY <1>13, <3>2, <4>2, <4>3, <4>4
    <3> QED
      BY <3>1, <3>2
  <2>2. Addresses(k)
    BY <1>3, <1>4, <1>5, <1>8, <1>13, <2>1 DEF Addresses
  <2>3. Harmless(Insn)
    BY <2>1 DEF Harmless, Csrw
  <2> QED
    BY <1>1, <2>2, <2>3, MQuiet, MFollows
<1>14. CASE k = 6
  <2>1. CASE prog = "pmp_tor"
    <3>1. Insn = Csrs("pmpcfg0", Word(0, 0, 8, 0))
      BY <1>2, <1>14, <2>1, PmpCode
    <3>2. MEntry(6) = z /\ MEntry(7) = {3}
      BY <1>1, <1>7, <1>14, <2>1 DEF MEntry
    <3>3. /\ MCfg(6) = CfgOf(z, z, Rights, Rights)
          /\ MCfg(7) = CfgOf(Legal(z \cup Byte(0)), Legal(z \cup Byte(8)),
                             Legal(Rights \cup Byte(0)), Legal(Rights \cup Byte(0)))
      <4>1. MCfg(6) = CfgOf(z, z, Rights, Rights) /\ MCfg(7) = CfgOf(z, {3}, Rights, Rights)
        BY <1>7, <2>1, <3>2 DEF MCfg
      <4>2. Legal(z \cup Byte(0)) = z /\ Legal(z \cup Byte(8)) = {3} /\ Legal(Rights \cup Byte(0)) = Rights
        BY <1>7, LegalBytes
      <4> QED
        BY <4>1, <4>2
    <3>4. L \notin z /\ L \notin Rights
      BY <1>7 DEF L, Rights, R, W, X
    <3>5. Adds(k)
      BY <1>3, <1>4, <1>6, <1>14, <3>1, <3>3, <3>4, AddsBytes
    <3>6. Harmless(Insn)
      BY <3>1 DEF Harmless, Csrs
    <3> QED
      BY <1>1, <3>5, <3>6, MQuiet, MFollows
  <2>2. CASE prog # "pmp_tor"
    <3>1. PICK b \in {16, 24} : /\ Insn = Csrs("pmpcfg0", Word(0, 0, 0, b))
                               /\ b = (IF prog = "pmp_na4" THEN 16 ELSE 24)
      <4>1. Insn = Csrs("pmpcfg0", IF prog = "pmp_na4" THEN Word(0, 0, 0, 16) ELSE Word(0, 0, 0, 24))
        BY <1>2, <1>14, <2>2, PmpCode DEF Pmps
      <4> QED
        BY <4>1
    <3>2. MEntry(6) = z /\ MEntry(7) = Legal(z \cup Byte(b))
      <4>1. MEntry(6) = z /\ MEntry(7) = (IF prog = "pmp_na4" THEN {4} ELSE {3, 4})
        BY <1>1, <1>7, <1>14, <2>2 DEF MEntry, Pmps
      <4> QED
        BY <1>7, <3>1, <4>1, LegalBytes
    <3>3. /\ MCfg(6) = CfgOf(z, Rights, Rights, z)
          /\ MCfg(7) = CfgOf(Legal(z \cup Byte(b)), Legal(Rights \cup Byte(0)),
                             Legal(Rights \cup Byte(0)), Legal(z \cup Byte(0)))
      <4>1. MCfg(6) = CfgOf(z, Rights, Rights, z) /\ MCfg(7) = CfgOf(MEntry(7), Rights, Rights, z)
        BY <1>7, <2>2, <3>2 DEF MCfg
      <4>2. Legal(z \cup Byte(0)) = z /\ Legal(Rights \cup Byte(0)) = Rights
        BY <1>7, LegalBytes
      <4> QED
        BY <3>2, <4>1, <4>2
    <3>4. L \notin z /\ L \notin Rights
      BY <1>7 DEF L, Rights, R, W, X
    <3>5. Adds(k)
      BY <1>3, <1>4, <1>6, <1>14, <3>1, <3>3, <3>4, AddsBytes
    <3>6. Harmless(Insn)
      BY <3>1 DEF Harmless, Csrs
    <3> QED
      BY <1>1, <3>5, <3>6, MQuiet, MFollows
  <2> QED
    BY <2>1, <2>2
<1> QED
  BY <1>10, <1>11, <1>12, <1>13, <1>14

\* The stores that go through, and their count.
LEMMA PmpStores ==
  ASSUME prog \in Pmps, Steady, NEW k \in Storing \cup Counting, MMainAt(k), Next
  PROVE  MInv'
<1>1. /\ prog \in Machines /\ k \in Nat /\ k >= 1 /\ k < MLast /\ k # MprvOff + 1
      /\ \/ k <= MprvOn /\ k + 1 <= MprvOn
         \/ k > MprvOff + 1 /\ prog = "pmp_tor" /\ k \in {19, 20}
  BY DEF Machines, Pmps, MLast, MprvOn, MprvOff, Storing, Counting
<1>2. pc = <<"main", k>> /\ MState(k)
  BY DEF MMainAt
<1>3. k >= 8 /\ (prog = "pmp_tor" => k >= 9) /\ MprvOn \in Nat /\ MprvOff \in Nat /\ MprvOn <= MprvOff
  BY DEF Pmps, MprvOn, MprvOff, Storing, Counting
<1>4. SameCsrs(k)
  BY <1>1, <1>3 DEF SameCsrs, MStatus, MVec
<1>5. SameProtection(k)
  <2>1. MEntry(k + 1) = MEntry(k)
    BY <1>1, <1>3 DEF MEntry
  <2>2. MCfg(k + 1) = MCfg(k)
    BY <1>1, <1>3, <2>1 DEF MCfg
  <2>3. MAddr(k + 1) = MAddr(k)
    BY <1>1, <1>3 DEF MAddr, MProgram, MDevices, Pmps
  <2> QED
    BY <2>2, <2>3 DEF SameProtection
<1>6. MFlag(k + 1) = (IF k \in Counting THEN MFlag(k) - 1 ELSE MFlag(k))
  BY DEF MFlag, Storing, Counting, Pmps
<1>7. CASE k \in Counting
  <2>1. Insn = Subtract(1)
    BY <1>2, <1>7, TestCode
  <2>2. Counts(k)
    BY <1>4, <1>5, <1>6, <1>7, <2>1 DEF Counts
  <2>3. Harmless(Insn) /\ DataWord = Flag
    BY <2>1, Words DEF Harmless, Subtract
  <2>4. prog \in Pmps => k <= MprvOn \/ k > MprvOff
    BY <1>1, <1>3
  <2>5. Cause = "none" /\ ~InterruptFired
    BY <1>1, <2>3, <2>4, MQuiet
  <2> QED
    BY <1>1, <2>2, <2>5, MFollows
<1>8. CASE k \notin Counting
  <2>1. PICK a, v : a \in Targets /\ Insn = Store(a, v) /\ (k = 19 => a = Bad + 8)
    BY <1>2, <1>8, TestCode
  <2>2. a \in Nat /\ a >= RomWords /\ a \notin Devices /\ a # Flag
    BY <2>1, Places, SMT DEF Targets, Devices
  <2>3. Puts(k)
    BY <1>4, <1>5, <1>6, <1>8, <2>1, <2>2 DEF Puts
  <2>4. Harmless(Insn) /\ DataWord = a
    BY <2>1, <2>2, Words DEF Harmless, Store
  <2>5. prog \in Pmps => k <= MprvOn \/ k > MprvOff
    BY <1>1, <1>3
  <2>6. k <= MprvOff + 1 \/ (prog = "pmp_tor" /\ DataWord = Bad + 8)
    BY <1>1, <1>3, <1>8, <2>1, <2>4 DEF Storing
  <2>7. Cause = "none" /\ ~InterruptFired
    BY <1>1, <2>4, <2>5, <2>6, MQuiet
  <2> QED
    BY <1>1, <2>3, <2>7, MFollows
<1> QED
  BY <1>7, <1>8

\* With mprv the program runs on: its own region is open to it.
LEMMA PmpFetch ==
  ASSUME prog \in Pmps, NEW k, Ready(k)
  PROVE  Checked => ~FetchFault(Text, DataWord, Checked)
<1>1. PICK t \in Entry : t + 1 \in Entry /\ t = Tested
  BY DEF Tested, Entry
<1>2. Matches(t + 1, Text) /\ X \in pmpcfg[t + 1]
  BY <1>1, MHits, Blocks DEF InProgram
<1>3. ~TestedWords(Text)
  BY Blocks, Places, SMT DEF TestedWords, InBlock, InRange
<1>4. \A m \in Entry : m < t + 1 => ~Matches(m, Text)
  <2>1. ASSUME NEW m \in Entry, m < t + 1 PROVE ~Matches(m, Text)
    <3>1. m = t \/ m \in Entry \ {t, t + 1, t + 2}
      BY <2>1 DEF Entry
    <3> QED
      BY <1>1, <1>3, <3>1, MHits
  <2> QED
    BY <2>1
<1>5. Hit(t + 1, Text)
  BY <1>2, <1>4 DEF Hit
<1> QED
  BY <1>1, <1>2, <1>5 DEF FetchFault

\* The lines that set and clear mprv.
LEMMA PmpMprv ==
  ASSUME prog \in Pmps, Steady, NEW k \in {MprvOn, MprvOff}, MMainAt(k), Next
  PROVE  MInv'
<1>1. /\ prog \in Machines /\ k \in Nat /\ k >= 10 /\ k < MLast /\ k # MprvOff + 1 /\ Ready(k)
      /\ MprvOn \in Nat /\ MprvOff \in Nat /\ MprvOn < MprvOff
  BY DEF Machines, Pmps, MLast, MprvOn, MprvOff, Ready, MMainAt
<1>2. pc = <<"main", k>> /\ MState(k) /\ mode = "M" /\ mstatus = MStatus(k)
  BY DEF MMainAt, MState
<1>3. SameProtection(k)
  <2>1. MEntry(k + 1) = MEntry(k)
    BY <1>1 DEF MEntry
  <2>2. MCfg(k + 1) = MCfg(k)
    BY <1>1, <2>1 DEF MCfg
  <2>3. MAddr(k + 1) = MAddr(k)
    BY <1>1 DEF MAddr, MProgram, MDevices
  <2> QED
    BY <2>2, <2>3 DEF SameProtection
<1>4. SameFlag(k) /\ MVec(k + 1) = MVec(k)
  BY <1>1 DEF SameFlag, MFlag, MVec, Pmps, MprvOn, MprvOff
<1>5. CASE k = MprvOn
  <2>1. Insn = Csrw("mstatus", {"mprv"})
    BY <1>2, <1>5, PmpCode
  <2>2. MStatus(k + 1) = {"mprv"}
    BY <1>1, <1>5 DEF MStatus
  <2>3. Sets(k)
    BY <1>3, <1>4, <2>1, <2>2 DEF Sets
  <2>4. Harmless(Insn)
    BY <2>1 DEF Harmless, Csrw
  <2>5. Cause = "none" /\ ~InterruptFired
    BY <1>1, <1>5, <2>4, MQuiet
  <2> QED
    BY <1>1, <2>3, <2>5, MFollows
<1>6. CASE k = MprvOff
  <2>1. Insn = Csrc("mstatus", {"mprv"})
    BY <1>2, <1>6, PmpCode
  <2>2. MStatus(k) = {"mprv"} /\ MStatus(k + 1) = {}
    BY <1>1, <1>6 DEF MStatus
  <2>3. MStatus(k + 1) = MStatus(k) \ {"mprv"}
    BY <2>2
  <2>4. Clears(k)
    BY <1>3, <1>4, <2>1, <2>3 DEF Clears
  <2>5. Checked
    BY <1>2, <2>2 DEF Checked
  <2>6. Insn.op = "csrc"
    BY <2>1 DEF Csrc
  <2>7. ~LoadFault /\ ~StoreFault /\ ~Illegal /\ ~Stores
    BY <1>2, <2>6 DEF LoadFault, StoreFault, Loads, Stores, Illegal
  <2>8. Cause = "none"
    BY <1>1, <2>5, <2>6, <2>7, PmpFetch DEF Cause
  <2>9. ~InterruptFired
    BY DEF InterruptFired, Steady
  <2> QED
    BY <1>1, <2>4, <2>8, <2>9, MFollows
<1> QED
  BY <1>5, <1>6

\* The line that locks the entry under test.
LEMMA PmpLock ==
  ASSUME prog \in Pmps, Steady, NEW k, k = MprvOff + 1, MMainAt(k), Next
  PROVE  MInv'
<1>1. /\ prog \in Machines /\ k \in Nat /\ k >= 10 /\ k < MLast /\ k > MprvOff
      /\ MprvOn \in Nat /\ MprvOff \in Nat /\ MprvOn < MprvOff
  BY DEF Machines, Pmps, MLast, MprvOn, MprvOff
<1>2. pc = <<"main", k>> /\ MState(k)
  BY DEF MMainAt
<1>3. SameCsrs(k) /\ SameFlag(k) /\ MAddr(k + 1) = MAddr(k)
  <2>1. SameCsrs(k)
    BY <1>1 DEF SameCsrs, MStatus, MVec
  <2>2. SameFlag(k)
    BY DEF SameFlag, MFlag, MprvOff, Pmps
  <2>3. MAddr(k + 1) = MAddr(k)
    BY <1>1 DEF MAddr, MProgram, MDevices
  <2> QED
    BY <2>1, <2>2, <2>3
<1>4. PICK z : z = {}
  OBVIOUS
<1>5. L \notin z /\ L \notin Rights /\ L \notin {3} /\ L \notin {4} /\ L \notin {3, 4}
  BY <1>4 DEF L, Rights, R, W, X
<1>6. /\ Legal(z \cup Byte(0)) = z /\ Legal(Rights \cup Byte(0)) = Rights
      /\ Legal({3} \cup Byte(128)) = {3, L} /\ Legal({4} \cup Byte(144)) = {4, L}
      /\ Legal({3, 4} \cup Byte(152)) = {3, 4, L}
  BY <1>4, LegalBytes
<1>7. \A i \in {k, k + 1} :
        MEntry(i) = (IF prog = "pmp_na4" THEN {4} ELSE IF prog = "pmp_napot" THEN {3, 4} ELSE {3})
                      \cup (IF i = k THEN {} ELSE {L})
  BY <1>1 DEF MEntry
<1>8. Adds(k)
  <2>1. CASE prog = "pmp_tor"
    <3>1. Insn = Csrs("pmpcfg0", Word(0, 0, 128, 0))
      BY <1>2, <2>1, PmpCode
    <3>2. L \notin MEntry(k) /\ MEntry(k + 1) = Legal(MEntry(k) \cup Byte(128))
      <4>1. MEntry(k) = {3} /\ MEntry(k + 1) = {3, L}
        BY <1>1, <1>7, <2>1
      <4> QED
        BY <1>5, <1>6, <4>1
    <3>3. /\ MCfg(k) = CfgOf(z, MEntry(k), Rights, Rights)
          /\ MCfg(k + 1) = CfgOf(Legal(z \cup Byte(0)), Legal(MEntry(k) \cup Byte(128)),
                                 Legal(Rights \cup Byte(0)), Legal(Rights \cup Byte(0)))
      <4>1. MCfg(k) = CfgOf(z, MEntry(k), Rights, Rights) /\ MCfg(k + 1) = CfgOf(z, MEntry(k + 1), Rights, Rights)
        BY <1>1, <1>4, <2>1 DEF MCfg
      <4> QED
        BY <1>6, <3>2, <4>1
    <3> QED
      BY <1>3, <1>5, <3>1, <3>2, <3>3, AddsBytes
  <2>2. CASE prog = "pmp_na4"
    <3>1. Insn = Csrs("pmpcfg0", Word(0, 0, 0, 144))
      BY <1>2, <2>2, PmpCode
    <3>2. L \notin MEntry(k) /\ MEntry(k + 1) = Legal(MEntry(k) \cup Byte(144))
      <4>1. MEntry(k) = {4} /\ MEntry(k + 1) = {4, L}
        BY <1>1, <1>7, <2>2
      <4> QED
        BY <1>5, <1>6, <4>1
    <3>3. /\ MCfg(k) = CfgOf(MEntry(k), Rights, Rights, z)
          /\ MCfg(k + 1) = CfgOf(Legal(MEntry(k) \cup Byte(144)), Legal(Rights \cup Byte(0)),
                                 Legal(Rights \cup Byte(0)), Legal(z \cup Byte(0)))
      <4>1. MCfg(k) = CfgOf(MEntry(k), Rights, Rights, z) /\ MCfg(k + 1) = CfgOf(MEntry(k + 1), Rights, Rights, z)
        BY <1>1, <1>4, <2>2 DEF MCfg
      <4> QED
        BY <1>6, <3>2, <4>1
    <3> QED
      BY <1>3, <1>5, <3>1, <3>2, <3>3, AddsBytes
  <2>3. CASE prog = "pmp_napot"
    <3>1. Insn = Csrs("pmpcfg0", Word(0, 0, 0, 152))
      BY <1>2, <2>3, PmpCode
    <3>2. L \notin MEntry(k) /\ MEntry(k + 1) = Legal(MEntry(k) \cup Byte(152))
      <4>1. MEntry(k) = {3, 4} /\ MEntry(k + 1) = {3, 4, L}
        BY <1>1, <1>7, <2>3
      <4> QED
        BY <1>5, <1>6, <4>1
    <3>3. /\ MCfg(k) = CfgOf(MEntry(k), Rights, Rights, z)
          /\ MCfg(k + 1) = CfgOf(Legal(MEntry(k) \cup Byte(152)), Legal(Rights \cup Byte(0)),
                                 Legal(Rights \cup Byte(0)), Legal(z \cup Byte(0)))
      <4>1. MCfg(k) = CfgOf(MEntry(k), Rights, Rights, z) /\ MCfg(k + 1) = CfgOf(MEntry(k + 1), Rights, Rights, z)
        BY <1>1, <1>4, <2>3 DEF MCfg
      <4> QED
        BY <1>6, <3>2, <4>1
    <3> QED
      BY <1>3, <1>5, <3>1, <3>2, <3>3, AddsBytes
  <2> QED
    BY <2>1, <2>2, <2>3 DEF Pmps
<1>9. Harmless(Insn)
  <2>1. \E v : Insn = Csrs("pmpcfg0", v)
    BY <1>2, PmpCode
  <2> QED
    BY <2>1 DEF Harmless, Csrs
<1>10. Cause = "none" /\ ~InterruptFired
  BY <1>1, <1>9, MQuiet
<1> QED
  BY <1>1, <1>8, <1>10, MFollows

\* The stores that the entry under test keeps out: with mprv as those of user
\* mode, and once it is locked those of machine mode too.
LEMMA PmpFault ==
  ASSUME prog \in Pmps, Steady, NEW k \in MTraps, MMainAt(k), Next
  PROVE  MInv'
<1>1. /\ prog \in Machines /\ k \in Nat /\ k # MprvOff /\ k # MprvOff + 1 /\ k > MprvOn
      /\ MprvOn \in Nat /\ MprvOff \in Nat /\ Ready(k)
  BY DEF Machines, Pmps, MTraps, MprvOn, MprvOff, Ready, MMainAt
<1>2. pc = <<"main", k>> /\ MState(k) /\ mode = "M" /\ mstatus = MStatus(k)
  BY DEF MMainAt, MState
<1>3. PICK a, v :
        a \in Targets /\ Insn = Store(a, v) /\ (k > MprvOff => a = (IF prog = "pmp_tor" \/ k = 18 THEN Bad + 4 ELSE Bad))
  BY <1>2, TestCode
<1>4. Insn.op = "store" /\ DataWord = a /\ Stores /\ ~Loads
  BY <1>3, Words DEF Store, Stores, Loads
<1>5. ~LoadFault /\ ~Illegal
  BY <1>4 DEF LoadFault, Illegal, CsrOps
<1>6. ~InProgram(a) /\ ~InDevices(a)
  <2>1. a \in {Bad + 0, Bad + 4, Bad + 8}
    BY <1>3, Places, SMT DEF Targets
  <2> QED
    BY <2>1, Places, SMT DEF InProgram, InDevices
<1>7. PICK t \in Entry : t = Tested /\ t + 1 \in Entry /\ t + 2 \in Entry
  BY DEF Tested, Entry
<1>8. ASSUME NEW n \in Entry, Matches(n, a) PROVE n = t /\ W \notin pmpcfg[n]
  <2>1. n \notin Entry \ {t, t + 1, t + 2}
    BY <1>1, <1>7, <1>8, MHits
  <2>2. n # t + 1 /\ n # t + 2
    BY <1>1, <1>6, <1>7, <1>8, MHits
  <2>3. n = t
    BY <1>8, <2>1, <2>2
  <2> QED
    BY <1>1, <1>7, <2>3, MHits
<1>9. StoreFault
  <2>1. CASE k < MprvOff
    <3>1. Checked
      BY <1>1, <1>2, <2>1 DEF Checked, MStatus
    <3> QED
      BY <1>4, <1>8, <3>1 DEF StoreFault, DataFault, Hit
  <2>2. CASE k > MprvOff
    <3>1. ~Checked
      BY <1>1, <1>2, <2>2 DEF Checked, MStatus
    <3>2. k > MprvOff + 1
      BY <1>1, <2>2
    <3>3. Locked(t)
      BY <1>1, <1>7, <3>2, MHits
    <3>4. TestedWords(a)
      <4>1. k = 18 => prog # "pmp_na4"
        BY DEF MTraps
      <4>2. a = (IF prog = "pmp_tor" \/ k = 18 THEN Bad + 4 ELSE Bad)
        BY <1>3, <2>2
      <4>3. InBlock(Bad) /\ InBlock(Bad + 4) /\ InRange(Bad + 4)
        BY Places, SMT DEF InBlock, InRange
      <4> QED
        BY <4>1, <4>2, <4>3 DEF TestedWords, Pmps
    <3>5. Hit(t, a)
      BY <1>1, <1>7, <1>8, <3>4, MHits DEF Hit, Entry
    <3> QED
      BY <1>4, <1>7, <1>8, <3>1, <3>3, <3>5 DEF StoreFault, DataFault, Hit
  <2> QED
    BY <1>1, <2>1, <2>2
<1>10. Cause = "fault_s"
  BY <1>4, <1>5, <1>9 DEF Cause, DataProtFault
<1> QED
  BY <1>1, <1>10, MTrap

LEMMA PmpMain ==
  ASSUME prog \in Pmps, Steady, NEW k \in 1 .. (MLast - 1), MMainAt(k), Next
  PROVE  MInv'
<1>1. \/ k \in 1 .. 8 /\ (k <= 7 \/ prog = "pmp_tor")
      \/ k \in Storing \cup Counting
      \/ k \in {MprvOn, MprvOff}
      \/ k = MprvOff + 1
      \/ k \in MTraps
  BY DEF Pmps, MLast, Storing, Counting, MprvOn, MprvOff, MTraps
<1> QED
  BY <1>1, PmpSetup, PmpStores, PmpMprv, PmpLock, PmpFault

LEMMA MInit == Init => MInv
<1>1. ASSUME Init, prog \in Machines
      PROVE  MMainAt(1)
  <2>1. /\ pc = <<"main", 1>> /\ mode = "M" /\ resume = <<"zero", 1>> /\ mstatus = {"tw"}
        /\ mtvec = "reset" /\ flag = 255 /\ PmpInit
    BY <1>1 DEF Init
  <2>2. MStatus(1) = {"tw"} /\ MVec(1) = "reset" /\ MFlag(1) = 255
    BY <1>1 DEF MStatus, MVec, MFlag, MprvOn, Machines, Pmps
  <2>3. MCfg(1) = CfgOf({}, {}, {}, {}) /\ MAddr(1) = AddrOf(0, 0, 0, 0)
    <3>1. MCfg(1) = CfgOf({}, {}, {}, {})
      <4>1. 1 <= 3
        OBVIOUS
      <4> QED
        BY <4>1, Zenon DEF MCfg
    <3>2. MAddr(1) = AddrOf(0, 0, 0, 0)
      BY DEF MAddr, MProgram, MDevices
    <3> QED
      BY <3>1, <3>2
  <2>4. pmpcfg = CfgOf({}, {}, {}, {}) /\ pmpaddr = AddrOf(0, 0, 0, 0)
    BY <2>1 DEF PmpInit, CfgOf, AddrOf, Entry
  <2> QED
    BY <2>1, <2>2, <2>3, <2>4 DEF MMainAt, MState
<1>2. prog \in Machines => 1 \in 1 .. MLast
  BY MSizes
<1> QED
  BY <1>1, <1>2, SteadyInit DEF MInv

LEMMA MStep == MInv /\ [Next]_vars => MInv'
<1>1. ASSUME MInv, UNCHANGED vars
      PROVE  MInv'
  <2>1. /\ pc' = pc /\ prog' = prog /\ x28' = x28 /\ mode' = mode /\ mstatus' = mstatus /\ mie' = mie
        /\ mtvec' = mtvec /\ mepc' = mepc /\ flag' = flag /\ elapsed' = elapsed
        /\ mtime' = mtime /\ mtimecmp' = mtimecmp /\ mtimecmph' = mtimecmph /\ msip' = msip
        /\ ext' = ext /\ resume' = resume /\ pmpcfg' = pmpcfg /\ pmpaddr' = pmpaddr
    BY <1>1 DEF vars, csrs, device, history, pmp
  <2>2. \A k : MState(k)' <=> MState(k)
    BY <2>1, MSame DEF MState
  <2>3. /\ \A k : MMainAt(k)' <=> MMainAt(k)
        /\ \A t, j : MHandlerAt(t, j)' <=> MHandlerAt(t, j)
    BY <2>1, <2>2, MSame DEF MMainAt, MHandlerAt
  <2>4. /\ Steady' <=> Steady
        /\ MDoneAt' <=> MDoneAt
    BY <2>1, <2>2, MSame DEF Steady, MDoneAt, MState
  <2> QED
    BY <1>1, <2>1, <2>3, <2>4, MSame DEF MInv
<1>2. ASSUME MInv, Next, prog \in Machines
      PROVE  MInv'
  <2>1. Steady
    BY <1>2 DEF MInv
  <2>2. ASSUME NEW k \in 1 .. MLast, MMainAt(k)
        PROVE  MInv'
    <3>1. CASE k = MLast
      BY <1>2, <2>1, <2>2, <3>1, MReturns
    <3>2. CASE k # MLast /\ prog \in Pmps
      <4>1. k \in 1 .. (MLast - 1)
        BY <1>2, <2>2, <3>2, MSizes
      <4> QED
        BY <1>2, <2>1, <2>2, <3>2, <4>1, PmpMain
    <3>3. CASE k # MLast /\ prog \notin Pmps
      <4>1. prog \in {"ecall", "pma"} /\ k \in 1 .. 5
        BY <1>2, <2>2, <3>3 DEF Machines, Pmps, MLast
      <4> QED
        BY <1>2, <2>1, <2>2, <4>1, SimpleMain
    <3> QED
      BY <3>1, <3>2, <3>3
  <2>3. ASSUME NEW t \in MTraps, NEW j \in 1 .. HLast, MHandlerAt(t, j)
        PROVE  MInv'
    BY <1>2, <2>1, <2>3, MHandler
  <2>4. CASE MDoneAt
    BY <1>2, <2>1, <2>4, MReturns
  <2> QED
    BY <1>2, <2>2, <2>3, <2>4 DEF MInv
<1>3. ASSUME Next, prog \notin Machines
      PROVE  MInv'
  BY <1>3, ProgStays DEF MInv
<1> QED
  BY <1>1, <1>2, <1>3

LEMMA MInvHolds == Spec => []MInv
BY MInit, MStep, PTL DEF Spec

LEMMA CInvHolds == Spec => []CInv
<1>1. Init => CInv
  <2>1. ASSUME Init PROVE CInv
    <3>1. /\ pc = <<"main", 1>> /\ mode = "M" /\ resume = <<"zero", 1>> /\ mstatus = {"tw"}
          /\ mtvec = "reset" /\ flag = 255 /\ PmpInit
      BY <2>1 DEF Init
    <3>2. PmpTypeOK /\ pmpaddr[8] = 0 /\ \A n \in Entry : ~Locked(n)
      BY <3>1 DEF PmpInit, PmpTypeOK, Locked, Entry, Bit, Reserved, W, R, L
    <3> QED
      BY <2>1, <3>1, <3>2, SteadyInit DEF CInv
  <2> QED
    BY <2>1
<1>2. CInv /\ [Next]_vars => CInv'
  <2>1. ASSUME CInv, UNCHANGED vars
        PROVE  CInv'
    <3>1. /\ pc' = pc /\ prog' = prog /\ x28' = x28 /\ mode' = mode /\ mstatus' = mstatus /\ mie' = mie
          /\ mtvec' = mtvec /\ flag' = flag /\ elapsed' = elapsed
          /\ mtime' = mtime /\ mtimecmp' = mtimecmp /\ mtimecmph' = mtimecmph /\ msip' = msip
          /\ ext' = ext /\ resume' = resume /\ pmpcfg' = pmpcfg /\ pmpaddr' = pmpaddr
      BY <2>1 DEF vars, csrs, device, history, pmp
    <3>2. /\ Steady' <=> Steady
          /\ PmpTypeOK' <=> PmpTypeOK
          /\ \A n : Locked(n)' <=> Locked(n)
          /\ Mode(8)' = Mode(8)
      BY <3>1 DEF Steady, PmpTypeOK, Locked, Mode
    <3> QED
      BY <2>1, <3>1, <3>2 DEF CInv
  <2>2. ASSUME CInv, Next, prog # "pmp_csr"
        PROVE  CInv'
    BY <2>2, ProgStays DEF CInv
  <2> QED
    BY <2>1, <2>2, CStep
<1> QED
  BY <1>1, <1>2, PTL DEF Spec

-----------------------------------------------------------------------------
(* The theorems about all the programs *)

\* The lengths of the routines.
LEMMA Lengths ==
  /\ DOMAIN done = 1 .. 2 /\ DOMAIN u_mode_main = 1 .. 8 /\ DOMAIN csr_main = 1 .. 11
  /\ DOMAIN user_main = 1 .. 6 /\ DOMAIN csr_user_main = 1 .. 3
  /\ DOMAIN u_mode_handler = 1 .. 4 /\ DOMAIN csr_handler = 1 .. 4
  /\ DOMAIN ecall_main = 1 .. 6 /\ DOMAIN pma_main = 1 .. 6
  /\ DOMAIN pmp_na4_main = 1 .. 15 /\ DOMAIN pmp_napot_main = 1 .. 19 /\ DOMAIN pmp_tor_main = 1 .. 21
  /\ DOMAIN ecall_handler = 1 .. 4 /\ DOMAIN pma_handler = 1 .. 4 /\ DOMAIN pmp_na4_handler = 1 .. 4
  /\ DOMAIN pmp_napot_handler = 1 .. 5 /\ DOMAIN pmp_tor_handler = 1 .. 5
  /\ DOMAIN pmp_csr_main = 1 .. 20
<1>1. /\ DOMAIN done = 1 .. 2 /\ DOMAIN u_mode_main = 1 .. 8 /\ DOMAIN csr_main = 1 .. 11
      /\ DOMAIN user_main = 1 .. 6 /\ DOMAIN csr_user_main = 1 .. 3
  BY SMT DEF done, u_mode_main, csr_main, user_main, csr_user_main
<1>2. DOMAIN u_mode_handler = 1 .. 4 /\ DOMAIN csr_handler = 1 .. 4
  BY SMT DEF u_mode_handler, csr_handler
<1>3. DOMAIN ecall_main = 1 .. 6 /\ DOMAIN pma_main = 1 .. 6
  BY SMT DEF ecall_main, pma_main
<1>4. DOMAIN pmp_na4_main = 1 .. 15 /\ DOMAIN pmp_napot_main = 1 .. 19 /\ DOMAIN pmp_tor_main = 1 .. 21
  BY SMT DEF pmp_na4_main, pmp_napot_main, pmp_tor_main
<1>5. /\ DOMAIN ecall_handler = 1 .. 4 /\ DOMAIN pma_handler = 1 .. 4 /\ DOMAIN pmp_na4_handler = 1 .. 4
      /\ DOMAIN pmp_napot_handler = 1 .. 5 /\ DOMAIN pmp_tor_handler = 1 .. 5
  BY SMT DEF ecall_handler, pma_handler, pmp_na4_handler, pmp_napot_handler, pmp_tor_handler
<1>6. DOMAIN pmp_csr_main = 1 .. 20
  BY SMT DEF pmp_csr_main
<1> QED
  BY <1>1, <1>2, <1>3, <1>4, <1>5, <1>6

LEMMA SteadyTypes ==
  ASSUME Steady, pc[1] \in DOMAIN Routines[prog], pc[2] \in DOMAIN Routines[prog][pc[1]],
         mode \in {"U", "M"}, mstatus \subseteq {"mie", "mpie", "mpp", "mprv", "tw"},
         mtvec \in {"reset", "direct", "vectored"}, flag \in Int, PmpTypeOK
  PROVE  TypeOK
BY DEF TypeOK, Steady

LEMMA UTypes ==
  ASSUME UInv, prog \in Users
  PROVE  TypeOK
<1>1. Steady
  BY DEF UInv
<1>2. /\ mode \in {"U", "M"} /\ mstatus \subseteq {"mie", "mpie", "mpp", "mprv", "tw"}
      /\ mtvec \in {"reset", "direct", "vectored"}
  BY DEF UInv, UMainAt, UUserAt, UHandlerAt, UCycleAt, UDoneAt
<1>3. pc \in ({"main"} \X (1 .. MainLines)) \cup ({"user_main"} \X (1 .. UserLines))
              \cup ({"handler"} \X (1 .. 4)) \cup ({"done"} \X (1 .. 2))
  BY DEF UInv, UMainAt, UUserAt, UHandlerAt, UCycleAt, UDoneAt
<1>4. pc[1] \in DOMAIN Routines[prog] /\ pc[2] \in DOMAIN Routines[prog][pc[1]]
  <2>1. CASE prog = "u_mode"
    <3>1. Routines[prog] = [main |-> u_mode_main, handler |-> u_mode_handler,
                            user_main |-> user_main, done |-> done]
      BY <2>1 DEF Routines, User
    <3>2. MainLines = 8 /\ UserLines = 6
      BY <2>1 DEF MainLines, UserLines
    <3> QED
      BY <1>3, <3>1, <3>2, Lengths
  <2>2. CASE prog = "csr"
    <3>1. Routines[prog] = [main |-> csr_main, handler |-> csr_handler,
                            user_main |-> csr_user_main, done |-> done]
      BY <2>2 DEF Routines, User
    <3>2. MainLines = 11 /\ UserLines = 3
      BY <2>2 DEF MainLines, UserLines
    <3> QED
      BY <1>3, <3>1, <3>2, Lengths
  <2> QED
    BY <2>1, <2>2 DEF Users
<1>5. flag \in Int
  <2>1. Counted \in Int /\ UserLines \in Nat
    BY DEF Counted, UserLines
  <2>2. \A k \in Int : MainFlag(k) \in Int /\ UserFlag(k) \in Int
    BY <2>1 DEF MainFlag, UserFlag
  <2>3. pc[2] \in Int
    BY <1>3, <2>1 DEF MainLines
  <2>4. \E k \in Int : flag = MainFlag(k) \/ flag = UserFlag(k)
    <3>1. CASE UMainAt \/ UUserAt
      BY <2>3, <3>1 DEF UMainAt, UUserAt
    <3>2. CASE UCycleAt \/ UDoneAt
      BY <2>1, <3>2 DEF UCycleAt, UDoneAt
    <3>3. ASSUME NEW t \in 1 .. UserLines, UHandlerAt(t)
          PROVE  \E k \in Int : flag = MainFlag(k) \/ flag = UserFlag(k)
      BY <2>1, <3>3 DEF UHandlerAt
    <3> QED
      BY <3>1, <3>2, <3>3 DEF UInv
  <2> QED
    BY <2>2, <2>4
<1>6. PmpTypeOK
  <2>1. CASE UMainAt
    <3>1. PICK z : z = {}
      OBVIOUS
    <3>2. Fine(z) /\ Fine({R, 4}) /\ Fine({R, W, X, 3, 4})
      BY <3>1 DEF Fine, R, W, X, Bit, Reserved
    <3>3. Flag \in Nat /\ ProgramRegion \in Nat
      BY Places, Regions, SMT
    <3>4. PICK a0 \in Nat, a1 \in Nat : pmpaddr = AddrOf(a0, a1, 0, 0)
      BY <2>1, <3>3 DEF UMainAt
    <3>5. CASE pmpcfg = CfgOf({}, {}, {}, {})
      <4>1. pmpcfg = CfgOf(z, z, z, z)
        BY <3>1, <3>5
      <4> QED
        BY <3>2, <3>4, <4>1, FineTypes
    <3>6. CASE pmpcfg = CfgOf({R, 4}, {R, W, X, 3, 4}, {}, {})
      <4>1. pmpcfg = CfgOf({R, 4}, {R, W, X, 3, 4}, z, z)
        BY <3>1, <3>6
      <4> QED
        BY <3>2, <3>4, <4>1, FineTypes
    <3> QED
      BY <2>1, <3>5, <3>6 DEF UMainAt
  <2>2. CASE Guarded
    BY <2>2, GuardedHits
  <2> QED
    BY <2>1, <2>2 DEF UInv, UUserAt, UHandlerAt, UCycleAt, UDoneAt
<1> QED
  BY <1>1, <1>2, <1>4, <1>5, <1>6, SteadyTypes

\* What each disjunct of the invariant says of the state alone.
LEMMA MPlaces ==
  ASSUME MInv, prog \in Machines
  PROVE  /\ Steady /\ mode = "M" /\ \E k \in Nat : MState(k) /\ flag = MFlag(k)
         /\ mstatus \subseteq {"mie", "mpie", "mpp", "mprv", "tw"}
         /\ pc \in ({"main"} \X (1 .. MLast)) \cup ({"handler"} \X (1 .. HLast)) \cup ({"done"} \X (1 .. 2))
<1>1. Steady
  BY DEF MInv
<1>2. \A k : MStatus(k) \subseteq {"mie", "mprv", "tw"}
  BY DEF MStatus
<1>3. ASSUME NEW k \in 1 .. MLast, MMainAt(k)
      PROVE  /\ mode = "M" /\ \E i \in Nat : MState(i) /\ flag = MFlag(i)
             /\ mstatus \subseteq {"mie", "mpie", "mpp", "mprv", "tw"}
             /\ pc \in {"main"} \X (1 .. MLast)
  BY <1>2, <1>3, MSizes DEF MMainAt, MState
<1>4. ASSUME NEW t \in MTraps, NEW j \in 1 .. HLast, MHandlerAt(t, j)
      PROVE  /\ mode = "M" /\ \E i \in Nat : MState(i) /\ flag = MFlag(i)
             /\ mstatus \subseteq {"mie", "mpie", "mpp", "mprv", "tw"}
             /\ pc \in {"handler"} \X (1 .. HLast)
  <2>1. t \in Nat /\ t + 1 \in Nat
    BY MSizes
  <2>2. MState(t) /\ MState(t + 1)
    BY <1>4, MTrapped DEF MHandlerAt, MState
  <2>3. flag = MFlag(t) \/ flag = MFlag(t + 1)
    BY <1>4 DEF MHandlerAt
  <2>4. mode = "M" /\ mstatus \subseteq {"mie", "mpie", "mpp", "mprv", "tw"}
    BY <1>2, <1>4 DEF MHandlerAt, MState
  <2>5. pc \in {"handler"} \X (1 .. HLast)
    BY <1>4 DEF MHandlerAt
  <2> QED
    BY <2>1, <2>2, <2>3, <2>4, <2>5
<1>5. ASSUME MDoneAt
      PROVE  /\ mode = "M" /\ \E i \in Nat : MState(i) /\ flag = MFlag(i)
             /\ mstatus \subseteq {"mie", "mpie", "mpp", "mprv", "tw"}
             /\ pc \in {"done"} \X (1 .. 2)
  <2>1. MFlag(MLast) = 1 /\ MLast \in Nat
    BY DEF MFlag, MLast, Machines, Pmps
  <2> QED
    BY <1>2, <1>5, <2>1 DEF MDoneAt, MState
<1> QED
  BY <1>1, <1>3, <1>4, <1>5 DEF MInv

LEMMA MProtectionTypes ==
  ASSUME prog \in Machines, NEW k \in Nat, MState(k)
  PROVE  PmpTypeOK
<1>1. PICK z : z = {}
  OBVIOUS
<1>2. /\ pmpcfg = MCfg(k) /\ pmpaddr = MAddr(k)
  BY DEF MState
<1>3. MEntry(k) \subseteq {3, 4, 7}
  BY DEF MEntry, L
<1>4. Fine(z) /\ Fine(MEntry(k)) /\ Fine(Rights)
  BY <1>1, <1>3 DEF Fine, Rights, R, W, X, Bit, Reserved
<1>5. PICK a0 \in Nat, a1 \in Nat, a2 \in Nat, a3 \in Nat : pmpaddr = AddrOf(a0, a1, a2, a3)
  <2>1. /\ Bad \in Nat /\ Bad + 7 \in Nat /\ Bad + 8 \in Nat
        /\ ProgramRegion \in Nat /\ DeviceRegion \in Nat
    BY Places, Regions, SMT
  <2>2. MProgram(k) \in Nat /\ MDevices(k) \in Nat
    BY <2>1 DEF MProgram, MDevices
  <2> QED
    BY <1>2, <2>1, <2>2 DEF MAddr
<1>6. \/ pmpcfg = CfgOf(z, z, z, z)
      \/ pmpcfg = CfgOf(z, MEntry(k), Rights, Rights)
      \/ pmpcfg = CfgOf(MEntry(k), Rights, Rights, z)
  BY <1>1, <1>2 DEF MCfg
<1> QED
  BY <1>4, <1>5, <1>6, FineTypes

LEMMA MTypes ==
  ASSUME MInv, prog \in Machines
  PROVE  TypeOK
<1>1. /\ Steady /\ mode = "M"
      /\ mstatus \subseteq {"mie", "mpie", "mpp", "mprv", "tw"}
      /\ pc \in ({"main"} \X (1 .. MLast)) \cup ({"handler"} \X (1 .. HLast)) \cup ({"done"} \X (1 .. 2))
  BY MPlaces
<1>2. PICK k \in Nat : MState(k) /\ flag = MFlag(k)
  BY MPlaces
<1>3. PmpTypeOK
  BY <1>2, MProtectionTypes
<1>4. flag \in Int /\ mtvec \in {"reset", "direct", "vectored"}
  BY <1>2 DEF MState, MVec, MFlag
<1>5. pc[1] \in DOMAIN Routines[prog] /\ pc[2] \in DOMAIN Routines[prog][pc[1]]
  <2>1. CASE prog = "ecall"
    <3>1. MLast = 6 /\ HLast = 4
      BY <2>1 DEF MLast, HLast
    <3> QED
      BY <1>1, <2>1, <3>1, MRoutines, Lengths
  <2>2. CASE prog = "pma"
    <3>1. MLast = 6 /\ HLast = 4
      BY <2>2 DEF MLast, HLast
    <3> QED
      BY <1>1, <2>2, <3>1, MRoutines, Lengths
  <2>3. CASE prog = "pmp_na4"
    <3>1. MLast = 15 /\ HLast = 4
      BY <2>3 DEF MLast, HLast
    <3> QED
      BY <1>1, <2>3, <3>1, MRoutines, Lengths
  <2>4. CASE prog = "pmp_napot"
    <3>1. MLast = 19 /\ HLast = 5
      BY <2>4 DEF MLast, HLast
    <3> QED
      BY <1>1, <2>4, <3>1, MRoutines, Lengths
  <2>5. CASE prog = "pmp_tor"
    <3>1. MLast = 21 /\ HLast = 5
      BY <2>5 DEF MLast, HLast
    <3> QED
      BY <1>1, <2>5, <3>1, MRoutines, Lengths
  <2> QED
    BY <2>1, <2>2, <2>3, <2>4, <2>5 DEF Machines, Pmps
<1> QED
  BY <1>1, <1>3, <1>4, <1>5, SteadyTypes

LEMMA CTypes ==
  ASSUME CInv, prog = "pmp_csr"
  PROVE  TypeOK
<1>1. /\ Steady /\ PmpTypeOK /\ flag \in Int /\ mode = "M" /\ mstatus = {"tw"} /\ mtvec = "reset"
      /\ pc \in ({"main"} \X (1 .. 20)) \cup ({"done"} \X (1 .. 2))
  BY DEF CInv
<1>2. Routines[prog] = [main |-> pmp_csr_main, done |-> done]
  BY DEF Routines
<1>3. pc[1] \in DOMAIN Routines[prog] /\ pc[2] \in DOMAIN Routines[prog][pc[1]]
  BY <1>1, <1>2, Lengths
<1> QED
  BY <1>1, <1>3, SteadyTypes

\* Where the handlers return to.
LEMMA UReturns ==
  ASSUME UInv, prog \in Users, ReturnFromTrap, resume # <<"zero", 1>>
  PROVE  pc' = resume
<1>1. pc' = mepc /\ Insn.op = "mret"
  BY DEF ReturnFromTrap
<1>2. pc \in {"handler"} \X (1 .. 4) /\ (pc[2] = 4 => mepc = resume)
  BY DEF UInv, UMainAt, UUserAt, UHandlerAt, UCycleAt, UDoneAt
<1>3. pc[2] = 4
  BY <1>1, <1>2, UCode DEF Csrr, Store, Do
<1> QED
  BY <1>1, <1>2, <1>3

LEMMA MReturnsBack ==
  ASSUME MInv, prog \in Machines, ReturnFromTrap, resume # <<"zero", 1>>
  PROVE  pc' = resume
<1>1. pc' = mepc /\ Insn.op = "mret"
  BY DEF ReturnFromTrap
<1>2. PICK t \in MTraps, j \in 1 .. HLast : MHandlerAt(t, j)
  BY DEF MInv, MMainAt, MDoneAt
<1>3. j # 1
  BY <1>1, <1>2, MCode DEF MHandlerAt, Skip, Do
<1> QED
  BY <1>1, <1>2, <1>3 DEF MHandlerAt

\* All the programs but the one that writes the registers of memory protection
\* at random: it can lock itself out of its own code, before it has set mtvec.
PInv == TInv /\ UInv /\ MInv /\ CInv /\ prog \in DOMAIN Routines

LEMMA PInvHolds == Spec => []PInv
<1>1. Init => prog \in DOMAIN Routines
  BY TestsAssumption DEF Init
<1>2. prog \in DOMAIN Routines /\ [Next]_vars => (prog \in DOMAIN Routines)'
  BY ProgStays DEF vars
<1>3. Spec => [](prog \in DOMAIN Routines)
  BY <1>1, <1>2, PTL DEF Spec
<1> QED
  BY <1>3, TInvHolds, UInvHolds, MInvHolds, CInvHolds, PTL DEF PInv

LEMMA OwnStays == prog # "any" /\ [Next]_vars => (prog # "any")'
BY ProgStays DEF vars

LEMMA Kinds ==
  ASSUME PInv, prog # "any"
  PROVE  Timed \/ prog \in Users \/ prog \in Machines \/ prog = "pmp_csr"
BY DEF PInv, Routines, Timed, Users, Machines, Pmps

LEMMA PTypes ==
  ASSUME PInv, prog # "any"
  PROVE  TypeOK
BY Kinds, TTypes, UTypes, MTypes, CTypes DEF PInv

LEMMA PPasses ==
  ASSUME PInv, prog # "any", prog = "csr" => Close
  PROVE  Passes
<1>1. CASE Timed
  BY <1>1, TSafe DEF PInv
<1>2. CASE prog \in Users
  <2>1. ASSUME Halted PROVE x28 = 1
    <3>1. UDoneAt /\ pc[2] = 2
      BY <1>2, <2>1 DEF PInv, UInv, UMainAt, UUserAt, UHandlerAt, UCycleAt, Halted
    <3>2. UserFlag(UserLines) = 1
      BY <1>2 DEF UserFlag, UserLines, Counted, Users
    <3> QED
      BY <3>1, <3>2 DEF UDoneAt
  <2> QED
    BY <2>1 DEF Passes
<1>3. CASE prog \in Machines
  <2>1. ASSUME Halted PROVE x28 = 1
    <3>1. MDoneAt /\ pc[2] = 2
      BY <1>3, <2>1 DEF PInv, MInv, MMainAt, MHandlerAt, Halted
    <3> QED
      BY <3>1 DEF MDoneAt
  <2> QED
    BY <2>1 DEF Passes
<1>4. CASE prog = "pmp_csr"
  BY <1>4 DEF Passes
<1> QED
  BY <1>1, <1>2, <1>3, <1>4, Kinds

LEMMA PReturns ==
  ASSUME PInv, prog # "any", ReturnFromTrap, resume # <<"zero", 1>>
  PROVE  pc' = resume
<1>1. prog = "pmp_csr" => resume = <<"zero", 1>>
  BY DEF PInv, CInv
<1> QED
  BY <1>1, Kinds, TSafe, UReturns, MReturnsBack DEF PInv

LEMMA PConfined ==
  ASSUME PInv, prog # "any", mode = "U", Next
  PROVE  /\ UNCHANGED <<flag, device, pmp, mie, mtvec>>
         /\ mode' = "U" => UNCHANGED <<mstatus, mcause, mepc>>
<1>1. ~Timed
  BY DEF PInv, TInv, Untouched
<1>2. prog \notin Machines /\ prog # "pmp_csr"
  BY MPlaces DEF PInv, CInv
<1> QED
  BY <1>1, <1>2, Kinds, UConfined DEF PInv

\* The programs stay on their lines: no trap is taken before mtvec is set, no
\* routine runs past its end, and what the privileged registers hold is legal.
THEOREM ProgramTypes == Spec /\ prog # "any" => []TypeOK
BY PInvHolds, OwnStays, PTypes, PTL DEF Spec

\* Every program that comes to its end does so with 1 in x28: each trap it means
\* to provoke is taken, counted once and skipped, and no other (tb_core.cc:299).
\* csr.c, which measures time, needs an instruction to take no more than three
\* cycles between its two reads of mcycle.
THEOREM ProgramsPass == Spec /\ prog # "any" /\ (prog = "csr" => Close) => []Passes
<1>1. prog # "any" /\ (prog = "csr" => Close) /\ [Next]_vars => (prog # "any" /\ (prog = "csr" => Close))'
  BY ProgStays DEF vars, Close
<1> QED
  BY <1>1, PInvHolds, PPasses, PTL DEF Spec

\* Every handler returns behind the instruction that trapped, or to where the
\* interrupt came (ecall.c:11, vectored.c:15).
THEOREM ProgramReturns == Spec /\ prog # "any" => ReturnsWhere
<1>1. PInv /\ prog # "any" /\ [Next]_vars =>
        [ReturnFromTrap /\ resume # <<"zero", 1>> => pc' = resume]_vars
  BY PReturns
<1> QED
  BY <1>1, PInvHolds, OwnStays, PTL DEF Spec, ReturnsWhere

\* Behind the two entries that u-mode.c sets up, user code changes neither flag
\* nor a device nor the protection nor a machine register, but by a trap, whatever
\* its instructions are (u-mode.c:47).
THEOREM ProgramConfines == Spec /\ prog # "any" => UserConfined
<1>1. PInv /\ prog # "any" /\ [Next]_vars =>
        [mode = "U" => /\ UNCHANGED <<flag, device, pmp, mie, mtvec>>
                       /\ mode' = "U" => UNCHANGED <<mstatus, mcause, mepc>>]_vars
  BY PConfined
<1> QED
  BY <1>1, PInvHolds, OwnStays, PTL DEF Spec, UserConfined
=============================================================================
