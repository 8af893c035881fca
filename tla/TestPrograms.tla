----------------------------- MODULE TestPrograms -----------------------------
(***************************************************************************)
(* The C programs that test the privileged architecture (verification/     *)
(* interrupts-exceptions, pmp-tests, pma-tests, u-mode) run on the core    *)
(* as its privileged unit and the test bench make it look to software.     *)
(*                                                                         *)
(* A program is a record of routines, each a sequence of the operations    *)
(* that software sees: CSR accesses, stores, updates of flag.  One step is *)
(* one operation, or one trap.  Loads and stores of the stack and          *)
(* instruction fetches are all represented by Text.                        *)
(***************************************************************************)
EXTENDS Pmp, Sequences

CONSTANTS
  Tests,     \* the programs that are run
  Ticks,     \* how far mtime may move while an operation takes place
  Expiry,    \* the value 0xFF that programs put into mtimecmp
  InsnCycles \* clock cycles between two reads of mcycle, per instruction

ASSUME TicksAssumption == Ticks \subseteq Nat \ {0} /\ Ticks # {} /\ Expiry \in Nat
ASSUME CycleAssumption == InsnCycles \in Nat \ {0}

VARIABLES
  prog, pc, x28,
  mode, mstatus, mie, mtvec, mcause, mepc,
  flag,     \* the word that start.S defines
  elapsed,  \* what the last read of mtime showed: whether Expiry is reached
  mtime, mtimecmp, mtimecmph, msip, ext,
  entered,  \* history: how often each routine has been entered by a trap
  resume    \* history: where the handler of the last trap must return to

device == <<mtimecmp, mtimecmph, msip, ext>>
history == <<entered, resume>>
csrs == <<mode, mstatus, mie, mtvec, mcause, mepc>>
vars == <<prog, pc, x28, csrs, flag, elapsed, mtime, device, history, pmp>>

-----------------------------------------------------------------------------
(* Addresses of words, and the operations programs are made of. *)
Text == 536870976         \* 0x80000100 >> 2
Flag == 536872960         \* 0x80002000 >> 2
Bad == 268435456          \* 0x40000000 >> 2
Ram == 134217728          \* 0x20000000 >> 2
Rom == 64                 \* 0x100 >> 2
Mtime == 1073741816       \* 0xFFFFFFE0 >> 2
Mtimecmp == 1073741818    \* 0xFFFFFFE8 >> 2, and the words behind it
Mtimecmph == 1073741819
Msip == 1073741820
ExtSet == 1073741821
ExtClear == 1073741822
Magic == 1073741823
DeadBeef == 514567919     \* stands for 0xDEADBEEF, which is no address of a word

\* The bits that are 1 in the byte b, and the pmpcfg register with these bytes.
Byte(b) == {i \in Bit : (b \div 2^i) % 2 = 1}
Word(b3, b2, b1, b0) ==
  [i \in 0 .. 3 |-> Byte(CASE i = 0 -> b0 [] i = 1 -> b1 [] i = 2 -> b2 [] i = 3 -> b3)]

Csrw(csr, v) == [op |-> "csrw", csr |-> csr, val |-> v]
Csrs(csr, v) == [op |-> "csrs", csr |-> csr, val |-> v]
Csrc(csr, v) == [op |-> "csrc", csr |-> csr, val |-> v]
Csrr(csr) == [op |-> "csrr", csr |-> csr]
Store(a, v) == [op |-> "store", addr |-> a, val |-> v]
SetFlag(n) == [op |-> "store", addr |-> Flag, val |-> n]
Subtract(n) == [op |-> "subtract", val |-> n]
Do(o) == [op |-> o]

\* The registers of memory protection that programs name, and their numbers.
CfgNumber == [pmpcfg0 |-> 0, pmpcfg1 |-> 1, pmpcfg2 |-> 2]
AddrNumber == [pmpaddr0 |-> 0, pmpaddr1 |-> 1, pmpaddr2 |-> 2, pmpaddr3 |-> 3,
               pmpaddr7 |-> 7, pmpaddr8 |-> 8, pmpaddr9 |-> 9]

\* A CSR is read; flag is decremented if it holds v.
Expect(csr, v) == [op |-> "expect", csr |-> csr, val |-> v]

\* print and put_uint32_hex: all their characters go to one port.
Message == Store(Magic, 0)

\* mepc += 4 with csrr and csrw, and the return of an interrupt attribute.
Skip == Do("skip")
Mret == Do("mret")
Return == Do("return")

-----------------------------------------------------------------------------
(* interrupts-exceptions *)
ecall_handler == <<Skip, Message, SetFlag(1), Mret>>
ecall_main == <<Csrw("mstatus", {"mie"}), Csrw("mtvec", "direct"),
                Message, Do("ecall"), Message, Return>>

\* Mutant: the handler leaves the timer as it is.
m_timer_handler_again == <<Subtract(224), Mret>>

m_ext_handler == <<Subtract(14), Store(ExtClear, 1), Csrw("mie", {"soft", "timer"}), Mret>>
m_timer_handler == <<Subtract(224), Store(Mtimecmph, 255), Mret>>
m_sw_handler == <<Subtract(16), Store(Msip, 0), Mret>>
default_handler == <<Do("done")>>

\* Which handler each entry of the vector table jumps to, by cause.
vectored_dispatch == [soft |-> "m_sw_handler", timer |-> "m_timer_handler",
                      ext |-> "m_ext_handler", exception |-> "default_handler"]
vectored_main ==
  <<Store(Mtimecmph, 0), Store(Mtimecmp, Expiry),
    Csrw("mtvec", "vectored"), Csrw("mie", {"soft", "timer", "ext"}),
    Csrw("mstatus", {"mie"}),
    Store(Msip, 1), Store(ExtSet, 1), Do("mtime"), Do("until"), Return>>

exception_handler == <<Message, Skip, Subtract(2), Mret>>
after_timer_handler == <<Message, Subtract(1), Store(Mtimecmph, 255), Mret>>
after_default_handler == <<Message, SetFlag(0), Do("done")>>
after_dispatch == [soft |-> "default_handler", timer |-> "m_timer_handler",
                   ext |-> "default_handler", exception |-> "exception_handler"]
ex_after_int_main ==
  <<Store(Mtimecmph, 0), Store(Mtimecmp, Expiry), SetFlag(4),
    Csrw("mtvec", "vectored"), Csrw("mie", {"soft", "timer", "ext"}),
    Csrw("mstatus", {"mie"}), Do("mtime"), Do("until"), Do("ecall"), Return>>

-----------------------------------------------------------------------------
(* pmp-tests and pma-tests *)
pmp_csr_main ==
  <<SetFlag(9),
    Csrw("pmpaddr0", DeadBeef), Expect("pmpaddr0", DeadBeef),
    Csrw("pmpcfg0", Word(0, 23, 0, 23)), Expect("pmpcfg0", Word(0, 23, 0, 23)),
    Csrw("pmpcfg1", Word(0, 26, 0, 39)), Expect("pmpcfg1", Word(0, 24, 0, 7)),
    Csrw("pmpcfg2", Word(0, 0, 0, 136)), Csrs("pmpcfg2", Word(0, 0, 0, 7)),
    Expect("pmpcfg2", Word(0, 0, 0, 136)),
    \* Case 3.2 assigns where it means to compare: it never fails.
    Csrs("pmpcfg2", Word(0, 7, 0, 0)), Csrr("pmpcfg2"), Subtract(1),
    Csrw("pmpaddr8", DeadBeef), Expect("pmpaddr8", 0),
    Csrw("pmpaddr7", DeadBeef), Expect("pmpaddr7", 0),
    Csrw("pmpaddr9", DeadBeef), Expect("pmpaddr9", DeadBeef), Return>>

\* The regions of the program and of the devices, NAPOT of 2^14 and 2^4 words.
ProgramRegion == 536879103  \* 0x20001FFF
DeviceRegion == 1073741815  \* 0x3FFFFFF7

pmp_na4_handler == <<Skip, Message, Subtract(1), Mret>>
pmp_na4_main ==
  <<Csrw("mtvec", "direct"), SetFlag(4),
    Csrw("pmpcfg0", Word(0, 31, 31, 0)),
    Csrw("pmpaddr1", ProgramRegion), Csrw("pmpaddr2", DeviceRegion),
    Csrs("pmpcfg0", Word(0, 0, 0, 16)), Csrw("pmpaddr0", Bad),
    Store(Bad, 1), Subtract(1),
    Csrw("mstatus", {"mprv"}), Store(Bad, 2),
    Csrc("mstatus", {"mprv"}), Csrs("pmpcfg0", Word(0, 0, 0, 144)), Store(Bad, 3),
    Return>>

pmp_napot_handler == <<Skip, Csrr("mtval"), Message, Subtract(1), Mret>>
pmp_napot_main ==
  <<Csrw("mtvec", "direct"), SetFlag(7),
    Csrw("pmpcfg0", Word(0, 31, 31, 0)),
    Csrw("pmpaddr1", ProgramRegion), Csrw("pmpaddr2", DeviceRegion),
    Csrs("pmpcfg0", Word(0, 0, 0, 24)), Csrw("pmpaddr0", Bad + 7),
    Store(Bad, 1), Subtract(1), Store(Bad + 4, 1), Subtract(1),
    Csrw("mstatus", {"mprv"}), Store(Bad, 2), Store(Bad + 4, 2),
    Csrc("mstatus", {"mprv"}), Csrs("pmpcfg0", Word(0, 0, 0, 152)),
    Store(Bad, 3), Store(Bad + 4, 3), Return>>

pmp_tor_handler == <<Skip, Csrr("mtval"), Message, Subtract(1), Mret>>
pmp_tor_main ==
  <<Csrw("mtvec", "direct"), SetFlag(7),
    Csrw("pmpcfg0", Word(31, 31, 0, 0)),
    Csrw("pmpaddr2", ProgramRegion), Csrw("pmpaddr3", DeviceRegion),
    Csrs("pmpcfg0", Word(0, 0, 8, 0)),
    Csrw("pmpaddr1", Bad + 8), Csrw("pmpaddr0", Bad),
    Store(Bad + 4, 1), Subtract(1), Store(Bad + 8, 1), Subtract(1),
    Csrw("mstatus", {"mprv"}), Store(Bad + 4, 2), Store(Bad + 8, 2),
    Csrc("mstatus", {"mprv"}), Csrs("pmpcfg0", Word(0, 0, 128, 0)),
    Store(Bad + 4, 3), Store(Bad + 8, 3), Subtract(1), Return>>

pma_handler == <<Skip, Message, SetFlag(2), Mret>>
pma_main == <<Csrw("mstatus", {"mie"}), Csrw("mtvec", "direct"),
              Store(Rom, 1), Store(Ram, 1), Subtract(1), Return>>

-----------------------------------------------------------------------------
(* u-mode *)
\* An ecall ends the program; anything else is skipped and counted.
u_mode_handler == <<Csrr("mcause"), Message, Do("finish_or_skip"), Mret>>
user_main == <<Message, SetFlag(0), Mret, Csrr("mstatus"), Do("wfi"), Do("ecall")>>
u_mode_main ==
  <<Csrs("mstatus", {"mie"}), Csrw("mtvec", "direct"),
    Csrw("pmpaddr0", Flag), Csrw("pmpaddr1", ProgramRegion),
    Csrw("pmpcfg0", Word(0, 0, 31, 17)),
    SetFlag(6), Csrw("mepc", <<"user_main", 1>>), Mret>>

csr_handler == <<Csrr("mcause"), Message, Do("finish_or_skip"), Mret>>
csr_user_main == <<Csrr("cycle"), Csrr("time"), Do("ecall")>>
csr_main ==
  <<Csrs("mstatus", {"mie"}), Csrw("mtvec", "direct"),
    Csrw("pmpaddr0", Flag), Csrw("pmpaddr1", ProgramRegion),
    Csrw("pmpcfg0", Word(0, 0, 31, 17)), SetFlag(3),
    Csrw("mcycle", 0), Do("close"), Csrw("cycle", 0),
    Csrw("mepc", <<"user_main", 1>>), Mret>>

-----------------------------------------------------------------------------
\* start.S: done reads flag into x28 and stays where it is.
done == <<Do("x28"), Do("loop")>>

Direct(main, handler) == [main |-> main, handler |-> handler, done |-> done]
User(main, handler, user) ==
  [main |-> main, handler |-> handler, user_main |-> user, done |-> done]

Routines == [
  ecall |-> Direct(ecall_main, ecall_handler),
  vectored |-> [main |-> vectored_main, m_ext_handler |-> m_ext_handler,
                m_timer_handler |-> m_timer_handler, m_sw_handler |-> m_sw_handler,
                default_handler |-> default_handler, done |-> done],
  ex_after_int |-> [main |-> ex_after_int_main, exception_handler |-> exception_handler,
                    m_timer_handler |-> after_timer_handler,
                    default_handler |-> after_default_handler, done |-> done],
  pmp_csr |-> [main |-> pmp_csr_main, done |-> done],
  pmp_na4 |-> Direct(pmp_na4_main, pmp_na4_handler),
  pmp_napot |-> Direct(pmp_napot_main, pmp_napot_handler),
  pmp_tor |-> Direct(pmp_tor_main, pmp_tor_handler),
  pma |-> Direct(pma_main, pma_handler),
  u_mode |-> User(u_mode_main, u_mode_handler, user_main),
  csr |-> User(csr_main, csr_handler, csr_user_main),
  \* Any software that does nothing but set up physical memory protection.
  any |-> [main |-> <<Do("pmp")>>, done |-> done]]

ASSUME TestsAssumption == Tests \subseteq DOMAIN Routines

\* Where a trap goes: the base of mtvec or, for an interrupt in vectored mode,
\* the entry of the table for its cause; an exception goes to entry 0.
Dispatch(cause) ==
  IF mtvec = "reset" THEN "zero"
  ELSE IF mtvec = "direct" THEN "handler"
  ELSE IF prog = "vectored" THEN vectored_dispatch[cause]
  ELSE after_dispatch[cause]

-----------------------------------------------------------------------------
Init ==
  /\ prog \in Tests
  /\ pc = <<"main", 1>> /\ x28 = -1
  /\ mode = "M" /\ mstatus = {"tw"} /\ mie = {} /\ mtvec = "reset"
  /\ mcause = "none" /\ mepc = <<"zero", 1>>
  /\ flag = 255 /\ elapsed = FALSE
  /\ mtime = 0 /\ mtimecmp = Expiry + 1 /\ mtimecmph = 255
  /\ msip = 0 /\ ext = FALSE
  /\ entered = [r \in DOMAIN Routines[prog] |-> 0] /\ resume = <<"zero", 1>>
  /\ PmpInit

Insn == Routines[prog][pc[1]][pc[2]]
Next1 == <<pc[1], pc[2] + 1>>
Goto(routine) == pc' = <<routine, 1>>

\* The lines of the devices; mip has followed them before the next operation.
Lines == (IF msip % 2 = 1 THEN {"soft"} ELSE {}) \cup (IF ext THEN {"ext"} ELSE {})
           \cup (IF mtimecmph = 0 /\ mtimecmp <= mtime THEN {"timer"} ELSE {})
InterruptFired == "mie" \in mstatus /\ mie \cap Lines # {}
IntSrc == IF "ext" \in Lines THEN "ext" ELSE IF "soft" \in Lines THEN "soft" ELSE "timer"

\* The access is checked as user mode's would be.
Checked == mode # "M" \/ ("mprv" \in mstatus /\ "mpp" \notin mstatus)

CsrOps == {"csrw", "csrs", "csrc", "csrr", "expect", "skip", "finish_or_skip", "close"}
Illegal ==
  \/ /\ Insn.op \in CsrOps
     /\ IF Insn.op \in {"csrw", "csrr"} /\ Insn.csr \in {"cycle", "time"}
        THEN Insn.op = "csrw" ELSE mode = "U"
  \/ Insn.op = "mret" /\ mode = "U"
  \/ Insn.op = "wfi" /\ mode = "U" /\ "tw" \in mstatus

\* The word an operation accesses.
DataWord == CASE Insn.op = "store" -> Insn.addr
              [] Insn.op \in {"subtract", "x28"} -> Flag
              [] Insn.op = "mtime" -> Mtime
              [] OTHER -> Text
Loads == Insn.op \in {"subtract", "x28", "mtime"}
Stores == Insn.op \in {"store", "subtract"}
LoadFault == Loads /\ DataFault(DataWord, R, Checked)
StoreFault == Stores /\ DataFault(DataWord, W, Checked)

\* d_prot_fault of pmp: an address on the data port that no entry matches sets it
\* in checked mode, also when the instruction makes no access.
DataProtFault ==
  LoadFault \/ StoreFault \/ (Checked /\ \A n \in Entry : ~Hit(n, DataWord))

\* It hides a fault of the fetch.
Cause ==
  IF FetchFault(Text, DataWord, Checked) /\ ~DataProtFault THEN "insn_access"
  ELSE IF Illegal THEN "illegal"
  ELSE IF Insn.op = "ecall" THEN (IF mode = "M" THEN "env_m" ELSE "env_u")
  ELSE IF StoreFault \/ (Stores /\ PmaStoreFault(DataWord)) THEN "fault_s"
  ELSE IF LoadFault THEN "fault_l" ELSE "none"

-----------------------------------------------------------------------------
Trap(cause, handler, epc) ==
  /\ mode' = "M"
  /\ mstatus' = (mstatus \ {"mie", "mpie", "mpp"})
       \cup (IF "mie" \in mstatus THEN {"mpie"} ELSE {})
       \cup (IF mode = "M" THEN {"mpp"} ELSE {})
  /\ mcause' = cause /\ mepc' = epc
  /\ Goto(handler)
  /\ entered' = [entered EXCEPT ![handler] = IF @ = 0 THEN 1 ELSE 2]
  /\ UNCHANGED <<x28, mie, mtvec, flag, elapsed, device, pmp>>

Exception ==
  /\ Cause # "none"
  /\ Trap(Cause, Dispatch("exception"), pc)
  /\ resume' = IF Cause = "env_u" THEN <<"done", 1>> ELSE Next1

\* An interrupt at the edge at which a taken branch is in the execute stage
\* returns behind the branch (Pipeline).
Interrupt ==
  /\ InterruptFired
  /\ \E epc \in {pc} \cup (IF Insn.op = "until" /\ ~elapsed THEN {Next1} ELSE {}) :
       Trap(IntSrc, Dispatch(IntSrc), epc) /\ resume' = epc

Runs == Cause = "none" /\ ~InterruptFired

Written(old) == IF Insn.op = "csrw" THEN Insn.val
                ELSE IF Insn.op = "csrs" THEN old \cup Insn.val ELSE old \ Insn.val

WriteCsr ==
  /\ Runs /\ Insn.op \in {"csrw", "csrs", "csrc"}
  /\ Insn.csr \in {"mstatus", "mie", "mtvec", "mepc", "mcycle"}
  /\ mstatus' = IF Insn.csr = "mstatus" THEN Written(mstatus) ELSE mstatus
  /\ mie' = IF Insn.csr = "mie" THEN Written(mie) ELSE mie
  /\ mtvec' = IF Insn.csr = "mtvec" THEN Insn.val ELSE mtvec
  /\ mepc' = IF Insn.csr = "mepc" THEN Insn.val ELSE mepc
  /\ pc' = Next1
  /\ UNCHANGED <<x28, mode, mcause, flag, elapsed, device, history, pmp>>

\* The registers of the extension get the value that results from the old one.
WritePmpcfg ==
  /\ Runs /\ Insn.op \in {"csrw", "csrs"} /\ Insn.csr \in DOMAIN CfgNumber
  /\ LET group == CfgNumber[Insn.csr]
         old == [i \in 0 .. 3 |-> IF Insn.op = "csrs" THEN pmpcfg[4 * group + i] ELSE {}]
     IN WriteCfg(group, [i \in 0 .. 3 |-> old[i] \cup Insn.val[i]])
  /\ pc' = Next1
  /\ UNCHANGED <<x28, csrs, flag, elapsed, device, history>>

WritePmpaddr ==
  /\ Runs /\ Insn.op = "csrw" /\ Insn.csr \in DOMAIN AddrNumber
  /\ WriteAddr(AddrNumber[Insn.csr], Insn.val)
  /\ pc' = Next1
  /\ UNCHANGED <<x28, csrs, flag, elapsed, device, history>>

Holds == IF Insn.csr \in DOMAIN AddrNumber THEN pmpaddr[AddrNumber[Insn.csr]] = Insn.val
         ELSE \A i \in 0 .. 3 : pmpcfg[4 * CfgNumber[Insn.csr] + i] = Insn.val[i]

\* The cycle counter read twice with three instructions in between.
Close == 4 * InsnCycles < 15

Count ==
  /\ Runs /\ Insn.op \in {"expect", "close", "subtract"}
  /\ flag' = CASE Insn.op = "expect" -> IF Holds THEN flag - 1 ELSE flag
               [] Insn.op = "close" -> IF Close THEN flag - 1 ELSE flag
               [] Insn.op = "subtract" -> flag - Insn.val
  /\ pc' = Next1
  /\ UNCHANGED <<x28, csrs, elapsed, device, history, pmp>>

StoreWord ==
  /\ Runs /\ Insn.op = "store"
  /\ flag' = IF Insn.addr = Flag THEN Insn.val ELSE flag
  /\ mtimecmp' = IF Insn.addr = Mtimecmp THEN Insn.val ELSE mtimecmp
  /\ mtimecmph' = IF Insn.addr = Mtimecmph THEN Insn.val ELSE mtimecmph
  /\ msip' = IF Insn.addr = Msip THEN Insn.val ELSE msip
  /\ ext' = (Insn.addr = ExtSet \/ (ext /\ Insn.addr # ExtClear))
  /\ pc' = Next1
  /\ UNCHANGED <<x28, csrs, elapsed, history, pmp>>

ReadMtime ==
  /\ Runs /\ Insn.op = "mtime"
  /\ elapsed' = (mtime >= Expiry)
  /\ pc' = Next1
  /\ UNCHANGED <<x28, csrs, flag, device, history, pmp>>

\* Mutant: the loop looks at what it has read before the first time.
UntilStale ==
  /\ Runs /\ Insn.op = "until"
  /\ pc' = IF elapsed THEN Next1 ELSE pc
  /\ UNCHANGED <<x28, csrs, flag, elapsed, device, history, pmp>>

\* The loop goes back to the read of mtime.
Until ==
  /\ Runs /\ Insn.op = "until"
  /\ pc' = IF elapsed THEN Next1 ELSE <<pc[1], pc[2] - 1>>
  /\ UNCHANGED <<x28, csrs, flag, elapsed, device, history, pmp>>

ReadCsr ==
  /\ Runs /\ Insn.op = "csrr"
  /\ pc' = Next1
  /\ UNCHANGED <<x28, csrs, flag, elapsed, device, history, pmp>>

\* Mutant: the handler returns to what trapped.
SkipInsnNot ==
  /\ Runs /\ Insn.op = "skip"
  /\ pc' = Next1
  /\ UNCHANGED <<x28, csrs, flag, elapsed, device, history, pmp>>

SkipInsn ==
  /\ Runs /\ Insn.op = "skip"
  /\ mepc' = <<mepc[1], mepc[2] + 1>>
  /\ pc' = Next1
  /\ UNCHANGED <<x28, mode, mstatus, mie, mtvec, mcause, flag, elapsed, device, history, pmp>>

FinishOrSkip ==
  /\ Runs /\ Insn.op = "finish_or_skip"
  /\ \/ /\ mcause = "env_u"
        /\ mstatus' = mstatus \cup {"mpp"}
        /\ mepc' = <<"done", 1>>
        /\ UNCHANGED flag
     \/ /\ mcause # "env_u"
        /\ mepc' = <<mepc[1], mepc[2] + 1>>
        /\ flag' = flag - 1
        /\ UNCHANGED mstatus
  /\ pc' = Next1
  /\ UNCHANGED <<x28, mode, mie, mtvec, mcause, elapsed, device, history, pmp>>

ReturnFromTrap ==
  /\ Runs /\ Insn.op = "mret"
  /\ mode' = IF "mpp" \in mstatus THEN "M" ELSE "U"
  /\ mstatus' = (mstatus \ ({"mie", "mpie", "mpp"}
                             \cup IF "mpp" \in mstatus THEN {} ELSE {"mprv"}))
       \cup (IF "mpie" \in mstatus THEN {"mie"} ELSE {})
  /\ pc' = mepc
  /\ resume' = <<"zero", 1>>
  /\ UNCHANGED <<x28, mie, mtvec, mcause, mepc, flag, elapsed, device, entered, pmp>>

\* main returns to done, a handler calls it.
Finish ==
  /\ Runs /\ Insn.op \in {"return", "done"}
  /\ Goto("done")
  /\ UNCHANGED <<x28, csrs, flag, elapsed, device, history, pmp>>

LoadResult ==
  /\ Runs /\ Insn.op = "x28"
  /\ x28' = flag
  /\ pc' = Next1
  /\ UNCHANGED <<csrs, flag, elapsed, device, history, pmp>>

InfLoop == Runs /\ Insn.op = "loop"
           /\ UNCHANGED <<pc, x28, csrs, flag, elapsed, device, history, pmp>>

AnyPmp ==
  /\ Runs /\ Insn.op = "pmp"
  /\ PmpNext
  /\ UNCHANGED <<pc, x28, csrs, flag, elapsed, device, history>>

\* mtime moves while the operation takes place.  How far beyond Expiry it is makes
\* no difference, nor what it is in a program that does not use it.
Timed == prog \in {"vectored", "ex_after_int"}
Tick == \E d \in IF Timed THEN Ticks ELSE {0} :
          mtime' = IF mtime + d < Expiry THEN mtime + d ELSE Expiry

Step == \/ Exception \/ Interrupt
        \/ WriteCsr \/ WritePmpcfg \/ WritePmpaddr \/ Count \/ StoreWord \/ ReadMtime \/ Until \/ ReadCsr
        \/ SkipInsn \/ FinishOrSkip \/ ReturnFromTrap \/ Finish
        \/ LoadResult \/ InfLoop \/ AnyPmp

Next == Step /\ Tick /\ UNCHANGED prog

\* The core keeps executing.
Spec == Init /\ [][Next]_vars /\ WF_vars(Next)

-----------------------------------------------------------------------------
(* Properties *)

Halted == pc = <<"done", 2>>

\* No trap is taken before mtvec is set, and no routine is left at its end.
TypeOK ==
  /\ pc[1] \in DOMAIN Routines[prog] /\ pc[2] \in DOMAIN Routines[prog][pc[1]]
  /\ mode \in {"U", "M"}
  /\ mstatus \subseteq {"mie", "mpie", "mpp", "mprv", "tw"}
  /\ mie \subseteq {"soft", "timer", "ext"}
  /\ mtvec \in {"reset", "direct", "vectored"}
  /\ flag \in Int /\ x28 \in Int
  /\ {elapsed, ext} \subseteq BOOLEAN
  /\ mtime \in 0 .. Expiry /\ mtimecmp \in Nat /\ mtimecmph \in Nat /\ msip \in Nat
  /\ PmpTypeOK

\* Every program but pmp_csr ends with 1 in the register the test bench looks at
\* (tb_core.cc:299), whenever its interrupts come.
Passes == Halted /\ prog # "pmp_csr" => x28 = 1

\* "Each handler should be called once" (vectored.c:15, ex_after_int.c:15), and
\* none is called that should not be: interrupts are neither lost nor taken again.
EachOnce ==
  Timed =>
    /\ \A r \in DOMAIN entered : entered[r] <= 1
    /\ Halted => /\ entered["m_timer_handler"] = 1 /\ entered["default_handler"] = 0
                 /\ prog = "vectored" => entered["m_ext_handler"] + entered["m_sw_handler"] = 2
                 /\ prog = "ex_after_int" => entered["exception_handler"] = 1

\* A handler returns behind the instruction that trapped, or to where an
\* interrupt came; what it does itself has not trapped (ecall.c:11).
ReturnsWhere ==
  [][ReturnFromTrap /\ resume # <<"zero", 1>> => pc' = resume]_vars

\* User code changes nothing the programs protect from it (u-mode.c:47): flag,
\* the devices, the protection, the machine registers except for a trap.
UserConfined ==
  [][mode = "U" => /\ UNCHANGED <<flag, device, pmp, mie, mtvec>>
                   /\ mode' = "U" => UNCHANGED <<mstatus, mcause, mepc>>]_vars

\* Every program comes to its end.
Ends == prog # "any" => <>Halted

\* pmp_csr passes like the others: all its nine cases succeed (pmp_csr.c:105).
PmpCsrPasses == Halted /\ prog = "pmp_csr" => x28 = 1
===============================================================================
