# A TLA+ model of RISCVBusiness

RISCVBusiness is a small RISC-V core in SystemVerilog with a firmware, test
programs and a simulator in C and C++. This directory holds TLA+ modules that
model the control logic of the core and the programs around it, the TLC
configurations that check them on small instances, and TLAPS proofs of their main
properties. `PROJECT.json` lists components, runs, mutants, hazards, theorems and,
for each definition, the source lines it stands for. Paths are relative to the root
of the repository; those of `.sv` files are relative to `source_code/`.

## 1. The system

The configuration modelled is that of `example.yml`: the two-stage pipeline,
the not-taken predictor, pass-through caches, privileged unit 1.12, and the
`ahb` or the `generic` bus bridge. All units of the core move at the same clock
edge, on wires that the others drive in the cycle before it; interrupt lines and
memory wait states come at any time. The software is sequential, but interrupts
and traps enter it between any two instructions.

| Component | State | Operations | Talks to | What is hard, what makes it correct |
|---|---|---|---|---|
| memory controller (`standard_core/memory_controller.sv`) | `current_state`, 7 states | arbitrate, drive a request, route the answer | instruction and data port, bridge | overlapped address and data phases, fetches withdrawn by interrupts; every answer goes to its port, no lock-up, no starvation |
| bus bridges (`bus_bridges/`) | AHB: IDLE/DATA; generic: a registered request; APB: setup/access | take a request, wait, end it | arbiter, memory | write data not registered with the address (AHB); address 0 (generic) |
| pipeline (`pipelines/tspp/`) | `pc`, `fetch_ex_reg`, halt | fetch, execute, stall, flush, redirect | arbiter, privileged unit, extensions | interrupt, trap, branch and memory wait in one cycle; in-order execution, precise traps, progress |
| privileged unit 1.12 (`privs/priv_1_12/`) | mode, CSRs | CSR access, trap entry, return, interrupt pending | hazard unit, interrupt lines | writes and injections at one edge; legal fields, the trap frame, confinement of user mode |
| PMP, PMA (`privs/priv_1_12/priv_1_12_pm*.sv`) | region registers with locks | match an access, write a register | fetch and execute stage, CSRs | region bounds, lock bits, the first matching region decides |
| trap handler (`verification/c-firmware/trap.S`, `trap.c`) | the saved registers, the loops of `asm_mul` and `asm_div` | save, decode, multiply, divide, write back, restore, return | the interrupted program | signed comparisons, division by zero and overflow, two copies of the registers; the program sees RV32M and nothing else |
| C self tests (`verification/c-tests`) | arrays, loop variables, the calls of `qsort`, the crc32 register | sort, sieve, divide, checksum, compare | trap handler, crc32 extension | bounds of loops, recursion, a handshake over eight cycles; every test passes and ends |
| crc32 extension (`risc_mgmt/extensions/crc32/`) | `curr_crc`, `count` | decode, reset, shift, finish | pipeline, `crc32.c` | `done` and start are told apart by the count alone |
| privileged test programs (`interrupts-exceptions`, `pmp-tests`, `pma-tests`, `u-mode` in `verification/`) | `flag`, the CSRs, the devices | CSR accesses, stores, handlers | privileged unit, PMP, test bench | interrupts of three sources and traps in every order; each handler once, all tests pass |
| Verilator test bench (`tb_core.cc`) | `mmap`, device registers, interrupt lines, the clock | serve the bus, update the lines, time out | generic bridge, `mip` | a two-phase handshake with the bridge; interrupt lines as set and clear pulses |
| performance counters (`priv_1_12_csr.sv`) | two 64-bit counters | count, inject | CSRs | carry between halves; a wire with no default (line 247) |
| privileged units 1.11, 1.7 | CSRs, pipelined interrupt state | as 1.12 | hazard unit | superseded |
| direct-mapped cache (`caches/direct_mapped_tpf/`) | frames, tag and dirty bits, FSM, counters | hit, fill, write back, flush, clear | execute or fetch stage, arbiter | a flush during a miss, an access during a fill |
| RISC-MGMT, RV32M (`risc_mgmt/`) | the state of the iterative multiplier and dividers | decode, execute over several cycles, memory | pipeline | a result that is taken too early or twice; division by zero and overflow |
| RV32C (`rv32c/`) | fetch buffer | join half words, decompress | fetch stage | half an instruction is left over at a redirect or trap |
| SparCE (`sparce/`) | SASA table, register zero flags | skip instructions | both stages | a stale zero flag skips code it must not |
| decoder, ALU, branch unit, extenders, register files | register file | combinational | execute stage | arithmetic, tested well by the instruction tests |
| FPU, memory models, trackers, other benches, FPGA, scripts | | | | not part of the core |

`PROJECT.json` gives each component its status and each hazard its line.

## 2. The modules

| Module | Extends or instantiates | Models |
|---|---|---|
| `MemoryController` | | arbiter, bridge, memory, two clients |
| `AtomicMemory` | | what the arbiter promises |
| `Pipeline`, `MC_Pipeline` | instance of `MemoryController` | fetch, execute, hazard unit, trap entry and return |
| `Priv112` | | CSRs and mode, edge by edge |
| `Pmp` | | memory protection and attributes |
| `TestPrograms`, `MC_TestPrograms` | `Pmp` | the privileged test programs on the privileged unit, PMP and devices |
| `Testbench`, `MC_Testbench` | | `tb_core.cc`, the held request of the bridge, `mip` |
| `Emulation` | | trap handler and the tests of RV32M |
| `SelfTests`, `MC_SelfTests` | `Emulation` | the other C self tests and the crc32 extension |
| `MemoryController_proofs`, `Priv112_proofs`, `Pmp_proofs`, `Emulation_proofs`, `SelfTests_proofs`, `Testbench_proofs` | the module of that name | theorems |
| `Pipeline_proofs` | `Pipeline`, instance of `MemoryController_proofs` | theorems |
| `TestPrograms_proofs` | `TestPrograms`, `Pmp_proofs` | theorems |

### MemoryController, AtomicMemory

One step is one rising clock edge. The variables are the registers; an operator
without a prime is a wire in the cycle that the edge ends. `mc` is
`current_state`; `ireq`, `dreq`, `wdata` are what the two ports drive; `bus`,
`held`, `wait` the bridge with its transfer; `igot`, `dgot` the word each port was
handed last.

* `InIdle` ... `InDataWait` are the branches of the case statement that computes
  `next_state`; `Out`, `IBusy` and `DBusy` are the one that computes the outputs.
* `BusStep` is the bridge and the memory: a request is taken when there is no
  transfer or it ends. `Bridge` selects between `ahb.sv` (write data is the live
  `wdata`) and `generic_nonpipeline.sv` (it is registered as `held`, and address
  0 is never done).
* `IPortStep` and `DPortStep` are the clients. A data request is held until it
  is answered. A fetch is held while the arbiter works on it, may change while
  the arbiter is idle, and may be withdrawn when `Redirect`: an interrupt makes
  `iren` low. `Pausing` lets the port be silent.

`AtomicMemory` is what the core may expect: a memory that serves each request of
either port in one step. `Linearizable` states that MemoryController implements
it; the refinement mapping is the identity, since the ports and the memory are
the same variables and the arbiter and the bridge are hidden.

### Pipeline

Fetch stage, execute stage and hazard unit on an instance of MemoryController,
whose ports they drive. An instruction is what memory holds at its address: one
of nine kinds that the hazard unit tells apart (`ecall` stands for every trap of
the execute stage, `set` and `clear` for CSR writes of `mstatus.mie`). The wires of
the hazard unit (`FlushHazard`, `PcEn`, `Flush`, `Stall`, `Intr`) have the code's
names and its terms, less those of the units left out. `due` and `intact` are
history variables: the address at which program order goes on, and whether an
interrupt has taken back a fetch too late for the abort of the arbiter (`TooLate`): in
INSTR_WAIT before the answer, or in DATA_REQ when the memory ends the data access in
the next cycle. The branch outcome is nondeterministic. `PortProtocol` says that the ports of
the pipeline behave as those that MemoryController assumes, so that what is shown
there holds here.

### Priv112

The machine CSRs as sets of bits, the mode, and one action, `Edge`, which is one
clock edge: the mode, `mstatus`, the other CSRs, `mip`, and the cause registers,
each with the code's priority of injection over instruction. The instruction in
the execute stage, the outcome and progress of the fetch behind it, and the
interrupt lines are chosen anew in each cycle. `saved` is a history variable: the
mode and `mie` at the last trap, until the handler returns or writes `mstatus`.

### Pmp, TestPrograms

`Pmp` has the two kinds of registers with their WARL checks and locks (`WriteCfg`,
`WriteAddr`), the matcher (`Hit`, first match wins) and the two permission checks of
the execute and the fetch stage. An entry of `pmpcfg` is the set of its bits that
are 1; addresses are those of words, with 30 bits.

In `TestPrograms` a program is a record of routines (main, handlers, the user
program), each a sequence of the operations software sees: CSR accesses, stores,
updates of `flag`, loops that wait for the timer. One step is one operation or one
trap, and while it takes place `mtime` moves on. A trap enters the routine that
`mtvec` and the cause select. Program `any` is not in the repository: it writes the
PMP registers at will and is what `LockedKept` and `PrefixKept` are checked on. All
loads and stores of the stack and all fetches are represented by the one address
`Text`; the messages a program prints are one store to the magic address;
`0xDEADBEEF`, which is more than a word address holds, has a stand-in.

### Testbench

One step is one pass of the main loop of `tb_core.cc`, which ends in a clock cycle:
`ServeRead`, `ServeWrite`, `ServeDevice`, `Release` and `Nothing` are the paths
through the handshake, `Tick` is the cycle in which the bridge takes the next
request and `mip` follows the lines, and `update_interrupt_signals` computes the
lines. The core is the environment: whenever the bridge is free it may put any
request of `Requests` on the bus. `waited`, `wrote` and `ref` are history.

### Emulation, SelfTests

`Emulation` is the trap handler. A word is a number below `Pow[Width]`; the code has
`Width` 32. `Illegal` and `Interrupt` are what `trap.S` does on entry, `Multiply`,
`DivideSpecial`, `Divide` and `Skip` the paths of `exception_handler`, `MulStep` and
`DivStep` one pass of the loops of `asm_mul` and `asm_div` each, `Store` the write to
the saved copy, `Return` the rest of `trap.S`. The programs that reach it are
`div.c`, `rem.c` and `mul.c`, case by case, or any instruction on `Operands` and
`Forms`. Interrupts arrive between two instructions.

`SelfTests` adds the sorting tests, the sieve and `crc32.c`. The sorting tests fill
their array from a generator; here it holds any values. `frames` are the calls of
`qsort` that have not returned; one step is one pass of an inner loop, one call or
one return. `crc32.c` builds its instructions bit by bit as the macros of
`custom_instruction_macros.h` do, and the extension decodes them and works for nine
cycles on each. Steps of the RV32M tests are steps of `Emulation`.

## 3. What TLC checks

| Run | Instance | Shows |
|---|---|---|
| `arbiter` | AHB, 0 or 2 wait states, fetches withdrawn at any time | `TypeOK`; `NoLockup`: the lock-up described in `memory_controller.sv:59-73` cannot happen; `Served`: neither port starves |
| `slow_memory` | AHB, 1 or 3 wait states, steady clients | `DataAnswer`, `InstrAnswer`: each answer ends the port's own transfer; `IssuedOnce`; `Linearizable` |
| `pipe_interrupts` | programs of four instructions, AHB, interrupts, 0 or 2 wait states | `TypeOK`; `InOrderIntact`: what enters the execute stage is the next instruction of the program, until an interrupt takes back a fetch too late |
| `pipe_slow` | programs that run into a protected address, generic bridge, interrupts, 0 or 1 wait state | `PortProtocol`, `PreciseOffBranch`, `Progress` |
| `priv` | six CSRs, swap, set, mret, ecall, the timer | `TypeOK`, `LegalFields`, `TrapFrame`, `UserConfined` |
| `programs` | every privileged test program, and free writes of PMP registers | `Passes`: they pass whenever the interrupts come; `EachOnce`: no handler runs twice; `AlignedRegion`: NAPOT regions are those of the privileged specification; `LockedKept`, `PrefixKept`; `ReturnsWhere`, `UserConfined`, `Ends`; `TypeOK` |
| `testbench` | two lanes of two bits, a time-out of 18 | `ServedOnce`: a request is served once; `ServedSoon`: within two passes; `BytesKept`: masked writes; `PendingFollows`: `mip` follows the devices; `MainEnds`; `TypeOK` |
| `self_tests` | words of 11 bits, one interrupt, arrays of 5 elements of 3 values | `LongDivision`, `Emulated`: the handler is RV32M; `Permuted`, `BubbleTail`, `Partitioned`, `Sieved`: the loops; `TestsPass`, `TestsEnd`; `TestTypeOK` |
| `pipe_stale_fetch` | `pipe_interrupts`, generic bridge, one wait state | `InOrder` fails |
| `pipe_lost_branch` | the same without wait states | `PreciseTrap` fails |
| `emulation_rem` | the operands of `rem.S`: 20 and 6 with every sign | `RemSign` fails |
| `pmp_csr` | the program `pmp_csr.c` | `PmpCsrPasses` fails |

**Bounds.**

* *Arbiter.* Two addresses and two values are enough to tell the own answer from
  another one and an old word from a new one. Wait states 0, 1, 2 and 3 cover a
  transfer that ends at once, in the cycle in which the arbiter changes state, and
  after it; the arbiter has no counter, so that further wait states only repeat a
  state.
* *Pipeline.* Programs of four or five instructions with a handler of two give every
  pair of neighbours in the two stages and a trap inside a handler.
* *Priv112.* One source of interrupts: the cause does not enter `mstatus` or the mode.
* *Emulation.* Words of 11 bits hold the constants of the tests. `MCOperands` has the
  numbers around 0, a quarter, a half and the end of the range, in every pair;
  `MCForms` has registers that coincide, `x0`, and the registers the handler does not
  restore. The theorems hold for every width.
* *SelfTests.* 5 elements of 3 values are all orders with equal elements, and
  recursion on both sides of a pivot; the theorems hold for every length. The sieve
  has its own length, 50, and `crc32.c` its own data.
* *TestPrograms.* `Expiry` is 14 for the `0xFF` of the programs, and `mtime` moves by
  1, 2 or 5 during an operation, so that the timer may fire between any two
  operations that follow its setting; `mtime` stands still in programs that do not use
  it. `InsnCycles` is 3: `u-mode/csr.c` expects two reads of a counter to be close,
  which depends on the latency of the memory. `MCWordAddr` has the lowest words and
  the edges of the programs' regions.
* *Testbench.* With two lanes of two bits the 64-bit counters become four digits that
  carry within the time-out of 18. `Requests` has every device, whole words and single
  lanes, on words the program file fills and on others.

**Fairness.** `WF_vars(Next)`, everywhere: the clock keeps running, the core keeps
executing, the simulator keeps looping. Nothing else is assumed: a memory inserts at
most the largest number of `Latency`, and interrupts may be pending at any or every
edge. Priv112 is checked for safety only. `MainEnds` of Testbench needs no progress of the
core: the time-out ends it. `TestsEnd` rests on the bound `MaxIrq`, since a program
interrupted for ever does nothing else.

**Deadlock** is checked in every run. A clocked design always has a next state, and a
program that has ended loops (`Loop`, `InfLoop`, `Ended`).

**How the modules fit.** `PortProtocol` connects Pipeline to MemoryController.
`ServedSoon` shows that the memory of the test bench has no more wait states than
`arbiter` and `slow_memory` are checked with. `PendingFollows` is what lets
TestPrograms say that a pending bit follows its device by the next operation.

### Where the code and its documentation disagree

* *A withdrawn fetch is answered to the next one* (`pipe_stale_fetch`). The
  abort covers a fetch in INSTR_REQ, and one in DATA_INSTR_REQ behind a data access: if
  the access goes on, the fetch becomes that of the handler, and if it ends, the arbiter
  goes to IDLE. A fetch withdrawn in INSTR_WAIT is finished, and its word goes to the
  fetch of the handler. It takes one wait state. In DATA_REQ an interrupt sends the
  arbiter to DATA_WAIT, which drives the data access again: with a like effect if the
  memory answers at once, and none if it waits. `InOrderIntact` holds until one of
  these two cases has happened, and includes all the others; without either exception
  TLC finds it violated.
* *An interrupt at a taken branch loses the branch* (`pipe_lost_branch`):
  `mepc` is the address behind the branch, and the redirection of the trap wins.
* *The sign of REM* (`emulation_rem`): the remainder is inverted whenever one of the
  operands is negative; `rem.c` has no case that shows it, `rem.S` does.
* *The lock below a TOR entry* (`pmp_csr`): the number of the entry above is computed
  once, at time 0, so that the check always looks at entry 1, and `pmp_csr.c` ends
  with 2 in `flag`.

The models contain these further behaviours, which no run is spent on. In the core:

* A write of `mstatus` at the edge of an interrupt is lost, since the handler
  injects a value made from the old one (`priv_1_12_csr.sv:335`).
* The cause of an interrupt is read from the lines and not from `mip` and `mie`
  (`priv_1_12_int_ex_handler.sv:48`): it may name a disabled source.
* The check of `mpp` reads the operand of a CSR instruction, not the result
  (`priv_1_12_csr.sv:269`).
* A fetch fault on the address behind a taken jump traps, and the jump is lost
  (`tspp_hazard_unit.sv:82`): `PreciseOffBranch` leaves branches out.
* A fault of the fetch hides an illegal instruction in the execute stage:
  `mcause` is the fetch's, `mepc` the instruction's
  (`priv_1_12_int_ex_handler.sv:79-84`); it does not write `mtval` (178-185).
* The check of the user counters is not limited to CSR instructions
  (`priv_1_12_csr.sv:411`).
* DATA_WAIT drives the data request in the cycle that ends it. Clients that do not
  fetch meanwhile, such as instruction caches, have each load and store issued twice
  if there is no wait state; over AHB the second write takes the data of the next
  request. `IssuedOnce` and `Linearizable` hold for such clients with wait states only.
  The pipeline fetches always, so that it enters DATA_WAIT only when an interrupt
  withdraws the fetch (`AnswersRight`).
* Over the generic bridge an access to address 0 never completes.
* A fetch is judged by whether the *data* address matches a PMP entry
  (`priv_1_12_pmp.sv:251`), and MPRV applies to fetches too. `pmpaddr15` cannot be
  written, and the lock below a TOR entry is that of entry 1 for all.
* The WARL check of the second PMA configuration register corrects the first one.

In the firmware and the tests:

* Each trap leaves `sp` 4 lower than it was and `ra` changed, as the return of
  `trap.S` is never reached: the handler's own `mret` ends the trap. Operands in
  `x1` and `x2` are read wrong, and results for `x1` to `x4` are lost. `PlainForm`
  names these registers.
* The high halves of products (MULH, MULHSU, MULHU) are a TODO: `rd` keeps its value.
* `asm_div` compares with a signed `blt`: DIVU and REMU are wrong for divisors from
  half the range on, and for large dividends, DIV and REM for `INT_MIN` with a large
  divisor. `Small` says exactly for which operands the loop is right.
* `mepc + 4` is the return address of every exception, whatever its cause.
* `quicksort.c:75` says "median of three"; the element chosen is not always the
  median, and the branch at line 88 cannot be reached. Sorting does not depend on it.
* `pmp_csr.c:79` has `=` for `==`, and `pma-tests/utility.c:18` prints some hex
  digits wrong. The handlers of `u-mode` read the interrupt bit of `mcause` by a
  complement that is never zero.
* In the test bench, the first store to a word that the program file does not fill
  takes all lanes of `wdata` (`tb_core.cc:155`): `sb` to a word of the bss writes all its
  four bytes, the other three of which `tb_core.cc:43` assumes to be 0. `BytesKept` is about
  the bytes that were written.
* One word behind the program image holds garbage; MSIP ignores the mask; a halt in the
  very last pass is reported as a time-out.

## 4. What TLAPS proves

The assumptions are those named in the modules; all theorems hold for every value of
the constants that satisfies them.

`MemoryController_proofs`, for all sets of addresses, values and latencies:

* `TypeCorrect`.
* `LockupFree`: `NoLockup` holds for either bridge and every behaviour of the
  ports, if address 0 is not used over the generic bridge (`ZeroFree`; there the
  code hangs). The invariant is inductive together with `TypeOK` once it also
  says that a transfer exists in the states that follow a drive.
* `AnswersPaired`, `DataAnswered`, `DataIssuedOnce`: with clients that hold their
  requests and a memory that always inserts a wait state (`Steady`), `DataAnswer`,
  `InstrAnswer` and `IssuedOnce`. The inductive invariant `Pairing` tells for each
  state of the arbiter whose transfer the bridge holds.
* `ImplementsAtomicMemory`: under the same assumptions `Linearizable`. An edge
  at which a port is not busy is the abstract answer to it; any other edge is
  the abstract `Wait`.

`Pipeline_proofs`, for all programs, handlers, protected addresses, latencies and
either bridge. No wait state is assumed, and interrupts come at any edge:

* `TypeCorrect`.
* `PortsKeep`: every edge of the pipeline is an edge of MemoryController, the safety
  part of `PortProtocol`. The invariant `PortInv` says why the hazard unit keeps to
  the protocol: the ports show what the two stages ask for (`PortsFollow`), a data
  access stays in the execute stage until it is answered (`DataHeld`), it starts when
  the arbiter is idle (`AccessFromIdle`), and a branch, a trap of the execute stage or
  a return finds the arbiter idle (`TurnsIdle`), so that none of them withdraws a
  fetch: only interrupts do. The theorems of `MemoryController_proofs` then hold for
  the core; `LockupFree` draws `NoLockup` from them.
* `FetchInOrder`, `TrapsPrecise` (`PreciseOffBranch`): by `DueInv`, the address at
  which the program goes on is that of the fetch, unless the execute stage is about
  to redirect it.
* `OrderKept` (`InOrderIntact`): by `MatchInv`, as long as no interrupt has taken back
  a fetch too late, the transfer the arbiter waits for is the fetch at `pc`. It never
  enters INSTR_DATA_REQ, and DATA_WAIT, the other state that could take one transfer for
  another, only with interrupts masked and a data access that goes on; it then drives
  the fetch of the handler next. In DATA_INSTR_REQ the fetch may be withdrawn: only the
  data access is on the bus. The exception, `Stuck`, is a handler that is protected
  itself: the core then traps for ever. `OrderKeptQuiet`: without interrupts `InOrder`
  holds without reservation.
* `AnswersRight`: the three properties of `AnswersPaired` on the core, without `Steady`,
  while `intact`. It assumes that the handler is not protected and that the address 0
  is not used over the generic bridge (`NoZero`).

`Priv112_proofs`, for all sets of CSRs, lines, instructions and fetch outcomes:

* `TypeCorrect`, `FieldsLegal`: the inductive invariant is their conjunction,
  for `mret` loads the mode from `mpp`, so that the type of the mode rests on
  the legality of `mpp`.
* `FrameKept`: `TrapFrame` is inductive relative to that invariant.
* `UserIsConfined`: each step out of a state in user mode.

`Pmp_proofs`, for all values that software writes, in any order:

* `TypeCorrect`: the registers hold legal values only.
* `LocksHold`: `LockedKept`. `PrefixHolds`: if all entries up to one are locked, that
  entry goes on deciding the words it decides; the lower neighbour of a TOR entry is
  among the locked ones, so that the missing lock of section 3 does no harm there.
* `RegionsHold`: `AlignedRegion`, for all addresses and all sizes from 8 bytes on. The
  matcher compares the bits above the lowest 0 of `pmpaddr`; that bit is unique
  (`OnesNext`, `OnesBelow`, `NotOnesAbove`), and a comparison of high bits is a
  comparison with the two ends of a block (`SameBlock`). The powers of two are
  computed once, as a list of facts (`PowersOfTwo`).

`Emulation_proofs`, for words of every width, all operands and all register forms:

* `TypeCorrect`, `LongDivisionHolds`, `EmulationHolds` (`Emulated`). The inductive
  invariant `IInv` says, for each place of the handler, what the registers amount to:
  `Multiplying` (the sum so far plus the rest of the product is the product),
  `Shifting` (the dividend is quotient so far times divisor plus partial remainder,
  times the place value, plus the bits not yet used), `Divided` and `Stored` (the
  quotient and remainder before their signs), `Answered` (what `rd` of the saved copy
  holds), `Kept` (every other register of that copy is the program's). `Small` is
  what makes the signed comparisons harmless: every partial remainder stays below
  half the range. `DivUnique` (quotient and remainder are unique) ties the loops to
  `\div` and `%`.
* `SelfTestsPass`: `div.c`, `rem.c` and `mul.c` never fail, if words hold their operands
  (`Half > 639`). By `OnCase` the registers hold the operands of the case until the
  handler returns, and `SuitesRight` says that each expected value is what RV32M says.

`SelfTests_proofs`, for arrays of every length and contents:

* `TestTypesCorrect`: `TestTypeOK`. For `crc32.c` it needs to be known of each word the
  program builds which instruction the extension takes it for (`Funct3Place`,
  `CrcResetNotByte`).
* `TestsEmulated`: the program of the self tests refines `Emulation`, so that the two
  properties hold there.
* `BubbleTailHolds`; `PartitionedHolds`; `SortsPass`: neither sorting test fails. For
  quicksort the inductive invariant `Calls` describes the stack of calls: each range
  lies in that part of every caller's range which the caller sorts at the moment
  (`Inside`), so that exchanges inside it keep the caller's pivot in place (`Parted`)
  and its left part in order (`LeftDone`); a call that returns has put its range in
  order (`ReturnSorts`), down to the last one, which has the whole array. The depth
  bound is in `Shaped`: a range is shorter than its caller's.
* `PermutedHolds`: every step of the arrays is an exchange of two elements
  (`StepSwaps`), and an exchange maps the places of a value one to one (`SwapPermutes`).
* `SievedHolds`: `Sieved`, for every length. The step that a test would not reach is the
  end of a pass: a composite has a factor below it that the sieve has not struck out
  (`FactorOfFactor`), and the inner loop, which starts at the square, strikes out every
  multiple from there on (`NextMultiple`, `StrikesOne`).
* `TestsPassBut`: all self tests but `crc32.c` pass. It assumes that words hold the
  operands and that the sieve is no longer than 50, the length in the code, for the
  table of primes that `sieve.c` compares with ends there (`GoldenRight`).

`Testbench_proofs`, for all memory maps, numbers of lanes, bases, time-outs and sets of
requests:

* `TypeCorrect`. `TimeShown`: the two words in which `mmio_read` shows the clock are the
  whole clock. Both rest on what digits and numbers are (`NumberStages`, `Digit`), for
  which the recursive functions `Power` and `Number` are unfolded with the module's
  section on induction.
* `ServesOnce` (`ServedOnce`), `ServesSoon` (`ServedSoon`): by `Waiting`, `busy` is up
  after every pass in which the bridge waited.
* `MemoryKept` (`BytesKept`): by `Kept`, every word that was written to is present, and so
  are the words of the file and the one behind.
* `PendingRight` (`PendingFollows`): by `LinesInv`, a line shows its device, and a pending
  bit of a line that is low is about to be cleared.

`TestPrograms_proofs`, for every `Expiry`, every set of steps of the clock (`Ticks`) and
every set of programs:

* `ProgramTypes`, `ProgramsPass` (`Passes`), `ProgramReturns` (`ReturnsWhere`),
  `ProgramConfines` (`UserConfined`). The inductive invariant `PInv` has a part for each
  group of programs, and each part says of every place of the program what the
  privileged registers, the flag and the path of a trap hold there:
  `VInv` and `EInv` (the interrupts of `vectored.c` and `ex_after_int.c`), `UInv` (user
  mode), `MInv` (`ecall.c`, `pma.c` and the three tests of the matchers), `CInv`
  (`pmp_csr.c`). For the matchers, `MHits` says which words the entries of each
  configuration take in, from the lemmas of `Pmp_proofs`, and `PmpFault` shows that the
  store the program means to provoke a trap with does fault. For `pmp_csr.c` the one locked entry is a TOR with address 0, which
  matches nothing, so that the program is not locked out of itself.
* `ProgramsPass` needs one fact about time: the second reading of `mcycle` in `csr.c` must
  lie within the 15 cycles the program allows, which it does if an instruction takes
  no more than three (`Close`).
* `Confined`: the part of `UserConfined` that does not depend on what user code is.
  It rests on the two entries of `u-mode.c`, and on mode U alone.
* `OncePerInterrupt` (`EachOnce`): by `VInv` and `EInv` an interrupt that has been served
  is no longer pending or no longer enabled when its handler returns.
* `ProgramLocks`, `ProgramPrefix`: `LockedKept` and `PrefixKept` of the composition, whose
  registers are written through `csrw` only (`ProgramWrites`).

The program `any`, which writes any value to any PMP register, is not one of the
repository: it is there for the two properties of the locks. The other theorems leave
it out (`prog # "any"`), for it can lock itself out of its own code before `mtvec` is set.

**What recursion needs.** A recursive function is what its equation says only after a
proof that such a function exists. `Testbench_proofs` has this for functions on `0 .. n`
(`Recursion`, `RecursionUnique`), and induction itself, with a set for the predicate
(`EveryStage`; `EveryBit` in `Pmp_proofs`), from the well-foundedness of the numbers: no
theorem has an operator as a parameter.

**Only model-checked.**

* All liveness: `Served`, `Progress`, `Ends`, `TestsEnd`, `MainEnds`, and that the clock of
  MemoryController is fair (the last part of `PortProtocol`). Fairness and `ENABLED` are
  out of the prover's reach.
* `TypeOK` of TestPrograms for the program `any`, and `PmpCsrPasses`, which is violated
  (section 3).
* That `crc32.c` gets its golden value, one computation on fixed data.

**Assumptions.** The named assumptions of the modules bound the constants. Two of
them were found while proving: `ClockAssumption`, that a time before the time-out fits
into 64 bits, and `MemoryAssumption`, on the latencies and the bridge that Pipeline hands
to MemoryController.

## 5. What is not modelled

* Byte enables and endianness in the arbiter, register contents and arithmetic in
  Pipeline have no influence on the control that these modules describe. Left out
  although they do: RISC-MGMT, SparCE, RV32C (off in `example.yml`), `fence.i`,
  `halt`, misaligned addresses in Pipeline, and writes of `mscratch` in Priv112.
* The direct-mapped cache, the iterative multiplier and dividers, the fetch buffer,
  the SASA table, `apb.sv`, the counters and the older privileged units. They are
  parts that the configurations of the repository leave out or replace.
* Four hazards wait for a model: the register write of a trapping CSR instruction
  (`tspp_execute_stage.sv:209`), the first cycle of `fence.i`
  (`tspp_execute_stage.sv:344`), the latch on `inject_mcycleh`
  (`priv_1_12_csr.sv:246`), and a flush during a miss of the cache
  (`direct_mapped_tpf_cache.sv:200`).
* The memory of MemoryController is external: it is whatever answers after a number
  of wait states. Of the test bench, files, the trace and the dump are left out.
* `verification/asm-env/encoding.h` is a generated list of numbers;
  `simple.c`, `array_test.c` and `printtest.c` are straight-line code; the assembly
  tests are stimulus.

## 6. Plan

1. The core (`MemoryController`, `AtomicMemory`, `Pipeline`, `Priv112`), the firmware
   and the tests (`Emulation`, `SelfTests`), memory protection (`Pmp`,
   `TestPrograms`), the test bench, and the proofs above: done.
2. A proof of the golden value of `crc32.c`.
3. `Cache`: the direct-mapped cache with hit, fill, write-back, flush and clear,
   over the arbiter's port protocol; abstract specification AtomicMemory with a
   flush; properties: a hit returns the last word written, no dirty word is lost
   by an eviction or a flush, a flush ends.
4. `Divider`, `Multiplier` (RV32M) against integer arithmetic on narrow words, with
   the handshake of RISC-MGMT; the arithmetic lemmas of `Emulation_proofs` carry over.
5. Pipeline extended by the register write, `fence.i` and halt; `Pmp` in place of its
   constant `Protected`.
6. `FetchBuffer` (RV32C), `SasaTable` (SparCE), `Apb`, `Counters`, privileged units
   1.11 and 1.7.

## Running

    tlc -config MC_arbiter.cfg MemoryController.tla
    tlc -config MC_slow_memory.cfg MemoryController.tla
    tlc -config MC_pipe_slow.cfg MC_Pipeline.tla
    tlc -config MC_priv.cfg Priv112.tla
    tlc -config MC_programs.cfg MC_TestPrograms.tla
    tlc -config MC_testbench.cfg MC_Testbench.tla
    tlc -config MC_self_tests.cfg MC_SelfTests.tla
    tlapm SelfTests_proofs.tla

The other runs and proofs are called alike.
