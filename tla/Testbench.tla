------------------------------ MODULE Testbench ------------------------------
(***************************************************************************)
(* The Verilator test bench (tb_core.cc): the memory and the devices it    *)
(* emulates, the main loop that serves the bus of the core, and the        *)
(* interrupt lines it drives, with the two registers of the core on the    *)
(* other side of these wires: the request generic_nonpipeline holds, and   *)
(* mip.  The core itself is the environment: whenever the bridge is free   *)
(* it may put any request on the bus.                                      *)
(*                                                                         *)
(* One step is one pass of the main loop, which ends with a clock cycle.   *)
(* A word is a function from its byte lanes to bytes.                      *)
(***************************************************************************)
EXTENDS Integers

CONSTANTS
  Lanes,    \* byte lanes of a word, 4 in the code
  Base,     \* values of a byte, 256 in the code
  Image,    \* the addresses the program file fills
  Tail,     \* the address behind them
  Bss,      \* addresses the file does not fill
  Data,     \* what the words of the file may hold
  Requests, \* what the core may ask for, NoReq among it
  Timeout   \* 100000 in the code

ASSUME ShapeAssumption == Lanes \in Nat \ {0} /\ Base \in Nat /\ Base > 1
ASSUME TimeAssumption == Timeout \in Nat /\ Timeout > 6

Lane == 0 .. Lanes - 1
Byte == 0 .. Base - 1
Word == [Lane -> Byte]

Device == {"MTIME", "MTIMEH", "MTIMECMP", "MTIMECMPH", "MSIP",
           "EXT_SET", "EXT_CLEAR", "MAGIC"}
Ram == Image \cup {Tail} \cup Bss
Interrupt == {"soft", "timer", "ext"}

Zero == [l \in Lane |-> 0]
Ones == [l \in Lane |-> Base - 1]

\* The wires ren, wen, addr, wdata and byte_en of the bus.
NoReq == [op |-> "none", addr |-> Tail, data |-> Zero, mask |-> Lane]
Request == [op : {"none", "read", "write"}, addr : Ram \cup Device,
            data : Word, mask : SUBSET Lane]

ASSUME RequestAssumption ==
  Data \subseteq Word /\ Requests \subseteq Request /\ NoReq \in Requests

VARIABLES
  mem,       \* mmap: the words that are present
  msip, ext_int, mtimecmp, sim_time,
  busy,      \* dut.busy
  rdata,     \* dut.rdata
  req,       \* ren, wen, addr, wdata and byte_en: what the bridge holds
  line,      \* dut.soft_int, dut.timer_int, dut.ext_int
  clear,     \* dut.soft_int_clear, ...
  mip,       \* the pending bits of the core
  halt,      \* dut.halt
  result,    \* what main prints at its end, "none" before
  \* History, for the properties:
  waited,    \* the passes in which the bridge took no request
  wrote,     \* the bytes of the memory written so far
  ref        \* what each byte of the memory must hold

device == <<msip, ext_int, mtimecmp>>
history == <<waited, wrote, ref>>
vars == <<mem, msip, ext_int, mtimecmp, sim_time, busy, rdata, req, line, clear,
          mip, halt, result, waited, wrote, ref>>

-----------------------------------------------------------------------------
\* The numbers words stand for: uint32_t and the halves of uint64_t.
Power[n \in 0 .. Lanes] == IF n = 0 THEN 1 ELSE Base * Power[n - 1]
Size == Power[Lanes]

\* sim_time is a uint64_t: it does not wrap before the timeout.
ASSUME ClockAssumption == Timeout < Size * Size

WordOf(n) == [l \in Lane |-> (n \div Power[l]) % Base]
Number(w) == LET upto[n \in 0 .. Lanes] ==
                   IF n = 0 THEN 0 ELSE upto[n - 1] + Power[n - 1] * w[n - 1]
             IN upto[Lanes]

Compare == Number(mtimecmp.lo) + Size * Number(mtimecmp.hi)

\* value & mask | old & ~mask
Masked(new, old, mask) == [l \in Lane |-> IF l \in mask THEN new[l] ELSE old[l]]

\* MemoryMap::read: a word that is not present reads as zero.
Lookup(a) == IF a \in DOMAIN mem THEN mem[a] ELSE Zero

mmio_read(a) ==
  CASE a = "MTIME" -> WordOf(sim_time % Size)
    [] a = "MTIMEH" -> WordOf(sim_time \div Size)
    [] a = "MTIMECMP" -> mtimecmp.lo
    [] a = "MTIMECMPH" -> mtimecmp.hi
    [] a = "MSIP" -> msip
    [] a = "EXT_SET" -> IF ext_int THEN WordOf(1) ELSE Zero
    [] a \in {"EXT_CLEAR", "MAGIC"} -> Zero

-----------------------------------------------------------------------------
\* After reset(): three cycles have passed.  The loop of the constructor ends
\* one word late, with a word that no read has filled.
Init ==
  /\ \E word \in Data, garbage \in Data :
       mem = [a \in Image \cup {Tail} |-> IF a = Tail THEN garbage ELSE word]
  /\ msip = Zero /\ ext_int = FALSE
  /\ mtimecmp = [lo |-> Ones, hi |-> Ones]
  /\ sim_time = 6
  /\ busy = TRUE /\ rdata = Zero
  /\ req \in Requests
  /\ line = [d \in Interrupt |-> FALSE]
  /\ clear = [d \in Interrupt |-> FALSE]
  /\ mip = [d \in Interrupt |-> FALSE]
  /\ halt = FALSE /\ result = "none"
  /\ waited = 0 /\ wrote = {}
  /\ ref = [a \in Ram |-> Lookup(a)]

\* Mutant: one pass more.
LoopingLong == ~halt /\ sim_time <= Timeout /\ result = "none"

Looping == ~halt /\ sim_time < Timeout /\ result = "none"

\* The condition under which a pass of the loop serves the bus.
Serves == Looping /\ req.op # "none" /\ busy

ServeRead ==
  /\ Serves /\ req.op = "read"
  /\ rdata' = IF req.addr \in Device THEN mmio_read(req.addr) ELSE Lookup(req.addr)
  /\ busy' = FALSE
  /\ UNCHANGED <<mem, device, wrote, ref>>

\* Mutant: the write of a word that is present replaces the whole word.
StoredWhole(a) == req.data

\* MemoryMap::write: the mask counts only for a word that is present.
Stored(a) == IF a \in DOMAIN mem THEN Masked(req.data, mem[a], req.mask)
             ELSE req.data

ServeWrite ==
  /\ Serves /\ req.op = "write" /\ req.addr \in Ram
  /\ LET a == req.addr
     IN /\ mem' = [b \in DOMAIN mem \cup {a} |-> IF b = a THEN Stored(a) ELSE mem[b]]
        /\ ref' = [ref EXCEPT ![a] = Masked(req.data, ref[a], req.mask)]
        /\ wrote' = wrote \cup ({a} \X req.mask)
  /\ busy' = FALSE
  /\ UNCHANGED <<device, rdata>>

\* mmio_write.
ServeDevice ==
  /\ Serves /\ req.op = "write" /\ req.addr \in Device
  /\ mtimecmp' =
       IF req.addr = "MTIMECMP"
       THEN [mtimecmp EXCEPT !.lo = Masked(req.data, mtimecmp.lo, req.mask)]
       ELSE IF req.addr = "MTIMECMPH"
       THEN [mtimecmp EXCEPT !.hi = Masked(req.data, mtimecmp.hi, req.mask)]
       ELSE mtimecmp
  /\ msip' = IF req.addr = "MSIP" THEN req.data ELSE msip
  /\ ext_int' = (req.addr = "EXT_SET" \/ (req.addr # "EXT_CLEAR" /\ ext_int))
  /\ busy' = FALSE
  /\ UNCHANGED <<mem, rdata, wrote, ref>>

\* Mutant: busy is not raised again.
ReleaseMissing ==
  /\ Looping /\ ~busy
  /\ UNCHANGED <<mem, device, busy, rdata, wrote, ref>>

Release ==
  /\ Looping /\ ~busy
  /\ busy' = TRUE
  /\ UNCHANGED <<mem, device, rdata, wrote, ref>>

Nothing ==
  /\ Looping /\ busy /\ req.op = "none"
  /\ UNCHANGED <<mem, device, busy, rdata, wrote, ref>>

\* Mutant: a bridge that has no request waits for the end of one.
LatchesAtEnd == ~busy'

\* generic_nonpipeline takes the next request at this edge.
Latches == ~busy' \/ req.op = "none"

\* Mutant: the clock does not count.
TickTimeless ==
  /\ sim_time' = sim_time
  /\ IF Latches THEN req' \in Requests ELSE req' = req
  /\ mip' = [d \in Interrupt |-> line[d] \/ (mip[d] /\ ~clear[d])]
  /\ halt' \in BOOLEAN
  /\ waited' = IF Latches THEN 0 ELSE waited + 1

\* tick: the edge at which the bridge and mip of the core take their inputs.
Tick ==
  /\ sim_time' = sim_time + 2
  /\ IF Latches THEN req' \in Requests ELSE req' = req
  /\ mip' = [d \in Interrupt |-> line[d] \/ (mip[d] /\ ~clear[d])]
  /\ halt' \in BOOLEAN
  /\ waited' = IF Latches THEN 0 ELSE waited + 1

\* Whether a device asks for an interrupt.
Level(d) == CASE d = "soft" -> msip[0] % 2 = 1
              [] d = "timer" -> Compare <= sim_time
              [] d = "ext" -> ext_int

\* Mutant: the falling edge of a line does not raise its clear wire.
UpdateNoClear ==
  /\ line' = [d \in Interrupt |-> Level(d)']
  /\ clear' = [d \in Interrupt |-> FALSE]

\* After the tick: a line falls with its clear wire up for a cycle.
update_interrupt_signals ==
  /\ line' = [d \in Interrupt |-> Level(d)']
  /\ clear' = [d \in Interrupt |-> IF line'[d] THEN clear[d] ELSE line[d]]

Pass == \/ ServeRead \/ ServeWrite \/ ServeDevice \/ Release \/ Nothing
Loop == Pass /\ Tick /\ update_interrupt_signals /\ UNCHANGED result

\* The end of main; x28 is whatever the program left there.
Report ==
  /\ result = "none" /\ (halt \/ sim_time >= Timeout)
  /\ IF sim_time >= Timeout THEN result' = "TIMED OUT"
     ELSE \E x28 \in 0 .. 2 : result' = IF x28 = 1 THEN "PASSED" ELSE "FAILED"
  /\ UNCHANGED <<mem, device, sim_time, busy, rdata, req, line, clear, mip,
                 halt, history>>

Ended == result # "none" /\ UNCHANGED vars

Next == Loop \/ Report \/ Ended

\* The simulation keeps running.
Spec == Init /\ [][Next]_vars /\ WF_vars(Next)

-----------------------------------------------------------------------------
TypeOK ==
  /\ DOMAIN mem \subseteq Ram /\ \A a \in DOMAIN mem : mem[a] \in Word
  /\ msip \in Word /\ ext_int \in BOOLEAN
  /\ mtimecmp \in [lo : Word, hi : Word]
  /\ sim_time \in 6 .. Timeout + 1
  /\ busy \in BOOLEAN /\ rdata \in Word /\ req \in Request
  /\ line \in [Interrupt -> BOOLEAN] /\ clear \in [Interrupt -> BOOLEAN]
  /\ mip \in [Interrupt -> BOOLEAN] /\ halt \in BOOLEAN
  /\ result \in {"none", "TIMED OUT", "PASSED", "FAILED"}
  /\ waited \in Nat
  /\ wrote \subseteq Ram \X Lane /\ ref \in [Ram -> Word]

\* The two-phase handshake of main (tb_core.cc:270-291) carries out each
\* request the bridge holds exactly once before the bridge takes the next: none
\* is lost, and none is repeated (a second write of MAGIC would print twice).
ServedOnce ==
  [][ Loop => ((Latches /\ req.op # "none") <=> Serves) ]_vars

\* The bridge never waits for more than one pass: the memory of the test bench has
\* no more wait states than those MemoryController is checked with.
ServedSoon == waited <= 1

\* A byte of the memory holds what was last written to it with its lane
\* enabled, whatever was written to the other bytes of its word and wherever
\* the word is (tb_core.cc:148); the program file counts as a write.
BytesKept ==
  \A a \in Ram, l \in Lane :
    (a \in Image \cup {Tail} \/ <<a, l>> \in wrote) => Lookup(a)[l] = ref[a][l]

\* The pending bits of the core are what the devices asked for one pass before,
\* although the wires between them carry set and clear commands and no levels:
\* no level is lost or left behind, however fast it changes (tb_core.cc:183).
\* A program that has read from mtime that the time of mtimecmp is reached has
\* its interrupt pending, as vectored.c:96 needs.
PendingFollows == [][ Loop => \A d \in Interrupt : mip'[d] = Level(d) ]_vars

\* main ends, with a core that never halts too.
MainEnds == <>(result # "none")
=============================================================================
