--------------------------------- MODULE Pmp ---------------------------------
(***************************************************************************)
(* Physical memory protection (privs/priv_1_12: pmp, pmp_matcher) and the  *)
(* reset contents of the physical memory attributes (pma).                 *)
(*                                                                         *)
(* The specification of this module lets machine-mode software write any   *)
(* pmpcfg and pmpaddr register at any time.  An entry of pmpcfg is the set *)
(* of the bits that are 1, an address is that of a word.                   *)
(***************************************************************************)
EXTENDS Integers

CONSTANTS
  Groups,     \* the pmpcfg registers that software writes
  CfgValues,  \* what it writes into them: four entries
  Registers,  \* the pmpaddr registers that it writes
  AddrValues, \* what it writes into a pmpaddr register
  WordAddr    \* the words whose protection the properties compare

Bit == 0 .. 7

ASSUME CfgAssumption == Groups \subseteq 0 .. 3 /\ CfgValues \subseteq [0 .. 3 -> SUBSET Bit]
ASSUME AddrAssumption == Registers \subseteq 0 .. 15 /\ AddrValues \subseteq Nat
ASSUME WordAssumption == WordAddr \subseteq Nat

VARIABLES pmpcfg, pmpaddr

pmp == <<pmpcfg, pmpaddr>>

-----------------------------------------------------------------------------
Entry == 0 .. 15

\* pmpcfg_base_t: L, two reserved bits, A, X, W, R.
R == 0
W == 1
X == 2
L == 7
Reserved == {5, 6}

\* The two bits of A.
OFF == {}
TOR == {3}
NA4 == {4}
NAPOT == {3, 4}
Mode(n) == pmpcfg[n] \cap NAPOT
Locked(n) == L \in pmpcfg[n]

PmpInit ==
  /\ pmpcfg = [n \in Entry |-> {}]
  /\ pmpaddr = [n \in Entry |-> 0]

-----------------------------------------------------------------------------
\* Mutant: the reserved bits are stored.
LegalReserved(byte) == IF R \in byte THEN byte ELSE byte \ {W}

\* The WARL checks: reserved bits read as zero, and no entry is write-only.
Legal(byte) == (IF R \in byte THEN byte ELSE byte \ {W}) \ Reserved

\* Mutant: a write of a group is kept out only by the lock of its first entry.
WriteCfgGroup(group, value) ==
  /\ pmpcfg' = [n \in Entry |-> IF n \div 4 = group /\ ~Locked(4 * group)
                                THEN Legal(value[n % 4]) ELSE pmpcfg[n]]
  /\ UNCHANGED pmpaddr

WriteCfg(group, value) ==
  /\ pmpcfg' = [n \in Entry |-> IF n \div 4 = group /\ ~Locked(n)
                                THEN Legal(value[n % 4]) ELSE pmpcfg[n]]
  /\ UNCHANGED pmpaddr

\* The entry whose mode is looked at for the sake of TOR.  The two variables that
\* select it are given a value in their declaration, once, while the address
\* of the CSR is still 0; they never follow it.
Above == 1

\* Mutant: only the lock of the entry above counts.
WritableAbove(n) == n # 15 /\ ~(Mode(Above) = TOR /\ Locked(Above))

Writable(n) == ~Locked(n) /\ n # 15 /\ ~(Mode(Above) = TOR /\ Locked(Above))

WriteAddr(n, value) ==
  /\ pmpaddr' = IF Writable(n) THEN [pmpaddr EXCEPT ![n] = value] ELSE pmpaddr
  /\ UNCHANGED pmpcfg

PmpNext ==
  \/ \E group \in Groups, value \in CfgValues : WriteCfg(group, value)
  \/ \E n \in Registers, value \in AddrValues : WriteAddr(n, value)

PmpSpec == PmpInit /\ [][PmpNext]_pmp

-----------------------------------------------------------------------------
\* pmp_matcher.  The lowest zero bit of pmpaddr tells the size of a NAPOT
\* region; with none, the region is everything (32 bits in the code; here 30,
\* for the addresses that words have).
Base(n) == IF n = 0 THEN 0 ELSE pmpaddr[n - 1]

\* Mutant: the region has the size of the run of ones.
NapotHalf(n, a) ==
  \E k \in 0 .. 29 : /\ pmpaddr[n] % 2^(k + 1) = 2^k - 1
                     /\ a \div 2^k = pmpaddr[n] \div 2^k

Napot(n, a) ==
  \/ \E k \in 0 .. 29 : /\ pmpaddr[n] % 2^(k + 1) = 2^k - 1
                        /\ a \div 2^(k + 1) = pmpaddr[n] \div 2^(k + 1)
  \/ pmpaddr[n] = 2^30 - 1

Matches(n, a) ==
  \/ Mode(n) = NA4 /\ a = pmpaddr[n]
  \/ Mode(n) = TOR /\ Base(n) <= a /\ a < pmpaddr[n]
  \/ Mode(n) = NAPOT /\ Napot(n, a)

\* Mutant: of the entries that match, the last one decides.
HitLast(n, a) == Matches(n, a) /\ \A m \in Entry : m > n => ~Matches(m, a)

\* The first entry that matches decides.
Hit(n, a) == Matches(n, a) /\ \A m \in Entry : m < n => ~Matches(m, a)

\* Mutant: only a locked entry is ever enforced.
DataFaultLocked(a, right, checked) ==
  \E n \in Entry : Hit(n, a) /\ Locked(n) /\ right \notin pmpcfg[n]

\* checked: the privilege level, or mprv with mpp, asks for the permission.
DataFault(a, right, checked) ==
  IF checked THEN \A n \in Entry : ~(Hit(n, a) /\ right \in pmpcfg[n])
  ELSE \E n \in Entry : Hit(n, a) /\ Locked(n) /\ right \notin pmpcfg[n]

\* In machine mode a locked entry denies execution only while the address d on
\* the data port matches some entry too.
FetchFault(a, d, checked) ==
  IF checked THEN \A n \in Entry : ~(Hit(n, a) /\ X \in pmpcfg[n])
  ELSE /\ \E n \in Entry : Hit(n, d)
       /\ \E n \in Entry : Hit(n, a) /\ Locked(n) /\ X \notin pmpcfg[n]

\* pma: the registers are as reset left them; the first 128 MB are ROM.
RomWords == 2^25
PmaStoreFault(a) == a < RomWords

-----------------------------------------------------------------------------
(* Properties *)

\* What the registers can hold (pmp.sv:64): no reserved bit, no write-only entry.
PmpTypeOK ==
  /\ pmpcfg \in [Entry -> SUBSET Bit]
  /\ pmpaddr \in [Entry -> Nat]
  /\ \A n \in Entry : pmpcfg[n] \cap Reserved = {} /\ (W \in pmpcfg[n] => R \in pmpcfg[n])

\* A lock holds for ever: neither the entry nor its address register changes,
\* nor, for a locked TOR entry 1, the address register below (pmp.sv:82,100).
LockedKept ==
  [][\A n \in Entry : Locked(n) =>
       /\ pmpcfg'[n] = pmpcfg[n] /\ pmpaddr'[n] = pmpaddr[n]
       /\ n = 1 /\ Mode(n) = TOR => pmpaddr'[0] = pmpaddr[0]]_pmp

\* Software that has locked the entries from 0 up to n keeps what they decide:
\* a word that one of them decides is decided by it for ever, whatever is
\* written to the other entries (pmp.sv:153, the priority of the matches).
PrefixKept ==
  [][\A n \in Entry : (\A m \in 0 .. n : Locked(m)) =>
       \A a \in WordAddr : Hit(n, a) => Hit(n, a)' /\ pmpcfg'[n] = pmpcfg[n]]_pmp

LowestZero(p, lo) ==
  (p \div 2^lo) % 2 = 0 /\ \A k \in 0 .. lo - 1 : (p \div 2^k) % 2 = 1

\* The comparison of high bits in pmp_matcher is the naturally aligned region of
\* a power of two words that pmpaddr encodes (pmp_matcher.sv:54).
AlignedRegion ==
  \A n \in Entry, lo \in 0 .. 28 :
    Mode(n) = NAPOT /\ LowestZero(pmpaddr[n], lo) =>
      LET size == 2^(lo + 1)
          from == pmpaddr[n] - (2^lo - 1)
      IN \A a \in WordAddr : Napot(n, a) <=> from <= a /\ a < from + size
===============================================================================
