--------------------------- MODULE MC_TestPrograms ---------------------------
(* The addresses are those of the programs.  The program "any" sets up the  *)
(* entries 0 to 2: off, TOR and NAPOT, locked or not, with bits that must   *)
(* not be stored.                                                           *)
EXTENDS TestPrograms

Some == {{0, 1}, {3}, {3, 7}, {3, 4, 7, 1, 5}}
MCCfgValues == {[i \in 0 .. 3 |-> IF i = 3 THEN {} ELSE v[i]] : v \in [0 .. 2 -> Some]}
MCAddrValues == {0, 3, 6}
\* The lowest words, and the edges of the regions of the programs.
MCWordAddr == 0 .. 9 \cup {Bad, Bad + 15, Bad + 16, 536870912, 536887295, 536887296}
=============================================================================
