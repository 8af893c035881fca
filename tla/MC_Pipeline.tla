----------------------------- MODULE MC_Pipeline -----------------------------
(***************************************************************************)
(* Small programs for TLC to run on Pipeline.  The core resets with        *)
(* interrupts off: the first instruction may turn them on.                 *)
(***************************************************************************)
EXTENDS Pipeline

\* Two instructions, then a handler of two.
Straight == {[a \in 1 .. 4 |-> CASE a = 1 -> o1 [] a = 2 -> o2 [] a = 3 -> o3 [] a = 4 -> o4] :
              o1 \in {"set", "alu", "load"}, o2 \in Op \ {"mret"},
              o3 \in {"alu", "load", "store", "clear"}, o4 \in {"mret", "jump"}}

\* Code that runs into an address that must not be executed, then a handler.
Faulting == {[a \in 1 .. 5 |-> CASE a = 1 -> o1 [] a = 2 -> o2 [] a = 3 -> "alu"
                                 [] a = 4 -> o4 [] a = 5 -> o5] :
              o1 \in {"set", "load"}, o2 \in Op \ {"mret"},
              o4 \in {"alu", "store"}, o5 \in {"mret", "branch"}}
=============================================================================
