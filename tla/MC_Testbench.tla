---------------------------- MODULE MC_Testbench ----------------------------
(* Words of two lanes with bytes of two bits, so that 64 bits become eight  *)
(* and the time reaches values that the program can put into mtimecmp.      *)
EXTENDS Testbench

MCImage == {"image"}
MCBss == {"bss"}
Tuple(hi, lo) == [l \in Lane |-> IF l = 0 THEN lo ELSE hi]
Some == Tuple(2, 1)
MCData == {Zero, Some}

\* A store of a byte has it in every lane of wdata (tspp_execute_stage.sv:261).
Twice(b) == Tuple(b, b)

Read(a) == [op |-> "read", addr |-> a, data |-> Zero, mask |-> Lane]
Write(a, d, m) == [op |-> "write", addr |-> a, data |-> d, mask |-> m]
MCRequests ==
  {NoReq, Read("image"), Read("bss"), Read("MTIME"),
   Write("image", Twice(1), {0}), Write("image", Zero, {1}),
   Write("bss", Twice(1), {0}), Write("bss", Zero, {1}),
   Write("MTIMECMP", Some, Lane), Write("MTIMECMP", Zero, {0}),
   Write("MTIMECMPH", Zero, Lane), Write("MTIMECMPH", Twice(2), {1}),
   Write("MSIP", Some, Lane), Write("MSIP", Zero, Lane),
   Write("EXT_SET", Zero, {0}), Write("EXT_CLEAR", Some, Lane),
   Write("MTIME", Some, Lane)}
=============================================================================
