--------------------------- MODULE MC_SelfTests ---------------------------
(* The trap handler with words of 11 bits, which hold the numbers of the   *)
(* self tests, and operands at the edges of the signed and unsigned range. *)
EXTENDS SelfTests

MCPow == [b \in 0 .. Width |-> 2 ^ b]

Edges == {0, 1, 3, 6, 511, 512, 513, 1023, 1024, 1025, 1537, 2041, 2047}
MCOperands == Edges \X Edges

MCForms == {<<5, 6, 6>>, <<6, 5, 1>>, <<0, 5, 0>>, <<1, 6, 4>>}

\* The operands of rem.S: 20 and 6 with every sign.
RemSOperands == {20, 2028} \X {6, 2042}
RemSForms == {<<5, 6, 7>>}
===========================================================================
