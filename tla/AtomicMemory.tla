----------------------------- MODULE AtomicMemory -----------------------------
(***************************************************************************)
(* What the core expects of everything behind its two memory ports: a      *)
(* memory that answers one port at a time, each request as one indivisible *)
(* step, with the contents of the word that was asked for.                 *)
(***************************************************************************)
EXTENDS Integers

CONSTANTS Addr, Value

VARIABLES ireq, dreq, wdata, mem, igot, dgot

vars == <<ireq, dreq, wdata, mem, igot, dgot>>

NoReq == [op |-> "none", addr |-> 0]
Reads == [op : {"read"}, addr : Addr]
Request == {NoReq} \cup Reads \cup [op : {"write"}, addr : Addr]

Init ==
  /\ ireq \in {NoReq} \cup Reads
  /\ dreq = NoReq
  /\ wdata \in Value
  /\ mem \in [Addr -> Value]
  /\ igot = wdata /\ dgot = wdata

\* A data request stays on its port until it is answered.  A fetch may be
\* withdrawn or, by a jump, be replaced.
FetchMoves == ireq' \in {NoReq} \cup Reads
DataMoves == \/ dreq = NoReq /\ dreq' \in Request /\ wdata' \in Value
             \/ dreq # NoReq /\ UNCHANGED <<dreq, wdata>>

AnswerFetch ==
  /\ ireq # NoReq
  /\ igot' = mem[ireq.addr]
  /\ ireq' \in {NoReq} \cup Reads
  /\ DataMoves
  /\ UNCHANGED <<mem, dgot>>

AnswerLoad ==
  /\ dreq.op = "read"
  /\ dgot' = mem[dreq.addr]
  /\ dreq' \in Request /\ wdata' \in Value
  /\ FetchMoves
  /\ UNCHANGED <<mem, igot>>

AnswerStore ==
  /\ dreq.op = "write"
  /\ mem' = [mem EXCEPT ![dreq.addr] = wdata]
  /\ dreq' \in Request /\ wdata' \in Value
  /\ FetchMoves
  /\ UNCHANGED <<igot, dgot>>

Wait == FetchMoves /\ DataMoves /\ UNCHANGED <<mem, igot, dgot>>

Next == AnswerFetch \/ AnswerLoad \/ AnswerStore \/ Wait

Spec == Init /\ [][Next]_vars
===============================================================================
