----------------------------- MODULE MCSerialDmm -----------------------------
(* Meters for SerialDmm: two that are asked, without and with a delay, and   *)
(* two that send on their own, with packets of fixed and of variable size.    *)
EXTENDS SerialDmm

SomeMeters ==
  {[request |-> TRUE, variable |-> FALSE, timeout |-> 2, delay |-> 0],
   [request |-> TRUE, variable |-> TRUE, timeout |-> 2, delay |-> 1],
   [request |-> FALSE, variable |-> FALSE, timeout |-> 0, delay |-> 0],
   [request |-> FALSE, variable |-> TRUE, timeout |-> 0, delay |-> 0]}
=============================================================================
