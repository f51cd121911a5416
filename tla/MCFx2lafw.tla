------------------------------ MODULE MCFx2lafw ------------------------------
(* Instances of Fx2lafw for TLC: which submissions may fail.                  *)
EXTENDS Fx2lafw

NotTheFirst == 2 .. N
==============================================================================
