------------------------------ MODULE MCSession ------------------------------
(* Instances of Session for TLC: two devices, one of which stops at once     *)
(* (as serial drivers do) and one later (as USB drivers do).                 *)
EXTENDS Session, TLC

CONSTANTS d1, d2, k1, k2, k3

\* The first device has one poll object, the second has two.
TwoOwners == (k1 :> d1) @@ (k2 :> d2) @@ (k3 :> d2)
OneEach == (k1 :> d1) @@ (k2 :> d2)
==============================================================================
