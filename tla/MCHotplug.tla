------------------------------ MODULE MCHotplug ------------------------------
(* Instances of Hotplug for TLC: devices and callbacks are model values.      *)
EXTENDS Hotplug
CONSTANTS d1, d2, a, b, none
==============================================================================
