---------------------------- MODULE MCSoftTrigger ----------------------------
(* Instances of SoftTrigger for TLC.                                         *)
EXTENDS SoftTrigger

M(c, k) == [channel |-> c, match |-> k]

\* Level triggers of up to three stages; all patterns over
\* one channel, and patterns with matches on a channel that is not enabled.
Levels == {"zero", "one"}
LevelTriggers ==
  UNION {[1 .. n -> {<<M(0, k)>> : k \in Levels}] : n \in 1 .. 3}
  \cup {<< <<M(2, "falling"), M(0, k)>>, <<M(2, "one")>> >> : k \in Levels}

\* One stage on two channels, an edge on the first of them.
EdgeTriggers ==
  {<< <<M(0, k)>> >> : k \in Kinds} \cup
  {<< <<M(0, k), M(1, l)>> >> : k \in {"rising", "edge"}, l \in {"one", "falling"}}

\* Channels 0 and 1 are enabled, channel 2 is not.
AllTriggers == LevelTriggers \cup EdgeTriggers
==============================================================================
