-------------------------- MODULE SessionLifecycle --------------------------
(***************************************************************************)
(* What a session promises an application that starts it and waits: a run  *)
(* lasts exactly as long as a device has an event source, it is reported   *)
(* as ended once, and a run in which no device is left does end.           *)
(***************************************************************************)
EXTENDS Naturals

CONSTANT Devs

VARIABLES
  phase,   \* "stopped", "starting" (inside sr_session_start()) or "running"
  live,    \* devices with an event source
  ended    \* number of runs reported as ended

lifeVars == <<phase, live, ended>>

LifeInit == phase = "stopped" /\ live = {} /\ ended = 0

\* A start is accepted.
Begin == phase = "stopped" /\ phase' = "starting" /\ UNCHANGED <<live, ended>>

\* Devices become live while a run starts or is under way, and only then.
Activate ==
  /\ phase \in {"starting", "running"}
  /\ live \subseteq live' /\ live' \subseteq Devs
  /\ UNCHANGED <<phase, ended>>

\* Devices finish; those of a failed start may do so after the failure.
Drain == live' \subseteq live /\ UNCHANGED <<phase, ended>>

\* The start succeeds, or fails and takes down what it can.
Ready == phase = "starting" /\ phase' = "running" /\ UNCHANGED <<live, ended>>
Fail  == phase = "starting" /\ phase' = "stopped" /\ live' \subseteq live /\ ended' = ended

\* The run ends when no device is live, and is reported.
End ==
  /\ phase = "running" /\ live = {}
  /\ phase' = "stopped" /\ ended' = ended + 1 /\ live' = live

LifeNext == Begin \/ Activate \/ Drain \/ Ready \/ Fail \/ End

LifeSafe == LifeInit /\ [][LifeNext]_lifeVars
LifeSpec == LifeSafe /\ WF_lifeVars(End)
==============================================================================
