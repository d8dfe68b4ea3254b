-------------------------- MODULE MCHardwareSession --------------------------
(* Instances of HardwareSession.  The arm's drive turns the other way and its *)
(* zero lies two steps off, so that no angle is its own count; the trajectory *)
(* leaves pick-ready and comes back to it, as the stored ones do.             *)
EXTENDS HardwareSession

There == <<0, 1, 2, 1, 0>>
Reversed == -1
TaskConfig == [mode |-> "home_then_pick_ready", motion |-> TRUE, unhomed |-> FALSE]
TaskOnly == {TaskConfig}
AllConfigs == [mode : StartupModes, motion : BOOLEAN, unhomed : BOOLEAN]
=============================================================================
