--------------------------- MODULE MCIceSession ---------------------------
(***************************************************************************)
(* Instances of IceSession for TLC: where keyboard interrupts are served   *)
(* and which events the user causes.                                       *)
(***************************************************************************)
EXTENDS IceSession

HookedOnly == {"hooked"}
OtherOnly  == {"other"}
AllEvents  == Events
ExitEvents == {"x", "ENTER", "hotkey"}
============================================================================
