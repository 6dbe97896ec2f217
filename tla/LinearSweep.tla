----------------------------- MODULE LinearSweep -----------------------------
(***************************************************************************)
(* What a disassembly promises: the code is listed from its first byte on, *)
(* each instruction where the one before it ends.  No array, no calls.     *)
(***************************************************************************)
EXTENDS Integers, Sequences

CONSTANTS
  Entries(_, _),     \* what a listing says of the bytes from an offset on, given all that is asked
  EndOf(_),          \* where an entry ends
  Controls(_)        \* whether the instruction of an entry controls the flow

VARIABLES asked, listed, at
vars == <<asked, listed, at>>

\* DF_RETURN_FC_ONLY: only what controls the flow is listed.
Wanted(entries) ==
  IF "RETURN_FC_ONLY" \notin asked.features \/ \E n \in DOMAIN entries : Controls(entries[n])
  THEN entries ELSE <<>>

Init == listed = <<>> /\ at = 0
Sweep ==
  /\ at < Len(asked.code) /\ at' > at
  /\ \E entries \in {Entries(asked, at)} :
       listed' = listed \o Wanted(entries) /\ at' = EndOf(entries[Len(entries)])
  /\ UNCHANGED asked
Spec == Init /\ [][Sweep]_vars
=============================================================================
