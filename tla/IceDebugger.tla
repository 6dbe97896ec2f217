----------------------------- MODULE IceDebugger -----------------------------
(***************************************************************************)
(* What the break-in protocol of LinuxICE promises to whoever debugs with  *)
(* it, without interrupts, frames or vectors: the program runs, a break-in *)
(* of it is asked for, or it is paused, and a program that was resumed     *)
(* with T has a trap due that nothing but the next break uses up.          *)
(***************************************************************************)
VARIABLES
  mode, \* "running", "breaking" (a break-in was asked for) or "paused"
  step  \* the program that runs has a single-step trap due

vars == <<mode, step>>

TypeOK == mode \in {"running", "breaking", "paused"} /\ step \in BOOLEAN

Init == mode = "running" /\ step = FALSE

\* Ctrl-Q, which only a program that runs can be interrupted by.
Request == mode = "running" /\ mode' = "breaking" /\ UNCHANGED step

\* A timer tick, a breakpoint or the trap: the debugger takes over.
Break == mode # "paused" /\ mode' = "paused" /\ step' = FALSE

\* A command of the debugger lets the program go on, with or without a trap.
Resume == mode = "paused" /\ mode' = "running" /\ step' \in BOOLEAN

Next == Request \/ Break \/ Resume

Spec == Init /\ [][Next]_vars

\* Promise: a program that is asked to break, or that has a trap due, is paused.
BreakHonoured == (mode = "breaking" \/ step) ~> (mode = "paused")
=============================================================================
