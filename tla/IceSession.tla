----------------------------- MODULE IceSession -----------------------------
(***************************************************************************)
(* The break-in protocol of LinuxICE on the CPU whose IDTR points to       *)
(* ice_idt (the "hooked" CPU, the one that ran hook_idt_init).             *)
(*                                                                         *)
(* Ctrl-Q in the keyboard handler asks for a break-in (running_state :=    *)
(* ENTERING) and redirects vector 0xef, the local APIC timer, to int_0xef. *)
(* The next timer interrupt then runs the debugger inside the interrupt    *)
(* frame; INT3 and #DB run it at once.  The debugger executes with         *)
(* interrupts ENABLED, so timer ticks and keyboard interrupts nest on top  *)
(* of it, and it hands the machine back by unhooking the vector, writing   *)
(* NOT_RUNNING and returning through the stub of asm.S.                    *)
(*                                                                         *)
(* The hooked CPU is a stack of interrupt frames; the top one executes,    *)
(* the empty stack is Linux itself.  A keyboard event is handled either by *)
(* an interrupt nested on the hooked CPU or by another CPU of the machine. *)
(***************************************************************************)
EXTENDS Naturals, Sequences, FiniteSets

CONSTANTS
  MaxDepth,  \* bound: frames nested on the hooked CPU; a keyboard interrupt is
             \* let in while it leaves room for a session and a tick above it
  MaxKeys,   \* capacity of keyq (KEYQ_MAX - 1 in the code)
  MaxText,   \* capacity of the command line (cmd_edit)
  KbdSites,  \* where keyboard interrupts are served: "hooked" and/or "other" CPU
  UserEvents \* bound: the keyboard events that the user causes

ASSUME BoundsAssumption == MaxDepth \in Nat /\ MaxKeys \in Nat /\ MaxText \in Nat
ASSUME KbdAssumption == KbdSites \subseteq {"hooked", "other"}

VARIABLES
  running_state, \* ice.running_state
  regs,          \* ice.regs: the frame it points to, 0 when never set
  gate,          \* the offset halves of ice_idt[0xef]: Linux's or those of int_0xef
  stack,         \* interrupt frames of the hooked CPU, the last one executes
  iflag, tflag,  \* EFLAGS.IF and EFLAGS.TF of the code executing on the hooked CPU
  timer,         \* its local APIC timer
  kbd,           \* the keyboard event being handled
  keyq,          \* the key queue of input.c
  text           \* the command line being edited

vars == <<running_state, regs, gate, stack, iflag, tflag, timer, kbd, keyq, text>>
cpu  == <<stack, iflag, tflag>>
ice  == <<running_state, regs>>
line == <<keyq, text>>

\* include/linuxice.h
NOT_RUNNING == "NOT_RUNNING"
ENTERING    == "ENTERING"
RUNNING     == "RUNNING"
States      == {NOT_RUNNING, ENTERING, RUNNING}

\* Characters as get_command sees them: the two command letters, any other
\* printable character, and the two editing keys.
Chars  == {"x", "t", "q", "ENTER", "BACKSPACE"}
\* Keyboard events: a key that goes down (with its character), the key Q going
\* down while Ctrl is held, or a key that is released.
Events == Chars \cup {"hotkey", "release"}

ASSUME EventsAssumption == UserEvents \subseteq Events

Vectors == {"timer", "int3", "debug"}       \* 0xef, 0x3 and 0x1

\* middle_offset and low_offset of the descriptor; high_offset is the same for
\* kernel and module text, both of which lie in the top 2 GB.
Gates     == [middle : {"linux", "ice"}, low : {"linux", "ice"}]
LinuxGate == [middle |-> "linux", low |-> "linux"]
IceGate   == [middle |-> "ice", low |-> "ice"]

-----------------------------------------------------------------------------
(***************************************************************************)
(* Frames.  pc says how far the handler of the frame has come; tf and if   *)
(* are the bits of regs->flags that iretq restores; cmd is the command     *)
(* that ended the debugger in this frame.                                  *)
(***************************************************************************)
SessionPCs == {"entry", "claim", "hook", "start", "loop", "exec", "unhook", "clear",
               "leave", "iret"}
KbdPCs     == {"idle", "fake", "swallow", "handler", "request", "hook", "set", "done"}

Frame == [kind : Vectors \cup {"kbd", "wild"},
          pc   : SessionPCs \cup {"nested"},
          tf   : BOOLEAN,
          if   : BOOLEAN,
          cmd  : {"none", "X", "T"}]

Depth  == Len(stack)
Top    == stack[Depth]

\* The CPU pushes the interrupted context and enters the gate with IF = TF = 0.
Enter(kind, pc, newIF) ==
  /\ Depth < MaxDepth
  /\ stack' = Append(stack, [kind |-> kind, pc |-> pc, tf |-> tflag, if |-> iflag,
                             cmd |-> "none"])
  /\ iflag' = newIF
  /\ tflag' = FALSE

\* iretq of the top frame: back to the interrupted context, with its flags.
Return ==
  /\ stack' = SubSeq(stack, 1, Depth - 1)
  /\ iflag' = Top.if
  /\ tflag' = Top.tf

\* A single-step trap is due before the next instruction when TF is set.
Executes(kinds, pc) ==
  /\ stack # <<>>
  /\ Top.kind \in kinds
  /\ Top.pc = pc
  /\ ~tflag

Goto(pc) == stack' = [stack EXCEPT ![Depth].pc = pc]

\* Writing TF into the flags of the frame ice.regs points to; a pointer to a
\* frame that was popped writes to dead stack.
SavedTF(s, b) == IF regs \in DOMAIN s THEN [s EXCEPT ![regs].tf = b] ELSE s

-----------------------------------------------------------------------------
\* Linux on the hooked CPU: it masks and unmasks interrupts as it likes.
LinuxFlag ==
  /\ stack = <<>>
  /\ iflag' = ~iflag
  /\ UNCHANGED <<stack, tflag, ice, gate, timer, kbd, line>>

\* The one-shot local APIC timer runs out.
TimerExpires ==
  /\ timer = "armed"
  /\ timer' = "pending"
  /\ UNCHANGED <<cpu, ice, gate, kbd, line>>

\* The timer interrupt goes to Linux, whose handler programs the next one.
TimerToLinux ==
  /\ timer = "pending" /\ iflag /\ gate = LinuxGate
  /\ timer' = "armed"
  /\ UNCHANGED <<cpu, ice, gate, kbd, line>>

\* The timer interrupt goes through int_0xef to ice_do_timer.
TimerToIce ==
  /\ timer = "pending" /\ iflag /\ gate = IceGate
  /\ Enter("timer", "entry", FALSE)
  /\ timer' = "inservice"
  /\ UNCHANGED <<ice, gate, kbd, line>>

\* The timer interrupt is dispatched through a half-written descriptor.
TimerToNowhere ==
  /\ timer = "pending" /\ iflag /\ gate \notin {LinuxGate, IceGate}
  /\ Enter("wild", "nested", FALSE)
  /\ timer' = "inservice"
  /\ UNCHANGED <<ice, gate, kbd, line>>

\* Linux executes an INT3 instruction.
Int3 ==
  /\ stack = <<>>
  /\ Enter("int3", "entry", FALSE)
  /\ UNCHANGED <<ice, gate, timer, kbd, line>>

\* The single-step trap of the instruction that follows an iretq with TF set.
DebugTrap ==
  /\ tflag
  /\ Enter("debug", "entry", FALSE)
  /\ UNCHANGED <<ice, gate, timer, kbd, line>>

-----------------------------------------------------------------------------
(***************************************************************************)
(* The handlers of vectors 0xef, 3 and 1 and the debugger they run.        *)
(***************************************************************************)

\* Mutant: the test of running_state is missing.
IceDispatch_NoTest ==
  /\ Executes(Vectors, "entry")
  /\ timer' = IF Top.kind = "timer" THEN "armed" ELSE timer
  /\ Goto("claim")
  /\ UNCHANGED <<iflag, tflag, ice, gate, kbd, line>>

\* Mutant: ice.regs = regs is executed before the test of running_state.
IceDispatch_RegsFirst ==
  /\ Executes(Vectors, "entry")
  /\ timer' = IF Top.kind = "timer" THEN "armed" ELSE timer
  /\ Goto(IF running_state # RUNNING THEN "claim" ELSE "iret")
  /\ regs' = Depth
  /\ UNCHANGED <<iflag, tflag, running_state, gate, kbd, line>>

\* Mutant: a tick is not re-armed while the debugger runs.
IceDispatch_NoRearm ==
  /\ Executes(Vectors, "entry")
  /\ timer' = IF Top.kind = "timer" /\ running_state # RUNNING THEN "armed" ELSE timer
  /\ Goto(IF running_state # RUNNING THEN "claim" ELSE "iret")
  /\ UNCHANGED <<iflag, tflag, ice, gate, kbd, line>>

\* int_handler and the head of ice_do_timer / ice_do_int3 / ice_do_debug: the
\* timer is re-armed and acknowledged first, then running_state is tested.
IceDispatch ==
  /\ Executes(Vectors, "entry")
  /\ timer' = IF Top.kind = "timer" THEN "armed" ELSE timer
  /\ Goto(IF running_state # RUNNING THEN "claim" ELSE "iret")
  /\ UNCHANGED <<iflag, tflag, ice, gate, kbd, line>>

\* cli; ice.regs = regs; ice.running_state = RUNNING.  The timer handler then
\* executes sti, the two others hook vector 0xef first.
IceClaim ==
  /\ Executes(Vectors, "claim")
  /\ regs' = Depth
  /\ running_state' = RUNNING
  /\ IF Top.kind = "timer" THEN Goto("start") /\ iflag' = TRUE
                           ELSE Goto("hook")  /\ iflag' = FALSE
  /\ UNCHANGED <<tflag, gate, timer, kbd, line>>

\* hook_idt(0xef, int_0xef) of ice_do_int3 and ice_do_debug; the sti that ends
\* SET_INT_HANDLER_OFFSET already enables interrupts.
IceHookTimer ==
  /\ Executes(Vectors, "hook")
  /\ gate' = IceGate
  /\ iflag' = TRUE
  /\ Goto("start")
  /\ UNCHANGED <<tflag, ice, timer, kbd, line>>

\* run_debugger up to its loop: draw the screen, clear TF in the saved flags.
DebuggerStart ==
  /\ Executes(Vectors, "start")
  /\ stack' = SavedTF([stack EXCEPT ![Depth].pc = "loop"], FALSE)
  /\ UNCHANGED <<iflag, tflag, ice, gate, timer, kbd, line>>

\* get_command takes one key from keyq: ENTER ends the line, BACKSPACE deletes,
\* any other character is appended while the line has room.
GetKey ==
  /\ Executes(Vectors, "loop")
  /\ keyq # <<>>
  /\ keyq' = Tail(keyq)
  /\ \/ /\ Head(keyq) = "ENTER"
        /\ Goto("exec")
        /\ UNCHANGED text
     \/ /\ Head(keyq) = "BACKSPACE"
        /\ text' = SubSeq(text, 1, Len(text) - 1)
        /\ UNCHANGED stack
     \/ /\ Head(keyq) \notin {"ENTER", "BACKSPACE"}
        /\ text' = IF Len(text) < MaxText THEN Append(text, Head(keyq)) ELSE text
        /\ UNCHANGED stack
  /\ UNCHANGED <<iflag, tflag, ice, gate, timer, kbd>>

Ended(cmd) == [stack EXCEPT ![Depth].pc = "unhook", ![Depth].cmd = cmd]

\* exec_command and clear_command: X and T end the debugger, T after setting TF
\* in the saved flags; anything else starts a new line.
ExecCommand ==
  /\ Executes(Vectors, "exec")
  /\ \/ text = <<"x">> /\ stack' = Ended("X")
     \/ text = <<"t">> /\ stack' = SavedTF(Ended("T"), TRUE)
     \/ text \notin {<<"x">>, <<"t">>} /\ Goto("loop")
  /\ text' = <<>>
  /\ UNCHANGED <<iflag, tflag, ice, gate, timer, kbd, keyq>>

\* Mutant: the vector stays hooked.
DebuggerUnhook_Skipped ==
  /\ Executes(Vectors, "unhook")
  /\ Goto("clear")
  /\ UNCHANGED <<iflag, tflag, ice, gate, timer, kbd, line>>

\* unhook_idt(0xef) at the end of run_debugger, with interrupts enabled.  One
\* 8-byte store of the copied descriptor holds both halves.
DebuggerUnhook ==
  /\ Executes(Vectors, "unhook")
  /\ gate' = LinuxGate
  /\ Goto("clear")
  /\ UNCHANGED <<iflag, tflag, ice, timer, kbd, line>>

\* Mutant: running_state is not reset.
DebuggerClear_Skipped ==
  /\ Executes(Vectors, "clear")
  /\ Goto("leave")
  /\ UNCHANGED <<iflag, tflag, ice, gate, timer, kbd, line>>

\* ice.running_state = NOT_RUNNING, the last statement of run_debugger.
DebuggerClear ==
  /\ Executes(Vectors, "clear")
  /\ running_state' = NOT_RUNNING
  /\ Goto("leave")
  /\ UNCHANGED <<iflag, tflag, regs, gate, timer, kbd, line>>

\* Back in do_fake_stub: cli after the call of int_handler.
StubCli ==
  /\ Executes(Vectors, "leave")
  /\ iflag' = FALSE
  /\ Goto("iret")
  /\ UNCHANGED <<tflag, ice, gate, timer, kbd, line>>

\* popaq and iretq.
StubReturn ==
  /\ Executes(Vectors, "iret")
  /\ Return
  /\ UNCHANGED <<ice, gate, timer, kbd, line>>

-----------------------------------------------------------------------------
(***************************************************************************)
(* The keyboard: Linux's input core calls the patched kbd_event for one    *)
(* event at a time, with interrupts masked, and the patch leads to         *)
(* fake_kbd_event.                                                         *)
(***************************************************************************)
KbdInterrupt(ev) ==
  /\ kbd.pc = "idle"
  /\ \/ /\ "hooked" \in KbdSites
        /\ iflag /\ Depth + 3 <= MaxDepth
        /\ Enter("kbd", "nested", FALSE)
        /\ kbd' = [pc |-> "fake", ev |-> ev, site |-> "hooked"]
     \/ /\ "other" \in KbdSites
        /\ kbd' = [pc |-> "fake", ev |-> ev, site |-> "other"]
        /\ UNCHANGED cpu
  /\ UNCHANGED <<ice, gate, timer, line>>

KbdExecutes(pc) ==
  /\ kbd.pc = pc
  /\ kbd.site = "other" \/ Executes({"kbd"}, "nested")

KbdGoto(pc) == kbd' = [kbd EXCEPT !.pc = pc]

\* cli and sti act on the CPU that executes the keyboard handler.
KbdSetsIF(b) == iflag' = IF kbd.site = "hooked" THEN b ELSE iflag

\* fake_kbd_event tests running_state: when it is not NOT_RUNNING the event is
\* for the debugger and never reaches Linux, whatever kbd_handler returns.
FakeKbdEvent ==
  /\ KbdExecutes("fake")
  /\ KbdGoto(IF running_state # NOT_RUNNING THEN "swallow" ELSE "handler")
  /\ UNCHANGED <<cpu, ice, gate, timer, line>>

\* kbd_handler tests running_state again.  Engaged: the character of a key that
\* goes down is queued (put_key drops it when keyq is full) and 0 is returned.
\* Not engaged: Ctrl-Q asks for a break-in; for anything else 1 is returned and
\* fake_kbd_event, if it was on that path, unhooks kbd_event, calls Linux's one
\* and hooks it again, which leaves interrupts enabled.
PutKey_NoFullTest(c) == keyq' = Append(keyq, c) \* mutant

PutKey(c) == keyq' = IF Len(keyq) < MaxKeys THEN Append(keyq, c) ELSE keyq

\* Mutant: Ctrl-Q asks for a break-in whatever running_state is.
KbdHandler_NoStateTest ==
  /\ KbdExecutes("swallow") \/ KbdExecutes("handler")
  /\ \/ /\ kbd.ev = "hotkey"
        /\ KbdGoto("request")
        /\ UNCHANGED <<keyq, iflag>>
     \/ /\ kbd.ev # "hotkey"
        /\ KbdGoto("done")
        /\ UNCHANGED <<keyq, iflag>>
  /\ UNCHANGED <<stack, tflag, ice, gate, timer, text>>

KbdHandler ==
  /\ KbdExecutes("swallow") \/ KbdExecutes("handler")
  /\ \/ /\ running_state # NOT_RUNNING
        /\ IF kbd.ev = "release" THEN UNCHANGED keyq
                                 ELSE PutKey(IF kbd.ev = "hotkey" THEN "q" ELSE kbd.ev)
        /\ KbdGoto("done")
        /\ UNCHANGED iflag
     \/ /\ running_state = NOT_RUNNING /\ kbd.ev = "hotkey"
        /\ KbdGoto("request")
        /\ UNCHANGED <<keyq, iflag>>
     \/ /\ running_state = NOT_RUNNING /\ kbd.ev # "hotkey"
        /\ IF kbd.pc = "handler" THEN KbdSetsIF(TRUE) ELSE UNCHANGED iflag
        /\ KbdGoto("done")
        /\ UNCHANGED keyq
  /\ UNCHANGED <<stack, tflag, ice, gate, timer, text>>

\* ice.running_state = ENTERING
KbdRequest ==
  /\ KbdExecutes("request")
  /\ running_state' = ENTERING
  /\ KbdGoto("hook")
  /\ UNCHANGED <<cpu, regs, gate, timer, line>>

\* hook_idt(0xef, int_0xef): SET_INT_HANDLER_OFFSET masks interrupts on its own
\* CPU and stores the parts of the offset one by one, middle before low.
\* Mutant: Ctrl-Q does not hook the vector.
KbdHookFirst_Skipped ==
  /\ KbdExecutes("hook")
  /\ KbdSetsIF(TRUE)
  /\ KbdGoto("done")
  /\ UNCHANGED <<stack, tflag, ice, gate, timer, line>>

KbdHookFirst ==
  /\ KbdExecutes("hook")
  /\ KbdSetsIF(FALSE)
  /\ gate' = [gate EXCEPT !.middle = "ice"]
  /\ KbdGoto("set")
  /\ UNCHANGED <<stack, tflag, ice, timer, line>>

KbdHookLast ==
  /\ KbdExecutes("set")
  /\ gate' = [gate EXCEPT !.low = "ice"]
  /\ KbdSetsIF(TRUE)
  /\ KbdGoto("done")
  /\ UNCHANGED <<stack, tflag, ice, timer, line>>

\* The event has been handled; on the hooked CPU the interrupt returns.
KbdReturn ==
  /\ KbdExecutes("done")
  /\ IF kbd.site = "hooked" THEN Return ELSE UNCHANGED cpu
  /\ KbdGoto("idle")
  /\ UNCHANGED <<ice, gate, timer, line>>

-----------------------------------------------------------------------------
Init ==
  /\ running_state = NOT_RUNNING
  /\ regs = 0
  /\ gate = LinuxGate
  /\ stack = <<>>
  /\ iflag = TRUE
  /\ tflag = FALSE
  /\ timer = "armed"
  /\ kbd = [pc |-> "idle", ev |-> "release", site |-> "hooked"]
  /\ keyq = <<>>
  /\ text = <<>>

Linux    == LinuxFlag \/ Int3
Lapic    == TimerExpires \/ TimerToLinux \/ TimerToIce \/ TimerToNowhere
Debugger == \/ IceDispatch \/ IceClaim \/ IceHookTimer \/ DebuggerStart \/ GetKey
            \/ ExecCommand \/ DebuggerUnhook \/ DebuggerClear \/ StubCli \/ StubReturn
Keyboard == \/ FakeKbdEvent \/ KbdHandler \/ KbdRequest \/ KbdHookFirst \/ KbdHookLast
            \/ KbdReturn

Next == Linux \/ Lapic \/ DebugTrap \/ Debugger \/ Keyboard
          \/ \E ev \in UserEvents : KbdInterrupt(ev)

Spec == Init /\ [][Next]_vars

(***************************************************************************)
(* Fairness.  The CPU goes on executing the handler on top of its stack,   *)
(* the timer counts down, and Linux does not keep interrupts masked for    *)
(* ever.  Handlers progress, a pending timer interrupt is taken and a due  *)
(* trap is raised although masked phases and further interrupts come in    *)
(* between: the CPU executes instructions between two interrupts, and the  *)
(* vector 0xef has the highest priority.                                   *)
(* The user need not type: no fairness on KbdInterrupt.                    *)
(***************************************************************************)
Fairness ==
  /\ SF_vars(Debugger) /\ SF_vars(Keyboard) /\ WF_vars(TimerExpires)
  /\ WF_vars(~iflag /\ LinuxFlag)
  /\ SF_vars(TimerToLinux \/ TimerToIce) /\ SF_vars(DebugTrap)

FairSpec == Spec /\ Fairness

-----------------------------------------------------------------------------
(***************************************************************************)
(* Properties                                                              *)
(***************************************************************************)
TypeOK ==
  /\ running_state \in States
  /\ regs \in 0..MaxDepth
  /\ gate \in Gates
  /\ stack \in Seq(Frame) /\ Len(stack) <= MaxDepth
  /\ iflag \in BOOLEAN /\ tflag \in BOOLEAN
  /\ timer \in {"armed", "pending", "inservice"}
  /\ kbd \in [pc : KbdPCs, ev : Events, site : {"hooked", "other"}]
  /\ keyq \in Seq(Chars) /\ Len(keyq) <= MaxKeys
  /\ text \in Seq(Chars) /\ Len(text) <= MaxText

\* The debugger is running in a frame from the claim to the reset of running_state.
ActivePCs == {"hook", "start", "loop", "exec", "unhook", "clear"}
Active    == {i \in 1..Depth : stack[i].pc \in ActivePCs}

\* On a machine whose keyboard is served by the hooked CPU, the debugger runs
\* in at most one frame, in exactly one while running_state is RUNNING, and
\* ice.regs is that frame: a tick that nests in a session never starts another.
SessionExclusive ==
  Active = IF running_state = RUNNING THEN {regs} ELSE {}

\* running_state is never RUNNING without a session whose frame ice.regs is,
\* wherever keyboard interrupts are served: were it so, all keys would be
\* swallowed and no debugger would ever read them.
RunningSession == running_state = RUNNING => regs \in Active

\* While the timer vector leads to the debugger, a break-in was asked for or
\* the debugger runs: ice_do_timer never opens a session nobody asked for.
\* This is the order ENTERING, hook on entry and unhook, NOT_RUNNING on exit.
HookedOnlyWhileEngaged == gate # LinuxGate => running_state # NOT_RUNNING

\* A frame the debugger leaves resumes with a single-step trap if and only if
\* the command was T: the TF bits cleared and set by run_debugger and cmdT are
\* those of the frame that is resumed, whatever nested in between.
ResumeHonoured ==
  \A i \in 1..Depth : stack[i].cmd # "none" => (stack[i].tf <=> stack[i].cmd = "T")

\* A session that interrupts the keyboard handler gets no keys (the handler
\* cannot be entered again), so it must not happen to an ordinary key press.
\* It happens to Ctrl-Q alone, in the window that the sti of hook_idt opens.
OnlyHotkeyIsPreempted ==
  \A i \in Active : (\E j \in 1..i : stack[j].kind = "kbd") => kbd.ev = "hotkey"

\* Interrupts nest in the debugger, which runs with interrupts enabled on the
\* stack of what it interrupted, but no more than three frames deep: keyboard
\* handler, session, tick.  Only a session that was caught between NOT_RUNNING
\* and the cli of the stub, and broken into again there, adds to them.
BoundedNesting == Depth <= 3 + Cardinality({i \in 1..Depth : stack[i].pc = "leave"})

\* include/linuxice.h of ENTERING: "System will be paused in the next timer
\* interrupt".  No timer interrupt goes to Linux between Ctrl-Q and the pause.
NextTimerPauses == [][~(running_state = ENTERING /\ TimerToLinux)]_vars

-----------------------------------------------------------------------------
(***************************************************************************)
(* The protocol implements IceDebugger.                                    *)
(***************************************************************************)
mode == CASE running_state = NOT_RUNNING -> "running"
          [] running_state = ENTERING    -> "breaking"
          [] running_state = RUNNING     -> "paused"
step == running_state # RUNNING /\ (tflag \/ \E i \in 1..Depth : stack[i].tf)

D == INSTANCE IceDebugger

\* Every step of the protocol is a request, a break, a resume or a stutter of
\* the abstract debugger: no break-in request is lost, no trap used up without
\* a break.
ImplementsDebugger == D!Spec

\* A requested break-in and a trap due lead to a session.
BreakHonoured == D!BreakHonoured
=============================================================================
