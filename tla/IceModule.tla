------------------------------ MODULE IceModule ------------------------------
(***************************************************************************)
(* The life of the LinuxICE module and the two things it patches in Linux: *)
(* the first five bytes of kbd_event (hook_kbd.c) and the interrupt table  *)
(* (hook_idt.c).  insmod and rmmod run hello_init and hello_exit in process*)
(* context on the CPU home; keyboards deliver events in interrupts, on the *)
(* CPU CpuOf[d], Linux handling one event of a keyboard at a time.  A      *)
(* session of the debugger (module IceSession) is a start and an end here. *)
(* Each event that is for Linux makes fake_kbd_event take its own patch    *)
(* out, call kbd_event and patch it again.                                 *)
(***************************************************************************)
EXTENDS Naturals, Sequences, FiniteSets

CONSTANTS
  CPUs, Devices, \* the processors, the keyboards
  CpuOf,         \* the CPU that serves each keyboard
  MaxEvents,     \* bound: keyboard events in a behaviour
  MaxCalls       \* bound: activations of fake_kbd_event within one event

ASSUME CpuOfAssumption  == CpuOf \in [Devices -> CPUs]
ASSUME NamesAssumption  == {"module", "session"} \cap Devices = {}
ASSUME BoundAssumption  == MaxEvents \in Nat /\ MaxCalls \in Nat \ {0}

VARIABLES
  home,          \* the CPU that loads and unloads the module
  code,          \* the first five bytes of kbd_event
  ori_entry,     \* hook_kbd.c: what hook_kbd saved of them
  idtr, ori_idtr,\* the table each CPU's IDTR points to; hook_idt.c: the saved IDTR
  ice_idt, ori_idt, is_inited, \* hook_idt.c: vectors the tables send to the module
  running_state, \* ice.running_state
  views,         \* the list views and the command line of ui.c
  pc, level,     \* control state; activations of fake_kbd_event on a keyboard's stack
  stack, iflag,  \* interrupts nested on each CPU, and its EFLAGS.IF
  ev, reached, swallowed, \* the event of each keyboard ("key": any but Ctrl-Q), who got it
  events,        \* events delivered so far
  late,          \* history: Ctrl-Q came while hook_idt_init or hello_exit was under way
  drawn          \* history: the states of the views that sessions found

patch == <<code, ori_entry>>
idt   == <<idtr, ori_idtr, ice_idt, ori_idt, is_inited>>
irq   == <<stack, level, ev, reached, swallowed, events>>
hist  == <<late, drawn, home>> \* home is chosen once
vars  == <<patch, idt, running_state, views, pc, irq, iflag, hist>>

\* The opcode byte and the four bytes behind it.
LinuxCode == [op |-> "linux", rest |-> "linux"]
JmpFake   == [op |-> "jmp", rest |-> "fake"]
ZeroCode  == [op |-> "zero", rest |-> "zero"]

Procs  == Devices \cup {"module"}
CPU(p) == IF p = "module" THEN home ELSE CpuOf[p]
\* A process runs when nothing is nested above it on its CPU.
Runs(p, at) ==
  /\ pc[p] = at
  /\ IF p = "module" THEN stack[home] = <<>>
     ELSE stack[CPU(p)] # <<>> /\ stack[CPU(p)][Len(stack[CPU(p)])] = p
Goto(p, to) == pc' = [pc EXCEPT ![p] = to]
If(p, flag) == iflag' = [iflag EXCEPT ![CPU(p)] = flag]
-----------------------------------------------------------------------------
\* A keyboard interrupt: Linux's input core is about to call kbd_event.
KbdInterrupt(d) ==
  /\ pc[d] = "idle" /\ iflag[CPU(d)] /\ events < MaxEvents
  /\ \E e \in {"key", "hotkey"} : ev' = [ev EXCEPT ![d] = e]
  /\ stack' = [stack EXCEPT ![CPU(d)] = Append(@, d)]
  /\ If(d, FALSE) /\ Goto(d, "call")
  /\ events' = events + 1
  /\ reached' = [reached EXCEPT ![d] = 0] /\ swallowed' = [swallowed EXCEPT ![d] = 0]
  /\ UNCHANGED <<patch, idt, running_state, views, level, hist>>

\* Mutant: fake_kbd_event does not patch kbd_event again.
Back_NoHook(n) == IF n = 0 THEN "done" ELSE "ret"

\* Control after the activation of fake_kbd_event or kbd_event at level n ends.
Back(n) == IF n = 0 THEN "done" ELSE "save"

\* The CPU executes kbd_event: Linux's code, the jump to fake_kbd_event, or
\* half of each; a jump that MaxCalls activations have taken already recurs
\* until the stack overflows.
CallKbdEvent(d) ==
  /\ Runs(d, "call")
  /\ CASE code = LinuxCode -> /\ reached' = [reached EXCEPT ![d] = @ + 1]
                              /\ Goto(d, Back(level[d])) /\ UNCHANGED level
       [] code = JmpFake /\ level[d] < MaxCalls ->
                              /\ level' = [level EXCEPT ![d] = @ + 1]
                              /\ Goto(d, "fake") /\ UNCHANGED reached
       [] OTHER            -> Goto(d, "wild") /\ UNCHANGED <<reached, level>>
  /\ UNCHANGED <<patch, idt, running_state, views, stack, ev, swallowed, events, iflag, hist>>

\* The module is about to be unloaded, or is in the middle of hook_idt_init.
InWindow == pc["module"] \in {"unhook1", "unhook2", "copy", "lidt", "inited"}

FakeKbdEvent(d) ==
  /\ Runs(d, "fake")
  /\ IF running_state # "NOT_RUNNING" \/ ev[d] = "hotkey"
     THEN /\ swallowed' = [swallowed EXCEPT ![d] = @ + 1]
          /\ IF running_state = "NOT_RUNNING"
             THEN running_state' = "ENTERING" /\ Goto(d, "check") /\ late' = (late \/ InWindow)
             ELSE Goto(d, "ret") /\ UNCHANGED <<running_state, late>>
     ELSE Goto(d, "unhook1") /\ UNCHANGED <<swallowed, running_state, late>>
  /\ UNCHANGED <<patch, idt, views, stack, level, ev, reached, events, iflag, drawn, home>>

FakeReturn(d) ==
  /\ Runs(d, "ret")
  /\ level' = [level EXCEPT ![d] = @ - 1]
  /\ Goto(d, Back(level[d] - 1))
  /\ UNCHANGED <<patch, idt, running_state, views, stack, ev, reached, swallowed, events,
                 iflag, hist>>

\* The interrupt handler returns.
KbdReturn(d) ==
  /\ Runs(d, "done")
  /\ stack' = [stack EXCEPT ![CPU(d)] = SubSeq(@, 1, Len(@) - 1)]
  /\ If(d, TRUE) /\ Goto(d, "idle")
  /\ UNCHANGED <<patch, idt, running_state, views, level, ev, reached, swallowed, events, hist>>
-----------------------------------------------------------------------------
\* unhook_kbd: cli, the saved bytes in two parts, sti.
Unhook1(p) ==
  /\ Runs(p, "unhook1")
  /\ code' = [code EXCEPT !.op = ori_entry.op]
  /\ If(p, FALSE) /\ Goto(p, "unhook2")
  /\ UNCHANGED <<ori_entry, idt, running_state, views, irq, hist>>

Unhook2(p) ==
  /\ Runs(p, "unhook2")
  /\ code' = [code EXCEPT !.rest = ori_entry.rest]
  /\ If(p, TRUE) /\ Goto(p, IF p = "module" THEN "clean" ELSE "call")
  /\ UNCHANGED <<ori_entry, idt, running_state, views, irq, hist>>

\* hook_kbd: the bytes are saved with interrupts as they are, then cli, the
\* opcode, the offset, sti.
Save(p) ==
  /\ Runs(p, "save")
  /\ ori_entry' = code
  /\ Goto(p, "patch1")
  /\ UNCHANGED <<code, idt, running_state, views, irq, iflag, hist>>

\* Mutant: the bytes are saved after the opcode was stored.
Patch1_SavesLate(p) ==
  /\ Runs(p, "patch1")
  /\ code' = [code EXCEPT !.op = "jmp"] /\ ori_entry' = code'
  /\ If(p, FALSE) /\ Goto(p, "patch2")
  /\ UNCHANGED <<idt, running_state, views, irq, hist>>

Patch1(p) ==
  /\ Runs(p, "patch1")
  /\ code' = [code EXCEPT !.op = "jmp"]
  /\ If(p, FALSE) /\ Goto(p, "patch2")
  /\ UNCHANGED <<ori_entry, idt, running_state, views, irq, hist>>

Patch2(p) ==
  /\ Runs(p, "patch2")
  /\ code' = [code EXCEPT !.rest = "fake"]
  /\ If(p, TRUE) /\ Goto(p, IF p = "module" THEN "check" ELSE "ret")
  /\ UNCHANGED <<ori_entry, idt, running_state, views, irq, hist>>
-----------------------------------------------------------------------------
\* hook_idt of 1 and 3 by hello_init, of 0xef by kbd_handler.
HookIdt(p) ==
  /\ Runs(p, "check")
  /\ Goto(p, IF is_inited THEN "gate" ELSE "copy")
  /\ UNCHANGED <<patch, idt, running_state, views, irq, iflag, hist>>

\* hook_idt_init: sidt and the copies of the table, lidt, is_inited.
CopyIdt(p) ==
  LET table == IF idtr[CPU(p)] = "ice" THEN ice_idt ELSE {} IN
  /\ Runs(p, "copy")
  /\ ori_idtr' = idtr[CPU(p)]
  /\ ori_idt' = table /\ ice_idt' = table
  /\ Goto(p, "lidt")
  /\ UNCHANGED <<patch, idtr, is_inited, running_state, views, irq, iflag, hist>>

LoadIdtr(p) ==
  /\ Runs(p, "lidt")
  /\ idtr' = [idtr EXCEPT ![CPU(p)] = "ice"]
  /\ Goto(p, "inited")
  /\ UNCHANGED <<patch, ori_idtr, ice_idt, ori_idt, is_inited, running_state, views, irq,
                 iflag, hist>>

SetInited(p) ==
  /\ Runs(p, "inited")
  /\ is_inited' = TRUE
  /\ Goto(p, "gate")
  /\ UNCHANGED <<patch, idtr, ori_idtr, ice_idt, ori_idt, running_state, views, irq, iflag, hist>>

\* Mutant: kbd_handler returns 1 for Ctrl-Q, too.
SetGate_ToLinux(p) ==
  /\ Runs(p, "gate")
  /\ ice_idt' = ice_idt \cup (IF p = "module" THEN {"0x1", "0x3"} ELSE {"0xef"})
  /\ If(p, TRUE) /\ Goto(p, IF p = "module" THEN "start" ELSE "unhook1")
  /\ UNCHANGED <<patch, idtr, ori_idtr, ori_idt, is_inited, running_state, views, irq, hist>>

\* SET_INT_HANDLER_OFFSET, which ends with sti.
SetGate(p) ==
  /\ Runs(p, "gate")
  /\ ice_idt' = ice_idt \cup (IF p = "module" THEN {"0x1", "0x3"} ELSE {"0xef"})
  /\ If(p, TRUE) /\ Goto(p, IF p = "module" THEN "start" ELSE "ret")
  /\ UNCHANGED <<patch, idtr, ori_idtr, ori_idt, is_inited, running_state, views, irq, hist>>

\* The timer interrupt opens a session where IDTR leads to int_0xef; it ends
\* with unhook_idt and NOT_RUNNING.
SessionStart(c) ==
  /\ iflag[c] /\ idtr[c] = "ice" /\ "0xef" \in ice_idt /\ running_state # "RUNNING"
  /\ running_state' = "RUNNING"
  /\ stack' = [stack EXCEPT ![c] = Append(@, "session")]
  /\ drawn' = drawn \cup {views}
  /\ UNCHANGED <<patch, idt, views, pc, level, ev, reached, swallowed, events, iflag, late, home>>

SessionEnd(c) ==
  /\ stack[c] # <<>> /\ stack[c][Len(stack[c])] = "session"
  /\ stack' = [stack EXCEPT ![c] = SubSeq(@, 1, Len(@) - 1)]
  /\ ice_idt' = IF is_inited THEN (ice_idt \ {"0xef"}) \cup (ori_idt \cap {"0xef"}) ELSE ice_idt
  /\ running_state' = "NOT_RUNNING"
  /\ UNCHANGED <<patch, idtr, ori_idtr, ori_idt, is_inited, views, pc, level, ev, reached,
                 swallowed, events, iflag, hist>>
-----------------------------------------------------------------------------
\* hello_init up to hook_kbd: ui_init builds the views or gives up.
LoadUi ==
  /\ Runs("module", "init")
  /\ views' \in {"built", "failed"}
  /\ Goto("module", "save")
  /\ UNCHANGED <<patch, idt, running_state, irq, iflag, hist>>

\* The end of hello_init.
LoadDone ==
  /\ Runs("module", "start")
  /\ running_state' = "NOT_RUNNING"
  /\ Goto("module", "loaded")
  /\ UNCHANGED <<patch, idt, views, irq, iflag, hist>>

\* Mutant: restore_idt clears is_inited before it tests it.
RestoreIdt_Never ==
  /\ Runs("module", "loaded")
  /\ is_inited' = FALSE
  /\ Goto("module", "unhook1")
  /\ UNCHANGED <<patch, idtr, ori_idtr, ice_idt, ori_idt, running_state, views, irq, iflag, hist>>

\* rmmod: hello_exit begins with restore_idt.
RestoreIdt ==
  /\ Runs("module", "loaded")
  /\ idtr' = IF is_inited THEN [idtr EXCEPT ![home] = ori_idtr] ELSE idtr
  /\ is_inited' = FALSE
  /\ Goto("module", "unhook1")
  /\ UNCHANGED <<patch, ori_idtr, ice_idt, ori_idt, running_state, views, irq, iflag, hist>>

\* ui_clean, and Linux frees the module.
CleanUi ==
  /\ Runs("module", "clean")
  /\ views' = "none"
  /\ Goto("module", "gone")
  /\ UNCHANGED <<patch, idt, running_state, irq, iflag, hist>>

Module == LoadUi \/ LoadDone \/ RestoreIdt \/ CleanUi
Patching(p) == \/ Unhook1(p) \/ Unhook2(p) \/ Save(p) \/ Patch1(p) \/ Patch2(p)
               \/ HookIdt(p) \/ CopyIdt(p) \/ LoadIdtr(p) \/ SetInited(p) \/ SetGate(p)
Handler(d) == CallKbdEvent(d) \/ FakeKbdEvent(d) \/ FakeReturn(d) \/ KbdReturn(d)

Init ==
  /\ code = LinuxCode /\ ori_entry = ZeroCode
  /\ idtr = [c \in CPUs |-> "linux"] /\ ori_idtr = "none"
  /\ ice_idt = {} /\ ori_idt = {} /\ is_inited = FALSE
  /\ running_state = "NOT_RUNNING" /\ views = "none"
  /\ pc = [p \in Procs |-> IF p = "module" THEN "init" ELSE "idle"]
  /\ level = [d \in Devices |-> 0]
  /\ stack = [c \in CPUs |-> <<>>] /\ iflag = [c \in CPUs |-> TRUE]
  /\ ev = [d \in Devices |-> "key"] /\ reached = [d \in Devices |-> 0]
  /\ swallowed = reached /\ events = 0
  /\ late = FALSE /\ drawn = {} /\ home \in CPUs

Next ==
  \/ Module
  \/ \E p \in Procs : Patching(p)
  \/ \E d \in Devices : KbdInterrupt(d) \/ Handler(d)
  \/ \E c \in CPUs : SessionStart(c) \/ SessionEnd(c)

\* A CPU executes what runs on it; a session may last for ever, and nobody need
\* unload the module.
Fairness ==
  /\ WF_vars(LoadUi \/ LoadDone \/ CleanUi)
  /\ \A p \in Procs : WF_vars(Patching(p))
  /\ \A d \in Devices : WF_vars(Handler(d))

Spec == Init /\ [][Next]_vars /\ Fairness
-----------------------------------------------------------------------------
\* The variables hold what their C types and the code allow.
Codes == [op : {"zero", "linux", "jmp"}, rest : {"zero", "linux", "fake"}]
TypeOK ==
  /\ code \in Codes /\ ori_entry \in Codes
  /\ idtr \in [CPUs -> {"linux", "ice"}] /\ ori_idtr \in {"none", "linux", "ice"}
  /\ ice_idt \subseteq {"0x1", "0x3", "0xef"} /\ ori_idt \subseteq {"0x1", "0x3", "0xef"}
  /\ is_inited \in BOOLEAN
  /\ running_state \in {"NOT_RUNNING", "ENTERING", "RUNNING"}
  /\ views \in {"none", "built", "failed"}
  /\ pc \in [Procs -> {"idle", "call", "fake", "ret", "done", "wild", "unhook1", "unhook2",
                       "save", "patch1", "patch2", "check", "copy", "lidt", "inited", "gate",
                       "init", "start", "loaded", "clean", "gone"}]
  /\ level \in [Devices -> 0 .. MaxCalls]
  /\ stack \in [CPUs -> Seq(Devices \cup {"session"})] /\ iflag \in [CPUs -> BOOLEAN]
  /\ ev \in [Devices -> {"key", "hotkey"}]
  /\ reached \in [Devices -> 0 .. MaxCalls] /\ swallowed \in [Devices -> 0 .. MaxCalls]
  /\ events \in 0 .. MaxEvents /\ late \in BOOLEAN /\ home \in CPUs
  /\ drawn \subseteq {"none", "built", "failed"}

\* The keyboards are served by the CPU that loads and unloads.
OneCpu == \A d \in Devices : CpuOf[d] = home

\* hook_kbd saves kbd_event anew at each event, and what it saves is Linux's
\* code, never the jump it wrote itself, which unhook_kbd would put back for
\* ever.  Nobody executes kbd_event while one of the two stores of hook_kbd or
\* of unhook_kbd is made and the other is not, or calls itself through it: this
\* only if the stores are made on the CPU that serves the keyboards.
NeverTorn ==
  /\ TypeOK
  /\ ori_entry \in {ZeroCode, LinuxCode}
  /\ OneCpu => \A d \in Devices : pc[d] # "wild"

\* An event is handled by Linux or by the debugger, by one of them, once.
DeliveredOnce == \A d \in Devices : pc[d] = "done" => reached[d] + swallowed[d] = 1

\* After rmmod nothing leads to the module's memory: not kbd_event, nor a CPU
\* inside fake_kbd_event, nor an interrupt table, and no session has drawn into
\* views that ui_init has not made yet or ui_clean has freed; unless Ctrl-Q
\* came in one of the two windows that late records.
CleanUnload ==
  OneCpu =>
    /\ late \/ "none" \notin drawn
    /\ pc["module"] = "gone" =>
         /\ code = LinuxCode
         /\ \A d \in Devices : level[d] = 0
         /\ late \/ \A c \in CPUs : idtr[c] = "linux"

\* kbd_event leads to the debugger again after each event handed to Linux, or a
\* session or rmmod is under way.
HookedAgain ==
  \A d \in Devices :
    (OneCpu /\ pc[d] = "call" /\ level[d] > 0)
      ~> (code = JmpFake \/ running_state = "RUNNING" \/ pc["module"] # "loaded")
=============================================================================
