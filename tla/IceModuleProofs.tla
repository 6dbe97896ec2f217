--------------------------- MODULE IceModuleProofs ---------------------------
(***************************************************************************)
(* Proofs about IceModule, for every set of CPUs and keyboards: each event *)
(* is delivered once, however the interrupts nest and wherever they are    *)
(* served.  If all keyboards are served by one CPU, hook_kbd never saves   *)
(* its own jump; if the module is loaded and unloaded there, too, nobody   *)
(* executes half of a patch, and nothing is left behind.                   *)
(***************************************************************************)
EXTENDS IceModule, FiniteSetTheorems, SequenceTheorems, TLAPS

-----------------------------------------------------------------------------
(* What holds for every assignment of keyboards to CPUs.                   *)

\* Nothing is nested above p on its CPU.
Top(p) ==
  IF p = "module" THEN stack[home] = <<>>
  ELSE stack[CPU(p)] # <<>> /\ stack[CPU(p)][Len(stack[CPU(p)])] = p

ModulePlaces == {"init", "save", "patch1", "patch2", "check", "copy", "lidt", "inited", "gate",
                 "start", "loaded", "unhook1", "unhook2", "clean", "gone"}
DevicePlaces == {"idle", "call", "fake", "ret", "done", "wild", "unhook1", "unhook2", "save",
                 "patch1", "patch2", "check", "copy", "lidt", "inited", "gate"}
Places == pc["module"] \in ModulePlaces /\ \A d \in Devices : pc[d] \in DevicePlaces

\* Who has handled the event of keyboard d so far, and how deep it is.
Counted(d) ==
  /\ reached[d] + swallowed[d] <= 1
  /\ pc[d] \in {"call", "fake", "unhook1", "unhook2"} => reached[d] + swallowed[d] = 0
  /\ pc[d] \in {"save", "patch1", "patch2", "ret", "done", "check", "copy", "lidt", "inited", "gate"}
       => reached[d] + swallowed[d] = 1
  /\ pc[d] \in {"idle", "done"} => level[d] = 0
  /\ pc[d] \notin {"idle", "done", "call", "wild"} => level[d] >= 1

\* What restore_idt puts back was read by sidt.
Saved     == is_inited \/ (\E p \in Procs : pc[p] \in {"lidt", "inited"}) => ori_idtr # "none"

BaseInv ==
  TypeOK /\ Places /\ (\A d \in Devices : Counted(d)) /\ Saved

\* Every process has a CPU, and no two of them are at the top of one.
LEMMA CpuType == ASSUME TypeOK, NEW p \in Procs PROVE CPU(p) \in CPUs
  BY CpuOfAssumption, NamesAssumption DEF TypeOK, Procs, CPU

LEMMA TopUnique ==
  ASSUME TypeOK, NEW p \in Procs, NEW q \in Procs, Top(p), Top(q), CPU(p) = CPU(q)
  PROVE  p = q
  BY NamesAssumption DEF Procs, CPU, Top


\* A step of hook_idt, hook_kbd or unhook_kbd in p, as control, EFLAGS.IF and
\* the interrupts see it.
Moved(p, from, to, flag) ==
  /\ pc[p] = from /\ Top(p) /\ pc' = [pc EXCEPT ![p] = to]
  /\ iflag' = [iflag EXCEPT ![CPU(p)] = flag]
  /\ stack' = stack /\ level' = level /\ reached' = reached /\ swallowed' = swallowed
  /\ home' = home

PatchMove(p) ==
  \/ Moved(p, "unhook1", "unhook2", FALSE)
  \/ Moved(p, "unhook2", IF p = "module" THEN "clean" ELSE "call", TRUE)
  \/ Moved(p, "save", "patch1", iflag[CPU(p)])
  \/ Moved(p, "patch1", "patch2", FALSE)
  \/ Moved(p, "patch2", IF p = "module" THEN "check" ELSE "ret", TRUE)
  \/ Moved(p, "check", "gate", iflag[CPU(p)])
  \/ Moved(p, "check", "copy", iflag[CPU(p)])
  \/ Moved(p, "copy", "lidt", iflag[CPU(p)])
  \/ Moved(p, "lidt", "inited", iflag[CPU(p)])
  \/ Moved(p, "inited", "gate", iflag[CPU(p)])
  \/ Moved(p, "gate", IF p = "module" THEN "start" ELSE "ret", TRUE)

\* Every patching step is such a move.
LEMMA PatchingMoves ==
  ASSUME TypeOK, NEW p \in Procs, Patching(p) PROVE PatchMove(p)
<1>1. iflag = [iflag EXCEPT ![CPU(p)] = iflag[CPU(p)]]
  BY CpuType DEF TypeOK
<1>2. Runs(p, pc[p]) => Top(p)
  BY DEF Runs, Top
<1>3. CASE Unhook1(p)
  BY <1>2, <1>3 DEF Unhook1, Runs, Goto, If, irq, hist, PatchMove, Moved
<1>4. CASE Unhook2(p)
  BY <1>2, <1>4 DEF Unhook2, Runs, Goto, If, irq, hist, PatchMove, Moved
<1>5. CASE Save(p)
  BY <1>1, <1>2, <1>5 DEF Save, Runs, Goto, If, irq, hist, PatchMove, Moved
<1>6. CASE Patch1(p)
  BY <1>2, <1>6 DEF Patch1, Runs, Goto, If, irq, hist, PatchMove, Moved
<1>7. CASE Patch2(p)
  BY <1>2, <1>7 DEF Patch2, Runs, Goto, If, irq, hist, PatchMove, Moved
<1>8. CASE HookIdt(p)
  <2>1. CASE is_inited
    BY <1>1, <1>2, <1>8, <2>1 DEF HookIdt, Runs, Goto, If, irq, hist, PatchMove, Moved
  <2>2. CASE ~is_inited
    BY <1>1, <1>2, <1>8, <2>2 DEF HookIdt, Runs, Goto, If, irq, hist, PatchMove, Moved
  <2> QED
    BY <2>1, <2>2
<1>9. CASE CopyIdt(p)
  BY <1>1, <1>2, <1>9 DEF CopyIdt, Runs, Goto, If, irq, hist, PatchMove, Moved
<1>10. CASE LoadIdtr(p)
  BY <1>1, <1>2, <1>10 DEF LoadIdtr, Runs, Goto, If, irq, hist, PatchMove, Moved
<1>11. CASE SetInited(p)
  BY <1>1, <1>2, <1>11 DEF SetInited, Runs, Goto, If, irq, hist, PatchMove, Moved
<1>12. CASE SetGate(p)
  BY <1>2, <1>12 DEF SetGate, Runs, Goto, If, irq, hist, PatchMove, Moved
<1> QED
  BY <1>3, <1>4, <1>5, <1>6, <1>7, <1>8, <1>9, <1>10, <1>11, <1>12 DEF Patching

\* Such a move does not change whom an event reached.
LEMMA MovedKeeps ==
  ASSUME TypeOK, Places, \A d \in Devices : Counted(d), NEW p \in Procs, PatchMove(p)
  PROVE  Places' /\ \A d \in Devices : Counted(d)'
<1>1. \A d \in Devices : d # "module" /\ d \in Procs
  BY NamesAssumption DEF Procs
<1>2. \A q \in Procs : q # p => pc'[q] = pc[q]
  BY DEF PatchMove, Moved, TypeOK
<1>3. level' = level /\ reached' = reached /\ swallowed' = swallowed
  BY DEF PatchMove, Moved
<1>4. Places'
  <2>1. pc'[p] \in IF p = "module" THEN ModulePlaces ELSE DevicePlaces
    BY DEF PatchMove, Moved, TypeOK, ModulePlaces, DevicePlaces
  <2>2. "module" \in Procs
    BY DEF Procs
  <2> QED
    BY <1>1, <1>2, <2>1, <2>2 DEF Places
<1>5. ASSUME NEW d \in Devices PROVE Counted(d)'
  <2>1. CASE d # p
    BY <1>1, <1>2, <1>3, <2>1 DEF Counted
  <2>2. CASE d = p
    <3>1. p # "module" /\ p \in Devices
      BY <1>1, <2>2
    <3> QED
      BY <1>3, <2>2, <3>1 DEF Counted, PatchMove, Moved, TypeOK
  <2> QED
    BY <2>1, <2>2
<1> QED
  BY <1>4, <1>5

\* Popping the top of a stack leaves what lies below it.
LEMMA Popped ==
  ASSUME NEW S, NEW s \in Seq(S), s # <<>>
  PROVE  /\ SubSeq(s, 1, Len(s) - 1) \in Seq(S)
         /\ \A i \in 1..Len(s) : s[i] # s[Len(s)] =>
              i \in 1..Len(SubSeq(s, 1, Len(s) - 1)) /\ SubSeq(s, 1, Len(s) - 1)[i] = s[i]
<1>1. Len(s) \in Nat /\ Len(s) > 0 /\ Len(s) - 1 \in Int /\ 1 \in Int
  BY EmptySeq
<1>2. \A i \in 1..Len(s) - 1 : s[i] \in S
  BY <1>1
<1>3. /\ SubSeq(s, 1, Len(s) - 1) \in Seq(S)
      /\ Len(SubSeq(s, 1, Len(s) - 1)) = IF 1 <= Len(s) - 1 THEN Len(s) - 1 - 1 + 1 ELSE 0
      /\ \A i \in 1..(Len(s) - 1 - 1 + 1) : SubSeq(s, 1, Len(s) - 1)[i] = s[1 + i - 1]
  BY ONLY <1>1, <1>2, SubSeqProperties, SMT
<1> DEFINE front == SubSeq(s, 1, Len(s) - 1)
<1>4. Len(front) = Len(s) - 1
  <2>1. Len(front) = IF 1 <= Len(s) - 1 THEN Len(s) - 1 - 1 + 1 ELSE 0
    BY <1>3
  <2>2. \A n \in Nat : n > 0 => (IF 1 <= n - 1 THEN n - 1 - 1 + 1 ELSE 0) = n - 1
    OBVIOUS
  <2> HIDE DEF front
  <2> QED
    BY ONLY <1>1, <2>1, <2>2
<1>5. \A i \in 1..Len(s) - 1 : front[i] = s[i]
  BY <1>1, <1>3
<1>6. front \in Seq(S)
  BY <1>3
<1> HIDE DEF front
<1>7. \A i \in 1..Len(s) : s[i] # s[Len(s)] => i \in 1..Len(front) /\ front[i] = s[i]
  BY <1>1, <1>4, <1>5
<1> QED
  BY <1>6, <1>7 DEF front

\* The initial states satisfy the invariant.
LEMMA BaseInit == ASSUME Init PROVE BaseInv
<1>1. TypeOK
  <2>1. code \in Codes /\ ori_entry \in Codes
    BY DEF Init, Codes, LinuxCode, ZeroCode
  <2>2. 0 \in 0..MaxCalls /\ 0 \in 0..MaxEvents
    BY BoundAssumption
  <2>3. /\ level \in [Devices -> 0..MaxCalls] /\ reached \in [Devices -> 0..MaxCalls]
        /\ swallowed \in [Devices -> 0..MaxCalls] /\ events \in 0..MaxEvents
    BY <2>2 DEF Init
  <2>4. <<>> \in Seq(Devices \cup {"session"})
    OBVIOUS
  <2>5. stack \in [CPUs -> Seq(Devices \cup {"session"})]
    BY <2>4 DEF Init
  <2> QED
    BY <2>1, <2>3, <2>5 DEF Init, TypeOK, Procs
<1>2. \A d \in Devices : d # "module" /\ d \in Procs
  BY NamesAssumption DEF Procs
<1>3. "module" \in Procs
  BY DEF Procs
<1>4. pc["module"] = "init" /\ \A d \in Devices : pc[d] = "idle"
  BY <1>2, <1>3 DEF Init
<1>5. \A d \in Devices : level[d] = 0 /\ reached[d] = 0 /\ swallowed[d] = 0
  BY DEF Init
<1>6. Places
  BY <1>4 DEF Places, ModulePlaces, DevicePlaces
<1>7. \A d \in Devices : Counted(d)
  BY <1>4, <1>5 DEF Counted
<1>8. Saved
  BY <1>4 DEF Init, Saved, Procs
<1> QED
  BY <1>1, <1>6, <1>7, <1>8 DEF BaseInv

\* The variables keep their types.
LEMMA PatchingTypes ==
  ASSUME TypeOK, NEW p \in Procs, Patching(p) PROVE TypeOK'
<1>1. CPU(p) \in CPUs
  BY CpuType
<1>2. CASE Unhook1(p)
  BY <1>1, <1>2, ZenonT(40) DEF Unhook1, Goto, If, irq, idt, hist, TypeOK, Codes
<1>3. CASE Unhook2(p)
  BY <1>1, <1>3, ZenonT(40) DEF Unhook2, Goto, If, irq, idt, hist, TypeOK, Codes
<1>4. CASE Save(p)
  BY <1>1, <1>4 DEF Save, Goto, If, irq, idt, hist, TypeOK
<1>5. CASE Patch1(p)
  BY <1>1, <1>5, ZenonT(40) DEF Patch1, Goto, If, irq, idt, hist, TypeOK, Codes
<1>6. CASE Patch2(p)
  BY <1>1, <1>6, ZenonT(40) DEF Patch2, Goto, If, irq, idt, hist, TypeOK, Codes
<1>7. CASE HookIdt(p)
  BY <1>1, <1>7 DEF HookIdt, Goto, patch, irq, idt, hist, TypeOK
<1>8. CASE CopyIdt(p)
  BY <1>1, <1>8 DEF CopyIdt, Goto, patch, irq, hist, TypeOK
<1>9. CASE LoadIdtr(p)
  BY <1>1, <1>9 DEF LoadIdtr, Goto, patch, irq, hist, TypeOK
<1>10. CASE SetInited(p)
  BY <1>1, <1>10 DEF SetInited, Goto, patch, irq, hist, TypeOK
<1>11. CASE SetGate(p)
  BY <1>1, <1>11 DEF SetGate, Goto, If, patch, irq, hist, TypeOK
<1> QED
  BY <1>2, <1>3, <1>4, <1>5, <1>6, <1>7, <1>8, <1>9, <1>10, <1>11 DEF Patching

\* Every step keeps the invariant: the module's own steps.
LEMMA ModuleKeepsBase == ASSUME BaseInv, Module PROVE BaseInv'
<1>1. TypeOK /\ Places /\ "module" \in Procs
  BY DEF BaseInv, Procs
<1>2. \A d \in Devices : d # "module" /\ d \in Procs
  BY NamesAssumption DEF Procs
<1>3. /\ Top("module") /\ stack' = stack /\ iflag' = iflag /\ home' = home
      /\ level' = level /\ reached' = reached /\ swallowed' = swallowed
      /\ \E to \in ModulePlaces \ {"unhook2", "patch2"} : pc' = [pc EXCEPT !["module"] = to]
  BY DEF Module, LoadUi, LoadDone, RestoreIdt, CleanUi, Runs, Top, Goto, irq, hist, ModulePlaces
<1>4. TypeOK'
  <2>1. CASE LoadUi
    BY <1>1, <2>1 DEF LoadUi, Goto, patch, irq, idt, hist, TypeOK
  <2>2. CASE LoadDone
    BY <1>1, <2>2 DEF LoadDone, Goto, patch, irq, idt, hist, TypeOK
  <2>3. CASE RestoreIdt
    <3>1. idtr' \in [CPUs -> {"linux", "ice"}]
      BY <1>1, <2>3 DEF RestoreIdt, TypeOK, BaseInv, Saved
    <3> QED
      BY <1>1, <2>3, <3>1 DEF RestoreIdt, Goto, patch, irq, idt, hist, TypeOK
  <2>4. CASE CleanUi
    BY <1>1, <2>4 DEF CleanUi, Goto, patch, irq, idt, hist, TypeOK
  <2> QED
    BY <2>1, <2>2, <2>3, <2>4 DEF Module
<1>5. pc'["module"] \in ModulePlaces \ {"unhook2", "patch2"} /\ \A d \in Devices : pc'[d] = pc[d]
  BY <1>1, <1>2, <1>3 DEF TypeOK
<1>6. Places' /\ \A d \in Devices : Counted(d)'
  BY <1>2, <1>3, <1>5 DEF BaseInv, Places, Counted
<1>7. Saved'
  <2>1. ori_idtr' = ori_idtr /\ (is_inited' => is_inited)
    BY DEF Module, LoadUi, LoadDone, RestoreIdt, CleanUi, idt
  <2>2. \A p \in Procs : pc'[p] \in {"lidt", "inited"} => pc[p] \in {"lidt", "inited"}
    <3>1. pc'["module"] \notin {"lidt", "inited"}
      BY <1>1 DEF Module, LoadUi, LoadDone, RestoreIdt, CleanUi, Goto, TypeOK
    <3> QED
      BY <3>1, <1>5 DEF Procs
  <2> QED
    BY <2>1, <2>2 DEF BaseInv, Saved
<1> QED
  BY <1>4, <1>6, <1>7 DEF BaseInv

\* The steps of hook_idt, hook_kbd and unhook_kbd.
LEMMA PatchingKeepsBase ==
  ASSUME BaseInv, NEW p \in Procs, Patching(p) PROVE BaseInv'
<1>1. TypeOK /\ Saved
  BY DEF BaseInv
<1>2. PatchMove(p)
  BY <1>1, PatchingMoves
<1>3. TypeOK'
  BY <1>1, PatchingTypes
<1>4. Places' /\ \A d \in Devices : Counted(d)'
  BY <1>2, MovedKeeps DEF BaseInv
<1>5. Saved'
  <2>1. \A q \in Procs : q # p => pc'[q] = pc[q]
    BY <1>1, <1>2 DEF PatchMove, Moved, TypeOK
  <2>2. CASE CopyIdt(p)
    BY <1>1, <2>2, CpuType DEF CopyIdt, TypeOK, Saved
  <2>3. CASE ~CopyIdt(p)
    <3>1. ori_idtr' = ori_idtr
      BY <2>3 DEF Patching, Unhook1, Unhook2, Save, Patch1, Patch2, HookIdt, LoadIdtr, SetInited,
                  SetGate, idt
    <3>2. CASE LoadIdtr(p)
      BY <1>1, <2>1, <3>1, <3>2 DEF LoadIdtr, Runs, Saved
    <3>3. CASE SetInited(p)
      BY <1>1, <2>1, <3>1, <3>3 DEF SetInited, Runs, Saved
    <3>4. CASE ~LoadIdtr(p) /\ ~SetInited(p)
      <4>1. is_inited' = is_inited /\ pc'[p] \notin {"lidt", "inited"}
        BY <1>1, <2>3, <3>4
           DEF Patching, Unhook1, Unhook2, Save, Patch1, Patch2, HookIdt, SetGate, idt, Goto, TypeOK
      <4> QED
        BY <1>1, <2>1, <3>1, <4>1 DEF Saved
    <3> QED
      BY <3>2, <3>3, <3>4
  <2> QED
    BY <2>2, <2>3
<1> QED
  BY <1>3, <1>4, <1>5 DEF BaseInv

\* A step of keyboard d's handler leaves the others' places and counts alone.
LEMMA KbdMove ==
  ASSUME BaseInv, NEW d \in Devices, TypeOK',
         \A q \in Procs : q # d => pc'[q] = pc[q],
         \A e \in Devices : e # d => /\ level'[e] = level[e]
                                     /\ reached'[e] = reached[e] /\ swallowed'[e] = swallowed[e],
         pc'[d] \in DevicePlaces \ {"lidt", "inited"}, Counted(d)',
         is_inited' = is_inited, ori_idtr' = ori_idtr
  PROVE  BaseInv'
<1>1. "module" \in Procs /\ \A e \in Devices : e \in Procs /\ e # "module"
  BY NamesAssumption DEF Procs
<1>2. Places'
  BY <1>1 DEF BaseInv, Places
<1>3. \A e \in Devices : Counted(e)'
  BY <1>1 DEF BaseInv, Counted
<1>4. Saved'
  BY <1>1 DEF BaseInv, Saved
<1> QED
  BY <1>2, <1>3, <1>4 DEF BaseInv

\* kbd_event is called.
LEMMA CallKeepsBase == ASSUME BaseInv, NEW d \in Devices, CallKbdEvent(d) PROVE BaseInv'
<1>1. TypeOK /\ Counted(d) /\ d \in Procs /\ pc[d] = "call"
  BY DEF BaseInv, CallKbdEvent, Runs, Procs
<1>2. /\ reached[d] = 0 /\ swallowed[d] = 0 /\ level[d] \in 0..MaxCalls
      /\ MaxCalls \in Nat /\ MaxCalls >= 1
  BY <1>1, BoundAssumption DEF TypeOK, Counted
<1>3. /\ UNCHANGED <<patch, idt, running_state, views, stack, ev, swallowed, events, iflag, hist>>
      /\ swallowed'[d] = 0
  BY <1>2 DEF CallKbdEvent
<1>4. LinuxCode # JmpFake
  BY DEF LinuxCode, JmpFake
<1>5. CASE /\ reached' = [reached EXCEPT ![d] = @ + 1]
           /\ Goto(d, Back(level[d])) /\ UNCHANGED level
  <2>1. reached'[d] = 1 /\ 1 \in 0..MaxCalls
    BY <1>1, <1>2, <1>5 DEF TypeOK
  <2>2. reached' \in [Devices -> 0..MaxCalls]
    BY <1>1, <1>2, <1>5, <2>1 DEF TypeOK
  <2>3. Back(level[d]) = (IF level[d] = 0 THEN "done" ELSE "save")
    BY DEF Back
  <2>4. TypeOK'
    BY <1>1, <1>3, <1>5, <2>2, <2>3 DEF TypeOK, Goto, patch, idt, hist
  <2>5. Counted(d)'
    BY <1>1, <1>2, <1>3, <1>5, <2>1, <2>3 DEF Counted, Goto, TypeOK
  <2>6. pc'[d] \in DevicePlaces \ {"lidt", "inited"}
    BY <1>1, <1>5, <2>3 DEF Goto, TypeOK, DevicePlaces
  <2> QED
    BY <1>1, <1>3, <1>5, <2>4, <2>5, <2>6, KbdMove DEF Goto, TypeOK, idt
<1>6. CASE /\ level[d] < MaxCalls /\ level' = [level EXCEPT ![d] = @ + 1]
           /\ Goto(d, "fake") /\ UNCHANGED reached
  <2>1. level'[d] = level[d] + 1 /\ level[d] + 1 \in 0..MaxCalls /\ level[d] + 1 >= 1
    BY <1>1, <1>2, <1>6 DEF TypeOK
  <2>2. level' \in [Devices -> 0..MaxCalls]
    BY <1>1, <1>6, <2>1 DEF TypeOK
  <2>3. TypeOK'
    BY <1>1, <1>3, <1>6, <2>2 DEF TypeOK, Goto, patch, idt, hist
  <2>4. pc'[d] = "fake" /\ reached'[d] = 0
    BY <1>1, <1>2, <1>6 DEF TypeOK, Goto
  <2>5. Counted(d)'
    BY <1>3, <2>1, <2>4 DEF Counted
  <2> QED
    BY <1>1, <1>3, <1>6, <2>3, <2>4, <2>5, KbdMove DEF Goto, TypeOK, idt, DevicePlaces
<1>7. CASE Goto(d, "wild") /\ UNCHANGED <<reached, level>>
  <2>1. pc'[d] = "wild" /\ reached'[d] = 0
    BY <1>1, <1>2, <1>7 DEF TypeOK, Goto
  <2>2. TypeOK'
    BY <1>1, <1>3, <1>7 DEF TypeOK, Goto, patch, idt, hist
  <2>3. Counted(d)'
    BY <1>3, <2>1 DEF Counted
  <2> QED
    BY <1>1, <1>3, <1>7, <2>1, <2>2, <2>3, KbdMove DEF Goto, TypeOK, idt, DevicePlaces
<1> QED
  BY <1>4, <1>5, <1>6, <1>7 DEF CallKbdEvent

\* fake_kbd_event decides whom the event is for, and returns.
LEMMA FakeKeepsBase ==
  ASSUME BaseInv, NEW d \in Devices, FakeKbdEvent(d) \/ FakeReturn(d) PROVE BaseInv'
<1>1. TypeOK /\ Counted(d) /\ d \in Procs
  BY DEF BaseInv, Procs
<1>2. /\ reached[d] \in Nat /\ swallowed[d] \in Nat /\ level[d] \in 0..MaxCalls
      /\ MaxCalls \in Nat /\ MaxCalls >= 1
  BY <1>1, BoundAssumption DEF TypeOK
<1>3. CASE FakeKbdEvent(d)
  <2>1. pc[d] = "fake" /\ reached[d] = 0 /\ swallowed[d] = 0 /\ level[d] >= 1
    BY <1>1, <1>2, <1>3 DEF FakeKbdEvent, Runs, Counted
  <2>2. UNCHANGED <<patch, idt, views, stack, level, ev, reached, events, iflag, drawn, home>>
    BY <1>3 DEF FakeKbdEvent
  <2>3. CASE /\ swallowed' = [swallowed EXCEPT ![d] = @ + 1]
             /\ \/ running_state' = "ENTERING" /\ Goto(d, "check") /\ late' = (late \/ InWindow)
                \/ Goto(d, "ret") /\ UNCHANGED <<running_state, late>>
    <3>1. swallowed'[d] = 1 /\ 1 \in 0..MaxCalls
      BY <1>1, <1>2, <2>1, <2>3 DEF TypeOK
    <3>2. swallowed' \in [Devices -> 0..MaxCalls]
      BY <1>1, <1>2, <2>3, <3>1 DEF TypeOK
    <3>3. late' \in BOOLEAN /\ running_state' \in {"NOT_RUNNING", "ENTERING", "RUNNING"}
      BY <1>1, <2>3 DEF TypeOK, InWindow
    <3>4. pc'[d] \in {"check", "ret"}
      BY <1>1, <2>3 DEF TypeOK, Goto
    <3>5. TypeOK'
      BY <1>1, <2>2, <2>3, <3>2, <3>3 DEF TypeOK, Goto, patch, idt
    <3>6. Counted(d)'
      BY <2>1, <2>2, <3>1, <3>4 DEF Counted
    <3> QED
      BY <1>1, <2>2, <2>3, <3>4, <3>5, <3>6, KbdMove DEF Goto, TypeOK, idt, DevicePlaces
  <2>4. CASE Goto(d, "unhook1") /\ UNCHANGED <<swallowed, running_state, late>>
    <3>1. pc'[d] = "unhook1"
      BY <1>1, <2>4 DEF TypeOK, Goto
    <3>2. TypeOK'
      BY <1>1, <2>2, <2>4 DEF TypeOK, Goto, patch, idt
    <3>3. Counted(d)'
      BY <2>1, <2>2, <2>4, <3>1 DEF Counted
    <3> QED
      BY <1>1, <2>2, <2>4, <3>1, <3>2, <3>3, KbdMove DEF Goto, TypeOK, idt, DevicePlaces
  <2> QED
    BY <1>3, <2>3, <2>4 DEF FakeKbdEvent
<1>4. CASE FakeReturn(d)
  <2>1. pc[d] = "ret" /\ reached[d] + swallowed[d] = 1 /\ level[d] >= 1
    BY <1>1, <1>2, <1>4 DEF FakeReturn, Runs, Counted
  <2>2. /\ UNCHANGED <<patch, idt, running_state, views, stack, ev, reached, swallowed, events,
                       iflag, hist>>
        /\ level' = [level EXCEPT ![d] = level[d] - 1]
        /\ pc' = [pc EXCEPT ![d] = IF level[d] - 1 = 0 THEN "done" ELSE "save"]
    BY <1>4 DEF FakeReturn, Goto, Back
  <2>3. level[d] - 1 \in 0..MaxCalls
    BY <1>2, <2>1
  <2>4. level' \in [Devices -> 0..MaxCalls] /\ level'[d] = level[d] - 1
    BY <1>1, <2>2, <2>3 DEF TypeOK
  <2>5. pc'[d] = IF level[d] - 1 = 0 THEN "done" ELSE "save"
    BY <1>1, <2>2 DEF TypeOK
  <2>6. TypeOK'
    BY <1>1, <2>2, <2>4 DEF TypeOK, patch, idt, hist
  <2>7. Counted(d)'
    BY <1>2, <2>1, <2>2, <2>4, <2>5 DEF Counted
  <2> QED
    BY <1>1, <2>2, <2>5, <2>6, <2>7, KbdMove DEF TypeOK, idt, DevicePlaces
<1> QED
  BY <1>3, <1>4

\* The keyboard interrupt comes, and returns.
LEMMA InterruptKeepsBase ==
  ASSUME BaseInv, NEW d \in Devices, KbdInterrupt(d) \/ KbdReturn(d) PROVE BaseInv'
<1>1. TypeOK /\ Counted(d) /\ d \in Procs
  BY DEF BaseInv, Procs
<1>2. CPU(d) \in CPUs
  BY <1>1, CpuType
<1>3. CASE KbdInterrupt(d)
  <2>1. /\ pc[d] = "idle" /\ events < MaxEvents
        /\ UNCHANGED <<patch, idt, running_state, views, level, hist>>
        /\ stack' = [stack EXCEPT ![CPU(d)] = Append(stack[CPU(d)], d)]
        /\ iflag' = [iflag EXCEPT ![CPU(d)] = FALSE] /\ pc' = [pc EXCEPT ![d] = "call"]
        /\ events' = events + 1
        /\ reached' = [reached EXCEPT ![d] = 0] /\ swallowed' = [swallowed EXCEPT ![d] = 0]
    BY <1>3 DEF KbdInterrupt, If, Goto
  <2>2. ev' \in [Devices -> {"key", "hotkey"}]
    BY <1>1, <1>3 DEF KbdInterrupt, TypeOK
  <2>3. level[d] = 0 /\ reached'[d] = 0 /\ swallowed'[d] = 0 /\ pc'[d] = "call"
    BY <1>1, <2>1 DEF Counted, TypeOK
  <2>4. /\ reached' \in [Devices -> 0..MaxCalls] /\ swallowed' \in [Devices -> 0..MaxCalls]
        /\ events' \in 0..MaxEvents
    BY <1>1, <2>1, BoundAssumption DEF TypeOK
  <2>5. Append(stack[CPU(d)], d) \in Seq(Devices \cup {"session"})
    BY <1>1, <1>2 DEF TypeOK
  <2>6. stack' \in [CPUs -> Seq(Devices \cup {"session"})]
    BY <1>1, <1>2, <2>1, <2>5 DEF TypeOK
  <2>7. TypeOK'
    BY <1>1, <1>2, <2>1, <2>2, <2>4, <2>6 DEF TypeOK, patch, idt, hist
  <2>8. Counted(d)'
    BY <2>1, <2>3 DEF Counted
  <2> QED
    BY <1>1, <2>1, <2>3, <2>7, <2>8, KbdMove DEF TypeOK, idt, DevicePlaces
<1>4. CASE KbdReturn(d)
  <2>1. /\ pc[d] = "done" /\ stack[CPU(d)] # <<>>
        /\ UNCHANGED <<patch, idt, running_state, views, level, ev, reached, swallowed, events, hist>>
        /\ stack' = [stack EXCEPT ![CPU(d)] = SubSeq(stack[CPU(d)], 1, Len(stack[CPU(d)]) - 1)]
        /\ iflag' = [iflag EXCEPT ![CPU(d)] = TRUE] /\ pc' = [pc EXCEPT ![d] = "idle"]
    BY <1>4, NamesAssumption DEF KbdReturn, Runs, If, Goto
  <2>2. SubSeq(stack[CPU(d)], 1, Len(stack[CPU(d)]) - 1) \in Seq(Devices \cup {"session"})
    BY <1>1, <1>2, <2>1, Popped DEF TypeOK
  <2>3. stack' \in [CPUs -> Seq(Devices \cup {"session"})]
    BY <1>1, <1>2, <2>1, <2>2 DEF TypeOK
  <2>4. TypeOK'
    BY <1>1, <1>2, <2>1, <2>3 DEF TypeOK, patch, idt, hist
  <2>5. pc'[d] = "idle" /\ level[d] = 0
    BY <1>1, <2>1 DEF TypeOK, Counted
  <2>6. Counted(d)'
    BY <1>1, <2>1, <2>5 DEF Counted
  <2> QED
    BY <1>1, <2>1, <2>4, <2>5, <2>6, KbdMove DEF TypeOK, idt, DevicePlaces
<1> QED
  BY <1>3, <1>4

\* A session of the debugger.
LEMMA SessionKeepsBase ==
  ASSUME BaseInv, NEW c \in CPUs, SessionStart(c) \/ SessionEnd(c) PROVE BaseInv'
<1>1. TypeOK
  BY DEF BaseInv
<1>2. /\ UNCHANGED <<pc, level, reached, swallowed, is_inited, ori_idtr>>
  BY DEF SessionStart, SessionEnd, idt
<1>3. TypeOK'
  <2>1. CASE SessionStart(c)
    <3>1. Append(stack[c], "session") \in Seq(Devices \cup {"session"})
      BY <1>1 DEF TypeOK
    <3>2. stack' \in [CPUs -> Seq(Devices \cup {"session"})]
      BY <1>1, <2>1, <3>1 DEF SessionStart, TypeOK
    <3> QED
      BY <1>1, <2>1, <3>2 DEF SessionStart, TypeOK, patch, idt
  <2>2. CASE SessionEnd(c)
    <3>1. SubSeq(stack[c], 1, Len(stack[c]) - 1) \in Seq(Devices \cup {"session"})
      BY <1>1, <2>2, Popped DEF SessionEnd, TypeOK
    <3>2. stack' \in [CPUs -> Seq(Devices \cup {"session"})]
      BY <1>1, <2>2, <3>1 DEF SessionEnd, TypeOK
    <3> QED
      BY <1>1, <2>2, <3>2 DEF SessionEnd, TypeOK, patch, hist
  <2> QED
    BY <2>1, <2>2
<1> QED
  BY <1>2, <1>3 DEF BaseInv, Places, Counted, Saved

\* The invariant holds in every step.
LEMMA BaseStep == ASSUME BaseInv, [Next]_vars PROVE BaseInv'
<1>1. CASE UNCHANGED vars
  BY <1>1 DEF vars, patch, idt, irq, hist, BaseInv, TypeOK, Places, Counted, Saved
<1>2. CASE Next
  BY <1>2, ModuleKeepsBase, PatchingKeepsBase, CallKeepsBase, FakeKeepsBase, InterruptKeepsBase,
     SessionKeepsBase
     DEF Next, Handler
<1> QED
  BY <1>1, <1>2

\* The first theorem: for every assignment of keyboards to CPUs, and however the
\* handlers, the sessions, insmod and rmmod interleave, an event that
\* fake_kbd_event and kbd_event have finished with was Linux's or the debugger's.
THEOREM DeliveredOnceAlways == Spec => []DeliveredOnce
<1>1. Init => BaseInv
  BY BaseInit
<1>2. BaseInv /\ [Next]_vars => BaseInv'
  BY BaseStep
<1>3. BaseInv => DeliveredOnce
  BY DEF BaseInv, Counted, DeliveredOnce
<1> QED
  BY <1>1, <1>2, <1>3, PTL DEF Spec

-----------------------------------------------------------------------------
(* What holds if one CPU serves all keyboards.                             *)

Shared == \A d, e \in Devices : CpuOf[d] = CpuOf[e]

\* Between the two stores of a patch, and in an interrupt handler up to the
\* first sti of hook_kbd or of unhook_kbd, interrupts are off.
Critical(p) ==
  \/ pc[p] \in {"unhook2", "patch2"}
  \/ p # "module" /\ pc[p] \in {"fake", "unhook1", "check", "copy", "lidt", "inited", "gate"}
  \/ p # "module" /\ pc[p] = "call" /\ level[p] = 0

Exclusive == \A p \in Procs : Critical(p) => ~iflag[CPU(p)] /\ Top(p)
Present   == \A d \in Devices :
               pc[d] # "idle" => \E i \in 1..Len(stack[CpuOf[d]]) : stack[CpuOf[d]][i] = d

\* Keyboard d is handing its event to Linux: the patch is out, or half of it.
Mid(d) == \/ pc[d] \in {"unhook2", "save", "patch1", "patch2"}
          \/ pc[d] = "call" /\ level[d] > 0
Fresh  == {"init", "save", "patch1", "patch2"} \* the module has not patched yet

CodeInv ==
  /\ \A d, e \in Devices : Mid(d) /\ Mid(e) => d = e
  /\ \A d, e \in Devices : pc[e] \in {"fake", "unhook1"} => ~Mid(d)
  /\ \A d \in Devices : pc[d] = "unhook2" => code.op = "linux"
  /\ \A d \in Devices : Mid(d) /\ pc[d] \notin {"unhook2", "patch2"} => code = LinuxCode
  /\ \A d \in Devices : pc[d] = "patch2" => code.rest = "linux"
  /\ \A d \in Devices : level[d] <= 1
  /\ ori_entry \in {ZeroCode, LinuxCode}
  /\ pc["module"] \notin {"init", "save"} => ori_entry = LinuxCode
  /\ pc["module"] \in {"init", "save", "patch1"} => code = LinuxCode
  /\ pc["module"] = "patch2" => code.rest = "linux"
  /\ pc["module"] \in Fresh =>
       \A d \in Devices : pc[d] \in {"idle", "call", "done", "wild"} /\ level[d] = 0

\* While p is critical nobody else moves on its CPU: a process at the top that
\* moves keeps interrupts off for itself only.
LEMMA MoveBase ==
  ASSUME TypeOK, Exclusive, Present, NEW p \in Procs, NEW to,
         Top(p), p = "module" \/ pc[p] # "idle",
         pc' = [pc EXCEPT ![p] = to], stack' = stack, home' = home,
         \A c \in CPUs : c # CPU(p) => iflag'[c] = iflag[c],
         \A d \in Devices : d # p => level'[d] = level[d],
         Critical(p)' => ~iflag'[CPU(p)]
  PROVE  Exclusive' /\ Present'
<1>1. \A q \in Procs : CPU(q)' = CPU(q) /\ (Top(q)' <=> Top(q))
  BY DEF CPU, Top
<1>2. \A q \in Procs : q # p => pc'[q] = pc[q]
  BY DEF TypeOK
<1>3. Exclusive'
  <2> SUFFICES ASSUME NEW q \in Procs, Critical(q)'
               PROVE  ~iflag'[CPU(q)] /\ Top(q)
    BY <1>1 DEF Exclusive
  <2>1. CASE q = p
    BY <2>1
  <2>2. CASE q # p
    <3>1. Critical(q)
      BY <2>2, <1>2 DEF Critical, Procs
    <3>2. ~iflag[CPU(q)] /\ Top(q)
      BY <3>1 DEF Exclusive
    <3>3. CPU(q) # CPU(p)
      BY <2>2, <3>2, <1>1, TopUnique
    <3> QED
      BY <3>2, <3>3, <1>1, CpuType
  <2> QED
    BY <2>1, <2>2
<1>4. Present'
  <2> SUFFICES ASSUME NEW d \in Devices, pc'[d] # "idle"
               PROVE  \E i \in 1..Len(stack[CpuOf[d]]) : stack[CpuOf[d]][i] = d
    BY DEF Present
  <2>1. d # "module" /\ d \in Procs
    BY NamesAssumption DEF Procs
  <2>2. pc[d] # "idle"
    BY <2>1, <1>2
  <2> QED
    BY <2>2 DEF Present
<1> QED
  BY <1>3, <1>4

\* Popped off and pushed on, a stack keeps whoever is in the middle of something.
LEMMA NestMoves ==
  ASSUME BaseInv, Exclusive, Present, NEW p \in Procs, Patching(p)
  PROVE  Exclusive' /\ Present'
<1>1. TypeOK /\ PatchMove(p)
  BY PatchingMoves DEF BaseInv
<1>2. CPU(p) \in CPUs /\ CPU(p)' = CPU(p) /\ Top(p)
  BY <1>1, CpuType DEF CPU, PatchMove, Moved
<1>3. \A c \in CPUs : c # CPU(p) => iflag'[c] = iflag[c]
  BY <1>1, <1>2 DEF PatchMove, Moved, TypeOK
<1>4. Critical(p)' => ~iflag'[CPU(p)]
  <2>1. \A f : iflag' = [iflag EXCEPT ![CPU(p)] = f] => iflag'[CPU(p)] = f
    BY <1>1, <1>2 DEF TypeOK
  <2>2. p \in Devices => Counted(p)
    BY DEF BaseInv
  <2>3. p = "module" \/ p \in Devices
    BY DEF Procs
  <2>4. Critical(p) => ~iflag[CPU(p)]
    BY DEF Exclusive
  <2>5. CASE /\ pc'[p] \in {"unhook2", "patch2"}
             /\ iflag' = [iflag EXCEPT ![CPU(p)] = FALSE]
    BY <2>1, <2>5
  <2>6. CASE /\ pc[p] \in {"check", "copy", "lidt", "inited"} /\ p # "module"
             /\ iflag' = [iflag EXCEPT ![CPU(p)] = iflag[CPU(p)]]
    BY <2>1, <2>4, <2>6 DEF Critical
  <2>7. CASE pc'[p] = "call" /\ pc[p] = "unhook2" /\ p \in Devices /\ level' = level
    <3>1. level[p] \in Nat /\ level[p] >= 1
      BY <1>1, <2>2, <2>7 DEF Counted, TypeOK
    <3> QED
      BY <2>7, <3>1 DEF Critical
  <2>8. CASE /\ p = "module" \/ pc'[p] \in {"ret", "patch1"}
             /\ pc'[p] \notin {"unhook2", "patch2"}
    BY <2>8 DEF Critical
  <2> QED
    BY <1>1, <2>3, <2>5, <2>6, <2>7, <2>8 DEF PatchMove, Moved, TypeOK
<1>5. p = "module" \/ pc[p] # "idle"
  BY <1>1 DEF PatchMove, Moved
<1>6. /\ \E to : pc' = [pc EXCEPT ![p] = to]
      /\ stack' = stack /\ home' = home /\ level' = level
  BY <1>1 DEF PatchMove, Moved
<1> QED
  BY <1>1, <1>2, <1>3, <1>4, <1>5, <1>6, MoveBase

\* Control in hello_init, hello_exit, kbd_event and fake_kbd_event; where half of
\* a patch is never seen, kbd_event is called by itself with its patch taken out.
LEMMA NestCalls ==
  ASSUME BaseInv, Exclusive, Present, CodeInv, NEW p \in Procs,
         \/ p = "module" /\ Module
         \/ p \in Devices /\ (CallKbdEvent(p) \/ FakeKbdEvent(p) \/ FakeReturn(p))
  PROVE  Exclusive' /\ Present'
<1>1. TypeOK /\ \A d \in Devices : d \in Procs /\ d # "module"
  BY NamesAssumption DEF BaseInv, Procs
<1>2. iflag' = iflag /\ stack' = stack /\ home' = home
  BY DEF Module, LoadUi, LoadDone, RestoreIdt, CleanUi, CallKbdEvent, FakeKbdEvent, FakeReturn,
         irq, hist
<1>3. CPU(p) \in CPUs /\ CPU(p)' = CPU(p)
  BY <1>1, <1>2, CpuType DEF CPU
<1>4. CASE p = "module" /\ Module
  <2>1. /\ Top("module") /\ level' = level
        /\ \E to \in ModulePlaces \ {"unhook2", "patch2"} : pc' = [pc EXCEPT !["module"] = to]
    BY <1>4 DEF Module, LoadUi, LoadDone, RestoreIdt, CleanUi, Runs, Top, Goto, irq, hist,
                ModulePlaces
  <2>2. ~Critical("module")'
    BY <1>1, <1>4, <2>1 DEF Critical, TypeOK, Procs
  <2> QED
    BY <1>1, <1>2, <1>3, <1>4, <2>1, <2>2, MoveBase
<1>5. CASE p \in Devices /\ (CallKbdEvent(p) \/ FakeKbdEvent(p) \/ FakeReturn(p))
  <2>1. Top(p) /\ pc[p] \in {"call", "fake", "ret"}
    BY <1>1, <1>5 DEF CallKbdEvent, FakeKbdEvent, FakeReturn, Runs, Top
  <2>2. \E to : pc' = [pc EXCEPT ![p] = to]
    BY <1>5 DEF CallKbdEvent, FakeKbdEvent, FakeReturn, Goto
  <2>3. \A d \in Devices : d # p => level'[d] = level[d]
    BY <1>1, <1>5 DEF CallKbdEvent, FakeKbdEvent, FakeReturn, TypeOK
  <2>4. Critical(p)' => ~iflag[CPU(p)]
    <3>1. Critical(p) => ~iflag[CPU(p)]
      BY DEF Exclusive
    <3>2. LinuxCode # JmpFake
      BY DEF LinuxCode, JmpFake
    <3>3. CASE CallKbdEvent(p)
      <4>1. pc[p] = "call" /\ (level[p] > 0 => code = LinuxCode) /\ level[p] \in Nat
        BY <1>1, <1>5, <3>3 DEF CallKbdEvent, Runs, CodeInv, Mid, TypeOK
      <4>2. level[p] = 0 => Critical(p)
        BY <1>1, <1>5, <4>1 DEF Critical
      <4>3. level[p] > 0 => pc' = [pc EXCEPT ![p] = "save"]
        BY <3>2, <3>3, <4>1 DEF CallKbdEvent, Goto, Back
      <4> QED
        BY <1>1, <1>5, <3>1, <4>1, <4>2, <4>3 DEF Critical, TypeOK
    <3>4. CASE FakeKbdEvent(p)
      <4>1. pc[p] = "fake"
        BY <3>4 DEF FakeKbdEvent, Runs
      <4> QED
        BY <1>1, <1>5, <3>1, <4>1 DEF Critical
    <3>5. CASE FakeReturn(p)
      <4>1. pc' = [pc EXCEPT ![p] = "save"] \/ pc' = [pc EXCEPT ![p] = "done"]
        BY <3>5 DEF FakeReturn, Goto, Back
      <4> QED
        BY <1>1, <4>1 DEF Critical, TypeOK
    <3> QED
      BY <1>5, <3>3, <3>4, <3>5
  <2> QED
    BY <1>1, <1>2, <1>3, <2>1, <2>2, <2>3, <2>4, MoveBase
<1> QED
  BY <1>4, <1>5

\* Interrupts and sessions begin where interrupts are on, so on top of nobody
\* who is critical, and end at the top.
LEMMA NestStacks ==
  ASSUME BaseInv, Exclusive, Present, NEW c \in CPUs,
         \/ \E d \in Devices : c = CPU(d) /\ (KbdInterrupt(d) \/ KbdReturn(d))
         \/ SessionStart(c) \/ SessionEnd(c)
  PROVE  Exclusive' /\ Present'
<1>1. TypeOK /\ \A d \in Devices : d \in Procs /\ d # "module" /\ d # "session" /\ CPU(d) = CpuOf[d]
  BY NamesAssumption DEF BaseInv, Procs, CPU
<1>2. /\ \A a \in CPUs : a # c => stack'[a] = stack[a] /\ iflag'[a] = iflag[a]
      /\ level' = level /\ home' = home
  BY <1>1 DEF KbdInterrupt, KbdReturn, SessionStart, SessionEnd, If, TypeOK, hist
<1>3. stack[c] \in Seq(Devices \cup {"session"}) /\ iflag[c] \in BOOLEAN
  BY <1>1 DEF TypeOK
<1>4. \A q \in Procs : CPU(q)' = CPU(q) /\ CPU(q) \in CPUs
  BY <1>1, <1>2, CpuType DEF CPU
<1>5. ASSUME NEW q \in Procs, CPU(q) # c, pc'[q] = pc[q]
      PROVE  Critical(q)' => ~iflag'[CPU(q)] /\ Top(q)'
  <2>1. Critical(q)' => Critical(q)
    BY <1>2, <1>5 DEF Critical
  <2>2. Top(q) => Top(q)'
    BY <1>2, <1>4, <1>5 DEF Top, CPU
  <2> QED
    BY <1>2, <1>4, <1>5, <2>1, <2>2 DEF Exclusive
<1>6. CASE \E d \in Devices : c = CPU(d) /\ KbdInterrupt(d)
  <2>1. PICK d \in Devices : c = CPU(d) /\ KbdInterrupt(d)
    BY <1>6
  <2>2. /\ iflag[c] /\ iflag'[c] = FALSE /\ stack'[c] = Append(stack[c], d) /\ pc'[d] = "call"
        /\ \A q \in Procs : q # d => pc'[q] = pc[q]
    BY <1>1, <1>3, <2>1 DEF KbdInterrupt, If, Goto, TypeOK
  <2>3. /\ Len(Append(stack[c], d)) = Len(stack[c]) + 1
        /\ Append(stack[c], d)[Len(stack[c]) + 1] = d
        /\ \A i \in 1..Len(stack[c]) : Append(stack[c], d)[i] = stack[c][i]
        /\ Len(stack[c]) \in Nat /\ Append(stack[c], d) # <<>>
    BY <1>3
  <2>4. Top(d)'
    BY <1>1, <1>4, <2>1, <2>2, <2>3 DEF Top
  <2>5. \A q \in Procs : q # d /\ CPU(q) = c => ~Critical(q)'
    <3>1. \A q \in Procs : CPU(q) = c => ~Critical(q)
      BY <2>2 DEF Exclusive
    <3> QED
      BY <1>2, <2>2, <3>1 DEF Critical
  <2>6. Exclusive'
    BY <1>1, <1>4, <1>5, <2>1, <2>2, <2>4, <2>5 DEF Exclusive
  <2>7. Present'
    <3> SUFFICES ASSUME NEW e \in Devices, pc'[e] # "idle"
                 PROVE  \E i \in 1..Len(stack'[CpuOf[e]]) : stack'[CpuOf[e]][i] = e
      BY DEF Present
    <3>1. CASE e = d
      <4>1. Len(stack[c]) + 1 \in 1..Len(stack'[c])
        BY <2>2, <2>3
      <4> QED
        BY <1>1, <2>1, <2>2, <2>3, <3>1, <4>1
    <3>2. CASE e # d
      <4>1. PICK i \in 1..Len(stack[CpuOf[e]]) : stack[CpuOf[e]][i] = e
        BY <1>1, <2>2, <3>2 DEF Present
      <4>2. CASE CpuOf[e] = c
        <5>1. i \in 1..Len(stack'[c])
          BY <2>2, <2>3, <4>1, <4>2
        <5> QED
          BY <2>2, <2>3, <4>1, <4>2, <5>1, SMTT(20)
      <4>3. CASE CpuOf[e] # c
        BY <1>1, <1>2, <1>4, <4>1, <4>3
      <4> QED
        BY <4>2, <4>3
    <3> QED
      BY <3>1, <3>2
  <2> QED
    BY <2>6, <2>7
<1>7. CASE \E d \in Devices : c = CPU(d) /\ KbdReturn(d)
  <2>1. PICK d \in Devices : c = CPU(d) /\ KbdReturn(d)
    BY <1>7
  <2>2. /\ Top(d) /\ stack[c] # <<>> /\ stack[c][Len(stack[c])] = d /\ pc[d] = "done"
        /\ stack'[c] = SubSeq(stack[c], 1, Len(stack[c]) - 1) /\ pc'[d] = "idle"
        /\ \A q \in Procs : q # d => pc'[q] = pc[q]
    BY <1>1, <1>3, <2>1 DEF KbdReturn, Runs, If, Goto, TypeOK, Top
  <2>3. \A q \in Procs : CPU(q) = c => ~Critical(q)'
    <3>1. ~Critical(d) /\ ~Critical(d)'
      BY <1>1, <2>2 DEF Critical
    <3>2. \A q \in Procs : CPU(q) = c /\ q # d => ~Critical(q)
      BY <1>1, <2>1, <2>2, TopUnique DEF Exclusive
    <3>3. \A q \in Procs : CPU(q) = c /\ q # d => ~Critical(q)'
      BY <1>2, <2>2, <3>2 DEF Critical
    <3> QED
      BY <3>1, <3>3
  <2>4. Exclusive'
    BY <1>4, <1>5, <2>1, <2>2, <2>3 DEF Exclusive
  <2>5. Present'
    <3> SUFFICES ASSUME NEW e \in Devices, pc'[e] # "idle"
                 PROVE  \E i \in 1..Len(stack'[CpuOf[e]]) : stack'[CpuOf[e]][i] = e
      BY DEF Present
    <3>1. e # d /\ pc[e] # "idle"
      BY <1>1, <2>2
    <3>2. PICK i \in 1..Len(stack[CpuOf[e]]) : stack[CpuOf[e]][i] = e
      BY <3>1 DEF Present
    <3>3. CASE CpuOf[e] = c
      BY <1>3, <2>2, <3>1, <3>2, <3>3, Popped
    <3>4. CASE CpuOf[e] # c
      BY <1>1, <1>2, <1>4, <3>2, <3>4
    <3> QED
      BY <3>3, <3>4
  <2> QED
    BY <2>4, <2>5
<1>8. CASE SessionStart(c)
  <2>1. /\ iflag[c] /\ iflag' = iflag /\ stack'[c] = Append(stack[c], "session") /\ pc' = pc
    BY <1>1, <1>8 DEF SessionStart, TypeOK
  <2>2. /\ Len(Append(stack[c], "session")) = Len(stack[c]) + 1
        /\ \A i \in 1..Len(stack[c]) : Append(stack[c], "session")[i] = stack[c][i]
        /\ Len(stack[c]) \in Nat
    BY <1>3
  <2>3. \A q \in Procs : CPU(q) = c => ~Critical(q)
    BY <2>1 DEF Exclusive
  <2>4. \A q \in Procs : CPU(q) = c => ~Critical(q)'
    BY <1>2, <2>1, <2>3 DEF Critical
  <2>5. Exclusive'
    BY <1>4, <1>5, <2>1, <2>4 DEF Exclusive
  <2>6. Present'
    <3> SUFFICES ASSUME NEW e \in Devices, pc'[e] # "idle"
                 PROVE  \E i \in 1..Len(stack'[CpuOf[e]]) : stack'[CpuOf[e]][i] = e
      BY DEF Present
    <3>1. PICK i \in 1..Len(stack[CpuOf[e]]) : stack[CpuOf[e]][i] = e
      BY <2>1 DEF Present
    <3>2. CASE CpuOf[e] = c
      <4>1. i \in 1..Len(stack'[c])
        BY <2>1, <2>2, <3>1, <3>2
      <4> QED
        BY <2>1, <2>2, <3>1, <3>2, <4>1
    <3>3. CASE CpuOf[e] # c
      BY <1>1, <1>2, <1>4, <3>1, <3>3
    <3> QED
      BY <3>2, <3>3
  <2> QED
    BY <2>5, <2>6
<1>9. CASE SessionEnd(c)
  <2>1. /\ iflag' = iflag /\ pc' = pc /\ stack[c] # <<>> /\ stack[c][Len(stack[c])] = "session"
        /\ stack'[c] = SubSeq(stack[c], 1, Len(stack[c]) - 1)
    BY <1>1, <1>9 DEF SessionEnd, TypeOK
  <2>2. \A q \in Procs : CPU(q) = c => ~Critical(q)
    <3>1. \A q \in Procs : CPU(q) = c => ~Top(q)
      BY <1>1, <2>1 DEF Top, Procs, CPU
    <3> QED
      BY <3>1 DEF Exclusive
  <2>3. \A q \in Procs : CPU(q) = c => ~Critical(q)'
    BY <1>2, <2>1, <2>2 DEF Critical
  <2>4. Exclusive'
    BY <1>4, <1>5, <2>1, <2>3 DEF Exclusive
  <2>5. Present'
    <3> SUFFICES ASSUME NEW e \in Devices, pc'[e] # "idle"
                 PROVE  \E i \in 1..Len(stack'[CpuOf[e]]) : stack'[CpuOf[e]][i] = e
      BY DEF Present
    <3>1. PICK i \in 1..Len(stack[CpuOf[e]]) : stack[CpuOf[e]][i] = e
      BY <2>1 DEF Present
    <3>2. CASE CpuOf[e] = c
      BY <1>1, <1>3, <2>1, <3>1, <3>2, Popped
    <3>3. CASE CpuOf[e] # c
      BY <1>1, <1>2, <1>4, <3>1, <3>3
    <3> QED
      BY <3>2, <3>3
  <2> QED
    BY <2>4, <2>5
<1> QED
  BY <1>6, <1>7, <1>8, <1>9

\* The patched bytes, opcode and offset.
LEMMA CodeParts ==
  ASSUME NEW c \in Codes
  PROVE  /\ c = LinuxCode <=> c.op = "linux" /\ c.rest = "linux"
         /\ c = JmpFake <=> c.op = "jmp" /\ c.rest = "fake"
         /\ \A o \in {"zero", "linux", "jmp"} :
              [c EXCEPT !.op = o].op = o /\ [c EXCEPT !.op = o].rest = c.rest
         /\ \A r \in {"zero", "linux", "fake"} :
              [c EXCEPT !.rest = r].rest = r /\ [c EXCEPT !.rest = r].op = c.op
  BY DEF Codes, LinuxCode, JmpFake

\* While one keyboard's handler moves, no other on its CPU is critical.
LEMMA Alone ==
  ASSUME Shared, TypeOK, Exclusive, NEW d \in Devices, NEW e \in Devices, Top(d), e # d
  PROVE  /\ pc[e] \notin {"unhook2", "patch2", "fake", "unhook1", "check", "copy", "lidt", "inited",
                          "gate"}
         /\ ~(pc[e] = "call" /\ level[e] = 0)
<1>1. d \in Procs /\ e \in Procs /\ d # "module" /\ e # "module"
  BY NamesAssumption DEF Procs
<1>2. CPU(d) = CPU(e)
  BY <1>1 DEF CPU, Shared
<1>3. ~Critical(e)
  BY <1>1, <1>2, TopUnique DEF Exclusive
<1> QED
  BY <1>1, <1>3 DEF Critical

\* Every step keeps the patch whole as far as the keyboards can tell: the steps
\* that leave the code alone, and those of the module.
LEMMA CodeModule ==
  ASSUME BaseInv, CodeInv, Module \/ Patching("module") PROVE CodeInv'
<1>1. TypeOK /\ "module" \in Procs /\ \A d \in Devices : d \in Procs /\ d # "module"
  BY NamesAssumption DEF BaseInv, Procs
<1>2. /\ \E to : pc' = [pc EXCEPT !["module"] = to]
      /\ level' = level
  BY DEF Module, LoadUi, LoadDone, RestoreIdt, CleanUi, Patching, Unhook1, Unhook2, Save, Patch1,
         Patch2, HookIdt, CopyIdt, LoadIdtr, SetInited, SetGate, Goto, irq
<1>3. \A d \in Devices : pc'[d] = pc[d] /\ level'[d] = level[d] /\ (Mid(d)' <=> Mid(d))
  BY <1>1, <1>2 DEF TypeOK, Mid
<1>4. code \in Codes /\ ori_entry \in Codes
  BY <1>1 DEF TypeOK
<1>5. /\ code = LinuxCode <=> code.op = "linux" /\ code.rest = "linux"
      /\ ori_entry = LinuxCode <=> ori_entry.op = "linux" /\ ori_entry.rest = "linux"
  BY <1>4, CodeParts
<1>6. CASE Unhook1("module")
  <2>1. /\ pc["module"] = "unhook1" /\ pc'["module"] = "unhook2" /\ ori_entry' = ori_entry
        /\ code' = [code EXCEPT !.op = ori_entry.op] /\ ori_entry = LinuxCode
    BY <1>1, <1>6 DEF Unhook1, Runs, Goto, TypeOK, CodeInv
  <2>2. code' \in Codes /\ code'.op = "linux" /\ code'.rest = code.rest
    BY <1>4, <1>5, <2>1, CodeParts DEF Codes
  <2>3. code' = LinuxCode <=> code'.op = "linux" /\ code'.rest = "linux"
    BY <2>2, CodeParts
  <2> QED
    BY <1>3, <1>5, <2>1, <2>2, <2>3 DEF CodeInv, Fresh
<1>7. CASE Unhook2("module")
  <2>1. /\ pc["module"] = "unhook2" /\ pc'["module"] = "clean" /\ ori_entry' = ori_entry
        /\ code' = [code EXCEPT !.rest = ori_entry.rest] /\ ori_entry = LinuxCode
    BY <1>1, <1>7 DEF Unhook2, Runs, Goto, TypeOK, CodeInv
  <2>2. code' \in Codes /\ code'.rest = "linux" /\ code'.op = code.op
    BY <1>4, <1>5, <2>1, CodeParts DEF Codes
  <2>3. code' = LinuxCode <=> code'.op = "linux" /\ code'.rest = "linux"
    BY <2>2, CodeParts
  <2> QED
    BY <1>3, <1>5, <2>1, <2>2, <2>3 DEF CodeInv, Fresh
<1>8. CASE Save("module")
  <2>1. /\ pc["module"] = "save" /\ pc'["module"] = "patch1" /\ ori_entry' = code
        /\ code' = code /\ code = LinuxCode
    BY <1>1, <1>8 DEF Save, Runs, Goto, TypeOK, CodeInv
  <2> QED
    BY <1>3, <2>1 DEF CodeInv, Fresh
<1>9. CASE Patch1("module")
  <2>1. /\ pc["module"] = "patch1" /\ pc'["module"] = "patch2" /\ ori_entry' = ori_entry
        /\ code' = [code EXCEPT !.op = "jmp"] /\ code = LinuxCode
    BY <1>1, <1>9 DEF Patch1, Runs, Goto, TypeOK, CodeInv
  <2>2. code'.rest = "linux"
    BY <1>4, <1>5, <2>1, CodeParts
  <2>3. \A d \in Devices : ~Mid(d) /\ pc[d] \notin {"unhook2", "patch2", "fake", "unhook1"}
    BY <2>1 DEF CodeInv, Fresh, Mid
  <2> QED
    BY <1>3, <2>1, <2>2, <2>3 DEF CodeInv, Fresh
<1>10. CASE Patch2("module")
  <2>1. /\ pc["module"] = "patch2" /\ pc'["module"] = "check" /\ ori_entry' = ori_entry
        /\ ori_entry = LinuxCode
    BY <1>1, <1>10 DEF Patch2, Runs, Goto, TypeOK, CodeInv
  <2>2. \A d \in Devices : ~Mid(d) /\ pc[d] \notin {"unhook2", "patch2", "fake", "unhook1"}
    BY <2>1 DEF CodeInv, Fresh, Mid
  <2> QED
    BY <1>3, <2>1, <2>2 DEF CodeInv, Fresh
<1>11. CASE LoadUi
  <2>1. /\ pc["module"] = "init" /\ pc'["module"] = "save" /\ ori_entry' = ori_entry /\ code' = code
    BY <1>1, <1>11 DEF LoadUi, Runs, Goto, TypeOK, patch
  <2> QED
    BY <1>3, <2>1 DEF CodeInv, Fresh
<1>12. CASE /\ ~LoadUi /\ ~Save("module") /\ ~Patch1("module") /\ ~Patch2("module")
            /\ ~Unhook1("module") /\ ~Unhook2("module")
  <2>1. pc["module"] \notin Fresh /\ pc'["module"] \notin Fresh /\ UNCHANGED <<code, ori_entry>>
    BY <1>1, <1>12, ZenonT(40) DEF Module, LoadDone, RestoreIdt, CleanUi, Patching, HookIdt, CopyIdt, LoadIdtr,
                       SetInited, SetGate, Goto, Runs, Fresh, TypeOK, patch
  <2>2. pc["module"] \notin {"init", "save"} /\ ori_entry = LinuxCode
    BY <2>1 DEF CodeInv, Fresh
  <2> QED
    BY <1>3, <2>1, <2>2 DEF CodeInv, Fresh
<1> QED
  BY <1>6, <1>7, <1>8, <1>9, <1>10, <1>11, <1>12

\* The keyboards' own patching: only one of them is in the middle of it.
LEMMA CodePatching ==
  ASSUME Shared, BaseInv, Exclusive, CodeInv, NEW d \in Devices, Patching(d) PROVE CodeInv'
<1>1. TypeOK /\ "module" \in Procs /\ \A e \in Devices : e \in Procs /\ e # "module"
  BY NamesAssumption DEF BaseInv, Procs
<1>2. PatchMove(d)
  BY <1>1, PatchingMoves
<1>3. /\ Top(d) /\ level' = level /\ pc'["module"] = pc["module"]
      /\ \A e \in Devices : e # d => pc'[e] = pc[e]
  BY <1>1, <1>2 DEF PatchMove, Moved, TypeOK
<1>4. \A e \in Devices : e # d => pc[e] \notin {"unhook2", "patch2", "fake", "unhook1"}
  BY <1>1, <1>3, Alone
<1>5. code \in Codes /\ ori_entry \in Codes /\ level[d] \in Nat /\ Counted(d)
  BY <1>1 DEF TypeOK, BaseInv
<1>6. /\ code = LinuxCode <=> code.op = "linux" /\ code.rest = "linux"
      /\ ori_entry = LinuxCode <=> ori_entry.op = "linux" /\ ori_entry.rest = "linux"
  BY <1>5, CodeParts
<1>7. /\ pc["module"] \notin Fresh /\ ori_entry = LinuxCode
      /\ pc["module"] \notin {"init", "save", "patch1", "patch2"}
  BY <1>2, <1>3 DEF PatchMove, Moved, CodeInv, Fresh
<1>8. \A e \in Devices : e # d => (Mid(e)' <=> Mid(e))
  BY <1>3 DEF Mid
<1>9. CASE Unhook1(d)
  <2>1. /\ pc[d] = "unhook1" /\ pc'[d] = "unhook2" /\ ori_entry' = ori_entry
        /\ code' = [code EXCEPT !.op = ori_entry.op]
    BY <1>1, <1>9 DEF Unhook1, Runs, Goto, TypeOK
  <2>2. code'.op = "linux"
    BY <1>5, <1>6, <1>7, <2>1, CodeParts
  <2>3. \A e \in Devices : ~Mid(e)
    BY <2>1 DEF CodeInv
  <2> QED
    BY <1>3, <1>4, <1>7, <1>8, <2>1, <2>2, <2>3 DEF CodeInv, Fresh
<1>10. CASE Unhook2(d)
  <2>1. /\ pc[d] = "unhook2" /\ pc'[d] = "call" /\ ori_entry' = ori_entry
        /\ code' = [code EXCEPT !.rest = ori_entry.rest] /\ code.op = "linux"
    BY <1>1, <1>10 DEF Unhook2, Runs, Goto, TypeOK, CodeInv
  <2>2. code' \in Codes /\ code'.op = "linux" /\ code'.rest = "linux"
    BY <1>5, <1>6, <1>7, <2>1, CodeParts DEF Codes
  <2>3. code' = LinuxCode
    BY <2>2, CodeParts
  <2>4. \A e \in Devices : e # d => ~Mid(e)
    BY <2>1 DEF CodeInv, Mid
  <2> QED
    BY <1>3, <1>4, <1>7, <1>8, <2>1, <2>3, <2>4 DEF CodeInv, Fresh
<1>11. CASE Save(d)
  <2>1. /\ pc[d] = "save" /\ pc'[d] = "patch1" /\ ori_entry' = code /\ code' = code
        /\ Mid(d) /\ code = LinuxCode
    BY <1>1, <1>11 DEF Save, Runs, Goto, TypeOK, CodeInv, Mid
  <2>2. Mid(d)'
    BY <2>1 DEF Mid
  <2> QED
    BY <1>3, <1>4, <1>7, <1>8, <2>1, <2>2 DEF CodeInv, Fresh
<1>12. CASE Patch1(d)
  <2>1. /\ pc[d] = "patch1" /\ pc'[d] = "patch2" /\ ori_entry' = ori_entry
        /\ code' = [code EXCEPT !.op = "jmp"] /\ Mid(d) /\ code = LinuxCode
    BY <1>1, <1>12 DEF Patch1, Runs, Goto, TypeOK, CodeInv, Mid
  <2>2. code'.rest = "linux"
    BY <1>5, <1>6, <2>1, CodeParts
  <2>3. \A e \in Devices : e # d => ~Mid(e)
    BY <2>1 DEF CodeInv
  <2>4. Mid(d)'
    BY <2>1 DEF Mid
  <2> QED
    BY <1>3, <1>4, <1>7, <1>8, <2>1, <2>2, <2>3, <2>4 DEF CodeInv, Fresh
<1>13. CASE Patch2(d)
  <2>1. pc[d] = "patch2" /\ pc'[d] = "ret" /\ ori_entry' = ori_entry /\ Mid(d)
    BY <1>1, <1>13 DEF Patch2, Runs, Goto, TypeOK, Mid
  <2>2. \A e \in Devices : ~Mid(e)'
    BY <1>8, <2>1 DEF CodeInv, Mid
  <2> QED
    BY <1>3, <1>4, <1>7, <1>8, <2>1, <2>2 DEF CodeInv, Fresh
<1>14. CASE HookIdt(d) \/ CopyIdt(d) \/ LoadIdtr(d) \/ SetInited(d) \/ SetGate(d)
  <2>1. /\ pc[d] \in {"check", "copy", "lidt", "inited", "gate"}
        /\ pc'[d] \in {"copy", "lidt", "inited", "gate", "ret"}
        /\ ori_entry' = ori_entry /\ code' = code
    BY <1>1, <1>14 DEF HookIdt, CopyIdt, LoadIdtr, SetInited, SetGate, Runs, Goto, TypeOK, patch
  <2>2. ~Mid(d)' /\ ~Mid(d)
    BY <2>1 DEF Mid
  <2> QED
    BY <1>3, <1>4, <1>7, <1>8, <2>1, <2>2 DEF CodeInv, Fresh
<1> QED
  BY <1>9, <1>10, <1>11, <1>12, <1>13, <1>14 DEF Patching

\* The calls: kbd_event is called with the jump in it only from outside.
LEMMA CodeCalls ==
  ASSUME Shared, BaseInv, Exclusive, CodeInv, NEW d \in Devices,
         CallKbdEvent(d) \/ FakeKbdEvent(d) \/ FakeReturn(d)
  PROVE  CodeInv'
<1>1. TypeOK /\ "module" \in Procs /\ \A e \in Devices : e \in Procs /\ e # "module"
  BY NamesAssumption DEF BaseInv, Procs
<1>2. /\ Top(d) /\ pc'["module"] = pc["module"] /\ UNCHANGED <<code, ori_entry>>
      /\ \A e \in Devices : e # d => pc'[e] = pc[e] /\ level'[e] = level[e]
  BY <1>1 DEF CallKbdEvent, FakeKbdEvent, FakeReturn, Runs, Top, Goto, TypeOK, patch
<1>3. \A e \in Devices : e # d => pc[e] \notin {"unhook2", "patch2", "fake", "unhook1"}
  BY <1>1, <1>2, Alone
<1>4. code \in Codes /\ level[d] \in Nat /\ Counted(d) /\ LinuxCode # JmpFake
  BY <1>1 DEF TypeOK, BaseInv, LinuxCode, JmpFake
<1>5. /\ code = LinuxCode <=> code.op = "linux" /\ code.rest = "linux"
      /\ code = JmpFake <=> code.op = "jmp" /\ code.rest = "fake"
  BY <1>4, CodeParts
<1>6. \A e \in Devices : e # d => (Mid(e)' <=> Mid(e))
  BY <1>2 DEF Mid
<1>7. CASE CallKbdEvent(d)
  <2>1. pc[d] = "call" /\ (level[d] > 0 => Mid(d) /\ code = LinuxCode)
    BY <1>7 DEF CallKbdEvent, Runs, CodeInv, Mid
  <2>2. CASE code = LinuxCode
    <3>1. level' = level /\ pc'[d] = IF level[d] = 0 THEN "done" ELSE "save"
      BY <1>1, <1>4, <1>7, <2>2 DEF CallKbdEvent, Goto, Back, TypeOK
    <3>2. Mid(d)' => Mid(d)
      BY <1>4, <2>1, <3>1 DEF Mid
    <3> QED
      BY <1>2, <1>3, <1>4, <1>6, <2>1, <2>2, <3>1, <3>2 DEF CodeInv, Fresh
  <2>3. CASE code = JmpFake /\ level[d] < MaxCalls
    <3>1. level[d] = 0 /\ level'[d] = 1 /\ pc'[d] = "fake"
      BY <1>1, <1>4, <1>7, <2>1, <2>3 DEF CallKbdEvent, Goto, TypeOK
    <3>2. \A e \in Devices : e # d => ~Mid(e)
      BY <1>3, <1>4, <2>3 DEF CodeInv
    <3>3. ~Mid(d)'
      BY <3>1 DEF Mid
    <3>4. pc["module"] \notin Fresh
      BY <1>5, <1>4, <2>3 DEF CodeInv, Fresh
    <3> QED
      BY <1>2, <1>3, <1>6, <3>1, <3>2, <3>3, <3>4 DEF CodeInv
  <2>4. CASE code # LinuxCode /\ ~(code = JmpFake /\ level[d] < MaxCalls)
    <3>1. level[d] = 0 /\ level' = level /\ pc'[d] = "wild"
      BY <1>1, <1>4, <1>7, <2>1, <2>4 DEF CallKbdEvent, Goto, TypeOK
    <3>2. ~Mid(d)'
      BY <3>1 DEF Mid
    <3> QED
      BY <1>2, <1>3, <1>6, <3>1, <3>2 DEF CodeInv, Fresh
  <2> QED
    BY <2>2, <2>3, <2>4
<1>8. CASE FakeKbdEvent(d)
  <2>1. pc[d] = "fake" /\ pc'[d] \in {"check", "ret", "unhook1"} /\ level' = level
    BY <1>1, <1>8 DEF FakeKbdEvent, Runs, Goto, TypeOK
  <2>2. ~Mid(d)' /\ \A e \in Devices : ~Mid(e)
    BY <2>1 DEF Mid, CodeInv
  <2>3. pc["module"] \notin Fresh
    BY <2>1 DEF CodeInv
  <2> QED
    BY <1>2, <1>3, <1>6, <2>1, <2>2, <2>3 DEF CodeInv
<1>9. CASE FakeReturn(d)
  <2>1. pc[d] = "ret" /\ level[d] = 1 /\ level'[d] = 0 /\ pc'[d] = "done"
    BY <1>1, <1>4, <1>9 DEF FakeReturn, Runs, Goto, Back, TypeOK, Counted, CodeInv
  <2>2. ~Mid(d)'
    BY <2>1 DEF Mid
  <2>3. pc["module"] \notin Fresh
    BY <2>1 DEF CodeInv
  <2> QED
    BY <1>2, <1>3, <1>6, <2>1, <2>2, <2>3 DEF CodeInv
<1> QED
  BY <1>7, <1>8, <1>9

\* Interrupts and sessions touch neither.
LEMMA CodeStacks ==
  ASSUME BaseInv, CodeInv,
         \/ \E d \in Devices : KbdInterrupt(d) \/ KbdReturn(d)
         \/ \E c \in CPUs : SessionStart(c) \/ SessionEnd(c)
  PROVE  CodeInv'
<1>1. TypeOK /\ "module" \in Procs /\ \A e \in Devices : e \in Procs /\ e # "module"
  BY NamesAssumption DEF BaseInv, Procs
<1>2. UNCHANGED <<code, ori_entry, level>>
  BY DEF KbdInterrupt, KbdReturn, SessionStart, SessionEnd, patch
<1>3. CASE pc' = pc
  BY <1>2, <1>3 DEF CodeInv, Mid, Fresh
<1>4. CASE \E d \in Devices : KbdInterrupt(d) \/ KbdReturn(d)
  <2>1. PICK d \in Devices : KbdInterrupt(d) \/ KbdReturn(d)
    BY <1>4
  <2>2. /\ pc[d] \in {"idle", "done"} /\ pc'[d] \in {"call", "idle"}
        /\ \A q \in Procs : q # d => pc'[q] = pc[q]
    BY <1>1, <2>1 DEF KbdInterrupt, KbdReturn, Runs, Goto, TypeOK
  <2>3. level[d] = 0
    BY <2>2 DEF BaseInv, Counted
  <2>4. \A e \in Devices : Mid(e)' => Mid(e) /\ pc'[e] = pc[e]
    BY <1>1, <1>2, <2>2, <2>3 DEF Mid
  <2>5. pc'["module"] = pc["module"]
    BY <1>1, <2>2
  <2>6. \A e \in Devices : pc'[e] # pc[e] => pc'[e] \in {"call", "idle"}
    BY <1>1, <2>2
  <2>7. pc'["module"] \in Fresh =>
          \A e \in Devices : pc'[e] \in {"idle", "call", "done", "wild"} /\ level'[e] = 0
    BY <1>2, <2>5, <2>6 DEF CodeInv
  <2> QED
    BY <1>2, <2>4, <2>5, <2>6, <2>7 DEF CodeInv
<1> QED
  BY <1>3, <1>4 DEF SessionStart, SessionEnd

SharedInv == BaseInv /\ Exclusive /\ Present /\ CodeInv

\* The invariant for keyboards on one CPU holds at first and in every step.
LEMMA SharedInit == ASSUME Init PROVE SharedInv
<1>1. \A d \in Devices : d # "module" /\ d \in Procs
  BY NamesAssumption DEF Procs
<1>2. /\ pc["module"] = "init" /\ \A d \in Devices : pc[d] = "idle" /\ level[d] = 0
      /\ code = LinuxCode /\ ori_entry = ZeroCode
  BY <1>1 DEF Init, Procs
<1>3. Exclusive /\ Present
  BY <1>1, <1>2 DEF Exclusive, Present, Critical, Procs
<1>4. CodeInv
  BY <1>2 DEF CodeInv, Mid
<1> QED
  BY <1>3, <1>4, BaseInit DEF SharedInv

LEMMA SharedStep == ASSUME Shared, SharedInv, [Next]_vars PROVE SharedInv'
<1> USE DEF SharedInv
<1>1. BaseInv'
  BY BaseStep
<1>2. CASE UNCHANGED vars
  <2>1. UNCHANGED <<pc, level, stack, iflag, home, code, ori_entry>>
    BY <1>2 DEF vars, patch, irq, hist
  <2> QED
    BY <1>1, <2>1 DEF Exclusive, Present, Critical, CPU, Top, CodeInv, Mid
<1>3. CASE Module
  BY <1>1, <1>3, NestCalls, CodeModule DEF Procs
<1>4. ASSUME NEW p \in Procs, Patching(p) PROVE SharedInv'
  <2>1. CASE p = "module"
    BY <1>1, <1>4, <2>1, NestMoves, CodeModule
  <2>2. CASE p \in Devices
    BY <1>1, <1>4, <2>2, NestMoves, CodePatching
  <2> QED
    BY <2>1, <2>2 DEF Procs
<1>5. ASSUME NEW d \in Devices, KbdInterrupt(d) \/ Handler(d) PROVE SharedInv'
  <2>1. d \in Procs /\ CPU(d) \in CPUs
    BY CpuType DEF Procs, BaseInv
  <2>2. CASE KbdInterrupt(d) \/ KbdReturn(d)
    BY <1>1, <2>1, <2>2, NestStacks, CodeStacks
  <2>3. CASE CallKbdEvent(d) \/ FakeKbdEvent(d) \/ FakeReturn(d)
    BY <1>1, <2>1, <2>3, NestCalls, CodeCalls
  <2> QED
    BY <1>5, <2>2, <2>3 DEF Handler
<1>6. ASSUME NEW c \in CPUs, SessionStart(c) \/ SessionEnd(c) PROVE SharedInv'
  BY <1>1, <1>6, NestStacks, CodeStacks
<1> QED
  BY <1>2, <1>3, <1>4, <1>5, <1>6 DEF Next

-----------------------------------------------------------------------------
(* What holds if the module is loaded and unloaded on that CPU.            *)

WholeInv ==
  /\ \A d \in Devices : pc[d] # "wild"
  /\ \A p \in Procs : pc[p] = "patch2" => code.op = "jmp"
  /\ pc["module"] = "unhook2" => code.op = "linux"
  /\ (\A p \in Procs : pc[p] \notin {"unhook2", "patch2"}) => code \in {LinuxCode, JmpFake}
  /\ pc["module"] \in {"clean", "gone"} =>
       code = LinuxCode /\ \A d \in Devices : pc[d] \in {"idle", "call", "done"} /\ level[d] = 0

\* On one CPU only one process is at the top, and insmod and rmmod run when no
\* handler does.
LEMMA OneTop ==
  ASSUME OneCpu, SharedInv, NEW p \in Procs, Top(p)
  PROVE  /\ Shared /\ \A q \in Procs : q # p => ~Critical(q)
         /\ p = "module" => \A d \in Devices : pc[d] = "idle" /\ level[d] = 0
<1>1. TypeOK /\ Exclusive /\ Present /\ \A d \in Devices : d \in Procs /\ d # "module" /\ Counted(d)
  BY NamesAssumption DEF SharedInv, BaseInv, Procs
<1>2. \A q \in Procs : CPU(q) = home
  BY DEF OneCpu, CPU, Procs
<1>3. \A q \in Procs : q # p => ~Critical(q)
  BY <1>1, <1>2, TopUnique DEF Exclusive
<1>4. ASSUME p = "module", NEW d \in Devices PROVE pc[d] = "idle" /\ level[d] = 0
  <2>1. stack[CpuOf[d]] = <<>>
    BY <1>4 DEF Top, OneCpu
  <2>2. ~ \E i \in 1..Len(stack[CpuOf[d]]) : stack[CpuOf[d]][i] = d
    BY <2>1
  <2>3. pc[d] = "idle"
    BY <1>1, <2>2 DEF Present
  <2> QED
    BY <1>1, <2>3 DEF Counted
<1>5. Shared
  BY DEF OneCpu, Shared
<1> QED
  BY <1>3, <1>4, <1>5

\* The code that a step of hook_kbd or of unhook_kbd leaves is the half, or the
\* whole, that the place it leads to stands for.
LEMMA WholePatching ==
  ASSUME OneCpu, SharedInv, WholeInv, NEW p \in Procs, Patching(p)
  PROVE  WholeInv'
<1>1. /\ TypeOK /\ CodeInv /\ "module" \in Procs
      /\ \A e \in Devices : e \in Procs /\ e # "module"
  BY NamesAssumption DEF SharedInv, BaseInv, Procs
<1>2. PatchMove(p) /\ Top(p)
  BY <1>1, PatchingMoves DEF PatchMove, Moved
<1>3. level' = level /\ \A q \in Procs : q # p => pc'[q] = pc[q]
  BY <1>1, <1>2 DEF PatchMove, Moved, TypeOK
<1>4. /\ \A q \in Procs : q # p => pc[q] \notin {"unhook2", "patch2"}
      /\ p = "module" => \A d \in Devices : pc[d] = "idle" /\ level[d] = 0
  BY <1>2, OneTop DEF Critical
<1>5. code \in Codes /\ ori_entry \in Codes
  BY <1>1 DEF TypeOK
<1>6. /\ code = LinuxCode <=> code.op = "linux" /\ code.rest = "linux"
      /\ ori_entry = LinuxCode <=> ori_entry.op = "linux" /\ ori_entry.rest = "linux"
  BY <1>5, CodeParts
<1>7. p \in Devices => pc["module"] \notin {"clean", "gone"} /\ pc'[p] # "wild"
  BY <1>1, <1>2 DEF WholeInv, PatchMove, Moved, TypeOK
<1>8. /\ \A d \in Devices : pc'[d] # "wild"
      /\ p \in Devices => pc'["module"] \notin {"clean", "gone", "unhook2"}
  BY <1>1, <1>3, <1>4, <1>7 DEF WholeInv
<1>9. CASE Unhook1(p)
  <2>1. /\ pc[p] = "unhook1" /\ pc'[p] = "unhook2" /\ code' = [code EXCEPT !.op = ori_entry.op]
    BY <1>1, <1>9 DEF Unhook1, Runs, Goto, TypeOK
  <2>2. ori_entry = LinuxCode
    BY <1>1, <2>1 DEF CodeInv, Fresh, Procs
  <2>3. code'.op = "linux"
    BY <1>5, <1>6, <2>1, <2>2, CodeParts
  <2>4. \A q \in Procs : pc'[q] # "patch2"
    BY <1>3, <1>4, <2>1
  <2> QED
    BY <1>1, <1>3, <1>8, <2>1, <2>3, <2>4 DEF WholeInv, Procs
<1>10. CASE Unhook2(p)
  <2>1. /\ pc[p] = "unhook2" /\ pc'[p] = (IF p = "module" THEN "clean" ELSE "call")
        /\ code' = [code EXCEPT !.rest = ori_entry.rest]
    BY <1>1, <1>10 DEF Unhook2, Runs, Goto, TypeOK
  <2>2. ori_entry = LinuxCode /\ code.op = "linux"
    BY <1>1, <2>1 DEF CodeInv, Fresh, WholeInv, Procs
  <2>3. code' \in Codes /\ code'.op = "linux" /\ code'.rest = "linux"
    BY <1>5, <1>6, <2>1, <2>2, CodeParts DEF Codes
  <2>4. code' = LinuxCode
    BY <2>3, CodeParts
  <2>5. \A q \in Procs : pc'[q] \notin {"unhook2", "patch2"}
    BY <1>3, <1>4, <2>1
  <2>6. p = "module" => \A d \in Devices : pc'[d] = "idle" /\ level'[d] = 0
    BY <1>1, <1>3, <1>4
  <2> QED
    BY <1>1, <1>8, <2>4, <2>5, <2>6 DEF WholeInv, Procs
<1>11. CASE Patch1(p)
  <2>1. pc[p] = "patch1" /\ pc'[p] = "patch2" /\ code' = [code EXCEPT !.op = "jmp"]
    BY <1>1, <1>11 DEF Patch1, Runs, Goto, TypeOK
  <2>2. code'.op = "jmp"
    BY <1>5, <2>1, CodeParts
  <2>3. \A q \in Procs : pc'[q] # "unhook2"
    BY <1>3, <1>4, <2>1
  <2>4. pc'["module"] \notin {"clean", "gone"}
    BY <1>8, <2>1, <1>1 DEF Procs
  <2> QED
    BY <1>1, <1>8, <2>1, <2>2, <2>3, <2>4 DEF WholeInv
<1>12. CASE Patch2(p)
  <2>1. /\ pc[p] = "patch2" /\ pc'[p] \in {"check", "ret"} /\ code.op = "jmp"
        /\ code' = [code EXCEPT !.rest = "fake"]
    BY <1>1, <1>12 DEF Patch2, Runs, Goto, TypeOK, WholeInv
  <2>2. code' \in Codes /\ code'.op = "jmp" /\ code'.rest = "fake"
    BY <1>5, <2>1, CodeParts DEF Codes
  <2>3. code' = JmpFake
    BY <2>2, CodeParts
  <2>4. \A q \in Procs : pc'[q] \notin {"unhook2", "patch2"}
    BY <1>3, <1>4, <2>1
  <2>5. pc'["module"] \notin {"clean", "gone"}
    BY <1>8, <2>1, <1>1 DEF Procs
  <2> QED
    BY <1>1, <1>8, <2>3, <2>4, <2>5 DEF WholeInv
<1>13. CASE Save(p) \/ HookIdt(p) \/ CopyIdt(p) \/ LoadIdtr(p) \/ SetInited(p) \/ SetGate(p)
  <2>1. /\ pc[p] \in {"save", "check", "copy", "lidt", "inited", "gate"} /\ code' = code
        /\ pc'[p] \in {"patch1", "copy", "lidt", "inited", "gate", "start", "ret"}
    BY <1>1, <1>13 DEF Save, HookIdt, CopyIdt, LoadIdtr, SetInited, SetGate, Runs, Goto, TypeOK, patch
  <2>2. \A q \in Procs : pc[q] \notin {"unhook2", "patch2"} /\ pc'[q] \notin {"unhook2", "patch2"}
    BY <1>3, <1>4, <2>1
  <2>3. pc'["module"] \notin {"clean", "gone"}
    BY <1>8, <2>1, <1>1 DEF Procs
  <2> QED
    BY <1>1, <1>8, <2>1, <2>2, <2>3 DEF WholeInv
<1> QED
  BY <1>9, <1>10, <1>11, <1>12, <1>13 DEF Patching

\* kbd_event is called whole.
LEMMA WholeCalls ==
  ASSUME OneCpu, SharedInv, WholeInv, NEW d \in Devices,
         CallKbdEvent(d) \/ FakeKbdEvent(d) \/ FakeReturn(d)
  PROVE  WholeInv'
<1>1. /\ TypeOK /\ CodeInv /\ Counted(d) /\ "module" \in Procs
      /\ \A e \in Devices : e \in Procs /\ e # "module"
  BY NamesAssumption DEF SharedInv, BaseInv, Procs
<1>2. /\ Top(d) /\ pc[d] \in {"call", "fake", "ret"} /\ code' = code
      /\ \A q \in Procs : q # d => pc'[q] = pc[q]
      /\ \A e \in Devices : e # d => level'[e] = level[e]
  BY <1>1 DEF CallKbdEvent, FakeKbdEvent, FakeReturn, Runs, Top, Goto, TypeOK, patch
<1>3. \A q \in Procs : pc[q] \notin {"unhook2", "patch2"}
  BY <1>1, <1>2, OneTop DEF Critical
<1>4. code \in {LinuxCode, JmpFake} /\ LinuxCode # JmpFake
  BY <1>3 DEF WholeInv, LinuxCode, JmpFake
<1>5. CASE CallKbdEvent(d)
  <2>1. pc[d] = "call" /\ level[d] \in Nat /\ MaxCalls \in Nat /\ MaxCalls >= 1
    BY <1>1, <1>5, BoundAssumption DEF CallKbdEvent, Runs, TypeOK
  <2>2. code = JmpFake => level[d] = 0
    BY <1>1, <1>4, <2>1 DEF CodeInv, Mid
  <2>3. CASE code = LinuxCode
    <3>1. level' = level /\ pc'[d] = IF level[d] = 0 THEN "done" ELSE "save"
      BY <1>1, <1>4, <1>5, <2>3 DEF CallKbdEvent, Goto, Back, TypeOK
    <3> QED
      BY <1>1, <1>2, <1>3, <1>4, <2>1, <3>1 DEF WholeInv
  <2>4. CASE code = JmpFake
    <3>1. pc'[d] = "fake" /\ pc["module"] \notin {"clean", "gone"}
      BY <1>1, <1>4, <1>5, <2>1, <2>2, <2>4 DEF CallKbdEvent, Goto, TypeOK, WholeInv
    <3> QED
      BY <1>1, <1>2, <1>3, <1>4, <3>1 DEF WholeInv
  <2> QED
    BY <1>4, <2>3, <2>4
<1>6. CASE FakeKbdEvent(d) \/ FakeReturn(d)
  <2>1. /\ pc[d] \in {"fake", "ret"} /\ pc'[d] \in {"check", "ret", "unhook1", "done", "save"}
    BY <1>1, <1>6 DEF FakeKbdEvent, FakeReturn, Runs, Goto, Back, TypeOK
  <2>2. pc["module"] \notin {"clean", "gone"}
    BY <2>1 DEF WholeInv
  <2> QED
    BY <1>1, <1>2, <1>3, <1>4, <2>1, <2>2 DEF WholeInv
<1> QED
  BY <1>5, <1>6

\* Every step leaves what the CPU may execute whole.
LEMMA WholeStep == ASSUME OneCpu, SharedInv, WholeInv, [Next]_vars PROVE WholeInv'
<1>1. TypeOK /\ "module" \in Procs /\ \A e \in Devices : e \in Procs /\ e # "module" /\ Counted(e)
  BY NamesAssumption DEF SharedInv, BaseInv, Procs
<1>2. CASE UNCHANGED <<pc, code, level>>
  BY <1>2 DEF WholeInv
<1>3. CASE Module
  <2>1. /\ Top("module") /\ code' = code /\ level' = level
        /\ pc["module"] \in {"init", "start", "loaded", "clean"}
        /\ pc'["module"] \in {"save", "loaded", "unhook1", "gone"}
        /\ pc'["module"] = "gone" => pc["module"] = "clean"
        /\ \A d \in Devices : pc'[d] = pc[d]
    BY <1>1, <1>3 DEF Module, LoadUi, LoadDone, RestoreIdt, CleanUi, Runs, Top, Goto, TypeOK, patch,
                      irq
  <2>2. \A d \in Devices : pc[d] = "idle" /\ level[d] = 0
    BY <1>1, <2>1, OneTop
  <2>3. \A q \in Procs : pc[q] \notin {"unhook2", "patch2"} /\ pc'[q] \notin {"unhook2", "patch2"}
    BY <2>1, <2>2 DEF Procs
  <2> QED
    BY <2>1, <2>2, <2>3 DEF WholeInv
<1>4. ASSUME NEW d \in Devices, KbdInterrupt(d) \/ KbdReturn(d) PROVE WholeInv'
  <2>1. /\ pc[d] \in {"idle", "done"} /\ pc'[d] \in {"call", "idle"}
        /\ UNCHANGED <<code, level>> /\ \A q \in Procs : q # d => pc'[q] = pc[q]
    BY <1>1, <1>4 DEF KbdInterrupt, KbdReturn, Runs, Goto, TypeOK, patch
  <2>2. /\ pc'["module"] = pc["module"] /\ level[d] = 0
        /\ \A q \in Procs : \A x \in {"patch2", "unhook2"} : pc'[q] = x <=> pc[q] = x
    BY <1>1, <2>1 DEF Counted
  <2>3. \A e \in Devices : pc'[e] # pc[e] => pc'[e] \in {"call", "idle"}
    BY <1>1, <2>1
  <2> QED
    BY <2>1, <2>2, <2>3 DEF WholeInv
<1>5. ASSUME NEW c \in CPUs, SessionStart(c) \/ SessionEnd(c) PROVE WholeInv'
  BY <1>2, <1>5 DEF SessionStart, SessionEnd, patch
<1> QED
  BY <1>2, <1>3, <1>4, <1>5, WholePatching, WholeCalls DEF Next, Handler, vars, patch, irq

Dormant == ~is_inited /\ idtr[home] = "linux"
Loaded  == is_inited /\ idtr[home] = "ice" /\ ori_idtr = "linux"
Between == ~is_inited /\ idtr[home] = "ice" /\ ori_idtr = "linux" \* lidt is done

\* How far hook_idt is, whoever executes it.
TableInv ==
  /\ pc["module"] \in Fresh \cup {"copy", "lidt", "unhook1", "unhook2", "clean", "gone"} => Dormant
  /\ pc["module"] = "lidt" => ori_idtr = "linux"
  /\ pc["module"] = "inited" => Between
  /\ pc["module"] \in {"gate", "start", "loaded"} => Loaded
  /\ pc["module"] = "check" => \/ Dormant \/ Loaded
                               \/ \E d \in Devices : pc[d] = "inited"
  /\ \A d \in Devices :
       /\ pc[d] \in {"check", "gate"} => pc["module"] \in {"check", "gate", "start", "loaded"}
       /\ pc[d] \in {"copy", "lidt", "inited"} => pc["module"] = "check"
       /\ pc[d] \in {"copy", "lidt"} => Dormant
       /\ pc[d] = "lidt" => ori_idtr = "linux"
       /\ pc[d] = "inited" => Between
       /\ pc[d] = "gate" => Loaded

DrawnInv ==
  /\ \A c \in CPUs \ {home} : idtr[c] = "linux"
  /\ ~late => TableInv
  /\ late \/ "none" \notin drawn
  /\ views = "none" => pc["module"] \in {"init", "gone"}

\* A step of hello_init, of hello_exit or of a handler that hooks an interrupt
\* leaves the tables where the next step expects them.
LEMMA TablePatching ==
  ASSUME OneCpu, SharedInv, TableInv, NEW p \in Procs, Patching(p) PROVE TableInv'
<1>1. /\ TypeOK /\ CodeInv /\ "module" \in Procs /\ CPU(p) = home /\ home \in CPUs
      /\ \A e \in Devices : e \in Procs /\ e # "module"
  BY NamesAssumption DEF SharedInv, BaseInv, Procs, TypeOK, CPU, OneCpu
<1>2. PatchMove(p) /\ Top(p)
  BY <1>1, PatchingMoves DEF PatchMove, Moved
<1>3. home' = home /\ \A q \in Procs : q # p => pc'[q] = pc[q]
  BY <1>1, <1>2 DEF PatchMove, Moved, TypeOK
<1>4. /\ \A e \in Devices : e # p => pc[e] \notin {"check", "copy", "lidt", "inited", "gate"}
      /\ p = "module" => \A d \in Devices : pc[d] = "idle"
  BY <1>1, <1>2, OneTop DEF Critical
<1>5. /\ \A e \in Devices : e # p => pc'[e] \notin {"check", "copy", "lidt", "inited", "gate"}
      /\ p # "module" => p \in Devices /\ pc'["module"] = pc["module"]
  BY <1>1, <1>3, <1>4 DEF Procs
<1>6. CASE Unhook1(p) \/ Unhook2(p) \/ Save(p) \/ Patch1(p) \/ Patch2(p)
  <2>1. /\ UNCHANGED <<idtr, ori_idtr, is_inited>>
        /\ \/ pc[p] = "unhook1" /\ pc'[p] = "unhook2"
           \/ pc[p] = "unhook2" /\ pc'[p] = (IF p = "module" THEN "clean" ELSE "call")
           \/ pc[p] = "save" /\ pc'[p] = "patch1"
           \/ pc[p] = "patch1" /\ pc'[p] = "patch2"
           \/ pc[p] = "patch2" /\ pc'[p] = (IF p = "module" THEN "check" ELSE "ret")
    BY <1>1, <1>6 DEF Unhook1, Unhook2, Save, Patch1, Patch2, Runs, Goto, TypeOK, idt
  <2> QED
    BY <1>1, <1>3, <1>4, <1>5, <2>1 DEF TableInv, Dormant, Loaded, Between, Fresh
<1>7. CASE HookIdt(p)
  <2>1. /\ UNCHANGED <<idtr, ori_idtr, is_inited>>
        /\ pc[p] = "check" /\ pc'[p] = (IF is_inited THEN "gate" ELSE "copy")
    BY <1>1, <1>7 DEF HookIdt, Runs, Goto, TypeOK, idt
  <2>2. \A d \in Devices : pc[d] # "inited"
    BY <1>4, <2>1
  <2>3. pc["module"] \in {"check", "gate", "start", "loaded"}
    BY <1>5, <2>1 DEF TableInv
  <2>4. IF is_inited THEN Loaded ELSE Dormant /\ pc["module"] = "check"
    BY <2>2, <2>3 DEF TableInv, Dormant, Loaded
  <2> QED
    BY <1>1, <1>3, <1>5, <2>1, <2>3, <2>4 DEF TableInv, Dormant, Loaded, Between, Fresh
<1>8. CASE CopyIdt(p)
  <2>1. /\ UNCHANGED <<idtr, is_inited>> /\ ori_idtr' = idtr[home]
        /\ pc[p] = "copy" /\ pc'[p] = "lidt"
    BY <1>1, <1>8 DEF CopyIdt, Runs, Goto, TypeOK
  <2>2. Dormant /\ (p # "module" => pc["module"] = "check")
    BY <1>5, <2>1 DEF TableInv
  <2> QED
    BY <1>1, <1>3, <1>5, <2>1, <2>2 DEF TableInv, Dormant, Loaded, Between, Fresh
<1>9. CASE LoadIdtr(p)
  <2>1. /\ UNCHANGED <<ori_idtr, is_inited>> /\ idtr'[home] = "ice"
        /\ pc[p] = "lidt" /\ pc'[p] = "inited"
    BY <1>1, <1>9 DEF LoadIdtr, Runs, Goto, TypeOK
  <2>2. ~is_inited /\ ori_idtr = "linux" /\ (p # "module" => pc["module"] = "check")
    BY <1>5, <2>1 DEF TableInv, Dormant
  <2> QED
    BY <1>1, <1>3, <1>5, <2>1, <2>2 DEF TableInv, Dormant, Loaded, Between, Fresh
<1>10. CASE SetInited(p)
  <2>1. UNCHANGED <<idtr, ori_idtr>> /\ is_inited' = TRUE /\ pc[p] = "inited" /\ pc'[p] = "gate"
    BY <1>1, <1>10 DEF SetInited, Runs, Goto, TypeOK
  <2>2. Between /\ (p # "module" => pc["module"] = "check")
    BY <1>5, <2>1 DEF TableInv
  <2> QED
    BY <1>1, <1>3, <1>5, <2>1, <2>2 DEF TableInv, Dormant, Loaded, Between, Fresh
<1>11. CASE SetGate(p)
  <2>1. /\ UNCHANGED <<idtr, ori_idtr, is_inited>>
        /\ pc[p] = "gate" /\ pc'[p] = (IF p = "module" THEN "start" ELSE "ret")
    BY <1>1, <1>11 DEF SetGate, Runs, Goto, TypeOK
  <2>2. Loaded
    BY <1>5, <2>1 DEF TableInv
  <2> QED
    BY <1>1, <1>3, <1>5, <2>1, <2>2 DEF TableInv, Dormant, Loaded, Between, Fresh
<1> QED
  BY <1>6, <1>7, <1>8, <1>9, <1>10, <1>11 DEF Patching

\* So does every other step, unless Ctrl-Q comes in one of the two windows.
LEMMA TableStep ==
  ASSUME OneCpu, SharedInv, WholeInv, TableInv, [Next]_vars, ~late' PROVE TableInv'
<1>1. /\ TypeOK /\ CodeInv /\ "module" \in Procs /\ home \in CPUs
      /\ \A e \in Devices : e \in Procs /\ e # "module"
  BY NamesAssumption DEF SharedInv, BaseInv, Procs, TypeOK
<1>2. CASE UNCHANGED <<pc, home, idtr, ori_idtr, is_inited>>
  BY <1>2 DEF TableInv, Dormant, Loaded, Between
<1>3. CASE Module
  <2>1. Top("module") /\ home' = home /\ ori_idtr' = ori_idtr /\ \A d \in Devices : pc'[d] = pc[d]
    BY <1>1, <1>3 DEF Module, LoadUi, LoadDone, RestoreIdt, CleanUi, Runs, Top, Goto, TypeOK, idt,
                      hist
  <2>2. \A d \in Devices : pc'[d] = "idle"
    BY <1>1, <2>1, OneTop
  <2>3. CASE LoadUi \/ LoadDone \/ CleanUi
    <3>1. /\ UNCHANGED <<idtr, is_inited>>
          /\ \/ pc["module"] = "init" /\ pc'["module"] = "save"
             \/ pc["module"] = "start" /\ pc'["module"] = "loaded"
             \/ pc["module"] = "clean" /\ pc'["module"] = "gone"
      BY <1>1, <2>3 DEF LoadUi, LoadDone, CleanUi, Runs, Goto, TypeOK, idt
    <3> QED
      BY <2>1, <2>2, <3>1 DEF TableInv, Dormant, Loaded, Between, Fresh
  <2>4. CASE RestoreIdt
    <3>1. pc["module"] = "loaded" /\ pc'["module"] = "unhook1" /\ is_inited' = FALSE
      BY <1>1, <2>4 DEF RestoreIdt, Runs, Goto, TypeOK
    <3>2. Loaded
      BY <3>1 DEF TableInv
    <3>3. idtr'[home] = "linux"
      BY <1>1, <2>4, <3>2 DEF RestoreIdt, Loaded, TypeOK
    <3> QED
      BY <2>1, <2>2, <3>1, <3>3 DEF TableInv, Dormant, Fresh
  <2> QED
    BY <1>3, <2>3, <2>4 DEF Module
<1>4. ASSUME NEW d \in Devices, CallKbdEvent(d) \/ FakeReturn(d) \/ KbdInterrupt(d) \/ KbdReturn(d)
      PROVE  TableInv'
  <2>1. /\ UNCHANGED <<idtr, ori_idtr, is_inited, home>>
        /\ pc[d] \in {"call", "ret", "idle", "done"}
        /\ pc'[d] \in {"call", "idle", "done", "save", "fake", "wild"}
        /\ \A q \in Procs : q # d => pc'[q] = pc[q]
    BY <1>1, <1>4, ZenonT(40) DEF CallKbdEvent, FakeReturn, KbdInterrupt, KbdReturn, Runs, Goto, Back, TypeOK,
                      idt, hist
  <2>2. pc'["module"] = pc["module"]
    BY <1>1, <2>1
  <2>3. \A e \in Devices : \A x \in {"check", "gate", "copy", "lidt", "inited"} :
          pc'[e] = x <=> pc[e] = x
    BY <1>1, <2>1
  <2> QED
    BY <2>1, <2>2, <2>3 DEF TableInv, Dormant, Loaded, Between, Fresh
<1>5. ASSUME NEW d \in Devices, FakeKbdEvent(d) PROVE TableInv'
  <2>1. /\ UNCHANGED <<idtr, ori_idtr, is_inited, home>> /\ pc[d] = "fake"
        /\ pc'[d] \in {"check", "ret", "unhook1"} /\ pc'["module"] = pc["module"]
        /\ \A q \in Procs : q # d => pc'[q] = pc[q]
        /\ pc'[d] = "check" => ~InWindow
    BY <1>1, <1>5 DEF FakeKbdEvent, Runs, Goto, TypeOK, idt
  <2>2. pc["module"] \notin Fresh \cup {"clean", "gone"}
    BY <1>1, <2>1 DEF CodeInv, WholeInv
  <2>3. pc["module"] \in ModulePlaces
    BY DEF SharedInv, BaseInv, Places
  <2>4. pc'[d] = "check" => pc["module"] \in {"check", "gate", "start", "loaded"}
    BY <2>1, <2>2, <2>3 DEF InWindow, Fresh, ModulePlaces
  <2>5. \A e \in Devices : \A x \in {"gate", "copy", "lidt", "inited"} : pc'[e] = x <=> pc[e] = x
    BY <1>1, <2>1
  <2>6. \A e \in Devices : pc'[e] = "check" => pc[e] = "check" \/ pc'[d] = "check"
    BY <1>1, <2>1
  <2> QED
    BY <2>1, <2>4, <2>5, <2>6 DEF TableInv, Dormant, Loaded, Between, Fresh
<1>6. ASSUME NEW c \in CPUs, SessionStart(c) \/ SessionEnd(c) PROVE TableInv'
  BY <1>2, <1>6 DEF SessionStart, SessionEnd, idt, hist
<1> QED
  BY <1>2, <1>3, <1>4, <1>5, <1>6, TablePatching DEF Next, Handler, vars, idt, hist

\* late only rises, and a session that began too early or too late is late's.
LEMMA DrawnStep ==
  ASSUME OneCpu, SharedInv, WholeInv, DrawnInv, [Next]_vars PROVE DrawnInv'
<1>1. /\ TypeOK /\ "module" \in Procs /\ home' = home /\ home \in CPUs
      /\ \A e \in Devices : e \in Procs /\ e # "module"
  BY NamesAssumption
     DEF SharedInv, BaseInv, Procs, TypeOK, Next, Module, LoadUi, LoadDone, RestoreIdt, CleanUi,
         Patching, Unhook1, Unhook2, Save, Patch1, Patch2, HookIdt, CopyIdt, LoadIdtr, SetInited,
         SetGate, KbdInterrupt, Handler, CallKbdEvent, FakeKbdEvent, FakeReturn, KbdReturn,
         SessionStart, SessionEnd, vars, hist
<1>2. late => late'
  BY DEF Next, Module, LoadUi, LoadDone, RestoreIdt, CleanUi, Patching, Unhook1, Unhook2, Save,
         Patch1, Patch2, HookIdt, CopyIdt, LoadIdtr, SetInited, SetGate, KbdInterrupt, Handler,
         CallKbdEvent, FakeKbdEvent, FakeReturn, KbdReturn, SessionStart, SessionEnd, vars, hist
<1>3. ~late' => TableInv /\ TableInv'
  BY <1>2, TableStep DEF DrawnInv
<1>4. \A c \in CPUs \ {home} : idtr'[c] = "linux"
  <2>1. CASE idtr' = idtr
    BY <2>1 DEF DrawnInv
  <2>2. CASE RestoreIdt
    BY <1>1, <2>2 DEF RestoreIdt, TypeOK, DrawnInv
  <2>3. ASSUME NEW p \in Procs, LoadIdtr(p) PROVE \A c \in CPUs \ {home} : idtr'[c] = "linux"
    <3>1. CPU(p) = home
      BY DEF CPU, OneCpu, Procs
    <3> QED
      BY <1>1, <2>3, <3>1 DEF LoadIdtr, TypeOK, DrawnInv
  <2> QED
    BY <2>1, <2>2, <2>3
       DEF Next, Module, LoadUi, LoadDone, CleanUi, Patching, Unhook1, Unhook2, Save, Patch1, Patch2,
           HookIdt, CopyIdt, SetInited, SetGate, KbdInterrupt, Handler, CallKbdEvent, FakeKbdEvent,
           FakeReturn, KbdReturn, SessionStart, SessionEnd, vars, idt
<1>5. late' \/ "none" \notin drawn'
  <2>1. CASE drawn' = drawn
    BY <1>2, <2>1 DEF DrawnInv
  <2>2. ASSUME NEW c \in CPUs, SessionStart(c), ~late' PROVE "none" \notin drawn'
    <3>1. /\ idtr[c] = "ice" /\ drawn' = drawn \cup {views} /\ "none" \notin drawn
      BY <1>2, <2>2 DEF SessionStart, DrawnInv
    <3>2. idtr[home] # "linux"
      BY <3>1 DEF DrawnInv
    <3>3. pc["module"] \notin {"init", "gone"}
      BY <1>3, <2>2, <3>2 DEF TableInv, Dormant, Fresh
    <3>4. views # "none"
      BY <3>3 DEF DrawnInv
    <3> QED
      BY <3>1, <3>4
  <2> QED
    BY <2>1, <2>2
       DEF Next, Module, LoadUi, LoadDone, RestoreIdt, CleanUi, Patching, Unhook1, Unhook2, Save,
           Patch1, Patch2, HookIdt, CopyIdt, LoadIdtr, SetInited, SetGate, KbdInterrupt, Handler,
           CallKbdEvent, FakeKbdEvent, FakeReturn, KbdReturn, SessionEnd, vars, hist
<1>6. views' = "none" => pc'["module"] \in {"init", "gone"}
  <2>1. CASE views' = views /\ pc'["module"] = pc["module"]
    BY <2>1 DEF DrawnInv
  <2>2. CASE Module
    BY <1>1, <2>2 DEF Module, LoadUi, LoadDone, RestoreIdt, CleanUi, Runs, Goto, TypeOK, DrawnInv
  <2>3. ASSUME NEW p \in Procs, Patching(p)
        PROVE  views' = "none" => pc'["module"] \in {"init", "gone"}
    <3>1. views' = views /\ pc[p] \notin {"init", "gone"}
      BY <2>3 DEF Patching, Unhook1, Unhook2, Save, Patch1, Patch2, HookIdt, CopyIdt, LoadIdtr,
                  SetInited, SetGate, Runs
    <3>2. p # "module" => pc'["module"] = pc["module"]
      <4>1. PatchMove(p)
        BY <1>1, <2>3, PatchingMoves
      <4> QED
        BY <1>1, <4>1 DEF PatchMove, Moved, TypeOK
    <3> QED
      BY <3>1, <3>2 DEF DrawnInv
  <2>4. ASSUME NEW d \in Devices, KbdInterrupt(d) \/ Handler(d)
        PROVE  views' = views /\ pc'["module"] = pc["module"]
    BY <1>1, <2>4 DEF KbdInterrupt, Handler, CallKbdEvent, FakeKbdEvent, FakeReturn, KbdReturn, Goto,
                      TypeOK
  <2> QED
    BY <2>1, <2>2, <2>3, <2>4 DEF Next, SessionStart, SessionEnd, vars
<1> QED
  BY <1>1, <1>3, <1>4, <1>5, <1>6 DEF DrawnInv

-----------------------------------------------------------------------------
(* The theorems for one CPU.                                               *)

ModuleInv == SharedInv /\ (OneCpu => WholeInv /\ DrawnInv)

\* If one CPU serves the keyboards, the invariants hold; what says more holds if
\* the module was loaded there, too, which no step changes.
LEMMA ModuleInvariant == ASSUME Shared PROVE Spec => []ModuleInv
<1>1. Init => ModuleInv
  <2> SUFFICES ASSUME Init PROVE ModuleInv
    OBVIOUS
  <2>1. SharedInv
    BY SharedInit
  <2>2. /\ pc["module"] = "init" /\ \A d \in Devices : pc[d] = "idle"
        /\ code = LinuxCode /\ idtr = [c \in CPUs |-> "linux"] /\ ~is_inited /\ drawn = {}
        /\ home \in CPUs
    BY NamesAssumption DEF Init, Procs
  <2>3. \A p \in Procs : pc[p] \notin {"patch2", "unhook2"}
    BY <2>2 DEF Procs
  <2>4. WholeInv
    BY <2>2, <2>3 DEF WholeInv
  <2>5. DrawnInv
    BY <2>2 DEF DrawnInv, TableInv, Dormant
  <2> QED
    BY <2>1, <2>4, <2>5 DEF ModuleInv
<1>2. ModuleInv /\ [Next]_vars => ModuleInv'
  <2> SUFFICES ASSUME ModuleInv, [Next]_vars PROVE ModuleInv'
    OBVIOUS
  <2>1. SharedInv'
    BY SharedStep DEF ModuleInv
  <2>2. home' = home
    BY DEF Next, Module, LoadUi, LoadDone, RestoreIdt, CleanUi, Patching, Unhook1, Unhook2, Save,
         Patch1, Patch2, HookIdt, CopyIdt, LoadIdtr, SetInited, SetGate, KbdInterrupt, Handler,
         CallKbdEvent, FakeKbdEvent, FakeReturn, KbdReturn, SessionStart, SessionEnd, vars, hist
  <2>3. OneCpu' => OneCpu
    BY <2>2 DEF OneCpu
  <2>4. OneCpu' => WholeInv' /\ DrawnInv'
    BY <2>3, WholeStep, DrawnStep DEF ModuleInv
  <2> QED
    BY <2>1, <2>4 DEF ModuleInv
<1> QED
  BY <1>1, <1>2, PTL DEF Spec

\* If one CPU serves the keyboards, hook_kbd saves Linux's code, at every event
\* and at load; if that CPU loads the module, too, no CPU executes half a patch.
THEOREM NeverTornAlways == ASSUME Shared PROVE Spec => []NeverTorn
<1>1. ModuleInv => NeverTorn
  BY DEF ModuleInv, SharedInv, BaseInv, CodeInv, WholeInv, NeverTorn
<1> QED
  BY <1>1, ModuleInvariant, PTL

\* If all keyboards are served by the one CPU that loads and unloads the module,
\* nothing of it is left behind, but for a Ctrl-Q in the windows of late.  Where
\* a keyboard is served by another CPU CleanUnload says nothing.
THEOREM CleanUnloadAlways == Spec => []CleanUnload
<1>1. CASE Shared
  <2>1. ModuleInv => CleanUnload
    <3> SUFFICES ASSUME ModuleInv, OneCpu
                 PROVE  /\ late \/ "none" \notin drawn
                        /\ pc["module"] = "gone" =>
                             /\ code = LinuxCode
                             /\ \A d \in Devices : level[d] = 0
                             /\ late \/ \A c \in CPUs : idtr[c] = "linux"
      BY DEF CleanUnload
    <3>1. WholeInv /\ DrawnInv
      BY DEF ModuleInv
    <3>2. ASSUME pc["module"] = "gone", ~late PROVE \A c \in CPUs : idtr[c] = "linux"
      BY <3>1, <3>2 DEF DrawnInv, TableInv, Dormant
    <3> QED
      BY <3>1, <3>2 DEF WholeInv, DrawnInv
  <2> QED
    BY <1>1, <2>1, ModuleInvariant, PTL
<1>2. CASE ~Shared
  <2>1. CleanUnload
    BY <1>2 DEF Shared, OneCpu, CleanUnload
  <2> QED
    BY <2>1, PTL
<1> QED
  BY <1>1, <1>2
=============================================================================
