--------------------------- MODULE IceSessionProofs ---------------------------
(***************************************************************************)
(* Proofs about IceSession: types for every placement of the keyboard, and *)
(* the session protocol for a machine whose keyboard interrupts are served *)
(* by the hooked CPU, for every depth, queue and line length.              *)
(***************************************************************************)
EXTENDS IceSession, SequenceTheorems, FiniteSetTheorems, TLAPS

\* The four shapes a step gives the stack, as facts about its frames.
Same  == stack' = stack
Push(kind, pc) ==
  /\ Depth' = Depth + 1
  /\ \A i \in 1..Depth : stack'[i] = stack[i]
  /\ stack'[Depth + 1] = [kind |-> kind, pc |-> pc, tf |-> tflag, if |-> iflag, cmd |-> "none"]
Pop ==
  /\ Depth > 0
  /\ Depth' = Depth - 1
  /\ \A i \in 1..(Depth - 1) : stack'[i] = stack[i]
Edit(f) ==
  /\ Depth > 0
  /\ Depth' = Depth
  /\ \A i \in 1..(Depth - 1) : stack'[i] = stack[i]
  /\ stack'[Depth] = f

StackOK == stack \in Seq(Frame) /\ Len(stack) <= MaxDepth /\ iflag \in BOOLEAN /\ tflag \in BOOLEAN

LEMMA DepthNat == ASSUME StackOK PROVE Depth \in Nat
BY LenProperties DEF StackOK, Depth

\* Entering a gate pushes a frame.
LEMMA EnterLemma ==
  ASSUME StackOK, NEW kind \in Vectors \cup {"kbd", "wild"}, NEW pc \in SessionPCs \cup {"nested"},
         NEW b \in BOOLEAN, Enter(kind, pc, b)
  PROVE  StackOK' /\ Push(kind, pc) /\ iflag' = b /\ tflag' = FALSE
<1> DEFINE f == [kind |-> kind, pc |-> pc, tf |-> tflag, if |-> iflag, cmd |-> "none"]
<1>1. f \in Frame BY DEF Frame, StackOK
<1>2. stack' = Append(stack, f) /\ iflag' = b /\ tflag' = FALSE /\ Depth < MaxDepth BY DEF Enter
<1>3. /\ stack' \in Seq(Frame)
      /\ Len(stack') = Depth + 1
      /\ \A i \in 1..Depth : stack'[i] = stack[i]
      /\ stack'[Depth + 1] = f
  BY <1>1, <1>2 DEF StackOK, Depth
<1>4. Len(stack') <= MaxDepth BY <1>2, <1>3, DepthNat, BoundsAssumption
<1> QED BY <1>2, <1>3, <1>4 DEF StackOK, Push, Depth

\* iretq pops the top frame.
LEMMA ReturnLemma ==
  ASSUME StackOK, stack # <<>>, Return
  PROVE  StackOK' /\ Pop /\ iflag' = Top.if /\ tflag' = Top.tf
<1>1. Depth \in Nat /\ Depth > 0 BY EmptySeq DEF StackOK, Depth
<1>2. stack' = SubSeq(stack, 1, Depth - 1) /\ iflag' = Top.if /\ tflag' = Top.tf BY DEF Return
<1>3. Top \in Frame BY <1>1, ElementOfSeq DEF StackOK, Top, Depth
<1>4. Top.if \in BOOLEAN /\ Top.tf \in BOOLEAN BY <1>3 DEF Frame
<1>5. \A i \in 1..(Depth - 1) : stack[i] \in Frame BY <1>1, ElementOfSeq DEF StackOK, Depth
<1>6. /\ stack' \in Seq(Frame)
      /\ Len(stack') = Depth - 1
      /\ \A i \in 1..(Depth - 1) : stack'[i] = stack[i]
  <2>1. 1 \in Int /\ Depth - 1 \in Int BY <1>1
  <2>2. /\ SubSeq(stack, 1, Depth - 1) \in Seq(Frame)
        /\ Len(SubSeq(stack, 1, Depth - 1)) = IF 1 <= Depth - 1 THEN Depth - 1 - 1 + 1 ELSE 0
        /\ \A i \in 1..(Depth - 1 - 1 + 1) : SubSeq(stack, 1, Depth - 1)[i] = stack[1 + i - 1]
    BY ONLY <2>1, <1>5, SubSeqProperties, SMT
  <2> HIDE DEF Depth
  <2> QED BY <1>1, <1>2, <2>2
<1>7. Len(stack') <= MaxDepth BY <1>1, <1>6, BoundsAssumption DEF StackOK, Depth
<1>8. Pop BY <1>1, <1>6 DEF Pop, Depth
<1> QED BY <1>2, <1>4, <1>6, <1>7, <1>8 DEF StackOK

\* Replacing the top frame.
LEMMA EditLemma ==
  ASSUME StackOK, stack # <<>>, NEW f \in Frame, stack' = [stack EXCEPT ![Depth] = f],
         iflag' \in BOOLEAN, tflag' \in BOOLEAN
  PROVE  StackOK' /\ Edit(f)
<1>1. Depth \in Nat /\ Depth > 0 BY EmptySeq DEF StackOK, Depth
<1>2. /\ stack' \in Seq(Frame)
      /\ Len(stack') = Depth
      /\ \A i \in 1..Depth : stack'[i] = IF i = Depth THEN f ELSE stack[i]
  BY <1>1, ExceptSeq DEF StackOK, Depth
<1>3. Len(stack') <= MaxDepth BY <1>2 DEF StackOK, Depth
<1>4. Depth' = Depth BY <1>2 DEF Depth
<1>5. Edit(f) BY <1>1, <1>2, <1>4 DEF Edit
<1> QED BY <1>2, <1>3, <1>5 DEF StackOK

LEMMA GotoLemma ==
  ASSUME StackOK, stack # <<>>, NEW pc \in SessionPCs \cup {"nested"}, Goto(pc),
         iflag' \in BOOLEAN, tflag' \in BOOLEAN
  PROVE  StackOK' /\ Edit([Top EXCEPT !.pc = pc])
<1>1. Depth \in Nat /\ Depth > 0 BY EmptySeq DEF StackOK, Depth
<1>2. Top \in Frame BY <1>1, ElementOfSeq DEF StackOK, Top, Depth
<1>3. [Top EXCEPT !.pc = pc] \in Frame BY <1>2 DEF Frame
<1>4. stack' = [stack EXCEPT ![Depth] = [Top EXCEPT !.pc = pc]] BY DEF Goto, Top
<1> QED BY <1>3, <1>4, EditLemma

-----------------------------------------------------------------------------
(***************************************************************************)
(* Types, for every placement of the keyboard.                             *)
(***************************************************************************)
LEMMA DataTypes ==
  ASSUME TypeOK
  PROVE  /\ StackOK
         /\ stack # <<>> => Top \in Frame /\ Depth \in 1..MaxDepth
<1>1. StackOK BY DEF TypeOK, StackOK
<1>2. ASSUME stack # <<>> PROVE Top \in Frame /\ Depth \in 1..MaxDepth
  <2>1. Depth \in Nat /\ Depth > 0 /\ Depth <= MaxDepth
    BY <1>1, <1>2, EmptySeq DEF StackOK, Depth
  <2>2. Top \in Frame BY <1>1, <2>1, ElementOfSeq DEF StackOK, Top, Depth
  <2> QED BY <2>1, <2>2, BoundsAssumption
<1> QED BY <1>1, <1>2

\* keyq and the command line.
LEMMA LineTypes ==
  ASSUME NEW S, NEW s \in Seq(S), NEW c \in S
  PROVE  /\ Append(s, c) \in Seq(S) /\ Len(Append(s, c)) = Len(s) + 1
         /\ s # <<>> => Tail(s) \in Seq(S) /\ Len(Tail(s)) = Len(s) - 1
         /\ SubSeq(s, 1, Len(s) - 1) \in Seq(S) /\ Len(SubSeq(s, 1, Len(s) - 1)) <= Len(s)
<1>1. Len(s) \in Nat BY LenProperties
<1>2. \A i \in 1..(Len(s) - 1) : s[i] \in S BY <1>1, ElementOfSeq
<1>3. 1 \in Int /\ Len(s) - 1 \in Int BY <1>1
<1>4. /\ SubSeq(s, 1, Len(s) - 1) \in Seq(S)
      /\ Len(SubSeq(s, 1, Len(s) - 1)) = IF 1 <= Len(s) - 1 THEN Len(s) - 1 - 1 + 1 ELSE 0
  BY ONLY <1>2, <1>3, SubSeqProperties, SMT
<1> QED BY <1>1, <1>4

RestOK ==
  /\ running_state \in States
  /\ regs \in 0..MaxDepth
  /\ gate \in Gates
  /\ timer \in {"armed", "pending", "inservice"}
  /\ kbd \in [pc : KbdPCs, ev : Events, site : {"hooked", "other"}]
  /\ keyq \in Seq(Chars) /\ Len(keyq) <= MaxKeys
  /\ text \in Seq(Chars) /\ Len(text) <= MaxText

LEMMA TypeSplit == TypeOK <=> StackOK /\ RestOK
BY DEF TypeOK, StackOK, RestOK

LEMMA InitTypeOK == Init => TypeOK
<1> SUFFICES ASSUME Init PROVE StackOK /\ RestOK BY TypeSplit
<1>1. \A S : <<>> \in Seq(S) /\ Len(<<>>) = 0 BY EmptySeq
<1>2. StackOK
  <2>1. stack \in Seq(Frame) /\ Len(stack) = 0 BY <1>1 DEF Init
  <2>2. iflag \in BOOLEAN /\ tflag \in BOOLEAN BY DEF Init
  <2> QED BY <2>1, <2>2, BoundsAssumption DEF StackOK
<1>3. running_state \in States /\ regs \in 0..MaxDepth
  BY BoundsAssumption DEF Init, States
<1>6. gate \in Gates /\ timer \in {"armed", "pending", "inservice"}
  BY DEF Init, Gates, LinuxGate
<1>4. kbd \in [pc : KbdPCs, ev : Events, site : {"hooked", "other"}]
  BY DEF Init, KbdPCs, Events
<1>5. /\ keyq \in Seq(Chars) /\ Len(keyq) <= MaxKeys
      /\ text \in Seq(Chars) /\ Len(text) <= MaxText
  BY <1>1, BoundsAssumption DEF Init
<1> QED BY <1>2, <1>3, <1>4, <1>5, <1>6 DEF RestOK

\* What Executes says of the top frame.
LEMMA Executing ==
  ASSUME TypeOK, NEW kinds, NEW pc, Executes(kinds, pc)
  PROVE  /\ StackOK /\ stack # <<>> /\ Top \in Frame /\ Depth \in 1..MaxDepth
         /\ Top.pc = pc /\ Top.kind \in kinds /\ tflag = FALSE
BY DataTypes DEF Executes, StackOK

LEMMA LinuxTypes == TypeOK /\ (Linux \/ Lapic \/ DebugTrap) => TypeOK'
<1> SUFFICES ASSUME TypeOK, Linux \/ Lapic \/ DebugTrap PROVE StackOK' /\ RestOK'
  BY TypeSplit DEF TypeOK, StackOK, RestOK
<1>0. StackOK /\ RestOK BY TypeSplit
<1> USE DEF ice, line, cpu
<1>1. CASE LinuxFlag
  BY <1>0, <1>1 DEF LinuxFlag, StackOK, RestOK
<1>2. CASE Int3
  <2>1. StackOK' BY <1>0, <1>2, EnterLemma DEF Int3, Vectors, SessionPCs
  <2> QED BY <1>0, <1>2, <2>1 DEF Int3, RestOK
<1>3. CASE TimerExpires BY <1>0, <1>3 DEF TimerExpires, StackOK, RestOK
<1>4. CASE TimerToLinux BY <1>0, <1>4 DEF TimerToLinux, StackOK, RestOK
<1>5. CASE TimerToIce
  <2>1. StackOK' BY <1>0, <1>5, EnterLemma DEF TimerToIce, Vectors, SessionPCs
  <2> QED BY <1>0, <1>5, <2>1 DEF TimerToIce, RestOK
<1>6. CASE TimerToNowhere
  <2>1. StackOK' BY <1>0, <1>6, EnterLemma DEF TimerToNowhere
  <2> QED BY <1>0, <1>6, <2>1 DEF TimerToNowhere, RestOK
<1>7. CASE DebugTrap
  <2>1. StackOK' BY <1>0, <1>7, EnterLemma DEF DebugTrap, Vectors, SessionPCs
  <2> QED BY <1>0, <1>7, <2>1 DEF DebugTrap, RestOK
<1> QED BY <1>1, <1>2, <1>3, <1>4, <1>5, <1>6, <1>7 DEF Linux, Lapic

\* Setting a saved TF bit, in the top frame or in another one.
LEMMA SavedTFLemma ==
  ASSUME NEW s \in Seq(Frame), NEW b \in BOOLEAN
  PROVE  SavedTF(s, b) \in Seq(Frame) /\ Len(SavedTF(s, b)) = Len(s)
<1>1. CASE regs \in DOMAIN s
  <2>1. regs \in 1..Len(s) BY <1>1, LenProperties
  <2>2. s[regs] \in Frame BY <2>1, ElementOfSeq
  <2>3. [s[regs] EXCEPT !.tf = b] \in Frame BY <2>2 DEF Frame
  <2>4. SavedTF(s, b) = [s EXCEPT ![regs] = [s[regs] EXCEPT !.tf = b]] BY <1>1 DEF SavedTF
  <2> QED BY <2>1, <2>3, <2>4, ExceptSeq
<1>2. CASE regs \notin DOMAIN s BY <1>2 DEF SavedTF
<1> QED BY <1>1, <1>2

LEMMA DebuggerTypes == TypeOK /\ Debugger => TypeOK'
<1> SUFFICES ASSUME TypeOK, Debugger PROVE StackOK' /\ RestOK'
  BY TypeSplit DEF TypeOK, StackOK, RestOK
<1>0. StackOK /\ RestOK BY TypeSplit
<1> USE DEF ice, line, cpu
<1>a. iflag \in BOOLEAN /\ tflag \in BOOLEAN BY <1>0 DEF StackOK
<1>1. CASE IceDispatch
  <2>1. StackOK' BY <1>0, <1>a, <1>1, Executing, GotoLemma DEF IceDispatch, SessionPCs
  <2> QED BY <1>0, <1>1, <2>1 DEF IceDispatch, RestOK
<1>2. CASE IceClaim
  <2>1. StackOK' BY <1>0, <1>a, <1>2, Executing, GotoLemma DEF IceClaim, SessionPCs
  <2>2. regs' \in 0..MaxDepth
    <3>1. regs' = Depth /\ Depth \in 1..MaxDepth BY <1>2, Executing DEF IceClaim
    <3> HIDE DEF Depth
    <3> QED BY <3>1, BoundsAssumption
  <2> QED BY <1>0, <1>2, <2>1, <2>2 DEF IceClaim, RestOK, States
<1>3. CASE IceHookTimer
  <2>1. StackOK' BY <1>0, <1>a, <1>3, Executing, GotoLemma DEF IceHookTimer, SessionPCs
  <2> QED BY <1>0, <1>3, <2>1 DEF IceHookTimer, RestOK, Gates, IceGate
<1>4. CASE DebuggerStart
  <2>1. stack # <<>> /\ stack' = SavedTF([stack EXCEPT ![Depth].pc = "loop"], FALSE)
        /\ iflag' = iflag /\ tflag' = tflag
    BY <1>4, Executing DEF DebuggerStart
  <2>2. Top \in Frame /\ Depth \in 1..Depth
    BY <2>1, DataTypes, BoundsAssumption
  <2>3. [Top EXCEPT !.pc = "loop"] \in Frame BY <2>2 DEF Frame, SessionPCs
  <2>4. [stack EXCEPT ![Depth].pc = "loop"] \in Seq(Frame)
        /\ Len([stack EXCEPT ![Depth].pc = "loop"]) = Len(stack)
    BY <1>0, <2>2, <2>3, ExceptSeq DEF StackOK, Depth, Top
  <2>5. stack' \in Seq(Frame) /\ Len(stack') = Len(stack) BY <2>1, <2>4, SavedTFLemma
  <2> QED BY <1>0, <1>4, <2>1, <2>5 DEF DebuggerStart, StackOK, RestOK
<1>5. CASE GetKey
  <2>1. keyq' \in Seq(Chars) /\ Len(keyq') <= MaxKeys /\ Head(keyq) \in Chars
    BY <1>0, <1>5, HeadTailProperties, LenProperties, BoundsAssumption DEF GetKey, RestOK
  <2>2. CASE Goto("exec") /\ text' = text
    <3>1. StackOK' BY <1>0, <1>a, <1>5, <2>2, Executing, GotoLemma DEF GetKey, SessionPCs
    <3> QED BY <1>0, <1>5, <2>1, <2>2, <3>1 DEF GetKey, RestOK
  <2>3. CASE text' = SubSeq(text, 1, Len(text) - 1) /\ stack' = stack
    <3>1. text' \in Seq(Chars) /\ Len(text') <= MaxText
      <4>1. text \in Seq(Chars) /\ Len(text) <= MaxText BY <1>0 DEF RestOK
      <4>2. \E c : c \in Chars BY <2>1
      <4>3. SubSeq(text, 1, Len(text) - 1) \in Seq(Chars)
            /\ Len(SubSeq(text, 1, Len(text) - 1)) <= Len(text)
        BY <4>1, <4>2, LineTypes
      <4>4. Len(text') \in Nat /\ Len(text) \in Nat BY <2>3, <4>1, <4>3, LenProperties
      <4> QED BY <2>3, <4>1, <4>3, <4>4, BoundsAssumption
    <3> QED BY <1>0, <1>5, <2>1, <2>3, <3>1 DEF GetKey, StackOK, RestOK
  <2>4. CASE text' = (IF Len(text) < MaxText THEN Append(text, Head(keyq)) ELSE text)
             /\ stack' = stack
    <3>1. text' \in Seq(Chars) /\ Len(text') <= MaxText
      BY <1>0, <2>1, <2>4, LineTypes, LenProperties, BoundsAssumption DEF RestOK
    <3> QED BY <1>0, <1>5, <2>1, <2>4, <3>1 DEF GetKey, StackOK, RestOK
  <2> QED BY <1>5, <2>2, <2>3, <2>4 DEF GetKey
<1>6. CASE ExecCommand
  <2>0. stack # <<>> /\ Top \in Frame /\ Depth \in 1..MaxDepth
    BY <1>6, Executing DEF ExecCommand
  <2>1. /\ stack # <<>> /\ iflag' = iflag /\ tflag' = tflag /\ Top \in Frame
        /\ Depth \in 1..Len(stack)
    BY <1>6, <2>0, BoundsAssumption DEF ExecCommand, Depth
  <2>2. ASSUME NEW cmd \in {"X", "T"}
        PROVE  Ended(cmd) \in Seq(Frame) /\ Len(Ended(cmd)) = Len(stack)
    <3>1. [Top EXCEPT !.pc = "unhook", !.cmd = cmd] \in Frame BY <2>1 DEF Frame, SessionPCs
    <3>2. Ended(cmd) = [stack EXCEPT ![Depth] = [Top EXCEPT !.pc = "unhook", !.cmd = cmd]]
      BY <1>0, <2>1 DEF Ended, Top, StackOK
    <3> QED BY <1>0, <2>1, <3>1, <3>2, ExceptSeq DEF StackOK, Depth
  <2>3. StackOK'
    <3>1. CASE stack' = Ended("X") BY <1>0, <2>1, <2>2, <3>1 DEF StackOK
    <3>2. CASE stack' = SavedTF(Ended("T"), TRUE)
      BY <1>0, <2>1, <2>2, <3>2, SavedTFLemma DEF StackOK
    <3>3. CASE Goto("loop") BY <1>0, <1>a, <2>1, <3>3, GotoLemma DEF SessionPCs
    <3> QED BY <1>6, <3>1, <3>2, <3>3 DEF ExecCommand
  <2>4. text' \in Seq(Chars) /\ Len(text') <= MaxText
    BY <1>6, EmptySeq, BoundsAssumption DEF ExecCommand
  <2> QED BY <1>0, <1>6, <2>3, <2>4 DEF ExecCommand, RestOK
<1>7. CASE DebuggerUnhook
  <2>1. StackOK' BY <1>0, <1>a, <1>7, Executing, GotoLemma DEF DebuggerUnhook, SessionPCs
  <2> QED BY <1>0, <1>7, <2>1 DEF DebuggerUnhook, RestOK, Gates, LinuxGate
<1>8. CASE DebuggerClear
  <2>1. StackOK' BY <1>0, <1>a, <1>8, Executing, GotoLemma DEF DebuggerClear, SessionPCs
  <2> QED BY <1>0, <1>8, <2>1 DEF DebuggerClear, RestOK, States
<1>9. CASE StubCli
  <2>1. StackOK' BY <1>0, <1>a, <1>9, Executing, GotoLemma DEF StubCli, SessionPCs
  <2> QED BY <1>0, <1>9, <2>1 DEF StubCli, RestOK
<1>10. CASE StubReturn
  <2>1. StackOK' BY <1>0, <1>10, Executing, ReturnLemma DEF StubReturn
  <2> QED BY <1>0, <1>10, <2>1 DEF StubReturn, RestOK
<1> QED BY <1>1, <1>2, <1>3, <1>4, <1>5, <1>6, <1>7, <1>8, <1>9, <1>10 DEF Debugger

LEMMA KeyboardTypes ==
  TypeOK /\ (Keyboard \/ \E ev \in UserEvents : KbdInterrupt(ev)) => TypeOK'
<1> SUFFICES ASSUME TypeOK, Keyboard \/ \E ev \in UserEvents : KbdInterrupt(ev)
             PROVE  StackOK' /\ RestOK'
  BY TypeSplit DEF TypeOK, StackOK, RestOK
<1>0. StackOK /\ RestOK BY TypeSplit
<1> USE DEF ice, line, cpu
<1>1. ASSUME NEW ev \in UserEvents, KbdInterrupt(ev) PROVE StackOK' /\ RestOK'
  <2>1. StackOK' BY <1>0, <1>1, EnterLemma DEF KbdInterrupt, StackOK
  <2>2. kbd' \in [pc : KbdPCs, ev : Events, site : {"hooked", "other"}]
    <3>1. ev \in Events BY EventsAssumption
    <3>2. \E site \in {"hooked", "other"} : kbd' = [pc |-> "fake", ev |-> ev, site |-> site]
      BY <1>1 DEF KbdInterrupt
    <3> QED BY <3>1, <3>2 DEF KbdPCs
  <2>3. /\ running_state' = running_state /\ regs' = regs /\ gate' = gate /\ timer' = timer
        /\ keyq' = keyq /\ text' = text
    BY <1>1 DEF KbdInterrupt
  <2> QED BY <1>0, <2>1, <2>2, <2>3 DEF RestOK
<1>2. CASE FakeKbdEvent
  BY <1>0, <1>2 DEF FakeKbdEvent, KbdGoto, RestOK, StackOK, KbdPCs
<1>3. CASE KbdHandler
  <2>1. StackOK' BY <1>0, <1>3 DEF KbdHandler, KbdSetsIF, StackOK
  <2>2. kbd' \in [pc : KbdPCs, ev : Events, site : {"hooked", "other"}]
    BY <1>0, <1>3 DEF KbdHandler, KbdGoto, RestOK, KbdPCs
  <2>3. ASSUME NEW c \in Chars, PutKey(c) PROVE keyq' \in Seq(Chars) /\ Len(keyq') <= MaxKeys
    BY <1>0, <2>3, LineTypes, LenProperties, BoundsAssumption DEF PutKey, RestOK
  <2>4. kbd.ev # "release" => (IF kbd.ev = "hotkey" THEN "q" ELSE kbd.ev) \in Chars
    BY <1>0 DEF RestOK, Events, Chars
  <2>5. keyq' \in Seq(Chars) /\ Len(keyq') <= MaxKeys
    BY <1>0, <1>3, <2>3, <2>4 DEF KbdHandler, RestOK
  <2> QED BY <1>0, <1>3, <2>1, <2>2, <2>5 DEF KbdHandler, RestOK
<1>4. CASE KbdRequest
  BY <1>0, <1>4 DEF KbdRequest, KbdGoto, RestOK, StackOK, KbdPCs, States
<1>5. CASE KbdHookFirst
  <2>1. StackOK' BY <1>0, <1>5 DEF KbdHookFirst, KbdSetsIF, StackOK
  <2>2. gate' \in Gates BY <1>0, <1>5 DEF KbdHookFirst, RestOK, Gates
  <2>3. kbd' \in [pc : KbdPCs, ev : Events, site : {"hooked", "other"}]
    BY <1>0, <1>5 DEF KbdHookFirst, KbdGoto, RestOK, KbdPCs
  <2> QED BY <1>0, <1>5, <2>1, <2>2, <2>3 DEF KbdHookFirst, RestOK
<1>6. CASE KbdHookLast
  <2>1. StackOK' BY <1>0, <1>6 DEF KbdHookLast, KbdSetsIF, StackOK
  <2>2. gate' \in Gates BY <1>0, <1>6 DEF KbdHookLast, RestOK, Gates
  <2>3. kbd' \in [pc : KbdPCs, ev : Events, site : {"hooked", "other"}]
    BY <1>0, <1>6 DEF KbdHookLast, KbdGoto, RestOK, KbdPCs
  <2> QED BY <1>0, <1>6, <2>1, <2>2, <2>3 DEF KbdHookLast, RestOK
<1>7. CASE KbdReturn
  <2>1. StackOK'
    BY <1>0, <1>7, ReturnLemma DEF KbdReturn, KbdExecutes, Executes, StackOK
  <2> QED BY <1>0, <1>7, <2>1 DEF KbdReturn, KbdGoto, RestOK, KbdPCs
<1> QED BY <1>1, <1>2, <1>3, <1>4, <1>5, <1>6, <1>7 DEF Keyboard

\* Every variable keeps its type, wherever the keyboard is served.
THEOREM TypeCorrect == Spec => []TypeOK
<1>1. Init => TypeOK BY InitTypeOK
<1>2. TypeOK /\ [Next]_vars => TypeOK'
  <2>1. TypeOK /\ UNCHANGED vars => TypeOK' BY DEF TypeOK, vars
  <2> QED BY <2>1, LinuxTypes, DebuggerTypes, KeyboardTypes DEF Next
<1> QED BY <1>1, <1>2, PTL DEF Spec

-----------------------------------------------------------------------------
(***************************************************************************)
(* RUNNING is never left behind by a session, wherever the keyboard is     *)
(* served.  RunningSession is inductive with the types: only IceClaim      *)
(* writes RUNNING, in the frame it makes ice.regs point to, and that frame *)
(* stops being active by the reset of running_state alone, although the    *)
(* session may have lost the state to a Ctrl-Q on another CPU meanwhile.   *)
(***************************************************************************)
RunFrame == running_state = RUNNING => regs \in 1..Depth /\ stack[regs].pc \in ActivePCs

LEMMA RunFrameLemma == RunFrame <=> RunningSession
BY DEF RunFrame, RunningSession, Active

LEMMA RunPush ==
  ASSUME StackOK, RunFrame, NEW kind, NEW pc, Push(kind, pc), UNCHANGED ice
  PROVE  RunFrame'
BY DepthNat DEF RunFrame, Push, ice

LEMMA RunPop ==
  ASSUME StackOK, RunFrame, Pop, Top.pc \notin ActivePCs, UNCHANGED ice
  PROVE  RunFrame'
BY DepthNat DEF RunFrame, Pop, ice, Top

LEMMA RunEdit ==
  ASSUME StackOK, RunFrame, NEW f, Edit(f), UNCHANGED ice,
         Top.pc \in ActivePCs => f.pc \in ActivePCs
  PROVE  RunFrame'
BY DepthNat DEF RunFrame, Edit, ice, Top

\* A step of the session on top that leaves it active, or was never part of it.
LEMMA RunGoto ==
  ASSUME TypeOK, RunFrame, NEW from, NEW pc \in SessionPCs, Executes(Vectors, from), Goto(pc),
         iflag' \in BOOLEAN, tflag' \in BOOLEAN, UNCHANGED ice,
         from \in ActivePCs => pc \in ActivePCs
  PROVE  RunFrame'
<1>1. StackOK /\ stack # <<>> /\ Top \in Frame /\ Top.pc = from BY Executing
<1> DEFINE f == [Top EXCEPT !.pc = pc]
<1>2. Edit(f) BY <1>1, GotoLemma
<1>3. f.pc = pc BY <1>1 DEF Frame
<1> HIDE DEF f
<1> QED BY <1>1, <1>2, <1>3, RunEdit

\* Writing a saved TF moves no session on.
LEMMA SavedTFpc ==
  ASSUME NEW s \in Seq(Frame), NEW b \in BOOLEAN
  PROVE  \A i \in 1..Len(s) : SavedTF(s, b)[i].pc = s[i].pc
<1>1. \A i \in 1..Len(s) : s[i] \in Frame BY ElementOfSeq
<1>2. DOMAIN s = 1..Len(s) BY LenProperties
<1> QED BY <1>1, <1>2 DEF SavedTF, Frame

\* The top frame goes on to an active pc and a saved TF may be written.
LEMMA RunSaved ==
  ASSUME StackOK, RunFrame, UNCHANGED ice,
         NEW s \in Seq(Frame), Len(s) = Depth, NEW b \in BOOLEAN,
         \A i \in 1..Depth : s[i].pc = stack[i].pc \/ s[i].pc \in ActivePCs,
         stack' = s \/ stack' = SavedTF(s, b)
  PROVE  RunFrame'
<1>1. Len(stack') = Len(s) BY SavedTFLemma
<1>2. Depth' = Depth BY <1>1 DEF Depth
<1>3. \A i \in 1..Depth : stack'[i].pc = s[i].pc BY SavedTFpc
<1> QED BY <1>2, <1>3 DEF RunFrame, ice

LEMMA RunDebugger == TypeOK /\ TypeOK' /\ RunFrame /\ Debugger => RunFrame'
<1> SUFFICES ASSUME TypeOK, TypeOK', RunFrame, Debugger PROVE RunFrame' OBVIOUS
<1>0. /\ StackOK /\ iflag \in BOOLEAN /\ tflag \in BOOLEAN
      /\ iflag' \in BOOLEAN /\ tflag' \in BOOLEAN
  BY DEF TypeOK, StackOK
<1>1. CASE IceDispatch
  <2>1. Executes(Vectors, "entry") /\ UNCHANGED ice BY <1>1 DEF IceDispatch
  <2>2. PICK pc \in {"claim", "iret"} : Goto(pc) BY <1>1 DEF IceDispatch
  <2> QED BY <1>0, <2>1, <2>2, RunGoto DEF SessionPCs, ActivePCs
<1>2. CASE IceClaim
  <2>1. PICK pc \in {"start", "hook"} : Goto(pc) BY <1>2 DEF IceClaim
  <2>2. stack # <<>> /\ Top \in Frame /\ regs' = Depth BY <1>2, Executing DEF IceClaim
  <2>3. Edit([Top EXCEPT !.pc = pc]) BY <1>0, <2>1, <2>2, GotoLemma DEF SessionPCs
  <2>4. [Top EXCEPT !.pc = pc].pc = pc BY <2>2 DEF Frame
  <2>5. Depth \in Nat BY <1>0, DepthNat
  <2> QED BY <2>2, <2>3, <2>4, <2>5 DEF RunFrame, Edit, ActivePCs
<1>3. CASE IceHookTimer
  BY <1>0, <1>3, RunGoto DEF IceHookTimer, SessionPCs, ActivePCs
<1>4. CASE DebuggerStart
  <2> DEFINE s == [stack EXCEPT ![Depth].pc = "loop"]
  <2>0. /\ stack # <<>> /\ Top \in Frame /\ Top.pc = "start" /\ Depth \in 1..MaxDepth
        /\ stack' = SavedTF(s, FALSE) /\ UNCHANGED ice
    BY <1>4, Executing DEF DebuggerStart
  <2>1. Depth \in 1..Len(stack) BY <2>0, BoundsAssumption DEF Depth
  <2>2. s = [stack EXCEPT ![Depth] = [Top EXCEPT !.pc = "loop"]] BY DEF Top
  <2>3. [Top EXCEPT !.pc = "loop"] \in Frame BY <2>0 DEF Frame, SessionPCs
  <2>4. s \in Seq(Frame) /\ Len(s) = Depth
        /\ \A i \in 1..Depth : s[i] = IF i = Depth THEN [Top EXCEPT !.pc = "loop"] ELSE stack[i]
    BY <1>0, <2>1, <2>2, <2>3, ExceptSeq DEF StackOK, Depth
  <2>5. [Top EXCEPT !.pc = "loop"].pc = "loop" BY <2>0 DEF Frame
  <2> HIDE DEF s
  <2> QED BY <1>0, <2>0, <2>4, <2>5, RunSaved DEF ActivePCs
<1>5. CASE GetKey
  <2>1. CASE Goto("exec")
    BY <1>0, <1>5, <2>1, RunGoto DEF GetKey, SessionPCs, ActivePCs
  <2>2. CASE stack' = stack BY <1>5, <2>2 DEF GetKey, RunFrame, ice, Depth
  <2> QED BY <1>5, <2>1, <2>2 DEF GetKey
<1>6. CASE ExecCommand
  <2>1. Executes(Vectors, "exec") /\ UNCHANGED ice BY <1>6 DEF ExecCommand
  <2>a. stack # <<>> /\ Top \in Frame /\ Depth \in 1..MaxDepth BY <2>1, Executing
  <2>2. stack # <<>> /\ Top \in Frame /\ Depth \in 1..Len(stack)
    BY <2>a, BoundsAssumption DEF Depth
  <2>3. CASE Goto("loop") BY <1>0, <1>6, <2>1, <2>3, RunGoto DEF SessionPCs, ActivePCs
  <2>4. ASSUME NEW cmd \in {"X", "T"}, stack' = Ended(cmd) \/ stack' = SavedTF(Ended(cmd), TRUE)
        PROVE  RunFrame'
    <3> DEFINE f == [Top EXCEPT !.pc = "unhook", !.cmd = cmd]
    <3>1. f \in Frame /\ f.pc = "unhook" BY <2>2 DEF Frame, SessionPCs
    <3>2. Ended(cmd) = [stack EXCEPT ![Depth] = f] BY <1>0, <2>2 DEF Ended, Top, StackOK
    <3> HIDE DEF f
    <3>3. Ended(cmd) \in Seq(Frame) /\ Len(Ended(cmd)) = Depth
          /\ \A i \in 1..Depth : Ended(cmd)[i] = IF i = Depth THEN f ELSE stack[i]
      BY <1>0, <2>2, <3>1, <3>2, ExceptSeq DEF StackOK, Depth
    <3>4. \A i \in 1..Depth : Ended(cmd)[i].pc = stack[i].pc \/ Ended(cmd)[i].pc \in ActivePCs
      BY <3>1, <3>3 DEF ActivePCs
    <3> QED BY <1>0, <2>1, <2>4, <3>3, <3>4, RunSaved
  <2> QED BY <1>6, <2>3, <2>4 DEF ExecCommand
<1>7. CASE DebuggerUnhook
  BY <1>0, <1>7, RunGoto DEF DebuggerUnhook, SessionPCs, ActivePCs
<1>8. CASE DebuggerClear BY <1>8 DEF DebuggerClear, RunFrame, NOT_RUNNING, RUNNING
<1>9. CASE StubCli
  BY <1>0, <1>9, RunGoto DEF StubCli, SessionPCs, ActivePCs
<1>10. CASE StubReturn
  <2>1. stack # <<>> /\ Top.pc = "iret" /\ Return /\ UNCHANGED ice
    BY <1>10, Executing DEF StubReturn
  <2> QED BY <1>0, <2>1, ReturnLemma, RunPop DEF ActivePCs
<1> QED BY <1>1, <1>2, <1>3, <1>4, <1>5, <1>6, <1>7, <1>8, <1>9, <1>10 DEF Debugger

LEMMA RunOthers ==
  TypeOK /\ RunFrame /\ (Linux \/ Lapic \/ DebugTrap \/ Keyboard \/ \E ev \in UserEvents : KbdInterrupt(ev))
    => RunFrame'
<1> SUFFICES ASSUME TypeOK, RunFrame,
                    Linux \/ Lapic \/ DebugTrap \/ Keyboard
                      \/ \E ev \in UserEvents : KbdInterrupt(ev)
             PROVE  RunFrame'
  OBVIOUS
<1>0. StackOK BY DEF TypeOK, StackOK
<1>1. CASE Int3 \/ TimerToIce \/ DebugTrap
  <2>1. PICK kind \in Vectors : Enter(kind, "entry", FALSE)
    BY <1>1 DEF Int3, TimerToIce, DebugTrap, Vectors
  <2>2. Push(kind, "entry") BY <1>0, <2>1, EnterLemma DEF SessionPCs
  <2> QED BY <1>0, <1>1, <2>2, RunPush DEF Int3, TimerToIce, DebugTrap
<1>2. CASE TimerToNowhere
  <2>1. Push("wild", "nested") BY <1>0, <1>2, EnterLemma DEF TimerToNowhere
  <2> QED BY <1>0, <1>2, <2>1, RunPush DEF TimerToNowhere
<1>3. ASSUME NEW ev \in UserEvents, KbdInterrupt(ev) PROVE RunFrame'
  <2>1. CASE Enter("kbd", "nested", FALSE)
    <3>1. Push("kbd", "nested") BY <1>0, <2>1, EnterLemma
    <3> QED BY <1>0, <1>3, <3>1, RunPush DEF KbdInterrupt
  <2>2. CASE UNCHANGED cpu BY <1>3, <2>2 DEF KbdInterrupt, cpu, RunFrame, ice, Depth
  <2> QED BY <1>3, <2>1, <2>2 DEF KbdInterrupt
<1>4. CASE KbdReturn
  <2>1. CASE kbd.site = "hooked"
    <3>1. kbd.site # "other" BY <2>1
    <3>2. stack # <<>> /\ Top.pc = "nested" /\ Return /\ UNCHANGED ice
      BY <1>4, <2>1, <3>1 DEF KbdReturn, KbdExecutes, Executes
    <3> QED BY <1>0, <3>2, ReturnLemma, RunPop DEF ActivePCs
  <2>2. CASE kbd.site # "hooked" BY <1>4, <2>2 DEF KbdReturn, cpu, RunFrame, ice, Depth
  <2> QED BY <2>1, <2>2
<1>5. CASE KbdRequest BY <1>5 DEF KbdRequest, RunFrame, ENTERING, RUNNING
<1>6. CASE LinuxFlag \/ TimerExpires \/ TimerToLinux
  BY <1>6 DEF LinuxFlag, TimerExpires, TimerToLinux, RunFrame, ice, cpu, Depth
<1>7. CASE FakeKbdEvent \/ KbdHandler \/ KbdHookFirst \/ KbdHookLast
  BY <1>7 DEF FakeKbdEvent, KbdHandler, KbdHookFirst, KbdHookLast, RunFrame, ice, cpu, Depth
<1> QED BY <1>1, <1>2, <1>3, <1>4, <1>5, <1>6, <1>7 DEF Linux, Lapic, Keyboard

\* Keys are never swallowed for a debugger that does not run: while
\* running_state is RUNNING, the frame ice.regs points to is a session, on a
\* machine with any number of CPUs and for any depth.
THEOREM RunningHasSession == Spec => []RunningSession
<1>1. Init => RunFrame BY DEF Init, RunFrame, NOT_RUNNING, RUNNING
<1>2. TypeOK /\ TypeOK' /\ RunFrame /\ [Next]_vars => RunFrame'
  <2>1. RunFrame /\ UNCHANGED vars => RunFrame' BY DEF RunFrame, vars, ice, cpu, Depth
  <2> QED BY <2>1, RunDebugger, RunOthers DEF Next
<1> QED BY <1>1, <1>2, TypeCorrect, RunFrameLemma, PTL DEF Spec

-----------------------------------------------------------------------------
(***************************************************************************)
(* The inductive invariant for a keyboard served by the hooked CPU.  None  *)
(* of the safety properties is inductive alone: that a tick does not open  *)
(* a second session rests on running_state being RUNNING in the only       *)
(* active frame, that Ctrl-Q cannot overwrite RUNNING on interrupts being  *)
(* masked from the test of running_state to the store of the gate.         *)
(***************************************************************************)

\* Code that runs with interrupts enabled, or resumes with a trap due.
InterruptiblePCs == {"start", "loop", "exec", "unhook", "clear", "leave", "nested"}

FramesOK ==
  /\ \A i \in 1..Depth : stack[i].kind # "wild" /\ (stack[i].kind = "kbd" <=> stack[i].pc = "nested")
  /\ \A i \in 1..(Depth - 1) : stack[i].pc \in InterruptiblePCs
  /\ Depth > 0 /\ (iflag \/ tflag) => Top.pc \in InterruptiblePCs

\* The keyboard handler is one frame, and nothing interrupts it before "done".
KbdOK ==
  /\ kbd.site = "hooked"
  /\ \A i, j \in 1..Depth : stack[i].kind = "kbd" /\ stack[j].kind = "kbd" => i = j
  /\ (kbd.pc # "idle") <=> (\E i \in 1..Depth : stack[i].kind = "kbd")
  /\ kbd.pc \notin {"idle", "done"} => Depth > 0 /\ Top.kind = "kbd" /\ ~iflag /\ ~tflag

\* running_state and the vector, as far as the keyboard handler has come.
GateOK ==
  /\ kbd.pc = "request" => running_state = NOT_RUNNING
  /\ kbd.pc = "hook" => running_state = ENTERING /\ gate = LinuxGate
  /\ kbd.pc = "set" => running_state = ENTERING /\ gate = [middle |-> "ice", low |-> "linux"]
  /\ gate \notin {LinuxGate, IceGate} => kbd.pc = "set"
  /\ running_state = ENTERING /\ gate = LinuxGate => kbd.pc = "hook"
  /\ \A i \in 1..Depth : stack[i].pc = "clear" => gate = LinuxGate

ClaimOK == Depth > 0 /\ Top.pc = "claim" => running_state # RUNNING

CmdOK ==
  \A i \in 1..Depth : /\ stack[i].cmd # "none" => stack[i].pc \in {"unhook", "clear", "leave", "iret"}
                      /\ stack[i].pc \in {"loop", "exec"} => ~stack[i].tf

\* A handler whose event is no hotkey is preempted by Linux's timer only.
PreemptOK ==
  /\ kbd.pc # "idle" /\ kbd.ev # "hotkey" =>
       Depth > 0 /\ Top.kind = "kbd" /\ ~tflag /\ (iflag => running_state = NOT_RUNNING)
  /\ kbd.pc \in {"request", "hook", "set"} => kbd.ev = "hotkey"

\* SessionExclusive, frame by frame.
ExclOK ==
  /\ running_state = RUNNING => regs \in 1..Depth
  /\ \A i \in 1..Depth : stack[i].pc \in ActivePCs <=> (running_state = RUNNING /\ i = regs)

SessionInv ==
  /\ FramesOK /\ KbdOK /\ GateOK /\ ClaimOK /\ CmdOK /\ PreemptOK
  /\ ExclOK /\ HookedOnlyWhileEngaged /\ ResumeHonoured

LEMMA Exclusive == ASSUME TypeOK, ExclOK PROVE SessionExclusive
BY DEF ExclOK, SessionExclusive, Active

LEMMA InitInv == Init /\ KbdSites = {"hooked"} => SessionInv
<1> SUFFICES ASSUME Init PROVE SessionInv OBVIOUS
<1>1. Depth = 0 BY EmptySeq DEF Init, Depth
<1>2. 1..Depth = {} /\ 1..(Depth - 1) = {} BY <1>1
<1> HIDE DEF Depth
<1> QED BY <1>1, <1>2 DEF Init, SessionInv, FramesOK, KbdOK, GateOK, ClaimOK, CmdOK, PreemptOK,
          ExclOK, HookedOnlyWhileEngaged, ResumeHonoured, NOT_RUNNING, RUNNING, ENTERING

-----------------------------------------------------------------------------
\* The gate of a debugger vector is entered from Linux, or from a handler
\* that is done and whose event was Ctrl-Q.
LEMMA PushIce ==
  ASSUME TypeOK, TypeOK', SessionInv, NEW kind \in Vectors, Push(kind, "entry"),
         iflag' = FALSE, tflag' = FALSE,
         Depth > 0 => iflag \/ tflag,
         kbd.pc # "idle" => kbd.ev = "hotkey" /\ kbd.pc = "done",
         UNCHANGED <<running_state, regs, gate, kbd>>
  PROVE  SessionInv'
<1> DEFINE f == [kind |-> kind, pc |-> "entry", tf |-> tflag, if |-> iflag, cmd |-> "none"]
<1>1. /\ Depth \in Nat /\ Depth' = Depth + 1
      /\ \A i \in 1..Depth : stack'[i] = stack[i]
      /\ stack'[Depth'] = f
  BY DepthNat DEF Push, TypeOK, StackOK
<1>2. f.kind \in Vectors /\ f.pc = "entry" /\ f.cmd = "none" /\ f.tf = tflag OBVIOUS
<1>3. \A i \in 1..Depth' : i \in 1..Depth \/ i = Depth' BY <1>1
<1>4. Top' = f BY <1>1 DEF Top, Depth
<1> HIDE DEF f
<1> USE DEF SessionInv
<1>5. FramesOK'
  <2>1. \A i \in 1..Depth : stack[i].pc \in InterruptiblePCs
    BY <1>1 DEF FramesOK, Top
  <2> QED BY <1>1, <1>2, <1>3, <1>4, <2>1 DEF FramesOK, Vectors
<1>6. KbdOK' BY <1>1, <1>2, <1>3, <1>4 DEF KbdOK, Vectors
<1>7. GateOK' BY <1>1, <1>2, <1>3 DEF GateOK
<1>8. ClaimOK' BY <1>2, <1>4 DEF ClaimOK
<1>9. CmdOK' BY <1>1, <1>2, <1>3 DEF CmdOK
<1>10. PreemptOK' BY DEF PreemptOK
<1>11. ExclOK'
  <2>1. running_state = RUNNING => regs \in 1..Depth /\ regs \in 1..Depth' /\ regs # Depth'
    BY <1>1 DEF ExclOK
  <2>2. \A i \in 1..Depth :
          stack'[i].pc \in ActivePCs <=> (running_state' = RUNNING /\ i = regs')
    BY <1>1 DEF ExclOK
  <2>3. stack'[Depth'].pc \notin ActivePCs BY <1>1, <1>2 DEF ActivePCs
  <2> QED BY <1>3, <2>1, <2>2, <2>3 DEF ExclOK
<1>12. HookedOnlyWhileEngaged' BY DEF HookedOnlyWhileEngaged
<1>13. ResumeHonoured' BY <1>1, <1>2, <1>3 DEF ResumeHonoured
<1> QED BY <1>5, <1>6, <1>7, <1>8, <1>9, <1>10, <1>11, <1>12, <1>13

LEMMA PushKbd ==
  ASSUME TypeOK, TypeOK', SessionInv, NEW ev \in Events, Push("kbd", "nested"),
         iflag' = FALSE, tflag' = FALSE, iflag, kbd.pc = "idle",
         kbd' = [pc |-> "fake", ev |-> ev, site |-> "hooked"],
         UNCHANGED <<running_state, regs, gate>>
  PROVE  SessionInv'
<1> DEFINE f == [kind |-> "kbd", pc |-> "nested", tf |-> tflag, if |-> iflag, cmd |-> "none"]
<1>1. /\ Depth \in Nat /\ Depth' = Depth + 1
      /\ \A i \in 1..Depth : stack'[i] = stack[i]
      /\ stack'[Depth'] = f
  BY DepthNat DEF Push, TypeOK, StackOK
<1>2. f.kind = "kbd" /\ f.pc = "nested" /\ f.cmd = "none" OBVIOUS
<1>3. \A i \in 1..Depth' : i \in 1..Depth \/ i = Depth' BY <1>1
<1>4. Top' = f BY <1>1 DEF Top, Depth
<1> HIDE DEF f
<1> USE DEF SessionInv
<1>5. FramesOK'
  <2>1. \A i \in 1..Depth : stack[i].pc \in InterruptiblePCs
    BY <1>1 DEF FramesOK, Top
  <2> QED BY <1>1, <1>2, <1>3, <1>4, <2>1 DEF FramesOK
<1>6. KbdOK'
  <2>1. \A i \in 1..Depth : stack[i].kind # "kbd" BY DEF KbdOK
  <2>2. Depth' \in 1..Depth' BY <1>1
  <2> QED BY <1>1, <1>2, <1>3, <1>4, <2>1, <2>2 DEF KbdOK
<1>7. GateOK' BY <1>1, <1>2, <1>3 DEF GateOK
<1>8. ClaimOK' BY <1>2, <1>4 DEF ClaimOK
<1>9. CmdOK' BY <1>1, <1>2, <1>3 DEF CmdOK
<1>10. PreemptOK' BY <1>1, <1>2, <1>4 DEF PreemptOK
<1>11. ExclOK'
  <2>1. running_state = RUNNING => regs \in 1..Depth /\ regs \in 1..Depth' /\ regs # Depth'
    BY <1>1 DEF ExclOK
  <2>2. \A i \in 1..Depth :
          stack'[i].pc \in ActivePCs <=> (running_state' = RUNNING /\ i = regs')
    BY <1>1 DEF ExclOK
  <2>3. stack'[Depth'].pc \notin ActivePCs BY <1>1, <1>2 DEF ActivePCs
  <2> QED BY <1>3, <2>1, <2>2, <2>3 DEF ExclOK
<1>12. HookedOnlyWhileEngaged' BY DEF HookedOnlyWhileEngaged
<1>13. ResumeHonoured' BY <1>1, <1>2, <1>3 DEF ResumeHonoured
<1> QED BY <1>5, <1>6, <1>7, <1>8, <1>9, <1>10, <1>11, <1>12, <1>13

-----------------------------------------------------------------------------
\* Linux, the timer and the entry of the gates.
LEMMA EntryInv ==
  ASSUME TypeOK, TypeOK', SessionInv, Linux \/ Lapic \/ DebugTrap
  PROVE  SessionInv'
<1>0. StackOK /\ iflag \in BOOLEAN /\ tflag \in BOOLEAN BY DEF TypeOK, StackOK
<1>1. kbd.pc # "idle" => Depth > 0 BY <1>0, DepthNat DEF SessionInv, KbdOK
<1>2. kbd.pc \notin {"idle", "done"} => ~iflag /\ ~tflag BY DEF SessionInv, KbdOK
<1>3. stack = <<>> => Depth = 0 BY EmptySeq DEF Depth
<1>4. CASE LinuxFlag
  <2>1. Depth = 0 /\ stack' = stack /\ Depth' = Depth BY <1>3, <1>4 DEF LinuxFlag, Depth
  <2>2. Depth' = 0 BY <2>1
  <2> HIDE DEF Depth
  <2> QED BY <1>1, <1>4, <2>1, <2>2 DEF LinuxFlag, ice, SessionInv, FramesOK, KbdOK, GateOK, ClaimOK,
         CmdOK, PreemptOK, ExclOK, HookedOnlyWhileEngaged, ResumeHonoured
<1>5. CASE Int3
  <2>1. Push("int3", "entry") /\ iflag' = FALSE /\ tflag' = FALSE
    BY <1>0, <1>5, EnterLemma DEF Int3, Vectors, SessionPCs
  <2>2. ~(Depth > 0) /\ kbd.pc = "idle" BY <1>1, <1>3, <1>5 DEF Int3
  <2> QED BY <1>5, <2>1, <2>2, PushIce DEF Int3, ice, Vectors
<1>6. CASE TimerExpires \/ TimerToLinux
  <2>1. UNCHANGED <<cpu, ice, gate, kbd>> BY <1>6 DEF TimerExpires, TimerToLinux
  <2>2. stack' = stack /\ Depth' = Depth /\ Top' = Top BY <2>1 DEF cpu, Top, Depth
  <2> QED BY <2>1, <2>2 DEF cpu, ice, SessionInv, FramesOK, KbdOK, GateOK, ClaimOK, CmdOK,
         PreemptOK, ExclOK, HookedOnlyWhileEngaged, ResumeHonoured
<1>7. CASE TimerToIce
  <2>1. Push("timer", "entry") /\ iflag' = FALSE /\ tflag' = FALSE
    BY <1>0, <1>7, EnterLemma DEF TimerToIce, Vectors, SessionPCs
  <2>2. kbd.pc # "idle" => kbd.ev = "hotkey" /\ kbd.pc = "done"
    BY <1>2, <1>7 DEF TimerToIce, SessionInv, PreemptOK, HookedOnlyWhileEngaged, LinuxGate, IceGate
  <2> QED BY <1>7, <2>1, <2>2, PushIce DEF TimerToIce, ice, Vectors
<1>8. ~TimerToNowhere BY <1>2 DEF TimerToNowhere, SessionInv, GateOK
<1>9. CASE DebugTrap
  <2>1. Push("debug", "entry") /\ iflag' = FALSE /\ tflag' = FALSE
    BY <1>0, <1>9, EnterLemma DEF DebugTrap, Vectors, SessionPCs
  <2>2. kbd.pc # "idle" => kbd.ev = "hotkey" /\ kbd.pc = "done"
    BY <1>2, <1>9 DEF DebugTrap, SessionInv, PreemptOK
  <2> QED BY <1>9, <2>1, <2>2, PushIce DEF DebugTrap, ice, Vectors
<1> QED BY <1>4, <1>5, <1>6, <1>7, <1>8, <1>9 DEF Linux, Lapic

-----------------------------------------------------------------------------
(***************************************************************************)
(* The handlers of the debugger replace the top frame, which is no         *)
(* keyboard frame, so the keyboard handler is idle or done below it.       *)
(***************************************************************************)
LEMMA EditInv ==
  ASSUME TypeOK, TypeOK', SessionInv, NEW f \in Frame, Edit(f),
         Top.kind \in Vectors, f.kind = Top.kind, f.pc # "nested",
         tflag' = FALSE, kbd' = kbd,
         iflag' => f.pc \in InterruptiblePCs,
         gate' \in {LinuxGate, IceGate},
         running_state' = ENTERING => gate' = IceGate,
         running_state' = NOT_RUNNING => gate' = LinuxGate,
         \A i \in 1..(Depth - 1) : stack[i].pc = "clear" => gate' = LinuxGate,
         f.pc = "clear" => gate' = LinuxGate,
         f.pc = "claim" => running_state' # RUNNING,
         f.cmd # "none" => f.pc \in {"unhook", "clear", "leave", "iret"} /\ (f.tf <=> f.cmd = "T"),
         f.pc \in {"loop", "exec"} => ~f.tf,
         ExclOK'
  PROVE  SessionInv'
<1>1. /\ Depth \in Nat /\ Depth > 0 /\ Depth' = Depth
      /\ \A i \in 1..(Depth - 1) : stack'[i] = stack[i]
      /\ stack'[Depth] = f
  BY DepthNat DEF Edit, TypeOK, StackOK
<1>2. \A i \in 1..Depth : i \in 1..(Depth - 1) \/ i = Depth BY <1>1
<1>3. Top' = f /\ Top = stack[Depth] BY <1>1 DEF Top, Depth
<1>4. kbd.pc \in {"idle", "done"} BY DEF SessionInv, KbdOK, Vectors
<1> USE DEF SessionInv
<1>5. FramesOK' BY <1>1, <1>2, <1>3 DEF FramesOK, Vectors
<1>6. KbdOK'
  <2>1. \A i \in 1..Depth : stack'[i].kind = stack[i].kind BY <1>1, <1>2, <1>3
  <2> QED BY <1>1, <1>4, <2>1 DEF KbdOK
<1>7. GateOK' BY <1>1, <1>2, <1>4 DEF GateOK, LinuxGate, IceGate
<1>8. ClaimOK' BY <1>3 DEF ClaimOK
<1>9. CmdOK' BY <1>1, <1>2 DEF CmdOK
<1>10. PreemptOK' BY DEF PreemptOK, Vectors
<1>11. HookedOnlyWhileEngaged' BY DEF HookedOnlyWhileEngaged
<1>12. ResumeHonoured' BY <1>1, <1>2 DEF ResumeHonoured
<1> QED BY <1>5, <1>6, <1>7, <1>8, <1>9, <1>10, <1>11, <1>12

\* The session stays what it was.
LEMMA ExclKept ==
  ASSUME TypeOK, ExclOK, NEW f, Edit(f), f.pc \in ActivePCs <=> Top.pc \in ActivePCs,
         UNCHANGED <<running_state, regs>>
  PROVE  ExclOK'
<1>1. /\ Depth \in Nat /\ Depth > 0 /\ Depth' = Depth
      /\ \A i \in 1..(Depth - 1) : stack'[i] = stack[i]
      /\ stack'[Depth] = f /\ Top = stack[Depth]
  BY DepthNat DEF Edit, TypeOK, StackOK, Top
<1>2. \A i \in 1..Depth : i \in 1..(Depth - 1) \/ i = Depth BY <1>1
<1>3. \A i \in 1..Depth : stack'[i].pc \in ActivePCs <=> stack[i].pc \in ActivePCs
  BY <1>1, <1>2
<1> QED BY <1>1, <1>3 DEF ExclOK

\* What holds while a handler of the debugger executes.
LEMMA SessionExecuting ==
  ASSUME TypeOK, SessionInv, NEW pc, Executes(Vectors, pc)
  PROVE  /\ StackOK /\ stack # <<>> /\ Top \in Frame /\ Depth \in 1..MaxDepth
         /\ Top = stack[Depth] /\ Depth \in 1..Depth
         /\ Top.pc = pc /\ Top.kind \in Vectors /\ tflag = FALSE /\ iflag \in BOOLEAN
         /\ kbd.pc \in {"idle", "done"}
         /\ gate \in {LinuxGate, IceGate}
         /\ running_state = ENTERING => gate = IceGate
         /\ running_state = NOT_RUNNING => gate = LinuxGate
         /\ \A i \in 1..Depth : stack[i].pc = "clear" => gate = LinuxGate
         /\ pc \in ActivePCs <=> (running_state = RUNNING /\ regs = Depth)
         /\ pc \notin {"unhook", "clear", "leave", "iret"} => Top.cmd = "none"
         /\ Top.cmd # "none" => (Top.tf <=> Top.cmd = "T")
<1>1. /\ StackOK /\ stack # <<>> /\ Top \in Frame /\ Depth \in 1..MaxDepth
      /\ Top.pc = pc /\ Top.kind \in Vectors /\ tflag = FALSE
  BY Executing
<1>2. Top = stack[Depth] /\ Depth \in 1..Depth BY <1>1, BoundsAssumption DEF Top
<1>3. kbd.pc \in {"idle", "done"} BY <1>1 DEF SessionInv, KbdOK, Vectors
<1>4. /\ gate \in {LinuxGate, IceGate}
      /\ running_state = ENTERING => gate = IceGate
      /\ running_state = NOT_RUNNING => gate = LinuxGate
      /\ \A i \in 1..Depth : stack[i].pc = "clear" => gate = LinuxGate
  BY <1>3 DEF SessionInv, GateOK, HookedOnlyWhileEngaged
<1>5. pc \in ActivePCs <=> (running_state = RUNNING /\ regs = Depth)
  BY <1>1, <1>2 DEF SessionInv, ExclOK
<1>6. pc \notin {"unhook", "clear", "leave", "iret"} => Top.cmd = "none"
  BY <1>1, <1>2 DEF SessionInv, CmdOK
<1>7. Top.cmd # "none" => (Top.tf <=> Top.cmd = "T")
  BY <1>2 DEF SessionInv, ResumeHonoured
<1> QED BY <1>1, <1>2, <1>3, <1>4, <1>5, <1>6, <1>7 DEF StackOK

LEMMA TopLemma ==
  ASSUME NEW f \in Frame, NEW pc \in SessionPCs
  PROVE  /\ [f EXCEPT !.pc = pc] \in Frame
         /\ [f EXCEPT !.pc = pc].pc = pc
         /\ [f EXCEPT !.pc = pc].kind = f.kind
         /\ [f EXCEPT !.pc = pc].tf = f.tf
         /\ [f EXCEPT !.pc = pc].cmd = f.cmd
BY DEF Frame

LEMMA DispatchInv ==
  ASSUME TypeOK, TypeOK', SessionInv, IceDispatch
  PROVE  SessionInv'
<1> USE DEF SessionPCs, ActivePCs, InterruptiblePCs, ice, line
<1> DEFINE pc == IF running_state # RUNNING THEN "claim" ELSE "iret"
           f  == [Top EXCEPT !.pc = pc]
<1>0. pc \in SessionPCs /\ (pc = "claim" => running_state # RUNNING) /\ pc \in {"claim", "iret"}
  OBVIOUS
<1>1. Executes(Vectors, "entry") /\ Goto(pc)
      /\ UNCHANGED <<iflag, tflag, running_state, regs, gate, kbd>>
  BY DEF IceDispatch
<1> HIDE DEF pc
<1>2. /\ StackOK /\ stack # <<>> /\ Top \in Frame /\ Top.pc = "entry"
      /\ Top.kind \in Vectors /\ tflag = FALSE /\ iflag \in BOOLEAN
      /\ "entry" \notin {"unhook", "clear", "leave", "iret"} => Top.cmd = "none"
      /\ gate \in {LinuxGate, IceGate}
      /\ running_state = ENTERING => gate = IceGate
      /\ running_state = NOT_RUNNING => gate = LinuxGate
      /\ \A i \in 1..Depth : stack[i].pc = "clear" => gate = LinuxGate
  BY <1>1, SessionExecuting
<1>2a. Top.cmd = "none" /\ \A i \in 1..(Depth - 1) : stack[i].pc = "clear" => gate = LinuxGate
  BY <1>2, DepthNat
<1>3. ~iflag BY <1>2, EmptySeq DEF SessionInv, FramesOK, StackOK, Depth
<1>4. Edit(f) BY <1>0, <1>1, <1>2, GotoLemma
<1>5. f \in Frame /\ f.pc = pc /\ f.kind = Top.kind /\ f.cmd = Top.cmd BY <1>0, <1>2, TopLemma, ZenonT(40)
<1>6. ExclOK'
  <2>1. f.pc \notin ActivePCs /\ Top.pc \notin ActivePCs BY <1>0, <1>2, <1>5
  <2> QED BY <1>1, <1>4, <2>1, ExclKept DEF SessionInv
<1> HIDE DEF f
<1> QED BY <1>0, <1>1, <1>2, <1>2a, <1>3, <1>4, <1>5, <1>6, EditInv

LEMMA ClaimInv ==
  ASSUME TypeOK, TypeOK', SessionInv, IceClaim
  PROVE  SessionInv'
<1> USE DEF SessionPCs, ActivePCs, InterruptiblePCs, ice, line
<1> DEFINE pc == IF Top.kind = "timer" THEN "start" ELSE "hook"
           f  == [Top EXCEPT !.pc = pc]
<1>0. pc \in SessionPCs /\ pc \in {"start", "hook"} OBVIOUS
<1>1. /\ Executes(Vectors, "claim") /\ Goto(pc) /\ iflag' = (pc = "start")
      /\ regs' = Depth /\ running_state' = RUNNING /\ UNCHANGED <<tflag, gate, kbd>>
  BY DEF IceClaim
<1> HIDE DEF pc
<1>2. /\ StackOK /\ stack # <<>> /\ Top \in Frame /\ Top.pc = "claim"
      /\ Top.kind \in Vectors /\ tflag = FALSE /\ iflag \in BOOLEAN
      /\ "claim" \notin {"unhook", "clear", "leave", "iret"} => Top.cmd = "none"
      /\ gate \in {LinuxGate, IceGate}
      /\ \A i \in 1..Depth : stack[i].pc = "clear" => gate = LinuxGate
  BY <1>1, SessionExecuting
<1>2a. Top.cmd = "none" /\ \A i \in 1..(Depth - 1) : stack[i].pc = "clear" => gate = LinuxGate
  BY <1>2, DepthNat
<1>3. running_state # RUNNING
  BY <1>2, EmptySeq DEF SessionInv, ClaimOK, StackOK, Depth
<1>4. Edit(f)
  <2>1. iflag' \in BOOLEAN /\ tflag' \in BOOLEAN BY <1>1, <1>2
  <2> QED BY <1>0, <1>1, <1>2, <2>1, GotoLemma
<1>5. f \in Frame /\ f.pc = pc /\ f.kind = Top.kind /\ f.cmd = Top.cmd BY <1>0, <1>2, TopLemma, ZenonT(40)
<1> HIDE DEF f
<1>6. ExclOK'
  <2>1. /\ Depth \in Nat /\ Depth > 0 /\ Depth' = Depth
        /\ \A i \in 1..(Depth - 1) : stack'[i] = stack[i]
        /\ stack'[Depth] = f
    BY <1>4, DepthNat DEF Edit, TypeOK, StackOK
  <2>2. \A i \in 1..Depth : stack[i].pc \notin ActivePCs BY <1>3 DEF SessionInv, ExclOK
  <2>3. f.pc \in ActivePCs BY <1>0, <1>5
  <2>4. \A i \in 1..Depth : i \in 1..(Depth - 1) \/ i = Depth BY <2>1
  <2>5. \A i \in 1..(Depth - 1) : stack'[i].pc \notin ActivePCs /\ i # Depth BY <2>1, <2>2
  <2> QED BY <1>1, <2>1, <2>3, <2>4, <2>5 DEF ExclOK
<1>7. running_state' # ENTERING /\ running_state' # NOT_RUNNING
  BY <1>1 DEF RUNNING, ENTERING, NOT_RUNNING
<1> QED BY <1>0, <1>1, <1>2, <1>2a, <1>4, <1>5, <1>6, <1>7, EditInv

LEMMA HookTimerInv ==
  ASSUME TypeOK, TypeOK', SessionInv, IceHookTimer
  PROVE  SessionInv'
<1> USE DEF SessionPCs, ActivePCs, InterruptiblePCs, ice, line
<1> DEFINE f == [Top EXCEPT !.pc = "start"]
<1>1. /\ Executes(Vectors, "hook") /\ Goto("start")
      /\ gate' = IceGate /\ iflag' = TRUE /\ UNCHANGED <<tflag, running_state, regs, kbd>>
  BY DEF IceHookTimer
<1>2. /\ StackOK /\ stack # <<>> /\ Top \in Frame /\ Top.pc = "hook" /\ Depth \in 1..Depth
      /\ Top = stack[Depth] /\ Top.kind \in Vectors /\ tflag = FALSE /\ iflag \in BOOLEAN
      /\ gate \in {LinuxGate, IceGate}
      /\ running_state = ENTERING => gate = IceGate
      /\ running_state = NOT_RUNNING => gate = LinuxGate
      /\ \A i \in 1..Depth : stack[i].pc = "clear" => gate = LinuxGate
      /\ "hook" \in ActivePCs <=> (running_state = RUNNING /\ regs = Depth)
      /\ "hook" \notin {"unhook", "clear", "leave", "iret"} => Top.cmd = "none"
      /\ Top.cmd # "none" => (Top.tf <=> Top.cmd = "T")
  BY <1>1, SessionExecuting
<1>3. iflag' \in BOOLEAN /\ tflag' \in BOOLEAN BY <1>1, <1>2
<1>4. Edit(f) BY <1>1, <1>2, <1>3, GotoLemma
<1>5. f \in Frame /\ f.pc = "start" /\ f.kind = Top.kind /\ f.cmd = Top.cmd /\ f.tf = Top.tf
  BY <1>2, TopLemma
<1> HIDE DEF f
<1>6. ExclOK' BY <1>1, <1>2, <1>4, <1>5, ExclKept DEF SessionInv
<1>7. \A i \in 1..(Depth - 1) : stack[i].pc # "clear"
  <2>1. \A i \in 1..(Depth - 1) : i \in 1..Depth /\ i # Depth BY <1>2, DepthNat
  <2> QED BY <1>2, <2>1 DEF SessionInv, ExclOK
<1> QED BY <1>1, <1>2, <1>3, <1>4, <1>5, <1>6, <1>7, EditInv DEF RUNNING, ENTERING, NOT_RUNNING

LEMMA UnhookInv ==
  ASSUME TypeOK, TypeOK', SessionInv, DebuggerUnhook
  PROVE  SessionInv'
<1> USE DEF SessionPCs, ActivePCs, InterruptiblePCs, ice, line
<1> DEFINE f == [Top EXCEPT !.pc = "clear"]
<1>1. /\ Executes(Vectors, "unhook") /\ Goto("clear")
      /\ gate' = LinuxGate /\ UNCHANGED <<iflag, tflag, running_state, regs, kbd>>
  BY DEF DebuggerUnhook
<1>2. /\ StackOK /\ stack # <<>> /\ Top \in Frame /\ Top.pc = "unhook" /\ Depth \in 1..Depth
      /\ Top = stack[Depth] /\ Top.kind \in Vectors /\ tflag = FALSE /\ iflag \in BOOLEAN
      /\ gate \in {LinuxGate, IceGate}
      /\ running_state = ENTERING => gate = IceGate
      /\ running_state = NOT_RUNNING => gate = LinuxGate
      /\ \A i \in 1..Depth : stack[i].pc = "clear" => gate = LinuxGate
      /\ "unhook" \in ActivePCs <=> (running_state = RUNNING /\ regs = Depth)
      /\ "unhook" \notin {"unhook", "clear", "leave", "iret"} => Top.cmd = "none"
      /\ Top.cmd # "none" => (Top.tf <=> Top.cmd = "T")
  BY <1>1, SessionExecuting
<1>3. iflag' \in BOOLEAN /\ tflag' \in BOOLEAN BY <1>1, <1>2
<1>4. Edit(f) BY <1>1, <1>2, <1>3, GotoLemma
<1>5. f \in Frame /\ f.pc = "clear" /\ f.kind = Top.kind /\ f.cmd = Top.cmd /\ f.tf = Top.tf
  BY <1>2, TopLemma
<1> HIDE DEF f
<1>6. ExclOK' BY <1>1, <1>2, <1>4, <1>5, ExclKept DEF SessionInv
<1>7. running_state = RUNNING BY <1>2
<1> QED BY <1>1, <1>2, <1>3, <1>4, <1>5, <1>6, <1>7, EditInv DEF RUNNING, ENTERING, NOT_RUNNING

LEMMA StubCliInv ==
  ASSUME TypeOK, TypeOK', SessionInv, StubCli
  PROVE  SessionInv'
<1> USE DEF SessionPCs, ActivePCs, InterruptiblePCs, ice, line
<1> DEFINE f == [Top EXCEPT !.pc = "iret"]
<1>1. /\ Executes(Vectors, "leave") /\ Goto("iret")
      /\ iflag' = FALSE /\ UNCHANGED <<tflag, running_state, regs, gate, kbd>>
  BY DEF StubCli
<1>2. /\ StackOK /\ stack # <<>> /\ Top \in Frame /\ Top.pc = "leave" /\ Depth \in 1..Depth
      /\ Top = stack[Depth] /\ Top.kind \in Vectors /\ tflag = FALSE /\ iflag \in BOOLEAN
      /\ gate \in {LinuxGate, IceGate}
      /\ running_state = ENTERING => gate = IceGate
      /\ running_state = NOT_RUNNING => gate = LinuxGate
      /\ \A i \in 1..Depth : stack[i].pc = "clear" => gate = LinuxGate
      /\ "leave" \in ActivePCs <=> (running_state = RUNNING /\ regs = Depth)
      /\ "leave" \notin {"unhook", "clear", "leave", "iret"} => Top.cmd = "none"
      /\ Top.cmd # "none" => (Top.tf <=> Top.cmd = "T")
  BY <1>1, SessionExecuting
<1>3. iflag' \in BOOLEAN /\ tflag' \in BOOLEAN BY <1>1, <1>2
<1>4. Edit(f) BY <1>1, <1>2, <1>3, GotoLemma
<1>5. f \in Frame /\ f.pc = "iret" /\ f.kind = Top.kind /\ f.cmd = Top.cmd /\ f.tf = Top.tf
  BY <1>2, TopLemma
<1> HIDE DEF f
<1>6. ExclOK' BY <1>1, <1>2, <1>4, <1>5, ExclKept DEF SessionInv
<1>7. \A i \in 1..(Depth - 1) : stack[i].pc = "clear" => gate' = LinuxGate
  BY <1>1, <1>2, DepthNat
<1> QED BY <1>1, <1>2, <1>3, <1>4, <1>5, <1>6, <1>7, EditInv DEF RUNNING, ENTERING, NOT_RUNNING

LEMMA ClearInv ==
  ASSUME TypeOK, TypeOK', SessionInv, DebuggerClear
  PROVE  SessionInv'
<1> USE DEF SessionPCs, ActivePCs, InterruptiblePCs, ice, line
<1> DEFINE f == [Top EXCEPT !.pc = "leave"]
<1>1. /\ Executes(Vectors, "clear") /\ Goto("leave")
      /\ running_state' = NOT_RUNNING /\ UNCHANGED <<iflag, tflag, regs, gate, kbd>>
  BY DEF DebuggerClear
<1>2. /\ StackOK /\ stack # <<>> /\ Top \in Frame /\ Top.pc = "clear" /\ Depth \in 1..Depth
      /\ Top = stack[Depth] /\ Top.kind \in Vectors /\ tflag = FALSE /\ iflag \in BOOLEAN
      /\ gate \in {LinuxGate, IceGate}
      /\ running_state = ENTERING => gate = IceGate
      /\ running_state = NOT_RUNNING => gate = LinuxGate
      /\ \A i \in 1..Depth : stack[i].pc = "clear" => gate = LinuxGate
      /\ "clear" \in ActivePCs <=> (running_state = RUNNING /\ regs = Depth)
      /\ "clear" \notin {"unhook", "clear", "leave", "iret"} => Top.cmd = "none"
      /\ Top.cmd # "none" => (Top.tf <=> Top.cmd = "T")
  BY <1>1, SessionExecuting
<1>3. iflag' \in BOOLEAN /\ tflag' \in BOOLEAN BY <1>1, <1>2
<1>4. Edit(f) BY <1>1, <1>2, <1>3, GotoLemma
<1>5. f \in Frame /\ f.pc = "leave" /\ f.kind = Top.kind /\ f.cmd = Top.cmd /\ f.tf = Top.tf
  BY <1>2, TopLemma
<1> HIDE DEF f
<1>6. ExclOK'
  <2>1. /\ Depth \in Nat /\ Depth > 0 /\ Depth' = Depth
        /\ \A i \in 1..(Depth - 1) : stack'[i] = stack[i]
        /\ stack'[Depth] = f
    BY <1>2, <1>4, DepthNat DEF Edit
  <2>2. \A i \in 1..(Depth - 1) : i \in 1..Depth /\ i # Depth BY <2>1
  <2>3. \A i \in 1..(Depth - 1) : stack'[i].pc \notin ActivePCs
    BY <1>2, <2>1, <2>2 DEF SessionInv, ExclOK
  <2>4. \A i \in 1..Depth : i \in 1..(Depth - 1) \/ i = Depth BY <2>1
  <2>5. running_state' # RUNNING BY <1>1 DEF RUNNING, NOT_RUNNING
  <2> QED BY <1>5, <2>1, <2>3, <2>4, <2>5 DEF ExclOK
<1>7. gate = LinuxGate BY <1>2
<1> QED BY <1>1, <1>2, <1>3, <1>4, <1>5, <1>6, <1>7, EditInv DEF RUNNING, ENTERING, NOT_RUNNING

\* run_debugger clears TF in the frame it runs in: ice.regs is that frame.
LEMMA SavedTop ==
  ASSUME StackOK, stack # <<>>, NEW g \in Frame, NEW b \in BOOLEAN, regs = Depth
  PROVE  SavedTF([stack EXCEPT ![Depth] = g], b) = [stack EXCEPT ![Depth] = [g EXCEPT !.tf = b]]
<1>1. Depth \in 1..Len(stack) /\ DOMAIN stack = 1..Len(stack)
  BY EmptySeq, LenProperties DEF StackOK, Depth
<1> HIDE DEF Depth
<1> QED BY <1>1 DEF SavedTF

LEMMA StartInv ==
  ASSUME TypeOK, TypeOK', SessionInv, DebuggerStart
  PROVE  SessionInv'
<1> USE DEF SessionPCs, ActivePCs, InterruptiblePCs, ice, line
<1> DEFINE g == [Top EXCEPT !.pc = "loop"]
           f == [g EXCEPT !.tf = FALSE]
<1>1. /\ Executes(Vectors, "start") /\ stack' = SavedTF([stack EXCEPT ![Depth].pc = "loop"], FALSE)
      /\ UNCHANGED <<iflag, tflag, running_state, regs, gate, kbd>>
  BY DEF DebuggerStart
<1>2. /\ StackOK /\ stack # <<>> /\ Top \in Frame /\ Top.pc = "start" /\ Depth \in 1..Depth
      /\ Top = stack[Depth] /\ Top.kind \in Vectors /\ tflag = FALSE /\ iflag \in BOOLEAN
      /\ gate \in {LinuxGate, IceGate}
      /\ \A i \in 1..Depth : stack[i].pc = "clear" => gate = LinuxGate
      /\ "start" \in ActivePCs <=> (running_state = RUNNING /\ regs = Depth)
      /\ "start" \notin {"unhook", "clear", "leave", "iret"} => Top.cmd = "none"
  BY <1>1, SessionExecuting
<1>3. running_state = RUNNING /\ regs = Depth /\ Top.cmd = "none" BY <1>2
<1>4. g \in Frame /\ f \in Frame /\ f.pc = "loop" /\ f.kind = Top.kind /\ f.cmd = "none" /\ ~f.tf
  BY <1>2, <1>3 DEF Frame
<1>5. stack' = [stack EXCEPT ![Depth] = f]
  <2>1. [stack EXCEPT ![Depth].pc = "loop"] = [stack EXCEPT ![Depth] = g] BY <1>2
  <2>2. SavedTF([stack EXCEPT ![Depth] = g], FALSE) = [stack EXCEPT ![Depth] = f]
    BY <1>2, <1>3, <1>4, SavedTop
  <2> QED BY <1>1, <2>1, <2>2
<1> HIDE DEF f, g
<1>6. Edit(f) BY <1>1, <1>2, <1>4, <1>5, EditLemma
<1>7. ExclOK' BY <1>1, <1>2, <1>4, <1>6, ExclKept DEF SessionInv
<1>8. \A i \in 1..(Depth - 1) : stack[i].pc = "clear" => gate' = LinuxGate
  BY <1>1, <1>2, DepthNat
<1> QED BY <1>1, <1>2, <1>3, <1>4, <1>6, <1>7, <1>8, EditInv DEF RUNNING, ENTERING, NOT_RUNNING

\* Steps that leave the protocol alone.
LEMMA StutterInv ==
  ASSUME SessionInv, UNCHANGED <<cpu, ice, gate, kbd>>
  PROVE  SessionInv'
<1>1. stack' = stack /\ Depth' = Depth /\ Top' = Top BY DEF cpu, Top, Depth
<1> QED BY <1>1 DEF cpu, ice, SessionInv, FramesOK, KbdOK, GateOK, ClaimOK, CmdOK,
       PreemptOK, ExclOK, HookedOnlyWhileEngaged, ResumeHonoured


LEMMA LineDoneInv ==
  ASSUME TypeOK, TypeOK', SessionInv, Executes(Vectors, "loop"), Goto("exec"),
         UNCHANGED <<iflag, tflag, running_state, regs, gate, kbd>>
  PROVE  SessionInv'
<1> USE DEF SessionPCs, ActivePCs, InterruptiblePCs, ice, line
<1> DEFINE f == [Top EXCEPT !.pc = "exec"]
<1>1. /\ Executes(Vectors, "loop") /\ Goto("exec")
      /\ UNCHANGED <<iflag, tflag, running_state, regs, gate, kbd>>
  OBVIOUS
<1>2. /\ StackOK /\ stack # <<>> /\ Top \in Frame /\ Top.pc = "loop" /\ Depth \in 1..Depth
      /\ Top = stack[Depth] /\ Top.kind \in Vectors /\ tflag = FALSE /\ iflag \in BOOLEAN
      /\ gate \in {LinuxGate, IceGate}
      /\ running_state = ENTERING => gate = IceGate
      /\ running_state = NOT_RUNNING => gate = LinuxGate
      /\ \A i \in 1..Depth : stack[i].pc = "clear" => gate = LinuxGate
      /\ "loop" \in ActivePCs <=> (running_state = RUNNING /\ regs = Depth)
      /\ "loop" \notin {"unhook", "clear", "leave", "iret"} => Top.cmd = "none"
      /\ Top.cmd # "none" => (Top.tf <=> Top.cmd = "T")
  BY <1>1, SessionExecuting
<1>3. iflag' \in BOOLEAN /\ tflag' \in BOOLEAN BY <1>1, <1>2
<1>4. Edit(f) BY <1>1, <1>2, <1>3, GotoLemma
<1>5. f \in Frame /\ f.pc = "exec" /\ f.kind = Top.kind /\ f.cmd = Top.cmd /\ f.tf = Top.tf
  BY <1>2, TopLemma
<1> HIDE DEF f
<1>6. ExclOK' BY <1>1, <1>2, <1>4, <1>5, ExclKept DEF SessionInv
<1>7. /\ running_state = RUNNING /\ (Top.pc \in {"loop", "exec"} => ~Top.tf)
      /\ \A i \in 1..(Depth - 1) : stack[i].pc = "clear" => gate' = LinuxGate
  BY <1>1, <1>2, DepthNat DEF SessionInv, CmdOK
<1> QED BY <1>1, <1>2, <1>3, <1>4, <1>5, <1>6, <1>7, EditInv DEF RUNNING, ENTERING, NOT_RUNNING

LEMMA NextLineInv ==
  ASSUME TypeOK, TypeOK', SessionInv, Executes(Vectors, "exec"), Goto("loop"),
         UNCHANGED <<iflag, tflag, running_state, regs, gate, kbd>>
  PROVE  SessionInv'
<1> USE DEF SessionPCs, ActivePCs, InterruptiblePCs, ice, line
<1> DEFINE f == [Top EXCEPT !.pc = "loop"]
<1>1. /\ Executes(Vectors, "exec") /\ Goto("loop")
      /\ UNCHANGED <<iflag, tflag, running_state, regs, gate, kbd>>
  OBVIOUS
<1>2. /\ StackOK /\ stack # <<>> /\ Top \in Frame /\ Top.pc = "exec" /\ Depth \in 1..Depth
      /\ Top = stack[Depth] /\ Top.kind \in Vectors /\ tflag = FALSE /\ iflag \in BOOLEAN
      /\ gate \in {LinuxGate, IceGate}
      /\ running_state = ENTERING => gate = IceGate
      /\ running_state = NOT_RUNNING => gate = LinuxGate
      /\ \A i \in 1..Depth : stack[i].pc = "clear" => gate = LinuxGate
      /\ "exec" \in ActivePCs <=> (running_state = RUNNING /\ regs = Depth)
      /\ "exec" \notin {"unhook", "clear", "leave", "iret"} => Top.cmd = "none"
      /\ Top.cmd # "none" => (Top.tf <=> Top.cmd = "T")
  BY <1>1, SessionExecuting
<1>3. iflag' \in BOOLEAN /\ tflag' \in BOOLEAN BY <1>1, <1>2
<1>4. Edit(f) BY <1>1, <1>2, <1>3, GotoLemma
<1>5. f \in Frame /\ f.pc = "loop" /\ f.kind = Top.kind /\ f.cmd = Top.cmd /\ f.tf = Top.tf
  BY <1>2, TopLemma
<1> HIDE DEF f
<1>6. ExclOK' BY <1>1, <1>2, <1>4, <1>5, ExclKept DEF SessionInv
<1>7. /\ running_state = RUNNING /\ (Top.pc \in {"loop", "exec"} => ~Top.tf)
      /\ \A i \in 1..(Depth - 1) : stack[i].pc = "clear" => gate' = LinuxGate
  BY <1>1, <1>2, DepthNat DEF SessionInv, CmdOK
<1> QED BY <1>1, <1>2, <1>3, <1>4, <1>5, <1>6, <1>7, EditInv DEF RUNNING, ENTERING, NOT_RUNNING

\* X and T end the session, T with TF set in the frame that is resumed.
LEMMA EndInv ==
  ASSUME TypeOK, TypeOK', SessionInv, Executes(Vectors, "exec"), NEW cmd \in {"X", "T"},
         stack' = IF cmd = "X" THEN Ended("X") ELSE SavedTF(Ended("T"), TRUE),
         UNCHANGED <<iflag, tflag, running_state, regs, gate, kbd>>
  PROVE  SessionInv'
<1> USE DEF SessionPCs, ActivePCs, InterruptiblePCs
<1> DEFINE g == [Top EXCEPT !.pc = "unhook", !.cmd = cmd]
           f == IF cmd = "X" THEN g ELSE [g EXCEPT !.tf = TRUE]
<1>2. /\ StackOK /\ stack # <<>> /\ Top \in Frame /\ Top.pc = "exec" /\ Depth \in 1..Depth
      /\ Top = stack[Depth] /\ Top.kind \in Vectors /\ tflag = FALSE /\ iflag \in BOOLEAN
      /\ gate \in {LinuxGate, IceGate}
      /\ \A i \in 1..Depth : stack[i].pc = "clear" => gate = LinuxGate
      /\ "exec" \in ActivePCs <=> (running_state = RUNNING /\ regs = Depth)
  BY SessionExecuting
<1>3. running_state = RUNNING /\ regs = Depth /\ Top.tf = FALSE
  BY <1>2 DEF SessionInv, CmdOK, Frame
<1>4. g \in Frame /\ f \in Frame /\ f.pc = "unhook" /\ f.kind = Top.kind /\ f.cmd = cmd
      /\ (f.tf <=> cmd = "T")
  BY <1>2, <1>3 DEF Frame
<1>5. stack' = [stack EXCEPT ![Depth] = f]
  <2>1. Ended(cmd) = [stack EXCEPT ![Depth] = g] BY <1>2 DEF Ended
  <2>2. SavedTF([stack EXCEPT ![Depth] = g], TRUE) = [stack EXCEPT ![Depth] = [g EXCEPT !.tf = TRUE]]
    BY <1>2, <1>3, <1>4, SavedTop
  <2>3. CASE cmd = "X" BY <2>1, <2>3
  <2>4. CASE cmd = "T" BY <2>1, <2>2, <2>4
  <2> QED BY <2>3, <2>4
<1> HIDE DEF f, g
<1>6. Edit(f) BY <1>2, <1>4, <1>5, EditLemma
<1>7. ExclOK' BY <1>2, <1>4, <1>6, ExclKept DEF SessionInv
<1>8. \A i \in 1..(Depth - 1) : stack[i].pc = "clear" => gate' = LinuxGate
  BY <1>2, DepthNat
<1> QED BY <1>2, <1>3, <1>4, <1>6, <1>7, <1>8, EditInv DEF RUNNING, ENTERING, NOT_RUNNING

\* A return to what was interrupted, by the debugger's stub or the keyboard
\* handler: what is below has its interrupts or its trap enabled rightly.
LEMMA PopInv ==
  ASSUME TypeOK, TypeOK', SessionInv, Pop, Top.pc \notin ActivePCs, iflag' = Top.if, tflag' = Top.tf,
         UNCHANGED <<running_state, regs, gate>>,
         \/ Top.kind \in Vectors /\ kbd' = kbd
         \/ Top.kind = "kbd" /\ kbd.pc = "done" /\ kbd' = [kbd EXCEPT !.pc = "idle"]
  PROVE  SessionInv'
<1>1. /\ Depth \in Nat /\ Depth > 0 /\ Depth' = Depth - 1
      /\ \A i \in 1..(Depth - 1) : stack'[i] = stack[i]
      /\ Top = stack[Depth] /\ Depth \in 1..Depth
  BY DepthNat DEF Pop, TypeOK, StackOK, Top
<1>2. \A i \in 1..Depth : i \in 1..Depth' \/ i = Depth BY <1>1
<1>3. \A i \in 1..Depth' : i \in 1..Depth /\ i # Depth /\ i \in 1..(Depth - 1) BY <1>1
<1>4. Depth' > 0 => Depth' \in 1..Depth' /\ Top' = stack[Depth'] BY <1>1 DEF Top, Depth
<1>5. kbd.pc \in {"idle", "done"} /\ kbd'.pc \in {"idle", "done"}
  BY DEF SessionInv, KbdOK, Vectors, TypeOK
<1> USE DEF SessionInv
<1>6. FramesOK' BY <1>1, <1>3, <1>4 DEF FramesOK
<1>7. KbdOK'
  <2>1. kbd'.site = "hooked" BY DEF KbdOK, TypeOK
  <2>2. CASE Top.kind \in Vectors /\ kbd' = kbd
    <3>1. Top.kind # "kbd" BY <2>2 DEF Vectors
    <3>2. (\E i \in 1..Depth : stack[i].kind = "kbd") <=> (\E i \in 1..Depth' : stack'[i].kind = "kbd")
      BY <1>1, <1>2, <1>3, <3>1
    <3> QED BY <1>1, <1>3, <1>5, <2>1, <2>2, <3>2 DEF KbdOK
  <2>3. CASE Top.kind = "kbd" /\ kbd'.pc = "idle"
    <3>1. \A i \in 1..Depth' : stack'[i].kind # "kbd" BY <1>1, <1>3, <2>3 DEF KbdOK
    <3> QED BY <2>1, <2>3, <3>1 DEF KbdOK
  <2> QED BY <2>2, <2>3 DEF TypeOK
<1>8. GateOK' BY <1>1, <1>3, <1>5 DEF GateOK
<1>9. ClaimOK' BY <1>3, <1>4 DEF ClaimOK, FramesOK, InterruptiblePCs
<1>10. CmdOK' BY <1>1, <1>3 DEF CmdOK
<1>11. PreemptOK' BY DEF PreemptOK, Vectors, TypeOK
<1>12. ExclOK'
  <2>1. running_state = RUNNING => regs \in 1..Depth' BY <1>1, <1>2 DEF ExclOK
  <2> QED BY <1>1, <1>3, <2>1 DEF ExclOK
<1>13. HookedOnlyWhileEngaged' BY DEF HookedOnlyWhileEngaged
<1>14. ResumeHonoured' BY <1>1, <1>3 DEF ResumeHonoured
<1> QED BY <1>6, <1>7, <1>8, <1>9, <1>10, <1>11, <1>12, <1>13, <1>14

LEMMA DebuggerInv ==
  ASSUME TypeOK, TypeOK', SessionInv, Debugger
  PROVE  SessionInv'
<1>1. CASE GetKey
  <2>1. CASE Goto("exec") BY <1>1, <2>1, LineDoneInv DEF GetKey, ice
  <2>2. CASE stack' = stack BY <1>1, <2>2, StutterInv DEF GetKey, cpu
  <2> QED BY <1>1, <2>1, <2>2 DEF GetKey
<1>2. CASE ExecCommand
  <2>1. Executes(Vectors, "exec") /\ UNCHANGED <<iflag, tflag, running_state, regs, gate, kbd>>
    BY <1>2 DEF ExecCommand, ice
  <2>2. CASE Goto("loop") BY <2>1, <2>2, NextLineInv
  <2>3. CASE stack' = Ended("X") BY <2>1, <2>3, EndInv
  <2>4. CASE stack' = SavedTF(Ended("T"), TRUE) BY <2>1, <2>4, EndInv
  <2> QED BY <1>2, <2>2, <2>3, <2>4 DEF ExecCommand
<1>3. CASE StubReturn
  <2>1. /\ StackOK /\ stack # <<>> /\ Top.pc = "iret" /\ Top.kind \in Vectors /\ Return
        /\ UNCHANGED <<running_state, regs, gate, kbd>>
    BY <1>3, SessionExecuting DEF StubReturn, ice
  <2> QED BY <2>1, ReturnLemma, PopInv DEF ActivePCs
<1> QED BY <1>1, <1>2, <1>3, DispatchInv, ClaimInv, HookTimerInv, StartInv, UnhookInv, ClearInv, StubCliInv
        DEF Debugger

-----------------------------------------------------------------------------
(***************************************************************************)
(* The keyboard handler: while it is not done it is the top frame and runs *)
(* with interrupts masked, so what it has read of running_state is true.   *)
(***************************************************************************)
LEMMA KbdStep ==
  ASSUME TypeOK, TypeOK', SessionInv, kbd.pc \notin {"idle", "done"}, NEW pc \in KbdPCs \ {"idle", "fake"},
         UNCHANGED <<stack, tflag, regs>>, kbd' = [kbd EXCEPT !.pc = pc],
         \/ ~iflag' /\ running_state' = running_state
         \/ ~iflag' /\ running_state' = ENTERING /\ running_state = NOT_RUNNING /\ pc = "hook"
         \/ iflag' /\ running_state' = running_state /\ pc = "done"
            /\ (kbd.ev = "hotkey" \/ running_state = NOT_RUNNING),
         pc = "request" => /\ running_state = NOT_RUNNING /\ gate' = gate /\ kbd.ev = "hotkey"
                           /\ kbd.pc \in {"swallow", "handler"},
         pc = "hook" => running_state' = ENTERING /\ gate' = gate /\ kbd.pc = "request",
         pc = "set" => /\ running_state' = ENTERING /\ kbd.pc = "hook"
                       /\ gate' = [middle |-> "ice", low |-> "linux"],
         pc \in {"swallow", "handler"} => gate' = gate /\ kbd.pc = "fake",
         pc = "done" => \/ gate' = gate /\ kbd.pc \in {"swallow", "handler"}
                        \/ gate' = IceGate /\ kbd.pc = "set"
  PROVE  SessionInv'
<1>1. /\ Depth > 0 /\ Top.kind = "kbd" /\ ~iflag /\ ~tflag
      /\ stack' = stack /\ Depth' = Depth /\ Top' = Top /\ Depth \in 1..Depth /\ Top = stack[Depth]
  BY DepthNat DEF SessionInv, KbdOK, Top, Depth, TypeOK, StackOK
<1>2. kbd'.pc = pc /\ kbd'.ev = kbd.ev /\ kbd'.site = kbd.site /\ pc # "idle" BY DEF TypeOK
<1>b. \/ pc \in {"swallow", "handler", "request", "hook"} /\ gate' = gate
      \/ pc = "set" /\ kbd.pc = "hook"
      \/ pc = "done" /\ gate' = gate /\ kbd.pc \in {"swallow", "handler"}
      \/ pc = "done" /\ gate' = IceGate /\ kbd.pc = "set"
  BY DEF KbdPCs
<1>c. IceGate # LinuxGate BY DEF IceGate, LinuxGate
<1>d. RUNNING # ENTERING /\ RUNNING # NOT_RUNNING /\ ENTERING # NOT_RUNNING
  BY DEF RUNNING, ENTERING, NOT_RUNNING
<1>3. Top.pc = "nested" BY <1>1 DEF SessionInv, FramesOK
<1> USE DEF SessionInv
<1>4. FramesOK' BY <1>1, <1>3 DEF FramesOK, InterruptiblePCs
<1>5. KbdOK' BY <1>1, <1>2 DEF KbdOK
<1>6. ~(\E i \in 1..Depth : stack[i].pc = "clear") \/ gate' = LinuxGate \/ gate' # gate
  BY DEF GateOK
<1>7. ExclOK' BY <1>1 DEF ExclOK, ENTERING, NOT_RUNNING, RUNNING
<1>8. gate' # gate => ~(\E i \in 1..Depth : stack[i].pc = "clear")
  <2>1. gate' = gate \/ kbd.pc \in {"hook", "set"} BY <1>b
  <2>2. kbd.pc \in {"hook", "set"} => running_state = ENTERING BY DEF GateOK
  <2> QED BY <2>1, <2>2 DEF ExclOK, ActivePCs, ENTERING, RUNNING
<1>9. GateOK'
  <2>1. CASE pc \in {"swallow", "handler"}
    BY <1>1, <1>2, <1>6, <1>8, <2>1 DEF GateOK, ENTERING, NOT_RUNNING
  <2>2. CASE pc \in {"request", "hook"}
    BY <1>1, <1>2, <1>6, <1>8, <2>2 DEF GateOK, HookedOnlyWhileEngaged, ENTERING, NOT_RUNNING
  <2>3. CASE pc = "set"
    BY <1>1, <1>2, <1>6, <1>8, <2>3 DEF GateOK, ENTERING, LinuxGate
  <2>4. CASE pc = "done" /\ gate' = gate /\ kbd.pc \in {"swallow", "handler"}
    <3>1. running_state' = running_state BY <2>4
    <3>2. gate \in {LinuxGate, IceGate} /\ ~(running_state = ENTERING /\ gate = LinuxGate)
      BY <2>4 DEF GateOK
    <3> QED BY <1>1, <1>2, <1>6, <1>8, <2>4, <3>1, <3>2 DEF GateOK
  <2>5. CASE pc = "done" /\ gate' = IceGate /\ kbd.pc = "set"
    <3>1. gate # gate' BY <2>5 DEF GateOK, IceGate
    <3> QED BY <1>1, <1>2, <1>8, <1>c, <2>5, <3>1 DEF GateOK
  <2> QED BY <1>b, <2>1, <2>2, <2>3, <2>4, <2>5
<1>10. ClaimOK' BY <1>1, <1>3 DEF ClaimOK
<1>11. CmdOK' BY <1>1 DEF CmdOK
<1>12. PreemptOK' BY <1>1, <1>2 DEF PreemptOK, KbdPCs
<1>13. HookedOnlyWhileEngaged'
  <2>1. kbd.pc \in {"hook", "set"} => running_state = ENTERING BY DEF GateOK
  <2>2. pc # "hook" => running_state' = running_state \/ running_state' = ENTERING OBVIOUS
  <2>3. running_state' = NOT_RUNNING => running_state = NOT_RUNNING BY <1>d
  <2> QED BY <1>b, <1>d, <2>1, <2>2, <2>3 DEF HookedOnlyWhileEngaged
<1>14. ResumeHonoured' BY <1>1 DEF ResumeHonoured
<1> QED BY <1>4, <1>5, <1>7, <1>9, <1>10, <1>11, <1>12, <1>13, <1>14

LEMMA KeyboardInv ==
  ASSUME TypeOK, TypeOK', SessionInv, KbdSites = {"hooked"},
         Keyboard \/ \E ev \in UserEvents : KbdInterrupt(ev)
  PROVE  SessionInv'
<1>0. kbd.site = "hooked" /\ StackOK BY DEF SessionInv, KbdOK, TypeOK, StackOK
<1>a. kbd.pc \notin {"idle", "done"} => ~iflag BY DEF SessionInv, KbdOK
<1> USE DEF ice, cpu, line, KbdGoto, KbdSetsIF
<1>1. ASSUME NEW ev \in UserEvents, KbdInterrupt(ev) PROVE SessionInv'
  <2>1. /\ kbd.pc = "idle" /\ iflag /\ Enter("kbd", "nested", FALSE)
        /\ kbd' = [pc |-> "fake", ev |-> ev, site |-> "hooked"]
        /\ UNCHANGED <<running_state, regs, gate>>
    BY <1>1 DEF KbdInterrupt
  <2>2. Push("kbd", "nested") /\ iflag' = FALSE /\ tflag' = FALSE BY <1>0, <2>1, EnterLemma
  <2>3. ev \in Events BY EventsAssumption
  <2> QED BY <2>1, <2>2, <2>3, PushKbd
<1>2. CASE FakeKbdEvent
  <2>1. PICK pc \in {"swallow", "handler"} : kbd' = [kbd EXCEPT !.pc = pc]
    BY <1>2 DEF FakeKbdEvent
  <2>2. kbd.pc = "fake" /\ UNCHANGED <<stack, iflag, tflag, running_state, regs, gate>>
    BY <1>2 DEF FakeKbdEvent, KbdExecutes
  <2>3. pc \in KbdPCs \ {"idle", "fake"} BY DEF KbdPCs
  <2> QED BY <1>a, <2>1, <2>2, <2>3, KbdStep
<1>3. CASE KbdHandler
  <2>1. kbd.pc \in {"swallow", "handler"} /\ UNCHANGED <<stack, tflag, running_state, regs, gate>>
    BY <1>3 DEF KbdHandler, KbdExecutes
  <2>2. CASE kbd' = [kbd EXCEPT !.pc = "request"] /\ running_state = NOT_RUNNING /\ iflag' = iflag
             /\ kbd.ev = "hotkey"
    BY <1>a, <2>1, <2>2, KbdStep DEF KbdPCs
  <2>3. CASE kbd' = [kbd EXCEPT !.pc = "done"] /\ iflag' = iflag
    BY <1>a, <2>1, <2>3, KbdStep DEF KbdPCs
  <2>4. CASE kbd' = [kbd EXCEPT !.pc = "done"] /\ iflag' = TRUE /\ running_state = NOT_RUNNING
    BY <2>1, <2>4, KbdStep DEF KbdPCs
  <2> QED BY <1>0, <1>3, <2>2, <2>3, <2>4 DEF KbdHandler
<1>4. CASE KbdRequest
  <2>1. running_state = NOT_RUNNING /\ kbd.pc = "request"
    BY <1>4 DEF KbdRequest, KbdExecutes, SessionInv, GateOK
  <2> QED BY <1>4, <1>a, <2>1, KbdStep DEF KbdRequest, KbdPCs
<1>5. CASE KbdHookFirst
  <2>1. kbd.pc = "hook" /\ running_state = ENTERING /\ gate = LinuxGate
    BY <1>5 DEF KbdHookFirst, KbdExecutes, SessionInv, GateOK
  <2>2. gate' = [middle |-> "ice", low |-> "linux"] BY <1>5, <2>1 DEF KbdHookFirst, LinuxGate
  <2>3. gate' # gate BY <2>1, <2>2 DEF LinuxGate
  <2> QED BY <1>0, <1>5, <1>a, <2>1, <2>2, <2>3, KbdStep DEF KbdHookFirst, KbdPCs
<1>6. CASE KbdHookLast
  <2>1. kbd.pc = "set" /\ gate = [middle |-> "ice", low |-> "linux"]
    BY <1>6 DEF KbdHookLast, KbdExecutes, SessionInv, GateOK
  <2>2. gate' = IceGate BY <1>6, <2>1 DEF KbdHookLast, IceGate
  <2>3. kbd.ev = "hotkey"
    BY <2>1 DEF SessionInv, GateOK, PreemptOK, TypeOK
  <2> QED BY <1>0, <1>6, <1>a, <2>1, <2>2, <2>3, KbdStep DEF KbdHookLast, KbdPCs
<1>7. CASE KbdReturn
  <2>1. kbd.pc = "done" /\ stack # <<>> /\ Top.kind = "kbd" /\ Top.pc = "nested" /\ Return
        /\ kbd' = [kbd EXCEPT !.pc = "idle"] /\ UNCHANGED <<running_state, regs, gate>>
    BY <1>0, <1>7 DEF KbdReturn, KbdExecutes, Executes
  <2> QED BY <1>0, <2>1, ReturnLemma, PopInv DEF ActivePCs
<1> QED BY <1>1, <1>2, <1>3, <1>4, <1>5, <1>6, <1>7 DEF Keyboard

-----------------------------------------------------------------------------
LEMMA Invariance == ASSUME KbdSites = {"hooked"} PROVE Spec => [](TypeOK /\ SessionInv)
<1>1. Init => SessionInv BY InitInv
<1>2. TypeOK /\ TypeOK' /\ SessionInv /\ [Next]_vars => SessionInv'
  <2>1. UNCHANGED vars /\ SessionInv => SessionInv' BY StutterInv DEF vars, cpu, ice
  <2> QED BY <2>1, EntryInv, DebuggerInv, KeyboardInv DEF Next
<1> QED BY <1>1, <1>2, TypeCorrect, PTL DEF Spec

\* One session at a time: a tick, a breakpoint or a trap never starts the
\* debugger inside the debugger, and ice.regs is the frame of the session.
THEOREM OneSession == ASSUME KbdSites = {"hooked"} PROVE Spec => []SessionExclusive
<1>1. TypeOK /\ SessionInv => SessionExclusive BY Exclusive DEF SessionInv
<1> QED BY <1>1, Invariance, PTL

\* The timer vector leads to the debugger only while it is wanted or runs.
THEOREM NoUnwantedSession == ASSUME KbdSites = {"hooked"} PROVE Spec => []HookedOnlyWhileEngaged
<1>1. SessionInv => HookedOnlyWhileEngaged BY DEF SessionInv
<1> QED BY <1>1, Invariance, PTL

\* The interrupted program resumes with a single-step trap exactly after T.
THEOREM TraceHonoured == ASSUME KbdSites = {"hooked"} PROVE Spec => []ResumeHonoured
<1>1. SessionInv => ResumeHonoured BY DEF SessionInv
<1> QED BY <1>1, Invariance, PTL

\* Of the keyboard events only Ctrl-Q is preempted by a session.
THEOREM PreemptedByHotkeyOnly == ASSUME KbdSites = {"hooked"} PROVE Spec => []OnlyHotkeyIsPreempted
<1>1. ASSUME TypeOK, SessionInv, NEW i \in Active, NEW j \in 1..i, stack[j].kind = "kbd",
             kbd.ev # "hotkey"
      PROVE  FALSE
  <2>1. Depth \in Nat BY <1>1, DepthNat DEF TypeOK, StackOK
  <2>2. i \in 1..Depth /\ j \in 1..Depth /\ j <= i /\ stack[i].pc \in ActivePCs
    BY <2>1 DEF Active
  <2>3. kbd.pc # "idle" BY <1>1, <2>2 DEF SessionInv, KbdOK
  <2>4. Depth > 0 /\ stack[Depth].kind = "kbd" BY <1>1, <2>3 DEF SessionInv, PreemptOK, Top
  <2>5. Depth \in 1..Depth BY <2>1, <2>4
  <2>6. j = Depth BY <1>1, <2>2, <2>4, <2>5 DEF SessionInv, KbdOK
  <2>7. i = Depth BY <2>1, <2>2, <2>6
  <2> QED BY <1>1, <2>2, <2>4, <2>5, <2>7 DEF SessionInv, FramesOK, ActivePCs
<1>2. TypeOK /\ SessionInv => OnlyHotkeyIsPreempted BY <1>1 DEF OnlyHotkeyIsPreempted
<1> QED BY <1>2, Invariance, PTL

\* After Ctrl-Q no timer interrupt goes to Linux before the system is paused.
THEOREM NextTimerInterruptPauses == ASSUME KbdSites = {"hooked"} PROVE Spec => NextTimerPauses
<1>1. SessionInv => ~(running_state = ENTERING /\ TimerToLinux)
  BY DEF SessionInv, GateOK, KbdOK, TimerToLinux
<1>2. SessionInv /\ [Next]_vars => [~(running_state = ENTERING /\ TimerToLinux)]_vars BY <1>1
<1> QED BY <1>2, Invariance, PTL DEF Spec, NextTimerPauses

\* Interrupts nest at most three deep but for sessions caught in the window
\* between NOT_RUNNING and the cli of the stub.
THEOREM NestingBounded == ASSUME KbdSites = {"hooked"} PROVE Spec => []BoundedNesting
<1>1. ASSUME TypeOK, SessionInv PROVE BoundedNesting
  <2> DEFINE L == {i \in 1..Depth : stack[i].pc = "leave"}
             R == (1..Depth) \ L
  <2>1. Depth \in Nat BY <1>1, DepthNat DEF TypeOK, StackOK
  <2>2. \E a, b : \A i \in 1..(Depth - 1) : i \in R => i = a \/ i = b
    <3>1. \E a : \A i \in 1..Depth : stack[i].kind = "kbd" => i = a
      BY <1>1 DEF SessionInv, KbdOK
    <3>2. \A i \in 1..Depth : stack[i].pc \in ActivePCs => i = regs BY <1>1 DEF SessionInv, ExclOK
    <3>3. \A i \in 1..(Depth - 1) : i \in 1..Depth /\ stack[i].pc \in InterruptiblePCs
      BY <1>1, <2>1 DEF SessionInv, FramesOK
    <3>4. \A i \in 1..(Depth - 1) : i \in R => stack[i].kind = "kbd" \/ stack[i].pc \in ActivePCs
      BY <1>1, <3>3 DEF SessionInv, FramesOK, InterruptiblePCs, ActivePCs
    <3> QED BY <3>1, <3>2, <3>3, <3>4
  <2>3. PICK a, b : \A i \in 1..(Depth - 1) : i \in R => i = a \/ i = b BY <2>2
  <2>4. R \subseteq {a, b, Depth} BY <2>1, <2>3
  <2>5. IsFiniteSet(1..Depth) /\ Cardinality(1..Depth) = Depth
    BY <2>1, FS_Interval
  <2>6. IsFiniteSet({a, b, Depth}) /\ Cardinality({a, b, Depth}) <= 3
    <3>1. IsFiniteSet({a}) /\ Cardinality({a}) = 1 BY FS_Singleton
    <3>2. /\ IsFiniteSet({a} \cup {b})
          /\ Cardinality({a} \cup {b}) = IF b \in {a} THEN Cardinality({a}) ELSE Cardinality({a}) + 1
      BY <3>1, FS_AddElement
    <3>3. /\ IsFiniteSet({a} \cup {b})
          /\ Cardinality({a} \cup {b}) \in Nat /\ Cardinality({a} \cup {b}) <= 2
      BY <3>1, <3>2
    <3>4. {a, b} = {a} \cup {b} OBVIOUS
    <3>5. /\ IsFiniteSet({a, b})
          /\ Cardinality({a, b}) \in Nat /\ Cardinality({a, b}) <= 2
      BY <3>3, <3>4, Zenon
    <3> DEFINE P == {a, b}
    <3>6. IsFiniteSet(P) /\ Cardinality(P) \in Nat /\ Cardinality(P) <= 2 BY <3>5
    <3>7. {a, b, Depth} = P \cup {Depth} OBVIOUS
    <3> HIDE DEF P
    <3>8. /\ IsFiniteSet(P \cup {Depth})
          /\ Cardinality(P \cup {Depth}) = IF Depth \in P THEN Cardinality(P) ELSE Cardinality(P) + 1
      BY <3>6, FS_AddElement
    <3>9. IsFiniteSet(P \cup {Depth}) /\ Cardinality(P \cup {Depth}) <= 3
      BY <3>6, <3>8
    <3> QED BY <3>7, <3>9, Zenon
  <2>7. IsFiniteSet(R) /\ Cardinality(R) \in Nat /\ Cardinality(R) <= 3
    BY <2>4, <2>6, FS_Subset, FS_CardinalityType
  <2>8. IsFiniteSet(L) /\ Cardinality(L) \in Nat BY <2>5, FS_Subset, FS_CardinalityType
  <2>9. Cardinality(R) = Depth - Cardinality(L)
    <3>1. L \subseteq 1..Depth /\ R = (1..Depth) \ ((1..Depth) \cap L) /\ L = (1..Depth) \cap L OBVIOUS
    <3>2. Cardinality((1..Depth) \ L) = Cardinality(1..Depth) - Cardinality((1..Depth) \cap L)
      BY <2>5, <2>8, FS_Difference
    <3> QED BY <2>5, <3>1, <3>2
  <2> HIDE DEF R
  <2>10. Depth <= 3 + Cardinality(L) BY <2>1, <2>7, <2>8, <2>9
  <2> QED BY <2>10 DEF BoundedNesting
<1> QED BY <1>1, Invariance, PTL

-----------------------------------------------------------------------------
(***************************************************************************)
(* Refinement: KbdRequest is the abstract Request, IceClaim the Break,     *)
(* DebuggerClear the Resume.  Every other step keeps the mode, and no trap *)
(* that is due gets lost or appears out of nothing: an interrupt saves TF  *)
(* in the frame it pushes, and iretq takes it from there.                  *)
(***************************************************************************)

\* A trap is due in the code that runs or in code that will be resumed.
TrapDue == tflag \/ \E i \in 1..Depth : stack[i].tf

LEMMA ModeLemma ==
  ASSUME running_state \in States
  PROVE  /\ mode = "running"  <=> running_state = NOT_RUNNING
         /\ mode = "breaking" <=> running_state = ENTERING
         /\ mode = "paused"   <=> running_state = RUNNING
         /\ mode \in {"running", "breaking", "paused"}
         /\ step = (running_state # RUNNING /\ TrapDue)
BY DEF States, mode, step, TrapDue, NOT_RUNNING, ENTERING, RUNNING

LEMMA ModeLemmaPrime ==
  ASSUME running_state' \in States
  PROVE  /\ mode' = "running"  <=> running_state' = NOT_RUNNING
         /\ mode' = "breaking" <=> running_state' = ENTERING
         /\ mode' = "paused"   <=> running_state' = RUNNING
         /\ mode' \in {"running", "breaking", "paused"}
         /\ step' = (running_state' # RUNNING /\ TrapDue')
BY DEF States, mode, step, TrapDue, NOT_RUNNING, ENTERING, RUNNING

\* A step that keeps running_state, and the traps that are due unless the
\* debugger runs, is a stutter.
LEMMA RefineStutter ==
  ASSUME TypeOK, TypeOK', running_state' = running_state,
         running_state = RUNNING \/ (TrapDue <=> TrapDue')
  PROVE  UNCHANGED <<mode, step>>
BY DEF mode, step, TrapDue

LEMMA TrapPush ==
  ASSUME StackOK, NEW kind, NEW pc, Push(kind, pc), tflag' = FALSE
  PROVE  TrapDue <=> TrapDue'
<1>1. Depth \in Nat BY DepthNat
<1>2. stack'[Depth + 1].tf = tflag BY DEF Push
<1> QED BY <1>1, <1>2 DEF TrapDue, Push

LEMMA TrapPop ==
  ASSUME StackOK, Pop, tflag = FALSE, tflag' = Top.tf
  PROVE  TrapDue <=> TrapDue'
<1>1. Depth \in Nat BY DepthNat
<1> QED BY <1>1 DEF TrapDue, Pop, Top

LEMMA TrapGoto ==
  ASSUME TypeOK, NEW from, NEW pc \in SessionPCs, Executes(Vectors, from), Goto(pc),
         iflag' \in BOOLEAN, tflag' = tflag
  PROVE  TrapDue <=> TrapDue'
<1> DEFINE f == [Top EXCEPT !.pc = pc]
<1>1. StackOK /\ stack # <<>> /\ Top \in Frame BY Executing
<1>2. Edit(f) BY <1>1, GotoLemma DEF StackOK
<1>3. f.tf = Top.tf BY <1>1 DEF Frame
<1> HIDE DEF f
<1>4. Depth \in Nat BY <1>1, DepthNat
<1> QED BY <1>2, <1>3, <1>4 DEF TrapDue, Edit, Top

LEMMA RefineInit == Init => D!Init
<1> SUFFICES ASSUME Init PROVE mode = "running" /\ step = FALSE BY DEF D!Init
<1>1. Depth = 0 BY EmptySeq DEF Init, Depth
<1>2. 1..Depth = {} BY <1>1
<1> HIDE DEF Depth
<1> QED BY <1>2, ModeLemma DEF Init, TrapDue, States, NOT_RUNNING, RUNNING

\* The steps that do not touch running_state.
LEMMA RefineOthers ==
  ASSUME TypeOK, TypeOK', SessionInv,
         \/ Linux \/ Lapic \/ DebugTrap \/ UNCHANGED vars
         \/ FakeKbdEvent \/ KbdHandler \/ KbdHookFirst \/ KbdHookLast \/ KbdReturn
         \/ \E ev \in UserEvents : KbdInterrupt(ev)
  PROVE  UNCHANGED <<mode, step>>
<1>0. StackOK /\ kbd.site = "hooked" BY DEF TypeOK, StackOK, SessionInv, KbdOK
<1>1. running_state' = running_state
  BY DEF Linux, Lapic, LinuxFlag, Int3, TimerExpires, TimerToLinux, TimerToIce, TimerToNowhere,
         DebugTrap, FakeKbdEvent, KbdHandler, KbdHookFirst, KbdHookLast, KbdReturn,
         KbdInterrupt, vars, ice
<1>2. TrapDue <=> TrapDue'
  <2>1. CASE Int3 \/ TimerToIce \/ DebugTrap
    <3>1. PICK kind \in Vectors : Enter(kind, "entry", FALSE)
      BY <2>1 DEF Int3, TimerToIce, DebugTrap, Vectors
    <3>2. Push(kind, "entry") /\ tflag' = FALSE BY <1>0, <3>1, EnterLemma DEF SessionPCs
    <3> QED BY <1>0, <3>2, TrapPush
  <2>2. CASE TimerToNowhere
    <3>1. Push("wild", "nested") /\ tflag' = FALSE BY <1>0, <2>2, EnterLemma DEF TimerToNowhere
    <3> QED BY <1>0, <3>1, TrapPush
  <2>3. ASSUME NEW ev \in UserEvents, KbdInterrupt(ev) PROVE TrapDue <=> TrapDue'
    <3>1. CASE Enter("kbd", "nested", FALSE)
      <4>1. Push("kbd", "nested") /\ tflag' = FALSE BY <1>0, <3>1, EnterLemma
      <4> QED BY <1>0, <4>1, TrapPush
    <3>2. CASE UNCHANGED cpu BY <3>2 DEF cpu, TrapDue, Depth
    <3> QED BY <2>3, <3>1, <3>2 DEF KbdInterrupt
  <2>4. CASE KbdReturn
    <3>1. stack # <<>> /\ Return /\ tflag = FALSE
      BY <1>0, <2>4 DEF KbdReturn, KbdExecutes, Executes, StackOK
    <3> QED BY <1>0, <3>1, ReturnLemma, TrapPop
  <2>5. CASE \/ LinuxFlag \/ TimerExpires \/ TimerToLinux \/ UNCHANGED vars
             \/ FakeKbdEvent \/ KbdHandler \/ KbdHookFirst \/ KbdHookLast
    <3>1. UNCHANGED <<stack, tflag>>
      BY <2>5 DEF LinuxFlag, TimerExpires, TimerToLinux, vars, cpu, FakeKbdEvent, KbdHandler,
                  KbdHookFirst, KbdHookLast
    <3> QED BY <3>1 DEF TrapDue, Depth
  <2> QED BY <2>1, <2>2, <2>3, <2>4, <2>5 DEF Linux, Lapic
<1> QED BY <1>1, <1>2, RefineStutter

LEMMA RefineDebugger ==
  ASSUME TypeOK, TypeOK', SessionInv, Debugger
  PROVE  [D!Next]_(D!vars)
<1>0. StackOK /\ running_state \in States /\ running_state' \in States
      /\ iflag' \in BOOLEAN /\ tflag' \in BOOLEAN
  BY DEF TypeOK, StackOK
<1> USE DEF D!vars, D!Next
<1>1. CASE IceClaim
  <2>1. running_state' = RUNNING BY <1>1 DEF IceClaim
  <2>a. Top.pc = "claim" /\ Depth \in 1..MaxDepth BY <1>1, Executing DEF IceClaim
  <2>2. Depth > 0 BY <2>a, BoundsAssumption
  <2>3. running_state # RUNNING BY <2>a, <2>2 DEF SessionInv, ClaimOK
  <2> QED BY <1>0, <2>1, <2>3, ModeLemma, ModeLemmaPrime DEF D!Break
<1>2. CASE DebuggerClear
  <2>1. running_state' = NOT_RUNNING BY <1>2 DEF DebuggerClear
  <2>a. Top.pc = "clear" /\ Depth \in 1..MaxDepth BY <1>2, Executing DEF DebuggerClear
  <2>2. Depth \in 1..Depth BY <2>a, BoundsAssumption
  <2>3. running_state = RUNNING BY <2>a, <2>2 DEF SessionInv, ExclOK, ActivePCs, Top
  <2>4. step' \in BOOLEAN BY <1>0, ModeLemmaPrime
  <2> QED BY <1>0, <2>1, <2>3, <2>4, ModeLemma, ModeLemmaPrime DEF D!Resume
<1>3. CASE IceDispatch \/ StubCli
  <2>1. PICK from, pc \in SessionPCs : Executes(Vectors, from) /\ Goto(pc) /\ tflag' = tflag
    BY <1>3 DEF IceDispatch, StubCli, SessionPCs
  <2>2. running_state' = running_state BY <1>3 DEF IceDispatch, StubCli, ice
  <2> QED BY <1>0, <2>1, <2>2, TrapGoto, RefineStutter
<1>4. CASE IceHookTimer \/ DebuggerStart \/ GetKey \/ ExecCommand \/ DebuggerUnhook
  \* the session's own steps: nobody is told of a trap while it runs
  <2>1. running_state' = running_state
    BY <1>4 DEF IceHookTimer, DebuggerStart, GetKey, ExecCommand, DebuggerUnhook, ice
  <2>2. PICK from \in ActivePCs : Executes(Vectors, from)
    BY <1>4 DEF IceHookTimer, DebuggerStart, GetKey, ExecCommand, DebuggerUnhook, ActivePCs
  <2>a. Top.pc \in ActivePCs /\ Depth \in 1..MaxDepth BY <2>2, Executing
  <2>3. Depth \in 1..Depth BY <2>a, BoundsAssumption
  <2>4. running_state = RUNNING BY <2>a, <2>3 DEF SessionInv, ExclOK, Top
  <2> QED BY <2>1, <2>4, RefineStutter
<1>5. CASE StubReturn
  <2>1. stack # <<>> /\ Return /\ tflag = FALSE /\ running_state' = running_state
    BY <1>5, Executing DEF StubReturn, ice
  <2> QED BY <1>0, <2>1, ReturnLemma, TrapPop, RefineStutter
<1> QED BY <1>1, <1>2, <1>3, <1>4, <1>5 DEF Debugger

LEMMA RefineRequest ==
  ASSUME TypeOK, TypeOK', SessionInv, KbdRequest
  PROVE  D!Request
<1>1. running_state = NOT_RUNNING /\ running_state' = ENTERING
  BY DEF KbdRequest, KbdExecutes, SessionInv, GateOK
<1>2. TrapDue <=> TrapDue' BY DEF KbdRequest, cpu, TrapDue, Depth
<1>3. running_state # RUNNING /\ running_state' # RUNNING
  BY <1>1 DEF NOT_RUNNING, ENTERING, RUNNING
<1>4. running_state \in States /\ running_state' \in States BY DEF TypeOK
<1>5. step' = step BY <1>2, <1>3 DEF step, TrapDue
<1> QED BY <1>1, <1>4, <1>5, ModeLemma, ModeLemmaPrime DEF D!Request

LEMMA RefineNext ==
  ASSUME TypeOK, TypeOK', SessionInv, [Next]_vars
  PROVE  [D!Next]_(D!vars)
<1>1. KbdRequest => D!Next BY RefineRequest DEF D!Next
<1>2. \/ Linux \/ Lapic \/ DebugTrap \/ UNCHANGED vars
      \/ FakeKbdEvent \/ KbdHandler \/ KbdHookFirst \/ KbdHookLast \/ KbdReturn
      \/ \E ev \in UserEvents : KbdInterrupt(ev)
      \/ KbdRequest \/ Debugger
  BY DEF Next, Keyboard
<1> QED BY <1>1, <1>2, RefineOthers, RefineDebugger DEF D!vars

\* For every depth, queue and line length the protocol of interrupts, frames
\* and vectors implements the three-state debugger: a break-in is requested of
\* a program that runs, a request is forgotten by a pause only, and a
\* single-step trap is neither lost nor raised twice between two sessions.
THEOREM ProtocolImplementsDebugger ==
  ASSUME KbdSites = {"hooked"} PROVE Spec => ImplementsDebugger
<1>1. Init => D!Init BY RefineInit
<1>2. TypeOK /\ TypeOK' /\ SessionInv /\ [Next]_vars => [D!Next]_(D!vars) BY RefineNext
<1> QED BY <1>1, <1>2, Invariance, PTL DEF Spec, ImplementsDebugger, D!Spec
=============================================================================
