----------------------------- MODULE InputProofs -----------------------------
(***************************************************************************)
(* input.c, both halves of it.  For every KEYQ_MAX > 1 and every set of    *)
(* keys: the writer never laps the reader, keys are dropped only when the  *)
(* ring is full, and the ring implements the bounded queue KeyFifo.  And   *)
(* for every set of key codes and any number of keys held at once: what    *)
(* kbd_handler makes of them (module Keyboard).                            *)
(***************************************************************************)
EXTENDS KeyQueue, Keyboard, TLAPS

-----------------------------------------------------------------------------
(***************************************************************************)
(* The ring.                                                               *)
(***************************************************************************)
\* The masked increment and the masked differences of positions in the ring.
LEMMA MaskLemma ==
  ASSUME NEW a \in Slots, NEW b \in Slots
  PROVE  /\ Inc(a) \in Slots
         /\ Inc(a) = IF a + 1 = KEYQ_MAX THEN 0 ELSE a + 1
         /\ Mask(b - a) = IF b >= a THEN b - a ELSE b - a + KEYQ_MAX
         /\ Mask(b - a - 1) = IF b > a THEN b - a - 1 ELSE b - a - 1 + KEYQ_MAX
  BY MaxAssumption, SMT DEF Slots, Inc, Mask

\* The ring is full exactly when one more key would make it look empty.
LEMMA FullLemma ==
  ASSUME TypeOK
  PROVE  /\ FULL <=> Inc(head) = tail
         /\ CHARS \in 0..(KEYQ_MAX - 1)
         /\ FULL <=> CHARS = KEYQ_MAX - 1
         /\ EMPTY <=> CHARS = 0
<1>1. head \in Slots /\ tail \in Slots BY DEF TypeOK
<1>2. /\ Inc(head) = IF head + 1 = KEYQ_MAX THEN 0 ELSE head + 1
      /\ CHARS = IF head >= tail THEN head - tail ELSE head - tail + KEYQ_MAX
      /\ LEFT = IF tail > head THEN tail - head - 1 ELSE tail - head - 1 + KEYQ_MAX
  BY <1>1, MaskLemma DEF CHARS, LEFT
<1> QED BY <1>1, <1>2, MaxAssumption, SMT DEF Slots, FULL, EMPTY

-----------------------------------------------------------------------------
(***************************************************************************)
(* Safety.  NoLap is inductive together with TypeOK: the test of put_key   *)
(* stays true until its store, since only the reader moves tail and it     *)
(* moves it away from head.                                                *)
(***************************************************************************)
IInv == TypeOK /\ NoLap

LEMMA InitIInv == Init => IInv
<1> SUFFICES ASSUME Init PROVE IInv OBVIOUS
<1>1. TypeOK BY MaxAssumption DEF Init, TypeOK, Slots, Chars
<1>2. NoLap BY DEF Init, NoLap
<1> QED BY <1>1, <1>2 DEF IInv

LEMMA NextTypeOK == TypeOK /\ [Next]_vars => TypeOK'
<1> SUFFICES ASSUME TypeOK, [Next]_vars PROVE TypeOK' OBVIOUS
<1>0. Inc(head) \in Slots /\ Inc(tail) \in Slots BY MaskLemma DEF TypeOK
<1> USE DEF TypeOK, Chars, ring
<1>1. ASSUME NEW c \in Keys, NEW site \in {"same", "other"}, PutCall(c, site) PROVE TypeOK'
  BY <1>1 DEF PutCall
<1>2. CASE PutTest BY <1>2 DEF PutTest
<1>3. CASE PutStore BY <1>3 DEF PutStore
<1>4. CASE PutAdvance BY <1>4, <1>0 DEF PutAdvance
<1>5. CASE GetCall
  <2>1. PICK pc \in {"test", "poll"} : GetGoto(pc) BY <1>5 DEF GetCall
  <2> QED BY <1>5, <2>1 DEF GetCall, GetGoto
<1>6. CASE GetTest BY <1>6 DEF GetTest, GetGoto
<1>7. CASE GetHalt BY <1>7 DEF GetHalt, GetGoto
<1>8. CASE GetPoll BY <1>8 DEF GetPoll, GetGoto
<1>9. CASE GetLoad BY <1>9 DEF GetLoad
<1>10. CASE GetAdvance BY <1>10, <1>0 DEF GetAdvance, GetGoto
<1>11. CASE Tick BY <1>11 DEF Tick, GetGoto
<1>12. CASE UNCHANGED vars BY <1>12 DEF vars
<1> QED BY <1>1, <1>2, <1>3, <1>4, <1>5, <1>6, <1>7, <1>8, <1>9, <1>10, <1>11, <1>12
        DEF Next, PutStep, GetStep

LEMMA NextNoLap == IInv /\ [Next]_vars => NoLap'
<1> SUFFICES ASSUME IInv, [Next]_vars PROVE NoLap' OBVIOUS
<1>0. TypeOK /\ NoLap /\ TypeOK' BY NextTypeOK DEF IInv
<1> USE DEF NoLap, ring
<1>1. ASSUME NEW c \in Keys, NEW site \in {"same", "other"}, PutCall(c, site) PROVE NoLap'
  BY <1>0, <1>1 DEF PutCall, TypeOK
<1>2. CASE PutTest BY <1>0, <1>2, FullLemma DEF PutTest, TypeOK
<1>3. CASE PutStore
  \* the slot written is not the one the reader has read: the ring is not empty
  BY <1>0, <1>3 DEF PutStore, TypeOK
<1>4. CASE PutAdvance BY <1>0, <1>4 DEF PutAdvance, TypeOK
<1>5. CASE GetCall
  <2>1. PICK pc \in {"test", "poll"} : GetGoto(pc) BY <1>5 DEF GetCall
  <2> QED BY <1>0, <1>5, <2>1 DEF GetCall, GetGoto, TypeOK
<1>6. CASE GetTest BY <1>0, <1>6 DEF GetTest, GetGoto, TypeOK, EMPTY
<1>7. CASE GetHalt BY <1>0, <1>7 DEF GetHalt, GetGoto, TypeOK
<1>8. CASE GetPoll BY <1>0, <1>8 DEF GetPoll, GetGoto, TypeOK, EMPTY
<1>9. CASE GetLoad BY <1>0, <1>9 DEF GetLoad, GetExecutes, TypeOK
<1>10. CASE GetAdvance
  <2>1. head # tail BY <1>0, <1>10 DEF GetAdvance, GetExecutes
  <2>2. head \in Slots /\ tail \in Slots BY <1>0 DEF TypeOK
  <2>3. /\ Inc(head) = IF head + 1 = KEYQ_MAX THEN 0 ELSE head + 1
        /\ Inc(tail) = IF tail + 1 = KEYQ_MAX THEN 0 ELSE tail + 1
    BY <2>2, MaskLemma
  <2>4. Inc(head) # Inc(tail) BY <2>1, <2>2, <2>3, MaxAssumption, SMT DEF Slots
  <2> QED BY <1>0, <1>10, <2>4 DEF GetAdvance, GetGoto, TypeOK
<1>11. CASE Tick BY <1>0, <1>11 DEF Tick, GetGoto, TypeOK
<1>12. CASE UNCHANGED vars BY <1>0, <1>12 DEF vars
<1> QED BY <1>1, <1>2, <1>3, <1>4, <1>5, <1>6, <1>7, <1>8, <1>9, <1>10, <1>11, <1>12
        DEF Next, PutStep, GetStep

LEMMA Invariance == Spec => []IInv
<1>1. Init => IInv BY InitIInv
<1>2. IInv /\ [Next]_vars => IInv' BY NextTypeOK, NextNoLap DEF IInv
<1> QED BY <1>1, <1>2, PTL DEF Spec

\* The ring's indices, slots and calls stay in range for every size.
THEOREM TypeCorrect == Spec => []TypeOK
<1>1. IInv => TypeOK BY DEF IInv
<1> QED BY <1>1, Invariance, PTL

\* The writer never overwrites a key that is unread or being read, and the
\* reader never reads a slot that holds no key.
THEOREM NeverLaps == Spec => []NoLap
<1>1. IInv => NoLap BY DEF IInv
<1> QED BY <1>1, Invariance, PTL

-----------------------------------------------------------------------------
\* A key is given up only when all slots but one hold unread keys.
THEOREM DropsOnlyWhenFull == Spec => DropOnlyWhenFull
<1>1. ASSUME TypeOK, [Next]_vars, put.pc = "test", put'.pc = "idle"
      PROVE  Len(Contents) = KEYQ_MAX - 1
  <2>1. PutTest
    BY <1>1 DEF Next, vars, TypeOK, PutCall, PutTest, PutStep, PutStore, PutAdvance, GetCall,
                GetStep, GetTest, GetHalt, GetPoll, GetLoad, GetAdvance, Tick
  <2>2. FULL BY <1>1, <2>1 DEF PutTest, TypeOK
  <2>3. CHARS = KEYQ_MAX - 1 BY <1>1, <2>2, FullLemma
  <2>4. Len(Contents) = CHARS
    <3>1. CHARS \in Nat BY <2>3, MaxAssumption
    <3> HIDE DEF CHARS
    <3> QED BY <3>1 DEF Contents
  <2> QED BY <2>3, <2>4
<1>2. TypeOK /\ [Next]_vars =>
        [put.pc = "test" /\ put'.pc = "idle" => Len(Contents) = KEYQ_MAX - 1]_vars
  BY <1>1
<1> QED BY <1>2, TypeCorrect, PTL DEF Spec, DropOnlyWhenFull

-----------------------------------------------------------------------------
(***************************************************************************)
(* Refinement.  A put takes effect when head moves, a get when tail moves; *)
(* every other step leaves Contents and got alone.                         *)
(***************************************************************************)

\* The queue that the ring stands for, as a sequence.
LEMMA ContentsLemma ==
  ASSUME TypeOK
  PROVE  /\ CHARS \in Nat
         /\ Len(Contents) = CHARS
         /\ Contents \in Seq(Chars)
         /\ \A i \in 1..CHARS : Contents[i] = buf[Mask(tail + i - 1)]
<1>1. CHARS \in 0..(KEYQ_MAX - 1) BY FullLemma
<1>2. ASSUME NEW i \in 1..CHARS PROVE Mask(tail + i - 1) \in Slots
  BY <1>1, MaxAssumption, SMT DEF TypeOK, Slots, Mask
<1>3. \A i \in 1..CHARS : buf[Mask(tail + i - 1)] \in Chars BY <1>2 DEF TypeOK
<1> HIDE DEF CHARS
<1>4. CHARS \in Nat BY <1>1, MaxAssumption
<1> QED BY <1>3, <1>4 DEF Contents

\* The slot of the i-th waiting key; the one behind the last is head.
Slot(t, i) == IF t + i - 1 < KEYQ_MAX THEN t + i - 1 ELSE t + i - 1 - KEYQ_MAX

LEMMA SlotLemma ==
  ASSUME NEW t \in Slots, NEW i \in 1..KEYQ_MAX
  PROVE  Mask(t + i - 1) = Slot(t, i) /\ Slot(t, i) \in Slots
<1>1. t + i - 1 \in 0..(2 * KEYQ_MAX - 1) BY MaxAssumption DEF Slots
<1>2. CASE t + i - 1 < KEYQ_MAX BY <1>1, <1>2, MaxAssumption, SMT DEF Slots, Mask, Slot
<1>3. CASE ~(t + i - 1 < KEYQ_MAX)
  BY <1>1, <1>3, MaxAssumption, SMT DEF Slots, Mask, Slot
<1> QED BY <1>2, <1>3

\* How many keys wait, without the mask.
Waiting(h, t) == IF h >= t THEN h - t ELSE h - t + KEYQ_MAX

LEMMA CharsLemma ==
  ASSUME TypeOK
  PROVE  /\ CHARS = Waiting(head, tail)
         /\ CHARS \in 0..(KEYQ_MAX - 1)
         /\ Inc(head) # tail => Waiting(Inc(head), tail) = CHARS + 1
         /\ head # tail => Waiting(head, Inc(tail)) = CHARS - 1
         /\ Slot(tail, CHARS + 1) = head
         /\ \A i \in 1..CHARS : Slot(tail, i) # head
         /\ \A i \in 1..(CHARS - 1) : Slot(Inc(tail), i) = Slot(tail, i + 1)
<1>1. head \in Slots /\ tail \in Slots BY DEF TypeOK
<1>2. CHARS = Waiting(head, tail) BY <1>1, MaskLemma DEF CHARS, Waiting
<1>3. /\ Inc(head) = IF head + 1 = KEYQ_MAX THEN 0 ELSE head + 1
      /\ Inc(tail) = IF tail + 1 = KEYQ_MAX THEN 0 ELSE tail + 1
  BY <1>1, MaskLemma
<1> HIDE DEF CHARS, Inc
<1>4. CHARS \in 0..(KEYQ_MAX - 1) BY <1>1, <1>2, MaxAssumption DEF Slots, Waiting
<1>5. Inc(head) # tail => Waiting(Inc(head), tail) = CHARS + 1
  BY <1>1, <1>2, <1>3, MaxAssumption DEF Slots, Waiting
<1>6. head # tail => Waiting(head, Inc(tail)) = CHARS - 1
  BY <1>1, <1>2, <1>3, MaxAssumption DEF Slots, Waiting
<1>7. Slot(tail, CHARS + 1) = head
  BY <1>1, <1>2, MaxAssumption DEF Slots, Waiting, Slot
<1>8. \A i \in 1..CHARS : Slot(tail, i) # head
  BY <1>1, <1>2, MaxAssumption DEF Slots, Waiting, Slot
<1>9. \A i \in 1..(CHARS - 1) : Slot(Inc(tail), i) = Slot(tail, i + 1)
  BY <1>1, <1>3, <1>4, MaxAssumption DEF Slots, Slot
<1> QED BY <1>2, <1>4, <1>5, <1>6, <1>7, <1>8, <1>9

\* The waiting keys by their slots.
LEMMA QueueLemma ==
  ASSUME TypeOK
  PROVE  /\ CHARS \in Nat
         /\ Contents = [i \in 1..CHARS |-> buf[Slot(tail, i)]]
         /\ Contents \in Seq(Chars)
         /\ Len(Contents) = CHARS
<1>1. CHARS \in 0..(KEYQ_MAX - 1) BY CharsLemma
<1>2. \A i \in 1..CHARS : Mask(tail + i - 1) = Slot(tail, i)
  BY <1>1, SlotLemma, MaxAssumption DEF TypeOK
<1>3. Contents = [i \in 1..CHARS |-> buf[Slot(tail, i)]] BY <1>2 DEF Contents
<1> QED BY <1>1, <1>3, ContentsLemma

-----------------------------------------------------------------------------
\* put_key puts the key it was called with.
PutKeeps ==
  /\ put.pc # "idle" => put.c \in Keys
  /\ put.pc = "advance" => buf[head] = put.c

LEMMA PutKept == Spec => []PutKeeps
<1>1. Init => PutKeeps BY DEF Init, PutKeeps
<1>2. TypeOK /\ PutKeeps /\ [Next]_vars => PutKeeps'
  BY DEF TypeOK, PutKeeps, Next, vars, ring, PutCall, PutTest, PutStep, PutStore, PutAdvance,
         GetCall, GetStep, GetTest, GetHalt, GetPoll, GetLoad, GetAdvance, Tick
<1> QED BY <1>1, <1>2, TypeCorrect, PTL DEF Spec

LEMMA RefineInit == Init => Fifo!Init
<1> SUFFICES ASSUME Init PROVE Contents = <<>> /\ got = 0 BY DEF Fifo!Init
<1>1. TypeOK BY InitIInv DEF IInv
<1>2. CHARS = 0 BY <1>1, FullLemma DEF Init, EMPTY
<1> QED BY <1>1, <1>2, QueueLemma DEF Init

\* The key behind head is appended when head moves.
LEMMA RefinePut ==
  ASSUME IInv, IInv', PutKeeps, PutAdvance
  PROVE  Fifo!Put(put.c)
<1>1. /\ head' = Inc(head) /\ tail' = tail /\ buf' = buf /\ got' = got
      /\ put.pc = "advance" /\ Inc(head) # tail /\ buf[head] = put.c
  BY DEF PutAdvance, IInv, NoLap, PutKeeps
<1>2. TypeOK /\ TypeOK' BY DEF IInv
<1>3. CHARS \in Nat /\ CHARS < KEYQ_MAX - 1
  <2>1. CHARS \in 0..(KEYQ_MAX - 1) /\ CHARS # KEYQ_MAX - 1 BY <1>1, <1>2, FullLemma
  <2> HIDE DEF CHARS
  <2> QED BY <2>1, MaxAssumption
<1>4. CHARS' = CHARS + 1
  <2>1. CHARS' = Waiting(head', tail')
    <3>1. head' \in Slots /\ tail' \in Slots BY <1>2 DEF TypeOK
    <3> QED BY <3>1, MaskLemma DEF Waiting, CHARS
  <2> QED BY <2>1, <1>1, <1>2, CharsLemma
<1>5. Contents' = [i \in 1..CHARS' |-> buf'[Slot(tail', i)]]
  <2>1. CHARS' \in 0..(KEYQ_MAX - 1)
    BY <1>3, <1>4, MaxAssumption
  <2>2. tail' \in Slots BY <1>2 DEF TypeOK
  <2>3. \A i \in 1..CHARS' : Mask(tail' + i - 1) = Slot(tail', i)
    BY <2>1, <2>2, SlotLemma, MaxAssumption
  <2> QED BY <2>3 DEF Contents
<1>6. Contents = [i \in 1..CHARS |-> buf[Slot(tail, i)]] /\ Len(Contents) = CHARS
      /\ Contents \in Seq(Chars)
  BY <1>2, QueueLemma
<1>7. buf[Slot(tail, CHARS + 1)] = put.c BY <1>1, <1>2, CharsLemma
<1>8. Contents' = Append(Contents, put.c)
  <2> HIDE DEF CHARS, Contents
  <2> QED BY <1>1, <1>3, <1>4, <1>5, <1>6, <1>7
<1> QED BY <1>1, <1>3, <1>6, <1>8 DEF Fifo!Put

\* The key at tail is taken when tail moves.
LEMMA RefineGet ==
  ASSUME IInv, IInv', GetAdvance
  PROVE  Fifo!Get
<1>1. /\ head' = head /\ tail' = Inc(tail) /\ buf' = buf /\ got' = buf[tail]
      /\ head # tail
  BY DEF GetAdvance, GetExecutes, IInv, NoLap
<1>2. TypeOK /\ TypeOK' BY DEF IInv
<1>3. CHARS \in Nat /\ CHARS > 0
  BY <1>1, <1>2, FullLemma, QueueLemma DEF EMPTY
<1>4. CHARS' = CHARS - 1
  <2>1. CHARS' = Waiting(head', tail')
    <3>1. head' \in Slots /\ tail' \in Slots BY <1>2 DEF TypeOK
    <3> QED BY <3>1, MaskLemma DEF Waiting, CHARS
  <2> QED BY <2>1, <1>1, <1>2, CharsLemma
<1>5. Contents' = [i \in 1..CHARS' |-> buf'[Slot(tail', i)]]
  <2>1. CHARS' \in 0..(KEYQ_MAX - 1)
    <3>1. CHARS \in 0..(KEYQ_MAX - 1) BY <1>2, FullLemma
    <3> HIDE DEF CHARS
    <3> QED BY <3>1, <1>3, <1>4, MaxAssumption
  <2>2. tail' \in Slots BY <1>2 DEF TypeOK
  <2>3. \A i \in 1..CHARS' : Mask(tail' + i - 1) = Slot(tail', i)
    BY <2>1, <2>2, SlotLemma, MaxAssumption
  <2> QED BY <2>3 DEF Contents
<1>6. Contents = [i \in 1..CHARS |-> buf[Slot(tail, i)]] /\ Len(Contents) = CHARS
      /\ Contents \in Seq(Chars)
  BY <1>2, QueueLemma
<1>7. \A i \in 1..(CHARS - 1) : Slot(Inc(tail), i) = Slot(tail, i + 1)
  BY <1>2, CharsLemma
<1>8. Slot(tail, 1) = tail
  BY <1>2, MaxAssumption DEF TypeOK, Slots, Slot
<1>9. Contents # <<>> /\ Head(Contents) = buf[tail] /\ Contents' = Tail(Contents)
  <2> HIDE DEF CHARS, Contents, Slot
  <2>1. Contents[1] = buf[tail] BY <1>3, <1>6, <1>8
  <2>2. Contents' = [i \in 1..(CHARS - 1) |-> Contents[i + 1]]
    BY <1>1, <1>3, <1>4, <1>5, <1>6, <1>7
  <2> QED BY <1>3, <1>6, <2>1, <2>2
<1> QED BY <1>1, <1>9 DEF Fifo!Get

\* The store of put_key does not change what waits.
LEMMA RefineStore ==
  ASSUME IInv, PutStore
  PROVE  UNCHANGED <<Contents, got>>
<1>1. /\ head' = head /\ tail' = tail /\ got' = got
      /\ buf' = [buf EXCEPT ![head] = put.c]
  BY DEF PutStore
<1>2. TypeOK BY DEF IInv
<1>3. CHARS' = CHARS BY <1>1 DEF CHARS
<1>4. \A i \in 1..CHARS : Mask(tail + i - 1) \in Slots /\ Mask(tail + i - 1) # head
  <2>1. CHARS \in 0..(KEYQ_MAX - 1) BY <1>2, CharsLemma
  <2>2. \A i \in 1..CHARS : Slot(tail, i) # head BY <1>2, CharsLemma
  <2> HIDE DEF CHARS
  <2> QED BY <1>2, <2>1, <2>2, SlotLemma, MaxAssumption DEF TypeOK
<1>5. \A i \in 1..CHARS : buf'[Mask(tail + i - 1)] = buf[Mask(tail + i - 1)]
  BY <1>1, <1>2, <1>4 DEF TypeOK
<1> HIDE DEF CHARS
<1> QED BY <1>1, <1>3, <1>5 DEF Contents

LEMMA RefineNext ==
  ASSUME IInv, IInv', PutKeeps, [Next]_vars
  PROVE  [Fifo!Next]_(Fifo!vars)
<1> USE DEF Fifo!vars
<1> DEFINE Still == UNCHANGED <<Contents, got>>
<1>0. UNCHANGED <<ring, got>> => Still BY DEF ring, Contents, CHARS
<1>1. ASSUME NEW c \in Keys, NEW site \in {"same", "other"}, PutCall(c, site) PROVE Still
  BY <1>0, <1>1 DEF PutCall
<1>2. CASE PutTest BY <1>0, <1>2 DEF PutTest
<1>3. CASE PutStore BY <1>3, RefineStore
<1>4. CASE PutAdvance
  <2>1. put.c \in Keys BY <1>4 DEF PutAdvance, PutKeeps
  <2> QED BY <1>4, <2>1, RefinePut DEF Fifo!Next
<1>5. CASE GetCall \/ GetTest \/ GetHalt \/ GetLoad \/ Tick
  BY <1>0, <1>5 DEF GetCall, GetTest, GetHalt, GetLoad, Tick
<1>6. CASE GetPoll
  <2>1. CASE EMPTY
    <3>1. Contents = <<>> BY <2>1, FullLemma, QueueLemma DEF IInv
    <3>2. Contents' = Contents BY <1>6 DEF GetPoll, ring, Contents, CHARS
    <3>3. got' = 0 BY <1>6, <2>1 DEF GetPoll
    <3> QED BY <3>1, <3>2, <3>3 DEF Fifo!Next, Fifo!Nothing
  <2>2. CASE ~EMPTY BY <1>0, <1>6, <2>2 DEF GetPoll
  <2> QED BY <2>1, <2>2
<1>7. CASE GetAdvance BY <1>7, RefineGet DEF Fifo!Next
<1>8. CASE UNCHANGED vars BY <1>0, <1>8 DEF vars, ring
<1> QED BY <1>1, <1>2, <1>3, <1>4, <1>5, <1>6, <1>7, <1>8 DEF Next, PutStep, GetStep

\* For every size of the ring, writer and reader together implement the
\* bounded queue of KeyFifo: keys are read once, in order, unaltered.
THEOREM RingImplementsFifo == Spec => ImplementsFifo
<1>1. Init => Fifo!Init BY RefineInit
<1>2. IInv /\ IInv' /\ PutKeeps /\ [Next]_vars => [Fifo!Next]_(Fifo!vars) BY RefineNext
<1> QED BY <1>1, <1>2, Invariance, PutKept, PTL DEF Spec, ImplementsFifo, Fifo!Spec

-----------------------------------------------------------------------------
(***************************************************************************)
(* The keyboard handler.                                                   *)
(***************************************************************************)
Values == {ICE_KEYUP, ICE_KEYDOWN, REPEAT}

\* The six modifier keys, spelled out for the provers.
LEMMA ModifierLemma ==
  /\ Modifiers = {"CTRL", "SHIFT", "ALT"}
  /\ ModifierKeys["CTRL"] = {29, 97}
  /\ ModifierKeys["SHIFT"] = {42, 54}
  /\ ModifierKeys["ALT"] = {56, 100}
BY DEF Modifiers, ModifierKeys

LEMMA ValueLemma ==
  ICE_KEYUP # ICE_KEYDOWN /\ REPEAT # ICE_KEYUP /\ REPEAT # ICE_KEYDOWN
BY DEF ICE_KEYUP, ICE_KEYDOWN, REPEAT

\* What an event does to the modifiers.
LEMMA FuncKeyLemma ==
  ASSUME NEW code, NEW value \in Values, NEW f \in Modifiers
  PROVE  /\ value = ICE_KEYDOWN =>
              (f \in FuncKey(code, value) <=> f \in func_key \/ code \in ModifierKeys[f])
         /\ value = ICE_KEYUP =>
              (f \in FuncKey(code, value) <=> f \in func_key /\ code \notin ModifierKeys[f])
         /\ value = REPEAT => FuncKey(code, value) = func_key
BY ValueLemma DEF FuncKey, Values

-----------------------------------------------------------------------------
(***************************************************************************)
(* Types.                                                                  *)
(***************************************************************************)
LEMMA KeymapTypes == \A i : KeymapByte(i) \subseteq {"q", "other", "NUL", ENTER}
BY DEF KeymapByte

LEMMA KbdInitTypeOK == KbdInit => KbdTypeOK
BY DEF KbdInit, KbdTypeOK

LEMMA KbdEventTypeOK ==
  ASSUME KbdTypeOK, NEW code \in Codes, NEW value \in Values, Event(code, value)
  PROVE  KbdTypeOK'
<1>1. down' \subseteq Codes /\ blurred' \subseteq Modifiers BY ValueLemma DEF Event, KbdTypeOK, Values
<1>2. func_key' \subseteq Modifiers BY ValueLemma DEF Event, FuncKey, KbdTypeOK, Values
<1>3. /\ linuxDown' \subseteq Codes /\ atBreak' \subseteq Codes
      /\ running_state' \in {"NOT_RUNNING", "ENTERING", "RUNNING"}
  BY ValueLemma DEF Event, KeyToLinux, KeyToDebugger, ToLinux, KbdTypeOK, Values
<1>4. typed' \in {"none", "q", "other", "NUL", ENTER}
  BY KeymapTypes DEF Event, KeyToLinux, KeyToDebugger, Keymap
<1> QED BY <1>1, <1>2, <1>3, <1>4 DEF KbdTypeOK

\* Every step but an event leaves the keys alone.
LEMMA KbdNextCases ==
  ASSUME [KbdNext]_kbdVars
  PROVE  \/ \E code \in Codes, value \in Values : Event(code, value)
         \/ /\ UNCHANGED <<down, func_key, linuxDown, blurred, atBreak>>
            /\ typed' = "none" \/ typed' = typed
            /\ running_state' # "NOT_RUNNING" => running_state # "NOT_RUNNING"
            /\ running_state' \in {running_state, "RUNNING", "NOT_RUNNING"}
BY DEF KbdNext, SessionStart, SessionEnd, Idle, kbdVars, Values

LEMMA KbdNextTypeOK == KbdTypeOK /\ [KbdNext]_kbdVars => KbdTypeOK'
<1> SUFFICES ASSUME KbdTypeOK, [KbdNext]_kbdVars PROVE KbdTypeOK' OBVIOUS
<1> QED BY KbdNextCases, KbdEventTypeOK DEF KbdTypeOK

-----------------------------------------------------------------------------
(***************************************************************************)
(* Modifiers.  ModifiersAgree is not inductive by itself: the release of   *)
(* one of two keys clears the bit, so whoever forgets that both were held  *)
(* cannot excuse it.  PairsKnown is what remembers.                        *)
(***************************************************************************)
PairsKnown == \A f \in Modifiers : ModifierKeys[f] \subseteq down => f \in blurred

ModInv == ModifiersAgree /\ PairsKnown

LEMMA EventModInv ==
  ASSUME ModInv, NEW code \in Codes, NEW value \in Values, Event(code, value)
  PROVE  ModInv'
<1>0. KbdTypeOK /\ KbdTypeOK' BY KbdEventTypeOK DEF ModInv, ModifiersAgree
<1>1. ASSUME NEW f \in Modifiers
      PROVE  LET held == ModifierKeys[f] \cap down' # {} IN
             /\ f \in func_key' => held
             /\ held /\ f \notin blurred' => f \in func_key'
             /\ ModifierKeys[f] \subseteq down' => f \in blurred'
  <2>0. /\ f \in func_key => ModifierKeys[f] \cap down # {}
        /\ ModifierKeys[f] \cap down # {} /\ f \notin blurred => f \in func_key
        /\ ModifierKeys[f] \subseteq down => f \in blurred
    BY DEF ModInv, ModifiersAgree, PairsKnown
  <2>1. /\ func_key' = FuncKey(code, value)
        /\ f \in blurred' <=> \/ ModifierKeys[f] \subseteq down'
                              \/ f \in blurred /\ ModifierKeys[f] \cap down' # {}
    BY DEF Event
  <2>2. \A j, k, l \in ModifierKeys[f] : j = k \/ k = l \/ j = l
    <3>1. f = "CTRL" \/ f = "SHIFT" \/ f = "ALT" BY ModifierLemma
    <3>2. CASE f = "CTRL" BY <3>2, ModifierLemma
    <3>3. CASE f = "SHIFT" BY <3>3, ModifierLemma
    <3>4. CASE f = "ALT" BY <3>4, ModifierLemma
    <3> QED BY <3>1, <3>2, <3>3, <3>4
  <2>3. CASE value = ICE_KEYDOWN
    <3>1. down' = down \cup {code} BY <2>3, ValueLemma DEF Event
    <3> QED BY <2>0, <2>1, <2>3, <3>1, FuncKeyLemma
  <2>4. CASE value = ICE_KEYUP
    <3>1. down' = down \ {code} /\ code \in down BY <2>4, ValueLemma DEF Event
    <3>2. ASSUME f \in func_key' PROVE ModifierKeys[f] \cap down' # {}
      BY <2>0, <2>1, <2>4, <3>1, <3>2, FuncKeyLemma
    <3>3. ASSUME ModifierKeys[f] \cap down' # {}, f \notin blurred' PROVE f \in func_key'
      \* the key released is none of the pair: else both were down, and known to be
      <4>1. f \notin blurred BY <2>1, <3>3
      <4>2. code \notin ModifierKeys[f] BY <2>0, <2>2, <3>1, <3>3, <4>1
      <4> QED BY <2>0, <2>1, <2>4, <3>1, <3>3, <4>1, <4>2, FuncKeyLemma
    <3> QED BY <2>1, <3>2, <3>3
  <2>5. CASE value = REPEAT
    <3>1. down' = down BY <2>5, ValueLemma DEF Event
    <3> QED BY <2>0, <2>1, <2>5, <3>1, FuncKeyLemma
  <2> QED BY <2>3, <2>4, <2>5 DEF Values
<1> QED BY <1>0, <1>1 DEF ModInv, ModifiersAgree, PairsKnown

LEMMA ModInvariance == KbdSpec => []ModInv
<1>1. KbdInit => ModInv
  <2> SUFFICES ASSUME KbdInit PROVE ModInv
    OBVIOUS
  <2>1. ASSUME NEW f \in Modifiers, ModifierKeys[f] \subseteq down PROVE f \in blurred
    BY <2>1, ModifierLemma DEF KbdInit
  <2>2. \A f \in Modifiers : f \notin func_key /\ (ModifierKeys[f] \cap down # {} => f \in blurred)
    BY DEF KbdInit
  <2> QED BY <2>1, <2>2, KbdInitTypeOK DEF ModInv, ModifiersAgree, PairsKnown
<1>2. ModInv /\ [KbdNext]_kbdVars => ModInv'
  <2> SUFFICES ASSUME ModInv, [KbdNext]_kbdVars PROVE ModInv' OBVIOUS
  <2>1. CASE UNCHANGED <<down, func_key, blurred>>
    BY <2>1, KbdNextTypeOK DEF ModInv, ModifiersAgree, PairsKnown
  <2> QED BY <2>1, KbdNextCases, EventModInv
<1> QED BY <1>1, <1>2, PTL DEF KbdSpec

\* kbd_handler's one bit per modifier agrees with the keys that are held, but
\* after the first release of a pair.
THEOREM ModifiersAgreeAlways == KbdSpec => []ModifiersAgree
<1>1. ModInv => ModifiersAgree BY DEF ModInv
<1> QED BY <1>1, ModInvariance, PTL

-----------------------------------------------------------------------------
(***************************************************************************)
(* Keys that get stuck.  While the debugger is engaged Linux is told       *)
(* nothing, so what it believes is still what it believed at the break-in. *)
(***************************************************************************)
StuckInv ==
  /\ StuckOnlyByBreak
  /\ running_state # "NOT_RUNNING" => linuxDown \subseteq atBreak

LEMMA EventStuckInv ==
  ASSUME StuckInv, NEW code \in Codes, NEW value \in Values, Event(code, value)
  PROVE  StuckInv'
<1>1. CASE KeyToDebugger(code, value)
  BY <1>1, ValueLemma DEF Event, KeyToDebugger, StuckInv, StuckOnlyByBreak, Values
<1>2. CASE KeyToLinux(code, value)
  <2>1. CASE running_state' = "ENTERING" /\ atBreak' = linuxDown /\ UNCHANGED linuxDown
    BY <2>1 DEF StuckInv, StuckOnlyByBreak
  <2>2. CASE ToLinux(code, value) /\ UNCHANGED <<running_state, atBreak>>
    BY <1>2, <2>2, ValueLemma
    DEF Event, KeyToLinux, ToLinux, StuckInv, StuckOnlyByBreak, Values
  <2> QED BY <1>2, <2>1, <2>2 DEF KeyToLinux
<1> QED BY <1>1, <1>2 DEF Event

\* A key that Linux takes for pressed though it is not was down at a break-in:
\* a session loses no other release.
THEOREM StuckByBreakOnly == KbdSpec => []StuckOnlyByBreak
<1>1. KbdInit => StuckInv BY DEF KbdInit, StuckInv, StuckOnlyByBreak
<1>2. StuckInv /\ [KbdNext]_kbdVars => StuckInv'
  <2> SUFFICES ASSUME StuckInv, [KbdNext]_kbdVars PROVE StuckInv' OBVIOUS
  <2>1. CASE /\ UNCHANGED <<down, linuxDown, atBreak>>
             /\ running_state' # "NOT_RUNNING" => running_state # "NOT_RUNNING"
    BY <2>1 DEF StuckInv, StuckOnlyByBreak
  <2> QED BY <2>1, KbdNextCases, EventStuckInv
<1>3. StuckInv => StuckOnlyByBreak BY DEF StuckInv
<1> QED BY <1>1, <1>2, <1>3, PTL DEF KbdSpec

-----------------------------------------------------------------------------
(***************************************************************************)
(* The keymaps and the codes that do not fit them.                         *)
(***************************************************************************)
LEMMA QLemma == ASSUME NEW code \in 0 .. 767, "q" \in Keymap(0, code)
                PROVE  code = 16 \/ code >= 384
<1>1. "q" \in KeymapByte(code) BY DEF Keymap
<1> QED BY <1>1 DEF KeymapByte, ENTER

\* A NUL lies in Alt's layer, where a layer has no entries, or where a code of
\* 128 and more runs from Shift's layer to Alt's.
LEMMA NulLemma ==
  ASSUME NEW layer \in 0..2, NEW pos \in 0..255, "NUL" \in Keymap(layer, pos)
  PROVE  layer = 2 \/ pos % 128 >= 112 \/ (layer = 1 /\ pos >= 128)
<1> SUFFICES ASSUME layer # 2, ~(layer = 1 /\ pos >= 128) PROVE pos % 128 >= 112
  OBVIOUS
<1>1. PICK i \in 0..511 : i = 128 * layer + pos
  OBVIOUS
<1>2. i < 3 * 128 /\ i % 128 = pos % 128
  BY <1>1
<1>3. i < 2 * 128
  BY <1>1
<1>4. i \div 128 # 2
  BY <1>3
<1> QED BY <1>1, <1>2, <1>4 DEF Keymap, KeymapByte, ENTER

\* How a NUL is typed.
NulTyped ==
  \/ down' \cap {56, 100} # {}
  \/ \E k \in down' : k % 128 >= 112
  \/ down' \cap {42, 54} # {} /\ \E k \in down' : k % 256 >= 128

LEMMA OverrunStep ==
  ASSUME ModInv, ModInv', NEW code \in Codes, code \in 0 .. 767, NEW value \in Values, Event(code, value)
  PROVE  /\ running_state = "NOT_RUNNING" /\ running_state' # "NOT_RUNNING" =>
              \E k \in down' \ down : (k = 16 \/ k >= 384) /\ down \cap {29, 97} # {}
         /\ typed' = "NUL" => NulTyped
<1>1. ASSUME running_state = "NOT_RUNNING", running_state' # "NOT_RUNNING"
      PROVE  \E k \in down' \ down : (k = 16 \/ k >= 384) /\ down \cap {29, 97} # {}
  <2>1. MayBeHotkey(code, value) BY <1>1 DEF Event, KeyToLinux, KeyToDebugger
  <2>2. code = 16 \/ code >= 384 BY <2>1, QLemma DEF MayBeHotkey
  <2>3. value = ICE_KEYDOWN /\ "CTRL" \in FuncKey(code, value) BY <2>1 DEF MayBeHotkey
  <2>4. code \in down' \ down BY <2>3, ValueLemma DEF Event
  <2>5. code \notin {29, 97} BY <2>2
  <2>6. "CTRL" \in func_key BY <2>3, <2>5, FuncKeyLemma, ModifierLemma
  <2>7. down \cap {29, 97} # {} BY <2>6, ModifierLemma DEF ModInv, ModifiersAgree
  <2> QED BY <2>2, <2>4, <2>7
<1>2. ASSUME typed' = "NUL" PROVE NulTyped
  <2> DEFINE layer == Layer(FuncKey(code, value))
  <2>1. value # ICE_KEYUP /\ typed' \in Keymap(layer, code % 256)
    BY <1>2 DEF Event, KeyToLinux, KeyToDebugger
  <2>2. code \in down' /\ func_key' = FuncKey(code, value)
    BY <2>1 DEF Event, Values
  <2>3. /\ layer \in 0..2
        /\ layer = 2 => "ALT" \in func_key'
        /\ layer = 1 => "SHIFT" \in func_key'
    BY <2>2 DEF Layer
  <2> HIDE DEF layer
  <2>4. code % 256 \in 0..255 /\ (code % 256) % 128 = code % 128
    OBVIOUS
  <2>5. layer = 2 \/ code % 128 >= 112 \/ (layer = 1 /\ code % 256 >= 128)
    BY <1>2, <2>1, <2>3, <2>4, NulLemma
  <2>6. CASE layer = 2
    BY <2>3, <2>6, ModifierLemma DEF ModInv, ModifiersAgree, NulTyped
  <2>7. CASE code % 128 >= 112
    BY <2>2, <2>7 DEF NulTyped
  <2>8. CASE layer = 1 /\ code % 256 >= 128
    <3>1. down' \cap {42, 54} # {}
      BY <2>3, <2>8, ModifierLemma DEF ModInv, ModifiersAgree
    <3> QED BY <2>2, <2>8, <3>1 DEF NulTyped
  <2> QED BY <2>5, <2>6, <2>7, <2>8
<1> QED BY <1>1, <1>2

\* For every code an event can carry, masked or not: a break-in is Q pressed
\* with Ctrl held, or a code behind the keymaps, and NUL is typed with Alt held,
\* with a code that a layer has no entry for, or with Shift held and a code that
\* runs from the second layer into the third.
THEOREM OverrunHarmless ==
  ASSUME Codes \subseteq 0 .. 767    \* KEY_MAX
  PROVE  KbdSpec => KeymapOverrun
<1>1. ModInv /\ ModInv' /\ [KbdNext]_kbdVars =>
        [/\ running_state = "NOT_RUNNING" /\ running_state' # "NOT_RUNNING" =>
              \E k \in down' \ down : (k = 16 \/ k >= 384) /\ down \cap {29, 97} # {}
         /\ typed' = "NUL" => NulTyped]_kbdVars
  <2> SUFFICES ASSUME ModInv, ModInv', [KbdNext]_kbdVars, kbdVars' # kbdVars
               PROVE  /\ running_state = "NOT_RUNNING" /\ running_state' # "NOT_RUNNING" =>
                           \E k \in down' \ down : (k = 16 \/ k >= 384) /\ down \cap {29, 97} # {}
                      /\ typed' = "NUL" => NulTyped
    OBVIOUS
  <2>1. CASE \E code \in Codes, value \in Values : Event(code, value)
    <3>1. Codes \subseteq 0 .. 767 OBVIOUS
    <3> QED BY <2>1, <3>1, OverrunStep
  <2>2. CASE SessionStart \/ SessionEnd BY <2>2 DEF SessionStart, SessionEnd, Idle
  <2> QED BY <2>1, <2>2 DEF KbdNext, Values
<1> QED BY <1>1, ModInvariance, PTL DEF KbdSpec, KeymapOverrun, NulTyped
=============================================================================
