--------------------------- MODULE StubFrameProofs ---------------------------
(***************************************************************************)
(* Proofs about StubFrame, for every set of vectors: at each instruction   *)
(* of the stub the words pushed so far are the end of struct ice_regs.     *)
(***************************************************************************)
EXTENDS StubFrame, SequenceTheorems, TLAPS

-----------------------------------------------------------------------------
(* The layout: the order of pushaq is that of the struct, backwards, and   *)
(* popaq's is the struct's.                                                *)

LEMMA Lengths == Len(Fields) = 26 /\ Len(Pushaq) = 18 /\ Len(Popaq) = 18
                 /\ DOMAIN Fields = 1..26
BY DEF Fields, Pushaq, Popaq

LEMMA PushOrder == \A k \in 1..18 : Pushaq[k] = Fields[20 - k]
BY DEF Pushaq, Fields

LEMMA PopOrder ==
  /\ Popaq[1] = "drop" /\ Popaq[2] = "drop"
  /\ \A k \in 3..18 : Popaq[k] = Fields[k + 1]
  /\ Popaq[18] = "ax"
BY DEF Popaq, Fields

LEMMA Named ==
  /\ Fields[1] = "bp" /\ Fields[20] = "int_no" /\ Fields[21] = "error_code"
  /\ Fields[22] = "ip" /\ Fields[23] = "cs" /\ Fields[24] = "flags"
  /\ Fields[25] = "sp" /\ Fields[26] = "ss" /\ Fields[19] = "ax"
  /\ \A i \in 1..26 : i \notin {20, 21} => Fields[i] \in Registers
  /\ \A i \in 1..26 : Fields[i] = "ax" => i = 19
<1>1. \A i \in 1..26 : i \notin {20, 21} => Fields[i] \notin {"int_no", "error_code"}
  BY DEF Fields
<1>2. \A i \in 1..26 : i \notin {20, 21} => Fields[i] \in Registers
  BY <1>1, Lengths DEF Registers
<1> QED BY <1>2 DEF Fields

\* What int_handler may destroy and popaq restores, RAX apart.
LEMMA Restored == \A r \in CallerSaved \ {"ax"} : \E k \in 3..17 : Popaq[k] = r
<1>1. Popaq[18] = "ax" /\ Popaq[17] = "bx" /\ Popaq[16] = "cx" /\ Popaq[15] = "dx"
      /\ Popaq[14] = "di" /\ Popaq[13] = "si" /\ Popaq[12] = "r8" /\ Popaq[11] = "r9"
      /\ Popaq[10] = "r10" /\ Popaq[9] = "r11"
  BY DEF Popaq
<1>2. {16, 15, 14, 13, 12, 11, 10, 9} \subseteq 3..17
  OBVIOUS
<1> HIDE DEF Popaq
<1> QED BY <1>1, <1>2 DEF CallerSaved

-----------------------------------------------------------------------------
(* The words on the stack.                                                 *)

\* What a register or a word of the stack may hold.
Values == {"own_" \o r : r \in Registers} \cup Vectors
          \cup {"user", "kernel", "junk", "0", "own_flags", "own_flags_TF", "none"}

\* The word that field i of the struct is for the interrupted code o.
Val(o, i) == CASE Fields[i] = "int_no"     -> o.vector
               [] Fields[i] = "error_code" -> "0"
               [] OTHER                    -> o.reg[Fields[i]]

\* The stack s is the end of the struct, its flags apart when c.
Frame(s, o, c) ==
  \A j \in 1..Len(s) : s[j] = Val(o, 26 - Len(s) + j) \/ (c /\ 26 - Len(s) + j = 24)

Origins == [reg : [Registers -> Values], gs : {"user", "kernel"}, vector : Vectors \cup {"none"}]

LEMMA ValIs ==
  ASSUME NEW o
  PROVE  /\ Val(o, 20) = o.vector /\ Val(o, 21) = "0"
         /\ \A i \in 1..26 : i \notin {20, 21} => Val(o, i) = o.reg[Fields[i]]
<1>1. \A i \in 1..26 : i \notin {20, 21} => Fields[i] \notin {"int_no", "error_code"}
  BY Named DEF Registers
<1> QED BY <1>1, Named DEF Val

LEMMA FramePush ==
  ASSUME NEW s \in Seq(Values), NEW o, NEW c, Frame(s, o, c), Len(s) < 26,
         NEW w \in Values, w = Val(o, 26 - Len(s))
  PROVE  /\ <<w>> \o s \in Seq(Values) /\ Len(<<w>> \o s) = Len(s) + 1
         /\ Frame(<<w>> \o s, o, c)
<1> DEFINE n == Len(s)
           t == <<w>> \o s
<1>1. n \in Nat
  BY LenProperties
<1>2. <<w>> \in Seq(Values) /\ Len(<<w>>) = 1 /\ <<w>>[1] = w
  OBVIOUS
<1>3. /\ t \in Seq(Values) /\ Len(t) = 1 + n
      /\ \A j \in 1 .. 1 + n : t[j] = IF j <= 1 THEN <<w>>[j] ELSE s[j - 1]
  BY <1>2, ConcatProperties
<1> HIDE DEF t, n
<1>4. ASSUME NEW j \in 1..(n + 1) PROVE t[j] = Val(o, 26 - (n + 1) + j) \/ (c /\ 26 - (n + 1) + j = 24)
  <2>1. CASE j = 1
    <3>1. 26 - (n + 1) + j = 26 - n
      BY <1>1, <2>1
    <3> QED BY <1>1, <1>2, <1>3, <2>1, <3>1 DEF n
  <2>2. CASE j # 1
    <3>1. j - 1 \in 1..n /\ 26 - (n + 1) + j = 26 - n + (j - 1)
      BY <1>1, <2>2
    <3>2. t[j] = s[j - 1]
      BY <1>1, <1>3, <2>2
    <3>3. s[j - 1] = Val(o, 26 - n + (j - 1)) \/ (c /\ 26 - n + (j - 1) = 24)
      BY <3>1 DEF Frame, n
    <3> QED BY <3>1, <3>2, <3>3
  <2> QED BY <2>1, <2>2
<1>5. Len(t) = n + 1
  BY <1>1, <1>3
<1> QED BY <1>3, <1>4, <1>5 DEF Frame, t, n

LEMMA FramePop ==
  ASSUME NEW s \in Seq(Values), NEW o, NEW c, Frame(s, o, c), Len(s) > 0, Len(s) <= 26
  PROVE  /\ Tail(s) \in Seq(Values) /\ Len(Tail(s)) = Len(s) - 1
         /\ Frame(Tail(s), o, c)
         /\ Head(s) \in Values
         /\ Head(s) = Val(o, 27 - Len(s)) \/ (c /\ 27 - Len(s) = 24)
<1> DEFINE n == Len(s)
           t == Tail(s)
<1>1. n \in Nat /\ s # <<>> /\ 1 \in 1..n
  BY LenProperties
<1>2. /\ Head(s) \in Values
      /\ t \in Seq(Values) /\ Len(t) = n - 1
      /\ \A i \in 1 .. Len(t) : t[i] = s[i + 1]
  BY <1>1, HeadTailProperties
<1>3. Head(s) = s[1]
  BY <1>1
<1>4. 26 - n + 1 = 27 - n
  BY <1>1
<1>5. Head(s) = Val(o, 27 - n) \/ (c /\ 27 - n = 24)
  BY <1>1, <1>3, <1>4 DEF Frame
<1> HIDE DEF t, n
<1>6. ASSUME NEW j \in 1..(n - 1) PROVE t[j] = Val(o, 26 - (n - 1) + j) \/ (c /\ 26 - (n - 1) + j = 24)
  <2>1. j + 1 \in 1..n /\ 26 - (n - 1) + j = 26 - n + (j + 1)
    BY <1>1
  <2>2. t[j] = s[j + 1]
    BY <1>2
  <2>3. s[j + 1] = Val(o, 26 - n + (j + 1)) \/ (c /\ 26 - n + (j + 1) = 24)
    BY <2>1 DEF Frame, n
  <2> QED BY <2>1, <2>2, <2>3
<1> QED BY <1>2, <1>5, <1>6 DEF Frame, t, n

-----------------------------------------------------------------------------
(* The inductive invariant: what holds before each instruction.            *)

Points == ({"push", "pop"} \X (1..18)) \cup ({"none"} \X {0})
          \cup ({"enter", "handler", "popbp", "iret"} \X {1}) \cup ({"test"} \X {1, 2})

\* The registers in R are those of the interrupted code.
Same(R) == \A r \in R : reg[r] = origin.reg[r]
Stacked(n, c) == Len(stack) = n /\ Frame(stack, origin, c)
Interrupted == gs = origin.gs
\* The base that the test of the code segment leaves int_handler with: the
\* user's if the interrupted kernel code had swapped already.
Handling == gs = IF origin.reg["cs"] = "user" THEN "kernel" ELSE origin.gs
Saved == Registers \ CallerSaved

\* Before push number k: RAX is the only register that pushaq changes, after
\* it has pushed it.
Pushing(k) ==
  /\ Stacked(6 + k, FALSE) /\ Interrupted
  /\ Same(Registers \ {"ax"}) /\ (k = 1 => reg["ax"] = origin.reg["ax"])

\* Before pop number k: what is popped already is restored, RAX is popped last.
Popping(k) ==
  /\ Stacked(26 - k, TRUE) /\ Interrupted
  /\ \A r \in Registers \ {"ax"} :
       r \notin CallerSaved \/ (\E m \in 3..(k - 1) : Popaq[m] = r) => reg[r] = origin.reg[r]

Before ==
  /\ at = <<"none", 0>> => stack = <<>>
  /\ \A k \in 1..18 : at = <<"push", k>> => Pushing(k)
  /\ at = <<"enter", 1>> => Stacked(25, FALSE) /\ Interrupted /\ Same(Registers \ {"ax"})
  /\ at = <<"test", 1>> => Stacked(26, FALSE) /\ Interrupted /\ Same(Registers \ {"ax"})
  /\ at = <<"handler", 1>> => Stacked(26, FALSE) /\ Handling /\ Same(Registers \ {"ax"})
  /\ at = <<"test", 2>> => Stacked(26, TRUE) /\ Handling /\ Same(Saved)
  /\ at = <<"popbp", 1>> => Stacked(26, TRUE) /\ Interrupted /\ Same(Saved)
  /\ \A k \in 1..18 : at = <<"pop", k>> => Popping(k)
  /\ at = <<"iret", 1>> => Stacked(7, TRUE) /\ Interrupted /\ Same(Registers)

Typed ==
  /\ at \in Points /\ reg \in [Registers -> Values] /\ stack \in Seq(Values)
  /\ gs \in {"user", "kernel"} /\ origin \in Origins
  /\ at # <<"none", 0>> => /\ origin.vector \in Vectors
                           /\ origin.reg["cs"] \in {"user", "kernel"}
                           /\ origin.reg["cs"] = "user" => origin.gs = "user"

StubInv == Typed /\ Before

LEMMA InitInv == Init => StubInv
<1> SUFFICES ASSUME Init PROVE StubInv
  OBVIOUS
<1>1. at = <<"none", 0>> /\ stack = <<>> /\ gs = "kernel"
      /\ reg = [r \in Registers |-> "own_" \o r] /\ origin = [reg |-> reg, gs |-> gs, vector |-> "none"]
  BY DEF Init
<1>2. reg \in [Registers -> Values]
  <2>1. \A r \in Registers : "own_" \o r \in Values
    BY Zenon DEF Values
  <2> QED BY <1>1, <2>1
<1>3. Typed
  <2>1. <<>> \in Seq(Values)
    OBVIOUS
  <2> QED BY <1>1, <1>2, <2>1 DEF Typed, Points, Origins
<1>4. Before
  BY <1>1 DEF Before
<1> QED BY <1>3, <1>4 DEF StubInv

\* The CPU pushes five words, the stub two: the end of the struct.
LEMMA InterruptStep ==
  ASSUME StubInv, Interrupt
  PROVE  StubInv'
<1>1. PICK v \in Vectors, mode \in {"user", "kernel"} :
        /\ reg' = [reg EXCEPT !["cs"] = mode]
        /\ gs' \in GsBases(v, mode)
        /\ origin' = [reg |-> reg', gs |-> gs', vector |-> v]
        /\ stack' = <<v, "0", reg["ip"], mode, reg["flags"], reg["sp"], reg["ss"]>>
  BY DEF Interrupt
<1>2. at' = <<"push", 1>>
  BY DEF Interrupt
<1>3. reg \in [Registers -> Values]
  BY DEF StubInv, Typed
<1>4. {"ip", "cs", "flags", "sp", "ss", "ax"} \subseteq Registers
  BY Named
<1>5. v \in Values /\ "0" \in Values /\ mode \in Values
  BY DEF Values
<1>6. reg' \in [Registers -> Values]
  BY <1>1, <1>3, <1>5
<1>7. origin' \in Origins /\ origin'.reg = reg' /\ origin'.vector = v
      /\ origin'.reg["cs"] = mode /\ origin'.gs = gs' /\ gs' \in {"user", "kernel"}
      /\ (mode = "user" => gs' = "user")
  BY <1>1, <1>3, <1>4, <1>6 DEF Origins, GsBases
<1>8. reg["ip"] \in Values /\ reg["flags"] \in Values /\ reg["sp"] \in Values /\ reg["ss"] \in Values
  BY <1>3, <1>4
<1>9. stack' \in Seq(Values) /\ Len(stack') = 7
      /\ stack'[1] = v /\ stack'[2] = "0" /\ stack'[3] = reg["ip"] /\ stack'[4] = mode
      /\ stack'[5] = reg["flags"] /\ stack'[6] = reg["sp"] /\ stack'[7] = reg["ss"]
  BY <1>1, <1>5, <1>8
<1>10. /\ Val(origin', 20) = v /\ Val(origin', 21) = "0" /\ Val(origin', 22) = reg["ip"]
       /\ Val(origin', 23) = mode /\ Val(origin', 24) = reg["flags"]
       /\ Val(origin', 25) = reg["sp"] /\ Val(origin', 26) = reg["ss"]
  <2>1. reg'["ip"] = reg["ip"] /\ reg'["flags"] = reg["flags"] /\ reg'["sp"] = reg["sp"]
        /\ reg'["ss"] = reg["ss"] /\ reg'["cs"] = mode
    BY <1>1, <1>3, <1>4
  <2> QED BY <1>7, <2>1, ValIs, Named
<1>11. ASSUME NEW j \in 1..7 PROVE stack'[j] = Val(origin', 26 - 7 + j)
  <2>1. 26 - 7 + j = 19 + j /\ j \in {1, 2, 3, 4, 5, 6, 7}
    OBVIOUS
  <2> QED BY <1>9, <1>10, <2>1
<1>12. Frame(stack', origin', FALSE)
  BY <1>9, <1>11 DEF Frame
<1>13. Pushing(1)'
  <2>1. Stacked(6 + 1, FALSE)'
    <3>1. Len(stack') = 6 + 1
      BY <1>9
    <3> QED BY <1>12, <3>1 DEF Stacked
  <2>2. Interrupted' /\ Same(Registers \ {"ax"})' /\ reg'["ax"] = origin'.reg["ax"]
    BY <1>7 DEF Interrupted, Same
  <2> QED BY <2>1, <2>2 DEF Pushing
<1>14. Typed'
  BY <1>1, <1>2, <1>6, <1>7, <1>9 DEF Typed, Points
<1>15. Before'
  BY <1>2, <1>13 DEF Before
<1> QED BY <1>14, <1>15 DEF StubInv

\* One push of pushaq: its register is the field of the struct that comes next.
LEMMA PushStep ==
  ASSUME StubInv, PushReg
  PROVE  StubInv'
<1>1. PICK k \in 1..18 : at = <<"push", k>>
  BY DEF StubInv, Typed, Points, PushReg
<1> DEFINE r == Pushaq[k]
<1>2. /\ stack' = <<reg[r]>> \o stack
      /\ reg' = IF r \in Segments THEN [reg EXCEPT !["ax"] = reg[r]] ELSE reg
      /\ gs' = gs /\ origin' = origin
      /\ at' = IF k < 18 THEN <<"push", k + 1>> ELSE <<"enter", 1>>
  BY <1>1, Lengths DEF PushReg, Push, Advance
<1>3. Pushing(k)
  BY <1>1 DEF StubInv, Before
<1>4. r = Fields[20 - k] /\ r \in Registers /\ (r = "ax" => k = 1) /\ 20 - k \in 1..26
      /\ 20 - k \notin {20, 21}
  BY PushOrder, Named
<1>5. Typed
  BY DEF StubInv
<1> HIDE DEF r
<1>6. reg[r] = origin.reg[r] /\ reg[r] \in Values
  BY <1>3, <1>4, <1>5 DEF Pushing, Same, Typed
<1>7. Len(stack) = 6 + k /\ Frame(stack, origin, FALSE) /\ stack \in Seq(Values)
  BY <1>3, <1>5 DEF Pushing, Stacked, Typed
<1>8. reg[r] = Val(origin, 26 - Len(stack))
  <2>1. 26 - Len(stack) = 20 - k
    BY <1>7
  <2> QED BY <1>4, <1>6, <2>1, ValIs
<1>9. stack' \in Seq(Values) /\ Len(stack') = 6 + (k + 1) /\ Frame(stack', origin, FALSE)
  <2>1. Len(stack) < 26
    BY <1>7
  <2>2. /\ <<reg[r]>> \o stack \in Seq(Values) /\ Len(<<reg[r]>> \o stack) = Len(stack) + 1
        /\ Frame(<<reg[r]>> \o stack, origin, FALSE)
    BY <1>6, <1>7, <1>8, <2>1, FramePush
  <2> DEFINE pushed == <<reg[r]>> \o stack
  <2>3. stack' = pushed
    BY <1>2
  <2>4. Len(stack) + 1 = 6 + (k + 1)
    BY <1>7
  <2> HIDE DEF pushed
  <2> QED BY <2>2, <2>3, <2>4 DEF pushed
<1>10. reg' \in [Registers -> Values] /\ \A x \in Registers \ {"ax"} : reg'[x] = reg[x]
  BY <1>2, <1>5, <1>6 DEF Typed
<1>11. Interrupted' /\ Same(Registers \ {"ax"})'
  BY <1>2, <1>3, <1>10 DEF Pushing, Interrupted, Same
<1>12. at' \in Points /\ at # <<"none", 0>>
  BY <1>1, <1>2 DEF Points
<1>13. Typed'
  BY <1>2, <1>5, <1>9, <1>10, <1>12 DEF Typed
<1>14. CASE k < 18
  <2>1. at' = <<"push", k + 1>> /\ k + 1 # 1
    BY <1>2, <1>14
  <2>2. Pushing(k + 1)'
    BY <1>2, <1>9, <1>11, <2>1 DEF Pushing, Stacked
  <2>3. Before'
    BY <2>1, <2>2 DEF Before
  <2> QED BY <1>13, <2>3 DEF StubInv
<1>15. CASE k = 18
  <2>1. at' = <<"enter", 1>> /\ Len(stack') = 25
    BY <1>2, <1>9, <1>15
  <2>2. Stacked(25, FALSE)'
    BY <1>2, <1>9, <2>1 DEF Stacked
  <2>3. Before'
    BY <1>11, <2>1, <2>2 DEF Before
  <2> QED BY <1>13, <2>3 DEF StubInv
<1> QED BY <1>14, <1>15

\* The base pointer completes the struct.
LEMMA EnterStep ==
  ASSUME StubInv, Enter
  PROVE  StubInv'
<1>1. at = <<"enter", 1>> /\ at' = <<"test", 1>> /\ stack' = <<reg["bp"]>> \o stack
      /\ reg' = reg /\ gs' = gs /\ origin' = origin
  BY DEF Enter, Push
<1>2. Typed /\ Len(stack) = 25 /\ Frame(stack, origin, FALSE) /\ Interrupted
      /\ Same(Registers \ {"ax"})
  BY <1>1 DEF StubInv, Before, Stacked
<1>3. "bp" \in Registers /\ reg["bp"] \in Values /\ reg["bp"] = origin.reg["bp"]
  BY <1>2, Named, SMTT(20) DEF Typed, Same
<1>4. reg["bp"] = Val(origin, 26 - Len(stack))
  <2>1. 26 - Len(stack) = 1
    BY <1>2
  <2> QED BY <1>3, <2>1, ValIs, Named, SMTT(20)
<1> DEFINE pushed == <<reg["bp"]>> \o stack
<1>5. pushed \in Seq(Values) /\ Len(pushed) = 26 /\ Frame(pushed, origin, FALSE)
  <2>1. stack \in Seq(Values) /\ Len(stack) < 26
    BY <1>2 DEF Typed
  <2>2. pushed \in Seq(Values) /\ Len(pushed) = Len(stack) + 1 /\ Frame(pushed, origin, FALSE)
    BY <1>2, <1>3, <1>4, <2>1, FramePush
  <2>3. Len(stack) + 1 = 26
    BY <1>2
  <2> HIDE DEF pushed
  <2> QED BY <2>2, <2>3
<1> HIDE DEF pushed
<1>6. stack' = pushed
  BY <1>1 DEF pushed
<1>7. Typed'
  BY <1>1, <1>2, <1>5, <1>6 DEF Typed, Points
<1>8. Stacked(26, FALSE)' /\ Interrupted' /\ Same(Registers \ {"ax"})'
  BY <1>1, <1>2, <1>5, <1>6 DEF Stacked, Interrupted, Same
<1>9. at' = <<"test", 1>>
  BY <1>1
<1>10. Before'
  <2>1. at' # <<"none", 0>> /\ at' # <<"enter", 1>> /\ at' # <<"handler", 1>>
        /\ at' # <<"test", 2>> /\ at' # <<"popbp", 1>> /\ at' # <<"iret", 1>>
        /\ \A k \in 1..18 : at' # <<"push", k>> /\ at' # <<"pop", k>>
    BY <1>9
  <2> QED BY <1>8, <2>1 DEF Before
<1> QED BY <1>7, <1>10 DEF StubInv

\* The word at 0xB0(%rsi) is the code segment of the interrupted code, on the
\* way in and, int_handler having changed nothing but the flags, on the way out.
LEMMA TestStep ==
  ASSUME StubInv, TestCs
  PROVE  StubInv'
<1>1. /\ at \in {<<"test", 1>>, <<"test", 2>>}
      /\ reg' = reg /\ stack' = stack /\ origin' = origin
      /\ gs' = IF Word(CsOffset) = "user" THEN IF gs = "user" THEN "kernel" ELSE "user" ELSE gs
      /\ at' = IF at[2] = 1 THEN <<"handler", 1>> ELSE <<"popbp", 1>>
  BY DEF TestCs, Swapgs
<1>2. Typed /\ gs \in {"user", "kernel"} /\ origin.reg["cs"] \in {"user", "kernel"}
      /\ (origin.reg["cs"] = "user" => origin.gs = "user")
  BY <1>1 DEF StubInv, Typed
<1>3. ASSUME NEW c, Stacked(26, c) PROVE Word(CsOffset) = origin.reg["cs"]
  <2>1. Word(CsOffset) = stack[23]
    BY DEF Word, CsOffset
  <2>2. 23 \in 1..Len(stack) /\ 26 - Len(stack) + 23 = 23
    BY <1>3 DEF Stacked
  <2>3. stack[23] = Val(origin, 23)
    BY <1>3, <2>2 DEF Stacked, Frame
  <2> QED BY <2>1, <2>3, ValIs, Named
<1>4. gs' \in {"user", "kernel"}
  BY <1>1, <1>2
<1>5. Typed'
  BY <1>1, <1>2, <1>4 DEF Typed, Points
<1>6. CASE at = <<"test", 1>>
  <2>1. Stacked(26, FALSE) /\ Interrupted /\ Same(Registers \ {"ax"})
    BY <1>6 DEF StubInv, Before
  <2>2. Handling'
    BY <1>1, <1>2, <1>3, <2>1 DEF Interrupted, Handling
  <2>3. at' = <<"handler", 1>>
    BY <1>1, <1>6
  <2>4. Stacked(26, FALSE)' /\ Same(Registers \ {"ax"})'
    BY <1>1, <2>1 DEF Stacked, Same
  <2>5. Before'
    BY <2>2, <2>3, <2>4 DEF Before
  <2> QED BY <1>5, <2>5 DEF StubInv
<1>7. CASE at = <<"test", 2>>
  <2>1. Stacked(26, TRUE) /\ Handling /\ Same(Saved)
    BY <1>7 DEF StubInv, Before
  <2>2. gs' = origin.gs
    BY <1>1, <1>2, <1>3, <2>1 DEF Handling
  <2>3. at' = <<"popbp", 1>>
    BY <1>1, <1>7
  <2>4. Stacked(26, TRUE)' /\ Same(Saved)' /\ Interrupted'
    BY <1>1, <2>1, <2>2 DEF Stacked, Same, Interrupted
  <2>5. Before'
    BY <2>3, <2>4 DEF Before
  <2> QED BY <1>5, <2>5 DEF StubInv
<1> QED BY <1>1, <1>6, <1>7

\* int_handler keeps what the ABI says; in the frame it may change the flags.
LEMMA HandlerStep ==
  ASSUME StubInv, IntHandler
  PROVE  StubInv'
<1>1. /\ at = <<"handler", 1>> /\ at' = <<"test", 2>> /\ gs' = gs /\ origin' = origin
      /\ reg' = [r \in Registers |-> IF r \in CallerSaved THEN "junk" ELSE reg[r]]
  BY DEF IntHandler
<1>2. PICK f \in {"own_flags", "own_flags_TF"} : stack' = [stack EXCEPT ![24] = f]
  BY DEF IntHandler
<1>3. Typed /\ Len(stack) = 26 /\ Frame(stack, origin, FALSE) /\ Handling
      /\ Same(Registers \ {"ax"})
  BY <1>1 DEF StubInv, Before, Stacked
<1>4. f \in Values /\ "junk" \in Values
  BY DEF Values
<1>5. reg' \in [Registers -> Values]
  BY <1>1, <1>3, <1>4 DEF Typed
<1>6. stack \in Seq(Values) /\ 24 \in 1..Len(stack)
  BY <1>3 DEF Typed
<1>7. stack' \in Seq(Values) /\ Len(stack') = 26
      /\ \A j \in 1..26 : stack'[j] = IF j = 24 THEN f ELSE stack[j]
  <2>1. /\ [stack EXCEPT ![24] = f] \in Seq(Values)
        /\ Len([stack EXCEPT ![24] = f]) = Len(stack)
        /\ \A j \in 1..Len(stack) : [stack EXCEPT ![24] = f][j] = IF j = 24 THEN f ELSE stack[j]
    BY <1>4, <1>6, ExceptSeq
  <2> QED BY <1>2, <1>3, <2>1
<1>8. Frame(stack', origin, TRUE)
  <2>1. ASSUME NEW j \in 1..26 PROVE stack'[j] = Val(origin, 26 - 26 + j) \/ 26 - 26 + j = 24
    <3>1. CASE j = 24
      BY <3>1
    <3>2. CASE j # 24
      <4>1. stack[j] = Val(origin, 26 - 26 + j)
        BY <1>3 DEF Frame
      <4> QED BY <1>7, <3>2, <4>1
    <3> QED BY <3>1, <3>2
  <2> QED BY <1>7, <2>1 DEF Frame
<1>9. Same(Saved)'
  <2>1. "ax" \in CallerSaved
    BY DEF CallerSaved
  <2> QED BY <1>1, <1>3, <2>1 DEF Same, Saved
<1>10. Typed'
  BY <1>1, <1>3, <1>5, <1>7 DEF Typed, Points
<1>11. Stacked(26, TRUE)'
  BY <1>1, <1>7, <1>8 DEF Stacked
<1>12. Before'
  <2>1. at' # <<"none", 0>> /\ at' # <<"enter", 1>> /\ at' # <<"handler", 1>>
        /\ at' # <<"test", 1>> /\ at' # <<"popbp", 1>> /\ at' # <<"iret", 1>>
        /\ \A k \in 1..18 : at' # <<"push", k>> /\ at' # <<"pop", k>>
    BY <1>1
  <2>2. Handling'
    BY <1>1, <1>3 DEF Handling
  <2> QED BY <1>9, <1>11, <2>1, <2>2 DEF Before
<1> QED BY <1>10, <1>12 DEF StubInv

\* pop %rbp
LEMMA PopBpStep ==
  ASSUME StubInv, PopBp
  PROVE  StubInv'
<1>1. at = <<"popbp", 1>> /\ at' = <<"pop", 1>> /\ reg' = [reg EXCEPT !["bp"] = Head(stack)]
      /\ stack' = Tail(stack) /\ gs' = gs /\ origin' = origin
  BY DEF PopBp
<1>2. Typed /\ Len(stack) = 26 /\ Frame(stack, origin, TRUE) /\ Interrupted /\ Same(Saved)
      /\ stack \in Seq(Values)
  BY <1>1 DEF StubInv, Before, Stacked, Typed
<1>3. /\ Tail(stack) \in Seq(Values) /\ Len(Tail(stack)) = Len(stack) - 1
      /\ Frame(Tail(stack), origin, TRUE)
      /\ Head(stack) \in Values
      /\ Head(stack) = Val(origin, 27 - Len(stack)) \/ 27 - Len(stack) = 24
  <2>1. Len(stack) > 0 /\ Len(stack) <= 26
    BY <1>2
  <2> QED BY <1>2, <2>1, FramePop
<1>4. Head(stack) = origin.reg["bp"]
  <2>1. 27 - Len(stack) = 1
    BY <1>2
  <2>2. Val(origin, 1) = origin.reg["bp"]
    BY ValIs, Named
  <2> QED BY <1>3, <2>1, <2>2
<1>5. "bp" \in Registers
  BY Named
<1>6. reg' \in [Registers -> Values] /\ Same(Saved)'
  BY <1>1, <1>2, <1>3, <1>4, <1>5 DEF Typed, Same, Saved
<1>7. stack' \in Seq(Values) /\ Len(stack') = 26 - 1 /\ Frame(stack', origin, TRUE)
  <2>1. Len(stack) - 1 = 26 - 1
    BY <1>2
  <2> QED BY <1>1, <1>3, <2>1
<1>8. Typed'
  BY <1>1, <1>2, <1>6, <1>7 DEF Typed, Points
<1>9. Popping(1)'
  <2>1. Stacked(26 - 1, TRUE)' /\ Interrupted'
    BY <1>1, <1>2, <1>7 DEF Stacked, Interrupted
  <2>2. \A r \in Registers \ {"ax"} :
          r \notin CallerSaved \/ (\E m \in 3..(1 - 1) : Popaq[m] = r) => reg'[r] = origin'.reg[r]
    BY <1>6 DEF Same, Saved
  <2> QED BY <2>1, <2>2 DEF Popping
<1>10. Before'
  BY <1>1, <1>9 DEF Before
<1> QED BY <1>8, <1>10 DEF StubInv

\* One pop of popaq gives its register the field of the struct that is on top.
LEMMA PopStep ==
  ASSUME StubInv, PopReg
  PROVE  StubInv'
<1>1. PICK k \in 1..18 : at = <<"pop", k>>
  BY DEF StubInv, Typed, Points, PopReg
<1> DEFINE r == Popaq[k]
<1>2. /\ stack' = Tail(stack) /\ gs' = gs /\ origin' = origin
      /\ reg' = CASE r = "drop"       -> reg
                  [] r \in Segments   -> [reg EXCEPT ![r] = Head(stack), !["ax"] = Head(stack)]
                  [] OTHER            -> [reg EXCEPT ![r] = Head(stack)]
      /\ at' = IF k < 18 THEN <<"pop", k + 1>> ELSE <<"iret", 1>>
  BY <1>1, Lengths DEF PopReg, Advance
<1>3. Popping(k) /\ Typed
  BY <1>1 DEF StubInv, Before
<1>4. Len(stack) = 26 - k /\ Frame(stack, origin, TRUE) /\ stack \in Seq(Values) /\ Interrupted
  BY <1>3 DEF Popping, Stacked, Typed
<1>5. /\ Tail(stack) \in Seq(Values) /\ Len(Tail(stack)) = Len(stack) - 1
      /\ Frame(Tail(stack), origin, TRUE)
      /\ Head(stack) \in Values
      /\ Head(stack) = Val(origin, 27 - Len(stack)) \/ 27 - Len(stack) = 24
  <2>1. Len(stack) > 0 /\ Len(stack) <= 26
    BY <1>4
  <2> QED BY <1>4, <2>1, FramePop
<1>6. Head(stack) = origin.reg[Fields[k + 1]]
  <2>1. 27 - Len(stack) = k + 1 /\ k + 1 \in 1..26 /\ k + 1 \notin {20, 21} /\ k + 1 # 24
    BY <1>4
  <2> QED BY <1>5, <2>1, ValIs
<1>7. CASE k < 3
  <2>1. r = "drop" /\ k < 18
    BY <1>7, PopOrder
  <2>2. reg' = reg /\ at' = <<"pop", k + 1>>
    <3>1. "drop" \notin Segments
      BY DEF Segments
    <3> HIDE DEF r
    <3> QED BY <1>2, <2>1, <3>1
  <2>3. \A x \in Registers \ {"ax"} :
          x \notin CallerSaved \/ (\E m \in 3..((k + 1) - 1) : Popaq[m] = x)
            => reg'[x] = origin'.reg[x]
    <3>1. 3..((k + 1) - 1) = {}
      BY <1>7
    <3> QED BY <1>2, <1>3, <2>2, <3>1 DEF Popping
  <2>4. stack' \in Seq(Values) /\ Len(stack') = 26 - (k + 1)
    <3>1. Len(stack) - 1 = 26 - (k + 1)
      BY <1>4
    <3> QED BY <1>2, <1>5, <3>1
  <2>5. Popping(k + 1)'
    BY <1>2, <1>4, <1>5, <2>3, <2>4 DEF Popping, Stacked, Interrupted
  <2>6. Typed'
    <3>1. at' \in Points /\ at # <<"none", 0>>
      BY <1>1, <2>1, <2>2 DEF Points
    <3> HIDE DEF r
    <3> QED BY <1>2, <1>3, <2>2, <2>4, <3>1 DEF Typed
  <2>7. Before'
    BY <2>2, <2>5 DEF Before
  <2> QED BY <2>6, <2>7 DEF StubInv
<1>8. CASE k >= 3
  <2>1. r = Fields[k + 1] /\ r \in Registers /\ r # "drop" /\ (k = 18 <=> r = "ax")
    <3>1. k \in 3..18 /\ k + 1 \in 1..26 /\ k + 1 \notin {20, 21}
      BY <1>8
    <3>2. "drop" \notin Registers
      BY DEF Registers, Fields
    <3>3. k + 1 = 19 <=> k = 18
      OBVIOUS
    <3> QED BY <3>1, <3>2, <3>3, PopOrder, Named
  <2> HIDE DEF r
  <2>2. reg' \in [Registers -> Values] /\ reg'[r] = origin.reg[r]
        /\ \A x \in Registers \ {"ax"} : x # r => reg'[x] = reg[x]
    <3>1. "ax" \in Registers
      BY Named
    <3>2. reg \in [Registers -> Values] /\ Head(stack) \in Values /\ Head(stack) = origin.reg[r]
      BY <1>3, <1>5, <1>6, <2>1 DEF Typed
    <3>3. CASE r \in Segments
      <4>1. reg' = [reg EXCEPT ![r] = Head(stack), !["ax"] = Head(stack)]
        BY <1>2, <2>1, <3>3
      <4>2. r # "ax"
        BY <3>3 DEF Segments
      <4> QED BY <2>1, <3>1, <3>2, <4>1, <4>2
    <3>4. CASE r \notin Segments
      <4>1. reg' = [reg EXCEPT ![r] = Head(stack)]
        BY <1>2, <2>1, <3>4
      <4> QED BY <2>1, <3>2, <4>1
    <3> QED BY <3>3, <3>4
  <2>3. ASSUME NEW x \in Registers \ {"ax"},
               x \notin CallerSaved \/ \E m \in 3..k : Popaq[m] = x
        PROVE  reg'[x] = origin'.reg[x]
    <3>1. CASE x = r
      BY <1>2, <2>2, <3>1
    <3>2. CASE x # r
      <4>1. x \notin CallerSaved \/ \E m \in 3..(k - 1) : Popaq[m] = x
        <5>1. ASSUME NEW m \in 3..k, Popaq[m] = x PROVE m \in 3..(k - 1)
          <6>1. m # k
            BY <3>2, <5>1 DEF r
          <6> QED BY <6>1
        <5> QED BY <2>3, <5>1
      <4>2. reg[x] = origin.reg[x]
        BY <1>3, <4>1 DEF Popping
      <4> QED BY <1>2, <2>2, <3>2, <4>2
    <3> QED BY <3>1, <3>2
  <2>4. stack' \in Seq(Values) /\ Len(stack') = 26 - (k + 1) /\ Frame(stack', origin', TRUE)
    <3>1. Len(stack) - 1 = 26 - (k + 1)
      BY <1>4
    <3> QED BY <1>2, <1>5, <3>1
  <2>5. Interrupted'
    BY <1>2, <1>4 DEF Interrupted
  <2>6. Typed'
    <3>1. at' \in Points /\ at # <<"none", 0>>
      BY <1>1, <1>2 DEF Points
    <3>2. gs' = gs /\ origin' = origin
      BY <1>2
    <3> QED BY <1>3, <2>2, <2>4, <3>1, <3>2 DEF Typed
  <2>7. CASE k < 18
    <3>1. at' = <<"pop", k + 1>> /\ (k + 1) - 1 = k
      BY <1>2, <2>7
    <3>2. Popping(k + 1)'
      BY <2>3, <2>4, <2>5, <3>1 DEF Popping, Stacked
    <3>3. Before'
      BY <3>1, <3>2 DEF Before
    <3> QED BY <2>6, <3>3 DEF StubInv
  <2>8. CASE k = 18
    <3>1. at' = <<"iret", 1>> /\ Len(stack') = 7
      BY <1>2, <2>4, <2>8
    <3>2. \A x \in Registers : reg'[x] = origin'.reg[x]
      <4>1. \A x \in CallerSaved \ {"ax"} : \E m \in 3..k : Popaq[m] = x
        <5>1. \A m \in 3..17 : m \in 3..k
          BY <2>8
        <5> QED BY <5>1, Restored
      <4>2. \A x \in Registers \ {"ax"} : reg'[x] = origin'.reg[x]
        BY <2>3, <4>1
      <4>3. reg'["ax"] = origin'.reg["ax"]
        BY <1>2, <2>1, <2>2, <2>8
      <4> QED BY <4>2, <4>3
    <3>3. Stacked(7, TRUE)' /\ Same(Registers)'
      BY <2>4, <3>1, <3>2 DEF Stacked, Same
    <3>4. Before'
      BY <2>5, <3>1, <3>3 DEF Before
    <3> QED BY <2>6, <3>4 DEF StubInv
  <2> QED BY <2>7, <2>8
<1> QED BY <1>7, <1>8

\* iretq gives the interrupted code back what the CPU had pushed.
LEMMA IretqStep ==
  ASSUME StubInv, Iretq
  PROVE  /\ StubInv'
         /\ \A r \in Registers \ {"flags"} : reg'[r] = origin.reg[r]
         /\ gs' = origin.gs
<1>1. /\ at = <<"iret", 1>> /\ at' = <<"none", 0>> /\ stack' = <<>>
      /\ gs' = gs /\ origin' = origin
      /\ reg' = [reg EXCEPT !["ip"] = stack[3], !["cs"] = stack[4], !["flags"] = stack[5],
                            !["sp"] = stack[6], !["ss"] = stack[7]]
  BY DEF Iretq
<1>2. Typed /\ Len(stack) = 7 /\ Frame(stack, origin, TRUE) /\ Interrupted /\ Same(Registers)
  BY <1>1 DEF StubInv, Before, Stacked
<1>3. \A j \in 1..7 : j # 5 => stack[j] = Val(origin, 19 + j)
  <2> SUFFICES ASSUME NEW j \in 1..7, j # 5 PROVE stack[j] = Val(origin, 19 + j)
    OBVIOUS
  <2>1. 26 - Len(stack) + j = 19 + j /\ 19 + j # 24 /\ j \in 1..Len(stack)
    BY <1>2
  <2> QED BY <1>2, <2>1 DEF Frame
<1>4. /\ stack[3] = origin.reg["ip"] /\ stack[4] = origin.reg["cs"]
      /\ stack[6] = origin.reg["sp"] /\ stack[7] = origin.reg["ss"]
  <2>1. /\ stack[3] = Val(origin, 22) /\ stack[4] = Val(origin, 23)
        /\ stack[6] = Val(origin, 25) /\ stack[7] = Val(origin, 26)
    BY <1>3
  <2> QED BY <2>1, ValIs, Named
<1>5. \A j \in 1..7 : stack[j] \in Values
  <2>1. stack \in Seq(Values)
    BY <1>2 DEF Typed
  <2> QED BY <1>2, <2>1, ElementOfSeq
<1>6. {"ip", "cs", "flags", "sp", "ss"} \subseteq Registers /\ reg \in [Registers -> Values]
  BY <1>2, Named, SMTT(20) DEF Typed
<1>7. reg' \in [Registers -> Values]
  BY <1>1, <1>5, <1>6
<1>8. \A r \in Registers \ {"flags"} : reg'[r] = origin.reg[r]
  BY <1>1, <1>2, <1>4, <1>6 DEF Same
<1>9. Typed'
  <2>1. <<>> \in Seq(Values)
    OBVIOUS
  <2> QED BY <1>1, <1>2, <1>7, <2>1 DEF Typed, Points
<1>10. Before'
  <2>1. at' # <<"iret", 1>> /\ at' # <<"enter", 1>> /\ at' # <<"handler", 1>>
        /\ at' # <<"test", 1>> /\ at' # <<"test", 2>> /\ at' # <<"popbp", 1>>
        /\ \A k \in 1..18 : at' # <<"push", k>> /\ at' # <<"pop", k>>
    BY <1>1
  <2> QED BY <1>1, <2>1 DEF Before
<1>11. gs' = origin.gs
  BY <1>1, <1>2 DEF Interrupted
<1> QED BY <1>8, <1>9, <1>10, <1>11 DEF StubInv

LEMMA NextInv == StubInv /\ [Next]_vars => StubInv'
<1> SUFFICES ASSUME StubInv, [Next]_vars PROVE StubInv'
  OBVIOUS
<1>1. CASE Interrupt
  BY <1>1, InterruptStep
<1>2. CASE PushReg
  BY <1>2, PushStep
<1>3. CASE Enter
  BY <1>3, EnterStep
<1>4. CASE TestCs
  BY <1>4, TestStep
<1>5. CASE IntHandler
  BY <1>5, HandlerStep
<1>6. CASE PopBp
  BY <1>6, PopBpStep
<1>7. CASE PopReg
  BY <1>7, PopStep
<1>8. CASE Iretq
  BY <1>8, IretqStep
<1>9. CASE UNCHANGED vars
  <2>1. at' = at /\ reg' = reg /\ stack' = stack /\ gs' = gs /\ origin' = origin
    BY <1>9 DEF vars
  <2> QED BY <2>1 DEF StubInv, Typed, Before, Pushing, Popping, Stacked, Interrupted, Handling, Same
<1> QED BY <1>1, <1>2, <1>3, <1>4, <1>5, <1>6, <1>7, <1>8, <1>9 DEF Next

LEMMA AlwaysInv == Spec => []StubInv
<1>1. Init => StubInv
  BY InitInv
<1>2. StubInv /\ [Next]_vars => StubInv'
  BY NextInv
<1> QED BY <1>1, <1>2, PTL DEF Spec

(***************************************************************************)
(* int_handler's argument is a struct ice_regs: each of the 26 fields is   *)
(* the word of that register of the interrupted code, from every vector    *)
(* and out of user and of kernel code; and the GS base is the kernel's     *)
(* unless kernel code was interrupted behind its swapgs.                   *)
(***************************************************************************)
THEOREM StructReceived == Spec => []HandlerSees
<1>1. StubInv => HandlerSees
  <2> SUFFICES ASSUME StubInv PROVE HandlerSees
    OBVIOUS
  <2>1. Typed
    BY DEF StubInv
  <2>2. Len(stack) <= 26 /\ (at = <<"handler", 1>> => /\ Len(stack) = 26
                                                      /\ Frame(stack, origin, FALSE)
                                                      /\ Handling)
    <3>1. at = <<"none", 0>> => Len(stack) <= 26
      BY DEF StubInv, Before
    <3>2. ASSUME NEW k \in 1..18, at = <<"push", k>> PROVE Len(stack) <= 26
      <4>1. Len(stack) = 6 + k
        BY <3>2 DEF StubInv, Before, Pushing, Stacked
      <4> QED BY <4>1
    <3>3. ASSUME NEW k \in 1..18, at = <<"pop", k>> PROVE Len(stack) <= 26
      <4>1. Len(stack) = 26 - k
        BY <3>3 DEF StubInv, Before, Popping, Stacked
      <4> QED BY <4>1
    <3>4. ASSUME at \in ({"enter", "handler", "popbp", "iret"} \X {1}) \cup ({"test"} \X {1, 2})
          PROVE  Len(stack) <= 26
      <4>1. at = <<"enter", 1>> => Len(stack) = 25
        BY DEF StubInv, Before, Stacked
      <4>2. at = <<"iret", 1>> => Len(stack) = 7
        BY DEF StubInv, Before, Stacked
      <4>3. at \in {<<"handler", 1>>, <<"popbp", 1>>, <<"test", 1>>, <<"test", 2>>}
              => Len(stack) = 26
        BY DEF StubInv, Before, Stacked
      <4>4. at \in {<<"enter", 1>>, <<"iret", 1>>}
                   \cup {<<"handler", 1>>, <<"popbp", 1>>, <<"test", 1>>, <<"test", 2>>}
        BY <3>4
      <4>5. CASE Len(stack) = 26
        BY <4>5
      <4>6. CASE Len(stack) = 25
        BY <4>6
      <4>7. CASE Len(stack) = 7
        BY <4>7
      <4> QED BY <4>1, <4>2, <4>3, <4>4, <4>5, <4>6, <4>7
    <3>5. at = <<"handler", 1>> => /\ Len(stack) = 26 /\ Frame(stack, origin, FALSE)
                                   /\ Handling
      BY DEF StubInv, Before, Stacked
    <3>6. at \in Points
      BY <2>1 DEF Typed
    <3>7. Len(stack) <= 26
      <4>1. CASE at \in {"push", "pop"} \X (1..18)
        <5>1. PICK k \in 1..18 : at = <<"push", k>> \/ at = <<"pop", k>>
          BY <4>1
        <5> QED BY <3>2, <3>3, <5>1
      <4>2. CASE at \in {"none"} \X {0}
        BY <3>1, <4>2
      <4>3. CASE at \in ({"enter", "handler", "popbp", "iret"} \X {1}) \cup ({"test"} \X {1, 2})
        BY <3>4, <4>3
      <4> QED BY <3>6, <4>1, <4>2, <4>3 DEF Points
    <3> QED BY <3>5, <3>7
  <2>3. TypeOK
    BY <2>1, <2>2, Lengths DEF TypeOK, Typed, Points, Origins
  <2>4. ASSUME at[1] = "handler" PROVE at = <<"handler", 1>>
    BY <2>1, <2>4 DEF Typed, Points
  <2>5. ASSUME at = <<"handler", 1>>, NEW i \in 1..26 PROVE stack[i] = Val(origin, i)
    <3>0. Len(stack) = 26
      BY <2>2, <2>5
    <3>1. 26 - Len(stack) + i = i /\ i \in 1..Len(stack)
      BY <3>0
    <3> QED BY <2>2, <2>5, <3>1 DEF Frame
  <2>6. ASSUME at = <<"handler", 1>>
        PROVE  gs = "kernel" <=> ~(origin.gs = "user" /\ origin.reg["cs"] = "kernel")
    <3>1. /\ origin.reg["cs"] \in {"user", "kernel"} /\ origin.gs \in {"user", "kernel"}
          /\ gs = IF origin.reg["cs"] = "user" THEN "kernel" ELSE origin.gs
      BY <2>1, <2>2, <2>6 DEF Typed, Origins, Handling
    <3> QED BY <3>1
  <2> QED BY <2>2, <2>3, <2>4, <2>5, <2>6, Lengths DEF HandlerSees, Val
<1> QED BY <1>1, AlwaysInv, PTL

(***************************************************************************)
(* What iretq returns to has its own registers, flags apart, and its own   *)
(* GS base, whatever int_handler left in the registers it may use.         *)
(***************************************************************************)
THEOREM NothingLost == Spec => Transparent
<1> DEFINE Back == at[1] = "iret" => /\ \A r \in Registers \ {"flags"} : reg'[r] = origin.reg[r]
                                     /\ gs' = origin.gs
<1>1. StubInv /\ [Next]_vars => [Back]_vars
  <2> SUFFICES ASSUME StubInv, Next, at[1] = "iret"
               PROVE  /\ \A r \in Registers \ {"flags"} : reg'[r] = origin.reg[r]
                      /\ gs' = origin.gs
    OBVIOUS
  <2>1. Iretq
    BY DEF Next, Interrupt, PushReg, Enter, TestCs, IntHandler, PopBp, PopReg
  <2> QED BY <2>1, IretqStep
<1> QED BY <1>1, AlwaysInv, PTL DEF Spec, Transparent
=============================================================================
