------------------------------ MODULE StubFrame ------------------------------
(***************************************************************************)
(* The entry stub of asm.S, instruction by instruction: what it pushes     *)
(* must be struct ice_regs of linuxice.h, field by field, and what it pops *)
(* must give the interrupted code its registers back.                      *)
(* A register holds a value named after its owner: the interrupted code    *)
(* ("own") or int_handler, which is C and keeps only what the ABI says.    *)
(***************************************************************************)
EXTENDS Integers, Sequences, SequencesExt

CONSTANT Vectors  \* the interrupt numbers that have a stub
ASSUME VectorsAssumption == Vectors \subseteq {"0x1", "0x3", "0xef"}

VARIABLES
  at,     \* the next instruction of the stub
  reg,    \* registers of the CPU, the segment registers and flags among them
  stack,  \* the 8-byte words pushed, the top first
  gs,     \* the GS base in use: the kernel's or the interrupted user's
  origin  \* history: registers and GS base of the interrupted code, the vector

vars == <<at, reg, stack, gs, origin>>

\* struct ice_regs, from low to high addresses.
Fields == <<"bp", "gs", "fs", "es", "ds", "r15", "r14", "r13", "r12", "r11", "r10", "r9", "r8",
            "si", "di", "dx", "cx", "bx", "ax", "int_no", "error_code",
            "ip", "cs", "flags", "sp", "ss">>
\* Mutant: FS is pushed before ES.
Pushaq_Swapped == <<"ax", "bx", "cx", "dx", "di", "si", "r8", "r9", "r10", "r11", "r12", "r13",
                    "r14", "r15", "ds", "fs", "es", "gs">>
\* The general and segment registers in the order in which pushaq pushes them.
Pushaq == <<"ax", "bx", "cx", "dx", "di", "si", "r8", "r9", "r10", "r11", "r12", "r13", "r14",
            "r15", "ds", "es", "fs", "gs">>
Segments == {"ds", "es", "fs", "gs"}
\* Mutant: DS and ES are popped in the order in which they were pushed.
Popaq_Swapped == <<"drop", "drop", "ds", "es", "r15", "r14", "r13", "r12", "r11", "r10", "r9",
                   "r8", "si", "di", "dx", "cx", "bx", "ax">>
\* popaq drops GS and FS (add $0x10) and pops the rest.
Popaq == <<"drop", "drop", "es", "ds", "r15", "r14", "r13", "r12", "r11", "r10", "r9", "r8",
           "si", "di", "dx", "cx", "bx", "ax">>

Registers == {Fields[i] : i \in DOMAIN Fields} \ {"int_no", "error_code"}
CallerSaved == {"ax", "cx", "dx", "si", "di", "r8", "r9", "r10", "r11"}
CsOffset == 176   \* 0xB0(%rsi)

Push(v) == stack' = <<v>> \o stack
\* An instruction of the list l, whose first is at <<name, 1>>, then next.
Advance(name, l, next) ==
  at' = IF at[2] < Len(l) THEN <<name, at[2] + 1>> ELSE next

-----------------------------------------------------------------------------
\* The GS bases that code can have whose segment is the user's or the kernel's
\* when a vector interrupts it.  Kernel code on its way to user code has the
\* user's behind its swapgs: no timer interrupt arrives there, and no breakpoint,
\* but the command T single-steps into it.
GsBases(v, mode) == {mode} \cup IF v = "0x1" THEN {"user"} ELSE {}

\* The CPU enters the gate of a vector, and the stub int_0x.. pushes two words.
Interrupt ==
  /\ at = <<"none", 0>>
  /\ \E v \in Vectors, mode \in {"user", "kernel"} :
       /\ reg' = [reg EXCEPT !["cs"] = mode]
       /\ gs' \in GsBases(v, mode)
       /\ origin' = [reg |-> reg', gs |-> gs', vector |-> v]
       /\ stack' = <<v, "0", reg["ip"], mode, reg["flags"], reg["sp"], reg["ss"]>>
  /\ at' = <<"push", 1>>

\* pushaq: a segment register goes through RAX.
PushReg ==
  LET r == Pushaq[at[2]] IN
  /\ at[1] = "push"
  /\ Push(reg[r])
  /\ reg' = IF r \in Segments THEN [reg EXCEPT !["ax"] = reg[r]] ELSE reg
  /\ Advance("push", Pushaq, <<"enter", 1>>)
  /\ UNCHANGED <<gs, origin>>

\* The word at a byte offset from the top of the stack.
Word(offset) == stack[1 + offset \div 8]
Swapgs == gs' = IF gs = "user" THEN "kernel" ELSE "user"

\* push %rbp, then swapgs if the interrupted code segment is the user's.
Enter ==
  /\ at = <<"enter", 1>>
  /\ Push(reg["bp"])
  /\ at' = <<"test", 1>>
  /\ UNCHANGED <<reg, gs, origin>>

\* testl $3, 0xB0(%rsi), on the way in and on the way out.
TestCs ==
  /\ at \in {<<"test", 1>>, <<"test", 2>>}
  /\ IF Word(CsOffset) = "user" THEN Swapgs ELSE UNCHANGED gs
  /\ at' = IF at[2] = 1 THEN <<"handler", 1>> ELSE <<"popbp", 1>>
  /\ UNCHANGED <<reg, stack, origin>>

\* int_handler(regs): it may use the caller-saved registers as it likes; the
\* command T sets TF, in the flags of the frame.
IntHandler ==
  /\ at = <<"handler", 1>>
  /\ reg' = [r \in Registers |-> IF r \in CallerSaved THEN "junk" ELSE reg[r]]
  /\ \E f \in {"own_flags", "own_flags_TF"} :
       stack' = [stack EXCEPT ![24] = f]
  /\ at' = <<"test", 2>>
  /\ UNCHANGED <<gs, origin>>

PopBp ==
  /\ at = <<"popbp", 1>>
  /\ reg' = [reg EXCEPT !["bp"] = Head(stack)]
  /\ stack' = Tail(stack)
  /\ at' = <<"pop", 1>>
  /\ UNCHANGED <<gs, origin>>

PopReg ==
  LET r == Popaq[at[2]] IN
  /\ at[1] = "pop"
  /\ reg' = CASE r = "drop"       -> reg
              [] r \in Segments   -> [reg EXCEPT ![r] = Head(stack), !["ax"] = Head(stack)]
              [] OTHER            -> [reg EXCEPT ![r] = Head(stack)]
  /\ stack' = Tail(stack)
  /\ Advance("pop", Popaq, <<"iret", 1>>)
  /\ UNCHANGED <<gs, origin>>

\* addq $0x10 drops vector and error code; iretq pops the rest.
Iretq ==
  /\ at = <<"iret", 1>>
  /\ reg' = [reg EXCEPT !["ip"] = stack[3], !["cs"] = stack[4], !["flags"] = stack[5],
                        !["sp"] = stack[6], !["ss"] = stack[7]]
  /\ stack' = <<>>
  /\ at' = <<"none", 0>>
  /\ UNCHANGED <<gs, origin>>

Init ==
  /\ at = <<"none", 0>> /\ stack = <<>> /\ gs = "kernel"
  /\ reg = [r \in Registers |-> "own_" \o r]
  /\ origin = [reg |-> reg, gs |-> gs, vector |-> "none"]

Next == Interrupt \/ PushReg \/ Enter \/ TestCs \/ IntHandler \/ PopBp \/ PopReg \/ Iretq
Spec == Init /\ [][Next]_vars
-----------------------------------------------------------------------------
\* The stub has a few control points and one stack of at most 27 words.
TypeOK ==
  /\ at \in ({"push", "pop"} \X (1 .. Len(Pushaq)))
            \cup ({"none"} \X {0}) \cup ({"enter", "handler", "popbp", "iret"} \X {1})
            \cup ({"test"} \X {1, 2})
  /\ DOMAIN reg = Registers /\ Len(stack) <= Len(Fields)
  /\ gs \in {"user", "kernel"} /\ origin.vector \in Vectors \cup {"none"}

\* What int_handler receives is a struct ice_regs: each field is at the address
\* of the word that holds this register of the interrupted code.  As kernel code
\* it runs with the kernel's GS base, whatever was interrupted, with the one
\* exception that testing the code segment cannot see: kernel code stepped by T
\* between its own swapgs and its return to user code.
HandlerSees ==
  /\ TypeOK
  /\ at[1] = "handler" =>
       /\ Len(stack) = Len(Fields)
       /\ \A i \in DOMAIN Fields :
            stack[i] = CASE Fields[i] = "int_no"     -> origin.vector
                         [] Fields[i] = "error_code" -> "0"
                         [] OTHER                    -> origin.reg[Fields[i]]
       /\ gs = "kernel" <=> ~(origin.gs = "user" /\ origin.reg["cs"] = "kernel")

\* The interrupted code goes on with its own registers and its own GS base,
\* whatever the debugger's C code did with them; only its flags may differ.
Transparent ==
  [][at[1] = "iret" => /\ \A r \in Registers \ {"flags"} : reg'[r] = origin.reg[r]
                       /\ gs' = origin.gs]_vars
=============================================================================
