------------------------------ MODULE Operands ------------------------------
(***************************************************************************)
(* operands_extract (distorm3's operands.c): what the bytes after an       *)
(* opcode say of one operand, and which prefixes that uses.  The decoding  *)
(* in progress is a record d: the bytes taken (pos, left), the prefixes,   *)
(* whether an operand failed (ok) or may be locked (lockable), and the     *)
(* fields of _DInst.  What does not change while the operands are taken is *)
(* the record c.  Values of immediates and displacements are left out:     *)
(* only the bytes they take and the sizes that are reported stand here.    *)
(***************************************************************************)
EXTENDS InstLookup

REGS64 == 0      REGS32 == 16     REGS16 == 32     REGS8  == 48     REGS8_REX == 64
SREGS  == 68     RIP    == 74     FPUREGS == 75    MMXREGS == 83    SSEREGS   == 91
AVXREGS == 107   CREGS  == 123    DREGS  == 132    R_NONE == 255
AX == 0          BX == 3          SP == 4          BP == 5          SI == 6          DI == 7
Gpr(size) == CASE size = 64 -> REGS64 [] size = 32 -> REGS32 [] size = 16 -> REGS16
RegisterCount == 140        \* entries of _REGISTERTORCLASS

Uses(d, prefixes)  == [d EXCEPT !.ps = Use(@, prefixes)]
UsesIf(d, cond, p) == IF cond THEN Uses(d, {p}) ELSE d
Has(d, bit)        == bit \in d.ps.vrex
Ext(d, bit, n)     == IF Has(d, bit) THEN n + 8 ELSE n
Fails(d)           == [d EXCEPT !.ok = FALSE]
SetOp(d, n, kind, size, reg) == [d EXCEPT !.ops[n] = [kind |-> kind, size |-> size, reg |-> reg]]
SetReg(d, n, size, reg)      == SetOp(d, n, "REG", size, reg)
\* read_stream_safe_uint, read_stream_safe_sint
Read(d, size) == IF d.left < size THEN Fails(d) ELSE [d EXCEPT !.pos = @ + size, !.left = @ - size]
LastByte(c, d) == c.code[d.pos]              \* *(ci->code - 1)

\* Promoted to 64 bits without REX.W; able to be, but only with it.
Promoted(c)  == "64BITS" \in c.flags /\ "REX" \notin c.flags
NeedsRex(c)  == {"64BITS", "REX"} \subseteq c.flags
Fix8BitRex(n) == IF n \in 4 .. 7 THEN REGS8_REX + n - 4 ELSE REGS8 + n

UseSegment_Unmarked(c, d, default) ==   \* mutant: the prefix is used, and not marked so
  LET bits == SegmentBits(default, d.ps.decoded, c.dt)
  IN  [d EXCEPT !.segment = IF bits = {"NONE"} THEN bits ELSE @ \cup bits]
UseSegment(c, d, default) ==
  LET bits == SegmentBits(default, d.ps.decoded, c.dt)
  IN  [Uses(d, UsedSegment(default, d.ps.decoded, c.dt)) EXCEPT
         !.segment = IF bits = {"NONE"} THEN bits ELSE @ \cup bits]

Mod(c) == c.modrm \div 64
RegOf(c) == Reg(c.modrm)
Rm(c)  == c.modrm % 8

-----------------------------------------------------------------------------
\* Operands in ModR/M: in memory only, or in memory or a register.
MemTypes == {"MEM64_128", "MEM32", "MEM32_64", "MEM64", "MEM128", "MEM16_FULL", "MEM16_3264",
  "MEM_OPT", "FPUM16", "FPUM32", "FPUM64", "FPUM80", "LMEM128_256", "MEM"}
RmTypes == {"RM_FULL", "RM16", "RM32_64", "RM16_32", "WXMM32_64", "WRM32_64", "YXMM64_256",
  "YXMM128_256", "LXMM64_128", "RFULL_M16", "RM8", "R32_M8", "R32_64_M8", "REG32_64_M8", "XMM16",
  "R32_M16", "R32_64_M16", "REG32_64_M16", "RM32", "MM32", "XMM32", "MM64", "XMM64", "XMM128", "YMM256"}

\* The size of the operand in memory.
MemSize(c, d, type) ==
  CASE type \in {"MEM_OPT", "MEM"} -> 0
    [] type \in {"RM8", "R32_M8", "R32_64_M8", "REG32_64_M8"} -> 8
    [] type \in {"FPUM16", "RM16", "RFULL_M16", "XMM16", "R32_M16", "R32_64_M16", "REG32_64_M16"} -> 16
    [] type \in {"MEM32", "FPUM32", "RM32", "MM32", "XMM32"} -> 32
    [] type \in {"MEM64", "FPUM64", "MM64", "XMM64"} -> 64
    [] type = "FPUM80" -> 80
    [] type \in {"MEM128", "XMM128"} -> 128
    [] type = "YMM256" -> 256
    [] type \in {"MEM16_FULL", "RM_FULL"} -> c.op
    [] type \in {"MEM32_64", "RM32_64"} -> IF c.op = 64 THEN 64 ELSE 32
    [] type = "MEM64_128" -> IF c.op = 64 THEN 128 ELSE 64
    [] type = "MEM16_3264" -> IF c.dt = 64 THEN 64 ELSE 32
    [] type = "RM16_32" -> IF "OP_SIZE" \in d.ps.decoded THEN 16 ELSE 32
    [] type \in {"WXMM32_64", "WRM32_64"} -> IF Has(d, "W") THEN 64 ELSE 32
    [] type = "YXMM64_256" -> IF Has(d, "L") THEN 256 ELSE 64
    [] type \in {"YXMM128_256", "LMEM128_256"} -> IF Has(d, "L") THEN 256 ELSE 128
    [] type = "LXMM64_128" -> IF Has(d, "L") THEN 128 ELSE 64

\* The prefixes that the type of the operand uses, whatever it turns out to be.
UsedByType(c, d, type) ==
  LET sized == IF type \in {"RM_FULL", "RFULL_M16"} \/ (type = "MEM16_FULL" /\ c.op # 64)
                  \/ (type = "RM16_32" /\ "OP_SIZE" \in d.ps.decoded) THEN {"OP_SIZE"} ELSE {}
      rexed == \/ type \in {"MEM64_128", "MEM32_64"}
               \/ type \in {"MEM16_FULL", "RM32_64"} /\ NeedsRex(c)
               \/ type = "RM_FULL" /\ "64BITS" \notin c.flags
  IN  sized \cup (IF c.op = 64 /\ rexed THEN {"REX"} ELSE {})

\* operands_extract_modrm, mod = 3: a register.  VEX types do not mark REX.
RmReg(c, d, n, size, base, used) == SetReg(Uses(d, used), n, size, base + Ext(d, "B", Rm(c)))
RmWide(c, d, n, size, used) == RmReg(c, d, n, size, Gpr(size), used)
ModrmRegister(c, d, type, n) ==
  LET b    == IF Has(d, "B") THEN {"REX"} ELSE {}
      w    == IF Has(d, "W") THEN 64 ELSE 32
  IN  CASE type \in {"RM_FULL", "RFULL_M16"} ->
             RmWide(c, d, n, c.op, b \cup (IF c.op # 64 THEN {"OP_SIZE"} ELSE {})
               \cup (IF c.op = 64 /\ (type = "RFULL_M16" \/ "REX" \in c.flags) THEN {"REX"} ELSE {}))
        [] type \in {"R32_64_M8", "R32_64_M16", "RM32_64"} ->
             IF c.dt = 64 /\ Promoted(c) THEN RmWide(c, d, n, 64, b)
             ELSE RmWide(c, d, n, w, b \cup (IF w = 64 THEN {"REX"} ELSE {}))
        [] type = "RM16_32" ->
             IF "OP_SIZE" \in d.ps.decoded THEN RmWide(c, d, n, 16, b \cup {"OP_SIZE"}) ELSE RmWide(c, d, n, 32, b)
        [] type = "RM16" -> RmWide(c, d, n, 16, b)
        [] type = "RM8"  -> IF d.ps.ext = "REX" THEN SetReg(Uses(d, {"REX"}), n, 8, Fix8BitRex(Ext(d, "B", Rm(c))))
                            ELSE SetReg(d, n, 8, REGS8 + Rm(c))
        [] type \in {"MM32", "MM64"} -> SetReg(d, n, 64, MMXREGS + Rm(c))
        [] type \in {"XMM16", "XMM32", "XMM64", "XMM128"} -> RmReg(c, d, n, 128, SSEREGS, b)
        [] type \in {"RM32", "R32_M8", "R32_M16"} -> RmWide(c, d, n, 32, b)
        [] type = "YMM256" -> RmReg(c, d, n, 256, AVXREGS, {})
        [] type \in {"YXMM64_256", "YXMM128_256"} ->
             IF Has(d, "L") THEN RmReg(c, d, n, 256, AVXREGS, {}) ELSE RmReg(c, d, n, 128, SSEREGS, {})
        [] type \in {"WXMM32_64", "LXMM64_128"} -> RmReg(c, d, n, 128, SSEREGS, {})
        [] type \in {"WRM32_64", "REG32_64_M8", "REG32_64_M16"} -> RmWide(c, d, n, w, {})
        [] OTHER -> Fails(d)

-----------------------------------------------------------------------------
\* operands_extract_sib.  index = 4: no index; base = 5 without mod: no base.
Sib(c, d, n, sib) ==
  LET index == Ext(d, "X", (sib \div 8) % 8)
      based == sib % 8 # 5 \/ Mod(c) # 0
      gprs  == IF c.adr = 64 THEN REGS64 ELSE REGS32
      base  == gprs + Ext(d, "B", sib % 8)
      used  == UsesIf(d, Has(d, "X") \/ (based /\ Has(d, "B")), "REX")
      size  == d.ops[n].size
      both  == [SetOp(used, n, "MEM", size, gprs + index) EXCEPT !.scale = IF sib < 64 THEN 0 ELSE 2^(sib \div 64)]
  IN  IF index = 4 THEN (IF based THEN SetOp(used, n, "SMEM", size, base) ELSE SetOp(used, n, "DISP", size, 0))
      ELSE IF based THEN [both EXCEPT !.base = base] ELSE both

Displacement(d, size) == [Read(d, size \div 8) EXCEPT !.dispSize = size]

\* Table 2-1: the registers of a 16 bits address.
Base16  == <<BX, BX, BP, BP>>
Index16 == <<SI, DI, SI, DI, SI, DI, BP, BX>>
Memory16(c, d, n) ==
  LET rm     == Rm(c)
      size   == d.ops[n].size
      reg    == SetOp(d, n, IF rm < 4 THEN "MEM" ELSE "SMEM", size, REGS16 + Index16[rm + 1])
      based  == IF rm < 4 THEN [reg EXCEPT !.base = REGS16 + Base16[rm + 1]] ELSE reg
      addr   == CASE Mod(c) = 0 /\ rm = 6 -> Displacement(SetOp(d, n, "DISP", size, 0), 16)
                  [] Mod(c) = 0 /\ rm # 6 -> based
                  [] Mod(c) = 1 -> Displacement(based, 8)
                  [] Mod(c) = 2 -> Displacement(based, 16)
  IN  UseSegment(c, addr, IF rm \in {2, 3} \/ (rm = 6 /\ Mod(c) # 0) THEN "SS" ELSE "DS")

\* Table 2-2: 32 or 64 bits.
Address32(c, d, n) ==
  LET size == d.ops[n].size
      rip  == [Displacement(SetOp(d, n, "SMEM", size, RIP), 32) EXCEPT !.flags = @ \cup {"RIP_RELATIVE"}]
      gprs == IF c.adr = 64 THEN REGS64 ELSE REGS32
      sib  == IF Rm(c) = 4 THEN c.code[d.pos + 1] ELSE 0
      addr == IF Rm(c) = 4 THEN Sib(c, Read(d, 1), n, sib)
              ELSE SetOp(UsesIf(d, Has(d, "B"), "REX"), n, "SMEM", size, gprs + Ext(d, "B", Rm(c)))
  IN  IF Mod(c) = 0 /\ Rm(c) = 5
      THEN (IF c.dt = 64 THEN rip ELSE Displacement(SetOp(d, n, "DISP", size, 0), 32))
      ELSE IF Rm(c) = 4 /\ d.left < 1 THEN Fails(d)
      ELSE IF Mod(c) = 1 THEN Displacement(addr, 8)
      ELSE IF Mod(c) = 2 \/ sib % 8 = 5 THEN Displacement(addr, 32)
      ELSE addr

Memory32(c, d, n) ==
  LET addr == Address32(c, d, n)
      reg  == IF addr.base # R_NONE THEN addr.base ELSE IF addr.scale >= 2 THEN 0 ELSE addr.ops[n].reg
  IN  UseSegment(c, addr, IF reg \in {REGS32 + BP, REGS32 + SP} THEN "SS" ELSE "DS")

ModrmMemory(c, d, n) ==
  LET used == Uses(d, {"ADDR_SIZE"})
      m    == IF n = 1 /\ "LOCK" \in d.ps.decoded THEN [used EXCEPT !.lockable = TRUE] ELSE used
  IN  IF c.adr = 16 THEN Memory16(c, m, n) ELSE Memory32(c, m, n)

Modrm(c, d0, type, n) ==
  LET d == SetOp(Uses(d0, UsedByType(c, d0, type)), n, "NONE", MemSize(c, d0, type), 0)
  IN  CASE Mod(c) = 3 /\ type = "MEM_OPT"    -> d0
        [] Mod(c) = 3 /\ type \in MemTypes \ {"MEM_OPT"} -> Fails([d EXCEPT !.lockable = FALSE])
        [] Mod(c) = 3 /\ type \in RmTypes     -> ModrmRegister(c, d, type, n)
        [] OTHER -> ModrmMemory(c, d, n)

-----------------------------------------------------------------------------
\* Immediates, addresses in the code, and pointers.
Immediate(d, n, kind, size, bytes) == Read(SetOp(d, n, kind, size, 0), bytes)
Signed(d) == [d EXCEPT !.flags = @ \cup {"IMM_SIGNED"}]

Imm32(c, d, n) == IF c.dt = 64 THEN Immediate(Signed(d), n, "IMM", 64, 4) ELSE Immediate(d, n, "IMM", 32, 4)
ImmFull(c, d, n) ==
  CASE c.op = 16 -> Immediate(Uses(d, {"OP_SIZE"}), n, "IMM", 16, 2)
    [] c.op = 64 /\ NeedsRex(c) -> Immediate(Uses(d, {"REX"}), n, "IMM", 64, 8)
    [] OTHER -> Imm32(c, Uses(d, {"OP_SIZE"}), n)
SignedImm8(c, d, n) ==
  IF "OP_SIZE" \in c.flags \cap d.ps.decoded
  THEN Immediate(Signed(Uses(d, {"OP_SIZE"})), n, "IMM", IF c.dt = 16 THEN 32 ELSE 16, 1)
  ELSE Immediate(Signed(d), n, "IMM", 8, 1)
Ptr16Full(c, d, n) ==
  LET used == Uses(d, {"OP_SIZE"})
  IN  IF c.op = 16 THEN Immediate(used, n, "PTR", 16, 4) ELSE Immediate(used, n, "PTR", 32, 6)

\* A branch; CS and DS are hints to a conditional one.
Hint(c, d) ==
  CASE c.jcc /\ "CS" \in d.ps.decoded -> [Uses(d, {"CS"}) EXCEPT !.flags = @ \cup {"HINT_NOT_TAKEN"}]
    [] c.jcc /\ "CS" \notin d.ps.decoded /\ "DS" \in d.ps.decoded ->
         [Uses(d, {"DS"}) EXCEPT !.flags = @ \cup {"HINT_TAKEN"}]
    [] OTHER -> d
Relative(c, d, type, n) ==
  LET size == IF type = "RELCB" THEN 8 ELSE IF c.op = 16 THEN 16 ELSE 32
  IN  Hint(c, Immediate(UsesIf(d, type = "RELC_FULL", "OP_SIZE"), n, "PC", size, size \div 8))

\* MOV between the accumulator and an address that is an immediate.
MemOffset(c, d, n, size) ==
  Displacement(UseSegment(c, UsesIf(SetOp(d, n, "DISP", size, 0), c.adr # 64, "ADDR_SIZE"), "DS"), c.adr)

Immediates == {"IMM8", "IMM16", "IMM_FULL", "IMM32", "SEIMM8", "IMM16_1", "IMM8_1", "IMM8_2",
  "RELCB", "RELC_FULL", "PTR16_FULL", "MOFFS8", "MOFFS_FULL", "CONST1"}
ImmediateOperand(c, d, type, n) ==
  CASE type = "IMM8"       -> Immediate(d, n, "IMM", 8, 1)
    [] type = "IMM16"      -> Immediate(d, n, "IMM", 16, 2)
    [] type = "IMM_FULL"   -> ImmFull(c, d, n)
    [] type = "IMM32"      -> Imm32(c, d, n)
    [] type = "SEIMM8"     -> SignedImm8(c, d, n)
    [] type = "IMM16_1"    -> Immediate(d, n, "IMM1", 16, 2)
    [] type = "IMM8_1"     -> Immediate(d, n, "IMM1", 8, 1)
    [] type = "IMM8_2"     -> Immediate(d, n, "IMM2", 8, 1)
    [] type = "PTR16_FULL" -> Ptr16Full(c, d, n)
    [] type = "MOFFS8"     -> MemOffset(c, d, n, 8)
    [] type = "MOFFS_FULL" -> MemOffset(c, d, n, c.op)
    [] type = "CONST1"     -> SetOp(d, n, "IMM", 8, 0)
    [] OTHER               -> Relative(c, d, type, n)

-----------------------------------------------------------------------------
\* Registers: implicit, in the opcode's last byte, or in ModR/M's REG.
\* A register of the operand's size, extended by a bit of REX.
FullReg(c, d, n, reg, bit, rexed) ==
  LET used == CASE c.op = 16 -> {"OP_SIZE"} \cup (IF Has(d, bit) THEN {"REX"} ELSE {})
                [] c.op = 32 -> IF Has(d, bit) THEN {"REX"} ELSE {"OP_SIZE"}
                [] c.op = 64 -> IF rexed \/ Has(d, bit) THEN {"REX"} ELSE {}
  IN  SetReg(Uses(d, used), n, c.op, Gpr(c.op) + Ext(d, bit, reg))

\* In bytes with any prefix of the REX type, AH .. BH give way to SPL .. DIL.
Reg8(d, n, reg, bit, rexed) ==
  IF rexed THEN SetReg(Uses(d, {"REX"}), n, 8, Fix8BitRex(Ext(d, bit, reg))) ELSE SetReg(d, n, 8, REGS8 + reg)

\* A register named by REG, with REX.R marked as used or not.
Named(c, d, n, size, base)  == SetReg(UsesIf(d, Has(d, "R"), "REX"), n, size, base + Ext(d, "R", RegOf(c)))
Quiet(c, d, n, size, base)  == SetReg(d, n, size, base + Ext(d, "R", RegOf(c)))
\* XMM or YMM as VEX.L says.
Vector(d, n, reg) == IF Has(d, "L") THEN SetReg(d, n, 256, AVXREGS + reg) ELSE SetReg(d, n, 128, SSEREGS + reg)

Reg32Or64(c, d, n) ==
  IF c.dt = 64 /\ Promoted(c) THEN Named(c, d, n, 64, REGS64)
  ELSE IF Has(d, "W") THEN Named(c, Uses(d, {"REX"}), n, 64, REGS64)
  ELSE Named(c, d, n, 32, REGS32)

Native(c) == IF c.dt = 64 THEN 64 ELSE 32
CReg(c, d, n) ==
  LET locked == ~Has(d, "R") /\ c.dt = 32 /\ "LOCK" \in d.ps.decoded   \* LOCK is REX.R here
      used   == Uses(d, (IF Has(d, "R") THEN {"REX"} ELSE {}) \cup (IF locked THEN {"LOCK"} ELSE {}))
      reg    == RegOf(c) + (IF Has(d, "R") \/ locked THEN 8 ELSE 0)
  IN  IF reg \in {0, 2, 3, 4, 8} THEN SetReg(used, n, Native(c), CREGS + reg) ELSE Fails(used)
DReg(c, d, n) ==
  IF RegOf(c) \in {4, 5} \/ Has(d, "R") THEN Fails(d) ELSE SetReg(d, n, Native(c), DREGS + RegOf(c))
\* CS (1) cannot be written.
SReg(c, d, n) ==
  IF RegOf(c) > 5 \/ (n = 1 /\ RegOf(c) = 1) THEN Fails(d) ELSE SetReg(d, n, 16, SREGS + RegOf(c))
SegmentIndex == [ES |-> 0, CS |-> 1, SS |-> 2, DS |-> 3, FS |-> 4, GS |-> 5]
Seg(c, d, n) == SetReg(Uses(d, {"OP_SIZE"}), n, 16, SREGS + SegmentIndex[CHOOSE seg \in Segments : seg \in c.flags])
Acc(c, d, n) ==
  LET used == IF c.op # 64 THEN {"OP_SIZE"} ELSE IF "64BITS" \notin c.flags THEN {"REX"} ELSE {}
  IN  SetReg(Uses(d, used), n, c.op, Gpr(c.op) + AX)

\* OT_XMM_IMM, OT_YXMM_IMM: a register in the high half of an immediate byte.
ImmReg(c, d) == (c.code[d.pos + 1] \div 16) % (IF c.dt = 32 THEN 8 ELSE 16)
ByImmediate(c, d, type, n) ==
  IF d.left < 1 THEN Fails(d)
  ELSE IF type = "XMM_IMM" THEN Read(SetReg(d, n, 128, SSEREGS + ImmReg(c, d)), 1)
  ELSE Read(Vector(d, n, ImmReg(c, d)), 1)

-----------------------------------------------------------------------------
\* Implicit memory: the operands of string instructions, XLAT and SVM.
StringSize(c) ==
  CASE "16BITS" \notin c.flags -> 8
    [] "16BITS" \in c.flags /\ c.op = 16 -> 16
    [] "16BITS" \in c.flags /\ c.op = 64 /\ "64BITS" \in c.flags -> 64
    [] OTHER -> 32
StringUsed(c) ==
  {"ADDR_SIZE"} \cup (IF "16BITS" \in c.flags THEN {"OP_SIZE"} ELSE {}) \cup (IF StringSize(c) = 64 THEN {"REX"} ELSE {})
StringOp(c, d, n, reg) == SetOp(Uses(d, StringUsed(c)), n, "SMEM", StringSize(c), Gpr(c.adr) + reg)

\* The source may be in another segment than DS, and takes di->segment over.
Source(c, d, n)      == UseSegment(c, [StringOp(c, d, n, SI) EXCEPT !.segment = {}], "DS")
Destination(c, d, n) ==
  IF n = 1 /\ c.dt # 64 THEN [StringOp(c, d, n, DI) EXCEPT !.segment = {"ES", "DEFAULT"}] ELSE StringOp(c, d, n, DI)
Xlat(c, d, n) ==
  LET used == Uses(d, {"ADDR_SIZE"} \cup (IF c.adr = 64 THEN {"REX"} ELSE {}))
  IN  [SetOp(UseSegment(c, used, "DS"), n, "MEM", 8, REGS8 + AX) EXCEPT !.base = Gpr(c.adr) + BX]
Svm(c, d, n) == SetOp(UsesIf(d, c.adr # 64, "ADDR_SIZE"), n, "SMEM", c.adr, Gpr(c.adr) + AX)

\* operands_extract.  The first operand is the one that may be locked.
OpcodeOperand(c, d, type, n) ==
  LET st == FPUREGS + (LastByte(c, d) % 8)
      last == LastByte(c, d) % 8
  IN  CASE type = "FPU_SI"    -> SetReg(d, n, 32, st)
        [] type = "FPU_SSI"   -> SetReg(SetReg(d, n, 32, FPUREGS), n + 1, 32, st)
        [] type = "FPU_SIS"   -> SetReg(SetReg(d, n, 32, st), n + 1, 32, FPUREGS)
        [] type = "IB_RB"     -> Reg8(d, n, last, "B", Has(d, "B") \/ d.ps.ext = "REX")
        [] type = "IB_R_FULL" -> FullReg(c, d, n, last, "B", ~Promoted(c))
OpcodeTypes == {"FPU_SI", "FPU_SSI", "FPU_SIS", "IB_RB", "IB_R_FULL"}

\* Registers that the instruction always has.
FixedRegister == [ACC8 |-> <<8, REGS8 + AX>>, ACC16 |-> <<16, REGS16 + AX>>, REGCL |-> <<8, REGS8 + 1>>,
  REGDX |-> <<16, REGS16 + 2>>, REGECX |-> <<32, REGS32 + 1>>, REGXMM0 |-> <<128, SSEREGS>>]

RegisterOperand(c, d, type, n) ==
  LET rmUsed == UsesIf(d, Has(d, "B"), "REX")
  IN  CASE type = "REG8"       -> Reg8(d, n, RegOf(c), "R", d.ps.ext # "NONE")
        [] type = "REG16"      -> SetReg(d, n, 16, REGS16 + RegOf(c))
        [] type = "REG_FULL"   -> FullReg(c, d, n, RegOf(c), "R", TRUE)
        [] type = "REG32"      -> Named(c, d, n, 32, REGS32)
        [] type = "REG32_64"   -> Reg32Or64(c, d, n)
        [] type = "FREG32_64_RM" -> SetReg(rmUsed, n, Native(c), Gpr(Native(c)) + Ext(d, "B", Rm(c)))
        [] type = "MM"         -> SetReg(d, n, 64, MMXREGS + RegOf(c))
        [] type = "MM_RM"      -> SetReg(d, n, 64, MMXREGS + Rm(c))
        [] type = "XMM"        -> Named(c, d, n, 128, SSEREGS)
        [] type = "XMM_RM"     -> SetReg(rmUsed, n, 128, SSEREGS + Ext(d, "B", Rm(c)))
        [] type = "CREG"       -> CReg(c, d, n)
        [] type = "DREG"       -> DReg(c, d, n)
        [] type = "SREG"       -> SReg(c, d, n)
        [] type = "SEG"        -> Seg(c, d, n)
        [] type \in {"ACC_FULL", "ACC_FULL_NOT64"} -> Acc(c, d, n)
        [] type = "YXMM"       -> Vector(d, n, Ext(d, "R", RegOf(c)))
        [] type = "YMM"        -> Quiet(c, d, n, 256, AVXREGS)
        [] type = "WREG32_64"  -> Quiet(c, d, n, IF Has(d, "W") THEN 64 ELSE 32, IF Has(d, "W") THEN REGS64 ELSE REGS32)
        [] type = "VXMM"       -> SetReg(d, n, 128, SSEREGS + d.ps.vexV)
        [] type = "VYMM"       -> SetReg(d, n, 256, AVXREGS + d.ps.vexV)
        [] type = "VYXMM"      -> Vector(d, n, d.ps.vexV)
        [] type \in {"XMM_IMM", "YXMM_IMM"} -> ByImmediate(c, d, type, n)
        [] type = "REGI_ESI"   -> Source(c, d, n)
        [] type = "REGI_EDI"   -> Destination(c, d, n)
        [] type = "REGI_EBXAL" -> Xlat(c, d, n)
        [] type = "REGI_EAX"   -> Svm(c, d, n)
        [] OTHER               -> Fails(d)

Extract(c, d, type, n) ==
  CASE ~d.ok -> d
    [] d.ok /\ type \in MemTypes \cup RmTypes -> Modrm(c, d, type, n)
    [] d.ok /\ type \in Immediates            -> ImmediateOperand(c, d, type, n)
    [] d.ok /\ type \in OpcodeTypes           -> OpcodeOperand(c, d, type, n)
    [] d.ok /\ type \in DOMAIN FixedRegister  -> SetReg(d, n, FixedRegister[type][1], FixedRegister[type][2])
    [] OTHER                                  -> RegisterOperand(c, d, type, n)
=============================================================================
