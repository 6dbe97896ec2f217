----------------------------- MODULE DecodeInst -----------------------------
(***************************************************************************)
(* decode_inst (distorm3's decoder.c): one instruction after its prefixes. *)
(* Its result is a _DInst: the row and which of its mnemonics, operands,   *)
(* flags, flow control and the mask of unused prefixes; `left' is what     *)
(* _CodeInfo.codeLen has become.                                           *)
(***************************************************************************)
EXTENDS Operands

ISC_INTEGER == 1
NoOp == [kind |-> "NONE", size |-> 0, reg |-> 0]
\* A _DInst that memset has cleared.  It is not ok: DECRES_INPUTERR, and listed with
\* FLAG_NOT_DECODABLE, a byte that is no instruction.
Cleared ==
  [ii |-> Null, mnemonic |-> 1, pseudo |-> None, ops |-> [n \in 1 .. 4 |-> NoOp], base |-> R_NONE,
   scale |-> 0, dispSize |-> 0, segment |-> {}, flags |-> {}, opSize |-> 16, adrSize |-> 16,
   fc |-> 0, isc |-> 0, unused |-> {}, size |-> 1, addr |-> 0, left |-> 0, ok |-> FALSE]

AdrSize(dt, decoded) == IF "ADDR_SIZE" \in decoded THEN (IF dt = 32 THEN 16 ELSE 32) ELSE dt
OpSize(dt, decoded, vrex, flags) ==
  CASE "OP_SIZE" \in decoded -> IF dt = 16 THEN 32 ELSE 16
    [] "OP_SIZE" \notin decoded /\ dt = 64 ->
         IF ("64BITS" \in flags /\ "REX" \notin flags) \/ ("REX" \in decoded /\ "W" \in vrex) THEN 64 ELSE 32
    [] OTHER -> dt

\* REX.W has precedence over 66, unless 66 is a part of the opcode.
RexOverOpSize(ps) ==
  IF ps.ext = "REX" /\ "OP_SIZE" \in ps.decoded /\ ~ps.mandatory66 /\ "W" \in ps.vrex
  THEN Ignore(Drop(ps, {"OP_SIZE"}), "OP_SIZE") ELSE ps

ValidIn(flags, dt) == IF dt = 64 THEN "INVALID_64BITS" \notin flags ELSE "64BITS_FETCH" \notin flags

\* The ModR/M byte is the opcode's last byte, or the one after it.
AtModrm(w, flags) == IF "MODRM_REQUIRED" \in flags /\ "MODRM_INCLUDED" \notin flags THEN Eat(w) ELSE w
ModrmValid(modrm, flags) ==
  /\ "FORCE_REG0" \in flags => Reg(modrm) = 0
  /\ "MODRR_REQUIRED" \in flags => modrm >= INST_DIVIDED_MODRM

\* The operands of a row, from the first to the last that it has.
OperandTypes(ii) ==
  LET count == IF ii.ops[1] = "NONE" THEN 0 ELSE IF ii.ops[2] = "NONE" THEN 1
               ELSE IF "USE_OP3" \notin ii.flags THEN 2 ELSE IF "USE_OP4" \notin ii.flags THEN 3 ELSE 4
  IN  SubSeq(ii.ops, 1, count)
ExtractAll(c, d, types) ==
  LET taken(e, n) == IF n \in DOMAIN types THEN Extract(c, e, types[n], n) ELSE e
  IN  taken(taken(taken(taken(d, 1), 2), 3), 4)

-----------------------------------------------------------------------------
\* 3DNow! and the compare instructions have one more byte, after the operands.
CompareMax(flags) == IF "VEX" \in flags THEN 32 ELSE 8
Suffix(c, d) ==
  LET found == Lookup3DNow(c.code, d)
      d2    == IF "3DNOW_FETCH" \in c.flags THEN found ELSE d
      flags == d2.ii.flags
      byte  == c.code[d2.pos + 1]
  IN  IF d2.ii = Null THEN Fails(d2)
      ELSE IF "PSEUDO_OPCODE" \notin flags THEN d2
      ELSE IF d2.left < 1 THEN Fails(d2)
      ELSE IF byte >= CompareMax(flags) THEN Fails(d2)
      ELSE [Eat(d2) EXCEPT !.pseudo = byte]

\* LOCK, REPNZ or REP, the first that the instruction takes.
Prefixed(d, flags) ==
  LET takes(prefix) == prefix \in flags /\ (IF prefix = "LOCK" THEN d.lockable ELSE prefix \in d.ps.decoded)
      taken == SelectSeq(<<"LOCK", "REPNZ", "REP">>, takes)
  IN  IF taken = <<>> THEN d ELSE [Uses(d, {taken[1]}) EXCEPT !.flags = @ \cup {taken[1]}]

\* Which of a row's mnemonics, by address size (JCXZ, LOOP) or operand size.
ByAddress(flags) == "ADDR_SIZE" \in flags /\ flags \cap {"USE_EXMNEMONIC", "NATIVE"} # {}
Choose(d, mnemonic, used) == [Uses(d, used) EXCEPT !.mnemonic = mnemonic]
MnemonicByAddress_Always(c, d, flags) ==      \* mutant: not every row has three
  Choose(d, CASE c.adr = 16 -> 1 [] c.adr = 32 -> 2 [] c.adr = 64 -> 3, {"ADDR_SIZE"})
MnemonicByAddress(c, d, flags) ==
  Choose(d, IF "USE_EXMNEMONIC" \notin flags THEN 1 ELSE
              CASE c.adr = 16 -> 1 [] c.adr = 32 -> 2 [] c.adr = 64 -> 3, {"ADDR_SIZE"})

MnemonicBySize(c, d, flags) ==
  LET ex    == "USE_EXMNEMONIC" \in flags
      twins == "MNEMONIC_MODRM_BASED" \in flags /\ c.modrm >= INST_DIVIDED_MODRM
      third == "USE_EXMNEMONIC2" \in flags /\ Has(d, "W")
  IN  CASE c.op = 16 -> Choose(d, 1, IF ex /\ flags \cap {"32BITS", "64BITS"} = {} THEN {"OP_SIZE"} ELSE {})
        [] c.op = 32 -> Choose(d, IF ex /\ ~twins THEN 2 ELSE 1, IF ex THEN {"OP_SIZE"} ELSE {})
        [] c.op = 64 -> IF ~ex /\ "USE_EXMNEMONIC2" \notin flags THEN Choose(d, 1, {})
                        ELSE IF twins THEN Fails(d)
                        ELSE IF third THEN Choose(d, 3, {"REX"}) ELSE Choose(d, 2, {})

VexMnemonic(d, flags) ==
  \/ "VEX" \in flags /\ HasFlagEx(d.ii, MNEMONIC_VEXW_BASED) /\ Has(d, "W")
  \/ "VEX" \in flags /\ HasFlagEx(d.ii, MNEMONIC_VEXL_BASED) /\ Has(d, "L")

Mnemonic(c, d, flags) ==
  LET by   == IF ByAddress(flags) THEN MnemonicByAddress(c, d, flags) ELSE MnemonicBySize(c, d, flags)
      size == UsesIf(by, "NATIVE" \in flags /\ "OP_SIZE" \in d.ps.decoded, "OP_SIZE")
  IN  IF VexMnemonic(d, flags) THEN [size EXCEPT !.mnemonic = 2] ELSE size

Finish(c, d, start) ==
  LET flags == d.ii.flags
      m     == Mnemonic(c, Prefixed(d, flags), flags)
  IN  IF ~d.ok \/ d.pos - d.ps.start > INST_MAXIMUM_SIZE \/ ~m.ok THEN Fails(d)
      ELSE [m EXCEPT !.opSize = IF ByAddress(flags) THEN 16 ELSE c.op, !.adrSize = c.adr,
                     !.flags = @ \cup (flags \cap {"DST_WR"}), !.unused = SetUnusedMask(m.ps),
                     !.fc = d.ii.meta % 8, !.isc = d.ii.meta \div 8,
                     !.segment = IF @ = {} THEN {"NONE"} ELSE @, !.size = d.pos - start]

-----------------------------------------------------------------------------
\* From the row that was found to the _DInst, the operands in between.
InProgress(w) ==
  [field \in DOMAIN Cleared \cup {"pos", "ps", "lockable"} |->
     CASE field \in {"pos", "left", "ps", "ii"} -> w[field] [] field = "ok" -> TRUE
       [] field = "lockable" -> FALSE [] OTHER -> Cleared[field]]
FailedAt(w) == Fails(InProgress(w))

\* With the operands taken (d): what comes after them.
Complete(c, d, start) == IF d.ok THEN Finish(c, Suffix(c, d), start) ELSE d

\* With all of the opcode taken, and ModR/M if there is one.
DecodeOperands(code, w, modrm, start, dt) ==
  LET flags == w.ii.flags
      c     == [code |-> code, dt |-> dt, flags |-> flags, modrm |-> modrm,
                op |-> OpSize(dt, w.ps.decoded, w.ps.vrex, flags), adr |-> AdrSize(dt, w.ps.decoded),
                jcc |-> w.ii.table = "InstInfos" /\ w.ii.row \in JccRows]
  IN  IF w.left < 0 \/ ~ModrmValid(modrm, flags) THEN FailedAt(w)
      ELSE Complete(c, ExtractAll(c, InProgress([w EXCEPT !.pos = @ + 1]), OperandTypes(w.ii)), start)

\* With the row found.
DecodeRow(code, found, start, dt) ==
  LET flags == found.ii.flags
      w     == AtModrm([found EXCEPT !.ps = RexOverOpSize(@)], flags)
      modrm == IF "MODRM_REQUIRED" \in flags THEN Byte(code, w) ELSE 0
  IN  IF found.ii = Null \/ ~ValidIn(flags, dt) THEN FailedAt(found)
      ELSE DecodeOperands(code, w, modrm, start, dt)

Decode(code, pos, left, ps, dt) == DecodeRow(code, Lookup(code, pos, left, ps, dt), pos, dt)

\* decode_inst: what cannot be decoded is dropped, but a WAIT is still a WAIT.
Dropped(code, pos) ==
  IF code[pos + 1] = WAIT THEN [Cleared EXCEPT !.ii = Row("I_WAIT", 0), !.isc = ISC_INTEGER, !.ok = TRUE]
  ELSE Cleared
AsDInst(d, code, pos) ==
  IF d.ok THEN [[field \in DOMAIN Cleared |-> d[field]] EXCEPT !.ii = Row(@.table, @.row)] ELSE Dropped(code, pos)

-----------------------------------------------------------------------------
\* What decode_internal does around it: the prefixes before, the size after.
PrefixesAt(code, dt, pos, left) ==
  IF IsValid(code[pos + 1], dt) THEN DecodePrefixes(code, pos, left, dt) ELSE NoPrefixes(pos)
PrefixSize(ps) == ps.last - ps.start
NothingElse(ps, left) == PrefixSize(ps) \in {left, INST_MAXIMUM_SIZE}

\* In 64 bits REX counts just before the opcode only, and not every segment counts.
Misplaced(ps) == "REX" \in ps.decoded /\ ps.rexPos # ps.last - 1
Effective(ps, dt) ==
  LET rexless == IF Misplaced(ps) THEN Ignore([Drop(ps, {"REX"}) EXCEPT !.ext = "NONE"], "REX") ELSE ps
  IN  IF dt # 64 THEN ps
      ELSE IF rexless.decoded \cap Segments32 = {} THEN rexless
      ELSE Ignore(Drop(rexless, Segments32), "SEG")

InstructionAt(code, dt, ps, left) ==
  LET d == Decode(code, ps.last, left - PrefixSize(ps), Effective(ps, dt), dt)
  IN  [AsDInst(d, code, ps.last) EXCEPT !.size = @ + PrefixSize(ps), !.addr = ps.start]

Undecodable(di) == ~di.ok
Undecoded(pos, n) == [i \in 1 .. n |-> [Cleared EXCEPT !.addr = pos + i - 1]]
End(di)    == di.addr + di.size
Sizes(dis) ==
  LET sum[n \in 0 .. Len(dis)] == IF n = 0 THEN 0 ELSE sum[n - 1] + dis[n].size
  IN  sum[Len(dis)]
=============================================================================
