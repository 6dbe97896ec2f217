----------------------------- MODULE InstLookup -----------------------------
(***************************************************************************)
(* inst_lookup (distorm3's instructions.c): the walk from the bytes of an  *)
(* opcode through the tree of tables to the row of its instruction.        *)
(* A walk is a record: the row found (ii), the byte it stands on (pos),    *)
(* how many bytes it has left to take (left, _CodeInfo.codeLen) and the    *)
(* prefixes, some of which it takes for a part of the opcode.              *)
(***************************************************************************)
EXTENDS InstInfo, Prefixes

Escape3D == 15        \* _3DNOW_ESCAPE_BYTE
ARPL     == 99
LEA      == 141
NOP      == 144
WAIT     == 155

MNEMONIC_VEXW_BASED == 2
MNEMONIC_VEXL_BASED == 3
FORCE_VEXL          == 4
MODRR_BASED         == 5
VEX_V_UNUSED        == 6
HasFlagEx(ii, flag) == Bit(ii.flagsEx, flag)

\* A node of a table (trailing ones are left out), and the row that it is or must be.
Node(table, k) == IF k < Len(table) THEN table[k + 1] ELSE <<NOTEXISTS, Null>>
RowAt(node) == IF node[1] \in Lists THEN Wild ELSE node[2]
\* inst_get_info
GetInfo(table, k) == RowAt(Node(table, k))

Reg(byte) == (byte \div 8) % 8
Take(w)       == [w EXCEPT !.left = @ - 1]
Eat(w)       == [w EXCEPT !.pos = @ + 1, !.left = @ - 1]
Found(w, ii)  == [w EXCEPT !.ii = ii]
NotFound(w)   == Found(w, Null)
Byte(code, w) == code[w.pos + 1]

-----------------------------------------------------------------------------
\* inst_lookup_prefixed: which of 66, F3 and F2 is a part of the opcode.
Mandatory(ps) ==
  CASE "REPNZ" \in ps.decoded -> 3 [] "REP" \in ps.decoded -> 2
    [] "OP_SIZE" \in ps.decoded -> 1 [] OTHER -> 0
MandatoryPrefix == <<"OP_SIZE", "REP", "REPNZ">>

LookupPrefixed(table, w) ==
  LET seen    == w.ps.decoded \cap (Reps \cup {"OP_SIZE"})
      index   == Mandatory(w.ps)
      dropped == IF index = 0 THEN w.ps ELSE Drop(w.ps, {MandatoryPrefix[index]})
      taken   == [w EXCEPT !.ps = [dropped EXCEPT !.mandatory66 = seen = {"OP_SIZE"}]]
      ii      == GetInfo(table, index)
      both    == "OP_SIZE" \in seen /\ seen # {"OP_SIZE"}
  IN  IF Reps \subseteq seen \/ (both /\ (ii = Null \/ "OP_SIZE" \notin ii.flags)) THEN NotFound(w)
      ELSE Found(taken, IF ii = Null THEN GetInfo(table, 0) ELSE ii)

-----------------------------------------------------------------------------
\* inst_vex_lookup and inst_vex_mod_lookup.
VexIllegal == {"OP_SIZE", "LOCK", "REP", "REPNZ", "REX"}
VexTable   == <<Table_0F, Table_0F_38, Table_0F_3A>>

\* The prefixed table's row for the mandatory prefix that VEX.pp implies.
VexRow(code, w, table, index) ==
  LET ii == GetInfo(table, index)
      m  == Eat(w)
  IN  IF ii = Null \/ ~HasFlagEx(ii, MODRR_BASED) THEN Found(w, ii)
      ELSE IF m.left < 0 THEN NotFound(m)
      ELSE Found(m, IF Byte(code, m) < INST_DIVIDED_MODRM THEN GetInfo(table, index + 4) ELSE ii)

\* The second byte of an opcode, or its REG bits.
VexSecond(code, w, node, index) ==
  LET byte   == Byte(code, w)
      second == Node(node[2], IF node[1] = GROUP THEN Reg(byte) ELSE byte)
  IN  IF second[1] = PREFIXED THEN VexRow(code, w, second[2], index) ELSE NotFound(w)

VexFirst(code, w, node, index) ==
  IF node[1] = PREFIXED THEN VexRow(code, w, node[2], index)
  ELSE IF node[1] \in {GROUP, FULL} /\ w.left >= 1 THEN VexSecond(code, Eat(w), node, index)
  ELSE NotFound(w)

VexLookup(code, w) ==
  LET vex   == code[w.ps.vexPos + 1]
      two   == w.ps.ext = "VEX2"
      last  == IF two THEN vex ELSE code[w.ps.vexPos + 2]
      start == IF two THEN 1 ELSE vex % 32
      taken == [Take(w) EXCEPT !.ps.vexV = ((255 - last) \div 8) % 16]
  IN  IF w.ps.decoded \cap VexIllegal # {} \/ start \notin 1 .. 3 \/ w.left < 1 THEN NotFound(w)
      ELSE VexFirst(code, taken, Node(InstructionsTree[VexTable[start]], Byte(code, w)), 4 + (last % 4))

VexAllowed(w) ==
  /\ HasFlagEx(w.ii, FORCE_VEXL) => "L" \in w.ps.vrex
  /\ HasFlagEx(w.ii, VEX_V_UNUSED) => w.ps.vexV = 0
VexChecked(w) == IF w.ii # Null /\ ~VexAllowed(w) THEN NotFound(w) ELSE w

-----------------------------------------------------------------------------
\* inst_lookup, one operator for each length of opcode.
OneByte(byte, node, w, dt) ==
  CASE byte = ARPL /\ dt = 64 -> Found(w, OwnRow("MOVSXD"))
    [] byte = NOP /\ "REP" \in w.ps.decoded -> [w EXCEPT !.ii = OwnRow("PAUSE"), !.ps = Use(@, {"REP"})]
    [] byte = NOP /\ "REP" \notin w.ps.decoded ->
         [w EXCEPT !.ii = IF dt # 64 \/ "B" \notin w.ps.vrex THEN OwnRow("NOP") ELSE RowAt(node),
                   !.ps = Use(@, IF "W" \in w.ps.vrex THEN {"REX"} ELSE {})]
    [] byte = LEA -> [w EXCEPT !.ii = RowAt(node), !.ps = Ignore(Drop(@, Segments), "SEG")]
    [] OTHER -> Found(w, RowAt(node))

\* One byte and a whole second one, or its REG bits (x87; WAIT may be a part of it).
OneDivided(byte, table, w, wait) ==
  LET node == Node(table, IF byte < INST_DIVIDED_MODRM THEN Reg(byte) ELSE byte - INST_DIVIDED_MODRM + 8)
      ii   == RowAt(node)
  IN  IF node[1] \in {INFO, INFOEX}
      THEN Found(w, IF wait /\ "OP_SIZE" \notin ii.flags THEN Null ELSE ii)
      ELSE IF node[1] = NOTEXISTS THEN NotFound(w)
      ELSE Found(w, GetInfo(node[2], IF wait THEN 1 ELSE 0))

TwoDivided(byte, table, w) ==
  LET node == Node(table, Reg(byte))
      ii   == IF node[1] \in {INFO, INFOEX} THEN RowAt(node) ELSE Null
      whole == ii # Null /\ "NOT_DIVIDED" \in ii.flags
  IN  Found(w, IF ~whole /\ byte >= INST_DIVIDED_MODRM THEN GetInfo(table, byte - INST_DIVIDED_MODRM + 8) ELSE ii)

\* A node that must be a row or lead to a table of mandatory prefixes.
RowOrPrefixed(node, w) ==
  IF node[1] \in {NOTEXISTS, INFO, INFOEX} THEN Found(w, RowAt(node)) ELSE LookupPrefixed(node[2], w)

ThreeBytes(code, node, w) ==
  LET byte == Byte(code, w)
  IN  IF w.left < 0 THEN NotFound(w)
      ELSE CASE node[1] = GROUP   -> RowOrPrefixed(Node(node[2], Reg(byte)), w)
             [] node[1] = DIVIDED -> TwoDivided(byte, node[2], w)
             [] node[1] = FULL    -> LET third == Node(node[2], byte)
                                     IN  IF third[1] \in Lists \ {PREFIXED} THEN NotFound(w)
                                         ELSE RowOrPrefixed(third, w)
             [] OTHER             -> NotFound(w)

TwoBytes(code, byte0, table, w) ==
  LET byte == Byte(code, w)
      node == Node(table, byte)
  IN  IF node[1] = NOTEXISTS THEN NotFound(w)
      ELSE IF byte0 = Escape3D /\ byte = Escape3D THEN Found(w, OwnRow("NOW3D"))
      ELSE IF node[1] \in {INFO, INFOEX, PREFIXED} THEN RowOrPrefixed(node, w)
      ELSE ThreeBytes(code, node, Eat(w))

Opcode(code, w, dt, wait) ==
  LET byte == Byte(code, w)
      node == Node(InstructionsTree[Table_First], byte)
      w2   == Eat(w)
  IN  IF node[1] = NOTEXISTS THEN NotFound(w)
      ELSE IF node[1] \in {INFO, INFOEX} /\ ~wait THEN OneByte(byte, node, w, dt)
      ELSE IF w2.left < 0 THEN NotFound(w2)
      ELSE IF node[1] = GROUP /\ ~wait THEN Found(w2, GetInfo(node[2], Reg(Byte(code, w2))))
      ELSE IF node[1] = DIVIDED THEN OneDivided(Byte(code, w2), node[2], w2, wait)
      ELSE IF wait \/ node[1] # FULL THEN NotFound(w2)
      ELSE TwoBytes(code, byte, node[2], w2)

Lookup(code, pos, left, ps, dt) ==
  LET w    == [ii |-> Null, pos |-> pos, left |-> left, ps |-> ps]
      wait == Byte(code, w) = WAIT
  IN  IF "VEX" \in ps.decoded THEN VexChecked(VexLookup(code, w))
      ELSE IF left < (IF wait THEN 2 ELSE 1) THEN NotFound(w)
      ELSE Opcode(code, IF wait THEN [Take(Eat(w)) EXCEPT !.ps = IgnoreAll(@)] ELSE Take(w), dt, wait)

\* inst_lookup_3dnow: the byte after the operands tells the instruction.
Lookup3DNow_Peeks(code, w) ==           \* mutant: the byte is not counted
  IF w.left < 1 THEN NotFound(w) ELSE Found(w, GetInfo(InstructionsTree[Table_0F_0F], Byte(code, w)))
Lookup3DNow(code, w) ==
  IF w.left < 1 THEN NotFound(w) ELSE Eat(Found(w, GetInfo(InstructionsTree[Table_0F_0F], Byte(code, w))))
=============================================================================
