------------------------------ MODULE MCDistorm ------------------------------
(***************************************************************************)
(* Codes for Distorm: every opcode of every table, with what may come in   *)
(* front of it and samples of ModR/M; pairs of prefixes; and short codes   *)
(* with arrays that are too small for them.                                *)
(***************************************************************************)
EXTENDS Distorm

Once(code, dt) == [code |-> code, dt |-> dt, max |-> 1, features |-> {}, caller |-> "once"]

Leads == {<<>>, <<102>>, <<242>>, <<243>>, <<72>>, <<240, 103>>, <<155>>,
          <<15>>, <<102, 15>>, <<242, 15>>, <<243, 15>>,
          <<15, 56>>, <<102, 15, 56>>, <<15, 58>>, <<102, 72, 15, 58>>, <<15, 15, 193>>}
\* ModR/M and the bytes after it, all that an instruction can need or too few.
Rest  == <<36, 82, 86, 0, 154, 188, 222, 1, 2, 3>>
Tails == {<<modrm>> \o Rest : modrm \in {4, 61, 92, 145, 242}} \cup {<<>>, <<12>>, <<132, 37, 3, 4>>}
OpcodeCalls == {Once(lead \o <<byte>> \o tail, dt) : lead \in Leads, byte \in 0 .. 255, tail \in Tails, dt \in Modes}

\* VEX: R, X and B; W, vvvv, L and pp; the three maps of opcodes.
VexLeads == {<<197, vex>> : vex \in {121, 197, 248, 252, 251}}
            \cup {<<196, map, vex>> : map \in {225, 226, 227, 194, 67}, vex \in {0, 125, 249, 194}}
            \cup {<<65, 197, 252>>, <<72, 196, 226, 121>>}
VexTails == {<<13>> \o Rest, <<193>> \o Rest}
VexCalls == {Once(lead \o <<byte>> \o tail, dt) : lead \in VexLeads, byte \in 0 .. 255, tail \in VexTails, dt \in {32, 64}}

\* Two prefixes, the same, of one type or of two, before opcodes that use them differently.
PrefixBytePairs == {<<p, q>> : p, q \in {102, 103, 240, 242, 243, 46, 62, 100, 72, 65}}
SomeOpcodes ==
  {<<b>> : b \in {1, 17, 99, 108, 117, 141, 144, 160, 165, 170, 175, 184, 195, 215, 227, 229, 232, 246, 255}}
  \cup {<<15, b>> : b \in {16, 32, 64, 111, 128, 163, 176, 184, 199, 214, 240}}
PrefixCalls == {Once(pair \o opcode \o <<modrm>> \o Rest, dt) :
                  pair \in PrefixBytePairs, opcode \in SomeOpcodes, modrm \in {4, 193}, dt \in Modes}

\* Every code of up to four of these bytes, and as many prefixes as an instruction
\* may have and more; arrays from none to the minimum that distorm.h asks for.
Bytes == {102, 72, 15, 144, 195}
Prefixed66(n, code) == [i \in 1 .. n |-> 102] \o code
ShortCodes == UNION {[1 .. n -> Bytes] : n \in 0 .. 4}
              \cup {Prefixed66(n, code) : n \in 13 .. 16, code \in {<<>>, <<144>>, <<15, 15>>, <<197, 0>>}}
Asks == {[dt |-> 64, features |-> {}, caller |-> "main"], [dt |-> 32, features |-> {}, caller |-> "Decompose"],
         [dt |-> 64, features |-> {"STOP_ON_RET"}, caller |-> "Decompose"]}
Call(code, max, ask) == ask @@ [code |-> code, max |-> max]
SweepCalls == {Call(code, max, ask) : code \in ShortCodes, max \in {0, 1, 3, 15}, ask \in Asks}

\* One call with the filter of flow control, and what distorm_decompose refuses.
Filters  == {[dt |-> 32, features |-> {"RETURN_FC_ONLY"}, caller |-> "once"],
             [dt |-> 64, features |-> {"RETURN_FC_ONLY", "STOP_ON_RET"}, caller |-> "once"],
             [dt |-> 64, features |-> {"MAXIMUM_ADDR16", "MAXIMUM_ADDR32"}, caller |-> "once"],
             [dt |-> 8, features |-> {}, caller |-> "main"]}
FilterCalls == {Call(code, max, ask) : code \in ShortCodes, max \in {0, 1, 3, 15}, ask \in Filters}
AllCalls == {OpcodeCalls, VexCalls, PrefixCalls, SweepCalls, FilterCalls}
=============================================================================
