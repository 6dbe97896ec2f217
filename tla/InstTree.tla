------------------------------ MODULE InstTree ------------------------------
(***************************************************************************)
(* InstructionsTree of distorm3's insts.c: the tables in which inst_lookup *)
(* walks from an opcode's bytes to the row that describes an instruction.  *)
(* A node is its type.  Its index needs no writing down: the k-th INFO     *)
(* node of the tree is row k of InstInfos, the k-th INFOEX node is row k   *)
(* of InstInfosEx, and the k-th list node leads to the k-th table, all     *)
(* counted from 0 in the order of the array.  Trailing nodes of type       *)
(* NOTEXISTS are left out.                                                 *)
(***************************************************************************)
EXTENDS Integers, Sequences, SequencesExt

\* _InstNodeType.
NOTEXISTS == 0
INFO      == 1
INFOEX    == 2
GROUP     == 3
FULL      == 4
DIVIDED   == 5
PREFIXED  == 6
Lists     == {GROUP, FULL, DIVIDED, PREFIXED}

\* A table written as runs <<type, how many>>.
Runs(runs) == FlattenSeq([r \in DOMAIN runs |-> [i \in 1 .. runs[r][2] |-> runs[r][1]]])

-----------------------------------------------------------------------------
\* The tables, each definition named for the first opcode whose table it has.
OneByte_00_7F == Runs(<<<<1, 15>>, <<4, 1>>, <<1, 22>>, <<0, 1>>, <<1, 7>>, <<0, 1>>, <<1, 7>>,
  <<0, 1>>, <<1, 7>>, <<0, 1>>, <<1, 37>>, <<0, 4>>, <<1, 1>>, <<2, 1>>, <<1, 1>>, <<2, 1>>,
  <<1, 20>>>>)
OneByte_80_FF == Runs(<<<<3, 4>>, <<1, 11>>, <<3, 1>>, <<1, 8>>, <<2, 2>>, <<1, 1>>, <<0, 1>>,
  <<1, 36>>, <<3, 2>>, <<1, 4>>, <<3, 2>>, <<1, 8>>, <<3, 4>>, <<1, 4>>, <<5, 8>>, <<1, 3>>,
  <<2, 1>>, <<1, 12>>, <<0, 1>>, <<1, 1>>, <<0, 2>>, <<1, 2>>, <<3, 2>>, <<1, 6>>, <<3, 2>>>>)
TwoByte_00_7F == Runs(<<<<3, 1>>, <<5, 1>>, <<1, 2>>, <<0, 1>>, <<1, 5>>, <<0, 1>>, <<1, 1>>,
  <<0, 1>>, <<3, 1>>, <<1, 1>>, <<4, 1>>, <<6, 8>>, <<3, 1>>, <<0, 6>>, <<1, 5>>, <<0, 4>>,
  <<6, 8>>, <<1, 6>>, <<0, 1>>, <<1, 1>>, <<4, 1>>, <<0, 1>>, <<4, 1>>, <<0, 5>>, <<1, 16>>,
  <<6, 33>>, <<3, 3>>, <<6, 6>>, <<4, 1>>, <<0, 1>>, <<6, 4>>>>)
TwoByte_80_FF == Runs(<<<<1, 36>>, <<2, 2>>, <<0, 2>>, <<1, 4>>, <<2, 2>>, <<3, 1>>, <<1, 9>>,
  <<6, 1>>, <<1, 1>>, <<3, 1>>, <<1, 1>>, <<6, 2>>, <<1, 4>>, <<6, 1>>, <<1, 1>>, <<6, 3>>,
  <<3, 1>>, <<1, 8>>, <<6, 47>>, <<0, 1>>>>)
At_80 == <<<<1, 1, 1, 1, 1, 1, 1, 1>>, <<1, 1, 1, 1, 1, 1, 1, 1>>, <<1, 1, 1, 1, 1, 1, 1, 1>>,
  <<1, 1, 1, 1, 1, 1, 1, 1>>, <<1>>, <<1, 1, 1, 1, 1, 1, 1, 1>>, <<1, 1, 1, 1, 1, 1, 1, 1>>, <<1>>,
  <<1>>, <<1, 1, 1, 1, 1, 1, 1, 1>>, <<1, 1, 1, 1, 1, 1, 1, 1>>, <<1, 1, 1, 1, 1, 1, 1, 1>>,
  <<1, 1, 1, 1, 1, 1, 1, 1>>>>
At_D8 == <<Runs(<<<<1, 72>>>>),
  Runs(<<<<1, 1>>, <<0, 1>>, <<1, 4>>, <<6, 2>>, <<1, 17>>, <<0, 15>>, <<1, 2>>, <<0, 2>>, <<1, 2>>, <<0, 2>>, <<1, 7>>, <<0, 1>>, <<1, 16>>>>)>>
At_DA == <<Runs(<<<<1, 40>>, <<0, 9>>, <<1, 1>>>>),
  Runs(<<<<1, 4>>, <<0, 1>>, <<1, 1>>, <<0, 1>>, <<1, 35>>, <<6, 2>>, <<1, 1>>, <<0, 3>>, <<1, 16>>>>)>>
At_DC == <<Runs(<<<<1, 24>>, <<0, 16>>, <<1, 32>>>>),
  Runs(<<<<1, 5>>, <<0, 1>>, <<6, 2>>, <<1, 8>>, <<0, 8>>, <<1, 32>>>>)>>
At_DE == <<Runs(<<<<1, 24>>, <<0, 9>>, <<1, 1>>, <<0, 6>>, <<1, 32>>>>),
  Runs(<<<<1, 8>>, <<0, 32>>, <<6, 1>>, <<0, 7>>, <<1, 16>>>>)>>
At_F6 == <<<<1, 0, 1, 1, 1, 1, 1, 1>>, <<1, 0, 1, 1, 1, 1, 1, 1>>, <<1, 1>>,
  <<1, 1, 1, 1, 1, 1, 1>>, <<1, 1, 1, 1, 1, 1>>,
  Runs(<<<<1, 5>>, <<0, 1>>, <<1, 2>>, <<0, 1>>, <<1, 4>>, <<0, 3>>, <<1, 2>>, <<0, 6>>, <<1, 2>>, <<0, 2>>, <<1, 1>>, <<0, 3>>, <<1, 8>>, <<0, 24>>, <<1, 2>>>>),
  <<1, 1>>>>
Now3D_00_7F == Runs(<<<<0, 12>>, <<1, 2>>, <<0, 14>>, <<1, 2>>, <<0, 98>>>>)
Now3D_80_FF == Runs(<<<<0, 10>>, <<1, 1>>, <<0, 3>>, <<1, 1>>, <<0, 1>>, <<1, 1>>, <<0, 3>>,
  <<1, 1>>, <<0, 1>>, <<1, 2>>, <<0, 2>>, <<1, 1>>, <<0, 3>>, <<1, 1>>, <<0, 1>>, <<1, 1>>,
  <<0, 3>>, <<1, 1>>, <<0, 1>>, <<1, 2>>, <<0, 2>>, <<1, 1>>, <<0, 3>>, <<1, 1>>, <<0, 1>>,
  <<1, 1>>, <<0, 3>>, <<1, 1>>, <<0, 1>>, <<1, 2>>, <<0, 3>>, <<1, 1>>, <<0, 3>>, <<1, 1>>,
  <<0, 64>>>>)
At_0F10 == <<<<1, 1, 1, 1, 2, 2, 2, 2, 0, 0, 2, 2>>, <<1, 1, 1, 1, 2, 2, 2, 2, 0, 0, 2, 2>>,
  <<2, 1, 1, 1, 2, 2, 2, 2>>, <<1, 1, 0, 0, 2, 2>>, <<1, 1, 0, 0, 2, 2>>, <<1, 1, 0, 0, 2, 2>>,
  <<2, 1, 1, 0, 2, 2, 2>>, <<1, 1, 0, 0, 2, 2>>, <<1, 1, 1, 1>>, <<1, 1, 0, 0, 2, 2>>,
  <<1, 1, 0, 0, 2, 2>>, <<1, 1, 1, 1, 0, 0, 2, 2>>>>
At_0F2B == <<<<1, 1, 1, 1, 2, 2>>, <<1, 1, 1, 1, 0, 0, 2, 2>>, <<1, 1, 1, 1, 0, 0, 2, 2>>,
  <<1, 1, 0, 0, 2, 2>>, <<1, 1, 0, 0, 2, 2>>>>
Three38_00_7F == Runs(<<<<6, 17>>, <<0, 3>>, <<6, 2>>, <<0, 1>>, <<6, 4>>, <<0, 1>>, <<6, 3>>,
  <<0, 1>>, <<6, 6>>, <<0, 2>>, <<6, 14>>, <<0, 1>>, <<6, 11>>, <<0, 62>>>>)
Three38_80_FF == Runs(<<<<6, 3>>, <<0, 19>>, <<6, 10>>, <<0, 6>>, <<6, 10>>, <<0, 6>>, <<6, 10>>,
  <<0, 27>>, <<6, 5>>, <<0, 16>>, <<6, 2>>, <<0, 14>>>>)
Three3A_00_7F == Runs(<<<<0, 4>>, <<6, 3>>, <<0, 1>>, <<6, 8>>, <<0, 4>>, <<6, 6>>, <<0, 6>>,
  <<6, 3>>, <<0, 29>>, <<6, 3>>, <<0, 1>>, <<6, 1>>, <<0, 5>>, <<6, 3>>, <<0, 19>>, <<6, 4>>,
  <<0, 28>>>>)
Three3A_80_FF == Runs(<<<<0, 95>>, <<6, 1>>, <<0, 32>>>>)
At_0F50 == <<<<1, 1, 0, 0, 2, 2>>, <<1, 1, 1, 1, 2, 2, 2, 2>>, <<1, 0, 1, 0, 2, 0, 2>>,
  <<1, 0, 1, 0, 2, 0, 2>>, <<1, 1, 0, 0, 2, 2>>, <<1, 1, 0, 0, 2, 2>>, <<1, 1, 0, 0, 2, 2>>,
  <<1, 1, 0, 0, 2, 2>>, <<1, 1, 1, 1, 2, 2, 2, 2>>, <<1, 1, 1, 1, 2, 2, 2, 2>>,
  <<1, 1, 1, 1, 2, 2, 2, 2>>, <<1, 1, 1, 0, 2, 2, 2>>>>
At_0F5C == <<<<1, 1, 1, 1, 2, 2, 2, 2>>, <<1, 1, 1, 1, 2, 2, 2, 2>>, <<1, 1, 1, 1, 2, 2, 2, 2>>,
  <<1, 1, 1, 1, 2, 2, 2, 2>>, <<1, 1, 0, 0, 0, 2>>, <<1, 1, 0, 0, 0, 2>>, <<1, 1, 0, 0, 0, 2>>,
  <<1, 1, 0, 0, 0, 2>>, <<1, 1, 0, 0, 0, 2>>, <<1, 1, 0, 0, 0, 2>>, <<1, 1, 0, 0, 0, 2>>,
  <<1, 1, 0, 0, 0, 2>>>>
At_0F68 == <<<<1, 1, 0, 0, 0, 2>>, <<1, 1, 0, 0, 0, 2>>, <<1, 1, 0, 0, 0, 2>>, <<1, 1, 0, 0, 0, 2>>,
  <<0, 1, 0, 0, 0, 2>>, <<0, 1, 0, 0, 0, 2>>, <<2, 2, 0, 0, 0, 2>>, <<1, 1, 1, 0, 0, 2, 2>>,
  <<2, 2, 2, 2, 0, 2, 2, 2>>, <<0, 0, 6, 0, 6, 0, 6>>, <<0, 0, 6, 0, 6, 0, 6>>,
  <<0, 0, 6, 6, 0, 0, 6, 6>>, <<1, 1, 0, 0, 0, 2>>>>
At_0F75 == <<<<1, 1, 0, 0, 0, 2>>, <<1, 1, 0, 0, 0, 2>>, <<1, 0, 0, 0, 2>>, <<1, 2, 0, 2>>,
  <<1, 1, 0, 1>>>>
Three7A_00_7F == Runs(<<<<0, 48>>, <<1, 2>>, <<0, 78>>>>)
Three7A_80_FF == Runs(<<<<0, 128>>>>)
At_0F7C == <<<<0, 1, 0, 1, 0, 2, 0, 2>>, <<0, 1, 0, 1, 0, 2, 0, 2>>, <<2, 2, 1, 0, 0, 2, 2>>,
  <<1, 1, 1, 0, 0, 2, 2>>, <<6, 6, 6, 6, 2, 2, 2, 2>>, <<0, 0, 1>>, <<0, 0, 0, 0, 1, 1, 1, 1>>,
  <<1, 0, 1>>, <<1, 0, 1>>, <<2, 2, 2, 2, 2, 2, 2, 2>>, <<2, 2, 0, 0, 0, 2>>, <<2, 2, 0, 0, 0, 2>>>>
At_0FC6 == <<<<2, 2, 0, 0, 2, 2>>, <<0, 2, 0, 0, 0, 0, 6, 1>>, <<0, 1, 0, 1, 0, 2, 0, 2>>,
  <<1, 1, 0, 0, 0, 2>>, <<1, 1, 0, 0, 0, 2>>, <<1, 1, 0, 0, 0, 2>>, <<1, 1, 0, 0, 0, 2>>,
  <<1, 1, 0, 0, 0, 2>>, <<0, 1, 1, 1, 0, 2>>, <<1, 1, 0, 0, 0, 2>>, <<1, 1, 0, 0, 0, 2>>,
  <<1, 1, 0, 0, 0, 2>>>>
At_0FDA == <<<<1, 1, 0, 0, 0, 2>>, <<1, 1, 0, 0, 0, 2>>, <<1, 1, 0, 0, 0, 2>>, <<1, 1, 0, 0, 0, 2>>,
  <<1, 1, 0, 0, 0, 2>>, <<1, 1, 0, 0, 0, 2>>, <<1, 1, 0, 0, 0, 2>>, <<1, 1, 0, 0, 0, 2>>,
  <<1, 1, 0, 0, 0, 2>>, <<1, 1, 0, 0, 0, 2>>, <<1, 1, 0, 0, 0, 2>>, <<1, 1, 0, 0, 0, 2>>>>
At_0FE6 == <<<<0, 1, 1, 1, 0, 2, 2, 2>>, <<1, 1, 0, 0, 0, 2>>, <<1, 1, 0, 0, 0, 2>>,
  <<1, 1, 0, 0, 0, 2>>, <<1, 1, 0, 0, 0, 2>>, <<1, 1, 0, 0, 0, 2>>, <<1, 1, 0, 0, 0, 2>>,
  <<1, 1, 0, 0, 0, 2>>, <<1, 1, 0, 0, 0, 2>>, <<1, 1, 0, 0, 0, 2>>, <<0, 0, 0, 1, 0, 0, 0, 2>>,
  <<1, 1, 0, 0, 0, 2>>>>
At_0FF2 == <<<<1, 1, 0, 0, 0, 2>>, <<1, 1, 0, 0, 0, 2>>, <<1, 1, 0, 0, 0, 2>>, <<1, 1, 0, 0, 0, 2>>,
  <<1, 1, 0, 0, 0, 2>>, <<1, 1, 0, 0, 0, 2>>, <<1, 1, 0, 0, 0, 2>>, <<1, 1, 0, 0, 0, 2>>,
  <<1, 1, 0, 0, 0, 2>>, <<1, 1, 0, 0, 0, 2>>, <<1, 1, 0, 0, 0, 2>>, <<1, 1, 0, 0, 0, 2>>>>
At_0FFE == <<<<1, 1, 0, 0, 0, 2>>, <<1, 1>>, <<1, 1>>, <<1, 1>>, <<1, 1>>, <<1, 1>>, <<1, 1>>,
  <<1, 1>>, <<1, 1, 0, 0, 0, 2>>, <<1, 1, 0, 0, 0, 2>>, <<1, 1, 0, 0, 0, 2>>, <<1, 1, 0, 0, 0, 2>>>>
At_0F3804 == <<<<1, 1, 0, 0, 0, 2>>, <<1, 1, 0, 0, 0, 2>>, <<1, 1, 0, 0, 0, 2>>,
  <<1, 1, 0, 0, 0, 2>>, <<1, 1, 0, 0, 0, 2>>, <<1, 1, 0, 0, 0, 2>>, <<1, 1, 0, 0, 0, 2>>,
  <<1, 1, 0, 0, 0, 2>>, <<0, 0, 0, 0, 0, 2>>, <<0, 0, 0, 0, 0, 2>>, <<0, 0, 0, 0, 0, 2>>,
  <<0, 0, 0, 0, 0, 2>>>>
At_0F3810 == <<<<0, 2>>, <<0, 2>>, <<0, 2>>, <<0, 1, 0, 0, 0, 2>>, <<0, 0, 0, 0, 0, 2>>,
  <<0, 0, 0, 0, 0, 2>>, <<0, 0, 0, 0, 0, 2>>, <<1, 1, 0, 0, 0, 2>>, <<1, 1, 0, 0, 0, 2>>,
  <<1, 1, 0, 0, 0, 2>>, <<0, 1, 0, 0, 0, 2>>, <<0, 1, 0, 0, 0, 2>>>>
At_0F3822 == <<<<0, 1, 0, 0, 0, 2>>, <<0, 1, 0, 0, 0, 2>>, <<0, 1, 0, 0, 0, 2>>,
  <<0, 1, 0, 0, 0, 2>>, <<0, 1, 0, 0, 0, 2>>, <<0, 1, 0, 0, 0, 2>>, <<0, 1, 0, 0, 0, 2>>,
  <<0, 1, 0, 0, 0, 2>>, <<0, 0, 0, 0, 0, 2>>, <<0, 0, 0, 0, 0, 2>>, <<0, 0, 0, 0, 0, 2>>,
  <<0, 0, 0, 0, 0, 2>>>>
At_0F3830 == <<<<0, 1, 0, 0, 0, 2>>, <<0, 1, 0, 0, 0, 2>>, <<0, 1, 0, 0, 0, 2>>,
  <<0, 1, 0, 0, 0, 2>>, <<0, 1, 0, 0, 0, 2>>, <<0, 1, 0, 0, 0, 2>>, <<0, 1, 0, 0, 0, 2>>,
  <<0, 1, 0, 0, 0, 2>>, <<0, 1, 0, 0, 0, 2>>, <<0, 1, 0, 0, 0, 2>>, <<0, 1, 0, 0, 0, 2>>,
  <<0, 1, 0, 0, 0, 2>>>>
At_0F383D == <<<<0, 1, 0, 0, 0, 2>>, <<0, 1, 0, 0, 0, 2>>, <<0, 1, 0, 0, 0, 2>>,
  <<0, 1, 0, 0, 0, 2>>, <<0, 1, 0, 0, 0, 2>>, <<0, 1>>, <<0, 1>>, <<0, 1>>, <<0, 0, 0, 0, 0, 2>>,
  <<0, 0, 0, 0, 0, 2>>, <<0, 0, 0, 0, 0, 2>>, <<0, 0, 0, 0, 0, 2>>>>
At_0F389A == <<<<0, 0, 0, 0, 0, 2>>, <<0, 0, 0, 0, 0, 2>>, <<0, 0, 0, 0, 0, 2>>,
  <<0, 0, 0, 0, 0, 2>>, <<0, 0, 0, 0, 0, 2>>, <<0, 0, 0, 0, 0, 2>>, <<0, 0, 0, 0, 0, 2>>,
  <<0, 0, 0, 0, 0, 2>>, <<0, 0, 0, 0, 0, 2>>, <<0, 0, 0, 0, 0, 2>>, <<0, 0, 0, 0, 0, 2>>,
  <<0, 0, 0, 0, 0, 2>>>>
At_0F38AC == <<<<0, 0, 0, 0, 0, 2>>, <<0, 0, 0, 0, 0, 2>>, <<0, 0, 0, 0, 0, 2>>,
  <<0, 0, 0, 0, 0, 2>>, <<0, 0, 0, 0, 0, 2>>, <<0, 0, 0, 0, 0, 2>>, <<0, 0, 0, 0, 0, 2>>,
  <<0, 0, 0, 0, 0, 2>>, <<0, 0, 0, 0, 0, 2>>, <<0, 0, 0, 0, 0, 2>>, <<0, 0, 0, 0, 0, 2>>,
  <<0, 0, 0, 0, 0, 2>>>>
At_0F38BE == <<<<0, 0, 0, 0, 0, 2>>, <<0, 0, 0, 0, 0, 2>>, <<0, 1, 0, 0, 0, 2>>,
  <<0, 1, 0, 0, 0, 2>>, <<0, 1, 0, 0, 0, 2>>, <<0, 1, 0, 0, 0, 2>>, <<0, 1, 0, 0, 0, 2>>,
  <<1, 0, 0, 1>>, <<1, 0, 0, 1>>, <<0, 0, 0, 0, 0, 2>>, <<0, 0, 0, 0, 0, 2>>, <<0, 0, 0, 0, 0, 2>>>>
At_0F3A08 == <<<<0, 2, 0, 0, 0, 2>>, <<0, 2, 0, 0, 0, 2>>, <<0, 2, 0, 0, 0, 2>>,
  <<0, 2, 0, 0, 0, 2>>, <<0, 2, 0, 0, 0, 2>>, <<0, 2, 0, 0, 0, 2>>, <<0, 2, 0, 0, 0, 2>>,
  <<2, 2, 0, 0, 0, 2>>, <<0, 2, 0, 0, 0, 2>>, <<0, 2, 0, 0, 0, 2>>, <<0, 2, 0, 0, 0, 2>>,
  <<0, 2, 0, 0, 0, 2>>>>
At_0F3A18 == <<<<0, 0, 0, 0, 0, 2>>, <<0, 0, 0, 0, 0, 2>>, <<0, 2, 0, 0, 0, 2>>,
  <<0, 2, 0, 0, 0, 2>>, <<0, 2, 0, 0, 0, 2>>, <<0, 2, 0, 0, 0, 2>>, <<0, 2, 0, 0, 0, 2>>,
  <<0, 2, 0, 0, 0, 2>>, <<0, 2, 0, 0, 0, 2>>, <<0, 0, 0, 0, 0, 2>>, <<0, 0, 0, 0, 0, 2>>,
  <<0, 0, 0, 0, 0, 2>>>>
At_0F3A60 == <<<<0, 2, 0, 0, 0, 2>>, <<0, 2, 0, 0, 0, 2>>, <<0, 2, 0, 0, 0, 2>>,
  <<0, 2, 0, 0, 0, 2>>, <<0, 2, 0, 0, 0, 2>>, <<1, 1, 0, 0, 0, 2>>, <<1, 1, 0, 0, 0, 2>>,
  <<1, 1, 0, 0, 0, 2>>, <<1, 1, 0, 0, 0, 2>>, <<1, 1, 0, 0, 0, 2>>, <<1, 1, 0, 0, 0, 2>>,
  <<1, 1, 0, 0, 0, 2>>>>
At_0F7303 == <<<<0, 1, 0, 0, 0, 2>>, <<1, 1, 0, 0, 0, 2>>, <<0, 1, 0, 0, 0, 2>>, <<2, 0, 1>>,
  <<2, 0, 1>>, <<1, 0, 1, 0, 2>>, <<1, 0, 1, 0, 2>>, <<2, 1, 1>>>>

-----------------------------------------------------------------------------
Tables == <<OneByte_00_7F \o OneByte_80_FF>> \o <<TwoByte_00_7F \o TwoByte_80_FF>> \o At_80 \o
  At_D8 \o At_DA \o At_DC \o At_DE \o At_F6 \o <<Now3D_00_7F \o Now3D_80_FF>> \o At_0F10 \o
  At_0F2B \o <<Three38_00_7F \o Three38_80_FF>> \o <<Three3A_00_7F \o Three3A_80_FF>> \o At_0F50 \o
  At_0F5C \o At_0F68 \o At_0F75 \o <<Three7A_00_7F \o Three7A_80_FF>> \o At_0F7C \o At_0FC6 \o
  At_0FDA \o At_0FE6 \o At_0FF2 \o At_0FFE \o At_0F3804 \o At_0F3810 \o At_0F3822 \o At_0F3830 \o
  At_0F383D \o At_0F389A \o At_0F38AC \o At_0F38BE \o At_0F3A08 \o At_0F3A18 \o At_0F3A60 \o
  At_0F7303

\* The tables that the code names.
Table_First == 0
Table_0F    == 1
Table_0F_0F == 30
Table_0F_38 == 48
Table_0F_3A == 49
=============================================================================
