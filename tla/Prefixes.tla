------------------------------ MODULE Prefixes ------------------------------
(***************************************************************************)
(* The prefixes of one instruction (distorm3's prefix.c): which bytes are  *)
(* taken as prefixes, what they say, and which of them the decoder reports *)
(* as unused.  A prefix is a name, a flags word a set of names, the bits   *)
(* of REX and VEX a subset of {"B", "X", "R", "W", "L"}; positions count   *)
(* bytes from the start of the code.                                       *)
(***************************************************************************)
EXTENDS Integers, Sequences, SequencesExt, FiniteSetsExt, TLC

INST_MAXIMUM_SIZE  == 15
INST_DIVIDED_MODRM == 192
Modes == {16, 32, 64}             \* Decode16Bits, Decode32Bits, Decode64Bits

\* The byte of each prefix but REX and VEX, and the prefix of each of these bytes.
PrefixByte   == [CS |-> 46, SS |-> 54, DS |-> 62, ES |-> 38, FS |-> 100, GS |-> 101,
                 LOCK |-> 240, REPNZ |-> 242, REP |-> 243, OP_SIZE |-> 102, ADDR_SIZE |-> 103]
LegacyPrefix == [byte \in Range(PrefixByte) |-> CHOOSE prefix \in DOMAIN PrefixByte : PrefixByte[prefix] = byte]
Vex2b == 197
Vex3b == 196
Rexes == 64 .. 79

Segments32 == {"CS", "SS", "DS", "ES"}
Segments64 == {"FS", "GS"}
Segments   == Segments32 \cup Segments64
Reps       == {"REPNZ", "REP"}
LockReps   == Reps \cup {"LOCK"}

\* prefixes_is_valid, and the prefix that a byte is in prefixes_decode's loop.
IsValid(byte, dt) == byte \in DOMAIN LegacyPrefix \cup {Vex2b, Vex3b} \/ (byte \in Rexes /\ dt = 64)
Scanned(byte, dt) == byte \in DOMAIN LegacyPrefix \/ (byte \in Rexes /\ dt = 64)
PrefixOf(byte)    == IF byte \in Rexes THEN "REX" ELSE LegacyPrefix[byte]

\* _PrefixIndexer: the types of which one prefix is remembered.
Indexers == {"REX", "LOREP", "SEG", "OP_SIZE", "ADRS"}
IndexerOf(prefix) ==
  CASE prefix \in LockReps -> "LOREP" [] prefix \in Segments -> "SEG"
    [] prefix = "ADDR_SIZE" -> "ADRS" [] OTHER -> prefix
None == -1

\* _PrefixState when decode_internal has cleared it, for an instruction at `start'.
NoPrefixes(start) ==
  [start |-> start, last |-> start, decoded |-> {}, used |-> {}, rexPos |-> None, vexPos |-> None,
   ext |-> "NONE", unused |-> {}, mandatory66 |-> FALSE, vexV |-> 0, vrex |-> {},
   at |-> [pi \in Indexers |-> None]]

Use(ps, prefixes)  == [ps EXCEPT !.used = @ \cup prefixes]
Drop(ps, prefixes) == [ps EXCEPT !.decoded = @ \ prefixes]
IgnoreOf(ps, pis)  == [ps EXCEPT !.unused = @ \cup {ps.at[pi] : pi \in {i \in pis : ps.at[i] # None}}]
Ignore(ps, pi)     == IgnoreOf(ps, {pi})
IgnoreAll(ps)      == IgnoreOf(ps, Indexers)
TrackUnused(ps, index, pi) == [Ignore(ps, pi) EXCEPT !.at[pi] = index]

\* prefixes_set_unused_mask
SetUnusedMask(ps) ==
  LET diff == (ps.decoded \ ps.used) \cup (ps.used \ ps.decoded)
      Of(pi, prefixes) == IF diff \cap prefixes # {} THEN {pi} ELSE {}
  IN  IgnoreOf(ps, Of("REX", {"REX"}) \cup Of("SEG", Segments) \cup Of("LOREP", LockReps)
                   \cup Of("OP_SIZE", {"OP_SIZE"}) \cup Of("ADRS", {"ADDR_SIZE"})).unused

-----------------------------------------------------------------------------
\* prefixes_decode.  The code is a sequence of bytes; byte p of it is code[p + 1].
Bit(byte, n) == (byte \div 2^n) % 2 = 1
Bits(byte, names) == {names[n] : n \in {i \in DOMAIN names : Bit(byte, i)}}
RexBits(byte) == Bits(byte, (0 :> "B") @@ (1 :> "X") @@ (2 :> "R") @@ (3 :> "W"))

ScanOne(ps, index, byte) ==
  LET prefix == PrefixOf(byte)
      seen   == [ps EXCEPT !.decoded = @ \cup {prefix}]
      rexed  == [seen EXCEPT !.vrex = RexBits(byte), !.rexPos = ps.start + index, !.ext = "REX"]
  IN  TrackUnused(IF prefix = "REX" THEN rexed ELSE seen, index, IndexerOf(prefix))

\* How many bytes the loop takes: it halts at 15, at the end, or at another byte.
ScanLength(code, start, left, dt) ==
  Min({n \in 0 .. left : n \in {left, INST_MAXIMUM_SIZE} \/ ~Scanned(code[start + n + 1], dt)})

Scan(code, start, length) ==
  LET scanned[n \in 0 .. length] ==
        IF n = 0 THEN NoPrefixes(start) ELSE ScanOne(scanned[n - 1], n - 1, code[start + n])
  IN  scanned[length]

\* In 16 and 32 bits the second byte tells a VEX prefix from LDS and LES.
VexAt(code, pos, left, dt, size, first, ps) ==
  /\ left >= size
  /\ code[pos + 1] = first
  /\ pos - ps.start <= INST_MAXIMUM_SIZE - size
  /\ dt = 64 \/ code[pos + 2] >= INST_DIVIDED_MODRM

TakeVex(ps, pos, ext, bits) ==
  [ps EXCEPT !.vexPos = pos + 1, !.decoded = @ \cup {"VEX"}, !.ext = ext, !.vrex = @ \cup bits]

Vex2(code, pos, dt, ps) ==
  LET vex == code[pos + 2]
  IN  TakeVex(ps, pos, "VEX2", {bit \in Bits(255 - vex, 7 :> "R") : dt = 64} \cup Bits(vex, 2 :> "L"))

Vex3(code, pos, dt, ps) ==
  LET inverted == Bits(255 - code[pos + 2], (5 :> "B") @@ (6 :> "X") @@ (7 :> "R"))
      taken    == TakeVex(ps, pos, "VEX3", inverted \cup Bits(code[pos + 3], (2 :> "L") @@ (7 :> "W")))
  IN  IF dt = 64 THEN taken ELSE [taken EXCEPT !.vrex = @ \ {"B", "X", "R", "W"}]

DecodePrefixes(code, start, left, dt) ==
  LET n   == ScanLength(code, start, left, dt)
      ps  == Scan(code, start, n)
      pos == start + n
  IN  CASE VexAt(code, pos, left - n, dt, 2, Vex2b, ps) -> [Vex2(code, pos, dt, ps) EXCEPT !.last = pos + 2]
        [] VexAt(code, pos, left - n, dt, 3, Vex3b, ps) -> [Vex3(code, pos, dt, ps) EXCEPT !.last = pos + 3]
        [] OTHER -> [ps EXCEPT !.last = pos]

-----------------------------------------------------------------------------
\* prefixes_use_segment: the prefixes used and the bits it ORs into di->segment,
\* a set of names ("NONE" stands for R_NONE, which replaces what was there).
UsedSegment(default, decoded, dt) ==
  LET flags == decoded \cap (IF dt = 64 THEN Segments64 ELSE Segments)
  IN  IF flags \in {{}, {default}} THEN {} ELSE flags

SegmentBits(default, decoded, dt) ==
  LET used  == UsedSegment(default, decoded, dt)
      flags == IF used = {} THEN {default} ELSE used
  IN  IF dt = 64 /\ flags \cap Segments32 # {} THEN {"NONE"}
      ELSE (IF used = {} THEN {"DEFAULT"} ELSE {}) \cup {seg \in flags : flags = {seg}}
=============================================================================
