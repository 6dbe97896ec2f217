------------------------------- MODULE Distorm -------------------------------
(***************************************************************************)
(* A call of distorm3 and the callers that resume it: distorm_decompose    *)
(* and decode_internal's loop, one step for each turn of the loop.  The    *)
(* loop eats `left' bytes from `pos' on and fills an array of max entries; *)
(* offsets count from the start of the whole code, and an entry that could *)
(* not be decoded (FLAG_NOT_DECODABLE, "DB") is a cleared _DInst.          *)
(* The addresses of DF_MAXIMUM_ADDR* are not masked here.                  *)
(***************************************************************************)
EXTENDS DecodeInst

CONSTANT Calls      \* sets of calls to check: [code, dt, max, features, caller]

ASSUME CallsAssumption ==
  \A calls \in Calls : \A c \in calls :
    c.code \in Seq(0 .. 255) /\ c.max \in Nat /\ c.caller \in {"once", "main", "Decompose"}

VARIABLES
  call,             \* what the caller asks: _CodeInfo and the size of its array
  begin,            \* the offset at which this call's code begins
  pos, left,        \* code and codeLen
  result,           \* the entries that usedInstructionsCount counts
  next,             \* _CodeInfo.nextOffset
  status,           \* "called", "decoding" or the _DecodeResult returned
  listing           \* what the caller has got in earlier calls
vars == <<call, begin, pos, left, result, next, status, listing>>

FCOnly == "RETURN_FC_ONLY" \in call.features
StopOn == <<"STOP_ON_CALL", "STOP_ON_RET", "STOP_ON_SYS", "STOP_ON_UNC_BRANCH",
            "STOP_ON_CND_BRANCH", "STOP_ON_INT", "STOP_ON_CMOV">>        \* by FC_CALL .. FC_CMOV
StopsOn(di) == di.fc # 0 /\ StopOn[di.fc] \in call.features
StopsOnAny  == call.features \cap Range(StopOn) # {}

Init ==
  /\ \E calls \in Calls : call \in calls
  /\ begin = 0 /\ pos = 0 /\ left = Len(call.code) /\ next = 0
  /\ result = <<>> /\ listing = <<>>
  /\ status = "called"

\* distorm_decompose: what it refuses, and an empty code.
Legal == call.dt \in Modes /\ ~({"MAXIMUM_ADDR16", "MAXIMUM_ADDR32"} \subseteq call.features)
Enter ==
  /\ status = "called"
  /\ status' = IF ~Legal THEN "INPUTERR" ELSE IF left = 0 THEN "SUCCESS" ELSE "decoding"
  /\ result' = <<>>
  /\ next' = IF Legal /\ left > 0 THEN begin ELSE next
  /\ UNCHANGED <<call, begin, pos, left, listing>>

-----------------------------------------------------------------------------
HasRoom_OneMore(n) == Len(result) + n <= call.max + 1    \* mutant: `>' for `>='
HasRoom_OneLess(n) == Len(result) + n < call.max         \* mutant: `<' for `<='
HasRoom(n) == Len(result) + n <= call.max
OutOfRoom ==
  /\ status' = "MEMORYERR"
  /\ UNCHANGED <<pos, left, result, next>>

\* Only prefixes, to the end of the code or as many as an instruction may have.
PrefixesOnly_Unfiltered(ps) ==                           \* mutant: the filter is not asked
  IF HasRoom(PrefixSize(ps))
  THEN /\ result' = result \o Undecoded(pos, PrefixSize(ps))
       /\ pos' = ps.last
       /\ left' = left - PrefixSize(ps)
       /\ UNCHANGED <<next, status>>
  ELSE OutOfRoom
PrefixesOnly(ps) ==
  IF FCOnly \/ HasRoom(PrefixSize(ps))
  THEN /\ result' = IF FCOnly THEN result ELSE result \o Undecoded(pos, PrefixSize(ps))
       /\ pos' = ps.last
       /\ left' = left - PrefixSize(ps)
       /\ UNCHANGED <<next, status>>
  ELSE OutOfRoom

Filtered(di) == FCOnly /\ di.fc = 0
Advance(di)  == pos' = pos + di.size /\ left' = left - di.size /\ next' = pos + di.size

\* One instruction: filtered, dropped with its prefixes byte by byte, or kept.
Filter(di) == Filtered(di) /\ Advance(di) /\ UNCHANGED <<result, status>>

DropAll_OneByte(ps, di) ==                               \* mutant: the prefixes are not listed
  /\ ~Filtered(di) /\ Undecodable(di)
  /\ IF HasRoom(1) THEN Advance(di) /\ result' = result \o Undecoded(pos, 1) /\ UNCHANGED status
     ELSE OutOfRoom
DropAll(ps, di) ==
  LET n == PrefixSize(ps) + 1
  IN  /\ ~Filtered(di) /\ Undecodable(di)
      /\ IF HasRoom(n) THEN Advance(di) /\ result' = result \o Undecoded(pos, n) /\ UNCHANGED status
         ELSE OutOfRoom

Keep(di) ==
  /\ ~Filtered(di) /\ ~Undecodable(di)
  /\ Advance(di)
  /\ result' = Append(result, di)
  /\ status' = IF StopsOn(di) THEN "SUCCESS" ELSE status

One(ps) ==
  IF ~HasRoom(1) THEN OutOfRoom
  ELSE \E di \in {InstructionAt(call.code, call.dt, ps, left)} : Filter(di) \/ DropAll(ps, di) \/ Keep(di)

InLoop == status = "decoding" /\ left > 0
Turn ==
  /\ InLoop
  /\ \E ps \in {PrefixesAt(call.code, call.dt, pos, left)} :
       IF NothingElse(ps, left) THEN PrefixesOnly(ps) ELSE One(ps)
  /\ UNCHANGED <<call, begin, listing>>

Return ==
  /\ status = "decoding" /\ left <= 0
  /\ status' = "SUCCESS"
  /\ UNCHANGED <<call, begin, pos, left, result, next, listing>>

-----------------------------------------------------------------------------
\* The callers: the linux example goes on behind the last entry after MEMORYERR,
\* the python bindings behind as many bytes as the entries have, whatever came back.
Returned == status \in {"SUCCESS", "MEMORYERR"}

Resume(n) ==
  /\ result # <<>>
  /\ listing' = listing \o result
  /\ begin' = n /\ pos' = n
  /\ left' = Len(call.code) - n
  /\ status' = "called"
  /\ result' = <<>>
  /\ UNCHANGED <<call, next>>

ResumeMain ==
  /\ call.caller = "main" /\ status = "MEMORYERR"
  /\ Resume(End(Last(result)))
ResumeDecompose ==
  /\ call.caller = "Decompose" /\ Returned /\ ~StopsOnAny
  /\ begin + Sizes(result) < Len(call.code)
  /\ Resume(begin + Sizes(result))

Next == Enter \/ Turn \/ Return \/ ResumeMain \/ ResumeDecompose

\* The thread runs on: of its actions one at a time is enabled, and it is taken.
\* InLoop is what enables Turn; ENABLED would decode again.
Running  == InLoop \/ ENABLED <<Enter \/ Return \/ ResumeMain \/ ResumeDecompose>>_vars
Fairness == []<>~Running \/ []<><<Running>>_vars
Spec == Init /\ [][Next]_vars /\ Fairness

-----------------------------------------------------------------------------
\* Properties.
Addresses == {"DISP", "SMEM", "MEM"}
Values    == {"IMM", "IMM1", "PC", "PTR"}
HoldRegister == {"REG", "SMEM", "MEM"}
Of(di, kinds) == {n \in DOMAIN di.ops : di.ops[n].kind \in kinds}
\* What a call returns that is an instruction.  (Before it returns, result only grows.)
Decoded       == IF Returned THEN {di \in {result[n] : n \in DOMAIN result} : ~Undecodable(di)} ELSE {}
Instructions  == {di \in Decoded : di.ii.table # "I_WAIT"}
RowOf(di) ==
  CASE di.ii.table = "InstInfos"   -> InfoRow(di.ii.row)
    [] di.ii.table = "InstInfosEx" -> InfoExRow(di.ii.row)
    [] OTHER                       -> OwnRow(di.ii.table)
BytesOf(di)   == SubSeq(call.code, di.addr + 1, End(di))

\* decode_inst, inst_lookup and operands_extract move code and codeLen in a dozen
\* places.  All the same an instruction is what its own bytes say: decoded from
\* them alone it comes out the same, and codeLen ends at 0.  Nothing is read behind
\* its end, and no byte is taken uncounted.
Alone(code) ==
  LET ps == PrefixesAt(code, call.dt, 0, Len(code))
  IN  IF NothingElse(ps, Len(code)) THEN Cleared ELSE InstructionAt(code, call.dt, ps, Len(code))
SelfContained == \A di \in Decoded : [di EXCEPT !.addr = 0, !.left = 0] = Alone(BytesOf(di))

\* The registers that _REGISTERS has a name for (no CR1, CR5 .. CR7, DR4, DR5), and
\* those that only 64 bits has.
NamedRegisters == (0 .. RegisterCount - 1) \ ({CREGS + n : n \in {1, 5, 6, 7}} \cup {DREGS + n : n \in {4, 5}})
Registers64    == (0 .. 15) \cup (24 .. 31) \cup (40 .. 47) \cup (56 .. 67) \cup {RIP}
RegistersOf(di) == {di.base} \cup {di.ops[n].reg : n \in Of(di, HoldRegister)}
KnownRegisters(di) ==
  RegistersOf(di) \subseteq (IF call.dt = 64 THEN NamedRegisters ELSE NamedRegisters \ Registers64) \cup {R_NONE}

\* inst_lookup's rows are cast to _InstInfoEx by their flags: the mnemonic that was
\* taken is one that the row has.
MnemonicExists(di) ==
  di \in Instructions => di.ii.table # "WILD" /\ di.mnemonic \in RowOf(di).mnemonics

\* disp, base, scale and segment are one for all operands: only a string
\* instruction has two of them in memory, and one segment at most is said.
OneAddress(di) ==
  /\ Cardinality(Of(di, Addresses)) > 1 => \A n \in Of(di, Addresses) : di.ops[n].kind = "SMEM" /\ di.dispSize = 0
  /\ Cardinality(di.segment \ {"DEFAULT"}) <= 1

\* The immediate is a union: one operand at most lives in it (IMM1 and IMM2 apart).
OneValue(di) ==
  /\ Cardinality(Of(di, Values)) <= 1
  /\ Of(di, {"IMM2"}) # {} => Of(di, Values) = Of(di, {"IMM1"})

\* Every instruction decoded is one that a reader of _DInst can print: registers
\* that the mode has, a mnemonic of its own row, operands that share the fields of
\* the instruction without overwriting each other.
WellFormed ==
  \A di \in Decoded : KnownRegisters(di) /\ MnemonicExists(di) /\ OneAddress(di) /\ OneValue(di)

\* Of the prefixes of one type the last one counts, all before are marked unused.
PrefixBytes(di) == {i \in 0 .. di.size - 1 : \A j \in 0 .. i : Scanned(call.code[di.addr + j + 1], call.dt)}
TypeOf(di, i)   == IndexerOf(PrefixOf(call.code[di.addr + i + 1]))
LastOfType(di)  ==
  \A i, j \in PrefixBytes(di) : i < j /\ TypeOf(di, i) = TypeOf(di, j) => i \in di.unused

\* Without some of its bytes: the same operation on the same operands?  (The sizes
\* in `flags' repeat 66 and 67 used or not.)
Without(di, bytes) ==
  LET kept == SelectSeq([i \in 1 .. di.size |-> i], LAMBDA i : i - 1 \notin bytes)
  IN  [n \in DOMAIN kept |-> call.code[di.addr + kept[n]]]
SameInstruction(a, b) ==
  \A field \in {"ii", "mnemonic", "pseudo", "ops", "base", "scale", "dispSize", "segment", "flags"} :
    a[field] = b[field]

\* distorm.h:243 says of unusedPrefixesMask that these prefixes are not used:
\* leaving them out changes nothing.  It holds when no type of prefix comes twice,
\* nothing, no VEX either, is between REX and the opcode, and but for two kinds of
\* rows: 66 makes a CLFLUSH the SFENCE of its row, REX.W the operand of EXTRACTPS
\* one of 64 bits, both without being marked used.
Repeated(di)   == \E i, j \in PrefixBytes(di) : i # j /\ TypeOf(di, i) = TypeOf(di, j)
RexAstray(di)  ==
  \E i \in PrefixBytes(di) : TypeOf(di, i) = "REX" /\ (i + 1 \in PrefixBytes(di) \/ "VEX" \in RowOf(di).flags)
Uncounted(di)  ==
  \/ "MNEMONIC_MODRM_BASED" \in RowOf(di).flags /\ di.opSize = 16
  \/ "RM32_64" \in Range(OperandTypes(RowOf(di))) /\ "PRE_REX" \notin RowOf(di).flags /\ di.opSize = 64
Ordinary(di)   == ~Repeated(di) /\ ~RexAstray(di) /\ ~Uncounted(di)
PrefixesHonest ==
  \A di \in Instructions :
    /\ LastOfType(di)
    /\ di.unused # {} /\ Ordinary(di) => SameInstruction(di, Alone(Without(di, di.unused)))

-----------------------------------------------------------------------------
\* The array and the callers.
All == listing \o result

\* An array of as many entries as there are bytes is enough (ice_new_disasm relies on it),
\* and none is written past its end.
Fits ==
  /\ Len(result) <= call.max
  /\ status = "MEMORYERR" => call.max < Len(call.code) - begin

\* The minimum that distorm.h:428 names: nobody who asks for 15 entries gets none for
\* want of room.  Each entry stands for a byte at least, for 15 at most and for none
\* behind the code: he who resumes behind the last entry has got on, and not too far.
GetsOn ==
  /\ status = "MEMORYERR" /\ call.max >= INST_MAXIMUM_SIZE => result # <<>>
  /\ \A n \in DOMAIN result :
       result[n].size \in 1 .. INST_MAXIMUM_SIZE /\ End(result[n]) <= Len(call.code)

\* The room in the array is tested in three places (decoder.c:526): all the same no entry
\* too many is written, and a call that is refused for want of room has used its room.
EnoughRoom == Fits /\ GetsOn

\* What the bytes from an offset on are by themselves: one instruction, or a byte
\* that is none, each of its prefixes listed before it.
EntriesOf(ps, di) == IF Undecodable(di) THEN Undecoded(ps.start, PrefixSize(ps) + 1) ELSE <<di>>
EntriesAt(asked, at) ==
  LET rest == Len(asked.code) - at
      ps   == PrefixesAt(asked.code, asked.dt, at, rest)
  IN  IF NothingElse(ps, rest) THEN Undecoded(at, PrefixSize(ps))
      ELSE EntriesOf(ps, InstructionAt(asked.code, asked.dt, ps, rest))
ControlsFlow(di) == di.fc # 0

\* However small the array and however often the caller resumes: what is listed is
\* the linear sweep.  (A filtered listing is the subject of FilterExact.)
NoCode == [call EXCEPT !.code = <<>>]
Swept  == Legal /\ ~FCOnly
Listed == IF Swept THEN All ELSE <<>>
Sweep  == INSTANCE LinearSweep WITH Entries <- EntriesAt, EndOf <- End, Controls <- ControlsFlow,
                                    asked  <- IF Swept THEN call ELSE NoCode,
                                    listed <- Listed, at <- IF Listed = <<>> THEN 0 ELSE End(Last(Listed))
Sweeps == Sweep!Spec

\* DF_RETURN_FC_ONLY: of the linear sweep, no more and no less than the instructions
\* that control the flow, as far as the call has come.
Sifted == Legal /\ FCOnly /\ call.caller = "once"
Sieve  == INSTANCE LinearSweep WITH Entries <- EntriesAt, EndOf <- End, Controls <- ControlsFlow,
                                    asked  <- IF Sifted THEN call ELSE NoCode,
                                    listed <- IF Sifted THEN result ELSE <<>>, at <- IF Sifted THEN pos ELSE 0
FilterExact == Sieve!Spec

\* Every call returns, no caller resumes for ever, and one with an array of 15 entries,
\* the minimum that distorm.h:428 names, gets all of the code if it does not ask to stop.
Obliged == call.max >= INST_MAXIMUM_SIZE /\ call.caller # "once" /\ Swept /\ ~StopsOnAny /\ call.code # <<>>
AllListed ==
  <>[](/\ status \notin {"called", "decoding"}
       /\ Obliged => All # <<>> /\ End(Last(All)) = Len(call.code))
=============================================================================
