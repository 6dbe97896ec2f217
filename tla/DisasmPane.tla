----------------------------- MODULE DisasmPane -----------------------------
(***************************************************************************)
(* The disassembly: ice_disasm_format (disassembler.c) prints one line per *)
(* decoded instruction into a buffer, with a cursor and a remaining size;  *)
(* print_code (ui.c) cuts the buffer temp into the lines of the code pane, *)
(* and the ioctl of /dev/linuxice (chrdev.c) copies it to a process.       *)
(* temp is one static buffer that keeps what the last session left in it.  *)
(* Any kmalloc may fail.  A character is the line and the round it was     *)
(* printed in.                                                             *)
(***************************************************************************)
EXTENDS Integers, Sequences, SequencesExt, FiniteSetsExt

CONSTANTS
  TempSize,   \* size of temp (2000 in the code)
  BufSizes,   \* the buffer sizes that processes give to the ioctl
  LineSizes,  \* lengths of a printed line, its newline included
  MaxCount,   \* instructions that the bytes decode to
  MaxRounds   \* bound: disassemblies in a behaviour

ASSUME SizesAssumption ==
  /\ TempSize \in Nat \ {0} /\ BufSizes \subseteq Nat /\ LineSizes \subseteq Nat \ {0}
  /\ \E b \in BufSizes : \A c \in BufSizes : c <= b
  /\ \E l \in LineSizes : \A k \in LineSizes : k <= l
  /\ MaxCount \in Nat /\ MaxRounds \in Nat

VARIABLES
  pc,        \* what the code is doing; after it has dereferenced a NULL the
             \* process is "killed", and the debugger ends in an "oops"
  attr,      \* ice_disasm_attr: the lengths of the lines it will print
  buf_size,  \* the argument of ice_disasm_format
  temp, kbuf,\* the static buffer of ui.c; the one that the ioctl allocates
  i, cur_size, \* locals of ice_disasm_format
  temp1,     \* local of print_code
  shown,     \* the lines given to ui_listview_additem for the code pane
  needed,    \* buf_size_needed of the last ioctl, -1 before
  round

vars == <<pc, attr, buf_size, temp, kbuf, i, cur_size, temp1, shown, needed, round>>

\* A character: of a line, or one of these (round 0 stands for none).
NUL     == <<0, 0>>
NL      == <<0, 1>>
GARBAGE == <<0, 2>>
FOREIGN == <<0, 3>>
\* Addresses of both buffers; those from buf_size on belong to somebody else.
Cells   == 0 .. 2 * Max({TempSize} \cup BufSizes) + Max(LineSizes)
Zeros   == [a \in Cells |-> IF a < TempSize THEN NUL ELSE FOREIGN]
Garbage(size) == [a \in Cells |-> IF a < size THEN GARBAGE ELSE FOREIGN]
NoBuffer == Garbage(0) \* the ioctl's temp is NULL
Char(line) == <<round, line>>
Text(line) == [k \in 1 .. attr[line] |-> IF k = attr[line] THEN NL ELSE Char(line)]
Listing == FlattenSeq([line \in DOMAIN attr |-> Text(line)])

-----------------------------------------------------------------------------
\* snprintf: at most room - 1 characters and a NUL; it returns the length the
\* text has without that limit.
Snprintf(b, start, room, s) ==
  LET written == IF Len(s) < room THEN Len(s) ELSE room - 1 IN
  [a \in Cells |-> IF a \in start .. start + written - 1 THEN s[a - start + 1]
                   ELSE IF a = start + written THEN NUL ELSE b[a]]

\* Where a NULL is dereferenced.
Crashed(who) == IF who = "pane" THEN "oops" ELSE "killed"

\* print_code disassembles 100 bytes at ip, the ioctl what a process asks for,
\* which may be no byte; ice_new_disasm has as many entries as bytes.  Without
\* memory for them distorm refuses and there are no instructions, the one way in
\* which a pane has none; without memory for their copy memcpy writes to NULL.
NewDisasm(who) ==
  /\ pc \in {"idle", "killed"} /\ round < MaxRounds
  /\ \E n \in 0 .. MaxCount : attr' \in [1 .. n -> LineSizes]
  /\ buf_size' \in IF who = "pane" THEN {TempSize} ELSE BufSizes
  /\ kbuf' \in IF who = "ioctl" THEN {Garbage(buf_size'), NoBuffer} ELSE {kbuf}
  /\ pc' \in {who} \cup IF attr' # <<>> THEN {Crashed(who)} ELSE {}
  /\ i' = 1 /\ cur_size' = 0 /\ round' = round + 1
  /\ shown' = IF who = "pane" THEN <<>> ELSE shown   \* ui_listview_clear
  /\ UNCHANGED <<temp, temp1, needed>>

\* Mutant: the loop does not stop when the buffer is full.
HasRoom_Always(size) == TRUE
HasRoom(size) == size < buf_size
\* Mutant: the cursor moves by what was written.
Step_Written(len) == IF cur_size + len < buf_size THEN len ELSE buf_size - 1 - cur_size
Step(len) == len

\* One turn of the loop of ice_disasm_format.  buf_size - cur_size is unsigned.
FormatLine ==
  LET room == (buf_size - cur_size) % (2 * Max({TempSize} \cup BufSizes)) IN
  /\ pc \in {"pane", "ioctl"} /\ i <= Len(attr) /\ HasRoom(cur_size)
  /\ pc = "ioctl" => kbuf # NoBuffer
  /\ IF pc = "pane" THEN /\ temp' = Snprintf(temp, cur_size, room, Text(i))
                         /\ UNCHANGED kbuf
     ELSE /\ kbuf' = Snprintf(kbuf, cur_size, room, Text(i))
          /\ UNCHANGED temp
  /\ cur_size' = cur_size + Step(attr[i])
  /\ i' = i + 1
  /\ UNCHANGED <<pc, attr, buf_size, temp1, shown, needed, round>>

\* The first snprintf into a buffer that no memory was found for.
FormatNull ==
  /\ pc = "ioctl" /\ i <= Len(attr) /\ HasRoom(cur_size)
  /\ kbuf = NoBuffer
  /\ pc' = "killed"
  /\ UNCHANGED <<attr, buf_size, temp, kbuf, i, cur_size, temp1, shown, needed, round>>

\* The loop is over.  What copy_to_user cannot read, from NULL, it leaves out.
FormatEnd ==
  /\ pc \in {"pane", "ioctl"}
  /\ i > Len(attr) \/ ~HasRoom(cur_size)
  /\ IF pc = "pane" THEN pc' = "print" /\ temp1' = 0 /\ UNCHANGED needed
     ELSE pc' = "idle" /\ needed' = cur_size /\ UNCHANGED temp1
  /\ UNCHANGED <<attr, buf_size, temp, kbuf, i, cur_size, shown, round>>

\* Where temp2 stops.
EndOf(start) == Min({a \in Cells : a >= start /\ temp[a] \in {NL, NUL}})

\* The C string at an address of temp, and print_code's handling of a line: its
\* newline becomes a NUL, then ui_listview_additem copies the string.
CString(b, start) ==
  LET end == Min({a \in Cells : a >= start /\ b[a] = NUL}) IN [k \in 1 .. end - start |-> b[start + k - 1]]
\* Mutant: the newline is left in place.
CutAt_Not(temp2) == temp
CutAt(temp2) == [temp EXCEPT ![temp2] = NUL]

\* One turn of the outer loop of print_code.
PrintLine ==
  /\ pc = "print" /\ temp[temp1] # NUL
  /\ LET temp2 == EndOf(temp1) IN
     IF temp[temp2] = NUL
     THEN pc' = "idle" /\ UNCHANGED <<temp, temp1>>
     ELSE temp' = CutAt(temp2) /\ temp1' = temp2 + 1 /\ UNCHANGED pc
  /\ shown' = Append(shown, CString(temp', temp1))
  /\ UNCHANGED <<attr, buf_size, kbuf, i, cur_size, needed, round>>

PrintEnd ==
  /\ pc = "print" /\ temp[temp1] = NUL
  /\ pc' = "idle"
  /\ UNCHANGED <<attr, buf_size, temp, kbuf, i, cur_size, temp1, shown, needed, round>>

Init ==
  /\ pc = "idle" /\ attr = <<>> /\ buf_size = 0 /\ i = 1 /\ cur_size = 0
  /\ temp = Zeros /\ kbuf = Garbage(0) /\ temp1 = 0 /\ shown = <<>> /\ needed = -1 /\ round = 0

Next ==
  \/ NewDisasm("pane") \/ NewDisasm("ioctl")
  \/ FormatLine \/ FormatNull \/ FormatEnd
  \/ PrintLine \/ PrintEnd
Spec == Init /\ [][Next]_vars
-----------------------------------------------------------------------------
\* The variables hold what their C types and the code allow.
Values == {NUL, NL, GARBAGE, FOREIGN} \cup ((1 .. MaxRounds) \X (1 .. MaxCount))
TypeOK ==
  /\ pc \in {"idle", "pane", "ioctl", "print", "killed", "oops"}
  /\ Len(attr) <= MaxCount /\ \A line \in DOMAIN attr : attr[line] \in LineSizes
  /\ buf_size \in {0, TempSize} \cup BufSizes
  /\ temp \in [Cells -> Values] /\ kbuf \in [Cells -> Values]
  /\ i \in 1 .. MaxCount + 1 /\ cur_size \in 0 .. buf_size + Max(LineSizes)
  /\ temp1 \in 0 .. TempSize - 1 /\ shown \in Seq(Seq(Values))
  /\ needed \in -1 .. Max(BufSizes) + Max(LineSizes) /\ round \in 0 .. MaxRounds

\* ice_disasm_format writes into the buffer it was given and nowhere else,
\* although its cursor may stand behind the end.
InBounds ==
  /\ TypeOK
  /\ \A a \in Cells : a >= TempSize => temp[a] = FOREIGN
  /\ pc = "ioctl" => \A a \in Cells : a >= buf_size => kbuf[a] = FOREIGN

\* What print_code gives the code pane is this session's instructions, one per
\* line and in order, as far as temp has room, and nothing that an earlier session
\* left in temp.  Only when kmalloc gives ice_new_disasm no memory is it old text:
\* at most one line, from the first instruction of an earlier session, whose
\* other lines stand behind a newline that was cut then.
ShownIsListing ==
  [][pc = "print" /\ pc' = "idle" =>
       LET joined == FlattenSeq([k \in DOMAIN shown' |-> shown'[k] \o <<NL>>])
           fits   == SubSeq(Listing, 1, Min({Len(Listing), TempSize - 1}))
       IN  IF attr # <<>> THEN joined \in {fits, fits \o <<NL>>}
           ELSE /\ Len(shown') <= 1
                /\ \A k \in DOMAIN shown' : \A a \in DOMAIN shown'[k] :
                     shown'[k][a] \in (1 .. round - 1) \X {1}]_vars

\* A process that is told that it needs less than the buffer it gave has got the
\* whole listing, which is empty if distorm had no memory for it; otherwise the
\* listing is at least as long as its buffer.  That holds of every ioctl that
\* returns: one that is not given its buffer returns only if there is no line.
NeededIsHonest ==
  [][pc = "ioctl" /\ pc' = "idle" =>
       IF needed' < buf_size THEN /\ needed' = Len(Listing)
                                  /\ SubSeq([k \in 1 .. buf_size |-> kbuf[k - 1]], 1, needed') = Listing
       ELSE Len(Listing) >= buf_size]_vars
=============================================================================
