----------------------------- MODULE CommandLine -----------------------------
(***************************************************************************)
(* The command line of the debugger: get_command (ui.c) edits the C string *)
(* of cmd_edit (text_edit.c) key by key and shows a help line for it, and  *)
(* exec_command (command.c) takes its first word for a command.  A         *)
(* character is a string of length one here; NUL is what the Alt keymap    *)
(* gives for most keys, and ends a C string wherever it stands.            *)
(***************************************************************************)
EXTENDS Integers, Sequences

CONSTANTS
  TextSize,  \* sizeof text, 256 in the code
  FontWidth, \* of a character, in pixels
  Widths,    \* the widths the command line can have on the screens in use
  Keys       \* bound: the keys that are typed

NUL   == "NUL"
Space == " "

\* Pairs of a lower-case letter and its upper case, among the keys of interest.
Upper == [c \in {"x", "t", "h"} |-> CASE c = "x" -> "X" [] c = "t" -> "T" [] c = "h" -> "H"]
Chars == DOMAIN Upper \cup {"X", "T", "H", Space, "z", NUL}

ASSUME SizesAssumption ==
  /\ TextSize \in Nat /\ TextSize > 1 /\ FontWidth \in Nat \ {0} /\ Widths \subseteq Nat
ASSUME KeysAssumption == Keys \subseteq Chars

VARIABLES
  text, next, cursor, \* cmd_edit
  width,              \* of its rectangle, from the screen's resolution
  help,               \* what the help line shows
  ran,                \* the command that the last ENTER executed, "none" if none
  open                \* the debugger runs

edit == <<text, next, cursor>>
vars == <<text, next, cursor, width, help, ran, open>>

\* The table command[]; a name is one letter.
Commands == {"X", "T"}

Folds(c) == IF c \in DOMAIN Upper THEN Upper[c] ELSE c

\* The C string in text, t being text as an array.
CString(t) ==
  LET end == CHOOSE i \in DOMAIN t : t[i] = NUL /\ \A j \in 0..(i - 1) : t[j] # NUL
  IN  [i \in 1..end |-> t[i - 1]]

\* The characters of s before its first space, all of s if it has none.
Word(s) ==
  LET before == {i \in 1..Len(s) : \A j \in 1..i : s[j] # Space}
  IN  [i \in before |-> s[i]]

HasSpace(s) == \E i \in 1..Len(s) : s[i] = Space

\* strcasecmp of a command's name and a word.
Equals(cmd, word) == Len(word) = 1 /\ Folds(word[1]) = cmd

\* is_prefix(cmd, s): s is no longer than the name and agrees with it.
PrefixOf_NoFold(cmd, s) == Len(s) <= 1 /\ \A i \in 1..Len(s) : s[i] = cmd \* mutant
PrefixOf(cmd, s) == Len(s) <= 1 /\ \A i \in 1..Len(s) : s[i] = cmd \/ Folds(s[i]) = cmd

-----------------------------------------------------------------------------
\* get_helpline: nothing typed, the description of the command a first word
\* names, or the names that begin like a line without a space.
HelpLine(s) ==
  LET named  == {cmd \in Commands : Equals(cmd, Word(s))}
      begins == {cmd \in Commands : PrefixOf(cmd, s)}
  IN  CASE s = <<>>                         -> [says |-> "default", of |-> {}]
        [] s # <<>> /\ HasSpace(s)          -> [says |-> "description", of |-> named]
        [] s # <<>> /\ ~HasSpace(s)         -> [says |-> "names", of |-> begins]

\* What help announces is no command.
Invalid(h) == h.says # "default" /\ h.of = {}

\* The test of ui_textedit_addchar: the buffer or the rectangle is full.
Full == next = TextSize - 1 \/ (next + 1) * FontWidth > width

AddChar_NoNul(c) == \* mutant: the string is not terminated again
  IF Full THEN UNCHANGED edit
  ELSE /\ text' = [text EXCEPT ![next] = c]
       /\ next' = next + 1
       /\ cursor' = next'

\* ui_textedit_addchar
AddChar(c) ==
  IF Full THEN UNCHANGED edit
  ELSE /\ text' = [text EXCEPT ![next] = c, ![next + 1] = NUL]
       /\ next' = next + 1
       /\ cursor' = next'

\* ui_textedit_delchar
DelChar ==
  IF next = 0 THEN UNCHANGED edit
  ELSE /\ text' = [text EXCEPT ![next - 1] = NUL]
       /\ next' = next - 1
       /\ cursor' = next'

\* A character comes from get_key.
KeyChar(c) ==
  /\ open
  /\ AddChar(c)
  /\ help' = HelpLine(CString(text'))
  /\ UNCHANGED <<width, ran, open>>

KeyBackspace ==
  /\ open
  /\ DelChar
  /\ help' = HelpLine(CString(text'))
  /\ UNCHANGED <<width, ran, open>>

\* exec_command: the string is cut at its first space, then compared with the
\* names in the table; the first one it equals is executed.
Executed(s) ==
  LET named == {cmd \in Commands : Equals(cmd, Word(s))}
  IN  IF named = {} THEN "none" ELSE CHOOSE cmd \in named : TRUE

\* Mutant: the line is not cleared when the command does nothing.
KeyEnter_KeepsLine ==
  /\ open
  /\ help' = HelpLine(CString(text))
  /\ ran' = Executed(CString(text))
  /\ IF ran' = "none" THEN UNCHANGED edit
     ELSE text' = [text EXCEPT ![0] = NUL] /\ next' = 0 /\ cursor' = 0
  /\ open' = (ran' = "none")
  /\ UNCHANGED width

\* ENTER: get_command updates the help line and returns, exec_command executes
\* the line, clear_command empties it and leaves the rest of the buffer as it
\* is; cmdX and cmdT end the debugger.
KeyEnter ==
  /\ open
  /\ help' = HelpLine(CString(text))
  /\ ran' = Executed(CString(text))
  /\ LET cut == [i \in DOMAIN text |->
                   IF text[i] = Space /\ i = Len(Word(CString(text))) THEN NUL ELSE text[i]]
     IN  text' = [cut EXCEPT ![0] = NUL]
  /\ next' = 0
  /\ cursor' = 0
  /\ open' = (ran' = "none")
  /\ UNCHANGED width

\* The next session: show_mainui draws the help line of no command.
ShowMainUI ==
  /\ ~open
  /\ open' = TRUE
  /\ help' = HelpLine(<<>>)
  /\ UNCHANGED <<edit, width, ran>>

-----------------------------------------------------------------------------
\* ui_textedit_new writes the first character of what kmalloc returned and
\* leaves the others as they are.
Init ==
  /\ \E junk \in Chars : text = [i \in 0..(TextSize - 1) |-> IF i = 0 THEN NUL ELSE junk]
  /\ next = 0
  /\ cursor = 0
  /\ width \in Widths
  /\ help = HelpLine(<<>>)
  /\ ran = "none"
  /\ open = FALSE

Next == (\E c \in Keys : KeyChar(c)) \/ KeyBackspace \/ KeyEnter \/ ShowMainUI

Spec == Init /\ [][Next]_vars

-----------------------------------------------------------------------------
TypeOK ==
  /\ text \in [0..(TextSize - 1) -> Chars]
  /\ next \in 0..(TextSize - 1) /\ cursor \in 0..(TextSize - 1)
  /\ width \in Widths
  /\ help \in [says : {"default", "description", "names"}, of : SUBSET Commands]
  /\ ran \in Commands \cup {"none"}
  /\ open \in BOOLEAN

\* The string that get_helpline, exec_command and the screen read always ends
\* where the editor stands or before, never in what an earlier line left in the
\* buffer; the cursor, which is drawn at that place, is on the screen's line.
Terminated ==
  /\ TypeOK
  /\ text[next] = NUL
  /\ cursor = next
  /\ next * FontWidth <= width

\* What the help line said when ENTER was typed is what happens: the commands
\* it announced, by name or by their description, are those that are executed.
HelpTellsTruth ==
  [][open /\ KeyEnter => (Invalid(help') <=> ran' = "none" /\ CString(text) # <<>>)
                         /\ (ran' # "none" => ran' \in help'.of)]_vars

\* "Enter a command (H for help)" (command.c): the line H is a command.
HForHelp == [][KeyEnter /\ CString(text) \in {<<"H">>, <<"h">>} => ran' # "none"]_vars

-----------------------------------------------------------------------------
Fit(w) == IF w \div FontWidth < TextSize - 1 THEN w \div FontWidth ELSE TextSize - 1

Prompt == INSTANCE CommandPrompt WITH
  line     <- [i \in 1..next |-> text[i - 1]],
  room     <- Fit(width),
  Rooms    <- {Fit(w) : w \in Widths},
  EndsWord <- {Space, NUL},
  Named    <- [c \in Chars |-> {cmd \in Commands : Folds(c) = cmd}]

\* The buffer, its NULs and what is left in it from earlier lines implement a
\* line of characters of which the first word is executed.
ImplementsPrompt == Prompt!Spec
=============================================================================
