---------------------------- MODULE CommandPrompt ----------------------------
(***************************************************************************)
(* What the command line of LinuxICE promises to its user: a line of at    *)
(* most Room characters is typed, rubbed out from its end, and submitted;  *)
(* its first word, in either case, names the command that is executed.     *)
(***************************************************************************)
EXTENDS Naturals, Sequences

CONSTANTS
  Rooms,    \* the numbers of characters that may fit the line
  Chars,    \* what can be typed
  EndsWord, \* the characters among them that end a word
  Named     \* Named[c]: the commands whose name is the letter c

VARIABLES
  room, \* the characters that fit the line
  line, \* the characters typed and not rubbed out
  ran   \* the command that the last line submitted executed, "none" if none

vars == <<room, line, ran>>

Init == room \in Rooms /\ line = <<>> /\ ran = "none"

Type(c) ==
  /\ line' = IF Len(line) < room THEN Append(line, c) ELSE line
  /\ UNCHANGED <<room, ran>>

RubOut ==
  /\ line' = SubSeq(line, 1, Len(line) - 1)
  /\ UNCHANGED <<room, ran>>

\* The first word of the line is the one letter that names cmd.
Orders(cmd) ==
  /\ line # <<>> /\ cmd \in Named[line[1]]
  /\ Len(line) > 1 => line[2] \in EndsWord

Submit ==
  /\ ran' = IF \E cmd \in {"X", "T"} : Orders(cmd)
            THEN CHOOSE cmd \in {"X", "T"} : Orders(cmd) ELSE "none"
  /\ line' = <<>>
  /\ UNCHANGED room

Next == (\E c \in Chars : Type(c)) \/ RubOut \/ Submit

Spec == Init /\ [][Next]_vars
=============================================================================
