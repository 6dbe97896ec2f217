---------------------------- MODULE MCCommandLine ----------------------------
(***************************************************************************)
(* Instances of CommandLine for TLC: a buffer of four characters, screens  *)
(* on which the rectangle or the buffer is full first.                     *)
(***************************************************************************)
EXTENDS CommandLine

TwoWidths == {5, 9}
AllKeys   == Chars
HelpKeys  == {"H", "x", " "}
=============================================================================
