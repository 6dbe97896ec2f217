------------------------------ MODULE MCKeyQueue ------------------------------
(***************************************************************************)
(* KeyQueue with four slots: full, empty and wrapped rings all happen.     *)
(***************************************************************************)
EXTENDS KeyQueue

Max4    == 4
TwoKeys == {1, 2}
=============================================================================
