----------------------------- MODULE MCKeyboard -----------------------------
\* An instance of Keyboard for TLC: both Ctrl keys, Shift, Alt, Q, Enter, a key
\* whose code has no entry in the keymaps (the left Meta key) and a code behind
\* all keymaps, whose low byte runs into the next layer's.
EXTENDS Keyboard
KeyCodes == {29, 97, 42, 56, 16, 28, 125, 464}
=============================================================================
