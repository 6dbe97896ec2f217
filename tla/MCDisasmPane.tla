---------------------------- MODULE MCDisasmPane ----------------------------
\* An instance of DisasmPane for TLC: lines of 2 and 3 characters, so that every
\* buffer ends inside a line, at its newline, behind it and behind the listing.
EXTENDS DisasmPane
=============================================================================
