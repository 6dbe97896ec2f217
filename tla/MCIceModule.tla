---------------------------- MODULE MCIceModule ----------------------------
\* An instance of IceModule for TLC: two keyboards on one CPU, the module on it
\* or on the other.
EXTENDS IceModule
CONSTANTS cpu0, cpu1, kbdA, kbdB
SameCpu == [d \in {kbdA, kbdB} |-> cpu0]
=============================================================================
