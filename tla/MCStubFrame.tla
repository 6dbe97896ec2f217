---------------------------- MODULE MCStubFrame ----------------------------
\* All stubs of asm.S that a vector leads to.
EXTENDS StubFrame
AllVectors == {"0x1", "0x3", "0xef"}
=============================================================================
