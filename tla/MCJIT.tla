------------------------------- MODULE MCJIT -------------------------------
EXTENDS JIT

CONSTANTS r1, r2, r3

MCRequest == {r1, r2, r3}
=============================================================================
