----------------------------- MODULE MCFraming -----------------------------
\* Framing for TLC: packets of 2 bytes and shorts of 4 bits.
EXTENDS Framing, TLC

CONSTANT garbled

\* An empty message, one and two bytes, a packet and a byte, three packets, one
\* whose size is negative as a short, one that is taken for an empty message, and
\* one that is taken for one of 2 bytes.
MCSizes == {0, 1, 2, 3, 6, 9, 16, 18}

\* The sizes that a short holds.
MCLongSizes == {1, 2, 3}
=============================================================================
