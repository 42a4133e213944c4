------------------------------ MODULE MCTable ------------------------------
\* Table for TLC: with three lists and an int of 8 bits, four of the keys share a
\* list, one is a prefix of another, and one has a negative char and code.
EXTENDS Table, TLC

CONSTANTS v1, v2

MCKeys == {<<>>, <<97>>, <<98>>, <<97, 97>>, <<-61>>}
MCValues == {v1, v2}
=============================================================================
