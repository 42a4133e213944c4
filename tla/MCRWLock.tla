------------------------------ MODULE MCRWLock ------------------------------
\* RWLock for TLC: threads and the free mutex as model values.
EXTENDS RWLock, TLC

CONSTANTS t1, t2, t3, none

MCThreads == {t1, t2, t3}

\* An int wide enough not to wrap within the bound.
MCIntMin == -8
=============================================================================
