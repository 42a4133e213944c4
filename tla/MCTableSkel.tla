---------------------------- MODULE MCTableSkel ----------------------------
\* TableSkel for TLC: the slots, keys and values as model values, and the
\* requests of each run.
EXTENDS TableSkel, TLC

CONSTANTS c1, c2, k1, k2, v1, v2, absent

MCThreads == {c1, c2}
MCKeys == {k1, k2}
MCValues == {v1, v2}
MCElapsed == {1}
MCRaced == {-1}

\* A request of every kind: a key that is put twice, removed and read, and
\* another that changes the size.
MCInputs == {<<"PUT", k1, v1>>, <<"PUT", k1, v2>>, <<"PUT", k2, v1>>,
             <<"GET", k1>>, <<"DEL", k1>>, <<"SIZE", "-">>, <<"GETKEYS", "-">>,
             <<"GETTABLE", "-">>, <<"STATS", "-">>, <<"BAD", "-">>}

MCTableInputs == {<<"PUT", k1, v1>>, <<"DEL", k1>>, <<"GETTABLE", "-">>}
=============================================================================
