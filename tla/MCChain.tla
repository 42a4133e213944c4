------------------------------ MODULE MCChain ------------------------------
\* Chain for TLC: the servers, keys and values as model values.
EXTENDS Chain, TLC

CONSTANTS s1, s2, s3, k1, k2, v1, v2

MCTwoServers == {s1, s2}
MCThreeServers == {s1, s2, s3}
MCRank == s1 :> 1 @@ s2 :> 2 @@ s3 :> 3
MCTwoRanks == s1 :> 1 @@ s2 :> 2
MCOneKey == {k1}
MCTwoKeys == {k1, k2}
MCOneValue == {v1}
MCTwoValues == {v1, v2}
=============================================================================
