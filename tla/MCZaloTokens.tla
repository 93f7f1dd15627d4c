----------------------------- MODULE MCZaloTokens -----------------------------
\* Two servers; the first runs two of the calls at the same time.
EXTENDS ZaloTokens

CONSTANTS s1, s2, d1, d2

MCServerOf == [c \in Calls |-> IF c \in {d1, d2} THEN s1 ELSE s2]
=============================================================================
