----------------------------- MODULE MCRateLimit -----------------------------
EXTENDS RateLimit, TLC

CONSTANTS b1, b2, b3

\* b1 and b2 are two tokens of one subject.
MCSubOf == [b \in Bearers |-> IF b = b3 THEN "other" ELSE "user"]
MCQuota == [cat \in Categories |-> IF cat = Initialize THEN 1 ELSE 2]
MCPeriod == [cat \in Categories |-> 1]

Symmetry == Permutations(Calls)
=============================================================================
