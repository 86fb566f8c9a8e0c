-------------------------- MODULE MCLogtoValidation --------------------------
EXTENDS LogtoValidation, TLC

CONSTANTS k1, k2

\* k1 is there from the start and withdrawn at 1; k2 replaces it at 2, never
\* to be withdrawn within the run.
RotationFrom == [k \in Kids |-> IF k = k1 THEN 0 ELSE 2]
RotationUntil == [k \in Kids |-> IF k = k1 THEN 1 ELSE MaxTime + 1]

\* k1 is published throughout, k2 (a forger's key id) never.
SteadyFrom == [k \in Kids |-> 0]
SteadyUntil == [k \in Kids |-> IF k = k1 THEN MaxTime + 1 ELSE 0]

Good(k, exp) == [kid |-> k, exp |-> exp, genuine |-> TRUE]

\* A forgery that names a key, and a bearer that is no JWT with a key id.
Forged(k) == [Good(k, MaxTime) EXCEPT !.genuine = FALSE]
Opaque == Good(None, MaxTime)

RotationTokens == {Good(k1, MaxTime), Good(k2, 4), Forged(k2), Opaque}
OneToken == {Good(k1, MaxTime)}

Symmetry == Permutations(Requests)
=============================================================================
