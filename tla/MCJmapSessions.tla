--------------------------- MODULE MCJmapSessions ----------------------------
EXTENDS JmapSessions, TLC

CONSTANTS p1, p2

\* p1 is revoked at 1, p2 at 2.
MCRevokedAt == [c \in Credentials |-> IF c = p1 THEN 1 ELSE 2]

\* p1 is an app password, p2 a bearer that expires at 2.
MCExpiresAt == [c \in Credentials |-> IF c = p1 THEN None ELSE 2]

Symmetry == Permutations(Requests)
=============================================================================
