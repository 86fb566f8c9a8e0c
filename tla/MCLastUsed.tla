----------------------------- MODULE MCLastUsed ------------------------------
EXTENDS LastUsed, TLC

Symmetry == Permutations(Requests) \cup Permutations(Hashes) \cup Permutations(Addresses)
=============================================================================
