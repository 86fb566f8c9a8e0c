---------------------------- MODULE MCOAuthProxy -----------------------------
EXTENDS OAuthProxy, TLC

\* One remote and one loopback entry; a loopback client on another port, and
\* URIs that must be refused.
Remote == [scheme |-> "https", host |-> "claude.ai", port |-> 443,
           path |-> "/cb", query |-> "", clean |-> TRUE]
Native == [scheme |-> "http", host |-> "localhost", port |-> 80,
           path |-> "/cb", query |-> "", clean |-> TRUE]
MCAllowed == {Remote, Native}
MCUris == {[Native EXCEPT !.port = 5000], [Native EXCEPT !.path = "/x"],
           [Native EXCEPT !.query = "q"], [Native EXCEPT !.clean = FALSE],
           [Remote EXCEPT !.host = "other.example"], [Remote EXCEPT !.scheme = "http"]}
MCLoopbackHosts == {"localhost", "127.0.0.1", "::1"}

Symmetry == Permutations(Authorizers) \cup Permutations(Callbacks)
                \cup Permutations(States)
=============================================================================
