---------------------------- MODULE MCOAuthFlow ----------------------------
EXTENDS OAuthFlow

\* A native client on a port of its own, and a URI nobody listed.
Native == [scheme |-> "http", host |-> "localhost", port |-> 80,
           path |-> "/cb", query |-> "", clean |-> TRUE]
MCAllowed == {Native}
MCUris == {[Native EXCEPT !.port = 5000], [Native EXCEPT !.path = "/x"]}
MCLoopbackHosts == {"localhost"}

MCWritten ==
    {<<Origin>>, <<Origin, "/">>, <<Origin, "/", "mcp">>, <<Origin, "/", "mcp", "/">>}
=============================================================================
