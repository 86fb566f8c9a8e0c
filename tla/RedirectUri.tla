----------------------------- MODULE RedirectUri -----------------------------
(***************************************************************************)
(* Redirect URI validation shared by the OAuth proxy and the DCR shim      *)
(* (src/oauth_redirect.rs).  A URI is a record of the components the code  *)
(* looks at; "clean" stands for the textual checks of the parsed URL (no   *)
(* surrounding whitespace, no fragment, no user info).                     *)
(***************************************************************************)

CONSTANTS
    LoopbackHosts   \* localhost, 127.0.0.1, [::1]

\* No host in the URL (Url::host_str() is None).
NoHost == "no host"

ValidateRedirectUri(uri) ==
    /\ uri.clean
    /\ uri.scheme = "https" => uri.host # NoHost
    /\ uri.scheme = "http" => uri.host \in LoopbackHosts

\* Mutant: any path on a listed loopback host.
LoopbackHostMatches(configured, candidate) ==
    /\ configured.scheme = "http"
    /\ candidate.scheme = "http"
    /\ configured.host \in LoopbackHosts
    /\ configured.host = candidate.host

\* Everything but the port is pinned, and only for cleartext loopback.
LoopbackRedirectMatches(configured, candidate) ==
    /\ configured.scheme = "http"
    /\ candidate.scheme = "http"
    /\ configured.host \in LoopbackHosts
    /\ configured.host = candidate.host
    /\ configured.path = candidate.path
    /\ configured.query = candidate.query

IsAllowedRedirectUri(allowed, uri) ==
    /\ ValidateRedirectUri(uri)
    /\ \E configured \in allowed :
          \/ configured = uri
          \/ LoopbackRedirectMatches(configured, uri)

=============================================================================
