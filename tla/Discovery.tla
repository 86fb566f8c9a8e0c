------------------------------ MODULE Discovery ------------------------------
(***************************************************************************)
(* The URLs of this server: what the operator writes in                    *)
(* JMAP_MCP_RESOURCE_URL (src/config.rs), what the metadata documents and  *)
(* the 401 challenge make of it (src/oauth_metadata.rs), what the OAuth    *)
(* proxy sends on to Logto (src/oauth_proxy.rs), and the routes that are   *)
(* mounted (src/main.rs).  A URL is the sequence of its pieces; Origin is  *)
(* scheme and host in one piece.                                           *)
(***************************************************************************)
EXTENDS Integers, Sequences, SequencesExt

CONSTANT Origin

\* strip_trailing_slash() and trim_end_matches('/')
StripTrailingSlash(url) ==
    LET rest[n \in 0..Len(url)] ==
          IF n > 0 /\ url[n] = "/" THEN rest[n - 1] ELSE SubSeq(url, 1, n)
    IN rest[Len(url)]

EndsInMcp(url) == Len(url) >= 2 /\ url[Len(url) - 1] = "/" /\ url[Len(url)] = "mcp"
WithoutMcp(url) == SubSeq(url, 1, Len(url) - 2)

\* Mutant: a configured `/mcp` is kept.
AsWritten(raw) == StripTrailingSlash(raw)

\* canonical_resource_origin(): `/mcp` goes if an origin remains.
CanonicalResourceOrigin(raw) ==
    LET trimmed == StripTrailingSlash(raw) IN
    IF /\ EndsInMcp(trimmed)
       /\ Len(trimmed) > 2 /\ Last(WithoutMcp(trimmed)) # "/"
    THEN WithoutMcp(trimmed) ELSE trimmed

\* normalize_resource(): the `resource` parameter on its way to Logto.
NormalizeResource(v) ==
    LET trimmed == StripTrailingSlash(v) IN
    IF EndsInMcp(trimmed) THEN WithoutMcp(trimmed) ELSE trimmed

\* mcp_resource(): the `resource` of the protected-resource metadata.
McpResource(url) == StripTrailingSlash(url) \o <<"/", "mcp">>

\* challenge(): where a 401 sends the client.
Challenge(url) ==
    StripTrailingSlash(url) \o <<"/", ".well-known/oauth-protected-resource", "/", "mcp">>

\* ProtectedResourceMetadata.authorization_servers, and the document a client
\* derives from it.
AuthorizationServer(url) == url
ServerMetadata(url) ==
    AuthorizationServer(url) \o <<"/", ".well-known/oauth-authorization-server">>

\* The endpoints of AuthorizationServerMetadata; the third with a DCR client.
Endpoints(url) == {url \o <<"/", leaf>> : leaf \in {"authorize", "token", "register"}}

\* OAuthProxyState::new()
CallbackUrl(url) == StripTrailingSlash(url) \o <<"/", "oauth/callback">>

\* build_router(): the routes, as URLs.
Routes ==
    {<<Origin, "/", leaf>> :
        leaf \in {"mcp", "authorize", "token", "register", "oauth/callback",
                  ".well-known/oauth-protected-resource",
                  ".well-known/oauth-authorization-server"}}
    \cup {<<Origin, "/", ".well-known/oauth-protected-resource", "/", "mcp">>}

\* What clients send as `resource`: the advertised one, or the issuer with or
\* without a slash.
Spellings(url) == {McpResource(url), url, url \o <<"/">>}
=============================================================================
