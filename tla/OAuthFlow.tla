------------------------------ MODULE OAuthFlow ------------------------------
(***************************************************************************)
(* An authorization from discovery to token: the OAuth proxy of OAuthProxy *)
(* with its POST /token, between clients that learned its URLs from the    *)
(* metadata and Logto, which sees only the proxy's own callback.           *)
(*                                                                         *)
(* Logto is external: it binds a code to the redirect_uri, the resource    *)
(* and the PKCE challenge of the /auth request and redeems it once.  A     *)
(* code is named by the proxy state of the flow it was issued for.         *)
(***************************************************************************)
EXTENDS OAuthProxy, Discovery

CONSTANTS
    Written,        \* spellings of JMAP_MCP_RESOURCE_URL
    MaxExchanges    \* bound on POST /token requests

\* JMAP_MCP_RESOURCE_URL is "either the origin or an origin ending in /mcp"
\* (README.md:118), with or without trailing slashes.
ASSUME OAuthFlowAssumption ==
    /\ Origin \notin {"/", "mcp"}
    /\ \A raw \in Written :
          StripTrailingSlash(raw) \in {<<Origin>>, <<Origin, "/", "mcp">>}
    /\ MaxExchanges \in Nat
    /\ None \notin [challenge: Authorizers, redirect: {CallbackUrl(<<Origin>>)},
                    resource: {<<Origin>>}, status: {"asked", "code", "refused", "spent"}]

\* POST /token requests, in the order they arrive.
Exchanges == 1..MaxExchanges

VARIABLES
    url,        \* Config.resource_url
    logto,      \* Logto: proxy state -> the authorization it was asked for
    code,       \* the code each callback request carries, or None
    tk          \* the POST /token handlers

flowVars == <<url, logto, code, tk>>
allVars == <<now, lock, byState, byAge, issued, az, cb, url, logto, code, tk>>

FlowInit ==
    /\ Init
    /\ url \in {CanonicalResourceOrigin(raw) : raw \in Written}
    /\ logto = [s \in States |-> None]
    /\ code = [c \in Callbacks |-> None]
    /\ tk = [e \in Exchanges |-> [pc |-> "idle"]]

-----------------------------------------------------------------------------

\* register(): one client_id for everybody, if every URI is allowed.
RegisterAccepts(uris) ==
    \A uri \in uris : IsAllowedRedirectUri(AllowedRedirectUris, uri)

\* What Logto is asked for, whichever advertised spelling the client used.
Resources == {NormalizeResource(resource) : resource \in Spellings(url)}

\* authorize() after insert(): the query goes on to Logto with our callback,
\* our state and a normalized resource; PKCE and the rest stay as they are.
Forward(h) ==
    /\ InsertStore(h)
    /\ \E resource \in Resources :
          logto' = [logto EXCEPT ![az[h].state] =
             [challenge |-> h, redirect |-> CallbackUrl(url),
              resource |-> resource, status |-> "asked"]]
    /\ UNCHANGED <<url, code, tk>>

\* Logto, after the user's login: a code for the API resource it knows, which
\* is the origin; invalid_target for another.
LogtoIssue(s) ==
    /\ logto[s] # None /\ logto[s].status = "asked"
    /\ logto' = [logto EXCEPT ![s].status =
          IF logto[s].resource = <<Origin>> THEN "code" ELSE "refused"]
    /\ UNCHANGED <<now, lock, byState, byAge, issued, az, cb, url, code, tk>>

Codes == {s \in States : logto[s] # None /\ logto[s].status \in {"code", "spent"}}

\* callback(): the code in the query, if any, is what the client will be given;
\* nothing ties it to the state beside it.
Arrive(c) ==
    /\ CallbackArrive(c)
    /\ \E k \in Codes \cup {None} : code' = [code EXCEPT ![c] = k]
    /\ UNCHANGED <<url, logto, tk>>

\* The codes the client of flow h was called back with.
Knows(h) ==
    {code[c] : c \in {c \in Callbacks : cb[c].pc = "delivered"
                                         /\ cb[c].state = az[h].state}} \ {None}

\* Mutant: the client's own redirect_uri goes to Logto.
RedirectKept(uri) == uri

\* token(): Logto bound the code to our callback.
RewrittenRedirect(uri) == CallbackUrl(url)

NextExchange(e) == tk[e].pc = "idle" /\ \A f \in 1..(e - 1) : tk[f].pc # "idle"

\* token() up to send(), for an authorization_code grant: a redirect_uri must
\* be there and be allowed.
TokenRequest(e, h) ==
    /\ NextExchange(e)
    /\ \E k \in Knows(h) :
       \E uri \in {az[h].pending.uri, None} \cup Uris, resource \in Resources :
          tk' = [tk EXCEPT ![e] =
             [pc |-> IF MustRefuse(uri, None) THEN "refused" ELSE "relayed",
              by |-> h, code |-> k, uri |-> uri,
              redirect |-> RewrittenRedirect(uri),
              resource |-> resource, reply |-> None]]
    /\ UNCHANGED <<now, lock, byState, byAge, issued, az, cb, url, logto, code>>

Redeemed(k) == \E e \in Exchanges : /\ tk[e].pc \in {"replied", "answered"}
                                    /\ tk[e].reply = "token" /\ tk[e].code = k

\* The same for a refresh_token grant, which needs no redirect_uri.
RefreshRequest(e, h) ==
    /\ NextExchange(e)
    /\ az[h].pc = "redirected"
    /\ Redeemed(az[h].state)
    /\ \E resource \in Resources :
          tk' = [tk EXCEPT ![e] =
             [pc |-> "relayed", by |-> h, code |-> None, uri |-> None, redirect |-> None,
              resource |-> resource, reply |-> None]]
    /\ UNCHANGED <<now, lock, byState, byAge, issued, az, cb, url, logto, code>>

\* Logto's conditions on a code: unspent, and as it was asked for.
Redeemable(e) ==
    LET grant == logto[tk[e].code] IN
    /\ grant.status = "code"
    /\ grant.challenge = tk[e].by
    /\ grant.redirect = tk[e].redirect
    /\ grant.resource = tk[e].resource

LogtoToken(e) ==
    /\ tk[e].pc = "relayed"
    /\ \/ /\ tk[e].code # None /\ Redeemable(e)
          /\ logto' = [logto EXCEPT ![tk[e].code].status = "spent"]
          /\ tk' = [tk EXCEPT ![e].pc = "replied", ![e].reply = "token"]
       \/ /\ tk[e].code # None /\ ~ Redeemable(e)
          /\ tk' = [tk EXCEPT ![e].pc = "replied", ![e].reply = "invalid"]
          /\ UNCHANGED logto
       \/ /\ tk[e].code = None
          /\ tk' = [tk EXCEPT ![e].pc = "replied", ![e].reply =
                IF tk[e].resource = <<Origin>> THEN "token" ELSE "invalid"]
          /\ UNCHANGED logto
    /\ UNCHANGED <<now, lock, byState, byAge, issued, az, cb, url, code>>

\* token() after send(): Logto's status and body; its status alone, when the
\* body is lost (unwrap_or_default); or 502 when no response came, whether or not
\* Logto acted.
TokenAnswer(e) ==
    /\ \/ /\ tk[e].pc = "replied"
          /\ \E body \in {tk[e].reply, "empty"} :
                tk' = [tk EXCEPT ![e].pc = "answered", ![e].reply = body]
       \/ /\ tk[e].pc \in {"relayed", "replied"}
          /\ tk' = [tk EXCEPT ![e].pc = "failed"]
    /\ UNCHANGED <<now, lock, byState, byAge, issued, az, cb, url, logto, code>>

FlowNext ==
    \/ \E h \in Authorizers :
          \/ /\ \/ AuthorizeRefused(h) \/ AuthorizeStamp(h)
                \/ InsertLock(h) \/ InsertEvict(h)
             /\ UNCHANGED flowVars
          \/ Forward(h)
    \/ \E c \in Callbacks :
          \/ Arrive(c)
          \/ (CallbackTake(c) \/ CallbackFinish(c)) /\ UNCHANGED flowVars
    \/ Tick /\ UNCHANGED flowVars
    \/ \E s \in States : LogtoIssue(s)
    \/ \E e \in Exchanges :
          \/ \E h \in Authorizers : TokenRequest(e, h) \/ RefreshRequest(e, h)
          \/ LogtoToken(e) \/ TokenAnswer(e)

\* Handlers that have begun are polled until they are done, and a request to
\* Logto is answered or fails; browsers, users and Logto owe nothing else.
FlowFairness ==
    /\ \A h \in Authorizers :
          WF_allVars(((InsertLock(h) \/ InsertEvict(h)) /\ UNCHANGED flowVars) \/ Forward(h))
    /\ \A c \in Callbacks :
          WF_allVars((CallbackTake(c) \/ CallbackFinish(c)) /\ UNCHANGED flowVars)
    /\ \A e \in Exchanges : WF_allVars(TokenAnswer(e))

FlowSpec == FlowInit /\ [][FlowNext]_allVars /\ FlowFairness

-----------------------------------------------------------------------------
(* Properties                                                              *)

\* What each client has been given, for the abstract specification.
CalledBack ==
    [h \in Authorizers |-> Cardinality(
        {c \in Callbacks : cb[c].pc = "delivered" /\ cb[c].state = az[h].state})]
Granted ==
    [h \in Authorizers |-> Cardinality(
        {s \in States : logto[s] # None /\ logto[s].status = "spent"
                            /\ logto[s].challenge = h})]

Promise == INSTANCE AuthorizationGrant
    WITH Clients <- Authorizers, calledBack <- CalledBack, granted <- Granted

\* The proxy and Logto together keep the promise of AuthorizationGrant for every
\* client, through repeated and mixed-up callbacks, evictions, expiry, repeated
\* exchanges and lost responses: one callback, then one token, for the client
\* that asked.
ImplementsGrant == Promise!Spec

\* An exchange or refresh is refused only for cause: a client that sends the
\* redirect_uri and the code of its own flow, and any advertised spelling of the
\* resource, is refused only if the code was redeemed before; and no
\* authorization is refused for its resource.  The two rewritings of
\* redirect_uri, in authorize() and in token(), and those of `resource` agree.
HonestNotRefused ==
    /\ \A e \in Exchanges :
          \/ tk[e].pc = "refused"
          \/ tk[e].pc \in {"replied", "answered"} /\ tk[e].reply = "invalid"
          => /\ tk[e].code # None
             /\ \/ tk[e].uri # az[tk[e].by].pending.uri
                \/ tk[e].code # az[tk[e].by].state
                \/ logto[tk[e].code].status = "spent"
    /\ \A s \in States : logto[s] # None => logto[s].status # "refused"

\* A client that follows the challenge and the metadata finds a route at every
\* step, with the MCP endpoint itself as the advertised resource; what it sends
\* as resource reaches Logto as the audience that tokens are validated against;
\* and what /register accepts /authorize and /token accept too.  This holds for
\* every spelling of JMAP_MCP_RESOURCE_URL.
AdvertisedWorks ==
    /\ {Challenge(url), ServerMetadata(url), McpResource(url), CallbackUrl(url)}
          \cup Endpoints(url) \subseteq Routes
    /\ \A resource \in Spellings(url) : NormalizeResource(resource) = url
    /\ \A uris \in SUBSET Uris : RegisterAccepts(uris) =>
          \A uri \in uris : ~ MustRefuse(uri, None)

\* Every handler that has begun is answered: again and again there is a moment
\* when each authorization is forwarded or refused, each callback redirected or
\* refused, each exchange refused, relayed or failed.
FlowsFinish ==
    []<> /\ \A h \in Authorizers : az[h].pc \in {"idle", "refused", "redirected"}
         /\ \A c \in Callbacks : cb[c].pc \in {"idle", "delivered", "expired", "refused"}
         /\ \A e \in Exchanges : tk[e].pc \in {"idle", "refused", "answered", "failed"}
=============================================================================
