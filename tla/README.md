# TLA+ verification of jmap-mcp

jmap-mcp is an MCP server (Rust, axum and tokio) that lets an AI assistant work
in a user's mail account. Users sign in through Logto (OIDC), mail lives on
Stalwart and is reached over JMAP. The server keeps no database: all its state
is in memory, shared by concurrent requests, and most of it is a bounded map
behind a lock. This directory models that state and the mail tools, checks the
models with TLC on small instances, and proves all safety properties the passing
runs check with TLAPS for every value of the constants.

`PROJECT.json` lists components, runs, source lines per definition, mutants,
hazards, findings and theorems. Source paths below are relative to `src/src/`.

## 1. Inventory

| Component | State | Operations | What is hard | Correct when |
|---|---|---|---|---|
| OAuth proxy, `oauth_proxy.rs` | `by_state`, `by_age` (two indexes of one table, one mutex) | `GET /authorize` inserts a flow, `GET /oauth/callback` takes it, `POST /token` relays a form | flows are stamped before the mutex; eviction loop; repeated callbacks; age checked after the mutex | indexes agree, cap holds, a state is redeemed once, by a URI that was listed, for its own asker |
| Redirect URIs, `oauth_redirect.rs` | none | `is_allowed_redirect_uri` | the relaxed comparison for loopback clients | nothing unlisted passes except another loopback port |
| MCP session cap, `session.rs` | rmcp's sessions, a create gate | `create_session`, removals | count and insertion span two awaits in a future that may be dropped | cap holds, looks atomic, nobody waits for ever |
| Bearer validation, `logto_oidc.rs` | validation cache, JWKS cache, refresh mutex | `validate_token`, `drop_token` | single-flight refresh with a cooldown; failed and abandoned downloads; three expiry windows that add up | caches bounded, withdrawn keys die, downloads spaced, good tokens refused only for a reason |
| Middleware, `auth.rs` | none | `bearer_auth`, `app_password_auth` | admits app passwords from the JMAP session cache | see JMAP client |
| Last-used tracking, `last_used.rs`, `token_introspect.rs` | a record per bearer | `record`, `get`, `GET /token/introspect` | clock read before the lock; eviction; address picked out of a header the client can lengthen | bounded, records lost only to enough newer ones, the shown address is real |
| Rate limiting, `rate_limit.rs` | bucket maps per bearer and per subject | `check` | bucket fetched under the lock, charged after it | nobody above quota, nobody denied for others |
| JMAP client, `jmap_client.rs` | session cache | `session_for`, `account_id`, `call`, blobs, `evict` | discovery in flight races with an eviction | bounded, refusals stick, withdrawn credentials die |
| From address, `mcp.rs` | none | `owned_addresses`, `choose_from_address` | several sources, in the server's order | From personal and entitled, independent of the order |
| Write tools, `mcp.rs`, `mcp/*.rs` | the account on Stalwart | 30 tools | several requests per call, others in between, lost responses, credential refused half way | answers truthful, refusals sent nothing, every call ends |
| Audit mailbox, `audit_mailbox.rs` | designation per user | `set_audit_mailbox`, spawned notes | read when a call ends; skipped for some errors | a write leaves a note |
| Read tools, `mcp.rs`, `mcp/reads.rs` | none | 14 tools | other clients between the methods of a batch; lists in any order; methods Stalwart may lack; sizes that disagree | what is left out is left out for cause, downloads capped |
| Content sandbox, `content_sandbox.rs` | none | `evaluate`, `sanitize_external_text`, `external_text_is_suspicious` | thirteen passes over each other's output; the flag uses another marker table than the escape; fields are put together before they are escaped | no marker left in what is shown, the flag about exactly what is shown |
| Metadata, registration and URLs, `oauth_metadata.rs`, `config.rs`, `main.rs` | none | two metadata documents, the 401 challenge, `POST /register`, the routes | every URL derived from one setting that operators spell in several ways | what is advertised is served and accepted |
| URL safety, audit log, metrics, telemetry, startup | none | | | not modelled, section 8 |

How they interact: a client without a token follows the 401 challenge to the
metadata, registers, is sent through `/authorize` to Logto and back through
`/oauth/callback`, and exchanges its code at `/token`. Then the middleware authenticates a request (Logto validation or
an app password through the JMAP session cache) and records its use; an
`initialize` passes its limiter and the session cap; a tool call passes the
limiter, resolves its account and From address, talks to Stalwart through the
JMAP client, reacts to a refused credential by evicting the session and the
validation, and spawns an audit note.

## 2. Modules

| Module | Models | Remarks |
|---|---|---|
| `RedirectUri` | `oauth_redirect.rs` | predicates over a parsed URI |
| `OAuthProxy` (`MCOAuthProxy`, `OAuthFlow_proof`) | `/authorize`, `/oauth/callback` and their table | one action per stretch between lock, clock and await; extends `RedirectUri` |
| `Discovery` | every URL of this server: `config.rs`, `oauth_metadata.rs`, `main.rs` | pure operators; a URL is a sequence of pieces |
| `AuthorizationGrant` | abstract specification | a client is called back once, then granted one token |
| `OAuthFlow` (`MCOAuthFlow`, `OAuthFlow_proof`) | the whole authorization: metadata, registration, the proxy, `POST /token` | extends `OAuthProxy` and `Discovery`; Logto and the clients are external; `Promise == INSTANCE AuthorizationGrant` |
| `BoundedPool` | abstract specification | a capped pool, one atomic step per answer |
| `SessionCap` (`Admission_proof`) | `create_session`, closings, disconnects | `Pool == INSTANCE BoundedPool` states what it implements |
| `LogtoValidation` (`MCLogtoValidation`, `LogtoValidation_proof`) | `validate_token`, `decoding_key_for`, `refresh_jwks`, `cache_insert`, `drop_token` | Logto's key set is external and changes with time |
| `LastUsed` (`MCLastUsed`, `LastUsed_proof`) | `record`, `parse_client_ip`, introspection | |
| `RateLimit` (`MCRateLimit`, `Admission_proof`) | both limiters | governor's GCRA cell is external |
| `JmapSessions` (`MCJmapSessions`, `JmapSessions_proof`) | the session cache under middleware, tool calls and `verify_session` | composes `auth.rs`, `jmap_client.rs` and `react_to_auth_expiry` |
| `FromAddress` (`MCFromAddress`, `FromAddress_proof`) | From address and submission identity | pure operators; every input is an initial state, one step gives the answer; a filter is a sequence with `None` where it passes an element over |
| `MailTools` (`MCMailTools`, `MailTools_proof`) | all write tools, `spawn_audit`, `emit_audit_message` | Stalwart's methods are external, two other mail clients are the environment |
| `ContentSandbox` | `content_sandbox.rs` | a text is a sequence of lexemes; the escapes are the code's passes, in its order |
| `ReadTools` (`MCReadTools`, `ReadTools_proof`) | all read tools and `download_attachment` | extends `ContentSandbox`; Stalwart and the user's other clients are the environment |

State corresponds directly: a map is a function with `None` where there is no
entry, a lock held over several steps is a variable naming its holder, a
handler is a record of its program counter and the locals that live across a
step. A block of code without `await`, clock reading or lock hand-over is one
action. Comments that begin with "Mutant" mark operators that express a plausible bug; they
are used only to show that a property can fail.

In `MailTools` a call goes through `begun` (rate limit and parameter checks),
`listed` (mailboxes looked up by role), `ready` (quoted mail and From resolved),
`uploaded`, then the batch: one step per JMAP method, since other requests run
between the methods of a batch (RFC 8620, 3.10): `half`, `filing`, `replied`;
then it is `answered`. Account lookups that precede the first request are part
of the step that sends it, because they fail in the same ways.

In `ReadTools` one call is enough, since reading changes nothing. It goes through
`begun`, `queried` (the query of a batch, or `Thread/get`), `fetched`
(`Email/get`, the messages that still exist, in any order), then it is
`answered`; `found` is a download whose attachment was looked up. Mail is
delivered, moved and destroyed at any moment until then. A result keeps
the texts it shows, as shown, and its `suspicious` flag. A lexeme is
the largest piece the sandbox never takes apart (a bracket, a slash, the word
inside a marker in either case, an entity reference); `to` stands for `to` and
`cc`, `ref` for the three lists of message ids. Ids, keywords, dates and the
`type` of an attachment pass through unchanged and are left out.

In `OAuthFlow` the actions of `OAuthProxy` appear unchanged; `Forward` is
`InsertStore` with the redirect to Logto, `Arrive` is `CallbackArrive` with the
code in the query. Logto binds a code to the redirect URI, resource and PKCE
challenge it was asked with and redeems it once. A callback may carry any code
that was issued, since nothing ties the `code` to the `state` beside it.

## 3. Runs

Ten runs must pass, two must find a violation (section 6).

| Run | Bounds | Shows |
|---|---|---|
| `OAuthProxy` | 3 authorizations, 2 callbacks, cap 2, TTL 2, clock to 2, 6 URIs against an allowlist of 2 | `IndexAgree`, `PendingBounded`, `DeliveredToAsker`, `DeliveredToListed`, `SingleUse`, `FlowSurvives` |
| `OAuthFlow` | 2 clients, 2 callbacks, 2 exchanges, cap 1, TTL 1, clock to 1, a listed and an unlisted URI, 4 spellings of the server's URL | `ImplementsGrant`, `HonestNotRefused`, `AdvertisedWorks`, `FlowsFinish` |
| `SessionCap` | 4 requests, cap 2 | `CapRespected`, `ImplementsPool`, `RequestsAnswered` |
| `LogtoRotation` | 2 requests, 2 keys with a rotation, genuine, forged and opaque bearers, cache of 1, clock to 6 | `CacheWithinExpiry`, `RetiredKeyDies`, `RefreshSpaced`, `RefusalExplained`, `RequestsAnswered` |
| `LastUsed` | 4 requests, 3 bearers, map of 2, one forged header entry | `RecordSurvives`, `ShownIsReal` |
| `RateLimit` | 3 calls, tool writes and initializes, 3 bearers of 2 subjects, maps of 1, quota 2 and 1, clock to 2 | `SubjectWithinQuota`, `DeniedOnlyAfterBurst`, types |
| `JmapSessions` | 2 requests that repeat, 2 credentials that are both withdrawn, cache of 1, clock to 4 | `RefusalSticks`, `RevokedCredentialDies`, types |
| `FromAddress` | up to 2 identities, 3 kinds of principal list, declared addresses, claims and arguments: every combination | `FromIsEntitled`, `OrderIrrelevant`, `IdentityFits` |
| `MailTools` | any write tool beside one emptying, mailbox deletion or designation; 2 messages, 6 mailboxes, batches of 1 | `AnswerIsTruthful`, `EmptiedForSure`, `RefusedMeansUnsent`, `SentCopyFiled`, `UnauditedOnlyByExpiry`, `CallsAnswered` |
| `ReadTools` | any read tool; 3 messages, one of them with any of 10 contents; 2 mailboxes and one that does not exist; limits 1 and 3 with a cap of 2; a server with and without the optional methods; all texts of up to 5 lexemes of the wrapper's alphabet and of up to 4 of the role tokens' | `Sandboxed`, `FlagIsExact`, `LeftOutForCause`, `DownloadCapped`, `EscapeSound` |

The type invariants of `OAuthProxy`, `RateLimit` and `JmapSessions` are proved too;
the latter two contain the bounds of their maps and are checked in the runs as
well. The other modules prove their types inside the invariants of section 5.

Why the bounds are enough. Every cap is one or two with at least one more
contender than fits, so eviction, refusal and replacement all happen. A race
that matters is between two actors (a refresh and a validation, a discovery and
an eviction, an emptying and a deletion); a third is added where the fate of a
bystander is the question (a table of two and three flows, a map of two and
three bearers). Clocks run long enough for every window to open and to close:
in `LogtoRotation` past download, key set and validation one after another. In
`MailTools` a batch of one message means that two messages need two batches,
and the loop is crossed by arrivals and rescues. In `OAuthFlow` two clients
share a table of one, so a flow is evicted, expires or is finished with the
other's code, and two exchanges are an exchange and its repetition. In `ReadTools` two messages of
three were received in the same second, so ties are broken either way, and each
content puts a marker into another field, completes one by putting name and
address together, has one cut by the body limit, or writes a marker's escape as it
stands, which looks like an escaped marker and is not suspicious. The longest marker is four
lexemes, so texts of five hold every overlap of a marker with one more lexeme. Time bounds (`MaxTime`) only
cut off the ends of behaviours. Deadlock checking is off in all of them: a
bounded set of one-shot requests ends, and so does the clock.

Symmetry sets are used only in runs that check invariants and action
properties over interchangeable requests, never with liveness.

## 4. Fairness

Safety is checked and proved without fairness. Liveness is checked with weak
fairness of the steps of a request that has begun and of nothing else:

- `OAuthFlow`: steps inside the handlers of `/authorize` and `/oauth/callback`,
  which have no await and hold their mutex for a bounded time; and the end of a
  `/token` request, whose HTTP client has a timeout of 10 s. Neither Logto nor a
  user owes anything.
- `SessionCap`: a request waiting for or holding the gate; tokio's mutex is
  fair, and the inner `create_session` ends.
- `LogtoRotation`: steps of a validation; the HTTP client has a timeout, so a
  download answers or fails.
- `MailTools`: steps of a tool call and of a spawned note; each request has a
  30 s timeout and tokio polls what is ready.

Nobody owes an arrival, a disconnect, a delivery, a rescue or a tick.
`CallsAnswered` also rests on finitely many messages arriving: `empty_mailbox()`
has no bound on its batches, and a mailbox that fills as fast as it is emptied
keeps it going.

## 5. Proofs

| Theorem | Statement | Assumptions, beside the module's own |
|---|---|---|
| `OAuthFlow_proof`, the proxy: `TypeCorrect` | `Spec => []TypeOK` | |
| `IndexesAgree` | `Spec => []IndexAgree` | |
| `TableBounded` | `Spec => []PendingBounded` | |
| `ReachesListed` | `Spec => []DeliveredToListed` | |
| `RedeemedOnce` | `Spec => []SingleUse` | `~ AllowCollision` |
| `ReachesAsker` | `Spec => []DeliveredToAsker` | `~ AllowCollision` |
| `Survives` | `Spec => []FlowSurvives` | `~ AllowCollision` |
| the composition: `FlowIsProxy` | `FlowSpec => Spec` | |
| `FlowKeepsTable` | `FlowSpec => []` of the six safety properties of the proxy | `~ AllowCollision` |
| `DiscoveryWorks` | `FlowSpec => []AdvertisedWorks` | |
| `HonestServed` | `FlowSpec => []HonestNotRefused` | `~ AllowCollision` |
| `KeepsPromise` | `FlowSpec => ImplementsGrant` | `~ AllowCollision` |
| `Admission_proof`, the session cap: `CapHolds` | `SessionSpec => []CapRespected` | |
| `CreateLooksAtomic` | `SessionSpec => ImplementsPool` | |
| `LogtoValidation_proof`: `CacheBounded` | `Spec => []CacheWithinExpiry` | |
| `WithdrawnKeyDies` | `Spec => []RetiredKeyDies` | |
| `DownloadsSpaced` | `Spec => RefreshSpaced` | |
| `RefusalsExplained` | `Spec => RefusalExplained` | |
| `LastUsed_proof`: `RecordsKept` | `Spec => []RecordSurvives` | |
| `RealShown` | `Spec => []ShownIsReal` | `TrustedProxyHops \in {0, ProxyHops}` |
| `Admission_proof`, the limiters: `LimitersTyped` | `Spec => []TypeOK` | |
| `DeniedForOwnCalls` | `Spec => []DeniedOnlyAfterBurst` | |
| `SubjectsHeldToQuota` | `Spec => []SubjectWithinQuota` | |
| `JmapSessions_proof`: `SessionsTyped` | `Spec => []TypeOK` | |
| `RefusalsStick` | `Spec => []RefusalSticks` | |
| `RevokedDies` | `Spec => RevokedCredentialDies` | |
| `MailTools_proof`: `Truth` | `Spec => []AnswerIsTruthful` | |
| `RefusalsSendNothing` | `Spec => []RefusedMeansUnsent` | |
| `Audited` | `Spec => []UnauditedOnlyByExpiry` | |
| `Emptied` | `Spec => []EmptiedForSure` | |
| `CopyFiled` | `Spec => []SentCopyFiled` | |
| `ReadTools_proof`: `EscapesEveryText` | `EscapeSoundFor(Text)` | |
| `EscapesAreSound` | `Spec => []EscapeSound` | |
| `ShownIsSandboxed` | `Spec => []Sandboxed` | |
| `FlagsAreExact` | `Spec => []FlagIsExact` | |
| `NothingLeftOutWithoutCause` | `Spec => []LeftOutForCause` | |
| `DownloadsAreCapped` | `Spec => []DownloadCapped` | |
| `FromAddress_proof`: `FromAlwaysEntitled` | `Spec => []FromIsEntitled` | |
| `OrderNeverMatters` | `Spec => []OrderIrrelevant` | |
| `IdentityAlwaysFits` | `Spec => []IdentityFits` | |

A module's own assumptions are the `ASSUME` of the module it is about; section 7
says where the code justifies them. Nothing bounds the number of requests,
clients, keys or messages in them, the length of a text or of a list, except that
mail calls, messages and mailboxes are finitely many. `MaxTime` is any number.

`OAuthFlow_proof`, the proxy. The cap is not inductive: `insert()` evicts the first entry
of `by_age` and believes that this shrinks `by_state`. `TableInv` therefore
joins the types, the locals a handler has set by each step, agreement of the
indexes, finiteness of the table and the cap. The lemmas say what removing and
storing a flow do to the set of live states; a least stamp exists in every
non-empty index, so the loop always finds an entry. For the flows themselves
`FlowInv` adds that no two requests were given the same random value, that every
value in use was drawn, that every stored or taken flow has an asker with the
same URI and state, and that a taken flow is no longer in the table. The
theorems about the flows assume that 192-bit random values do not repeat, as the
runs do; the first four of the table do not, and so cover the branch of `insert()`
that replaces a flow. `ReachesListed` follows a URI from `authorize()` through the table to the
callback (`AllowedInv`) and shows of the comparison itself that what passes is
listed or differs from a listed loopback URI in its port alone. `Survives` needs
`SurviveInv`: every redirected client has one of the four fates, and finitely many
handlers have come. The step that matters is an eviction: the table is full, so by a
surjection from rivals to live states there are `PENDING_CAP` of them, and the
victim's stamp is the least.

`OAuthFlow_proof`, the composition. Every step of the composition is a step of the proxy or leaves
its variables alone, so `OAuthFlow` implements `OAuthProxy` with the identity as
mapping, and the theorems carry over. `DiscoveryWorks` rests on `StripResult`:
what the recursive `strip_trailing_slash` returns for every sequence, by
taking the least length for which it would fail. `HonestServed` needs
`GrantInv`: every code that is anywhere was issued for a state that was asked,
with the challenge of the one client that has this state. `KeepsPromise` maps a
client to the number of its delivered callbacks and of its codes that were redeemed;
both are shown to be at most one, and each step of the flow to be the abstract
step or a stutter.

`Admission_proof`, the session cap. The cap needs two strengthenings: whoever counts or creates
holds the gate, and whoever has seen room still has it, because between count
and insertion sessions can only be removed. For the refinement, an answer of
`create_session()` is the atomic step: a refusal happens when the count is read,
a creation when rmcp inserts.

`LogtoValidation_proof`. A withdrawn key dies in three windows, one after another,
and each part of `ValidInv` carries one: a download under way started before the
withdrawal and is within its timeout (`CallsInv`), the key set was stored within
that window (`KeysInv`), a cached validation was made within the life of the key
set (`CacheInv`). `RefusalExplained` needs two more: whoever rechecks or downloads
holds the mutex, so that `attemptedAt` is the start of the only download
(`MutexInv`); and a key that a stored set lacks was withdrawn, or published after
the download began (`CompleteInv`). That a stale set is refreshed before it can
explain a refusal uses the order of the constants in the code: download timeout
below the cooldown, cooldown not above the life of a key set.

`LastUsed_proof`. A record is traced to a use (`Traced`), and a bearer that was
used and has no record has been crowded out (`LostForCause`). The overwrite is
unconditional and clocks are read before the lock, so stored stamps may go
backwards; what survives is that the evicted record was the oldest in a full map,
whose other records are stamps of uses that are not older. `ClientFound` shows for
every header that counting the trusted hops from the right gives the address the
first proxy saw.

`Admission_proof`, the limiters. `MapsInv` says that a bucket belongs to one category and key,
that of the call it was made for, in the map and in the calls that fetched it, so
a call never charges a bucket of others, evicted or not. `BucketInv` is the
arithmetic of GCRA, against the calls charged after any moment `t`: the arrival
time is not later than they account for (`Accounted`, whence a denial proves a
burst), not earlier than a period per call (`Advanced`), and therefore the calls
in any interval fit (`Fits`). `SubjectInv` adds that a subject's calls share one
bucket, the one its map has, unless as many other subjects as the map has room
for have come: an eviction happens in a full map, for a subject that is not in it.

`JmapSessions_proof`. The property `RefusalSticks` speaks of a quiet moment only;
what is inductive is `StickInv`: while a session outlives a refusal, some request
of the credential is still to end. For withdrawn credentials, a session that is
being stored or is cached was served before the withdrawal and stored within the
timeout (`RequestInv`, `EntryInv`).

`MailTools_proof`. `ToolsInv` is per call: what it knows at each step about the
records changed for it (`CallInv`), that the ids it will create are unused
(`FreshInv`), that what an emptying destroyed stays destroyed (`GoneInv`), that a
message seen in the mailbox is still there or was changed by somebody
(`HeldInv`), that the draft is as it was created until the submission files it
(`CopyInv`), and that a designation is replaced and never lost (`AuditInv`). The
lemma `OthersKept` shows once that a step of another call or client keeps all of
it, since calls touch disjoint records apart from messages, and messages are
covered by `Touched`. The number a tool reports is proved equal to a
cardinality, batch by batch.

`ReadTools_proof`. The passes of `escape_injection_markers` are a fold of a recursive
function. Both are replaced by their defining equations, whose solutions are shown
to exist (`FoldSolution`), and where the argument is an induction, over the passes
or along a text, it takes the least counterexample (`LeastNatural`). `Replace`
changes nothing but the brackets of an occurrence, into entity references, and the case
of its words; every needle has one opening bracket, at its start, so occurrences do not
overlap, and no later pass can put a needle together again; that is
`EscapesEveryText`. For the tools, each result is `Explained`: it shows escapes and
wrappings of some texts of one message, and its flag is about those texts.
`ReadInv` describes the account and a call up to its answer: the ids of a query are a
page of what the mailbox held (`QueryInv`), the list that was fetched holds the ids
that lived on, in any order, and an attachment that was found is on the message named
(`DownloadInv`). The properties speak of answers only, so they are shown of the step
that answers, tool by tool; nothing happens after it. For a list that
is sorted and then cut, a full limit of others comes before whatever is left out,
because sorting only rearranges it (`SortedIsArranged`, `CutFacts`). TLC checked `ReadInv` on the instance of the run before it was proved.

`FromAddress_proof`. The loops of `owned_addresses` are a fold, treated like the passes
above: `MergeForm` says that the identities come first and as listed, and that what is
appended has no identity and an address that no identity has. `ChooseForm` then says
what `choose_from_address` answers in terms of the set of owned addresses and the set
of the identities' addresses alone. `OrderNeverMatters` follows, because another order
of the identities (an injection of a finite set of indices into itself misses none)
and reversed aliases leave the two sets as they are; `FromAlwaysEntitled`, because
each owned address is traced to an identity, an enabled alias of the first principal
with the caller's name, or an entry declared for the authenticated account; and
`IdentityAlwaysFits`, because the first record found with an address is its identity
if it has one. `FromInv` only adds that the server started, so the declared addresses
are well-formed, and that an answer is what its tool computes.

What is only model-checked: liveness (`FlowsFinish`, `RequestsAnswered`,
`CallsAnswered`), which is out of the prover's reach. The two runs that expect a
violation show counterexamples, and need no proof.

## 6. Findings

- `MailToolsAudit`, `EveryWriteAudited`. An emptying whose second batch meets a
  401 has destroyed messages and leaves no note (`mcp.rs:1876`), where
  `set_audit_mailbox` promises notes "for every write this server makes".
  `UnauditedOnlyByExpiry` shows that a credential lost between two requests, of an
  emptying or of a call that uploads first, is the only way.
- `ReadToolsHtml`, `HtmlNullMeansNone`. `extract_html_body` follows the first part
  of `htmlBody` whatever its type (`mcp.rs:803`). RFC 8621, 4.1.4, lists the text
  part of a text-only mail there, so `body_html` is that text, where the
  description of `read_email` (`mcp.rs:1346-1348`) says "null means no HTML part,
  never a fallback to the text".

Remarks of the same kind that the models make visible without a run of their own:

- A good token is answered `Ok(None)`, hence `401 invalid_token`, while another
  request's first JWKS download is under way or after it failed
  (`logto_oidc.rs:297`), where lines 171-174 list only defects of the token.
  `RefusalExplained` states exactly when it happens.
- `verify_session` answers from the session cache (`mcp/profile.rs:585`), where its
  description promises "re-fetching the JMAP session resource".
  `RevokedCredentialDies` bounds the delay. It also answers `authenticated` for a
  session without an owner (`mcp/profile.rs:590`), where `jmap_client.rs:164-165`
  says to ask `is_authenticated` first; the theorem is therefore about sessions with
  an owner.
- `POST /token` passes on Logto's status with an empty body when the body is lost
  (`oauth_proxy.rs:286`): the client sees a success without a token, and the code
  is spent.
- `list_recent_emails` is described as "newest first" (`mcp.rs:1241`) and keeps the
  order of `Email/get`, which RFC 8620, 5.1, leaves to the server; only the choice
  of the messages is by age. `read_thread` sorts by itself.
- `attr_escape` leaves square brackets alone, so `[INST]` in a sender's name stands
  in the wrapper's `from` attribute; `from` itself is escaped. `Sandboxed` says
  that no angle-bracket token and no delimiter is left there.
- `get_profile` shows another identity when the default From is an alias.
- `logto_oidc.rs:31-33` says the TTL lets a revocation propagate; once the entry
  has gone, local verification accepts the token again until `exp`.
- `last_used.rs:88` reads the clock before the lock and overwrites
  unconditionally, so an older stamp can be stored last.
- `mcp.rs:139-140` says the next call re-discovers; a discovery that was under
  way stores its session after the eviction, and the next call uses it.
  `RefusalSticks` and `RevokedCredentialDies` say what remains true.
- `last_used.rs:54-55` speaks of the leftmost header entry; `parse_client_ip`
  counts from the right, which is what `ShownIsReal` needs.

## 7. Assumptions of the models

- Synchronous code takes no time; time passes while somebody waits.
- The configured number of proxy hops is the real one, or 0, which `config.rs:539`
  allows and which records no address (`LastUsed`).
- The timeout of a JWKS download is below the refresh cooldown, and that is not above
  the life of a key set: 5 s, 30 s and 1 h (`logto_oidc.rs:43`, `46`, `156`).
- The redirect allowlist passed `parse_allowlist` (`oauth_redirect.rs:16`).
- `JMAP_MCP_RESOURCE_URL` is spelled as the repository's `README.md:118` says: the
  origin or its `/mcp`, with or without trailing slashes.
- Calls and messages are finitely many (`MailTools`), and the ids Stalwart gives to
  what a call creates are new.
- `jsonwebtoken`'s signature and claim checks are one predicate of a token with
  a leeway; governor's cell is its published algorithm; rmcp's session manager
  creates or fails.
- Every caller of a limiter passes a subject; reads and writes have disjoint maps
  and the same code, so the run has writes, beside the initialize limiter.
- An address stands for all its spellings that the code considers equal. `None` and
  an error are no addresses (`FromAddress`): Rust's types keep them apart.
- A text is any finite sequence of lexemes, among them those of the marker tables;
  messages and mailboxes are finitely many, sizes, limits and times are naturals, and
  `None` is none of them (`ReadTools`).
- Stalwart may refuse any record, applies a batch in order, refuses a mailbox
  that is gone and a credential that was withdrawn, and may lose any response.
- A poisoned lock is not modelled: no code panics while it holds one.
  `restore_session` is not modelled: no session store is configured.
- Attachments are one blob per call; further ones fail or succeed like the first.
  Counters are unbounded naturals where the code saturates.
- The account does not change after the answer of a read (`ReadTools`): the
  properties compare an answer with the account it was made from.
- A governor cell that was idle grants one call more than its burst within a period,
  as its algorithm does.

## 8. Not modelled

- `url_safety.rs`: which addresses and URLs are public is a stateless classification
  of IP ranges; the tools only use that a URL may be refused, which is a failure
  of the step in `MailTools`. The addresses that were checked are pinned into the
  client that connects, so no second lookup can differ.
- `audit.rs`, `metrics.rs`, `telemetry.rs`: nothing reads what they write.
- Reading and validating environment variables (`config.rs`) other than
  `JMAP_MCP_RESOURCE_URL` and the declared addresses: it happens once, before
  anything is shared, and its results are the constants of the modules.
- Startup, shutdown and the metrics listener (`main.rs`): no request sees their
  state.
- Scopes, grant types and methods in the metadata documents: constant lists.
- Bodies a user writes, quoting, paging offsets, keywords, dates and formatting: data
  no property tells apart.

## 9. Plan

Done in this order: `OAuthProxy` and its proof, `SessionCap` and its refinement,
`LogtoValidation`, `JmapSessions`, `RateLimit`, `LastUsed`, `FromAddress`,
`MailTools`; then `Discovery`, `AuthorizationGrant` and `OAuthFlow` with its proof,
`ContentSandbox` and `ReadTools`; then the proofs of `LogtoValidation`,
`JmapSessions`, `MailTools`, the rest of `OAuthProxy` and `OAuthFlow`, `LastUsed`
and `RateLimit`, and last of `ReadTools` with `ContentSandbox` and of `FromAddress`.

Next, models: `Gateway`, composing `bearer_auth`, the initialize limiter, the session
cap, a tool call, `react_to_auth_expiry` and `drop_token`, for what a client sees
when a credential dies half way.
