--------------------------- MODULE LogtoValidation ---------------------------
(***************************************************************************)
(* Bearer validation against Logto (src/logto_oidc.rs): the positive       *)
(* validation cache, the JWKS cache and its single-flight, rate-limited    *)
(* refresh, used by concurrent requests while Logto rotates its keys.      *)
(*                                                                         *)
(* validate_token() runs from one await to the next: the wait for the      *)
(* refresh mutex and the JWKS download.  A request whose client goes away  *)
(* is dropped at either, and the mutex is released.  Between awaits the    *)
(* code is synchronous and takes no time; the cache and JWKS locks are     *)
(* taken and released one after another, so other requests run in between. *)
(***************************************************************************)
EXTENDS Integers, FiniteSets

CONSTANTS
    Requests,           \* concurrent requests, each carrying a bearer
    Kids,               \* key ids Logto signs with
    PublishedFrom,      \* when Logto puts each key into its JWKS ...
    PublishedUntil,     \* ... and when it takes it out again
    Tokens,             \* bearers: [kid, exp, genuine]
    MaxCacheTTL,        \* MAX_CACHE_TTL
    CacheCap,           \* CACHE_CAP
    JwksTTL,            \* JWKS_TTL
    MinRefresh,         \* JWKS_MIN_REFRESH_INTERVAL
    FetchTimeout,       \* timeout of the reqwest client
    Leeway,             \* leeway of jsonwebtoken's exp check
    MaxTime,            \* bound on the clock
    None

Time == Nat

ASSUME LogtoAssumption ==
    /\ PublishedFrom \in [Kids -> Time]
    /\ PublishedUntil \in [Kids -> Time]
    /\ Tokens \subseteq [kid: Kids \cup {None}, exp: Time, genuine: BOOLEAN]
    /\ MaxCacheTTL \in Nat \ {0} /\ CacheCap \in Nat \ {0}
    /\ JwksTTL \in Nat \ {0} /\ MinRefresh \in Nat \ {0}
    /\ FetchTimeout \in Nat /\ Leeway \in Nat /\ MaxTime \in Nat
    /\ FetchTimeout < MinRefresh /\ MinRefresh <= JwksTTL   \* 5 s, 30 s, 1 h
    /\ None \notin Nat /\ None \notin Kids /\ None \notin Requests
    /\ None \notin Tokens

VARIABLES
    now,            \* the clock (Instant and Unix time)
    keys,           \* JwksCache.keys
    fetchedAt,      \* JwksCache.fetched_at
    attemptedAt,    \* JwksCache.refresh_attempted_at
    refresher,      \* the request holding jwks_refresh, or None
    cache,          \* expires_at of each cached validation; None if not cached
    rq              \* the validate_token() calls

jwks == <<keys, fetchedAt, attemptedAt>>
vars == <<now, keys, fetchedAt, attemptedAt, refresher, cache, rq>>

\* Answers: Ok(Some), Ok(None), Err; "dropped" has no one to answer.
Answered == {"accepted", "refused", "unavailable", "dropped"}

\* The steps the code runs through without an await.
Synchronous == {"status", "recheck", "verify"}

Cached == {t \in Tokens : cache[t] # None}

Init ==
    /\ now = 0
    /\ keys = {}
    /\ fetchedAt = None
    /\ attemptedAt = None
    /\ refresher = None
    /\ cache = [t \in Tokens |-> None]
    /\ rq = [r \in Requests |-> [pc |-> "idle", token |-> None, since |-> 0,
                                 snap |-> {}, at |-> 0]]

-----------------------------------------------------------------------------
(* What the caches say                                                     *)

\* Logto's JWKS document: the key ids, and a key that has none.
Published ==
    {k \in Kids : PublishedFrom[k] <= now /\ now < PublishedUntil[k]} \cup {None}

\* refresh_jwks() keeps the keys that have an id.
Identified(set) == set \ {None}

\* cache_lookup()
CacheHit(t) == IF cache[t] = None THEN FALSE ELSE cache[t] > now

Elapsed(t, d) == IF t = None THEN TRUE ELSE now - t >= d

\* Mutant: a key set that was fetched once is good for ever.
EverFetched(t) == t # None

Fresh(t) == t # None /\ ~ Elapsed(t, JwksTTL)

\* Mutant: the check made before the mutex is trusted.
KeyOrRefresh(kid) == IF Fresh(fetchedAt) /\ kid \in keys THEN "Key" ELSE "Refresh"

\* Mutant: the cooldown is looked at before the keys.
CooldownFirst(kid) ==
    IF ~ Elapsed(attemptedAt, MinRefresh) THEN "Cooldown"
    ELSE IF Fresh(fetchedAt) /\ kid \in keys THEN "Key"
    ELSE "Refresh"

\* cached_key_status()
CachedKeyStatus(kid) ==
    IF Fresh(fetchedAt) /\ kid \in keys THEN "Key"
    ELSE IF ~ Elapsed(attemptedAt, MinRefresh) THEN "Cooldown"
    ELSE "Refresh"

\* cached_key_status() once more, under the mutex.
RecheckedKeyStatus(kid) == CachedKeyStatus(kid)

\* decode(): signature, algorithm, issuer, audience, and the expiry.
Decodes(t) == t.genuine /\ now <= t.exp + Leeway

-----------------------------------------------------------------------------
(* validate_token()                                                        *)

Goto(r, pc) == rq' = [rq EXCEPT ![r].pc = pc]
Answer(r, pc) ==
    rq' = [rq EXCEPT ![r].pc = pc, ![r].at = now, ![r].since = 0, ![r].snap = {}]

\* A request arrives: cache_lookup(), decode_header() and the `kid`.  An
\* answered request makes way for the next.
Arrive(r) ==
    /\ rq[r].pc \in {"idle"} \cup Answered
    /\ \E t \in Tokens :
          LET pc == IF CacheHit(t) THEN "accepted"
                    ELSE IF t.kid = None THEN "refused"
                    ELSE "status"
          IN rq' = [rq EXCEPT ![r].token = t, ![r].pc = pc,
                              ![r].at = IF pc \in Answered THEN now ELSE 0]
    /\ UNCHANGED <<now, jwks, refresher, cache>>

\* decoding_key_for(), without the mutex.
Status(r) ==
    /\ rq[r].pc = "status"
    /\ CASE CachedKeyStatus(rq[r].token.kid) = "Key" -> Goto(r, "verify")
         [] CachedKeyStatus(rq[r].token.kid) = "Cooldown" -> Answer(r, "refused")
         [] CachedKeyStatus(rq[r].token.kid) = "Refresh" -> Goto(r, "lockwait")
    /\ UNCHANGED <<now, jwks, refresher, cache>>

\* jwks_refresh.lock().await
AcquireRefresh(r) ==
    /\ rq[r].pc = "lockwait"
    /\ refresher = None
    /\ refresher' = r
    /\ Goto(r, "recheck")
    /\ UNCHANGED <<now, jwks, cache>>

\* decoding_key_for() under the mutex: the second look, and the attempt's
\* stamp before the download starts.
Recheck(r) ==
    LET status == RecheckedKeyStatus(rq[r].token.kid) IN
    /\ rq[r].pc = "recheck"
    /\ \/ /\ status = "Key"
          /\ Goto(r, "verify")
          /\ refresher' = None
          /\ UNCHANGED attemptedAt
       \/ /\ status = "Cooldown"
          /\ Answer(r, "refused")
          /\ refresher' = None
          /\ UNCHANGED attemptedAt
       \/ /\ status = "Refresh"
          /\ rq' = [rq EXCEPT ![r].pc = "fetching", ![r].since = now]
          /\ attemptedAt' = now
          /\ UNCHANGED refresher
    /\ UNCHANGED <<now, keys, fetchedAt, cache>>

\* Logto answers the GET with the keys it publishes at that moment.
Respond(r) ==
    /\ rq[r].pc = "fetching"
    /\ rq' = [rq EXCEPT ![r].pc = "receiving", ![r].snap = Published]
    /\ UNCHANGED <<now, jwks, refresher, cache>>

\* refresh_jwks() fails: transport error, timeout, non-2xx, bad JSON.
FetchFail(r) ==
    /\ rq[r].pc \in {"fetching", "receiving"}
    /\ Answer(r, "unavailable")
    /\ refresher' = None
    /\ UNCHANGED <<now, jwks, cache>>

\* refresh_jwks() stores what it received; the kid is looked up in it.
Store(r) ==
    /\ rq[r].pc = "receiving"
    /\ keys' = Identified(rq[r].snap)
    /\ fetchedAt' = now
    /\ refresher' = None
    /\ IF rq[r].token.kid \in Identified(rq[r].snap)
       THEN rq' = [rq EXCEPT ![r].pc = "verify", ![r].since = 0, ![r].snap = {}]
       ELSE Answer(r, "refused")
    /\ UNCHANGED <<now, attemptedAt, cache>>

-----------------------------------------------------------------------------
(* cache_insert()                                                          *)

Least(a, b) == IF a <= b THEN a ELSE b

\* Mutant: every validation is kept for the full window.
FullTTL(t) == MaxCacheTTL

\* min(max(0, exp - now), MAX_CACHE_TTL)
EntryTTL(t) == IF t.exp <= now THEN 0 ELSE Least(t.exp - now, MaxCacheTTL)

\* At capacity, expired entries go first.
Retained ==
    IF Cardinality(Cached) >= CacheCap THEN {t \in Cached : cache[t] > now} ELSE Cached

Oldest(S) == {t \in S : \A u \in S : cache[t] <= cache[u]}

\* The entries that may be left beside t's: still full and t is new, then one
\* with the least expires_at goes.
Survivors(t) ==
    IF Cardinality(Retained) >= CacheCap /\ t \notin Retained
    THEN {Retained \ {v} : v \in Oldest(Retained)}
    ELSE {Retained}

\* decode() and, when it succeeds, cache_insert().
Verify(r) ==
    LET t == rq[r].token IN
    /\ rq[r].pc = "verify"
    /\ IF Decodes(t)
       THEN /\ Answer(r, "accepted")
            /\ \E kept \in Survivors(t) :
                  cache' = [u \in Tokens |-> IF u = t THEN now + EntryTTL(t)
                                             ELSE IF u \in kept THEN cache[u]
                                             ELSE None]
       ELSE Answer(r, "refused") /\ UNCHANGED cache
    /\ UNCHANGED <<now, jwks, refresher>>

\* drop_token(), when Stalwart reports a token dead.
DropToken(t) ==
    /\ cache[t] # None
    /\ cache' = [cache EXCEPT ![t] = None]
    /\ UNCHANGED <<now, jwks, refresher, rq>>

\* Mutant: the guard outlives the dropped future.
RefresherKept(r) == refresher

\* The mutex guard is dropped with the future that holds it.
RefresherAfterDrop(r) == IF refresher = r THEN None ELSE refresher

\* The client goes away: the future is dropped at the await it is in.
Disconnect(r) ==
    /\ rq[r].pc \in {"lockwait", "fetching", "receiving"}
    /\ Answer(r, "dropped")
    /\ refresher' = RefresherAfterDrop(r)
    /\ UNCHANGED <<now, jwks, cache>>

\* Time passes at awaits only, and a download ends within its timeout.
Tick ==
    /\ now < MaxTime
    /\ \A r \in Requests :
          /\ rq[r].pc \notin Synchronous
          /\ rq[r].pc \in {"fetching", "receiving"} => now < rq[r].since + FetchTimeout
    /\ now' = now + 1
    /\ UNCHANGED <<jwks, refresher, cache, rq>>

Step(r) ==
    \/ Status(r) \/ AcquireRefresh(r) \/ Recheck(r) \/ Respond(r)
    \/ FetchFail(r) \/ Store(r) \/ Verify(r)

Next ==
    \/ \E r \in Requests : Arrive(r) \/ Step(r) \/ Disconnect(r)
    \/ \E t \in Tokens : DropToken(t)
    \/ Tick

Spec == Init /\ [][Next]_vars

\* The runtime polls every handler, and the client's timeout ends downloads.
FairSpec == Spec /\ \A r \in Requests : WF_vars(Step(r))

-----------------------------------------------------------------------------
(* Properties                                                              *)

\* A cached validation never outlives its token: a hit is before the token's
\* expiry, and the leeway of a full verification does not pile up with it; and
\* there are never more than CACHE_CAP of them.
CacheWithinExpiry ==
    /\ Cardinality(Cached) <= CacheCap
    /\ \A t \in Cached : cache[t] <= t.exp \/ cache[t] <= now

\* A token signed with a key Logto has withdrawn stops being accepted once the
\* download under way, the key set it fills and the validations made from it
\* have run out, whatever the interleaving and whatever fetches fail.
RetiredKeyDies ==
    \A r \in Requests : rq[r].pc = "accepted" =>
        rq[r].at < PublishedUntil[rq[r].token.kid]
                       + FetchTimeout + JwksTTL + MaxCacheTTL

\* Downloads of the JWKS start at least JWKS_MIN_REFRESH_INTERVAL apart,
\* whatever key ids the requests name, also after failed and abandoned ones.
RefreshSpaced ==
    [][attemptedAt' # attemptedAt =>
          attemptedAt = None \/ attemptedAt' - attemptedAt >= MinRefresh]_vars

\* A token that is bad as it stands, or whose key Logto does not publish.
BadToken(t, at) ==
    \/ ~ t.genuine
    \/ t.kid = None
    \/ t.exp < at
    \/ ~ (PublishedFrom[t.kid] <= at /\ at < PublishedUntil[t.kid])

\* A good token is refused only during the JWKS_MIN_REFRESH_INTERVAL that
\* follows the start of a download, and then only if that download has not
\* been stored (it is under way, failed or was abandoned) or if Logto
\* published the key after it started.
RefusalExplained ==
    [][\A r \in Requests : rq[r].pc # "refused" /\ rq'[r].pc = "refused" =>
          \/ BadToken(rq'[r].token, now)
          \/ /\ attemptedAt' # None
             /\ now < attemptedAt' + MinRefresh
             /\ \/ fetchedAt' = None
                \/ fetchedAt' < attemptedAt'
                \/ PublishedFrom[rq'[r].token.kid] > attemptedAt']_vars

\* Every request is answered: a failed or abandoned download does not leave
\* the others waiting for the mutex.
RequestsAnswered ==
    \A r \in Requests : rq[r].pc # "idle" ~> rq[r].pc \in Answered

=============================================================================
