------------------------ MODULE LogtoValidation_proof ------------------------
(***************************************************************************)
(* Proofs about bearer validation: the validation cache stays bounded and  *)
(* within the tokens' lifetimes, withdrawn keys die, downloads are spaced  *)
(* and refusals have a cause, for any number of requests, any rotation of  *)
(* Logto's keys, any set of bearers and any interleaving.                  *)
(***************************************************************************)
EXTENDS LogtoValidation, FiniteSetTheorems, TLAPS

Calls == [pc: {"idle", "lockwait", "fetching", "receiving"} \cup Synchronous \cup Answered,
          token: Tokens \cup {None}, since: Time,
          snap: SUBSET (Kids \cup {None}), at: Time]

TypeInv ==
    /\ now \in Time
    /\ keys \subseteq Kids
    /\ fetchedAt \in Time \cup {None}
    /\ attemptedAt \in Time \cup {None}
    /\ refresher \in Requests \cup {None}
    /\ cache \in [Tokens -> Time \cup {None}]
    /\ rq \in [Requests -> Calls]

\* Three windows, one after another: a download that is under way started
\* before the keys it has received were withdrawn; a stored key set is at most
\* a download older than that; and so on to the validations made from it.
DownloadEnds(k) == PublishedUntil[k] + FetchTimeout
KeySetEnds(k) == DownloadEnds(k) + JwksTTL
ValidationEnds(k) == KeySetEnds(k) + MaxCacheTTL

\* Only tokens that name a key are verified, cached or accepted.
Named(t) == t \in Tokens /\ t.kid \in Kids

CallInv(r) ==
    /\ rq[r].pc \notin {"idle", "refused", "unavailable", "dropped"} => Named(rq[r].token)
    /\ rq[r].pc \in {"fetching", "receiving"} =>
          rq[r].since <= now /\ now <= rq[r].since + FetchTimeout
    /\ rq[r].pc = "receiving" =>
          \A k \in Kids \cap rq[r].snap : rq[r].since < PublishedUntil[k]
    /\ rq[r].pc = "verify" => now < KeySetEnds(rq[r].token.kid)
    /\ rq[r].pc = "accepted" => rq[r].at < ValidationEnds(rq[r].token.kid)

CallsInv == \A r \in Requests : CallInv(r)

KeysInv == \A k \in keys : fetchedAt # None /\ fetchedAt < DownloadEnds(k)

CacheInv ==
    /\ \A t \in Cached : Named(t) /\ cache[t] < ValidationEnds(t.kid)
    /\ IsFiniteSet(Cached)
    /\ CacheWithinExpiry

ValidInv == TypeInv /\ CallsInv /\ KeysInv /\ CacheInv

\* Whoever looks at the keys a second time or downloads them holds the mutex,
\* so the one download under way is the one attemptedAt speaks of.
MutexInv ==
    \A r \in Requests : rq[r].pc \in {"recheck", "fetching", "receiving"} =>
        /\ refresher = r
        /\ rq[r].pc # "recheck" => attemptedAt = rq[r].since

\* What a key set lacks was withdrawn, or published after its download began.
Lacks(set, start, t) ==
    \A k \in Kids \ set : PublishedFrom[k] > start \/ PublishedUntil[k] <= t

CompleteInv ==
    /\ fetchedAt # None =>
          attemptedAt # None /\ fetchedAt <= now /\ fetchedAt < attemptedAt + MinRefresh
    /\ fetchedAt # None /\ attemptedAt <= fetchedAt => Lacks(keys, attemptedAt, now)
    /\ \A r \in Requests : rq[r].pc = "receiving" => Lacks(rq[r].snap, rq[r].since, now)

RefusalInv == ValidInv /\ MutexInv /\ CompleteInv

-----------------------------------------------------------------------------

\* cache_insert() keeps the cache within CACHE_CAP: at capacity it has dropped
\* the expired entries, and one more if the new token still finds no room.
LEMMA InsertBounded ==
    ASSUME IsFiniteSet(Cached), Cardinality(Cached) <= CacheCap, CacheCap \in Nat \ {0},
           NEW t, NEW kept \in Survivors(t)
    PROVE  /\ kept \subseteq Cached
           /\ IsFiniteSet(kept \cup {t})
           /\ Cardinality(kept \cup {t}) <= CacheCap
<1>1. Retained \subseteq Cached
    BY DEF Retained
<1>2. /\ IsFiniteSet(Retained)
      /\ Cardinality(Retained) \in Nat /\ Cardinality(Cached) \in Nat
      /\ Cardinality(Retained) <= Cardinality(Cached)
    BY <1>1, FS_Subset, FS_CardinalityType
<1>3. CASE Cardinality(Retained) >= CacheCap /\ t \notin Retained
    <2>1. PICK v \in Retained : kept = Retained \ {v}
        BY <1>3 DEF Survivors, Oldest
    <2>2. IsFiniteSet(kept) /\ Cardinality(kept) = Cardinality(Retained) - 1
        BY <1>2, <2>1, FS_RemoveElement
    <2>3. t \notin kept
        BY <1>3, <2>1
    <2>4. /\ IsFiniteSet(kept \cup {t})
          /\ Cardinality(kept \cup {t}) = Cardinality(kept) + 1
        BY <2>2, <2>3, FS_AddElement
    <2>5. QED  BY <1>1, <1>2, <2>1, <2>2, <2>4
<1>4. CASE t \in Retained
    <2>1. kept = Retained /\ kept \cup {t} = Retained
        BY <1>4 DEF Survivors
    <2>2. QED  BY <1>1, <1>2, <2>1
<1>5. CASE Cardinality(Retained) < CacheCap /\ t \notin Retained
    <2>1. kept = Retained
        BY <1>2, <1>5 DEF Survivors
    <2>2. /\ IsFiniteSet(kept \cup {t})
          /\ Cardinality(kept \cup {t}) = Cardinality(kept) + 1
        BY <1>2, <1>5, <2>1, FS_AddElement
    <2>3. QED  BY <1>1, <1>2, <1>5, <2>1, <2>2
<1>6. QED  BY <1>2, <1>3, <1>4, <1>5

\* EntryTTL() reaches neither past the token's expiry nor past MAX_CACHE_TTL.
LEMMA EntryWindow ==
    ASSUME now \in Time, NEW t \in Tokens
    PROVE  /\ EntryTTL(t) \in Nat
           /\ EntryTTL(t) <= MaxCacheTTL
           /\ now + EntryTTL(t) <= t.exp \/ now + EntryTTL(t) <= now
<1>1. t.exp \in Nat /\ MaxCacheTTL \in Nat
    BY LogtoAssumption DEF Time
<1>2. QED  BY <1>1 DEF EntryTTL, Least, Time

\* The keys' windows are naturals.
LEMMA WindowTypes ==
    ASSUME NEW k \in Kids
    PROVE  /\ PublishedFrom[k] \in Nat /\ PublishedUntil[k] \in Nat
           /\ DownloadEnds(k) \in Nat /\ KeySetEnds(k) \in Nat /\ ValidationEnds(k) \in Nat
           /\ DownloadEnds(k) < KeySetEnds(k) /\ KeySetEnds(k) < ValidationEnds(k)
           /\ KeySetEnds(k) = DownloadEnds(k) + JwksTTL
           /\ ValidationEnds(k) = KeySetEnds(k) + MaxCacheTTL
<1>1. PublishedFrom[k] \in Nat /\ PublishedUntil[k] \in Nat
    BY LogtoAssumption DEF Time
<1>2. QED  BY <1>1, LogtoAssumption DEF DownloadEnds, KeySetEnds, ValidationEnds

-----------------------------------------------------------------------------

\* Before any call the invariant holds.
LEMMA ValidInit == Init => ValidInv
<1> SUFFICES ASSUME Init PROVE ValidInv
    OBVIOUS
<1> USE LogtoAssumption DEF Init
<1>1. TypeInv
    BY DEF TypeInv, Calls, Time
<1>2. Cached = {}
    BY DEF Cached
<1>3. CallsInv /\ KeysInv
    BY DEF CallsInv, CallInv, KeysInv
<1>4. CacheInv
    BY <1>2, FS_EmptySet DEF CacheInv, CacheWithinExpiry
<1>5. QED  BY <1>1, <1>3, <1>4 DEF ValidInv

\* What the steps of a call do to its record.
LEMMA GotoCall ==
    ASSUME TypeInv, NEW r \in Requests, NEW pc \in {"lockwait", "recheck", "verify"},
           Goto(r, pc)
    PROVE  /\ rq' \in [Requests -> Calls]
           /\ \A q \in Requests \ {r} : rq'[q] = rq[q]
           /\ rq'[r].pc = pc /\ rq'[r].token = rq[r].token
<1>1. rq \in [Requests -> Calls]
    BY DEF TypeInv
<1>2. [rq[r] EXCEPT !.pc = pc] \in Calls
    BY <1>1 DEF Calls, Synchronous
<1>3. rq' = [rq EXCEPT ![r] = [rq[r] EXCEPT !.pc = pc]]
    BY <1>1 DEF Goto
<1>4. QED  BY <1>1, <1>2, <1>3 DEF Calls

\* A call that answers.
LEMMA AnswerCall ==
    ASSUME TypeInv, NEW r \in Requests, NEW pc \in Answered, Answer(r, pc)
    PROVE  /\ rq' \in [Requests -> Calls]
           /\ \A q \in Requests \ {r} : rq'[q] = rq[q]
           /\ rq'[r].pc = pc /\ rq'[r].token = rq[r].token /\ rq'[r].at = now
<1> DEFINE c == [rq[r] EXCEPT !.pc = pc, !.at = now, !.since = 0, !.snap = {}]
<1>1. rq \in [Requests -> Calls] /\ now \in Time
    BY DEF TypeInv
<1>2. c \in Calls /\ c.pc = pc /\ c.token = rq[r].token /\ c.at = now
    BY <1>1 DEF Calls, Time
<1>3. rq' = [rq EXCEPT ![r] = c]
    BY <1>1 DEF Answer
<1>4. QED  BY <1>1, <1>2, <1>3

\* A call that arrives.
LEMMA ArriveCall ==
    ASSUME TypeInv, NEW r \in Requests, Arrive(r)
    PROVE  /\ rq' \in [Requests -> Calls]
           /\ \A q \in Requests \ {r} : rq'[q] = rq[q]
           /\ rq'[r].token \in Tokens
           /\ \/ /\ rq'[r].pc = "accepted" /\ rq'[r].at = now
                 /\ CacheHit(rq'[r].token)
              \/ rq'[r].pc = "refused" /\ rq'[r].token.kid = None
              \/ rq'[r].pc = "status" /\ rq'[r].token.kid # None
<1> DEFINE ArrivePc(t) == IF CacheHit(t) THEN "accepted"
                          ELSE IF t.kid = None THEN "refused"
                          ELSE "status"
           ArriveAt(t) == IF ArrivePc(t) \in Answered THEN now ELSE 0
           c(t) == [rq[r] EXCEPT !.token = t, !.pc = ArrivePc(t), !.at = ArriveAt(t)]
<1>1. rq \in [Requests -> Calls] /\ now \in Time
    BY DEF TypeInv
<1>2. PICK t \in Tokens : rq' = [rq EXCEPT ![r] = c(t)]
    BY <1>1 DEF Arrive
<1>3. ArrivePc(t) \in {"accepted", "refused", "status"} /\ ArriveAt(t) \in Time
    BY <1>1 DEF Time
<1>4. /\ c(t) \in Calls
      /\ c(t).token = t /\ c(t).pc = ArrivePc(t) /\ c(t).at = ArriveAt(t)
    <2> HIDE DEF ArrivePc, ArriveAt
    <2>1. QED  BY <1>1, <1>3 DEF Calls, Synchronous, Answered
<1>5. /\ rq' \in [Requests -> Calls] /\ rq'[r] = c(t)
      /\ \A q \in Requests \ {r} : rq'[q] = rq[q]
    <2> HIDE DEF c
    <2>1. QED  BY <1>1, <1>2, <1>4
<1>6. QED
    <2> HIDE DEF c
    <2>1. QED  BY <1>4, <1>5 DEF Answered

\* The response of the provider.
LEMMA RespondCall ==
    ASSUME TypeInv, NEW r \in Requests, Respond(r)
    PROVE  /\ rq' \in [Requests -> Calls]
           /\ \A q \in Requests \ {r} : rq'[q] = rq[q]
           /\ rq'[r].pc = "receiving" /\ rq'[r].snap = Published
           /\ rq'[r].token = rq[r].token /\ rq'[r].since = rq[r].since
<1> DEFINE c == [rq[r] EXCEPT !.pc = "receiving", !.snap = Published]
<1>1. rq \in [Requests -> Calls] /\ Published \in SUBSET (Kids \cup {None})
    BY DEF TypeInv, Published
<1>2. /\ c \in Calls /\ c.pc = "receiving" /\ c.snap = Published
      /\ c.token = rq[r].token /\ c.since = rq[r].since
    BY <1>1 DEF Calls
<1>3. rq' = [rq EXCEPT ![r] = c]
    BY <1>1 DEF Respond
<1>4. QED
    <2> HIDE DEF c
    <2>1. QED  BY <1>1, <1>2, <1>3

\* A call that starts its download.
LEMMA DownloadCall ==
    ASSUME TypeInv, NEW r \in Requests,
           rq' = [rq EXCEPT ![r].pc = "fetching", ![r].since = now]
    PROVE  /\ \A q \in Requests \ {r} : rq'[q] = rq[q]
           /\ rq'[r].pc = "fetching" /\ rq'[r].token = rq[r].token /\ rq'[r].since = now
BY DEF TypeInv, Calls

\* A call that stores what it downloaded.
LEMMA StoreCall ==
    ASSUME TypeInv, NEW r \in Requests, Store(r)
    PROVE  /\ \A q \in Requests \ {r} : rq'[q] = rq[q]
           /\ rq'[r].token = rq[r].token
           /\ rq'[r].pc = IF rq[r].token.kid \in keys' THEN "verify" ELSE "refused"
<1>1. CASE rq[r].token.kid \in Identified(rq[r].snap)
    BY <1>1 DEF Store, TypeInv, Calls
<1>2. CASE rq[r].token.kid \notin Identified(rq[r].snap)
    BY <1>2, AnswerCall DEF Store, Answered
<1>3. QED  BY <1>1, <1>2

\* Every step keeps the variables in their types.
LEMMA TypeNext == TypeInv /\ CallsInv /\ [Next]_vars => TypeInv'
<1> SUFFICES ASSUME TypeInv, CallsInv, [Next]_vars PROVE TypeInv'
    OBVIOUS
<1> USE LogtoAssumption DEF TypeInv, Calls, Time, Synchronous, Answered, jwks
<1>1. ASSUME NEW r \in Requests, Arrive(r) PROVE TypeInv'
    BY <1>1, ArriveCall DEF Arrive
<1>2. ASSUME NEW r \in Requests, Status(r) PROVE TypeInv'
    <2>1. \/ Goto(r, "verify") \/ Answer(r, "refused") \/ Goto(r, "lockwait")
        BY <1>2 DEF Status, CachedKeyStatus
    <2>2. rq' \in [Requests -> Calls]
        BY <2>1, GotoCall, AnswerCall
    <2>3. QED  BY <1>2, <2>2 DEF Status
<1>3. ASSUME NEW r \in Requests, AcquireRefresh(r) PROVE TypeInv'
    BY <1>3 DEF AcquireRefresh, Goto
<1>4. ASSUME NEW r \in Requests, Recheck(r) PROVE TypeInv'
    BY <1>4 DEF Recheck, Goto, Answer
<1>5. ASSUME NEW r \in Requests, Respond(r) PROVE TypeInv'
    BY <1>5, RespondCall DEF Respond
<1>6. ASSUME NEW r \in Requests, FetchFail(r) PROVE TypeInv'
    BY <1>6, AnswerCall DEF FetchFail
<1>7. ASSUME NEW r \in Requests, Store(r) PROVE TypeInv'
    BY <1>7 DEF Store, Answer, Identified
<1>8. ASSUME NEW r \in Requests, Verify(r) PROVE TypeInv'
    <2>1. rq[r].token \in Tokens
        BY <1>8 DEF Verify, CallsInv, CallInv, Named
    <2>2. now + EntryTTL(rq[r].token) \in Nat
        BY <2>1, EntryWindow
    <2>3. cache' \in [Tokens -> Nat \cup {None}]
        BY <1>8, <2>2 DEF Verify
    <2>4. QED  BY <1>8, <2>3 DEF Verify, Answer
<1>9. ASSUME NEW t \in Tokens, DropToken(t) PROVE TypeInv'
    BY <1>9 DEF DropToken
<1>10. ASSUME NEW r \in Requests, Disconnect(r) PROVE TypeInv'
    BY <1>10, AnswerCall DEF Disconnect, RefresherAfterDrop
<1>11. CASE Tick
    BY <1>11 DEF Tick
<1>12. CASE UNCHANGED vars
    BY <1>12 DEF vars
<1>13. QED
    BY <1>1, <1>2, <1>3, <1>4, <1>5, <1>6, <1>7, <1>8, <1>9, <1>10, <1>11, <1>12
    DEF Next, Step

-----------------------------------------------------------------------------

\* A step of a call that leaves the clock and the caches alone has only that
\* call to answer for.
LEMMA CallStep ==
    ASSUME ValidInv, TypeInv', NEW r \in Requests,
           UNCHANGED <<now, keys, fetchedAt, cache>>,
           \A q \in Requests \ {r} : rq'[q] = rq[q],
           CallInv(r)'
    PROVE  ValidInv'
<1>1. CallsInv'
    <2> SUFFICES ASSUME NEW q \in Requests, q # r PROVE CallInv(q)'
        BY DEF CallsInv
    <2>1. CallInv(q) /\ rq'[q] = rq[q] /\ now' = now
        BY DEF ValidInv, CallsInv
    <2>2. QED  BY <2>1 DEF CallInv
<1>2. KeysInv'
    BY DEF ValidInv, KeysInv
<1>3. CacheInv'
    <2>1. Cached' = Cached
        BY DEF Cached
    <2>2. QED  BY <2>1 DEF ValidInv, CacheInv, CacheWithinExpiry
<1>4. QED  BY <1>1, <1>2, <1>3 DEF ValidInv

\* A key out of a fresh key set is good for verification.
LEMMA FreshKey ==
    ASSUME ValidInv, NEW k \in keys, Fresh(fetchedAt)
    PROVE  now < KeySetEnds(k)
<1>1. /\ k \in Kids /\ now \in Nat /\ fetchedAt \in Nat
      /\ now - fetchedAt < JwksTTL /\ fetchedAt < DownloadEnds(k)
    BY LogtoAssumption DEF ValidInv, TypeInv, KeysInv, Fresh, Elapsed, Time
<1>2. QED  BY <1>1, WindowTypes, LogtoAssumption

\* Every step keeps the invariant.
LEMMA ValidNext == ValidInv /\ [Next]_vars => ValidInv'
<1> SUFFICES ASSUME ValidInv, [Next]_vars PROVE ValidInv'
    OBVIOUS
<1>0. TypeInv /\ CallsInv /\ KeysInv /\ CacheInv /\ TypeInv'
    BY TypeNext DEF ValidInv
<1>1. ASSUME NEW r \in Requests, Arrive(r) PROVE ValidInv'
    <2> DEFINE t == rq'[r].token
    <2>1. CallInv(r)'
        <3>1. CASE rq'[r].pc = "accepted" /\ rq'[r].at = now /\ CacheHit(t)
            <4>1. t \in Cached /\ cache[t] > now
                BY <1>0, <1>1, <3>1, ArriveCall DEF CacheHit, Cached
            <4>2. Named(t) /\ cache[t] < ValidationEnds(t.kid)
                BY <1>0, <4>1 DEF CacheInv
            <4>3. now \in Nat /\ cache[t] \in Nat /\ ValidationEnds(t.kid) \in Nat
                BY <1>0, <4>1, <4>2, WindowTypes DEF Named, Cached, TypeInv, Time
            <4>4. now < ValidationEnds(t.kid)
                BY <4>1, <4>2, <4>3
            <4>5. QED  BY <3>1, <4>2, <4>4 DEF CallInv
        <3>2. CASE rq'[r].pc = "refused"
            BY <3>2 DEF CallInv
        <3>3. CASE rq'[r].pc = "status" /\ t.kid # None
            <4>1. Named(t)
                BY <1>0, <1>1, <3>3, ArriveCall, LogtoAssumption DEF Named
            <4>2. QED  BY <3>3, <4>1 DEF CallInv
        <3>4. QED  BY <1>0, <1>1, <3>1, <3>2, <3>3, ArriveCall
    <2>2. UNCHANGED <<now, keys, fetchedAt, cache>>
        BY <1>1 DEF Arrive, jwks
    <2>3. QED  BY <1>0, <1>1, <2>1, <2>2, ArriveCall, CallStep
<1>2. ASSUME NEW r \in Requests, Status(r) PROVE ValidInv'
    <2>1. Named(rq[r].token)
        BY <1>0, <1>2 DEF Status, CallsInv, CallInv
    <2>2. UNCHANGED <<now, keys, fetchedAt, cache>>
        BY <1>2 DEF Status, jwks
    <2>3. CASE CachedKeyStatus(rq[r].token.kid) = "Key" /\ Goto(r, "verify")
        <3>1. now < KeySetEnds(rq[r].token.kid)
            BY <2>3, FreshKey DEF CachedKeyStatus
        <3>2. QED  BY <1>0, <2>1, <2>2, <2>3, <3>1, GotoCall, CallStep DEF CallInv
    <2>4. CASE Answer(r, "refused")
        BY <1>0, <2>2, <2>4, AnswerCall, CallStep DEF CallInv, Answered
    <2>5. CASE Goto(r, "lockwait")
        BY <1>0, <2>1, <2>2, <2>5, GotoCall, CallStep DEF CallInv
    <2>6. QED  BY <1>2, <2>3, <2>4, <2>5 DEF Status, CachedKeyStatus
<1>3. ASSUME NEW r \in Requests, AcquireRefresh(r) PROVE ValidInv'
    <2>1. Named(rq[r].token)
        BY <1>0, <1>3 DEF AcquireRefresh, CallsInv, CallInv
    <2>2. UNCHANGED <<now, keys, fetchedAt, cache>> /\ Goto(r, "recheck")
        BY <1>3 DEF AcquireRefresh, jwks
    <2>3. QED  BY <1>0, <2>1, <2>2, GotoCall, CallStep DEF CallInv
<1>4. ASSUME NEW r \in Requests, Recheck(r) PROVE ValidInv'
    <2>1. Named(rq[r].token)
        BY <1>0, <1>4 DEF Recheck, CallsInv, CallInv
    <2>2. UNCHANGED <<now, keys, fetchedAt, cache>>
        BY <1>4 DEF Recheck
    <2>3. CASE RecheckedKeyStatus(rq[r].token.kid) = "Key" /\ Goto(r, "verify")
        <3>1. now < KeySetEnds(rq[r].token.kid)
            BY <2>3, FreshKey DEF RecheckedKeyStatus, CachedKeyStatus
        <3>2. QED  BY <1>0, <2>1, <2>2, <2>3, <3>1, GotoCall, CallStep DEF CallInv
    <2>4. CASE Answer(r, "refused")
        BY <1>0, <2>2, <2>4, AnswerCall, CallStep DEF CallInv, Answered
    <2>5. CASE rq' = [rq EXCEPT ![r].pc = "fetching", ![r].since = now]
        <3>1. now \in Nat /\ now' = now /\ now <= now + FetchTimeout
            BY <1>0, <2>2, LogtoAssumption DEF TypeInv, Time
        <3>2. /\ rq'[r].pc = "fetching" /\ rq'[r].since = now
              /\ rq'[r].token = rq[r].token
            BY <1>0, <2>5, DownloadCall
        <3>3. now <= now
            BY <3>1
        <3>4. CallInv(r)'
            BY <2>1, <3>1, <3>2, <3>3 DEF CallInv
        <3>5. QED  BY <1>0, <2>2, <2>5, <3>4, DownloadCall, CallStep
    <2>6. QED  BY <1>4, <2>3, <2>4, <2>5 DEF Recheck
<1>5. ASSUME NEW r \in Requests, Respond(r) PROVE ValidInv'
    <2>1. CallInv(r) /\ rq[r].pc = "fetching"
        BY <1>0, <1>5 DEF Respond, CallsInv
    <2>2. UNCHANGED <<now, keys, fetchedAt, cache>>
        BY <1>5 DEF Respond, jwks
    <2>3. ASSUME NEW k \in Kids \cap Published PROVE rq[r].since < PublishedUntil[k]
        <3>1. now < PublishedUntil[k] /\ rq[r].since <= now
            BY <2>1, <2>3, LogtoAssumption DEF Published, CallInv
        <3>2. now \in Nat /\ rq[r].since \in Nat /\ PublishedUntil[k] \in Nat
            BY <1>0, WindowTypes DEF TypeInv, Calls, Time
        <3>3. QED  BY <3>1, <3>2
    <2>4. CallInv(r)'
        BY <1>0, <1>5, <2>1, <2>2, <2>3, RespondCall DEF CallInv
    <2>5. QED  BY <1>0, <1>5, <2>2, <2>4, RespondCall, CallStep
<1>6. ASSUME NEW r \in Requests, FetchFail(r) PROVE ValidInv'
    <2>1. UNCHANGED <<now, keys, fetchedAt, cache>> /\ Answer(r, "unavailable")
        BY <1>6 DEF FetchFail, jwks
    <2>2. QED  BY <1>0, <2>1, AnswerCall, CallStep DEF CallInv, Answered
<1>7. ASSUME NEW r \in Requests, Store(r) PROVE ValidInv'
    <2>1. /\ now' = now /\ cache' = cache /\ fetchedAt' = now
          /\ keys' = Identified(rq[r].snap) /\ rq[r].pc = "receiving" /\ CallInv(r)
        BY <1>0, <1>7 DEF Store, CallsInv
    <2>2. KeysInv'
        <3> SUFFICES ASSUME NEW k \in keys' PROVE now < DownloadEnds(k) /\ now # None
            BY <2>1 DEF KeysInv, DownloadEnds
        <3>1. k \in Kids \cap rq[r].snap
            BY <1>0, <2>1 DEF TypeInv, Identified
        <3>2. now <= rq[r].since + FetchTimeout /\ rq[r].since < PublishedUntil[k]
            BY <2>1, <3>1 DEF CallInv
        <3>3. /\ now \in Nat /\ rq[r].since \in Nat
              /\ PublishedUntil[k] \in Nat /\ FetchTimeout \in Nat
            BY <1>0, <3>1, WindowTypes, LogtoAssumption DEF TypeInv, Calls, Time
        <3>4. QED  BY <3>2, <3>3, LogtoAssumption DEF DownloadEnds
    <2>3. CallInv(r)'
        <3>1. CASE rq[r].token.kid \in keys'
            <4>1. now < DownloadEnds(rq[r].token.kid) /\ rq[r].token.kid \in Kids
                BY <1>0, <2>1, <2>2, <3>1 DEF KeysInv, TypeInv, DownloadEnds
            <4>2. now < KeySetEnds(rq[r].token.kid)
                BY <1>0, <4>1, WindowTypes DEF TypeInv, Time
            <4>3. Named(rq[r].token)
                BY <2>1 DEF CallInv
            <4>4. QED  BY <1>0, <1>7, <2>1, <3>1, <4>2, <4>3, StoreCall DEF CallInv
        <3>2. CASE rq[r].token.kid \notin keys'
            BY <1>0, <1>7, <3>2, StoreCall DEF CallInv
        <3>3. QED  BY <3>1, <3>2
    <2>4. CallsInv'
        <3> SUFFICES ASSUME NEW q \in Requests, q # r PROVE CallInv(q)'
            BY <2>3 DEF CallsInv
        <3>1. CallInv(q) /\ rq'[q] = rq[q]
            BY <1>0, <1>7, StoreCall DEF CallsInv
        <3>2. QED  BY <2>1, <3>1 DEF CallInv
    <2>5. CacheInv'
        BY <1>0, <2>1 DEF CacheInv, CacheWithinExpiry, Cached
    <2>6. QED  BY <1>0, <2>2, <2>4, <2>5 DEF ValidInv
<1>8. ASSUME NEW r \in Requests, Verify(r) PROVE ValidInv'
    <2> DEFINE t == rq[r].token
    <2>1. /\ UNCHANGED <<now, keys, fetchedAt>> /\ rq[r].pc = "verify" /\ Named(t)
          /\ now < KeySetEnds(t.kid)
        BY <1>0, <1>8 DEF Verify, CallsInv, CallInv, jwks
    <2>2. CASE ~ Decodes(t)
        <3>1. Answer(r, "refused") /\ cache' = cache
            BY <1>8, <2>2 DEF Verify
        <3>2. QED  BY <1>0, <2>1, <3>1, AnswerCall, CallStep DEF CallInv, Answered
    <2>3. CASE Decodes(t)
        <3> DEFINE end == now + EntryTTL(t)
        <3>1. Answer(r, "accepted")
            BY <1>8, <2>3 DEF Verify
        <3>2. PICK kept \in Survivors(t) :
                 cache' = [u \in Tokens |-> IF u = t THEN end
                                            ELSE IF u \in kept THEN cache[u] ELSE None]
            BY <1>8, <2>3 DEF Verify
        <3>3. /\ kept \subseteq Cached
              /\ IsFiniteSet(kept \cup {t}) /\ Cardinality(kept \cup {t}) <= CacheCap
            BY <1>0, InsertBounded, LogtoAssumption DEF CacheInv, CacheWithinExpiry
        <3>4. /\ end \in Nat /\ end < ValidationEnds(t.kid)
              /\ end <= t.exp \/ end <= now
            <4>1. t \in Tokens /\ t.kid \in Kids /\ now \in Nat
                BY <1>0, <2>1 DEF Named, TypeInv, Time
            <4>2. QED
                BY <2>1, <4>1, EntryWindow, WindowTypes, LogtoAssumption DEF Time
        <3>5. Cached' = kept \cup {t}
            <4>1. end # None /\ t \in Tokens
                BY <2>1, <3>4, LogtoAssumption DEF Named
            <4>2. QED  BY <3>2, <3>3, <4>1 DEF Cached
        <3>6. ASSUME NEW u \in Cached'
              PROVE  /\ Named(u) /\ cache'[u] < ValidationEnds(u.kid)
                     /\ cache'[u] <= u.exp \/ cache'[u] <= now
            <4>1. CASE u = t
                <5>1. cache'[u] = end
                    BY <2>1, <3>2, <4>1 DEF Named
                <5>2. QED  BY <2>1, <3>4, <4>1, <5>1
            <4>2. CASE u # t
                <5>1. u \in Cached /\ u \in Tokens /\ u \in kept
                    BY <3>3, <3>5, <4>2 DEF Cached
                <5>2. cache'[u] = cache[u]
                    BY <3>2, <4>2, <5>1
                <5>3. QED  BY <1>0, <5>1, <5>2 DEF CacheInv, CacheWithinExpiry
            <4>3. QED  BY <4>1, <4>2
        <3>7. CacheInv'
            <4>1. now' = now
                BY <2>1
            <4>2. QED
                BY <3>3, <3>5, <3>6, <4>1 DEF CacheInv, CacheWithinExpiry, ValidationEnds, KeySetEnds, DownloadEnds
        <3>8. CallsInv'
            <4>1. now < ValidationEnds(t.kid)
                BY <1>0, <2>1, WindowTypes DEF Named, TypeInv, Time
            <4>2. CallInv(r)'
                BY <1>0, <2>1, <3>1, <4>1, AnswerCall DEF CallInv, Answered
            <4>3. ASSUME NEW q \in Requests, q # r PROVE CallInv(q)'
                <5>1. CallInv(q) /\ rq'[q] = rq[q] /\ now' = now
                    BY <1>0, <2>1, <3>1, <4>3, AnswerCall DEF CallsInv, Answered
                <5>2. QED  BY <5>1 DEF CallInv
            <4>4. QED  BY <4>2, <4>3 DEF CallsInv
        <3>9. KeysInv'
            BY <1>0, <2>1 DEF KeysInv
        <3>10. QED  BY <1>0, <3>7, <3>8, <3>9 DEF ValidInv
    <2>4. QED  BY <2>2, <2>3
<1>9. ASSUME NEW t \in Tokens, DropToken(t) PROVE ValidInv'
    <2>1. /\ Cached' = Cached \ {t} /\ now' = now
          /\ \A u \in Cached' : cache'[u] = cache[u]
        BY <1>0, <1>9 DEF DropToken, Cached, TypeInv
    <2>2. /\ IsFiniteSet(Cached') /\ Cardinality(Cached') \in Nat /\ Cardinality(Cached) \in Nat
          /\ Cardinality(Cached') <= Cardinality(Cached)
        BY <1>0, <2>1, FS_Subset, FS_CardinalityType DEF CacheInv
    <2>3. CacheInv'
        <3>1. Cardinality(Cached') <= CacheCap
            BY <1>0, <2>2, LogtoAssumption DEF CacheInv, CacheWithinExpiry
        <3>2. QED
            BY <1>0, <2>1, <2>2, <3>1 DEF CacheInv, CacheWithinExpiry
    <2>4. CallsInv' /\ KeysInv'
        BY <1>0, <1>9 DEF DropToken, jwks, CallsInv, CallInv, KeysInv
    <2>5. QED  BY <1>0, <2>3, <2>4 DEF ValidInv
<1>10. ASSUME NEW r \in Requests, Disconnect(r) PROVE ValidInv'
    <2>1. UNCHANGED <<now, keys, fetchedAt, cache>> /\ Answer(r, "dropped")
        BY <1>10 DEF Disconnect, jwks
    <2>2. QED  BY <1>0, <2>1, AnswerCall, CallStep DEF CallInv, Answered
<1>11. CASE Tick
    <2>1. UNCHANGED <<jwks, cache, rq>> /\ now' = now + 1 /\ now \in Nat
        BY <1>0, <1>11 DEF Tick, TypeInv, Time
    <2>2. ASSUME NEW r \in Requests PROVE CallInv(r)'
        <3>1. CallInv(r) /\ rq'[r] = rq[r] /\ rq[r].pc # "verify"
            BY <1>0, <1>11, <2>1 DEF CallsInv, Tick, Synchronous
        <3>2. rq[r].pc \in {"fetching", "receiving"} => now < rq[r].since + FetchTimeout
            BY <1>11 DEF Tick
        <3>3. rq[r].since \in Nat /\ FetchTimeout \in Nat
            BY <1>0, LogtoAssumption DEF TypeInv, Calls, Time
        <3>4. QED  BY <2>1, <3>1, <3>2, <3>3 DEF CallInv
    <2>3. KeysInv'
        BY <1>0, <2>1 DEF KeysInv, jwks
    <2>4. CacheInv'
        <3>1. Cached' = Cached
            BY <2>1 DEF Cached
        <3>2. ASSUME NEW t \in Cached, cache[t] <= now PROVE cache[t] <= now + 1
            BY <1>0, <2>1, <3>2 DEF Cached, TypeInv, Time
        <3>3. QED  BY <1>0, <2>1, <3>1, <3>2 DEF CacheInv, CacheWithinExpiry
    <2>5. QED  BY <1>0, <2>2, <2>3, <2>4 DEF ValidInv, CallsInv
<1>12. CASE UNCHANGED vars
    BY <1>0, <1>12 DEF vars, ValidInv, CallsInv, CallInv, KeysInv, CacheInv,
                       CacheWithinExpiry, Cached
<1>13. QED
    BY <1>1, <1>2, <1>3, <1>4, <1>5, <1>6, <1>7, <1>8, <1>9, <1>10, <1>11, <1>12
    DEF Next, Step

\* So it holds always.
LEMMA ValidInvariant == Spec => []ValidInv
BY ValidInit, ValidNext, PTL DEF Spec

\* The validation cache never holds more than CACHE_CAP entries, and no entry
\* of cache_insert() outlives its token.
THEOREM CacheBounded == Spec => []CacheWithinExpiry
<1>1. ValidInv => CacheWithinExpiry
    BY DEF ValidInv, CacheInv
<1>2. QED  BY <1>1, ValidInvariant, PTL

\* validate_token() stops accepting the tokens of a withdrawn key after the
\* timeout of a download, JWKS_TTL and MAX_CACHE_TTL have passed, whichever
\* requests refresh, fail or are dropped in between.
THEOREM WithdrawnKeyDies == Spec => []RetiredKeyDies
<1>1. ValidInv => RetiredKeyDies
    <2> SUFFICES ASSUME ValidInv, NEW r \in Requests, rq[r].pc = "accepted"
                 PROVE  rq[r].at < PublishedUntil[rq[r].token.kid]
                                       + FetchTimeout + JwksTTL + MaxCacheTTL
        BY DEF RetiredKeyDies
    <2>1. rq[r].at < ValidationEnds(rq[r].token.kid)
        BY DEF ValidInv, CallsInv, CallInv
    <2>2. QED  BY <2>1 DEF ValidationEnds, KeySetEnds, DownloadEnds
<1>2. QED  BY <1>1, ValidInvariant, PTL

-----------------------------------------------------------------------------

\* Only a recheck that finds neither a fresh key nor a running cooldown stamps
\* an attempt.
LEMMA AttemptStep ==
    ASSUME [Next]_vars
    PROVE  \/ attemptedAt' = attemptedAt
           \/ /\ attemptedAt' = now
              /\ \E r \in Requests : Recheck(r)
              /\ Elapsed(attemptedAt, MinRefresh)
<1>1. ASSUME NEW r \in Requests, Recheck(r), attemptedAt' # attemptedAt
      PROVE  attemptedAt' = now /\ Elapsed(attemptedAt, MinRefresh)
    BY <1>1 DEF Recheck, RecheckedKeyStatus, CachedKeyStatus
<1>2. ASSUME NEW r \in Requests,
             Arrive(r) \/ Status(r) \/ AcquireRefresh(r) \/ Respond(r) \/ FetchFail(r)
                \/ Store(r) \/ Verify(r) \/ Disconnect(r)
      PROVE  attemptedAt' = attemptedAt
    BY <1>2 DEF Arrive, Status, AcquireRefresh, Respond, FetchFail, Store, Verify,
                Disconnect, jwks
<1>3. ASSUME NEW t \in Tokens, DropToken(t) PROVE attemptedAt' = attemptedAt
    BY <1>3 DEF DropToken, jwks
<1>4. CASE Tick \/ UNCHANGED vars
    BY <1>4 DEF Tick, jwks, vars
<1>5. QED  BY <1>1, <1>2, <1>3, <1>4 DEF Next, Step

\* Downloads start at least JWKS_MIN_REFRESH_INTERVAL apart: the stamp is set
\* under jwks_refresh, before the await, and only when the last one is old.
THEOREM DownloadsSpaced == Spec => RefreshSpaced
<1>1. [Next]_vars =>
        [attemptedAt' # attemptedAt =>
            attemptedAt = None \/ attemptedAt' - attemptedAt >= MinRefresh]_vars
    BY AttemptStep DEF Elapsed
<1>2. QED  BY <1>1, PTL DEF Spec, RefreshSpaced

-----------------------------------------------------------------------------

\* Nobody holds jwks_refresh at first.
LEMMA MutexInit == Init => MutexInv
BY DEF Init, MutexInv

\* Every step keeps the lock discipline.
LEMMA MutexNext == ValidInv /\ MutexInv /\ [Next]_vars => MutexInv'
<1> SUFFICES ASSUME ValidInv, MutexInv, [Next]_vars PROVE MutexInv'
    OBVIOUS
<1>0. TypeInv /\ MutexInv
    BY DEF ValidInv
<1>1. ASSUME NEW r \in Requests, Arrive(r) PROVE MutexInv'
    <2>1. UNCHANGED <<attemptedAt, refresher>>
        BY <1>1 DEF Arrive, jwks
    <2>2. /\ rq'[r].pc \in {"accepted", "refused", "status"}
          /\ \A q \in Requests \ {r} : rq'[q] = rq[q]
        BY <1>0, <1>1, ArriveCall
    <2>3. QED  BY <1>0, <2>1, <2>2 DEF MutexInv
<1>2. ASSUME NEW r \in Requests, Status(r) PROVE MutexInv'
    <2>1. Goto(r, "verify") \/ Answer(r, "refused") \/ Goto(r, "lockwait")
        BY <1>2 DEF Status, CachedKeyStatus
    <2>2. /\ rq'[r].pc \in {"verify", "refused", "lockwait"}
          /\ \A q \in Requests \ {r} : rq'[q] = rq[q]
        BY <1>0, <2>1, GotoCall, AnswerCall DEF Answered
    <2>3. QED  BY <1>0, <1>2, <2>2 DEF Status, jwks, MutexInv
<1>3. ASSUME NEW r \in Requests, AcquireRefresh(r) PROVE MutexInv'
    <2>1. \A q \in Requests : rq[q].pc \notin {"recheck", "fetching", "receiving"}
        BY <1>0, <1>3, LogtoAssumption DEF AcquireRefresh, MutexInv
    <2>2. /\ rq'[r].pc = "recheck" /\ refresher' = r
          /\ \A q \in Requests \ {r} : rq'[q] = rq[q]
        BY <1>0, <1>3, GotoCall DEF AcquireRefresh
    <2>3. QED  BY <2>1, <2>2 DEF MutexInv
<1>4. ASSUME NEW r \in Requests, Recheck(r) PROVE MutexInv'
    <2>1. /\ refresher = r
          /\ \A q \in Requests \ {r} : rq[q].pc \notin {"recheck", "fetching", "receiving"}
        BY <1>0, <1>4 DEF Recheck, MutexInv
    <2>2. CASE Goto(r, "verify") \/ Answer(r, "refused")
        BY <1>0, <2>1, <2>2, GotoCall, AnswerCall DEF MutexInv, Answered
    <2>3. CASE /\ rq' = [rq EXCEPT ![r].pc = "fetching", ![r].since = now]
               /\ attemptedAt' = now /\ refresher' = refresher
        BY <1>0, <2>1, <2>3, DownloadCall DEF MutexInv
    <2>4. QED  BY <1>4, <2>2, <2>3 DEF Recheck
<1>5. ASSUME NEW r \in Requests, Respond(r) PROVE MutexInv'
    BY <1>0, <1>5, RespondCall DEF Respond, jwks, MutexInv
<1>6. ASSUME NEW r \in Requests, FetchFail(r) PROVE MutexInv'
    <2>1. /\ refresher = r
          /\ \A q \in Requests \ {r} : rq[q].pc \notin {"recheck", "fetching", "receiving"}
        BY <1>0, <1>6 DEF FetchFail, MutexInv
    <2>2. QED  BY <1>0, <1>6, <2>1, AnswerCall DEF FetchFail, MutexInv, Answered
<1>7. ASSUME NEW r \in Requests, Store(r) PROVE MutexInv'
    <2>1. /\ refresher = r
          /\ \A q \in Requests \ {r} : rq[q].pc \notin {"recheck", "fetching", "receiving"}
        BY <1>0, <1>7 DEF Store, MutexInv
    <2>2. QED  BY <1>0, <1>7, <2>1, StoreCall DEF MutexInv
<1>8. ASSUME NEW r \in Requests, Verify(r) PROVE MutexInv'
    <2>1. /\ Answer(r, "accepted") \/ Answer(r, "refused")
          /\ UNCHANGED <<attemptedAt, refresher>>
        BY <1>8 DEF Verify, jwks
    <2>2. QED  BY <1>0, <2>1, AnswerCall DEF MutexInv, Answered
<1>9. ASSUME NEW t \in Tokens, DropToken(t) PROVE MutexInv'
    BY <1>0, <1>9 DEF DropToken, jwks, MutexInv
<1>10. ASSUME NEW r \in Requests, Disconnect(r) PROVE MutexInv'
    <2>1. /\ rq'[r].pc = "dropped" /\ \A q \in Requests \ {r} : rq'[q] = rq[q]
          /\ attemptedAt' = attemptedAt
        BY <1>0, <1>10, AnswerCall DEF Disconnect, jwks, Answered
    <2>2. ASSUME NEW q \in Requests \ {r}, refresher = q PROVE refresher' = q
        BY <1>10, <2>2 DEF Disconnect, RefresherAfterDrop
    <2>3. QED  BY <1>0, <2>1, <2>2 DEF MutexInv
<1>11. CASE Tick \/ UNCHANGED vars
    BY <1>0, <1>11 DEF Tick, jwks, vars, MutexInv
<1>12. QED
    BY <1>1, <1>2, <1>3, <1>4, <1>5, <1>6, <1>7, <1>8, <1>9, <1>10, <1>11 DEF Next, Step

\* An empty cache lacks nothing it should have.
LEMMA CompleteInit == Init => CompleteInv
BY DEF Init, CompleteInv

\* A step that leaves clock and key set alone has only the calls that receive
\* a key set to answer for.
LEMMA CompleteStep ==
    ASSUME CompleteInv, UNCHANGED <<now, jwks>>,
           \A q \in Requests : rq'[q] = rq[q] \/ rq'[q].pc # "receiving"
    PROVE  CompleteInv'
<1>1. UNCHANGED <<now, keys, fetchedAt, attemptedAt>>
    BY DEF jwks
<1>2. \A q \in Requests : rq'[q].pc = "receiving" =>
         Lacks(rq'[q].snap, rq'[q].since, now')
    BY <1>1 DEF CompleteInv, Lacks
<1>3. QED  BY <1>1, <1>2 DEF CompleteInv, Lacks

\* Every step keeps what is known of missing keys.
LEMMA CompleteNext == ValidInv /\ MutexInv /\ CompleteInv /\ [Next]_vars => CompleteInv'
<1> SUFFICES ASSUME ValidInv, MutexInv, CompleteInv, [Next]_vars PROVE CompleteInv'
    OBVIOUS
<1>0. /\ TypeInv /\ CallsInv /\ MutexInv /\ CompleteInv
      /\ now \in Nat /\ fetchedAt \in Nat \cup {None} /\ attemptedAt \in Nat \cup {None}
      /\ MinRefresh \in Nat \ {0} /\ FetchTimeout \in Nat /\ FetchTimeout < MinRefresh
      /\ None \notin Nat
    BY LogtoAssumption DEF ValidInv, TypeInv, Time
<1>1. ASSUME NEW r \in Requests, Arrive(r) PROVE CompleteInv'
    BY <1>0, <1>1, ArriveCall, CompleteStep DEF Arrive
<1>2. ASSUME NEW r \in Requests, Status(r) PROVE CompleteInv'
    <2>1. /\ Goto(r, "verify") \/ Answer(r, "refused") \/ Goto(r, "lockwait")
          /\ UNCHANGED <<now, jwks>>
        BY <1>2 DEF Status, CachedKeyStatus
    <2>2. QED  BY <1>0, <2>1, GotoCall, AnswerCall, CompleteStep DEF Answered
<1>3. ASSUME NEW r \in Requests, AcquireRefresh(r) PROVE CompleteInv'
    BY <1>0, <1>3, GotoCall, CompleteStep DEF AcquireRefresh
<1>4. ASSUME NEW r \in Requests, Recheck(r) PROVE CompleteInv'
    <2>1. CASE (Goto(r, "verify") \/ Answer(r, "refused")) /\ attemptedAt' = attemptedAt
        <3>1. UNCHANGED <<now, jwks>>
            BY <1>4, <2>1 DEF Recheck, jwks
        <3>2. QED  BY <1>0, <2>1, <3>1, GotoCall, AnswerCall, CompleteStep DEF Answered
    <2>2. CASE /\ rq' = [rq EXCEPT ![r].pc = "fetching", ![r].since = now]
               /\ attemptedAt' = now
               /\ RecheckedKeyStatus(rq[r].token.kid) = "Refresh"
        <3>1. UNCHANGED <<now, keys, fetchedAt>>
            BY <1>4 DEF Recheck
        <3>2. Elapsed(attemptedAt, MinRefresh)
            BY <2>2 DEF RecheckedKeyStatus, CachedKeyStatus
        <3>3. fetchedAt # None => fetchedAt < now
            BY <1>0, <3>2 DEF Elapsed, CompleteInv
        <3>4. \A q \in Requests : rq'[q] = rq[q] \/ rq'[q].pc # "receiving"
            BY <1>0, <2>2, DownloadCall
        <3>5. \A q \in Requests : rq'[q].pc = "receiving" =>
                 Lacks(rq'[q].snap, rq'[q].since, now')
            BY <1>0, <3>1, <3>4 DEF CompleteInv, Lacks
        <3>6. /\ fetchedAt' # None =>
                    /\ attemptedAt' # None /\ fetchedAt' <= now'
                    /\ fetchedAt' < attemptedAt' + MinRefresh
              /\ ~ (fetchedAt' # None /\ attemptedAt' <= fetchedAt')
            BY <1>0, <2>2, <3>1, <3>3
        <3>7. QED  BY <3>5, <3>6 DEF CompleteInv
    <2>3. QED  BY <1>4, <2>1, <2>2 DEF Recheck
<1>5. ASSUME NEW r \in Requests, Respond(r) PROVE CompleteInv'
    <2>1. UNCHANGED <<now, keys, fetchedAt, attemptedAt>>
        BY <1>5 DEF Respond, jwks
    <2>2. rq[r].since <= now /\ rq[r].since \in Nat
        BY <1>0, <1>5 DEF Respond, CallsInv, CallInv, TypeInv, Calls, Time
    <2>3. Lacks(Published, rq[r].since, now)
        <3> SUFFICES ASSUME NEW k \in Kids \ Published
                     PROVE  PublishedFrom[k] > rq[r].since \/ PublishedUntil[k] <= now
            BY DEF Lacks
        <3>1. PublishedFrom[k] \in Nat /\ PublishedUntil[k] \in Nat
            BY WindowTypes
        <3>2. QED  BY <1>0, <2>2, <3>1 DEF Published
    <2>4. ASSUME NEW q \in Requests, rq'[q].pc = "receiving"
          PROVE  Lacks(rq'[q].snap, rq'[q].since, now')
        <3>1. Lacks(rq'[q].snap, rq'[q].since, now)
            BY <1>0, <1>5, <2>3, <2>4, RespondCall DEF CompleteInv
        <3>2. QED  BY <2>1, <3>1 DEF Lacks
    <2>5. QED  BY <1>0, <2>1, <2>4 DEF CompleteInv, Lacks
<1>6. ASSUME NEW r \in Requests, FetchFail(r) PROVE CompleteInv'
    BY <1>0, <1>6, AnswerCall, CompleteStep DEF FetchFail, Answered
<1>7. ASSUME NEW r \in Requests, Store(r) PROVE CompleteInv'
    <2>1. /\ now' = now /\ fetchedAt' = now /\ attemptedAt' = attemptedAt
          /\ keys' = Identified(rq[r].snap) /\ rq[r].pc = "receiving"
          /\ attemptedAt = rq[r].since
        BY <1>0, <1>7 DEF Store, MutexInv
    <2>2. attemptedAt \in Nat /\ now <= attemptedAt + FetchTimeout
        BY <1>0, <2>1 DEF CallsInv, CallInv, TypeInv, Calls, Time
    <2>3. Lacks(keys', attemptedAt', now')
        <3>1. Lacks(rq[r].snap, attemptedAt, now)
            BY <1>0, <2>1 DEF CompleteInv
        <3>2. Kids \ keys' = Kids \ rq[r].snap
            BY <2>1, LogtoAssumption DEF Identified
        <3>3. QED  BY <2>1, <3>1, <3>2 DEF Lacks
    <2>4. \A q \in Requests : rq'[q].pc = "receiving" =>
             Lacks(rq'[q].snap, rq'[q].since, now')
        BY <1>0, <1>7, <2>1, StoreCall DEF CompleteInv, Lacks
    <2>5. /\ attemptedAt' # None /\ fetchedAt' <= now'
          /\ fetchedAt' < attemptedAt' + MinRefresh
        BY <1>0, <2>1, <2>2
    <2>6. QED  BY <2>3, <2>4, <2>5 DEF CompleteInv
<1>8. ASSUME NEW r \in Requests, Verify(r) PROVE CompleteInv'
    <2>1. /\ Answer(r, "accepted") \/ Answer(r, "refused")
          /\ UNCHANGED <<now, jwks>>
        BY <1>8 DEF Verify
    <2>2. QED  BY <1>0, <2>1, AnswerCall, CompleteStep DEF Answered
<1>9. ASSUME NEW t \in Tokens, DropToken(t) PROVE CompleteInv'
    BY <1>0, <1>9, CompleteStep DEF DropToken
<1>10. ASSUME NEW r \in Requests, Disconnect(r) PROVE CompleteInv'
    BY <1>0, <1>10, AnswerCall, CompleteStep DEF Disconnect, Answered
<1>11. CASE Tick
    <2>1. now' = now + 1 /\ UNCHANGED <<keys, fetchedAt, attemptedAt, rq>>
        BY <1>11 DEF Tick, jwks
    <2>2. \A set, start : Lacks(set, start, now) => Lacks(set, start, now')
        <3>1. \A k \in Kids : PublishedUntil[k] <= now => PublishedUntil[k] <= now'
            BY <1>0, <2>1, WindowTypes
        <3>2. QED  BY <3>1 DEF Lacks
    <2>3. fetchedAt # None => fetchedAt <= now + 1
        BY <1>0 DEF CompleteInv
    <2>4. QED  BY <1>0, <2>1, <2>2, <2>3 DEF CompleteInv
<1>12. CASE UNCHANGED vars
    BY <1>0, <1>12, CompleteStep DEF vars, jwks
<1>13. QED
    BY <1>1, <1>2, <1>3, <1>4, <1>5, <1>6, <1>7, <1>8, <1>9, <1>10, <1>11, <1>12
    DEF Next, Step

\* So all three hold always.
LEMMA RefusalInvariant == Spec => []RefusalInv
<1>1. Init => RefusalInv
    BY ValidInit, MutexInit, CompleteInit DEF RefusalInv
<1>2. RefusalInv /\ [Next]_vars => RefusalInv'
    BY ValidNext, MutexNext, CompleteNext DEF RefusalInv
<1>3. QED  BY <1>1, <1>2, PTL DEF Spec

-----------------------------------------------------------------------------

\* During a cooldown a token is turned away that is good only if the last
\* download has not been stored or began before Logto published its key.
LEMMA CooldownExplained ==
    ASSUME RefusalInv, NEW t, Named(t), CachedKeyStatus(t.kid) = "Cooldown"
    PROVE  \/ BadToken(t, now)
           \/ /\ attemptedAt # None
              /\ now < attemptedAt + MinRefresh
              /\ \/ fetchedAt = None
                 \/ fetchedAt < attemptedAt
                 \/ PublishedFrom[t.kid] > attemptedAt
<1>0. /\ t.kid \in Kids /\ now \in Nat
      /\ fetchedAt \in Nat \cup {None} /\ attemptedAt \in Nat \cup {None}
      /\ PublishedFrom[t.kid] \in Nat /\ PublishedUntil[t.kid] \in Nat
      /\ None \notin Nat /\ JwksTTL \in Nat /\ MinRefresh \in Nat /\ MinRefresh <= JwksTTL
    BY LogtoAssumption, WindowTypes DEF RefusalInv, ValidInv, TypeInv, Named, Time
<1>1. /\ attemptedAt # None /\ now < attemptedAt + MinRefresh
      /\ ~ (Fresh(fetchedAt) /\ t.kid \in keys)
    BY <1>0 DEF CachedKeyStatus, Elapsed
<1>2. CASE fetchedAt # None /\ attemptedAt <= fetchedAt
    <2>1. Fresh(fetchedAt)
        BY <1>0, <1>1, <1>2 DEF Fresh, Elapsed
    <2>2. t.kid \in Kids \ keys
        BY <1>0, <1>1, <2>1
    <2>3. PublishedFrom[t.kid] > attemptedAt \/ PublishedUntil[t.kid] <= now
        BY <1>2, <2>2 DEF RefusalInv, CompleteInv, Lacks
    <2>4. PublishedUntil[t.kid] <= now => ~ (now < PublishedUntil[t.kid])
        BY <1>0
    <2>5. QED  BY <1>1, <2>3, <2>4 DEF BadToken
<1>3. QED  BY <1>0, <1>1, <1>2

\* A good token is refused only while decoding_key_for() is in its cooldown,
\* and then only if the download that started it has not been stored or began
\* before Logto published the token's key.
THEOREM RefusalsExplained == Spec => RefusalExplained
<1> DEFINE Explained(r) ==
        \/ BadToken(rq'[r].token, now)
        \/ /\ attemptedAt' # None
           /\ now < attemptedAt' + MinRefresh
           /\ \/ fetchedAt' = None
              \/ fetchedAt' < attemptedAt'
              \/ PublishedFrom[rq'[r].token.kid] > attemptedAt'
<1>1. ASSUME RefusalInv, [Next]_vars, NEW r \in Requests,
             rq[r].pc # "refused", rq'[r].pc = "refused"
      PROVE  Explained(r)
    <2>0. TypeInv /\ CallsInv /\ MutexInv /\ CompleteInv
        BY <1>1 DEF RefusalInv, ValidInv
    <2>1. CASE Arrive(r)
        <3>1. rq'[r].token.kid = None
            BY <1>1, <2>0, <2>1, ArriveCall
        <3>2. QED  BY <3>1 DEF BadToken
    <2>2. CASE Status(r)
        <3>1. /\ Named(rq[r].token)
              /\ UNCHANGED <<fetchedAt, attemptedAt>>
            BY <2>0, <2>2 DEF Status, jwks, CallsInv, CallInv
        <3>2. Goto(r, "verify") \/ Goto(r, "lockwait") => rq'[r].pc # "refused"
            BY <2>0, GotoCall
        <3>3. CachedKeyStatus(rq[r].token.kid) = "Cooldown" /\ Answer(r, "refused")
            BY <1>1, <2>2, <3>2 DEF Status, CachedKeyStatus
        <3>4. rq'[r].token = rq[r].token
            BY <2>0, <3>3, AnswerCall DEF Answered
        <3>5. QED  BY <1>1, <3>1, <3>3, <3>4, CooldownExplained
    <2>3. CASE Recheck(r)
        <3>1. /\ Named(rq[r].token) /\ fetchedAt' = fetchedAt
            BY <2>0, <2>3 DEF Recheck, CallsInv, CallInv
        <3>2. /\ Goto(r, "verify") => rq'[r].pc # "refused"
              /\ rq' = [rq EXCEPT ![r].pc = "fetching", ![r].since = now]
                    => rq'[r].pc # "refused"
            BY <2>0, GotoCall, DownloadCall
        <3>3. /\ CachedKeyStatus(rq[r].token.kid) = "Cooldown" /\ Answer(r, "refused")
              /\ attemptedAt' = attemptedAt
            BY <1>1, <2>3, <3>2 DEF Recheck, RecheckedKeyStatus
        <3>4. rq'[r].token = rq[r].token
            BY <2>0, <3>3, AnswerCall DEF Answered
        <3>5. QED  BY <1>1, <3>1, <3>3, <3>4, CooldownExplained
    <2>4. CASE Store(r)
        <3> DEFINE k == rq[r].token.kid
        <3>1. /\ rq[r].pc = "receiving" /\ attemptedAt = rq[r].since
              /\ attemptedAt' = attemptedAt /\ k \in Kids /\ k \notin rq[r].snap
              /\ rq'[r].token = rq[r].token
            <4>1. rq[r].pc = "receiving" /\ keys' = Identified(rq[r].snap)
                  /\ attemptedAt' = attemptedAt
                BY <2>4 DEF Store
            <4>2. k \notin keys' /\ rq'[r].token = rq[r].token
                BY <1>1, <2>0, <2>4, StoreCall
            <4>3. k \in Kids /\ attemptedAt = rq[r].since
                BY <2>0, <4>1 DEF CallsInv, CallInv, Named, MutexInv
            <4>4. QED  BY <4>1, <4>2, <4>3, LogtoAssumption DEF Identified
        <3>2. /\ now \in Nat /\ rq[r].since \in Nat /\ FetchTimeout \in Nat
              /\ MinRefresh \in Nat /\ FetchTimeout < MinRefresh /\ None \notin Nat
              /\ PublishedUntil[k] \in Nat /\ now <= rq[r].since + FetchTimeout
            BY <2>0, <3>1, WindowTypes, LogtoAssumption
            DEF CallsInv, CallInv, TypeInv, Calls, Time
        <3>3. attemptedAt' # None /\ now < attemptedAt' + MinRefresh
            BY <3>1, <3>2
        <3>4. PublishedFrom[k] > attemptedAt \/ PublishedUntil[k] <= now
            BY <2>0, <3>1 DEF CompleteInv, Lacks
        <3>5. PublishedUntil[k] <= now => ~ (now < PublishedUntil[k])
            BY <3>2
        <3>6. QED  BY <3>1, <3>3, <3>4, <3>5 DEF BadToken
    <2>5. CASE Verify(r)
        <3>1. Named(rq[r].token) /\ now \in Nat /\ rq[r].token.exp \in Nat /\ Leeway \in Nat
            BY <2>0, <2>5, LogtoAssumption
            DEF Verify, CallsInv, CallInv, Named, TypeInv, Time
        <3>2. Answer(r, "accepted") => rq'[r].pc # "refused"
            BY <2>0, AnswerCall DEF Answered
        <3>3. ~ Decodes(rq[r].token) /\ Answer(r, "refused")
            BY <1>1, <2>5, <3>2 DEF Verify
        <3>4. rq'[r].token = rq[r].token
            BY <2>0, <3>3, AnswerCall DEF Answered
        <3>5. QED  BY <3>1, <3>3, <3>4 DEF Decodes, BadToken
    <2>6. CASE AcquireRefresh(r) \/ Respond(r) \/ FetchFail(r) \/ Disconnect(r)
        <3>1. \/ Goto(r, "recheck") \/ Respond(r)
              \/ Answer(r, "unavailable") \/ Answer(r, "dropped")
            BY <2>6 DEF AcquireRefresh, FetchFail, Disconnect
        <3>2. QED  BY <1>1, <2>0, <3>1, GotoCall, RespondCall, AnswerCall DEF Answered
    <2>7. ASSUME NEW q \in Requests, q # r, Arrive(q) \/ Step(q) \/ Disconnect(q)
          PROVE  rq'[r] = rq[r]
        <3>1. CASE Arrive(q) \/ Respond(q) \/ Store(q)
            BY <2>0, <2>7, <3>1, ArriveCall, RespondCall, StoreCall
        <3>2. CASE Status(q) \/ AcquireRefresh(q) \/ FetchFail(q) \/ Verify(q) \/ Disconnect(q)
            <4>1. \/ \E pc \in {"lockwait", "recheck", "verify"} : Goto(q, pc)
                  \/ \E pc \in Answered : Answer(q, pc)
                BY <3>2 DEF Status, CachedKeyStatus, AcquireRefresh, FetchFail, Verify,
                            Disconnect, Answered
            <4>2. QED  BY <2>0, <2>7, <4>1, GotoCall, AnswerCall
        <3>3. CASE Recheck(q)
            <4>1. \/ Goto(q, "verify") \/ Answer(q, "refused")
                  \/ rq' = [rq EXCEPT ![q].pc = "fetching", ![q].since = now]
                BY <3>3 DEF Recheck
            <4>2. QED  BY <2>0, <2>7, <4>1, GotoCall, AnswerCall, DownloadCall DEF Answered
        <3>4. QED  BY <2>7, <3>1, <3>2, <3>3 DEF Step
    <2>8. ASSUME NEW t \in Tokens, DropToken(t) PROVE rq' = rq
        BY <2>8 DEF DropToken
    <2>9. Tick \/ UNCHANGED vars => rq' = rq
        BY DEF Tick, vars
    <2>10. QED
        <3>1. CASE \E t \in Tokens : DropToken(t)
            BY <1>1, <2>8, <3>1
        <3>2. CASE Tick \/ UNCHANGED vars
            BY <1>1, <2>9, <3>2
        <3>3. ASSUME NEW q \in Requests, Arrive(q) \/ Step(q) \/ Disconnect(q)
              PROVE  Explained(r)
            <4>1. q = r
                BY <1>1, <2>7, <3>3
            <4>2. QED  BY <2>1, <2>2, <2>3, <2>4, <2>5, <2>6, <3>3, <4>1 DEF Step
        <3>4. QED  BY <1>1, <3>1, <3>2, <3>3 DEF Next
<1>2. RefusalInv /\ [Next]_vars =>
        [\A r \in Requests : rq[r].pc # "refused" /\ rq'[r].pc = "refused"
            => Explained(r)]_vars
    BY <1>1
<1>3. QED  BY <1>2, RefusalInvariant, PTL DEF Spec, RefusalExplained

=============================================================================
