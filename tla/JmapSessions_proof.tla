------------------------- MODULE JmapSessions_proof --------------------------
(***************************************************************************)
(* Proofs about the JMAP session cache: it stays bounded, a withdrawn      *)
(* credential dies with its last session, and a refusal is not undone, for *)
(* any number of requests and credentials and any interleaving.            *)
(***************************************************************************)
EXTENDS JmapSessions, FiniteSetTheorems, TLAPS

\* A request under way has a credential, its exchange is within the timeout,
\* and a session it is about to store was served before the revocation.
RequestInv(r) ==
    /\ IF rq[r].pc = "idle" THEN rq[r].cred = None ELSE rq[r].cred \in Credentials
    /\ rq[r].pc \in Ended => rq[r].phase = "auth"
    /\ rq[r].pc \in {"discovering", "discovered", "posting", "posted"} =>
          rq[r].since <= now /\ now <= rq[r].since + Timeout
    /\ rq[r].pc = "discovered" =>
          /\ rq[r].since <= rq[r].served
          /\ IsAuthenticated(rq[r].answer) => rq[r].served < RevokedAt[rq[r].cred]

\* A cached session was stored within a timeout of being served.
EntryInv(c) ==
    /\ sessions[c].cachedAt <= sessions[c].served + Timeout
    /\ IsAuthenticated(sessions[c].kind) => sessions[c].served < RevokedAt[c]

\* While a session outlives a refusal, some request still has to end: it will
\* take the session away or take the refusal back.
Pending(c) == \E r \in Requests : rq[r].cred = c /\ rq[r].pc \notin Ended

StickInv ==
    \A c \in Credentials :
        refusedAt[c] # None => Lookup(c) \in {None, "anonymous"} \/ Pending(c)

Typed ==
    /\ now \in Time
    /\ sessions \in [Credentials -> CachedSession \cup {None}]
    /\ rq \in [Requests -> Request]
    /\ refusedAt \in [Credentials -> Time \cup {None}]

CacheInv ==
    /\ \A c \in Cached : EntryInv(c)
    /\ IsFiniteSet(Cached)
    /\ Cardinality(Cached) <= SessionCap

SessionInv ==
    /\ Typed
    /\ \A r \in Requests : RequestInv(r)
    /\ CacheInv
    /\ StickInv

-----------------------------------------------------------------------------

\* session_insert() keeps the cache within SESSION_CAP.
LEMMA InsertBounded ==
    ASSUME IsFiniteSet(Cached), Cardinality(Cached) <= SessionCap,
           NEW c, NEW kept \in Survivors(c)
    PROVE  /\ kept \subseteq Cached
           /\ IsFiniteSet(kept \cup {c})
           /\ Cardinality(kept \cup {c}) \in Nat
           /\ Cardinality(kept \cup {c}) <= SessionCap
<1>0. SessionCap \in Nat \ {0}
    BY JmapSessionsAssumption
<1>1. Retained \subseteq Cached
    BY DEF Retained
<1>2. /\ IsFiniteSet(Retained)
      /\ Cardinality(Retained) \in Nat /\ Cardinality(Cached) \in Nat
      /\ Cardinality(Retained) <= Cardinality(Cached)
    BY <1>1, FS_Subset, FS_CardinalityType
<1>3. CASE Cardinality(Retained) >= SessionCap /\ c \notin Retained
    <2>1. PICK o \in Retained : kept = Retained \ {o}
        BY <1>3 DEF Survivors, Oldest
    <2>2. IsFiniteSet(kept) /\ Cardinality(kept) = Cardinality(Retained) - 1
        BY <1>2, <2>1, FS_RemoveElement
    <2>3. c \notin kept
        BY <1>3, <2>1
    <2>4. /\ IsFiniteSet(kept \cup {c})
          /\ Cardinality(kept \cup {c}) = Cardinality(kept) + 1
        BY <2>2, <2>3, FS_AddElement
    <2>5. QED  BY <1>0, <1>1, <1>2, <2>1, <2>2, <2>4
<1>4. CASE c \in Retained
    <2>1. kept = Retained /\ kept \cup {c} = Retained
        BY <1>4 DEF Survivors
    <2>2. QED  BY <1>0, <1>1, <1>2, <2>1
<1>5. CASE Cardinality(Retained) < SessionCap /\ c \notin Retained
    <2>1. kept = Retained
        BY <1>0, <1>2, <1>5 DEF Survivors
    <2>2. /\ IsFiniteSet(kept \cup {c})
          /\ Cardinality(kept \cup {c}) = Cardinality(kept) + 1
        BY <1>2, <1>5, <2>1, FS_AddElement
    <2>3. QED  BY <1>0, <1>1, <1>2, <1>5, <2>1, <2>2
<1>6. QED  BY <1>0, <1>2, <1>3, <1>4, <1>5

\* A cache that lost entries and kept the others as they were.
LEMMA ShrunkCache ==
    ASSUME CacheInv, \A c \in Cached' : c \in Cached /\ sessions'[c] = sessions[c]
    PROVE  CacheInv'
<1>1. Cached' \subseteq Cached
    OBVIOUS
<1>2. /\ IsFiniteSet(Cached')
      /\ Cardinality(Cached') \in Nat /\ Cardinality(Cached) \in Nat
      /\ Cardinality(Cached') <= Cardinality(Cached)
    BY <1>1, FS_Subset, FS_CardinalityType DEF CacheInv
<1>3. Cardinality(Cached') <= SessionCap
    BY <1>2, JmapSessionsAssumption DEF CacheInv
<1>4. QED  BY <1>2, <1>3 DEF CacheInv, EntryInv

\* evict()
LEMMA EvictedCache ==
    ASSUME Typed, CacheInv, NEW c \in Credentials, sessions' = Evicted(c)
    PROVE  CacheInv' /\ sessions' \in [Credentials -> CachedSession \cup {None}]
<1>1. \A d \in Cached' : d \in Cached /\ sessions'[d] = sessions[d]
    BY DEF Evicted, Cached, Typed
<1>2. QED  BY <1>1, ShrunkCache DEF Evicted, Typed

\* session_insert() of an answer that took no longer than the timeout.
LEMMA InsertedCache ==
    ASSUME Typed, CacheInv, NEW c \in Credentials, NEW kind \in Sessions,
           NEW served \in Time, SessionInsert(c, kind, served),
           now <= served + Timeout,
           IsAuthenticated(kind) => served < RevokedAt[c]
    PROVE  /\ CacheInv'
           /\ sessions' \in [Credentials -> CachedSession \cup {None}]
           /\ sessions'[c] = [kind |-> kind, cachedAt |-> now, served |-> served]
           /\ \A d \in Credentials \ {c} : sessions'[d] \in {sessions[d], None}
<1> DEFINE new == [kind |-> kind, cachedAt |-> now, served |-> served]
<1>1. PICK kept \in Survivors(c) :
         sessions' = [d \in Credentials |-> IF d = c THEN new
                                            ELSE IF d \in kept THEN sessions[d] ELSE None]
    BY DEF SessionInsert
<1>2. new \in CachedSession
    BY DEF CachedSession, Typed
<1>3. /\ sessions' \in [Credentials -> CachedSession \cup {None}]
      /\ sessions'[c] = new
      /\ \A d \in Credentials \ {c} : sessions'[d] \in {sessions[d], None}
    <2> HIDE DEF new
    <2>1. QED  BY <1>1, <1>2 DEF Typed
<1>4. /\ kept \subseteq Cached
      /\ IsFiniteSet(kept \cup {c})
      /\ Cardinality(kept \cup {c}) \in Nat
      /\ Cardinality(kept \cup {c}) <= SessionCap
    BY InsertBounded DEF CacheInv
<1>5. Cached' \subseteq kept \cup {c}
    BY <1>1 DEF Cached
<1>6. IsFiniteSet(Cached') /\ Cardinality(Cached') <= SessionCap
    <2>1. /\ IsFiniteSet(Cached') /\ Cardinality(Cached') \in Nat
          /\ Cardinality(Cached') <= Cardinality(kept \cup {c})
        BY <1>4, <1>5, FS_Subset, FS_CardinalityType
    <2>2. QED  BY <1>4, <2>1, JmapSessionsAssumption
<1>7. ASSUME NEW d \in Cached' PROVE EntryInv(d)'
    <2>1. CASE d = c
        <3>1. sessions'[d] = new
            BY <1>3, <2>1
        <3>2. QED  BY <2>1, <3>1 DEF EntryInv
    <2>2. CASE d # c
        <3>1. d \in Credentials /\ sessions'[d] # None
            BY <1>7 DEF Cached
        <3>2. d \in Cached /\ sessions'[d] = sessions[d]
            BY <1>3, <2>2, <3>1 DEF Cached
        <3>3. QED  BY <3>2 DEF CacheInv, EntryInv
    <2>3. QED  BY <2>1, <2>2
<1>8. QED  BY <1>3, <1>6, <1>7 DEF CacheInv

-----------------------------------------------------------------------------

\* How End() and Continue() leave the request, and the other requests.
LEMMA EndRequest ==
    ASSUME Typed, NEW r \in Requests, rq[r].cred \in Credentials, NEW how \in Ended,
           End(r, how)
    PROVE  /\ rq' \in [Requests -> Request]
           /\ refusedAt' \in [Credentials -> Time \cup {None}]
           /\ \A q \in Requests \ {r} : rq'[q] = rq[q]
           /\ rq'[r].pc = how /\ rq'[r].cred = rq[r].cred /\ rq'[r].phase = "auth"
           /\ \A c \in Credentials \ {rq[r].cred} : refusedAt'[c] = refusedAt[c]
           /\ how \notin {"unauthorized", "upstream", "rejected"}
                 => refusedAt'[rq[r].cred] = None
<1> DEFINE since == IF how \in {"verified", "nobody"} THEN now ELSE 0
           new == [Fresh EXCEPT !.pc = how, !.cred = rq[r].cred, !.since = since]
           mark == IF how \in {"unauthorized", "upstream", "rejected"} THEN now ELSE None
<1>1. rq \in [Requests -> Request] /\ since \in Time /\ mark \in Time \cup {None}
    BY DEF Typed, Time
<1>2. new \in Request /\ new.pc = how /\ new.cred = rq[r].cred /\ new.phase = "auth"
    <2> HIDE DEF since
    <2>1. QED  BY <1>1 DEF Fresh, Request, Time
<1>3. /\ rq' = [rq EXCEPT ![r] = new]
      /\ refusedAt' = [refusedAt EXCEPT ![rq[r].cred] = mark]
    BY DEF End
<1>4. /\ rq' \in [Requests -> Request] /\ rq'[r] = new
      /\ \A q \in Requests \ {r} : rq'[q] = rq[q]
    <2> HIDE DEF new
    <2>1. QED  BY <1>1, <1>2, <1>3
<1>5. /\ refusedAt' \in [Credentials -> Time \cup {None}]
      /\ refusedAt'[rq[r].cred] = mark
      /\ \A c \in Credentials \ {rq[r].cred} : refusedAt'[c] = refusedAt[c]
    <2> HIDE DEF mark
    <2>1. QED  BY <1>1, <1>3 DEF Typed
<1>6. QED
    <2> HIDE DEF new
    <2>1. QED  BY <1>2, <1>4, <1>5

\* A request that goes on without ending leaves what it owes to others.
LEMMA ContinueRequest ==
    ASSUME Typed, NEW r \in Requests,
           NEW pc \in {"lookup", "discovering", "posting", "reacting"},
           NEW phase \in {"auth", "account", "call", "verify"},
           Continue(r, pc, phase)
    PROVE  /\ rq' \in [Requests -> Request]
           /\ refusedAt' = refusedAt
           /\ \A q \in Requests \ {r} : rq'[q] = rq[q]
           /\ rq'[r].pc = pc /\ rq'[r].cred = rq[r].cred /\ rq'[r].phase = phase
           /\ rq'[r].since = now
<1> DEFINE new == [rq[r] EXCEPT !.pc = pc, !.phase = phase, !.answer = None,
                                !.since = now, !.served = 0]
<1>1. rq \in [Requests -> Request] /\ now \in Time
    BY DEF Typed
<1>2. /\ new \in Request /\ new.pc = pc /\ new.cred = rq[r].cred /\ new.phase = phase
      /\ new.since = now
    BY <1>1 DEF Request, Time
<1>3. rq' = [rq EXCEPT ![r] = new] /\ refusedAt' = refusedAt
    BY <1>1 DEF Continue
<1>4. QED
    <2> HIDE DEF new
    <2>1. QED  BY <1>1, <1>2, <1>3

\* What may follow a session that session_for() returned.
LEMMA ProceedCases ==
    ASSUME NEW r \in Requests, NEW kind \in Sessions, Proceed(r, kind),
           rq[r].phase \in {"auth", "account", "call", "verify"}
    PROVE  \/ /\ \E phase \in {"account", "verify"} : Continue(r, "lookup", phase)
              /\ IsAuthenticated(kind)
           \/ rq[r].phase # "auth" /\ Continue(r, "lookup", "call")
           \/ rq[r].phase # "auth" /\ Continue(r, "posting", "call")
           \/ End(r, "rejected") /\ kind = "anonymous"
           \/ End(r, "error")
           \/ End(r, "verified") /\ IsAuthenticated(kind)
           \/ End(r, "nobody")
<1>1. CASE rq[r].phase = "auth"
    BY <1>1 DEF Proceed, IsAuthenticated, Sessions
<1>2. CASE rq[r].phase = "account"
    BY <1>2 DEF Proceed
<1>3. CASE rq[r].phase = "call"
    BY <1>3 DEF Proceed
<1>4. CASE rq[r].phase = "verify"
    BY <1>4 DEF Proceed, VerifySession
<1>5. QED  BY <1>1, <1>2, <1>3, <1>4

\* The empty cache satisfies the invariant.
LEMMA SessionInit == Init => SessionInv
<1> SUFFICES ASSUME Init PROVE SessionInv
    OBVIOUS
<1> USE DEF Init
<1>1. Typed
    BY DEF Typed, Request, Fresh, Time
<1>2. \A r \in Requests : RequestInv(r)
    BY DEF RequestInv, Fresh, Ended
<1>3. Cached = {}
    BY DEF Cached
<1>4. CacheInv
    BY <1>3, FS_EmptySet, JmapSessionsAssumption DEF CacheInv
<1>5. StickInv
    BY DEF StickInv
<1>6. QED  BY <1>1, <1>2, <1>4, <1>5 DEF SessionInv

\* A step of one request has only that request and the session of its
\* credential to answer for.
LEMMA RequestStep ==
    ASSUME SessionInv, Typed', CacheInv', NEW r \in Requests, NEW c \in Credentials,
           rq[r].cred = c, rq'[r].cred = c, now' = now,
           \A q \in Requests \ {r} : rq'[q] = rq[q],
           \A d \in Credentials \ {c} :
               refusedAt'[d] = refusedAt[d] /\ sessions'[d] \in {sessions[d], None},
           RequestInv(r)',
           \/ rq'[r].pc \notin Ended
           \/ refusedAt'[c] # None => Lookup(c)' \in {None, "anonymous"}
    PROVE  SessionInv'
<1>1. ASSUME NEW q \in Requests PROVE RequestInv(q)'
    <2>1. CASE q # r
        <3>1. RequestInv(q) /\ rq'[q] = rq[q]
            BY <2>1 DEF SessionInv
        <3>2. QED  BY <3>1 DEF RequestInv
    <2>2. QED  BY <2>1
<1>2. ASSUME NEW d \in Credentials, refusedAt'[d] # None
      PROVE  Lookup(d)' \in {None, "anonymous"} \/ Pending(d)'
    <2>1. CASE d = c
        BY <1>2, <2>1 DEF Pending
    <2>2. CASE d # c
        <3>1. /\ refusedAt[d] # None
              /\ Lookup(d) \in {None, "anonymous"} \/ Pending(d)
            BY <1>2, <2>2 DEF SessionInv, StickInv
        <3>2. Lookup(d)' \in {Lookup(d), None}
            <4>1. sessions'[d] \in {sessions[d], None}
                BY <2>2
            <4>2. CASE sessions'[d] = None
                BY <4>2 DEF Lookup
            <4>3. CASE sessions'[d] = sessions[d]
                BY <4>3 DEF Lookup, Unexpired
            <4>4. QED  BY <4>1, <4>2, <4>3
        <3>3. Pending(d) => Pending(d)'
            BY <2>2 DEF Pending
        <3>4. QED  BY <3>1, <3>2, <3>3
    <2>3. QED  BY <2>1, <2>2
<1>3. QED  BY <1>1, <1>2 DEF SessionInv, StickInv

\* The 401 and 403 of a discovery or a call, and every other failure of one.
LEMMA FailedStep ==
    ASSUME SessionInv, NEW r \in Requests, rq[r].pc # "idle", now' = now, FailedSession(r)
    PROVE  SessionInv'
<1> DEFINE c == rq[r].cred
<1>0. /\ Typed /\ CacheInv /\ c \in Credentials
      /\ rq[r].phase \in {"auth", "account", "call", "verify"}
    BY DEF SessionInv, RequestInv, Typed, Request
<1>1. CASE rq[r].answer = "refused"
    <2>1. sessions' = Evicted(c)
        BY <1>1 DEF FailedSession
    <2>2. CacheInv' /\ sessions' \in [Credentials -> CachedSession \cup {None}]
        BY <1>0, <2>1, EvictedCache
    <2>3. /\ sessions'[c] = None
          /\ \A d \in Credentials \ {c} : sessions'[d] \in {sessions[d], None}
        BY <1>0, <2>1 DEF Evicted, Typed
    <2>4. ASSUME NEW d \in Credentials, d = c PROVE Lookup(d)' = None
        BY <2>3, <2>4 DEF Lookup
    <2>5. CASE End(r, "rejected")
        <3>1. Typed'
            BY <1>0, <2>2, <2>5, EndRequest DEF Typed, Ended
        <3>2. rq'[r].pc = "rejected" /\ rq'[r].cred = c /\ rq'[r].phase = "auth"
            BY <1>0, <2>5, EndRequest DEF Ended
        <3>3. RequestInv(r)'
            BY <1>0, <3>2 DEF RequestInv, Ended
        <3>4. QED  BY <1>0, <2>2, <2>3, <2>4, <2>5, <3>1, <3>2, <3>3, EndRequest, RequestStep DEF Ended
    <2>6. CASE Continue(r, "reacting", rq[r].phase)
        <3>1. Typed'
            BY <1>0, <2>2, <2>6, ContinueRequest DEF Typed
        <3>2. rq'[r].pc = "reacting" /\ rq'[r].cred = c
            BY <1>0, <2>6, ContinueRequest
        <3>3. RequestInv(r)'
            BY <1>0, <3>2 DEF RequestInv, Ended
        <3>4. rq'[r].pc \notin Ended
            BY <3>2 DEF Ended
        <3>5. QED  BY <1>0, <2>2, <2>3, <2>6, <3>1, <3>2, <3>3, <3>4, ContinueRequest, RequestStep
    <2>7. QED  BY <1>1, <2>5, <2>6 DEF FailedSession
<1>2. CASE rq[r].answer # "refused"
    <2>1. End(r, "error") /\ sessions' = sessions
        BY <1>2 DEF FailedSession
    <2>2. Typed'
        BY <1>0, <2>1, EndRequest DEF Typed, Ended
    <2>3. CacheInv'
        BY <1>0, <2>1, ShrunkCache DEF Cached
    <2>4. rq'[r].pc = "error" /\ rq'[r].cred = c /\ rq'[r].phase = "auth"
        BY <1>0, <2>1, EndRequest DEF Ended
    <2>5. RequestInv(r)'
        BY <1>0, <2>4 DEF RequestInv, Ended
    <2>6. QED  BY <1>0, <2>1, <2>2, <2>3, <2>4, <2>5, EndRequest, RequestStep DEF Ended
<1>3. QED  BY <1>1, <1>2

\* Every step keeps it.
LEMMA SessionNext == SessionInv /\ [Next]_vars => SessionInv'
<1> SUFFICES ASSUME SessionInv, [Next]_vars PROVE SessionInv'
    OBVIOUS
<1>0. Typed /\ CacheInv /\ now \in Nat /\ Timeout \in Nat /\ now <= now /\ now <= now + Timeout
    BY JmapSessionsAssumption DEF SessionInv, Typed, Time
<1>1. ASSUME NEW r \in Requests, Arrive(r) PROVE SessionInv'
    <2>1. PICK c \in Credentials, phase \in {"auth", "account", "verify"} :
             rq' = [rq EXCEPT ![r] = [Fresh EXCEPT !.pc = "lookup", !.cred = c,
                                                   !.phase = phase]]
        BY <1>1 DEF Arrive, ExtractCredential
    <2>2. UNCHANGED <<now, sessions, refusedAt>>
        BY <1>1 DEF Arrive
    <2>3. /\ rq' \in [Requests -> Request]
          /\ \A q \in Requests \ {r} : rq'[q] = rq[q]
          /\ rq'[r].pc = "lookup" /\ rq'[r].cred = c
        BY <1>0, <2>1 DEF Typed, Request, Fresh, Time
    <2>4. Typed'
        BY <1>0, <2>2, <2>3 DEF Typed
    <2>5. CacheInv'
        BY <1>0, <2>2, ShrunkCache DEF Cached
    <2>6. ASSUME NEW q \in Requests PROVE RequestInv(q)'
        <3>1. CASE q = r
            BY <2>3, <3>1 DEF RequestInv, Ended
        <3>2. CASE q # r
            <4>1. RequestInv(q) /\ rq'[q] = rq[q]
                BY <2>3, <3>2 DEF SessionInv
            <4>2. QED  BY <2>2, <4>1 DEF RequestInv
        <3>3. QED  BY <3>1, <3>2
    <2>7. StickInv'
        <3> SUFFICES ASSUME NEW d \in Credentials, refusedAt[d] # None
                     PROVE  Lookup(d)' \in {None, "anonymous"} \/ Pending(d)'
            BY <2>2 DEF StickInv
        <3>1. Lookup(d)' = Lookup(d)
            BY <2>2 DEF Lookup, Unexpired
        <3>2. \A q \in Requests : rq[q].cred = d /\ rq[q].pc \notin Ended => q # r
            BY <1>1, JmapSessionsAssumption DEF Arrive, SessionInv, RequestInv
        <3>3. Pending(d) => Pending(d)'
            BY <2>3, <3>2 DEF Pending
        <3>4. QED  BY <3>1, <3>3 DEF SessionInv, StickInv
    <2>8. QED  BY <2>4, <2>5, <2>6, <2>7 DEF SessionInv
<1>2. ASSUME NEW r \in Requests, SessionFor(r) PROVE SessionInv'
    <2> DEFINE c == rq[r].cred
    <2>1. /\ c \in Credentials /\ UNCHANGED <<now, sessions>>
          /\ rq[r].phase \in {"auth", "account", "call", "verify"}
        BY <1>0, <1>2 DEF SessionFor, SessionInv, RequestInv, Typed, Request
    <2>2. CacheInv'
        BY <1>0, <2>1, ShrunkCache DEF Cached
    <2>3. ASSUME NEW pc \in {"lookup", "discovering", "posting"},
                 NEW phase \in {"auth", "account", "call", "verify"},
                 Continue(r, pc, phase)
          PROVE  SessionInv'
        <3>1. Typed'
            BY <1>0, <2>1, <2>3, ContinueRequest DEF Typed
        <3>2. rq'[r].pc = pc /\ rq'[r].cred = c /\ rq'[r].since = now /\ refusedAt' = refusedAt
            BY <1>0, <2>3, ContinueRequest
        <3>3. RequestInv(r)'
            BY <1>0, <2>1, <3>2 DEF RequestInv, Ended
        <3>4. pc \notin Ended
            BY DEF Ended
        <3>5. QED  BY <1>0, <2>1, <2>2, <2>3, <3>1, <3>2, <3>3, <3>4, ContinueRequest, RequestStep
    <2>4. ASSUME NEW how \in Ended, End(r, how),
                 how = "rejected" => Lookup(c) = "anonymous",
                 how \notin {"unauthorized", "upstream"}
          PROVE  SessionInv'
        <3>1. Typed'
            BY <1>0, <2>1, <2>4, EndRequest DEF Typed
        <3>2. rq'[r].pc = how /\ rq'[r].cred = c /\ rq'[r].phase = "auth"
            BY <1>0, <2>1, <2>4, EndRequest
        <3>3. RequestInv(r)'
            BY <2>1, <2>4, <3>2 DEF RequestInv, Ended
        <3>4. ASSUME NEW d \in Credentials, d = c, refusedAt'[d] # None
              PROVE  Lookup(d)' \in {None, "anonymous"}
            <4>1. how = "rejected"
                BY <1>0, <2>1, <2>4, <3>4, EndRequest
            <4>2. QED  BY <2>1, <2>4, <3>4, <4>1 DEF Lookup, Unexpired
        <3>5. QED  BY <1>0, <2>1, <2>2, <2>4, <3>1, <3>2, <3>3, <3>4, EndRequest, RequestStep
    <2>5. CASE Lookup(c) # None /\ Proceed(r, Lookup(c))
        <3>1. Lookup(c) \in Sessions
            BY <1>0, <2>1, <2>5 DEF Lookup, Typed, CachedSession
        <3>2. QED
            BY <2>1, <2>3, <2>4, <2>5, <3>1, ProceedCases DEF Ended
    <2>6. CASE Continue(r, "discovering", rq[r].phase)
        BY <2>1, <2>3, <2>6
    <2>7. QED  BY <1>2, <2>5, <2>6 DEF SessionFor
<1>3. ASSUME NEW r \in Requests, Serve(r) PROVE SessionInv'
    <2> DEFINE c == rq[r].cred
    <2>1. c \in Credentials /\ UNCHANGED <<now, sessions, refusedAt>>
        BY <1>0, <1>3 DEF Serve, SessionInv, RequestInv
    <2>2. CacheInv'
        BY <1>0, <2>1, ShrunkCache DEF Cached
    <2>3. PICK a \in Answers :
             /\ rq' = [rq EXCEPT ![r].answer = a, ![r].served = now,
                          ![r].pc = IF @ = "discovering" THEN "discovered" ELSE "posted"]
             /\ IsAuthenticated(a) => ~ (now >= RevokedAt[c])
        BY <1>3 DEF Serve, Answers, Sessions, IsAuthenticated
    <2>4. /\ rq' \in [Requests -> Request]
          /\ \A q \in Requests \ {r} : rq'[q] = rq[q]
          /\ rq'[r].cred = c /\ rq'[r].since = rq[r].since
          /\ rq'[r].served = now /\ rq'[r].answer = a
          /\ rq'[r].pc \in {"discovered", "posted"}
        <3> DEFINE pc == IF rq[r].pc = "discovering" THEN "discovered" ELSE "posted"
                   new == [rq[r] EXCEPT !.answer = a, !.served = now, !.pc = pc]
        <3>1. rq' = [rq EXCEPT ![r] = new]
            BY <1>0, <2>3 DEF Typed
        <3>2. pc \in {"discovered", "posted"}
            OBVIOUS
        <3>3. /\ new \in Request /\ new.cred = c /\ new.since = rq[r].since
              /\ new.served = now /\ new.answer = a /\ new.pc = pc
            <4> HIDE DEF pc
            <4>1. QED  BY <1>0, <3>2 DEF Typed, Request, Time
        <3>4. QED
            <4> HIDE DEF new, pc
            <4>1. QED  BY <1>0, <3>1, <3>2, <3>3 DEF Typed
    <2>5. RequestInv(r)'
        <3>1. rq[r].since <= now /\ now <= rq[r].since + Timeout
            BY <1>3 DEF Serve, SessionInv, RequestInv
        <3>2. IsAuthenticated(a) => now < RevokedAt[c]
            BY <1>0, <2>1, <2>3, JmapSessionsAssumption DEF Time
        <3>3. QED  BY <2>1, <2>4, <3>1, <3>2 DEF RequestInv, Ended
    <2>6. Typed' /\ rq'[r].pc \notin Ended
        BY <1>0, <2>1, <2>4 DEF Typed, Ended
    <2>7. QED  BY <2>1, <2>2, <2>4, <2>5, <2>6, RequestStep
<1>4. ASSUME NEW r \in Requests, Discovered(r) PROVE SessionInv'
    <2> DEFINE c == rq[r].cred
               kind == rq[r].answer
    <2>1. /\ c \in Credentials /\ now' = now /\ rq[r].pc = "discovered"
          /\ rq[r].phase \in {"auth", "account", "call", "verify"}
          /\ rq[r].served \in Time /\ rq[r].since \in Time
        BY <1>0, <1>4 DEF Discovered, SessionInv, RequestInv, Typed, Request
    <2>2. CASE ~ IsSuccess(kind) /\ FailedSession(r)
        BY <2>1, <2>2, FailedStep
    <2>3. CASE IsSuccess(kind) /\ SessionInsert(c, kind, rq[r].served) /\ Proceed(r, kind)
        <3>0. kind \in Sessions
            BY <2>3 DEF IsSuccess
        <3>1. /\ now <= rq[r].served + Timeout
              /\ IsAuthenticated(kind) => rq[r].served < RevokedAt[c]
            BY <1>0, <2>1 DEF SessionInv, RequestInv, Time
        <3>2. /\ CacheInv'
              /\ sessions' \in [Credentials -> CachedSession \cup {None}]
              /\ sessions'[c] = [kind |-> kind, cachedAt |-> now, served |-> rq[r].served]
              /\ \A d \in Credentials \ {c} : sessions'[d] \in {sessions[d], None}
            BY <1>0, <2>1, <2>3, <3>0, <3>1, InsertedCache
        <3>3. ASSUME NEW pc \in {"lookup", "posting"}, NEW phase \in {"account", "call", "verify"},
                     Continue(r, pc, phase)
              PROVE  SessionInv'
            <4>1. Typed'
                BY <1>0, <2>1, <3>2, <3>3, ContinueRequest DEF Typed
            <4>2. rq'[r].pc = pc /\ rq'[r].cred = c /\ rq'[r].since = now /\ refusedAt' = refusedAt
                BY <1>0, <3>3, ContinueRequest
            <4>3. RequestInv(r)'
                BY <1>0, <2>1, <4>2 DEF RequestInv, Ended
            <4>4. pc \notin Ended
                BY DEF Ended
            <4>5. QED  BY <1>0, <2>1, <3>2, <3>3, <4>1, <4>2, <4>3, <4>4, ContinueRequest, RequestStep
        <3>4. ASSUME NEW how \in {"rejected", "error", "verified", "nobody"}, End(r, how),
                     how = "rejected" => kind = "anonymous"
              PROVE  SessionInv'
            <4>0. how \in Ended
                BY DEF Ended
            <4>1. Typed'
                BY <1>0, <2>1, <3>2, <3>4, <4>0, EndRequest DEF Typed
            <4>2. rq'[r].pc = how /\ rq'[r].cred = c /\ rq'[r].phase = "auth"
                BY <1>0, <2>1, <3>4, <4>0, EndRequest
            <4>3. RequestInv(r)'
                BY <2>1, <4>2 DEF RequestInv, Ended
            <4>4. ASSUME NEW d \in Credentials, d = c, refusedAt'[d] # None
                  PROVE  Lookup(d)' \in {None, "anonymous"}
                <5>1. how = "rejected"
                    BY <1>0, <2>1, <3>4, <4>0, <4>4, EndRequest
                <5>2. QED  BY <3>2, <3>4, <4>4, <5>1 DEF Lookup
            <4>5. QED  BY <1>0, <2>1, <3>2, <3>4, <4>0, <4>1, <4>2, <4>3, <4>4, EndRequest, RequestStep
        <3>5. QED  BY <2>1, <2>3, <3>0, <3>3, <3>4, ProceedCases
    <2>4. QED  BY <1>4, <2>2, <2>3 DEF Discovered
<1>5. ASSUME NEW r \in Requests, Posted(r) PROVE SessionInv'
    <2> DEFINE c == rq[r].cred
    <2>1. c \in Credentials /\ now' = now /\ rq[r].pc = "posted"
        BY <1>0, <1>5 DEF Posted, SessionInv, RequestInv
    <2>2. CASE FailedSession(r)
        BY <2>1, <2>2, FailedStep
    <2>3. CASE End(r, "done") /\ sessions' = sessions
        <3>1. Typed'
            BY <1>0, <2>1, <2>3, EndRequest DEF Typed, Ended
        <3>2. CacheInv'
            BY <1>0, <2>3, ShrunkCache DEF Cached
        <3>3. rq'[r].pc = "done" /\ rq'[r].cred = c /\ rq'[r].phase = "auth"
            BY <1>0, <2>1, <2>3, EndRequest DEF Ended
        <3>4. RequestInv(r)'
            BY <2>1, <3>3 DEF RequestInv, Ended
        <3>5. QED  BY <1>0, <2>1, <2>3, <3>1, <3>2, <3>3, <3>4, EndRequest, RequestStep DEF Ended
    <2>4. QED  BY <1>5, <2>2, <2>3 DEF Posted
<1>6. ASSUME NEW r \in Requests, React(r) PROVE SessionInv'
    <2> DEFINE c == rq[r].cred
    <2>1. c \in Credentials /\ now' = now /\ sessions' = Evicted(c)
        BY <1>0, <1>6 DEF React, SessionInv, RequestInv
    <2>2. PICK how \in {"upstream", "unauthorized"} : End(r, how)
        BY <1>6 DEF React
    <2>3. how \in Ended
        BY DEF Ended
    <2>4. CacheInv' /\ sessions' \in [Credentials -> CachedSession \cup {None}]
        BY <1>0, <2>1, EvictedCache
    <2>5. Typed'
        BY <1>0, <2>1, <2>2, <2>3, <2>4, EndRequest DEF Typed
    <2>6. rq'[r].pc = how /\ rq'[r].cred = c /\ rq'[r].phase = "auth"
        BY <1>0, <2>1, <2>2, <2>3, EndRequest
    <2>7. RequestInv(r)'
        BY <2>1, <2>6 DEF RequestInv, Ended
    <2>8. /\ sessions'[c] = None
          /\ \A d \in Credentials \ {c} : sessions'[d] \in {sessions[d], None}
        BY <1>0, <2>1 DEF Evicted, Typed
    <2>9. ASSUME NEW d \in Credentials, d = c PROVE Lookup(d)' = None
        BY <2>8, <2>9 DEF Lookup
    <2>10. QED
        BY <1>0, <2>1, <2>2, <2>3, <2>4, <2>5, <2>6, <2>7, <2>8, <2>9, EndRequest, RequestStep
<1>7. CASE Tick
    <2>1. now' = now + 1 /\ UNCHANGED <<sessions, rq, refusedAt>>
        BY <1>7 DEF Tick
    <2>2. Typed'
        BY <1>0, <2>1 DEF Typed, Time
    <2>3. CacheInv'
        BY <1>0, <2>1, ShrunkCache DEF Cached
    <2>4. ASSUME NEW r \in Requests PROVE RequestInv(r)'
        <3>1. RequestInv(r) /\ rq[r].since \in Nat
            BY <1>0 DEF SessionInv, Typed, Request, Time
        <3>2. rq[r].pc \in {"discovering", "discovered", "posting", "posted"}
                 => now < rq[r].since + Timeout
            BY <1>7 DEF Tick
        <3>3. QED  BY <1>0, <2>1, <3>1, <3>2 DEF RequestInv
    <2>5. StickInv'
        <3> SUFFICES ASSUME NEW c \in Credentials, refusedAt[c] # None
                     PROVE  Lookup(c)' \in {None, "anonymous"} \/ Pending(c)'
            BY <2>1 DEF StickInv
        <3>1. Lookup(c) \in {None, "anonymous"} \/ Pending(c)
            BY DEF SessionInv, StickInv
        <3>2. Pending(c) => Pending(c)'
            BY <2>1 DEF Pending
        <3>3. Lookup(c)' \in {Lookup(c), None}
            <4>1. CASE sessions[c] # None
                <5>1. sessions[c].cachedAt \in Nat /\ SessionTTL \in Nat
                    BY <1>0, <4>1, JmapSessionsAssumption DEF Typed, CachedSession, Time
                <5>2. Unexpired(c)' => Unexpired(c)
                    BY <1>0, <2>1, <5>1 DEF Unexpired
                <5>3. QED  BY <2>1, <5>2 DEF Lookup
            <4>2. CASE sessions[c] = None
                BY <2>1, <4>2 DEF Lookup
            <4>3. QED  BY <4>1, <4>2
        <3>4. QED  BY <3>1, <3>2, <3>3
    <2>6. QED  BY <2>2, <2>3, <2>4, <2>5 DEF SessionInv
<1>8. CASE UNCHANGED vars
    <2>1. UNCHANGED <<now, sessions, rq, refusedAt>>
        BY <1>8 DEF vars
    <2>2. Typed' /\ CacheInv' /\ \A r \in Requests : RequestInv(r)'
        BY <1>0, <2>1, ShrunkCache DEF SessionInv, Typed, Cached, RequestInv
    <2>3. StickInv'
        BY <2>1 DEF SessionInv, StickInv, Lookup, Unexpired, Pending
    <2>4. QED  BY <2>2, <2>3 DEF SessionInv
<1>9. QED
    BY <1>1, <1>2, <1>3, <1>4, <1>5, <1>6, <1>7, <1>8 DEF Next, Step

\* So it holds always.
LEMMA SessionInvariant == Spec => []SessionInv
BY SessionInit, SessionNext, PTL DEF Spec

\* Every variable keeps its type, and SESSION_CAP holds however many discoveries
\* are under way when the cache is full.
THEOREM SessionsTyped == Spec => []TypeOK
<1>1. SessionInv => TypeOK
    BY DEF SessionInv, Typed, CacheInv, TypeOK
<1>2. QED  BY <1>1, SessionInvariant, PTL

\* After a refusal no session that belongs to somebody is left once the last
\* request of the credential has ended, also when a discovery that was under
\* way stored its session after the eviction.
THEOREM RefusalsStick == Spec => []RefusalSticks
<1>1. SessionInv => RefusalSticks
    <2> SUFFICES ASSUME SessionInv, NEW c \in Credentials, refusedAt[c] # None,
                        \A r \in Requests : rq[r].cred = c => rq[r].pc \in Ended
                 PROVE  Lookup(c) \in {None, "anonymous"}
        BY DEF RefusalSticks
    <2>1. ~ Pending(c)
        BY DEF Pending
    <2>2. QED  BY <2>1 DEF SessionInv, StickInv
<1>2. QED  BY <1>1, SessionInvariant, PTL

\* A session of somebody is served before the revocation, stored within the
\* timeout and used within SESSION_TTL, so the middleware stops admitting an app
\* password, and verify_session() stops naming its owner, soon after Stalwart
\* withdraws it.
THEOREM RevokedDies == Spec => RevokedCredentialDies
<1> DEFINE Opened(r) ==
              \/ /\ rq[r].pc \in {"lookup", "discovered"} /\ rq[r].phase = "auth"
                 /\ rq'[r].phase \in {"account", "verify"}
              \/ rq[r].phase = "verify" /\ rq'[r].pc = "verified"
           InTime(r) == now < RevokedAt[rq'[r].cred] + Timeout + SessionTTL
<1>1. ASSUME SessionInv, [Next]_vars, NEW r \in Requests, Opened(r) PROVE InTime(r)
    <2> DEFINE c == rq[r].cred
    <2>0. /\ Typed /\ CacheInv /\ RequestInv(r) /\ now \in Nat
          /\ rq[r].phase \in {"auth", "account", "call", "verify"}
          /\ Timeout \in Nat /\ SessionTTL \in Nat \ {0}
        BY <1>1, JmapSessionsAssumption DEF SessionInv, Typed, Request, Time
    <2>1. ASSUME NEW kind \in Sessions, Proceed(r, kind), c \in Credentials
          PROVE  IsAuthenticated(kind) /\ rq'[r].cred = c
        <3>1. CASE \E phase \in {"account", "verify"} :
                      Continue(r, "lookup", phase) /\ IsAuthenticated(kind)
            BY <2>0, <3>1, ContinueRequest
        <3>2. CASE rq[r].phase # "auth"
                   /\ (Continue(r, "lookup", "call") \/ Continue(r, "posting", "call"))
            BY <1>1, <2>0, <3>2, ContinueRequest
        <3>3. CASE End(r, "rejected") \/ End(r, "error") \/ End(r, "nobody")
            BY <1>1, <2>0, <2>1, <3>3, EndRequest DEF Ended
        <3>4. CASE End(r, "verified") /\ IsAuthenticated(kind)
            BY <2>0, <2>1, <3>4, EndRequest DEF Ended
        <3>5. QED  BY <2>0, <2>1, <3>1, <3>2, <3>3, <3>4, ProceedCases
    <2>2. CASE SessionFor(r)
        <3>1. c \in Credentials /\ rq[r].pc = "lookup"
            BY <2>0, <2>2 DEF SessionFor, RequestInv
        <3>2. ~ Continue(r, "discovering", rq[r].phase)
            BY <1>1, <2>0, ContinueRequest
        <3>3. Lookup(c) # None /\ Proceed(r, Lookup(c))
            BY <2>2, <3>2 DEF SessionFor
        <3>4. /\ c \in Cached /\ Unexpired(c) /\ Lookup(c) = sessions[c].kind
              /\ sessions[c] \in CachedSession
            BY <2>0, <3>1, <3>3 DEF Lookup, Cached, Typed
        <3>5. IsAuthenticated(sessions[c].kind) /\ rq'[r].cred = c
            BY <2>1, <3>1, <3>3, <3>4 DEF CachedSession
        <3>6. /\ sessions[c].cachedAt <= sessions[c].served + Timeout
              /\ sessions[c].served < RevokedAt[c]
              /\ now - sessions[c].cachedAt < SessionTTL
            BY <2>0, <3>4, <3>5 DEF CacheInv, EntryInv, Unexpired
        <3>7. /\ sessions[c].cachedAt \in Nat /\ sessions[c].served \in Nat
              /\ RevokedAt[c] \in Nat
            BY <3>1, <3>4, JmapSessionsAssumption DEF CachedSession, Time
        <3>8. now < RevokedAt[c] + Timeout + SessionTTL
            BY <2>0, <3>6, <3>7
        <3>9. QED  BY <3>5, <3>8
    <2>3. CASE Discovered(r)
        <3>1. c \in Credentials /\ rq[r].pc = "discovered"
            BY <2>0, <2>3 DEF Discovered, RequestInv
        <3>2. ~ FailedSession(r)
            BY <1>1, <2>0, <3>1, EndRequest, ContinueRequest DEF FailedSession, Ended
        <3>3. IsSuccess(rq[r].answer) /\ Proceed(r, rq[r].answer)
            BY <2>3, <3>2 DEF Discovered
        <3>4. IsAuthenticated(rq[r].answer) /\ rq'[r].cred = c
            BY <2>1, <3>1, <3>3 DEF IsSuccess
        <3>5. /\ now <= rq[r].since + Timeout /\ rq[r].since <= rq[r].served
              /\ rq[r].served < RevokedAt[c]
            BY <2>0, <3>1, <3>4 DEF RequestInv
        <3>6. rq[r].since \in Nat /\ rq[r].served \in Nat /\ RevokedAt[c] \in Nat
            BY <2>0, <3>1, JmapSessionsAssumption DEF Typed, Request, Time
        <3>7. now < RevokedAt[c] + Timeout + SessionTTL
            BY <2>0, <3>5, <3>6
        <3>8. QED  BY <3>4, <3>7
    <2>4. ~ Arrive(r)
        BY <1>1, <2>0 DEF Arrive, Ended, Typed, Fresh
    <2>5. ~ Serve(r)
        <3> SUFFICES ASSUME Serve(r) PROVE FALSE
            OBVIOUS
        <3>1. rq[r].pc \in {"discovering", "posting"}
            BY DEF Serve
        <3>2. rq'[r].pc \in {"discovered", "posted"}
            BY <2>0 DEF Serve, Typed, Request
        <3>3. QED  BY <1>1, <3>1, <3>2
    <2>6. ~ Posted(r)
        <3> SUFFICES ASSUME Posted(r) PROVE FALSE
            OBVIOUS
        <3>1. c \in Credentials /\ rq[r].pc = "posted"
            BY <2>0 DEF Posted, RequestInv
        <3>2. QED
            BY <1>1, <2>0, <3>1, EndRequest, ContinueRequest DEF Posted, FailedSession, Ended
    <2>7. ~ React(r)
        <3> SUFFICES ASSUME React(r) PROVE FALSE
            OBVIOUS
        <3>1. c \in Credentials /\ rq[r].pc = "reacting"
            BY <2>0 DEF React, RequestInv
        <3>2. QED  BY <1>1, <2>0, <3>1, EndRequest DEF React, Ended
    <2>8. ASSUME NEW q \in Requests, q # r, Arrive(q) \/ Step(q) PROVE rq'[r] = rq[r]
        <3>1. ASSUME NEW kind, Proceed(q, kind) PROVE rq'[r] = rq[r]
            <4>1. \/ \E pc, phase : Continue(q, pc, phase)
                  \/ \E how : End(q, how)
                <5>0. rq[q].phase \in {"auth", "account", "call", "verify"}
                    BY <2>0, <2>8 DEF Typed, Request
                <5>1. CASE rq[q].phase = "auth"
                    BY <3>1, <5>1 DEF Proceed
                <5>2. CASE rq[q].phase = "account"
                    BY <3>1, <5>2 DEF Proceed
                <5>3. CASE rq[q].phase = "call"
                    BY <3>1, <5>3 DEF Proceed
                <5>4. CASE rq[q].phase = "verify"
                    BY <3>1, <5>4 DEF Proceed, VerifySession
                <5>5. QED  BY <5>0, <5>1, <5>2, <5>3, <5>4
            <4>2. QED  BY <2>0, <2>8, <4>1 DEF End, Continue, Typed
        <3>2. CASE Arrive(q) \/ Serve(q)
            BY <2>0, <2>8, <3>2 DEF Arrive, Serve, Typed
        <3>3. CASE FailedSession(q) \/ React(q)
            BY <2>0, <2>8, <3>3 DEF FailedSession, React, End, Continue, Typed
        <3>4. CASE SessionFor(q) \/ Discovered(q) \/ Posted(q)
            <4>1. \/ \E kind : Proceed(q, kind)
                  \/ FailedSession(q)
                  \/ Continue(q, "discovering", rq[q].phase) \/ End(q, "done")
                BY <3>4 DEF SessionFor, Discovered, Posted
            <4>2. QED  BY <2>0, <2>8, <3>1, <3>3, <4>1 DEF End, Continue, Typed
        <3>5. QED  BY <2>8, <3>2, <3>3, <3>4 DEF Step
    <2>9. Tick \/ UNCHANGED vars => rq' = rq
        BY DEF Tick, vars
    <2>10. rq'[r] # rq[r]
        BY <1>1, <2>0 DEF RequestInv, Ended
    <2>11. QED
        BY <1>1, <2>2, <2>3, <2>4, <2>5, <2>6, <2>7, <2>8, <2>9, <2>10 DEF Next, Step
<1>2. SessionInv /\ [Next]_vars => [\A r \in Requests : Opened(r) => InTime(r)]_vars
    BY <1>1
<1>3. QED  BY <1>2, SessionInvariant, PTL DEF Spec, RevokedCredentialDies

=============================================================================
