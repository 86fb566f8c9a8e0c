---------------------------- MODULE JmapSessions -----------------------------
(***************************************************************************)
(* The JMAP session cache (src/jmap_client.rs) under concurrent requests,  *)
(* and the two users of it: the app-password check of the authentication   *)
(* middleware (src/auth.rs), which admits a request on a cached session,   *)
(* and the tools (src/mcp.rs), whose calls Stalwart may refuse.            *)
(*                                                                         *)
(* A request runs session_for() in up to three phases: "auth" (app         *)
(* passwords only), "account" and "call", the last followed by the POST;   *)
(* verify_session() (src/mcp/profile.rs) has one of its own, "verify".     *)
(* Stalwart decides each request at the moment it serves it; the answer    *)
(* is processed later.                                                     *)
(***************************************************************************)
EXTENDS Integers, FiniteSets

CONSTANTS
    Requests,       \* concurrent requests
    Credentials,    \* Authorization header values
    AppPasswords,   \* those with the Basic scheme
    AllowAppPassword, \* Config.allow_app_password
    RevokedAt,      \* when Stalwart starts to refuse each credential
    ExpiresAt,      \* the `exp` of each credential; app passwords have none
    ExpirySkew,     \* EXPIRY_SKEW_SECS
    Leeway,         \* how long after `exp` Logto validation still accepts
    SessionTTL,     \* SESSION_TTL
    SessionCap,     \* SESSION_CAP
    Timeout,        \* timeout of the reqwest client
    MaxTime,        \* bound on the clock
    None

Time == Nat

ASSUME JmapSessionsAssumption ==
    /\ AppPasswords \subseteq Credentials
    /\ AllowAppPassword \in BOOLEAN
    /\ RevokedAt \in [Credentials -> Time]
    /\ ExpiresAt \in [Credentials -> Time \cup {None}]
    /\ \A c \in AppPasswords : ExpiresAt[c] = None
    /\ ExpirySkew \in Nat /\ Leeway \in Nat
    /\ SessionTTL \in Nat \ {0} /\ SessionCap \in Nat \ {0}
    /\ Timeout \in Nat /\ MaxTime \in Nat
    /\ None \notin Credentials

VARIABLES
    now,        \* Instant
    sessions,   \* JmapClient.sessions by credential; None if not cached
    rq,         \* the requests
    refusedAt   \* when the latest request of a credential was turned away with a
                \* 401, None if it ended otherwise (history only)

vars == <<now, sessions, rq, refusedAt>>

\* What Stalwart answers a GET or a POST with: 2xx (a session with an owner and
\* a mail account, with an owner only, with neither), 401/403, or anything that
\* is an error (also no answer).
Sessions == {"session", "mailless", "anonymous"}
Answers == Sessions \cup {"refused", "failed"}

\* served: when Stalwart answered the discovery.
CachedSession == [kind: Sessions, cachedAt: Time, served: Time]

\* "unauthorized" tells the client to reconnect, "upstream" that it is no use.
\* "nobody" is verify_session()'s `authenticated` with an empty e-mail.
Ended == {"done", "verified", "nobody", "unauthorized", "upstream", "rejected", "error"}

Request ==
    [pc: {"idle", "lookup", "discovering", "discovered", "posting", "posted",
          "reacting"} \cup Ended,
     phase: {"auth", "account", "call", "verify"},
     cred: Credentials \cup {None},
     since: Time,                       \* start of the exchange under way, or
                                        \* when verify_session() answered
     answer: Answers \cup {None},       \* Stalwart's answer, on its way back
     served: Time]                      \* when it was served

Cached == {c \in Credentials : sessions[c] # None}

\* Types, and the cache never holds more than SESSION_CAP sessions.
TypeOK ==
    /\ now \in Time
    /\ Cardinality(Cached) <= SessionCap
    /\ sessions \in [Credentials -> CachedSession \cup {None}]
    /\ rq \in [Requests -> Request]
    /\ refusedAt \in [Credentials -> Time \cup {None}]

Fresh == [pc |-> "idle", phase |-> "auth", cred |-> None, since |-> 0,
          answer |-> None, served |-> 0]

Init ==
    /\ now = 0
    /\ sessions = [c \in Credentials |-> None]
    /\ rq = [r \in Requests |-> Fresh]
    /\ refusedAt = [c \in Credentials |-> None]

-----------------------------------------------------------------------------
(* The cache                                                               *)

\* Mutant: an entry is good as long as it is there.
AnyAge(c) == TRUE

Unexpired(c) == now - sessions[c].cachedAt < SessionTTL

\* session_lookup()
Lookup(c) == IF sessions[c] # None /\ Unexpired(c) THEN sessions[c].kind ELSE None

\* At capacity, expired sessions go first.
Retained == IF Cardinality(Cached) >= SessionCap THEN {c \in Cached : Unexpired(c)}
                                                 ELSE Cached

Oldest(S) == {c \in S : \A d \in S : sessions[c].cachedAt <= sessions[d].cachedAt}

\* Mutant: only expired sessions ever go.
SurvivorsNoEvict(c) == {Retained}

\* What may be left beside c's session.
Survivors(c) ==
    IF Cardinality(Retained) >= SessionCap /\ c \notin Retained
    THEN {Retained \ {o} : o \in Oldest(Retained)}
    ELSE {Retained}

\* session_insert()
SessionInsert(c, kind, served) ==
    \E kept \in Survivors(c) :
        sessions' = [d \in Credentials |->
            IF d = c THEN [kind |-> kind, cachedAt |-> now, served |-> served]
            ELSE IF d \in kept THEN sessions[d]
            ELSE None]

\* Mutant: a refused credential keeps its session.
NotEvicted(c) == sessions

\* sessions after evict()
Evicted(c) == [sessions EXCEPT ![c] = None]

-----------------------------------------------------------------------------
(* Requests                                                                *)

\* Request r is answered, or goes on from pc in its next phase.
End(r, how) ==
    /\ rq' = [rq EXCEPT ![r] = [Fresh EXCEPT !.pc = how, !.cred = rq[r].cred,
                                  !.since = IF how \in {"verified", "nobody"} THEN now ELSE 0]]
    /\ refusedAt' = [refusedAt EXCEPT ![rq[r].cred] =
                        IF how \in {"unauthorized", "upstream", "rejected"} THEN now ELSE None]

Continue(r, pc, phase) ==
    /\ rq' = [rq EXCEPT ![r].pc = pc, ![r].phase = phase, ![r].answer = None,
                        ![r].since = now, ![r].served = 0]
    /\ UNCHANGED refusedAt

\* JmapSession::is_authenticated()
IsAuthenticated(kind) == kind \in {"session", "mailless"}

\* verify_session(): any session at all means authenticated; its `username` is
\* shown, which one that belongs to nobody does not have.
VerifySession(r, kind) == End(r, IF IsAuthenticated(kind) THEN "verified" ELSE "nobody")

\* session_for() returned a session: the middleware's check, mail_account_id(),
\* or the POST of the method calls.
Proceed(r, kind) ==
    CASE rq[r].phase = "auth" /\ IsAuthenticated(kind) ->
            \E phase \in {"account", "verify"} : Continue(r, "lookup", phase)
      [] rq[r].phase = "auth" /\ ~ IsAuthenticated(kind) -> End(r, "rejected")
      [] rq[r].phase = "account" /\ kind = "session" ->
            Continue(r, "lookup", "call")
      [] rq[r].phase = "account" /\ kind # "session" -> End(r, "error")
      [] rq[r].phase = "verify" -> VerifySession(r, kind)
      [] rq[r].phase = "call" -> Continue(r, "posting", "call")

\* extract_credential(): the scheme alone decides which validator runs.
ExtractCredential(c) ==
    IF c \notin AppPasswords THEN "jwt" ELSE IF AllowAppPassword THEN "app_password" ELSE None

\* A request arrives, with an app password or with a bearer Logto vouched for;
\* anything else is answered 401 at once.  A finished request makes way for the
\* next.
Arrive(r) ==
    /\ rq[r].pc \in {"idle"} \cup Ended
    /\ \E c \in {c \in Credentials : ExpiresAt[c] # None => now <= ExpiresAt[c] + Leeway} :
       \E phase \in CASE ExtractCredential(c) = "jwt" -> {"account", "verify"}
                      [] ExtractCredential(c) = "app_password" -> {"auth"}
                      [] OTHER -> {} :
          rq' = [rq EXCEPT ![r] = [Fresh EXCEPT !.pc = "lookup", !.cred = c,
                                                !.phase = phase]]
    /\ UNCHANGED <<now, sessions, refusedAt>>

\* session_for(): a hit, or the start of a discovery.
SessionFor(r) ==
    LET c == rq[r].cred IN
    /\ rq[r].pc = "lookup"
    /\ \/ /\ Lookup(c) # None
          /\ Proceed(r, Lookup(c))
       \/ /\ Lookup(c) = None
          /\ Continue(r, "discovering", rq[r].phase)
    /\ UNCHANGED <<now, sessions>>

\* Stalwart serves the discovery or the method calls.  It may refuse a
\* credential for reasons of its own, and always does once it is revoked.
Serve(r) ==
    LET good == IF now >= RevokedAt[rq[r].cred] THEN {}
                ELSE IF rq[r].pc = "posting" THEN {"session"}
                ELSE {"session", "mailless"}
        stray == IF rq[r].pc = "discovering" THEN {"anonymous"} ELSE {}
    IN
    /\ rq[r].pc \in {"discovering", "posting"}
    /\ \E a \in {"refused", "failed"} \cup good \cup stray :
          rq' = [rq EXCEPT ![r].answer = a, ![r].served = now,
                    ![r].pc = IF @ = "discovering" THEN "discovered" ELSE "posted"]
    /\ UNCHANGED <<now, sessions, refusedAt>>

\* How a request ends when session_for() fails: the middleware answers 401 or
\* 500; a tool's Unauthorized goes through react_to_auth_expiry().
FailedSession(r) ==
    IF rq[r].answer = "refused"
    THEN /\ sessions' = Evicted(rq[r].cred)
         /\ IF rq[r].phase = "auth" THEN End(r, "rejected")
            ELSE Continue(r, "reacting", rq[r].phase)
    ELSE End(r, "error") /\ UNCHANGED sessions

\* status.is_success(), and the body parses.
IsSuccess(answer) == answer \in Sessions

\* session_for(): the discovery's answer.
Discovered(r) ==
    /\ rq[r].pc = "discovered"
    /\ \/ /\ IsSuccess(rq[r].answer)
          /\ SessionInsert(rq[r].cred, rq[r].answer, rq[r].served)
          /\ Proceed(r, rq[r].answer)
       \/ /\ ~ IsSuccess(rq[r].answer)
          /\ FailedSession(r)
    /\ UNCHANGED now

\* call(), download_blob(), upload_blob(): the answer.
Posted(r) ==
    /\ rq[r].pc = "posted"
    /\ \/ /\ rq[r].answer = "session"
          /\ End(r, "done")
          /\ UNCHANGED sessions
       \/ /\ rq[r].answer \in {"refused", "failed"}
          /\ FailedSession(r)
    /\ UNCHANGED now

\* token_is_live()
TokenIsLive(exp) == exp # None /\ exp - now > ExpirySkew

\* react_to_auth_expiry(): the session goes once more, then the client is told.
React(r) ==
    /\ rq[r].pc = "reacting"
    /\ sessions' = Evicted(rq[r].cred)
    /\ End(r, IF TokenIsLive(ExpiresAt[rq[r].cred]) THEN "upstream" ELSE "unauthorized")
    /\ UNCHANGED now

\* Time passes while requests wait for Stalwart, up to the client's timeout.
Tick ==
    /\ now < MaxTime
    /\ \A r \in Requests :
          /\ rq[r].pc \notin {"lookup", "reacting"}
          /\ rq[r].pc \in {"discovering", "discovered", "posting", "posted"}
                => now < rq[r].since + Timeout
    /\ now' = now + 1
    /\ UNCHANGED <<sessions, rq, refusedAt>>

Step(r) == SessionFor(r) \/ Serve(r) \/ Discovered(r) \/ Posted(r) \/ React(r)

Next == (\E r \in Requests : Arrive(r) \/ Step(r)) \/ Tick

Spec == Init /\ [][Next]_vars

-----------------------------------------------------------------------------
(* Properties                                                              *)

\* A revoked credential stops opening the door, and verify_session() stops
\* calling it somebody's, once the exchange under way and the session it
\* leaves behind have run out, even if no tool call ever meets a 401 and
\* however often other requests refresh the cache.
RevokedCredentialDies ==
    [][\A r \in Requests :
          \/ /\ rq[r].pc \in {"lookup", "discovered"} /\ rq[r].phase = "auth"
             /\ rq'[r].phase \in {"account", "verify"}
          \/ rq[r].phase = "verify" /\ rq'[r].pc = "verified"
          => now < RevokedAt[rq'[r].cred] + Timeout + SessionTTL]_vars

\* When everyone is quiet, no session is cached for a credential whose refusal
\* was the last answer given, unless it is one that admits nobody.
RefusalSticks ==
    \A c \in Credentials :
        /\ \A r \in Requests : rq[r].cred = c => rq[r].pc \in Ended
        /\ refusedAt[c] # None
        => Lookup(c) \in {None, "anonymous"}

=============================================================================
