------------------------------ MODULE RateLimit ------------------------------
(***************************************************************************)
(* Per-identity rate limiting (src/rate_limit.rs).  A call is charged to   *)
(* the bucket of its bearer and then to the bucket of its subject; either  *)
(* denies it.  Each map of buckets is capped and evicts the key least      *)
(* recently seen.  A call fetches its bucket under the map's lock and      *)
(* charges it afterwards, so the bucket it charges may have been evicted   *)
(* in between.  InitializeLimiter is the same algorithm over two maps of   *)
(* its own, here those of the category "initialize" (src/main.rs).         *)
(*                                                                         *)
(* A bucket is governor's GCRA cell: it keeps the theoretical arrival time *)
(* of the next call.                                                       *)
(***************************************************************************)
EXTENDS Integers, FiniteSets

CONSTANTS
    Calls,          \* tool calls (or initialize requests)
    Bearers,        \* bearer hashes
    SubOf,          \* the subject each bearer belongs to
    Categories,     \* Read, Write, and Initialize for InitializeLimiter's maps
    Quota,          \* burst of a bucket, by category
    Period,         \* ticks to refill one call, by category
    KeyCap,         \* LIMITER_KEY_CAP
    MaxTime,        \* bound on the clock
    None

Initialize == "initialize"
Subs == {SubOf[b] : b \in Bearers}
Kinds == {"bearer", "sub"}
Maps == Kinds \X Categories
Keys == Bearers \cup Subs

\* A bucket is named after the call and the map it was created for.
Buckets == Calls \X Kinds

ASSUME RateLimitAssumption ==
    /\ DOMAIN SubOf = Bearers
    /\ Initialize \in Categories
    /\ None \notin Bearers /\ None \notin Categories
    /\ Quota \in [Categories -> Nat \ {0}]
    /\ Period \in [Categories -> Nat \ {0}]
    /\ KeyCap \in Nat \ {0}
    /\ MaxTime \in Nat
    /\ None \notin Nat /\ None \notin Buckets /\ None \notin [bucket: Buckets, seen: Nat]

VARIABLES
    now,        \* Instant
    entries,    \* the four BucketMaps: bucket and last_seen by key, or None
    tat,        \* the buckets' arrival times; None before the first charge
    calls       \* the check() calls

vars == <<now, entries, tat, calls>>

\* kind: the map the call is working on.  charged: when it was charged to each
\* kind of bucket; bucket: the bucket it used.
Call == [pc: {"idle", "get", "charge", "allowed", "denied"},
         bearer: Bearers \cup {None}, cat: Categories \cup {None}, kind: Kinds,
         bucket: [Kinds -> Buckets \cup {None}],
         charged: [Kinds -> Nat \cup {None}], at: Nat]

Known(m) == {k \in Keys : entries[m][k] # None}

\* Types, and no map of buckets exceeds LIMITER_KEY_CAP.
TypeOK ==
    /\ now \in Nat
    /\ \A m \in Maps : Cardinality(Known(m)) <= KeyCap
    /\ entries \in [Maps -> [Keys -> [bucket: Buckets, seen: Nat] \cup {None}]]
    /\ tat \in [Buckets -> Nat \cup {None}]
    /\ calls \in [Calls -> Call]

Init ==
    /\ now = 0
    /\ entries = [m \in Maps |-> [k \in Keys |-> None]]
    /\ tat = [b \in Buckets |-> None]
    /\ calls = [c \in Calls |->
                  [pc |-> "idle", bearer |-> None, cat |-> None, kind |-> "bearer",
                   bucket |-> [k \in Kinds |-> None],
                   charged |-> [k \in Kinds |-> None], at |-> 0]]

-----------------------------------------------------------------------------

\* Mutant: the bearer's bucket is looked up by subject.
SubjectKey(c) == SubOf[calls[c].bearer]

Key(c) == IF calls[c].kind = "bearer" THEN calls[c].bearer ELSE SubOf[calls[c].bearer]

LeastRecentlySeen(m) ==
    {k \in Known(m) : \A j \in Known(m) : entries[m][k].seen <= entries[m][j].seen}

\* Mutant: room is made one key too late.
FullLate(m) == Cardinality(Known(m)) > KeyCap

Full(m) == Cardinality(Known(m)) >= KeyCap

\* A tool call begins: rate_limit_check() with the call's category.
Begin(c) ==
    /\ calls[c].pc = "idle"
    /\ \E b \in Bearers, cat \in Categories \ {Initialize} :
          calls' = [calls EXCEPT ![c].pc = "get", ![c].bearer = b, ![c].cat = cat]
    /\ UNCHANGED <<now, entries, tat>>

\* is_fresh_mcp_session_request(): a POST without an mcp-session-id.
IsFreshMcpSessionRequest(request) == request = [method |-> "POST", session |-> FALSE]

\* initialize_rate_limit(): a request for a new session is charged; any other
\* passes and leaves the limiter alone.
InitializeRateLimit(c) ==
    /\ calls[c].pc = "idle"
    /\ \E b \in Bearers, request \in [method: {"POST", "GET"}, session: BOOLEAN] :
          /\ IsFreshMcpSessionRequest(request)
          /\ calls' = [calls EXCEPT ![c].pc = "get", ![c].bearer = b, ![c].cat = Initialize]
    /\ UNCHANGED <<now, entries, tat>>

\* get_or_insert_with_quota(), under the map's write lock.
GetOrInsert(c) ==
    LET kind == calls[c].kind
        m == <<kind, calls[c].cat>>
        k == Key(c)
        evicted == IF Full(m) THEN {{o} : o \in LeastRecentlySeen(m)} ELSE {{}}
    IN
    /\ calls[c].pc = "get"
    /\ \/ /\ entries[m][k] # None
          /\ entries' = [entries EXCEPT ![m][k].seen = now]
          /\ calls' = [calls EXCEPT ![c].pc = "charge",
                                    ![c].bucket[kind] = entries[m][k].bucket]
       \/ /\ entries[m][k] = None
          /\ \E gone \in evicted :
                entries' = [entries EXCEPT ![m] =
                    [j \in Keys |-> IF j = k THEN [bucket |-> <<c, kind>>, seen |-> now]
                                    ELSE IF j \in gone THEN None
                                    ELSE @[j]]]
          /\ calls' = [calls EXCEPT ![c].pc = "charge", ![c].bucket[kind] = <<c, kind>>]
    /\ UNCHANGED <<now, tat>>

Later(a, b) == IF a >= b THEN a ELSE b

\* GCRA: where the bucket's arrival time stands; a new bucket is full.
Arrival(b, p) == IF tat[b] = None THEN now + p ELSE tat[b]

\* GCRA: where an admitted call moves it.
NextArrival(b, p) == Later(Arrival(b, p), now) + p

Conforms(b, q, p) == now >= Arrival(b, p) - q * p

\* Mutant: the subject's bucket is never consulted.
BearerOnly(kind) == "none"

\* The map check() turns to when a bucket allows the call; every caller passes
\* a subject.
NextKind(kind) == IF kind = "bearer" THEN "sub" ELSE "none"

\* bucket.check(), atomic in governor; then the next map or the verdict.
Charge(c) ==
    LET kind == calls[c].kind
        b == calls[c].bucket[kind]
        p == Period[calls[c].cat]
    IN
    /\ calls[c].pc = "charge"
    /\ \/ /\ ~ Conforms(b, Quota[calls[c].cat], p)
          /\ calls' = [calls EXCEPT ![c].pc = "denied", ![c].at = now]
          /\ UNCHANGED tat
       \/ /\ Conforms(b, Quota[calls[c].cat], p)
          /\ tat' = [tat EXCEPT ![b] = NextArrival(b, p)]
          /\ calls' = [calls EXCEPT
                ![c].charged[kind] = now,
                ![c].kind = IF NextKind(kind) = "none" THEN kind ELSE NextKind(kind),
                ![c].at = now,
                ![c].pc = IF NextKind(kind) = "none" THEN "allowed" ELSE "get"]
    /\ UNCHANGED <<now, entries>>

Tick ==
    /\ now < MaxTime
    /\ now' = now + 1
    /\ UNCHANGED <<entries, tat, calls>>

Next ==
    \/ \E c \in Calls : Begin(c) \/ InitializeRateLimit(c) \/ GetOrInsert(c) \/ Charge(c)
    \/ Tick

Spec == Init /\ [][Next]_vars

-----------------------------------------------------------------------------
(* Properties                                                              *)

\* Whatever bearers a subject uses, the calls let through to the mail server
\* in any interval fit its quota: a burst and one call per period, and one more,
\* which governor grants a bucket that has been idle, if the subject has called
\* before.  Only when LIMITER_KEY_CAP other subjects have called can its bucket
\* have been replaced.
SubjectWithinQuota ==
    \A s \in Subs, cat \in Categories, from, to \in 0 .. MaxTime :
        LET mine == {c \in Calls : calls[c].cat = cat /\ SubOf[calls[c].bearer] = s}
            allowed == {c \in mine : calls[c].pc = "allowed" /\ calls[c].at <= to}
            through == {c \in allowed : from <= calls[c].at}
            idle == IF through = allowed THEN 0 ELSE 1
            others == {SubOf[calls[c].bearer] : c \in
                          {d \in Calls \ mine : calls[d].cat = cat
                               /\ calls[d].bucket["sub"] # None}}
        IN from <= to =>
              \/ Cardinality(through) <= Quota[cat] + (to - from) \div Period[cat] + idle
              \/ Cardinality(others) >= KeyCap

\* A call is denied only after its own bearer, or its own subject, was charged
\* a whole burst of calls of this category since that burst would have refilled:
\* other identities' calls never cost it anything.
DeniedOnlyAfterBurst ==
    \A c \in Calls : calls[c].pc = "denied" =>
        LET cat == calls[c].cat
            recent(kind) == {d \in Calls : /\ calls[d].cat = cat
                                           /\ calls[d].charged[kind] # None
                                           /\ calls[d].charged[kind]
                                                > calls[c].at - Quota[cat] * Period[cat]}
        IN \/ Cardinality({d \in recent("bearer") : calls[d].bearer = calls[c].bearer})
                  >= Quota[cat]
           \/ Cardinality({d \in recent("sub") :
                              SubOf[calls[d].bearer] = SubOf[calls[c].bearer]})
                  >= Quota[cat]

=============================================================================
