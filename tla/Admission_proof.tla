--------------------------- MODULE Admission_proof ---------------------------
(***************************************************************************)
(* Proofs about what admits a request: the rate limiters and the cap on    *)
(* sessions.                                                               *)
(*                                                                         *)
(* The limiters' maps of buckets stay within their cap, nobody is denied   *)
(* for the calls of others, and no subject exceeds its quota while its     *)
(* bucket is kept, for every number of calls, bearers and categories,      *)
(* every quota and every interleaving of fetch and charge.  The session    *)
(* cap holds, and create_session() looks atomic, for any cap and any       *)
(* number of concurrent initializes, closes and disconnects.               *)
(***************************************************************************)
EXTENDS RateLimit, SessionCap, FiniteSetTheorems, TLAPS

\* The calls that have begun, and the key of call d in a map of some kind.
Begun == {d \in Calls : calls[d].pc # "idle"}
KeyIn(d, kind) == IF kind = "bearer" THEN calls[d].bearer ELSE SubOf[calls[d].bearer]

\* Bucket b belongs in map `kind` of category `cat` under key k.
Belongs(b, kind, cat, k) ==
    /\ b \in Buckets
    /\ b[2] = kind /\ b[1] \in Begun
    /\ calls[b[1]].cat = cat /\ KeyIn(b[1], kind) = k

\* A call is charged to the bearer's bucket, then to the subject's, each of its
\* own category and key; it is let through at the second charge.
CallInv(d) ==
    /\ IF d \in Begun THEN calls[d].cat \in Categories /\ calls[d].bearer \in Bearers
       ELSE /\ calls[d].kind = "bearer"
            /\ \A kind \in Kinds : calls[d].bucket[kind] = None
    /\ calls[d].pc \in {"idle", "get", "charge"} =>
          /\ calls[d].charged[calls[d].kind] = None
          /\ calls[d].kind = "bearer" => calls[d].bucket["sub"] = None
    /\ calls[d].pc = "charge" => calls[d].bucket[calls[d].kind] # None
    /\ \A kind \in Kinds : calls[d].charged[kind] # None =>
          calls[d].bucket[kind] # None /\ calls[d].charged[kind] <= now
    /\ \A kind \in Kinds : calls[d].bucket[kind] # None =>
          Belongs(calls[d].bucket[kind], kind, calls[d].cat, KeyIn(d, kind))
    /\ IF calls[d].pc = "allowed" THEN calls[d].charged["sub"] = calls[d].at
       ELSE calls[d].charged["sub"] = None

Typed ==
    /\ now \in Nat
    /\ entries \in [Maps -> [Keys -> [bucket: Buckets, seen: Nat] \cup {None}]]
    /\ tat \in [Buckets -> Nat \cup {None}]
    /\ calls \in [Calls -> Call]

EntriesInv ==
    \A kind \in Kinds, cat \in Categories :
        /\ IsFiniteSet(Known(<<kind, cat>>))
        /\ Cardinality(Known(<<kind, cat>>)) <= KeyCap
        /\ \A k \in Known(<<kind, cat>>) :
              Belongs(entries[<<kind, cat>>][k].bucket, kind, cat, k)

MapsInv ==
    /\ Typed
    /\ IsFiniteSet(Begun)
    /\ \A d \in Calls : CallInv(d)
    /\ EntriesInv

-----------------------------------------------------------------------------

\* A call never forgets its bearer and category, a charge or the bucket charged.
KeepsCalls ==
    /\ \A d \in Begun : /\ d \in Begun'
                        /\ calls'[d].cat = calls[d].cat
                        /\ calls'[d].bearer = calls[d].bearer
    /\ \A d \in Calls, kind \in Kinds : calls[d].charged[kind] # None =>
          /\ calls'[d].charged[kind] = calls[d].charged[kind]
          /\ calls'[d].bucket[kind] = calls[d].bucket[kind]

\* A tool call and an initialize begin alike.
LEMMA BeginEffect ==
    ASSUME NEW c \in Calls, Begin(c) \/ InitializeRateLimit(c)
    PROVE  /\ calls[c].pc = "idle" /\ UNCHANGED <<now, entries, tat>>
           /\ \E b \in Bearers, cat \in Categories :
                 calls' = [calls EXCEPT ![c].pc = "get", ![c].bearer = b, ![c].cat = cat]
<1>1. CASE Begin(c)
    BY <1>1 DEF Begin
<1>2. CASE InitializeRateLimit(c)
    <2>1. PICK b \in Bearers : calls' = [calls EXCEPT ![c].pc = "get", ![c].bearer = b,
                                                     ![c].cat = Initialize]
        BY <1>2 DEF InitializeRateLimit
    <2>2. QED  BY <1>2, <2>1, RateLimitAssumption DEF InitializeRateLimit
<1>3. QED  BY <1>1, <1>2

\* Time goes forward, and every step keeps what calls have done.
LEMMA Steady ==
    ASSUME MapsInv, [Next]_vars
    PROVE  /\ now \in Nat /\ now' \in Nat /\ now' >= now
           /\ KeepsCalls
<1>1. Typed /\ \A d \in Calls : CallInv(d)
    BY DEF MapsInv
<1>2. now \in Nat /\ now' \in Nat /\ now' >= now
    <2>1. now' = now \/ now' = now + 1
        BY DEF Next, vars, Begin, InitializeRateLimit, GetOrInsert, Charge, Tick
    <2>2. QED  BY <1>1, <2>1 DEF Typed
<1>3. CASE UNCHANGED calls
    BY <1>2, <1>3 DEF Begun, KeepsCalls
<1>4. ASSUME NEW c \in Calls, Begin(c) \/ InitializeRateLimit(c)
      PROVE  KeepsCalls
    <2>1. calls[c] \in Call /\ calls[c].pc = "idle" /\ c \notin Begun
        BY <1>1, <1>4 DEF Typed, Begin, InitializeRateLimit, Begun
    <2>2. /\ \A d \in Calls \ {c} : calls'[d] = calls[d]
          /\ calls'[c].charged = calls[c].charged /\ calls'[c].bucket = calls[c].bucket
        <3>1. PICK b \in Bearers, cat \in Categories :
                  calls' = [calls EXCEPT ![c].pc = "get", ![c].bearer = b, ![c].cat = cat]
            BY <1>4, BeginEffect
        <3>2. QED  BY <1>1, <2>1, <3>1 DEF Typed, Call
    <2>3. QED  BY <2>1, <2>2 DEF Begun, KeepsCalls
<1>5. ASSUME NEW c \in Calls, GetOrInsert(c)
      PROVE  KeepsCalls
    <2>1. calls[c] \in Call /\ calls[c].pc = "get" /\ calls[c].charged[calls[c].kind] = None
        BY <1>1, <1>5 DEF Typed, GetOrInsert, CallInv
    <2>2. PICK b : calls' = [calls EXCEPT ![c].pc = "charge", ![c].bucket[calls[c].kind] = b]
        BY <1>5 DEF GetOrInsert
    <2>3. /\ \A d \in Calls \ {c} : calls'[d] = calls[d]
          /\ calls'[c].charged = calls[c].charged /\ calls'[c].pc = "charge"
          /\ calls'[c].cat = calls[c].cat /\ calls'[c].bearer = calls[c].bearer
          /\ \A kind \in Kinds \ {calls[c].kind} : calls'[c].bucket[kind] = calls[c].bucket[kind]
        BY <1>1, <2>1, <2>2 DEF Typed, Call
    <2>4. QED  BY <2>1, <2>3 DEF Begun, KeepsCalls
<1>6. ASSUME NEW c \in Calls, Charge(c)
      PROVE  KeepsCalls
    <2>1. calls[c] \in Call /\ calls[c].pc = "charge" /\ calls[c].charged[calls[c].kind] = None
        BY <1>1, <1>6 DEF Typed, Charge, CallInv
    <2>2. CASE calls' = [calls EXCEPT ![c].pc = "denied", ![c].at = now]
        BY <1>1, <2>1, <2>2 DEF Typed, Call, Begun, KeepsCalls
    <2>3. ASSUME NEW next, NEW verdict \in {"allowed", "get"},
                 calls' = [calls EXCEPT ![c].charged[calls[c].kind] = now, ![c].kind = next,
                                        ![c].at = now, ![c].pc = verdict]
          PROVE  KeepsCalls
        <3>1. /\ \A d \in Calls \ {c} : calls'[d] = calls[d]
              /\ calls'[c].bucket = calls[c].bucket /\ calls'[c].pc = verdict
              /\ calls'[c].cat = calls[c].cat /\ calls'[c].bearer = calls[c].bearer
              /\ \A kind \in Kinds \ {calls[c].kind} :
                    calls'[c].charged[kind] = calls[c].charged[kind]
            BY <1>1, <2>1, <2>3 DEF Typed, Call
        <3>2. QED  BY <2>1, <3>1 DEF Begun, KeepsCalls
    <2>4. QED  BY <1>6, <2>2, <2>3 DEF Charge
<1>7. QED  BY <1>2, <1>3, <1>4, <1>5, <1>6 DEF Next, vars, Tick

\* A bucket stays where it belongs.
LEMMA BelongsStays ==
    ASSUME KeepsCalls, NEW b, NEW kind, NEW cat, NEW k, Belongs(b, kind, cat, k)
    PROVE  Belongs(b, kind, cat, k)'
<1>1. b \in Buckets /\ b[1] \in Begun
    BY DEF Belongs
<1>2. b[1] \in Begun' /\ calls'[b[1]].cat = calls[b[1]].cat /\ calls'[b[1]].bearer = calls[b[1]].bearer
    BY <1>1 DEF KeepsCalls
<1>3. QED  BY <1>2 DEF Belongs, KeyIn

\* get_or_insert_with_quota() for call c on map m and key k: the key's own bucket
\* is found, or a new one takes its place and, in a full map, that of another key.
Fetches(c, kind, cat, k, m) ==
    /\ calls[c].pc = "get" /\ kind \in Kinds /\ cat \in Categories /\ k \in Keys
    /\ m \in Maps /\ UNCHANGED <<now, tat>>
    /\ entries' \in [Maps -> [Keys -> [bucket: Buckets, seen: Nat] \cup {None}]]
    /\ \A n \in Maps \ {m} : entries'[n] = entries[n]
    /\ \E b, gone :
          /\ Belongs(b, kind, cat, k)
          /\ calls' = [calls EXCEPT ![c].pc = "charge", ![c].bucket[kind] = b]
          /\ entries'[m][k] # None /\ entries'[m][k].bucket = b
          /\ Known(m)' = (Known(m) \ gone) \cup {k}
          /\ \A j \in Keys \ ({k} \cup gone) : entries'[m][j] = entries[m][j]
          /\ IF k \in Known(m) THEN gone = {} /\ b = entries[m][k].bucket
             ELSE IF Full(m) THEN \E o \in Known(m) : gone = {o}
             ELSE gone = {}

\* That is what GetOrInsert does.
LEMMA GetEffect ==
    ASSUME MapsInv, NEW c \in Calls, GetOrInsert(c),
           NEW kind, kind = calls[c].kind, NEW cat, cat = calls[c].cat,
           NEW k, k = KeyIn(c, kind), NEW m, m = <<kind, cat>>
    PROVE  Fetches(c, kind, cat, k, m)
<1>1. Typed /\ CallInv(c) /\ EntriesInv
    BY DEF MapsInv
<1>2. calls[c].pc = "get" /\ calls[c] \in Call /\ UNCHANGED <<now, tat>>
    BY <1>1 DEF GetOrInsert, Typed
<1>3. kind \in Kinds /\ cat \in Categories /\ calls[c].bearer \in Bearers /\ c \in Begun
    BY <1>1, <1>2 DEF CallInv, Call, Begun
<1>4. k \in Keys /\ m \in Maps /\ Key(c) = k
    BY <1>3 DEF KeyIn, Key, Keys, Subs, Maps
<1>5. entries[m] \in [Keys -> [bucket: Buckets, seen: Nat] \cup {None}] /\ now \in Nat
    BY <1>1, <1>4 DEF Typed
<1>6. CASE entries[m][k] # None
    <2>1. k \in Known(m)
        BY <1>4, <1>6 DEF Known
    <2>2. PICK b : b = entries[m][k].bucket
        OBVIOUS
    <2>3. Belongs(b, kind, cat, k)
        BY <1>1, <1>3, <2>1, <2>2 DEF EntriesInv
    <2>4. /\ entries' = [entries EXCEPT ![m][k].seen = now]
          /\ calls' = [calls EXCEPT ![c].pc = "charge", ![c].bucket[kind] = b]
        BY <1>4, <1>6, <2>2 DEF GetOrInsert
    <2>5. entries[m][k] \in [bucket: Buckets, seen: Nat]
        BY <1>4, <1>5, <1>6
    <2>6. PICK new : new = [entries[m][k] EXCEPT !.seen = now]
        OBVIOUS
    <2>7. new \in [bucket: Buckets, seen: Nat] /\ new.bucket = b /\ new # None
        BY <1>5, <2>2, <2>5, <2>6, RateLimitAssumption
    <2>8. entries' = [entries EXCEPT ![m] = [entries[m] EXCEPT ![k] = new]]
        BY <1>1, <1>4, <1>5, <2>4, <2>6 DEF Typed
    <2>9. /\ entries'[m] = [entries[m] EXCEPT ![k] = new]
          /\ \A n \in Maps \ {m} : entries'[n] = entries[n]
          /\ entries' \in [Maps -> [Keys -> [bucket: Buckets, seen: Nat] \cup {None}]]
        BY <1>1, <1>4, <1>5, <2>7, <2>8 DEF Typed
    <2>10. entries'[m][k] = new /\ \A j \in Keys \ {k} : entries'[m][j] = entries[m][j]
        BY <1>4, <1>5, <2>9
    <2>11. Known(m)' = Known(m)
        BY <1>6, <2>7, <2>10 DEF Known
    <2>12. Known(m)' = (Known(m) \ {}) \cup {k}
        BY <2>1, <2>11
    <2>13. QED  BY <1>2, <1>3, <1>4, <2>1, <2>2, <2>3, <2>4, <2>7, <2>9, <2>10, <2>12 DEF Fetches
<1>7. CASE entries[m][k] = None
    <2>1. k \notin Known(m)
        BY <1>7 DEF Known
    <2> DEFINE b == <<c, kind>>
               new == [bucket |-> b, seen |-> now]
    <2>2. Belongs(b, kind, cat, k)
        BY <1>3 DEF Belongs, Buckets, KeyIn
    <2>3. calls' = [calls EXCEPT ![c].pc = "charge", ![c].bucket[kind] = b]
        BY <1>4, <1>7 DEF GetOrInsert
    <2>4. PICK gone \in (IF Full(<<calls[c].kind, calls[c].cat>>)
                        THEN {{o} : o \in LeastRecentlySeen(<<calls[c].kind, calls[c].cat>>)}
                        ELSE {{}}) :
              entries' = [entries EXCEPT ![<<calls[c].kind, calls[c].cat>>] =
                  [j \in Keys |-> IF j = Key(c) THEN [bucket |-> <<c, calls[c].kind>>, seen |-> now]
                                  ELSE IF j \in gone THEN None
                                  ELSE entries[<<calls[c].kind, calls[c].cat>>][j]]]
        BY <1>4, <1>7 DEF GetOrInsert
    <2>5. new \in [bucket: Buckets, seen: Nat] /\ new # None /\ new.bucket = b
        BY <1>5, <2>2, RateLimitAssumption DEF Belongs
    <2> DEFINE f == [j \in Keys |-> IF j = Key(c) THEN [bucket |-> <<c, calls[c].kind>>, seen |-> now]
                                    ELSE IF j \in gone THEN None
                                    ELSE entries[<<calls[c].kind, calls[c].cat>>][j]]
    <2>6. \A j \in Keys : f[j] = IF j = k THEN new ELSE IF j \in gone THEN None
                                 ELSE entries[m][j]
        BY <1>4
    <2>7. entries' = [entries EXCEPT ![m] = f] /\ f = [j \in Keys |-> f[j]]
        BY <2>4
    <2> HIDE DEF new, f
    <2>8. /\ f \in [Keys -> [bucket: Buckets, seen: Nat] \cup {None}]
          /\ entries'[m] = f /\ \A n \in Maps \ {m} : entries'[n] = entries[n]
          /\ entries' \in [Maps -> [Keys -> [bucket: Buckets, seen: Nat] \cup {None}]]
        <3>1. f \in [Keys -> [bucket: Buckets, seen: Nat] \cup {None}]
            BY <1>5, <2>5, <2>6, <2>7
        <3>2. QED  BY <1>1, <1>4, <2>7, <3>1 DEF Typed
    <2>9. /\ entries'[m][k] = new
          /\ \A j \in Keys \ ({k} \cup gone) : entries'[m][j] = entries[m][j]
          /\ \A j \in Keys \cap gone : j # k => entries'[m][j] = None
        BY <1>4, <2>6, <2>8
    <2>10. Known(m)' = (Known(m) \ gone) \cup {k}
        BY <1>4, <2>5, <2>9 DEF Known
    <2>11. IF Full(m) THEN \E o \in Known(m) : gone = {o} ELSE gone = {}
        BY <2>4 DEF LeastRecentlySeen
    <2>12. QED  BY <1>2, <1>3, <1>4, <2>1, <2>2, <2>3, <2>5, <2>8, <2>9, <2>10, <2>11 DEF Fetches
<1>8. QED  BY <1>6, <1>7

\* What charging a bucket does.
LEMMA ChargeEffect ==
    ASSUME MapsInv, NEW c \in Calls, Charge(c),
           NEW kind, kind = calls[c].kind, NEW cat, cat = calls[c].cat,
           NEW b, b = calls[c].bucket[kind],
           NEW p, p = Period[cat], NEW q, q = Quota[cat]
    PROVE  /\ calls[c].pc = "charge" /\ kind \in Kinds /\ cat \in Categories
           /\ Belongs(b, kind, cat, KeyIn(c, kind))
           /\ p \in Nat \ {0} /\ q \in Nat \ {0} /\ UNCHANGED <<now, entries>>
           /\ calls[c].charged[kind] = None
           /\ calls' \in [Calls -> Call] /\ \A d \in Calls \ {c} : calls'[d] = calls[d]
           /\ calls'[c].bucket = calls[c].bucket
           /\ calls'[c].bearer = calls[c].bearer /\ calls'[c].cat = cat
           /\ \/ /\ ~ Conforms(b, q, p) /\ tat' = tat
                 /\ calls'[c].pc = "denied" /\ calls'[c].at = now /\ calls'[c].kind = kind
                 /\ calls'[c].charged = calls[c].charged
              \/ /\ Conforms(b, q, p) /\ tat' = [tat EXCEPT ![b] = NextArrival(b, p)]
                 /\ calls'[c].charged[kind] = now
                 /\ \A other \in Kinds \ {kind} :
                       calls'[c].charged[other] = calls[c].charged[other]
                 /\ calls'[c].at = now /\ calls'[c].kind = "sub"
                 /\ calls'[c].pc = IF kind = "bearer" THEN "get" ELSE "allowed"
<1>1. Typed /\ CallInv(c)
    BY DEF MapsInv
<1>2. calls[c].pc = "charge" /\ calls[c] \in Call /\ now \in Nat /\ c \in Begun
    BY <1>1 DEF Charge, Typed, Begun
<1>3. kind \in Kinds /\ cat \in Categories /\ Belongs(b, kind, cat, KeyIn(c, kind))
    BY <1>1, <1>2 DEF CallInv, Call
<1>4. p \in Nat \ {0} /\ q \in Nat \ {0} /\ UNCHANGED <<now, entries>>
    BY <1>3, RateLimitAssumption DEF Charge
<1>5. calls[c].charged[kind] = None
    BY <1>1, <1>2 DEF CallInv
<1>6. CASE ~ Conforms(b, q, p)
    <2>1. tat' = tat /\ calls' = [calls EXCEPT ![c].pc = "denied", ![c].at = now]
        BY <1>6 DEF Charge
    <2>2. PICK new : new = [calls[c] EXCEPT !.pc = "denied", !.at = now]
        OBVIOUS
    <2>3. /\ new \in Call /\ new.pc = "denied" /\ new.at = now /\ new.kind = kind
          /\ new.charged = calls[c].charged /\ new.bucket = calls[c].bucket
          /\ new.bearer = calls[c].bearer /\ new.cat = cat
        BY <1>2, <2>2 DEF Call
    <2>4. calls' = [calls EXCEPT ![c] = new]
        BY <1>1, <2>1, <2>2 DEF Typed
    <2>5. calls' \in [Calls -> Call] /\ calls'[c] = new /\ \A d \in Calls \ {c} : calls'[d] = calls[d]
        BY <1>1, <2>3, <2>4 DEF Typed
    <2>6. QED  BY <1>2, <1>3, <1>4, <1>5, <1>6, <2>1, <2>3, <2>5
<1>7. CASE Conforms(b, q, p)
    <2> DEFINE next == IF NextKind(kind) = "none" THEN kind ELSE NextKind(kind)
               verdict == IF NextKind(kind) = "none" THEN "allowed" ELSE "get"
    <2>1. /\ tat' = [tat EXCEPT ![b] = NextArrival(b, p)]
          /\ calls' = [calls EXCEPT ![c].charged[kind] = now, ![c].kind = next,
                                    ![c].at = now, ![c].pc = verdict]
        BY <1>7 DEF Charge
    <2>2. next = "sub" /\ verdict = (IF kind = "bearer" THEN "get" ELSE "allowed")
        BY <1>3 DEF NextKind, Kinds
    <2> HIDE DEF next, verdict
    <2>3. PICK new : new = [calls[c] EXCEPT !.charged[kind] = now, !.kind = next,
                                            !.at = now, !.pc = verdict]
        OBVIOUS
    <2>4. /\ new \in Call /\ new.pc = verdict /\ new.at = now /\ new.kind = next
          /\ new.charged[kind] = now
          /\ \A other \in Kinds \ {kind} : new.charged[other] = calls[c].charged[other]
          /\ new.bucket = calls[c].bucket /\ new.bearer = calls[c].bearer /\ new.cat = cat
        BY <1>2, <1>3, <2>2, <2>3 DEF Call, Kinds
    <2>5. calls' = [calls EXCEPT ![c] = new]
        BY <1>1, <2>1, <2>3 DEF Typed
    <2>6. calls' \in [Calls -> Call] /\ calls'[c] = new /\ \A d \in Calls \ {c} : calls'[d] = calls[d]
        BY <1>1, <2>4, <2>5 DEF Typed
    <2>7. QED  BY <1>2, <1>3, <1>4, <1>5, <1>7, <2>1, <2>2, <2>4, <2>6
<1>8. QED  BY <1>6, <1>7

\* A call that does not move keeps its invariant.
LEMMA CallKept ==
    ASSUME MapsInv, [Next]_vars, NEW d \in Calls, calls'[d] = calls[d]
    PROVE  CallInv(d)'
<1>1. KeepsCalls /\ now \in Nat /\ now' \in Nat /\ now' >= now /\ CallInv(d) /\ calls[d] \in Call
    BY Steady DEF MapsInv, Typed
<1>2. d \in Begun <=> d \in Begun'
    BY DEF Begun
<1>3. ASSUME NEW kind \in Kinds, calls[d].bucket[kind] # None
      PROVE  Belongs(calls[d].bucket[kind], kind, calls[d].cat, KeyIn(d, kind))'
    <2>1. PICK b, cat, k : b = calls[d].bucket[kind] /\ cat = calls[d].cat /\ k = KeyIn(d, kind)
        OBVIOUS
    <2>2. Belongs(b, kind, cat, k)
        BY <1>1, <1>3, <2>1 DEF CallInv
    <2>3. Belongs(b, kind, cat, k)'
        BY <1>1, <2>2, BelongsStays
    <2>4. KeyIn(d, kind)' = k
        BY <2>1 DEF KeyIn
    <2>5. QED  BY <2>1, <2>3, <2>4
<1>4. ASSUME NEW kind \in Kinds, calls[d].charged[kind] # None
      PROVE  calls[d].bucket[kind] # None /\ calls[d].charged[kind] <= now'
    <2>1. calls[d].bucket[kind] # None /\ calls[d].charged[kind] <= now
        BY <1>1, <1>4 DEF CallInv
    <2>2. calls[d].charged[kind] \in Nat
        BY <1>1, <1>4 DEF Call
    <2>3. QED  BY <1>1, <2>1, <2>2
<1>5. QED  BY <1>1, <1>2, <1>3, <1>4 DEF CallInv

\* The maps no step touches keep their invariant.
LEMMA EntriesKept ==
    ASSUME MapsInv, [Next]_vars, NEW kind \in Kinds, NEW cat \in Categories,
           entries'[<<kind, cat>>] = entries[<<kind, cat>>]
    PROVE  /\ Known(<<kind, cat>>)' = Known(<<kind, cat>>)
           /\ \A k \in Known(<<kind, cat>>) :
                 Belongs(entries[<<kind, cat>>][k].bucket, kind, cat, k)'
<1>1. Known(<<kind, cat>>)' = Known(<<kind, cat>>)
    BY DEF Known
<1>2. ASSUME NEW k \in Known(<<kind, cat>>)
      PROVE  Belongs(entries[<<kind, cat>>][k].bucket, kind, cat, k)'
    <2>1. PICK b : b = entries[<<kind, cat>>][k].bucket
        OBVIOUS
    <2>2. Belongs(b, kind, cat, k)
        BY <2>1 DEF MapsInv, EntriesInv
    <2>3. Belongs(b, kind, cat, k)'
        BY <2>2, Steady, BelongsStays
    <2>4. QED  BY <2>1, <2>3
<1>3. QED  BY <1>1, <1>2

\* One map after get_or_insert_with_quota().
LEMMA GetKeepsBound ==
    ASSUME NEW S, NEW T, NEW k, NEW gone, IsFiniteSet(S), Cardinality(S) <= KeyCap,
           T = (S \ gone) \cup {k},
           IF k \in S THEN gone = {}
           ELSE IF Cardinality(S) >= KeyCap THEN \E o \in S : gone = {o}
           ELSE gone = {}
    PROVE  IsFiniteSet(T) /\ Cardinality(T) <= KeyCap
<1>0. KeyCap \in Nat \ {0} /\ Cardinality(S) \in Nat
    BY RateLimitAssumption, FS_CardinalityType
<1>1. CASE k \in S
    <2>1. T = S
        BY <1>1
    <2>2. QED  BY <2>1
<1>2. CASE k \notin S /\ Cardinality(S) >= KeyCap
    <2>1. PICK o \in S : gone = {o}
        BY <1>2
    <2>2. IsFiniteSet(S \ {o}) /\ Cardinality(S \ {o}) = Cardinality(S) - 1
        BY FS_RemoveElement
    <2>3. k \notin S \ {o}
        BY <1>2
    <2>4. IsFiniteSet((S \ {o}) \cup {k}) /\ Cardinality((S \ {o}) \cup {k}) = Cardinality(S \ {o}) + 1
        BY <2>2, <2>3, FS_AddElement
    <2>5. QED  BY <1>0, <2>1, <2>2, <2>4
<1>3. CASE k \notin S /\ ~ (Cardinality(S) >= KeyCap)
    <2>1. T = S \cup {k}
        BY <1>3
    <2>2. IsFiniteSet(T) /\ Cardinality(T) = Cardinality(S) + 1
        BY <1>3, <2>1, FS_AddElement
    <2>3. QED  BY <1>0, <1>3, <2>2
<1>4. QED  BY <1>1, <1>2, <1>3

\* All calls are idle and all maps empty at first.
LEMMA MapsInit == Init => MapsInv
<1> SUFFICES ASSUME Init PROVE MapsInv
    OBVIOUS
<1>1. Typed
    BY DEF Init, Typed, Call, Kinds
<1>2. Begun = {}
    BY DEF Init, Begun
<1>3. ASSUME NEW d \in Calls PROVE CallInv(d)
    <2>1. /\ calls[d].pc = "idle" /\ calls[d].kind = "bearer" /\ d \notin Begun
          /\ \A kind \in Kinds : calls[d].bucket[kind] = None /\ calls[d].charged[kind] = None
        BY <1>2 DEF Init
    <2>2. QED  BY <2>1 DEF CallInv, Kinds
<1>4. ASSUME NEW kind \in Kinds, NEW cat \in Categories PROVE Known(<<kind, cat>>) = {}
    BY DEF Init, Known, Maps
<1>5. EntriesInv
    BY <1>4, FS_EmptySet, RateLimitAssumption DEF EntriesInv
<1>6. QED  BY <1>1, <1>2, <1>3, <1>5, FS_EmptySet DEF MapsInv

\* One step of the limiters keeps MapsInv.
LEMMA MapsNext == ASSUME MapsInv, [Next]_vars PROVE MapsInv'
<1>0. /\ Typed /\ IsFiniteSet(Begun) /\ EntriesInv /\ KeepsCalls
      /\ now \in Nat /\ now' \in Nat /\ now' >= now
      /\ \A d \in Calls : CallInv(d)
    BY Steady DEF MapsInv
<1>1. ASSUME entries' = entries PROVE EntriesInv'
    BY <1>0, <1>1, EntriesKept DEF EntriesInv
<1>2. CASE UNCHANGED <<entries, tat, calls>>
    <2>1. Typed'
        BY <1>0, <1>2 DEF Typed
    <2>2. \A d \in Calls : CallInv(d)'
        BY <1>2, CallKept
    <2>3. Begun' = Begun
        BY <1>2 DEF Begun
    <2>4. QED  BY <1>0, <1>1, <1>2, <2>1, <2>2, <2>3 DEF MapsInv
<1>3. ASSUME NEW c \in Calls, Begin(c) \/ InitializeRateLimit(c) PROVE MapsInv'
    <2>1. PICK b \in Bearers, cat \in Categories :
              calls' = [calls EXCEPT ![c].pc = "get", ![c].bearer = b, ![c].cat = cat]
        BY <1>3, BeginEffect
    <2>2. calls[c].pc = "idle" /\ UNCHANGED <<now, entries, tat>>
        BY <1>3, BeginEffect
    <2>3. PICK new : new = [calls[c] EXCEPT !.pc = "get", !.bearer = b, !.cat = cat]
        OBVIOUS
    <2>4. /\ new \in Call /\ new.pc = "get" /\ new.bearer = b /\ new.cat = cat
          /\ new.kind = calls[c].kind /\ new.bucket = calls[c].bucket
          /\ new.charged = calls[c].charged
        BY <1>0, <2>3 DEF Typed, Call
    <2>5. calls' = [calls EXCEPT ![c] = new]
        BY <1>0, <2>1, <2>3 DEF Typed
    <2>6. calls' \in [Calls -> Call] /\ calls'[c] = new /\ \A d \in Calls \ {c} : calls'[d] = calls[d]
        BY <1>0, <2>4, <2>5 DEF Typed
    <2>7. Typed'
        BY <1>0, <2>2, <2>6 DEF Typed
    <2>8. Begun' = Begun \cup {c}
        BY <2>4, <2>6 DEF Begun
    <2>9. CallInv(c)'
        <3>1. /\ calls[c].kind = "bearer"
              /\ \A kind \in Kinds : calls[c].bucket[kind] = None /\ calls[c].charged[kind] = None
            BY <1>0, <2>2 DEF CallInv, Begun
        <3>2. QED  BY <2>4, <2>6, <2>8, <3>1 DEF CallInv, Kinds
    <2>10. \A d \in Calls : CallInv(d)'
        BY <2>6, <2>9, CallKept
    <2>11. QED  BY <1>0, <1>1, <2>2, <2>7, <2>8, <2>10, FS_AddElement DEF MapsInv
<1>4. ASSUME NEW c \in Calls, GetOrInsert(c) PROVE MapsInv'
    <2>0. PICK kind, cat, k, m : /\ kind = calls[c].kind /\ cat = calls[c].cat
                                 /\ k = KeyIn(c, kind) /\ m = <<kind, cat>>
        OBVIOUS
    <2>f. Fetches(c, kind, cat, k, m)
        BY <1>4, <2>0, GetEffect
    <2>1. /\ calls[c].pc = "get" /\ kind \in Kinds /\ cat \in Categories /\ k \in Keys
          /\ m \in Maps /\ UNCHANGED <<now, tat>>
          /\ entries' \in [Maps -> [Keys -> [bucket: Buckets, seen: Nat] \cup {None}]]
          /\ \A n \in Maps \ {m} : entries'[n] = entries[n]
        BY <2>f DEF Fetches
    <2>2. PICK b, gone :
              /\ Belongs(b, kind, cat, k)
              /\ calls' = [calls EXCEPT ![c].pc = "charge", ![c].bucket[kind] = b]
              /\ entries'[m][k] # None /\ entries'[m][k].bucket = b
              /\ Known(m)' = (Known(m) \ gone) \cup {k}
              /\ \A j \in Keys \ ({k} \cup gone) : entries'[m][j] = entries[m][j]
              /\ IF k \in Known(m) THEN gone = {} /\ b = entries[m][k].bucket
                 ELSE IF Full(m) THEN \E o \in Known(m) : gone = {o}
                 ELSE gone = {}
        BY <2>f DEF Fetches
    <2>3. PICK new : new = [calls[c] EXCEPT !.pc = "charge", !.bucket[kind] = b]
        OBVIOUS
    <2>4. /\ new \in Call /\ new.pc = "charge" /\ new.bearer = calls[c].bearer /\ new.cat = cat
          /\ new.kind = kind /\ new.bucket[kind] = b /\ new.charged = calls[c].charged
          /\ \A other \in Kinds \ {kind} : new.bucket[other] = calls[c].bucket[other]
        <3>1. b \in Buckets
            BY <2>2 DEF Belongs
        <3>2. QED  BY <1>0, <2>0, <2>1, <2>3, <3>1 DEF Typed, Call
    <2>5. calls' = [calls EXCEPT ![c] = new]
        BY <1>0, <2>2, <2>3 DEF Typed
    <2>6. calls' \in [Calls -> Call] /\ calls'[c] = new /\ \A d \in Calls \ {c} : calls'[d] = calls[d]
        BY <1>0, <2>4, <2>5 DEF Typed
    <2>7. Typed'
        BY <1>0, <2>1, <2>6 DEF Typed
    <2>8. Begun' = Begun /\ c \in Begun
        BY <2>1, <2>4, <2>6 DEF Begun
    <2>9. CallInv(c)'
        <3>1. b # None
            BY <2>2, RateLimitAssumption DEF Belongs
        <3>2. \A other \in Kinds : KeyIn(c, other)' = KeyIn(c, other)
            BY <2>4, <2>6 DEF KeyIn
        <3>3. ASSUME NEW other \in Kinds, calls'[c].bucket[other] # None
              PROVE  Belongs(calls[c].bucket[other], other, calls[c].cat, KeyIn(c, other))'
            <4>1. PICK e, j : e = calls'[c].bucket[other] /\ j = KeyIn(c, other)
                OBVIOUS
            <4>2. Belongs(e, other, cat, j)
                <5>1. CASE other = kind
                    BY <2>0, <2>2, <2>4, <2>6, <4>1, <5>1
                <5>2. CASE other # kind
                    <6>1. e = calls[c].bucket[other] /\ e # None
                        BY <2>4, <2>6, <3>3, <4>1, <5>2
                    <6>2. QED  BY <1>0, <2>0, <4>1, <6>1 DEF CallInv
                <5>3. QED  BY <5>1, <5>2
            <4>3. Belongs(e, other, cat, j)'
                BY <1>0, <4>2, BelongsStays
            <4>4. QED  BY <2>4, <2>6, <3>2, <4>1, <4>3
        <3>4. /\ calls[c].charged[kind] = None /\ calls[c].charged["sub"] = None
              /\ kind = "bearer" => calls[c].bucket["sub"] = None
              /\ \A other \in Kinds : calls[c].charged[other] # None =>
                    calls[c].bucket[other] # None /\ calls[c].charged[other] <= now
            BY <1>0, <2>0, <2>1 DEF CallInv
        <3>5. kind = "bearer" => calls'[c].bucket["sub"] = None
            BY <2>4, <2>6, <3>4 DEF Kinds
        <3>6. \A other \in Kinds : calls'[c].charged[other] # None =>
                  calls'[c].bucket[other] # None /\ calls'[c].charged[other] <= now'
            BY <2>1, <2>4, <2>6, <3>4
        <3>7. calls'[c].cat \in Categories /\ calls'[c].bearer \in Bearers
            BY <1>0, <2>1, <2>4, <2>6, <2>8 DEF CallInv
        <3>8. QED  BY <2>4, <2>6, <2>8, <3>1, <3>3, <3>4, <3>5, <3>6, <3>7 DEF CallInv
    <2>10. \A d \in Calls : CallInv(d)'
        BY <2>6, <2>9, CallKept
    <2>11. ASSUME NEW kind2 \in Kinds, NEW cat2 \in Categories
           PROVE  /\ IsFiniteSet(Known(<<kind2, cat2>>)')
                  /\ Cardinality(Known(<<kind2, cat2>>)') <= KeyCap
                  /\ \A j \in Known(<<kind2, cat2>>)' :
                        Belongs(entries[<<kind2, cat2>>][j].bucket, kind2, cat2, j)'
        <3>1. CASE <<kind2, cat2>> # m
            <4>1. entries'[<<kind2, cat2>>] = entries[<<kind2, cat2>>]
                BY <2>1, <3>1 DEF Maps
            <4>2. QED  BY <1>0, <4>1, EntriesKept DEF EntriesInv
        <3>2. CASE <<kind2, cat2>> = m
            <4>1. kind2 = kind /\ cat2 = cat
                BY <2>0, <3>2
            <4>2. IsFiniteSet(Known(m)) /\ Cardinality(Known(m)) <= KeyCap
                BY <1>0, <2>0, <2>1 DEF EntriesInv
            <4>3. IsFiniteSet(Known(m)') /\ Cardinality(Known(m)') <= KeyCap
                <5>1. IF k \in Known(m) THEN gone = {}
                      ELSE IF Cardinality(Known(m)) >= KeyCap THEN \E o \in Known(m) : gone = {o}
                      ELSE gone = {}
                    BY <2>2 DEF Full
                <5>2. QED  BY <2>2, <4>2, <5>1, GetKeepsBound
            <4>4. ASSUME NEW j \in Known(m)'
                  PROVE  Belongs(entries[m][j].bucket, kind, cat, j)'
                <5>1. PICK e : e = entries'[m][j].bucket
                    OBVIOUS
                <5>2. Belongs(e, kind, cat, j)
                    <6>1. CASE j = k
                        BY <2>2, <5>1, <6>1
                    <6>2. CASE j # k
                        <7>1. j \in Known(m) /\ j \in Keys \ ({k} \cup gone)
                            BY <2>2, <4>4, <6>2 DEF Known
                        <7>2. entries'[m][j] = entries[m][j]
                            BY <2>2, <7>1
                        <7>3. QED  BY <1>0, <2>0, <2>1, <5>1, <7>1, <7>2 DEF EntriesInv
                    <6>3. QED  BY <6>1, <6>2
                <5>3. QED  BY <1>0, <5>1, <5>2, BelongsStays
            <4>5. QED  BY <3>2, <4>1, <4>3, <4>4
        <3>3. QED  BY <3>1, <3>2
    <2>12. QED  BY <1>0, <2>7, <2>8, <2>10, <2>11 DEF MapsInv, EntriesInv
<1>5. ASSUME NEW c \in Calls, Charge(c) PROVE MapsInv'
    <2>0. PICK kind, cat, b, p, q :
              /\ kind = calls[c].kind /\ cat = calls[c].cat /\ b = calls[c].bucket[kind]
              /\ p = Period[cat] /\ q = Quota[cat]
        OBVIOUS
    <2>1. /\ calls[c].pc = "charge" /\ kind \in Kinds /\ cat \in Categories
          /\ Belongs(b, kind, cat, KeyIn(c, kind))
          /\ p \in Nat \ {0} /\ q \in Nat \ {0} /\ UNCHANGED <<now, entries>>
          /\ calls' \in [Calls -> Call] /\ \A d \in Calls \ {c} : calls'[d] = calls[d]
          /\ calls'[c].bucket = calls[c].bucket
          /\ calls'[c].bearer = calls[c].bearer /\ calls'[c].cat = cat
        BY <1>5, <2>0, ChargeEffect
    <2>2. \/ /\ tat' = tat /\ calls'[c].pc = "denied" /\ calls'[c].kind = kind
             /\ calls'[c].charged = calls[c].charged
          \/ /\ tat' = [tat EXCEPT ![b] = NextArrival(b, p)]
             /\ calls'[c].charged[kind] = now
             /\ \A other \in Kinds \ {kind} :
                   calls'[c].charged[other] = calls[c].charged[other]
             /\ calls'[c].at = now /\ calls'[c].kind = "sub"
             /\ calls'[c].pc = IF kind = "bearer" THEN "get" ELSE "allowed"
        BY <1>5, <2>0, ChargeEffect
    <2>3. b \in Buckets /\ b # None
        BY <2>1, RateLimitAssumption DEF Belongs
    <2>4. NextArrival(b, p) \in Nat
        <3>1. tat[b] \in Nat \cup {None}
            BY <1>0, <2>3 DEF Typed
        <3>2. Arrival(b, p) \in Nat
            BY <1>0, <2>1, <3>1 DEF Arrival
        <3>3. QED  BY <1>0, <2>1, <3>2 DEF NextArrival, Later
    <2>5. Typed'
        BY <1>0, <2>1, <2>2, <2>4 DEF Typed
    <2>6. Begun' = Begun /\ c \in Begun
        BY <2>1, <2>2 DEF Begun
    <2>7. CallInv(c)'
        <3>1. \A other \in Kinds : KeyIn(c, other)' = KeyIn(c, other)
            BY <2>1 DEF KeyIn
        <3>2. ASSUME NEW other \in Kinds, calls'[c].bucket[other] # None
              PROVE  Belongs(calls[c].bucket[other], other, calls[c].cat, KeyIn(c, other))'
            <4>1. PICK e, j : e = calls[c].bucket[other] /\ j = KeyIn(c, other)
                OBVIOUS
            <4>2. Belongs(e, other, cat, j)
                BY <1>0, <2>0, <2>1, <3>2, <4>1 DEF CallInv
            <4>3. Belongs(e, other, cat, j)'
                BY <1>0, <4>2, BelongsStays
            <4>4. QED  BY <2>1, <3>1, <4>1, <4>3
        <3>3. /\ calls[c].charged[kind] = None /\ calls[c].charged["sub"] = None
              /\ \A other \in Kinds : calls[c].charged[other] # None =>
                    calls[c].bucket[other] # None /\ calls[c].charged[other] <= now
            BY <1>0, <2>0, <2>1 DEF CallInv
        <3>4. \A other \in Kinds : calls'[c].charged[other] # None =>
                  calls'[c].bucket[other] # None /\ calls'[c].charged[other] <= now'
            BY <1>0, <2>0, <2>1, <2>2, <2>3, <3>3
        <3>5. calls'[c].cat \in Categories /\ calls'[c].bearer \in Bearers
            BY <1>0, <2>1, <2>6 DEF CallInv
        <3>6. calls'[c].pc = "get" => kind = "bearer" /\ calls'[c].kind = "sub"
                                      /\ calls'[c].charged["sub"] = None
            BY <2>2, <3>3 DEF Kinds
        <3>7. IF calls'[c].pc = "allowed" THEN calls'[c].charged["sub"] = calls'[c].at
              ELSE calls'[c].charged["sub"] = None
            BY <2>1, <2>2, <3>3 DEF Kinds
        <3>8. calls'[c].pc \in {"denied", "get", "allowed"}
            BY <2>2
        <3>9. QED  BY <2>6, <3>2, <3>4, <3>5, <3>6, <3>7, <3>8 DEF CallInv
    <2>8. \A d \in Calls : CallInv(d)'
        BY <2>1, <2>7, CallKept
    <2>9. QED  BY <1>0, <1>1, <2>1, <2>5, <2>6, <2>8 DEF MapsInv
<1>6. QED  BY <1>2, <1>3, <1>4, <1>5 DEF Next, Tick, vars

\* The limiters keep their types, and no map of buckets ever holds more than
\* LIMITER_KEY_CAP keys, for every number of calls, bearers and categories.
THEOREM LimitersTyped == Spec => []TypeOK
<1>1. MapsInv => TypeOK
    BY DEF MapsInv, Typed, EntriesInv, TypeOK, Maps
<1>2. QED  BY <1>1, MapsInit, MapsNext, PTL DEF Spec

-----------------------------------------------------------------------------

\* The calls charged to bucket b, and those charged after, from, until a moment.
Charged(b) == {d \in Calls : calls[d].charged[b[2]] # None /\ calls[d].bucket[b[2]] = b}
After(b, t) == {d \in Charged(b) : calls[d].charged[b[2]] > t}
Until(b, t) == {d \in Charged(b) : calls[d].charged[b[2]] <= t}

\* The period and burst of bucket b, which are those of the call it was made for.
P(b) == Period[calls[b[1]].cat]
Q(b) == Quota[calls[b[1]].cat]

\* The arrival time is no later than the calls charged since any moment t account
\* for, over what a full burst before t leaves.
Accounted(b) ==
    \A t \in Int : tat[b] <= Later(t + Q(b) * P(b) + P(b), now + P(b))
                               + Cardinality(After(b, t)) * P(b)

\* The arrival time is at least a period per call later than any moment t all
\* those calls came after, and one more if they are all the bucket has seen.
Advanced(b) ==
    \A t \in Int : After(b, t) # {} =>
        tat[b] >= t + 1 + Cardinality(After(b, t)) * P(b)
                    + (IF After(b, t) = Charged(b) THEN P(b) ELSE 0)

\* The calls charged after t and until u fit the quota, and one more if there
\* were earlier ones.
Fits(b) ==
    \A t, u \in Int : t < u =>
        Cardinality(After(b, t) \cap Until(b, u)) * P(b)
            <= Q(b) * P(b) + (u - (t + 1))
                 + (IF Until(b, u) \subseteq After(b, t) THEN 0 ELSE P(b))

BucketInv(b) ==
    IF Charged(b) = {} THEN tat[b] = None
    ELSE tat[b] # None /\ Accounted(b) /\ Advanced(b) /\ Fits(b)

\* A call that was charged has begun, and its bucket is that of a call with the
\* same category and key.
LEMMA ChargedFacts ==
    ASSUME MapsInv, NEW b \in Buckets
    PROVE  /\ Charged(b) \subseteq Begun /\ IsFiniteSet(Charged(b)) /\ b[2] \in Kinds
           /\ \A d \in Charged(b) :
                 /\ calls[d].charged[b[2]] \in Nat /\ calls[d].charged[b[2]] <= now
                 /\ Belongs(b, b[2], calls[d].cat, KeyIn(d, b[2]))
<1>1. b[2] \in Kinds
    BY DEF Buckets
<1>2. ASSUME NEW d \in Charged(b)
      PROVE  /\ calls[d].charged[b[2]] \in Nat /\ calls[d].charged[b[2]] <= now
             /\ Belongs(b, b[2], calls[d].cat, KeyIn(d, b[2]))
             /\ d \in Begun
    <2>1. d \in Calls /\ calls[d].charged[b[2]] # None /\ calls[d].bucket[b[2]] = b
        BY DEF Charged
    <2>2. CallInv(d) /\ calls[d] \in Call
        BY <2>1 DEF MapsInv, Typed
    <2>3. calls[d].bucket[b[2]] # None
        BY <1>1, <2>1, <2>2 DEF CallInv
    <2>4. d \in Begun
        BY <1>1, <2>2, <2>3 DEF CallInv
    <2>5. QED  BY <1>1, <2>1, <2>2, <2>3, <2>4 DEF CallInv, Call
<1>3. Charged(b) \subseteq Begun
    BY <1>2
<1>4. IsFiniteSet(Charged(b))
    BY <1>3, FS_Subset DEF MapsInv
<1>5. QED  BY <1>1, <1>2, <1>3, <1>4

\* Call c is let through by bucket b of some kind.
Grants(c, kind, b) ==
    /\ kind \in Kinds /\ b \in Buckets /\ b[2] = kind
    /\ calls[c].bucket[kind] = b /\ calls[c].charged[kind] = None
    /\ Belongs(b, kind, calls[c].cat, KeyIn(c, kind))
    /\ Conforms(b, Quota[calls[c].cat], Period[calls[c].cat])
    /\ tat' = [tat EXCEPT ![b] = NextArrival(b, Period[calls[c].cat])]
    /\ calls'[c].charged[kind] = now /\ calls'[c].bucket = calls[c].bucket
    /\ \A other \in Kinds \ {kind} : calls'[c].charged[other] = calls[c].charged[other]
    /\ \A d \in Calls \ {c} : calls'[d] = calls[d]
    /\ now' = now

\* A step charges one bucket or none.
LEMMA WhoCharges ==
    ASSUME MapsInv, [Next]_vars
    PROVE  \/ /\ tat' = tat
              /\ \A d \in Calls, kind \in Kinds : calls'[d].charged[kind] = calls[d].charged[kind]
           \/ \E c \in Calls : \E kind, b : Grants(c, kind, b)
<1>1. Typed
    BY DEF MapsInv
<1>2. CASE UNCHANGED <<tat, calls>>
    BY <1>2
<1>3. ASSUME NEW c \in Calls, Begin(c) \/ InitializeRateLimit(c)
      PROVE  /\ tat' = tat
             /\ \A d \in Calls, kind \in Kinds : calls'[d].charged[kind] = calls[d].charged[kind]
    <2>1. PICK b \in Bearers, cat \in Categories :
              calls' = [calls EXCEPT ![c].pc = "get", ![c].bearer = b, ![c].cat = cat]
        BY <1>3, BeginEffect
    <2>2. UNCHANGED tat
        BY <1>3, BeginEffect
    <2>3. \A d \in Calls : calls[d] \in Call
        BY <1>1 DEF Typed
    <2>4. \A d \in Calls : calls'[d].charged = calls[d].charged
        BY <1>1, <2>1, <2>3 DEF Typed, Call
    <2>5. QED  BY <2>2, <2>4
<1>4. ASSUME NEW c \in Calls, GetOrInsert(c)
      PROVE  /\ tat' = tat
             /\ \A d \in Calls, kind \in Kinds : calls'[d].charged[kind] = calls[d].charged[kind]
    <2>1. PICK b : calls' = [calls EXCEPT ![c].pc = "charge", ![c].bucket[calls[c].kind] = b]
        BY <1>4 DEF GetOrInsert
    <2>2. \A d \in Calls : calls[d] \in Call
        BY <1>1 DEF Typed
    <2>3. \A d \in Calls : calls'[d].charged = calls[d].charged
        BY <1>1, <2>1, <2>2 DEF Typed, Call
    <2>4. QED  BY <1>4, <2>3 DEF GetOrInsert
<1>5. ASSUME NEW c \in Calls, Charge(c)
      PROVE  \/ /\ tat' = tat
                /\ \A d \in Calls, kind \in Kinds : calls'[d].charged[kind] = calls[d].charged[kind]
             \/ \E kind, b : Grants(c, kind, b)
    <2>0. PICK kind, cat, b, p, q :
              /\ kind = calls[c].kind /\ cat = calls[c].cat /\ b = calls[c].bucket[kind]
              /\ p = Period[cat] /\ q = Quota[cat]
        OBVIOUS
    <2>1. /\ kind \in Kinds /\ Belongs(b, kind, cat, KeyIn(c, kind)) /\ now' = now
          /\ calls[c].charged[kind] = None
          /\ \A d \in Calls \ {c} : calls'[d] = calls[d]
          /\ calls'[c].bucket = calls[c].bucket
        BY <1>5, <2>0, ChargeEffect
    <2>2. \/ tat' = tat /\ calls'[c].charged = calls[c].charged
          \/ /\ Conforms(b, q, p) /\ tat' = [tat EXCEPT ![b] = NextArrival(b, p)]
             /\ calls'[c].charged[kind] = now
             /\ \A other \in Kinds \ {kind} :
                   calls'[c].charged[other] = calls[c].charged[other]
        BY <1>5, <2>0, ChargeEffect
    <2>3. CASE tat' = tat /\ calls'[c].charged = calls[c].charged
        BY <2>1, <2>3
    <2>4. CASE /\ Conforms(b, q, p) /\ tat' = [tat EXCEPT ![b] = NextArrival(b, p)]
               /\ calls'[c].charged[kind] = now
               /\ \A other \in Kinds \ {kind} :
                     calls'[c].charged[other] = calls[c].charged[other]
        <3>1. b \in Buckets /\ b[2] = kind
            BY <2>1 DEF Belongs
        <3>2. Grants(c, kind, b)
            BY <2>0, <2>1, <2>4, <3>1 DEF Grants
        <3>3. QED  BY <3>2
    <2>5. QED  BY <2>2, <2>3, <2>4
<1>6. QED  BY <1>2, <1>3, <1>4, <1>5 DEF Next, vars, Tick

\* The calls charged to a bucket stay so; only a call it lets through joins them.
LEMMA ChargedGrow ==
    ASSUME MapsInv, [Next]_vars, NEW b \in Buckets
    PROVE  /\ \A d \in Charged(b) : d \in Charged(b)' /\ calls'[d].charged[b[2]] = calls[d].charged[b[2]]
           /\ \/ Charged(b)' = Charged(b) /\ tat'[b] = tat[b]
              \/ \E c \in Calls : Grants(c, b[2], b) /\ Charged(b)' = Charged(b) \cup {c}
<1>0. Typed /\ KeepsCalls /\ b[2] \in Kinds
    BY Steady, ChargedFacts DEF MapsInv
<1>1. \A d \in Charged(b) : d \in Charged(b)' /\ calls'[d].charged[b[2]] = calls[d].charged[b[2]]
    BY <1>0 DEF Charged, KeepsCalls
<1>2. CASE /\ tat' = tat
           /\ \A d \in Calls, kind \in Kinds : calls'[d].charged[kind] = calls[d].charged[kind]
    <2>1. \A d \in Charged(b)' : d \in Charged(b)
        BY <1>0, <1>2 DEF Charged, KeepsCalls
    <2>2. QED  BY <1>1, <1>2, <2>1
<1>3. ASSUME NEW c \in Calls, NEW kind, NEW e, Grants(c, kind, e)
      PROVE  \/ Charged(b)' = Charged(b) /\ tat'[b] = tat[b]
             \/ Grants(c, b[2], b) /\ Charged(b)' = Charged(b) \cup {c}
    <2>1. \A d \in Charged(b)' : d = c \/ d \in Charged(b)
        BY <1>3 DEF Grants, Charged
    <2>2. CASE e = b
        <3>1. kind = b[2]
            BY <1>3, <2>2 DEF Grants
        <3>2. now \in Nat /\ now # None
            BY <1>0, RateLimitAssumption DEF Typed
        <3>3. c \in Charged(b)'
            BY <1>3, <2>2, <3>1, <3>2 DEF Grants, Charged
        <3>4. QED  BY <1>1, <1>3, <2>1, <2>2, <3>1, <3>3
    <2>3. CASE e # b
        <3>1. tat'[b] = tat[b]
            BY <1>0, <1>3, <2>3 DEF Grants, Typed
        <3>2. c \in Charged(b)' => c \in Charged(b)
            <4>1. CASE kind = b[2]
                BY <1>3, <2>3, <4>1 DEF Grants, Charged
            <4>2. CASE kind # b[2]
                BY <1>0, <1>3, <4>2 DEF Grants, Charged
            <4>3. QED  BY <4>1, <4>2
        <3>3. QED  BY <1>1, <2>1, <3>1, <3>2
    <2>4. QED  BY <2>2, <2>3
<1>4. QED  BY <1>1, <1>2, <1>3, WhoCharges

\* A bucket no step charges keeps its invariant as time goes by.
LEMMA BucketKept ==
    ASSUME MapsInv, [Next]_vars, NEW b \in Buckets, BucketInv(b),
           Charged(b)' = Charged(b), tat'[b] = tat[b]
    PROVE  BucketInv(b)'
<1>1. CASE Charged(b) = {}
    BY <1>1 DEF BucketInv
<1>2. CASE Charged(b) # {}
    <2>1. PICK d \in Charged(b) : Belongs(b, b[2], calls[d].cat, KeyIn(d, b[2]))
        BY <1>2, ChargedFacts
    <2>2. /\ b[1] \in Begun /\ calls'[b[1]].cat = calls[b[1]].cat
          /\ calls[b[1]].cat \in Categories
        <3>1. b[1] \in Begun
            BY <2>1 DEF Belongs
        <3>2. QED  BY <3>1, Steady DEF KeepsCalls, MapsInv, CallInv, Begun
    <2>3. P(b)' = P(b) /\ Q(b)' = Q(b) /\ P(b) \in Nat \ {0} /\ Q(b) \in Nat \ {0}
        BY <2>2, RateLimitAssumption DEF P, Q
    <2>4. \A e \in Charged(b) : calls'[e].charged[b[2]] = calls[e].charged[b[2]]
        BY ChargedGrow
    <2>5. \A t : After(b, t)' = After(b, t) /\ Until(b, t)' = Until(b, t)
        BY <2>4 DEF After, Until
    <2>6. now \in Nat /\ now' \in Nat /\ now' >= now
        BY Steady
    <2>7. tat[b] \in Nat
        BY <1>2 DEF BucketInv, MapsInv, Typed
    <2>8. Accounted(b)'
        <3> SUFFICES ASSUME NEW t \in Int
                     PROVE  tat[b] <= Later(t + Q(b) * P(b) + P(b), now' + P(b))
                                        + Cardinality(After(b, t)) * P(b)
            BY <2>3, <2>5 DEF Accounted
        <3>1. Cardinality(After(b, t)) \in Nat
            <4>1. IsFiniteSet(After(b, t))
                BY ChargedFacts, FS_Subset DEF After
            <4>2. QED  BY <4>1, FS_CardinalityType
        <3>2. PICK w \in Nat, x \in Nat : w = Q(b) * P(b) /\ x = Cardinality(After(b, t)) * P(b)
            BY <2>3, <3>1
        <3>3. tat[b] <= Later(t + w + P(b), now + P(b)) + x
            BY <1>2, <3>2 DEF BucketInv, Accounted
        <3>4. tat[b] <= Later(t + w + P(b), now' + P(b)) + x
            BY <2>3, <2>6, <2>7, <3>2, <3>3 DEF Later
        <3>5. QED  BY <3>2, <3>4
    <2>9. Advanced(b)'
        BY <1>2, <2>3, <2>5 DEF BucketInv, Advanced
    <2>10. Fits(b)'
        <3> SUFFICES ASSUME NEW t \in Int, NEW u \in Int, t < u
                     PROVE  Cardinality(After(b, t)' \cap Until(b, u)') * P(b)'
                                <= Q(b)' * P(b)' + (u - (t + 1))
                                     + (IF Until(b, u)' \subseteq After(b, t)' THEN 0 ELSE P(b)')
            BY DEF Fits
        <3>1. After(b, t)' = After(b, t) /\ Until(b, u)' = Until(b, u)
            BY <2>5
        <3>2. Cardinality(After(b, t) \cap Until(b, u)) * P(b)
                  <= Q(b) * P(b) + (u - (t + 1))
                       + (IF Until(b, u) \subseteq After(b, t) THEN 0 ELSE P(b))
            BY <1>2 DEF BucketInv, Fits
        <3>3. QED  BY <2>3, <3>1, <3>2
    <2>11. QED  BY <1>2, <2>8, <2>9, <2>10 DEF BucketInv
<1>3. QED  BY <1>1, <1>2

\* The call that a bucket lets through, counted in each of the windows.
LEMMA CountGranted ==
    ASSUME MapsInv, [Next]_vars, NEW b \in Buckets, NEW c \in Calls, Grants(c, b[2], b),
           Charged(b)' = Charged(b) \cup {c}, NEW t \in Int
    PROVE  /\ c \notin Charged(b)
           /\ Cardinality(After(b, t)) \in Nat
           /\ IF t < now
                THEN /\ After(b, t)' = After(b, t) \cup {c}
                     /\ Cardinality(After(b, t)') = Cardinality(After(b, t)) + 1
                     /\ Until(b, t)' = Until(b, t)
                ELSE /\ After(b, t)' = {} /\ Cardinality(After(b, t)') = 0
                     /\ Until(b, t)' = Charged(b)'
<1>1. /\ \A d \in Charged(b) : /\ calls[d].charged[b[2]] \in Nat
                               /\ calls[d].charged[b[2]] <= now
                               /\ calls'[d].charged[b[2]] = calls[d].charged[b[2]]
      /\ calls'[c].charged[b[2]] = now /\ c \notin Charged(b) /\ now \in Nat
    BY ChargedFacts, ChargedGrow, Steady DEF Grants, Charged
<1>2. IsFiniteSet(After(b, t)) /\ Cardinality(After(b, t)) \in Nat
    <2>1. IsFiniteSet(After(b, t))
        BY ChargedFacts, FS_Subset DEF After
    <2>2. QED  BY <2>1, FS_CardinalityType
<1>3. CASE t < now
    <2>1. After(b, t)' = After(b, t) \cup {c} /\ Until(b, t)' = Until(b, t)
        BY <1>1, <1>3 DEF After, Until
    <2>2. c \notin After(b, t)
        BY <1>1 DEF After
    <2>3. Cardinality(After(b, t)') = Cardinality(After(b, t)) + 1
        BY <1>2, <2>1, <2>2, FS_AddElement
    <2>4. QED  BY <1>1, <1>2, <1>3, <2>1, <2>3
<1>4. CASE ~ (t < now)
    <2>1. \A d \in Charged(b)' : /\ calls'[d].charged[b[2]] <= t
                                 /\ ~ (calls'[d].charged[b[2]] > t)
        BY <1>1, <1>4
    <2>2. After(b, t)' = {} /\ Until(b, t)' = Charged(b)'
        BY <2>1 DEF After, Until
    <2>3. QED  BY <1>1, <1>2, <1>4, <2>2, FS_EmptySet
<1>5. QED  BY <1>3, <1>4

\* A bucket that lets a call through keeps its invariant.
LEMMA BucketGranted ==
    ASSUME MapsInv, [Next]_vars, NEW b \in Buckets, BucketInv(b),
           NEW c \in Calls, Grants(c, b[2], b), Charged(b)' = Charged(b) \cup {c}
    PROVE  BucketInv(b)'
<1>1. PICK p, q, w : p = Period[calls[c].cat] /\ q = Quota[calls[c].cat] /\ w = q * p
    OBVIOUS
<1>2. /\ b[1] \in Begun /\ calls[b[1]].cat = calls[c].cat /\ calls[c].cat \in Categories
      /\ calls'[b[1]].cat = calls[c].cat
    <2>1. b[1] \in Begun /\ calls[b[1]].cat = calls[c].cat
        BY DEF Grants, Belongs
    <2>2. QED  BY <2>1, Steady DEF KeepsCalls, MapsInv, CallInv, Begun
<1>3. /\ P(b) = p /\ Q(b) = q /\ P(b)' = p /\ Q(b)' = q
      /\ p \in Nat \ {0} /\ q \in Nat \ {0}
    BY <1>1, <1>2, RateLimitAssumption DEF P, Q
<1>4. w \in Nat /\ w >= p /\ Q(b) * P(b) = w /\ Q(b)' * P(b)' = w
    <2>1. PICK r \in Nat : q = r + 1
        BY <1>3
    <2>2. w = r * p + p /\ r * p \in Nat
        BY <1>1, <1>3, <2>1
    <2>3. QED  BY <1>1, <1>3, <2>2
<1>5. now \in Nat /\ now' = now
    BY Steady DEF Grants
<1>6. PICK a : a = Arrival(b, p)
    OBVIOUS
<1>7. /\ a \in Nat /\ a <= now + w
      /\ tat'[b] = Later(a, now) + p /\ tat'[b] \in Nat /\ tat'[b] # None
      /\ tat'[b] >= a + p /\ tat'[b] >= now + p
      /\ tat'[b] = a + p \/ tat'[b] = now + p
    <2>1. tat[b] \in Nat \cup {None}
        BY DEF MapsInv, Typed
    <2>2. a \in Nat
        BY <1>3, <1>5, <1>6, <2>1 DEF Arrival
    <2>3. now >= a - w
        BY <1>1, <1>6 DEF Grants, Conforms
    <2>4. tat'[b] = Later(a, now) + p
        BY <1>1, <1>6 DEF Grants, NextArrival, MapsInv, Typed
    <2>5. QED  BY <1>3, <1>4, <1>5, <2>2, <2>3, <2>4, RateLimitAssumption DEF Later
<1>8. Charged(b) = {} => a = now + p
    BY <1>6 DEF BucketInv, Arrival
<1>9. Charged(b) # {} => a = tat[b] /\ Accounted(b) /\ Advanced(b) /\ Fits(b)
    BY <1>6 DEF BucketInv, Arrival
<1>10. c \notin Charged(b)
    BY DEF Grants, Charged
\* With n calls counted before, n * p more are accounted for; now it is one more.
<1>11. ASSUME NEW t \in Int, t < now
       PROVE  \E x \in Nat : /\ Cardinality(After(b, t)) * p = x
                             /\ Cardinality(After(b, t)') * p = x + p
                             /\ After(b, t)' = After(b, t) \cup {c}
                             /\ After(b, t) = {} => x = 0
    <2>1. PICK n \in Nat : /\ n = Cardinality(After(b, t))
                           /\ Cardinality(After(b, t)') = n + 1
                           /\ After(b, t)' = After(b, t) \cup {c}
        BY <1>11, CountGranted
    <2>2. n * p \in Nat /\ (n + 1) * p = n * p + p
        BY <1>3
    <2>3. After(b, t) = {} => n = 0
        BY <2>1, FS_EmptySet
    <2>4. n = 0 => n * p = 0
        BY <1>3
    <2>5. QED  BY <2>1, <2>2, <2>3, <2>4
<1>12. ASSUME NEW t \in Int, ~ (t < now)
       PROVE  /\ After(b, t)' = {} /\ Cardinality(After(b, t)') * p = 0
              /\ Until(b, t)' = Charged(b)'
    BY <1>3, <1>12, CountGranted
<1>13. Accounted(b)'
    <2> SUFFICES ASSUME NEW t \in Int
                 PROVE  tat'[b] <= Later(t + w + p, now + p) + Cardinality(After(b, t)') * p
        BY <1>3, <1>4, <1>5 DEF Accounted
    <2>1. CASE t < now
        <3>1. PICK x \in Nat : /\ Cardinality(After(b, t)) * p = x
                               /\ Cardinality(After(b, t)') * p = x + p
            BY <1>11, <2>1
        <3>2. a <= Later(t + w + p, now + p) + x
            <4>1. CASE Charged(b) = {}
                BY <1>3, <1>4, <1>5, <1>8, <3>1, <4>1 DEF Later
            <4>2. CASE Charged(b) # {}
                BY <1>3, <1>4, <1>9, <3>1, <4>2 DEF Accounted
            <4>3. QED  BY <4>1, <4>2
        <3>3. now <= Later(t + w + p, now + p) + x
            BY <1>3, <1>4, <1>5, <3>1 DEF Later
        <3>4. Later(t + w + p, now + p) \in Int
            BY <1>3, <1>4, <1>5 DEF Later
        <3>5. QED  BY <1>3, <1>5, <1>7, <3>1, <3>2, <3>3, <3>4
    <2>2. CASE ~ (t < now)
        <3>1. Cardinality(After(b, t)') * p = 0
            BY <1>12, <2>2
        <3>2. tat'[b] <= t + w + p
            BY <1>3, <1>4, <1>5, <1>7, <2>2
        <3>3. QED  BY <1>3, <1>4, <1>5, <1>7, <3>1, <3>2 DEF Later
    <2>3. QED  BY <2>1, <2>2
<1>14. Advanced(b)'
    <2> SUFFICES ASSUME NEW t \in Int, After(b, t)' # {}
                 PROVE  tat'[b] >= t + 1 + Cardinality(After(b, t)') * p
                                     + (IF After(b, t)' = Charged(b)' THEN p ELSE 0)
        BY <1>3 DEF Advanced
    <2>1. t < now
        BY <1>12
    <2>2. PICK x \in Nat : /\ Cardinality(After(b, t)) * p = x
                           /\ Cardinality(After(b, t)') * p = x + p
                           /\ After(b, t)' = After(b, t) \cup {c}
                           /\ After(b, t) = {} => x = 0
        BY <1>11, <2>1
    <2>3. (After(b, t)' = Charged(b)') <=> (After(b, t) = Charged(b))
        BY <1>10, <2>2 DEF After
    <2>4. CASE Charged(b) = {}
        <3>1. x = 0
            BY <2>2, <2>4 DEF After
        <3>2. QED  BY <1>3, <1>5, <1>7, <1>8, <2>1, <2>2, <2>4, <3>1
    <2>5. CASE Charged(b) # {} /\ After(b, t) = {}
        BY <1>3, <1>5, <1>7, <2>1, <2>2, <2>3, <2>5
    <2>6. CASE After(b, t) # {}
        <3>1. Charged(b) # {}
            BY <2>6 DEF After
        <3>2. a >= t + 1 + x + (IF After(b, t) = Charged(b) THEN p ELSE 0)
            BY <1>3, <1>9, <2>2, <2>6, <3>1 DEF Advanced
        <3>3. QED  BY <1>3, <1>7, <2>2, <2>3, <3>2
    <2>7. QED  BY <2>4, <2>5, <2>6
<1>15. Fits(b)'
    <2> SUFFICES ASSUME NEW t \in Int, NEW u \in Int, t < u
                 PROVE  Cardinality(After(b, t)' \cap Until(b, u)') * p
                            <= w + (u - (t + 1))
                                 + (IF Until(b, u)' \subseteq After(b, t)' THEN 0 ELSE p)
        BY <1>3, <1>4 DEF Fits
    <2>1. CASE u < now
        <3>1. Until(b, u)' = Until(b, u) /\ After(b, t)' = After(b, t) \cup {c}
            BY <2>1, <1>5, CountGranted
        <3>2. c \notin Until(b, u)
            BY <1>10 DEF Until
        <3>3. /\ After(b, t)' \cap Until(b, u)' = After(b, t) \cap Until(b, u)
              /\ (Until(b, u)' \subseteq After(b, t)') <=> (Until(b, u) \subseteq After(b, t))
            BY <3>1, <3>2
        <3>4. CASE Charged(b) = {}
            <4>1. After(b, t) \cap Until(b, u) = {}
                BY <3>4 DEF After
            <4>2. Cardinality(After(b, t)' \cap Until(b, u)') * p = 0
                BY <1>3, <3>3, <4>1, FS_EmptySet
            <4>3. QED  BY <1>3, <1>4, <4>2
        <3>5. CASE Charged(b) # {}
            <4>1. Cardinality(After(b, t) \cap Until(b, u)) * p
                      <= w + (u - (t + 1)) + (IF Until(b, u) \subseteq After(b, t) THEN 0 ELSE p)
                BY <1>3, <1>4, <1>9, <3>5 DEF Fits
            <4>2. QED  BY <3>3, <4>1
        <3>6. QED  BY <3>4, <3>5
    <2>2. CASE ~ (t < now)
        <3>1. After(b, t)' \cap Until(b, u)' = {}
            BY <1>12, <2>2
        <3>2. Cardinality(After(b, t)' \cap Until(b, u)') * p = 0
            BY <1>3, <3>1, FS_EmptySet
        <3>3. QED  BY <1>3, <1>4, <3>2
    <2>3. CASE t < now /\ ~ (u < now)
        <3>1. PICK x \in Nat : /\ Cardinality(After(b, t)) * p = x
                               /\ Cardinality(After(b, t)') * p = x + p
                               /\ After(b, t)' = After(b, t) \cup {c}
                               /\ After(b, t) = {} => x = 0
            BY <1>11, <2>3
        <3>2. Until(b, u)' = Charged(b)'
            BY <1>12, <2>3
        <3>3. After(b, t)' \cap Until(b, u)' = After(b, t)'
            BY <3>2 DEF After
        <3>4. (Until(b, u)' \subseteq After(b, t)') <=> (After(b, t) = Charged(b))
            BY <1>10, <3>1, <3>2 DEF After
        <3>c. Cardinality(After(b, t)' \cap Until(b, u)') * p = x + p
            BY <3>1, <3>3
        <3>5. CASE After(b, t) = {}
            BY <1>3, <1>4, <3>1, <3>c, <3>5
        <3>6. CASE After(b, t) # {}
            <4>1. Charged(b) # {}
                BY <3>6 DEF After
            <4>2. a >= t + 1 + x + (IF After(b, t) = Charged(b) THEN p ELSE 0)
                BY <1>3, <1>9, <3>1, <3>6, <4>1 DEF Advanced
            <4>3. a <= u + w
                BY <1>4, <1>5, <1>7, <2>3
            <4>4. QED  BY <1>3, <1>4, <1>7, <3>1, <3>c, <3>4, <4>2, <4>3
        <3>7. QED  BY <3>5, <3>6
    <2>4. QED  BY <2>1, <2>2, <2>3
<1>16. QED  BY <1>7, <1>13, <1>14, <1>15 DEF BucketInv

\* Every step keeps every bucket's invariant.
LEMMA BucketsNext ==
    ASSUME MapsInv, [Next]_vars, \A b \in Buckets : BucketInv(b)
    PROVE  \A b \in Buckets : BucketInv(b)'
BY ChargedGrow, BucketKept, BucketGranted

-----------------------------------------------------------------------------

\* The calls of c's category charged to c's own key within the time that refills
\* a burst, before c was denied.
Recent(c, kind) ==
    {d \in Calls : /\ calls[d].cat = calls[c].cat
                   /\ calls[d].charged[kind] # None
                   /\ calls[d].charged[kind]
                        > calls[c].at - Quota[calls[c].cat] * Period[calls[c].cat]
                   /\ KeyIn(d, kind) = KeyIn(c, kind)}

DeniedInv(c) ==
    calls[c].pc = "denied" =>
        \E kind \in Kinds : Cardinality(Recent(c, kind)) >= Quota[calls[c].cat]

\* A bucket that does not conform has been charged a whole burst since that
\* burst would have refilled.
LEMMA BurstCharged ==
    ASSUME MapsInv, NEW b \in Buckets, BucketInv(b), NEW p \in Nat \ {0}, NEW q \in Nat \ {0},
           Charged(b) # {} => P(b) = p /\ Q(b) = q, ~ Conforms(b, q, p)
    PROVE  /\ q * p \in Nat
           /\ Cardinality(After(b, now - q * p)) >= q
<1>1. PICK w : w = q * p
    OBVIOUS
<1>2. w \in Nat /\ w >= p /\ now \in Nat
    <2>1. PICK r \in Nat : q = r + 1
        OBVIOUS
    <2>2. w = r * p + p /\ r * p \in Nat
        BY <1>1, <2>1
    <2>3. QED  BY <2>2 DEF MapsInv, Typed
<1>3. tat[b] \in Nat \cup {None}
    BY DEF MapsInv, Typed
<1>4. tat[b] # None
    BY <1>1, <1>2 DEF Conforms, Arrival
<1>5. Charged(b) # {} /\ Accounted(b) /\ P(b) = p /\ Q(b) = q
    BY <1>4 DEF BucketInv
<1>6. tat[b] > now + w
    BY <1>1, <1>2, <1>3, <1>4 DEF Conforms, Arrival
<1>7. PICK n \in Nat : n = Cardinality(After(b, now - w))
    <2>1. IsFiniteSet(After(b, now - w))
        BY ChargedFacts, FS_Subset DEF After
    <2>2. QED  BY <2>1, FS_CardinalityType
<1>8. n * p \in Nat /\ (n + 1) * p = n * p + p
    OBVIOUS
<1>9. tat[b] <= now + p + n * p
    <2>1. now - w \in Int
        BY <1>2
    <2>2. tat[b] <= Later(now - w + w + p, now + p) + n * p
        BY <1>1, <1>5, <1>7, <2>1 DEF Accounted
    <2>3. QED  BY <1>2, <1>3, <1>4, <1>8, <2>2 DEF Later
<1>10. q * p < (n + 1) * p
    BY <1>1, <1>2, <1>3, <1>4, <1>6, <1>8, <1>9
<1>11. q < n + 1
    <2> SUFFICES ASSUME q >= n + 1 PROVE FALSE
        OBVIOUS
    <2>1. PICK r \in Nat : q = (n + 1) + r
        <3>1. q - (n + 1) \in Nat /\ q = (n + 1) + (q - (n + 1))
            OBVIOUS
        <3>2. QED  BY <3>1
    <2>2. q * p = (n + 1) * p + r * p /\ r * p \in Nat /\ (n + 1) * p \in Nat
        BY <2>1
    <2>3. QED  BY <1>10, <2>2
<1>12. QED  BY <1>1, <1>2, <1>7, <1>11

\* Every step keeps what a denial was for.
LEMMA DeniedNext ==
    ASSUME MapsInv, [Next]_vars, \A b \in Buckets : BucketInv(b), NEW c \in Calls, DeniedInv(c)
    PROVE  DeniedInv(c)'
<1>0. KeepsCalls /\ Typed /\ \A d \in Calls : CallInv(d) /\ calls[d] \in Call
    BY Steady DEF MapsInv, Typed
<1>1. ASSUME NEW d \in Calls, NEW kind \in Kinds, calls[d].charged[kind] # None
      PROVE  /\ calls'[d].cat = calls[d].cat /\ KeyIn(d, kind)' = KeyIn(d, kind)
             /\ calls'[d].charged[kind] = calls[d].charged[kind] /\ d \in Begun
    <2>1. d \in Begun
        BY <1>0, <1>1 DEF CallInv
    <2>2. QED  BY <1>0, <1>1, <2>1 DEF KeepsCalls, KeyIn
<1>2. ASSUME calls[c].pc = "denied" PROVE DeniedInv(c)'
    <2>1. calls'[c] = calls[c]
        BY <1>0, <1>2 DEF Next, vars, Begin, InitializeRateLimit, GetOrInsert, Charge, Tick, Typed
    <2>2. PICK kind \in Kinds : Cardinality(Recent(c, kind)) >= Quota[calls[c].cat]
        BY <1>2 DEF DeniedInv
    <2>3. KeyIn(c, kind)' = KeyIn(c, kind)
        BY <2>1 DEF KeyIn
    <2>4. Recent(c, kind) \subseteq Recent(c, kind)'
        BY <1>1, <2>1, <2>3 DEF Recent
    <2>5. Recent(c, kind)' \subseteq Begun'
        <3>1. \A d \in Calls : CallInv(d)'
            BY MapsNext DEF MapsInv
        <3>2. QED  BY <3>1 DEF Recent, CallInv
    <2>6. IsFiniteSet(Recent(c, kind)')
        <3>1. IsFiniteSet(Begun')
            BY MapsNext DEF MapsInv
        <3>2. QED  BY <2>5, <3>1, FS_Subset
    <2>7. /\ Cardinality(Recent(c, kind)) <= Cardinality(Recent(c, kind)')
          /\ Cardinality(Recent(c, kind)) \in Nat /\ Cardinality(Recent(c, kind)') \in Nat
        <3>1. IsFiniteSet(Recent(c, kind))
            BY <2>4, <2>6, FS_Subset
        <3>2. QED  BY <2>4, <2>6, <3>1, FS_Subset, FS_CardinalityType
    <2>8. Quota[calls[c].cat] \in Nat
        <3>1. calls[c].cat \in Categories
            BY <1>0, <1>2 DEF CallInv, Begun
        <3>2. QED  BY <3>1, RateLimitAssumption
    <2>9. Cardinality(Recent(c, kind)') >= Quota[calls'[c].cat]
        BY <2>1, <2>2, <2>7, <2>8
    <2>10. QED  BY <2>9 DEF DeniedInv
<1>3. ASSUME calls[c].pc # "denied", calls'[c].pc = "denied" PROVE DeniedInv(c)'
    <2>1. Charge(c)
        <3>1. CASE UNCHANGED calls
            BY <1>3, <3>1
        <3>2. ASSUME NEW d \in Calls, Begin(d) \/ InitializeRateLimit(d) PROVE FALSE
            <4>1. \E bearer \in Bearers, cat \in Categories :
                     calls' = [calls EXCEPT ![d].pc = "get", ![d].bearer = bearer, ![d].cat = cat]
                BY <3>2, BeginEffect
            <4>2. QED  BY <1>0, <1>3, <4>1 DEF Typed, Call
        <3>3. ASSUME NEW d \in Calls, GetOrInsert(d) PROVE FALSE
            <4>1. PICK b : calls' = [calls EXCEPT ![d].pc = "charge", ![d].bucket[calls[d].kind] = b]
                BY <3>3 DEF GetOrInsert
            <4>2. QED  BY <1>0, <1>3, <4>1 DEF Typed, Call
        <3>4. ASSUME NEW d \in Calls, Charge(d) PROVE d = c
            <4>1. \A e \in Calls \ {d} : calls'[e] = calls[e]
                BY <3>4, ChargeEffect
            <4>2. QED  BY <1>3, <4>1
        <3>5. QED  BY <3>1, <3>2, <3>3, <3>4 DEF Next, vars, Tick
    <2>2. PICK kind, cat, b, p, q :
              /\ kind = calls[c].kind /\ cat = calls[c].cat /\ b = calls[c].bucket[kind]
              /\ p = Period[cat] /\ q = Quota[cat]
        OBVIOUS
    <2>3. /\ kind \in Kinds /\ cat \in Categories
          /\ Belongs(b, kind, cat, KeyIn(c, kind))
          /\ p \in Nat \ {0} /\ q \in Nat \ {0}
          /\ calls'[c].bearer = calls[c].bearer /\ calls'[c].cat = cat
        BY <2>1, <2>2, ChargeEffect
    <2>4. ~ Conforms(b, q, p) /\ calls'[c].at = now
        <3>1. \/ /\ ~ Conforms(b, q, p) /\ calls'[c].at = now
              \/ calls'[c].pc = IF kind = "bearer" THEN "get" ELSE "allowed"
            BY <2>1, <2>2, ChargeEffect
        <3>2. QED  BY <1>3, <3>1
    <2>5. b \in Buckets /\ b[2] = kind /\ calls[b[1]].cat = cat /\ P(b) = p /\ Q(b) = q
        BY <2>2, <2>3 DEF Belongs, P, Q
    <2>6. q * p \in Nat /\ Cardinality(After(b, now - q * p)) >= q
        BY <2>3, <2>4, <2>5, BurstCharged
    <2>7. KeyIn(c, kind)' = KeyIn(c, kind)
        BY <2>3 DEF KeyIn
    <2>8. After(b, now - q * p) \subseteq Recent(c, kind)'
        <3> SUFFICES ASSUME NEW d \in After(b, now - q * p) PROVE d \in Recent(c, kind)'
            OBVIOUS
        <3>1. d \in Charged(b) /\ calls[d].charged[kind] > now - q * p
            BY <2>5 DEF After
        <3>2. d \in Calls /\ calls[d].charged[kind] # None
            BY <2>5, <3>1 DEF Charged
        <3>3. Belongs(b, kind, calls[d].cat, KeyIn(d, kind))
            BY <2>5, <3>1, ChargedFacts
        <3>4. calls[d].cat = cat /\ KeyIn(d, kind) = KeyIn(c, kind)
            BY <2>3, <3>3 DEF Belongs
        <3>5. /\ calls'[d].cat = cat /\ KeyIn(d, kind)' = KeyIn(c, kind)'
              /\ calls'[d].charged[kind] = calls[d].charged[kind]
            BY <1>1, <2>3, <2>7, <3>2, <3>4
        <3>6. calls'[c].at - Quota[calls'[c].cat] * Period[calls'[c].cat] = now - q * p
            BY <2>2, <2>3, <2>4
        <3>7. QED  BY <2>3, <3>1, <3>2, <3>5, <3>6 DEF Recent
    <2>9. IsFiniteSet(Recent(c, kind)')
        <3>1. IsFiniteSet(Begun') /\ \A d \in Calls : CallInv(d)'
            BY MapsNext DEF MapsInv
        <3>2. Recent(c, kind)' \subseteq Begun'
            BY <2>3, <3>1 DEF Recent, CallInv
        <3>3. QED  BY <3>1, <3>2, FS_Subset
    <2>10. /\ Cardinality(After(b, now - q * p)) <= Cardinality(Recent(c, kind)')
           /\ Cardinality(After(b, now - q * p)) \in Nat /\ Cardinality(Recent(c, kind)') \in Nat
        <3>1. IsFiniteSet(After(b, now - q * p))
            BY <2>8, <2>9, FS_Subset
        <3>2. QED  BY <2>8, <2>9, <3>1, FS_Subset, FS_CardinalityType
    <2>11. Cardinality(Recent(c, kind)') >= Quota[calls'[c].cat]
        BY <2>2, <2>3, <2>6, <2>10
    <2>12. QED  BY <2>3, <2>11 DEF DeniedInv
<1>4. QED  BY <1>2, <1>3 DEF DeniedInv

LimiterInv ==
    /\ MapsInv
    /\ \A b \in Buckets : BucketInv(b)
    /\ \A c \in Calls : DeniedInv(c)

\* At first no bucket has been charged and nobody was denied.
LEMMA LimiterInit == Init => LimiterInv
<1> SUFFICES ASSUME Init PROVE LimiterInv
    OBVIOUS
<1>1. MapsInv
    BY MapsInit
<1>2. ASSUME NEW b \in Buckets PROVE BucketInv(b)
    <2>1. b[2] \in Kinds /\ tat[b] = None
        BY DEF Init, Buckets
    <2>2. Charged(b) = {}
        BY <2>1 DEF Init, Charged
    <2>3. QED  BY <2>1, <2>2 DEF BucketInv
<1>3. ASSUME NEW c \in Calls PROVE DeniedInv(c)
    BY DEF Init, DeniedInv
<1>4. QED  BY <1>1, <1>2, <1>3 DEF LimiterInv

\* Every step keeps LimiterInv.
LEMMA LimiterNext == LimiterInv /\ [Next]_vars => LimiterInv'
BY MapsNext, BucketsNext, DeniedNext DEF LimiterInv

\* A call is denied only after its own bearer, or its own subject, was charged a
\* whole burst within the time that refills it, for every quota and period and
\* whatever buckets the maps evict between fetch and charge.
THEOREM DeniedForOwnCalls == Spec => []DeniedOnlyAfterBurst
<1>1. LimiterInv => DeniedOnlyAfterBurst
    <2> SUFFICES ASSUME LimiterInv, NEW c \in Calls, calls[c].pc = "denied"
                 PROVE  LET cat == calls[c].cat
                            recent(kind) == {d \in Calls :
                                /\ calls[d].cat = cat
                                /\ calls[d].charged[kind] # None
                                /\ calls[d].charged[kind] > calls[c].at - Quota[cat] * Period[cat]}
                        IN \/ Cardinality({d \in recent("bearer") :
                                  calls[d].bearer = calls[c].bearer}) >= Quota[cat]
                           \/ Cardinality({d \in recent("sub") :
                                  SubOf[calls[d].bearer] = SubOf[calls[c].bearer]}) >= Quota[cat]
        BY DEF DeniedOnlyAfterBurst
    <2> DEFINE cat == calls[c].cat
               recent(kind) == {d \in Calls :
                                /\ calls[d].cat = cat
                                /\ calls[d].charged[kind] # None
                                /\ calls[d].charged[kind] > calls[c].at - Quota[cat] * Period[cat]}
    <2>1. Recent(c, "bearer") = {d \in recent("bearer") : calls[d].bearer = calls[c].bearer}
        BY DEF Recent, KeyIn
    <2>2. Recent(c, "sub") = {d \in recent("sub") : SubOf[calls[d].bearer] = SubOf[calls[c].bearer]}
        BY DEF Recent, KeyIn
    <2>3. PICK kind \in Kinds : Cardinality(Recent(c, kind)) >= Quota[cat]
        BY DEF LimiterInv, DeniedInv
    <2>4. kind = "bearer" \/ kind = "sub"
        BY DEF Kinds
    <2> HIDE DEF cat, recent
    <2>5. QED  BY <2>1, <2>2, <2>3, <2>4 DEF cat, recent
<1>2. QED  BY <1>1, LimiterInit, LimiterNext, PTL DEF Spec

-----------------------------------------------------------------------------

\* Subject o has fetched a bucket of this category; the other subjects that have.
Seen(cat, o) == \E d \in Begun : /\ calls[d].cat = cat /\ SubOf[calls[d].bearer] = o
                                 /\ calls[d].bucket["sub"] # None
OtherSubjects(s, cat) == {o \in Subs \ {s} : Seen(cat, o)}

\* The calls of subject s all use the bucket its map has for it.
SoleBucket(s, cat) ==
    \A d \in Begun :
        /\ calls[d].cat = cat /\ SubOf[calls[d].bearer] = s
        /\ calls[d].bucket["sub"] # None
        => /\ s \in Known(<<"sub", cat>>)
           /\ entries[<<"sub", cat>>][s].bucket = calls[d].bucket["sub"]

\* Whoever is in a subjects' map has fetched a bucket, and a subject's bucket is
\* replaced only after KeyCap others have come.
SubjectInv(cat) ==
    /\ \A o \in Known(<<"sub", cat>>) : o \in Subs /\ Seen(cat, o)
    /\ \A s \in Subs : SoleBucket(s, cat) \/ Cardinality(OtherSubjects(s, cat)) >= KeyCap

\* There are never infinitely many subjects.
LEMMA OthersFinite ==
    ASSUME MapsInv, NEW s, NEW cat
    PROVE  IsFiniteSet(OtherSubjects(s, cat))
<1> DEFINE subject == [d \in Begun |-> SubOf[calls[d].bearer]]
           all == {SubOf[calls[d].bearer] : d \in Begun}
<1>1. subject \in Surjection(Begun, all)
    BY DEF Surjection
<1>2. IsFiniteSet(all)
    BY <1>1, FS_Surjection DEF MapsInv
<1>3. OtherSubjects(s, cat) \subseteq all
    BY DEF OtherSubjects, Seen
<1>4. QED  BY <1>2, <1>3, FS_Subset

\* Only get_or_insert_with_quota() on a subjects' map changes a subject's bucket.
LEMMA SubjectsKept ==
    ASSUME MapsInv, [Next]_vars
    PROVE  \/ /\ \A d \in Calls : calls'[d].bucket["sub"] = calls[d].bucket["sub"]
              /\ \A cat \in Categories : entries'[<<"sub", cat>>] = entries[<<"sub", cat>>]
           \/ \E c \in Calls : GetOrInsert(c) /\ calls[c].kind = "sub"
<1>0. Typed /\ \A d \in Calls : calls[d] \in Call
    BY DEF MapsInv, Typed
<1>1. CASE UNCHANGED <<entries, calls>>
    BY <1>1
<1>2. ASSUME NEW c \in Calls, Begin(c) \/ InitializeRateLimit(c)
      PROVE  entries' = entries /\ \A d \in Calls : calls'[d].bucket = calls[d].bucket
    <2>1. PICK b \in Bearers, cat \in Categories :
              calls' = [calls EXCEPT ![c].pc = "get", ![c].bearer = b, ![c].cat = cat]
        BY <1>2, BeginEffect
    <2>2. entries' = entries
        BY <1>2, BeginEffect
    <2>3. QED  BY <1>0, <2>1, <2>2 DEF Typed, Call
<1>3. ASSUME NEW c \in Calls, Charge(c)
      PROVE  entries' = entries /\ \A d \in Calls : calls'[d].bucket = calls[d].bucket
    BY <1>3, ChargeEffect
<1>4. ASSUME NEW c \in Calls, GetOrInsert(c), calls[c].kind # "sub"
      PROVE  /\ \A d \in Calls : calls'[d].bucket["sub"] = calls[d].bucket["sub"]
             /\ \A cat \in Categories : entries'[<<"sub", cat>>] = entries[<<"sub", cat>>]
    <2>1. PICK kind, cat, k, m : /\ kind = calls[c].kind /\ cat = calls[c].cat
                                 /\ k = KeyIn(c, kind) /\ m = <<kind, cat>>
        OBVIOUS
    <2>2. Fetches(c, kind, cat, k, m)
        BY <1>4, <2>1, GetEffect
    <2>3. \A other \in Categories : entries'[<<"sub", other>>] = entries[<<"sub", other>>]
        <3>1. \A other \in Categories : <<"sub", other>> \in Maps \ {m}
            BY <1>4, <2>1 DEF Maps, Kinds
        <3>2. QED  BY <2>2, <3>1 DEF Fetches
    <2>4. PICK b : calls' = [calls EXCEPT ![c].pc = "charge", ![c].bucket[kind] = b]
        BY <2>2 DEF Fetches
    <2>5. \A d \in Calls : calls'[d].bucket["sub"] = calls[d].bucket["sub"]
        BY <1>0, <1>4, <2>1, <2>4 DEF Typed, Call, Kinds
    <2>6. QED  BY <2>3, <2>5
<1>5. QED  BY <1>1, <1>2, <1>3, <1>4 DEF Next, vars, Tick

\* What a fetch from a subjects' map m under key k does to the calls and the map.
SubjectFetches(c, cat, k, m) ==
    /\ cat \in Categories /\ k \in Subs /\ c \in Begun /\ c \in Begun'
    /\ \A other \in Categories \ {cat} : entries'[<<"sub", other>>] = entries[<<"sub", other>>]
    /\ calls'[c].cat = cat /\ SubOf[calls'[c].bearer] = k
    /\ \A d \in Calls \ {c} : calls'[d] = calls[d]
    /\ \E b, gone :
          /\ b # None /\ calls'[c].bucket["sub"] = b /\ entries'[m][k].bucket = b
          /\ Known(m)' = (Known(m) \ gone) \cup {k}
          /\ \A j \in Keys \ ({k} \cup gone) : entries'[m][j] = entries[m][j]
          /\ IF k \in Known(m) THEN gone = {} /\ b = entries[m][k].bucket
             ELSE IF Full(m) THEN \E o \in Known(m) : gone = {o}
             ELSE gone = {}

\* That is what GetOrInsert does for a subject.
LEMMA SubjectFetch ==
    ASSUME MapsInv, NEW c \in Calls, GetOrInsert(c), calls[c].kind = "sub",
           NEW cat, cat = calls[c].cat, NEW k, k = SubOf[calls[c].bearer],
           NEW m, m = <<"sub", cat>>
    PROVE  SubjectFetches(c, cat, k, m)
<1>0. Typed /\ CallInv(c) /\ calls[c] \in Call
    BY DEF MapsInv, Typed
<1>1. k = KeyIn(c, "sub")
    BY DEF KeyIn
<1>2. Fetches(c, "sub", cat, k, m)
    BY <1>1, GetEffect
<1>3. calls[c].pc = "get" /\ c \in Begun /\ calls[c].bearer \in Bearers /\ k \in Subs
    BY <1>0, <1>2 DEF Fetches, Begun, CallInv, Subs
<1>4. PICK b, gone :
          /\ Belongs(b, "sub", cat, k)
          /\ calls' = [calls EXCEPT ![c].pc = "charge", ![c].bucket["sub"] = b]
          /\ entries'[m][k] # None /\ entries'[m][k].bucket = b
          /\ Known(m)' = (Known(m) \ gone) \cup {k}
          /\ \A j \in Keys \ ({k} \cup gone) : entries'[m][j] = entries[m][j]
          /\ IF k \in Known(m) THEN gone = {} /\ b = entries[m][k].bucket
             ELSE IF Full(m) THEN \E o \in Known(m) : gone = {o}
             ELSE gone = {}
    BY <1>2 DEF Fetches
<1>5. b # None
    BY <1>4, RateLimitAssumption DEF Belongs
<1>6. /\ calls'[c].cat = cat /\ calls'[c].bearer = calls[c].bearer
      /\ calls'[c].bucket["sub"] = b /\ calls'[c].pc = "charge"
      /\ \A d \in Calls \ {c} : calls'[d] = calls[d]
    BY <1>0, <1>4 DEF Typed, Call, Kinds
<1>7. \A other \in Categories \ {cat} : entries'[<<"sub", other>>] = entries[<<"sub", other>>]
    <2>1. \A other \in Categories \ {cat} : <<"sub", other>> \in Maps \ {m}
        BY DEF Maps, Kinds
    <2>2. QED  BY <1>2, <2>1 DEF Fetches
<1>8. cat \in Categories /\ c \in Begun'
    BY <1>2, <1>6 DEF Fetches, Begun
<1>9. SubOf[calls'[c].bearer] = k
    BY <1>6
<1>10. /\ b # None /\ calls'[c].bucket["sub"] = b /\ entries'[m][k].bucket = b
       /\ Known(m)' = (Known(m) \ gone) \cup {k}
       /\ \A j \in Keys \ ({k} \cup gone) : entries'[m][j] = entries[m][j]
       /\ IF k \in Known(m) THEN gone = {} /\ b = entries[m][k].bucket
          ELSE IF Full(m) THEN \E o \in Known(m) : gone = {o}
          ELSE gone = {}
    BY <1>4, <1>5, <1>6
<1>11. QED  BY <1>3, <1>6, <1>7, <1>8, <1>9, <1>10, Zenon DEF SubjectFetches

\* A subject once seen stays seen, so the crowd around a subject never shrinks.
LEMMA CrowdStays ==
    ASSUME MapsInv, [Next]_vars, NEW cat \in Categories
    PROVE  /\ \A o : Seen(cat, o) => Seen(cat, o)'
           /\ \A s : /\ IsFiniteSet(OtherSubjects(s, cat)')
                     /\ Cardinality(OtherSubjects(s, cat)) >= KeyCap
                           => Cardinality(OtherSubjects(s, cat)') >= KeyCap
<1>0. KeepsCalls /\ MapsInv'
    BY Steady, MapsNext
<1>1. ASSUME NEW d \in Calls, calls[d].bucket["sub"] # None
      PROVE  calls'[d].bucket["sub"] # None
    <2>1. CASE \A e \in Calls : calls'[e].bucket["sub"] = calls[e].bucket["sub"]
        BY <1>1, <2>1
    <2>2. ASSUME NEW c \in Calls, GetOrInsert(c), calls[c].kind = "sub"
          PROVE  calls'[d].bucket["sub"] # None
        <3>1. /\ \A e \in Calls \ {c} : calls'[e] = calls[e]
              /\ calls'[c].bucket["sub"] # None
            <4>1. PICK group, k, m : /\ group = calls[c].cat /\ k = SubOf[calls[c].bearer]
                                     /\ m = <<"sub", group>>
                OBVIOUS
            <4>2. SubjectFetches(c, group, k, m)
                BY <2>2, <4>1, SubjectFetch
            <4>3. QED  BY <4>2 DEF SubjectFetches
        <3>2. QED  BY <1>1, <3>1
    <2>3. \/ \A e \in Calls : calls'[e].bucket["sub"] = calls[e].bucket["sub"]
          \/ \E c \in Calls : GetOrInsert(c) /\ calls[c].kind = "sub"
        BY SubjectsKept
    <2>4. QED  BY <2>1, <2>2, <2>3
<1>2. ASSUME NEW o, Seen(cat, o) PROVE Seen(cat, o)'
    <2>1. PICK d \in Begun : /\ calls[d].cat = cat /\ SubOf[calls[d].bearer] = o
                             /\ calls[d].bucket["sub"] # None
        BY <1>2 DEF Seen
    <2>2. /\ d \in Begun' /\ calls'[d].cat = cat /\ SubOf[calls'[d].bearer] = o
        BY <1>0, <2>1 DEF KeepsCalls
    <2>3. calls'[d].bucket["sub"] # None
        BY <1>1, <2>1 DEF Begun
    <2>4. QED  BY <2>2, <2>3 DEF Seen
<1>3. ASSUME NEW s PROVE /\ IsFiniteSet(OtherSubjects(s, cat)')
                         /\ Cardinality(OtherSubjects(s, cat)) >= KeyCap
                               => Cardinality(OtherSubjects(s, cat)') >= KeyCap
    <2>1. IsFiniteSet(OtherSubjects(s, cat))
        BY OthersFinite
    <2>2. IsFiniteSet(OtherSubjects(s, cat)')
        <3>1. PICK subject : subject = [d \in Begun' |-> SubOf[calls'[d].bearer]]
            OBVIOUS
        <3>2. PICK all : all = {SubOf[calls'[d].bearer] : d \in Begun'}
            OBVIOUS
        <3>3. subject \in Surjection(Begun', all)
            BY <3>1, <3>2 DEF Surjection
        <3>4. IsFiniteSet(Begun')
            BY <1>0 DEF MapsInv
        <3>5. IsFiniteSet(all)
            BY <3>3, <3>4, FS_Surjection
        <3>6. OtherSubjects(s, cat)' \subseteq all
            BY <3>2 DEF OtherSubjects, Seen
        <3>7. QED  BY <3>5, <3>6, FS_Subset
    <2>3. OtherSubjects(s, cat) \subseteq OtherSubjects(s, cat)'
        BY <1>2 DEF OtherSubjects
    <2>4. Cardinality(OtherSubjects(s, cat)) <= Cardinality(OtherSubjects(s, cat)')
        BY <2>2, <2>3, FS_Subset
    <2>5. Cardinality(OtherSubjects(s, cat)) \in Nat /\ Cardinality(OtherSubjects(s, cat)') \in Nat
        BY <2>1, <2>2, FS_CardinalityType
    <2>6. QED  BY <2>2, <2>4, <2>5, RateLimitAssumption
<1>4. QED  BY <1>2, <1>3

\* A step that leaves the subjects' map and the calls' buckets keeps SubjectInv.
LEMMA SubjectKept ==
    ASSUME MapsInv, [Next]_vars, NEW cat \in Categories, SubjectInv(cat),
           entries'[<<"sub", cat>>] = entries[<<"sub", cat>>],
           \A d \in Begun' : calls'[d].cat = cat /\ calls'[d].bucket["sub"] # None =>
               calls'[d].bucket["sub"] = calls[d].bucket["sub"]
    PROVE  SubjectInv(cat)'
<1>0. KeepsCalls /\ \A d \in Calls : CallInv(d)
    BY Steady DEF MapsInv
<1>1. Known(<<"sub", cat>>)' = Known(<<"sub", cat>>)
    BY DEF Known
<1>2. \A o \in Known(<<"sub", cat>>)' : o \in Subs /\ Seen(cat, o)'
    BY <1>1, CrowdStays DEF SubjectInv
<1>3. ASSUME NEW s \in Subs, SoleBucket(s, cat) PROVE SoleBucket(s, cat)'
    <2> SUFFICES ASSUME NEW d \in Begun', calls'[d].cat = cat, SubOf[calls'[d].bearer] = s,
                        calls'[d].bucket["sub"] # None
                 PROVE  /\ s \in Known(<<"sub", cat>>)'
                        /\ entries'[<<"sub", cat>>][s].bucket = calls'[d].bucket["sub"]
        BY DEF SoleBucket
    <2>1. calls[d].bucket["sub"] = calls'[d].bucket["sub"] /\ d \in Calls
        BY DEF Begun
    <2>2. d \in Begun
        BY <1>0, <2>1 DEF CallInv, Kinds
    <2>3. calls[d].cat = cat /\ SubOf[calls[d].bearer] = s
        BY <1>0, <2>2 DEF KeepsCalls
    <2>4. /\ s \in Known(<<"sub", cat>>)
          /\ entries[<<"sub", cat>>][s].bucket = calls[d].bucket["sub"]
        BY <1>3, <2>1, <2>2, <2>3 DEF SoleBucket
    <2>5. QED  BY <1>1, <2>1, <2>4
<1>4. \A s \in Subs : SoleBucket(s, cat)' \/ Cardinality(OtherSubjects(s, cat)') >= KeyCap
    BY <1>3, CrowdStays DEF SubjectInv
<1>5. QED  BY <1>2, <1>4 DEF SubjectInv

\* Every step keeps SubjectInv: the only bucket lost is evicted from a full map by a
\* subject not in it, which with the others in the map makes KeyCap.
LEMMA SubjectNext ==
    ASSUME MapsInv, [Next]_vars, NEW cat \in Categories, SubjectInv(cat)
    PROVE  SubjectInv(cat)'
<1>0. KeepsCalls /\ Typed /\ EntriesInv /\ \A d \in Calls : CallInv(d)
    BY Steady DEF MapsInv
<1>1. CASE /\ \A d \in Calls : calls'[d].bucket["sub"] = calls[d].bucket["sub"]
           /\ \A other \in Categories : entries'[<<"sub", other>>] = entries[<<"sub", other>>]
    <2>1. \A d \in Begun' : calls'[d].bucket["sub"] = calls[d].bucket["sub"]
        BY <1>1 DEF Begun
    <2>2. QED  BY <1>1, <2>1, SubjectKept
<1>2. ASSUME NEW c \in Calls, GetOrInsert(c), calls[c].kind = "sub"
      PROVE  SubjectInv(cat)'
    <2>1. PICK group, k, m : /\ group = calls[c].cat /\ k = SubOf[calls[c].bearer]
                             /\ m = <<"sub", group>>
        OBVIOUS
    <2>2. SubjectFetches(c, group, k, m)
        BY <1>2, <2>1, SubjectFetch
    <2>3. CASE group # cat
        <3>1. entries'[<<"sub", cat>>] = entries[<<"sub", cat>>]
            BY <2>2, <2>3 DEF SubjectFetches
        <3>2. \A d \in Begun' : calls'[d].cat = cat => calls'[d] = calls[d]
            BY <2>2, <2>3 DEF SubjectFetches, Begun
        <3>3. QED  BY <3>1, <3>2, SubjectKept
    <2>4. CASE group = cat
        <3>1. PICK b, gone :
                  /\ b # None /\ calls'[c].bucket["sub"] = b /\ entries'[m][k].bucket = b
                  /\ Known(m)' = (Known(m) \ gone) \cup {k}
                  /\ \A j \in Keys \ ({k} \cup gone) : entries'[m][j] = entries[m][j]
                  /\ IF k \in Known(m) THEN gone = {} /\ b = entries[m][k].bucket
                     ELSE IF Full(m) THEN \E o \in Known(m) : gone = {o}
                     ELSE gone = {}
            BY <2>2 DEF SubjectFetches
        <3>2. /\ k \in Subs /\ c \in Begun /\ c \in Begun' /\ m = <<"sub", cat>>
              /\ calls'[c].cat = cat /\ SubOf[calls'[c].bearer] = k
              /\ \A d \in Calls \ {c} : calls'[d] = calls[d]
            BY <2>1, <2>2, <2>4 DEF SubjectFetches
        <3>3. Seen(cat, k)'
            BY <3>1, <3>2 DEF Seen
        <3>4. \A o \in Known(m)' : o \in Subs /\ Seen(cat, o)'
            BY <3>1, <3>2, <3>3, CrowdStays DEF SubjectInv
        <3>5. ASSUME NEW s \in Subs, SoleBucket(s, cat), s \notin gone PROVE SoleBucket(s, cat)'
            <4> SUFFICES ASSUME NEW d \in Begun', calls'[d].cat = cat, SubOf[calls'[d].bearer] = s,
                                calls'[d].bucket["sub"] # None
                         PROVE  s \in Known(m)' /\ entries'[m][s].bucket = calls'[d].bucket["sub"]
                BY <3>2 DEF SoleBucket
            <4>1. CASE d = c
                BY <3>1, <3>2, <4>1
            <4>2. CASE d # c
                <5>1. calls'[d] = calls[d] /\ d \in Begun
                    BY <3>2, <4>2 DEF Begun
                <5>2. s \in Known(m) /\ entries[m][s].bucket = calls'[d].bucket["sub"]
                    BY <3>2, <3>5, <5>1 DEF SoleBucket
                <5>3. s \in Known(m)'
                    BY <3>1, <3>5, <5>2
                <5>4. CASE s = k
                    BY <3>1, <5>2, <5>3, <5>4
                <5>5. CASE s # k
                    <6>1. s \in Keys \ ({k} \cup gone)
                        BY <3>5, <5>5 DEF Keys
                    <6>2. entries'[m][s] = entries[m][s]
                        BY <3>1, <6>1
                    <6>3. QED  BY <5>2, <5>3, <6>2
                <5>6. QED  BY <5>4, <5>5
            <4>3. QED  BY <4>1, <4>2
        <3>6. ASSUME NEW s \in gone PROVE Cardinality(OtherSubjects(s, cat)') >= KeyCap
            <4>1. k \notin Known(m) /\ Full(m) /\ s \in Known(m)
                BY <3>1, <3>6
            <4>2. PICK rest : rest = Known(m) \ {s}
                OBVIOUS
            <4>3. IsFiniteSet(Known(m))
                BY <1>0, <3>2 DEF EntriesInv, Kinds
            <4>4. Cardinality(Known(m)) \in Nat /\ Cardinality(rest) = Cardinality(Known(m)) - 1
                BY <4>1, <4>2, <4>3, FS_RemoveElement, FS_CardinalityType
            <4>5. IsFiniteSet(rest)
                BY <4>2, <4>3, FS_Subset
            <4>6. k \notin rest
                BY <4>1, <4>2
            <4>7. Cardinality(rest \cup {k}) = Cardinality(rest) + 1 /\ IsFiniteSet(rest \cup {k})
                BY <4>5, <4>6, FS_AddElement
            <4>8. Cardinality(rest \cup {k}) >= KeyCap
                BY <4>1, <4>4, <4>7 DEF Full
            <4>9. rest \cup {k} \subseteq OtherSubjects(s, cat)'
                <5>1. ASSUME NEW o \in rest \cup {k}
                      PROVE  o \in Subs /\ o # s /\ Seen(cat, o)'
                    <6>1. CASE o \in rest
                        <7>1. o \in Known(m) /\ o # s
                            BY <4>2, <6>1
                        <7>2. o \in Subs /\ Seen(cat, o)
                            BY <3>2, <7>1 DEF SubjectInv
                        <7>3. QED  BY <7>1, <7>2, CrowdStays
                    <6>2. CASE o = k
                        BY <3>2, <3>3, <4>1, <6>2
                    <6>3. QED  BY <6>1, <6>2
                <5>2. QED  BY <5>1 DEF OtherSubjects
            <4>10. IsFiniteSet(OtherSubjects(s, cat)')
                BY CrowdStays
            <4>11. /\ Cardinality(rest \cup {k}) <= Cardinality(OtherSubjects(s, cat)')
                   /\ Cardinality(OtherSubjects(s, cat)') \in Nat
                   /\ Cardinality(rest \cup {k}) \in Nat
                BY <4>7, <4>9, <4>10, FS_Subset, FS_CardinalityType
            <4>12. QED  BY <4>8, <4>11, RateLimitAssumption
        <3>7. \A s \in Subs : SoleBucket(s, cat)' \/ Cardinality(OtherSubjects(s, cat)') >= KeyCap
            BY <3>5, <3>6, CrowdStays DEF SubjectInv
        <3>8. QED  BY <3>2, <3>4, <3>7 DEF SubjectInv
    <2>5. QED  BY <2>3, <2>4
<1>3. \/ /\ \A d \in Calls : calls'[d].bucket["sub"] = calls[d].bucket["sub"]
         /\ \A other \in Categories : entries'[<<"sub", other>>] = entries[<<"sub", other>>]
      \/ \E c \in Calls : GetOrInsert(c) /\ calls[c].kind = "sub"
    BY SubjectsKept
<1>4. QED  BY <1>1, <1>2, <1>3

\* x calls that fit y bursts and d ticks of refill number at most y and d \div p.
LEMMA Refilled ==
    ASSUME NEW x \in Nat, NEW y \in Nat, NEW d \in Nat, NEW p \in Nat \ {0},
           x * p <= y * p + d
    PROVE  x <= y + d \div p
<1>1. PICK q : q = d \div p
    OBVIOUS
<1>2. q \in Nat /\ d < (q + 1) * p
    BY <1>1
<1>3. SUFFICES ASSUME x >= y + q + 1 PROVE FALSE
    BY <1>1, <1>2
<1>4. x * p >= (y + q + 1) * p
    BY <1>2, <1>3
<1>5. (y + q + 1) * p = y * p + (q + 1) * p
    BY <1>2
<1>6. x * p \in Int /\ y * p \in Int /\ (q + 1) * p \in Int
    BY <1>2
<1>7. QED  BY <1>2, <1>4, <1>5, <1>6

SubjectsInv ==
    /\ LimiterInv
    /\ \A cat \in Categories : SubjectInv(cat)

\* At first no subject has a bucket.
LEMMA SubjectsInit == Init => SubjectsInv
<1> SUFFICES ASSUME Init PROVE SubjectsInv
    OBVIOUS
<1>1. ASSUME NEW cat \in Categories PROVE SubjectInv(cat)
    <2>1. Known(<<"sub", cat>>) = {}
        BY DEF Init, Known, Maps, Kinds
    <2>2. Begun = {}
        BY DEF Init, Begun
    <2>3. QED  BY <2>1, <2>2 DEF SubjectInv, SoleBucket
<1>2. QED  BY <1>1, LimiterInit DEF SubjectsInv

\* Every step keeps SubjectsInv.
LEMMA SubjectsNext == SubjectsInv /\ [Next]_vars => SubjectsInv'
<1> SUFFICES ASSUME SubjectsInv, [Next]_vars PROVE SubjectsInv'
    OBVIOUS
<1>1. LimiterInv' /\ MapsInv
    BY LimiterNext DEF SubjectsInv, LimiterInv
<1>2. ASSUME NEW cat \in Categories PROVE SubjectInv(cat)'
    BY <1>1, SubjectNext DEF SubjectsInv
<1>3. QED  BY <1>1, <1>2 DEF SubjectsInv

\* Whatever bearers a subject uses, its calls let through in any interval fit a
\* burst, one call per period and the one more that governor grants an idle bucket,
\* unless LIMITER_KEY_CAP other subjects have called: for every number of calls,
\* every quota and period, and every eviction between fetch and charge.
THEOREM SubjectsHeldToQuota == Spec => []SubjectWithinQuota
<1>1. ASSUME SubjectsInv, NEW s \in Subs, NEW cat \in Categories,
             NEW from \in 0 .. MaxTime, NEW to \in 0 .. MaxTime, from <= to,
             NEW mine, mine = {c \in Calls : calls[c].cat = cat /\ SubOf[calls[c].bearer] = s},
             NEW allowed, allowed = {c \in mine : calls[c].pc = "allowed" /\ calls[c].at <= to},
             NEW through, through = {c \in allowed : from <= calls[c].at},
             NEW idle, idle = IF through = allowed THEN 0 ELSE 1,
             NEW others, others = {SubOf[calls[c].bearer] : c \in
                                      {d \in Calls \ mine : calls[d].cat = cat
                                           /\ calls[d].bucket["sub"] # None}}
      PROVE  \/ Cardinality(through) <= Quota[cat] + (to - from) \div Period[cat] + idle
             \/ Cardinality(others) >= KeyCap
    <2>1. /\ MapsInv /\ SubjectInv(cat) /\ \A b \in Buckets : BucketInv(b)
          /\ \A d \in Calls : CallInv(d) /\ calls[d] \in Call
        BY <1>1 DEF SubjectsInv, LimiterInv, MapsInv, Typed
    <2>2. /\ from \in Nat /\ to \in Nat /\ idle \in Nat
          /\ Quota[cat] \in Nat /\ Period[cat] \in Nat \ {0}
        BY <1>1, RateLimitAssumption
    <2>3. others = OtherSubjects(s, cat)
        <3>1. ASSUME NEW d \in Calls, calls[d].cat = cat, calls[d].bucket["sub"] # None
              PROVE  d \in Begun /\ SubOf[calls[d].bearer] \in Subs
            BY <2>1, <3>1 DEF CallInv, Kinds, Subs
        <3>2. \A d \in Begun : d \in Calls
            BY DEF Begun
        <3>3. QED  BY <1>1, <3>1, <3>2 DEF OtherSubjects, Seen
    <2>4. CASE Cardinality(OtherSubjects(s, cat)) >= KeyCap
        BY <2>3, <2>4
    <2>5. CASE through = {}
        <3>1. Cardinality(through) = 0
            BY <2>5, FS_EmptySet
        <3>2. (to - from) \div Period[cat] \in Nat
            BY <1>1, <2>2
        <3>3. QED  BY <2>2, <3>1, <3>2
    <2>6. CASE SoleBucket(s, cat) /\ through # {}
        <3>1. PICK b : b = entries[<<"sub", cat>>][s].bucket
            OBVIOUS
        <3>2. ASSUME NEW d \in allowed
              PROVE  /\ d \in Calls /\ calls[d].charged["sub"] = calls[d].at
                     /\ calls[d].charged["sub"] # None /\ calls[d].bucket["sub"] = b
                     /\ Belongs(b, "sub", cat, s)
            <4>1. /\ d \in Calls /\ calls[d].cat = cat /\ SubOf[calls[d].bearer] = s
                  /\ calls[d].pc = "allowed" /\ CallInv(d) /\ calls[d] \in Call /\ d \in Begun
                BY <1>1, <2>1, <3>2 DEF Begun
            <4>2. calls[d].charged["sub"] = calls[d].at /\ calls[d].charged["sub"] # None
                BY <4>1, RateLimitAssumption DEF CallInv, Call
            <4>3. /\ calls[d].bucket["sub"] # None
                  /\ Belongs(calls[d].bucket["sub"], "sub", calls[d].cat, KeyIn(d, "sub"))
                BY <4>1, <4>2 DEF CallInv, Kinds
            <4>4. calls[d].bucket["sub"] = b
                BY <2>6, <3>1, <4>1, <4>3 DEF SoleBucket
            <4>5. QED  BY <4>1, <4>2, <4>3, <4>4 DEF KeyIn
        <3>3. through \subseteq allowed
            BY <1>1
        <3>4. /\ b \in Buckets /\ b[2] = "sub" /\ P(b) = Period[cat] /\ Q(b) = Quota[cat]
              /\ Belongs(b, "sub", cat, s)
            BY <2>6, <3>2, <3>3 DEF Belongs, P, Q
        <3>5. ASSUME NEW d \in Charged(b)
              PROVE  d \in mine /\ calls[d].pc = "allowed" /\ calls[d].charged["sub"] = calls[d].at
            <4>1. d \in Calls /\ calls[d].charged["sub"] # None
                BY <3>4 DEF Charged
            <4>2. calls[d].pc = "allowed" /\ calls[d].charged["sub"] = calls[d].at
                BY <2>1, <4>1 DEF CallInv
            <4>3. Belongs(b, "sub", calls[d].cat, KeyIn(d, "sub"))
                BY <2>1, <3>4, ChargedFacts
            <4>4. calls[d].cat = cat /\ SubOf[calls[d].bearer] = s
                BY <3>4, <4>3 DEF Belongs, KeyIn
            <4>5. QED  BY <1>1, <4>1, <4>2, <4>4
        <3>6. allowed = Until(b, to)
            <4>1. allowed \subseteq Until(b, to)
                BY <1>1, <3>2, <3>4 DEF Until, Charged
            <4>2. Until(b, to) \subseteq allowed
                BY <1>1, <3>4, <3>5 DEF Until
            <4>3. QED  BY <4>1, <4>2
        <3>7. through = After(b, from - 1) \cap Until(b, to)
            <4>1. \A d \in Charged(b) : calls[d].at \in Nat
                BY <2>1, <3>5 DEF Call, Charged
            <4>2. Until(b, to) \subseteq Charged(b) /\ After(b, from - 1) \subseteq Charged(b)
                BY DEF Until, After
            <4>3. \A d \in Charged(b) : d \in After(b, from - 1) <=> from <= calls[d].at
                BY <2>2, <3>4, <3>5, <4>1 DEF After
            <4>4. QED  BY <1>1, <3>6, <4>2, <4>3
        <3>8. Charged(b) # {}
            BY <2>6, <3>7 DEF Until
        <3>9. Fits(b) /\ from - 1 \in Int /\ to \in Int /\ from - 1 < to
            BY <1>1, <2>1, <2>2, <3>4, <3>8 DEF BucketInv
        <3>10. Cardinality(through) * Period[cat]
                  <= Quota[cat] * Period[cat] + (to - ((from - 1) + 1))
                       + (IF Until(b, to) \subseteq After(b, from - 1) THEN 0 ELSE Period[cat])
            <4>1. Cardinality(After(b, from - 1) \cap Until(b, to)) * P(b)
                     <= Q(b) * P(b) + (to - ((from - 1) + 1))
                          + (IF Until(b, to) \subseteq After(b, from - 1) THEN 0 ELSE P(b))
                BY <3>9 DEF Fits
            <4>2. QED  BY <3>4, <3>7, <4>1
        <3>11. (IF Until(b, to) \subseteq After(b, from - 1) THEN 0 ELSE Period[cat])
                  = idle * Period[cat]
            <4>1. Until(b, to) \subseteq After(b, from - 1) <=> through = allowed
                BY <3>6, <3>7
            <4>2. QED  BY <1>1, <2>2, <4>1
        <3>12. Cardinality(through) \in Nat
            <4>1. IsFiniteSet(Charged(b)) /\ through \subseteq Charged(b)
                BY <2>1, <3>4, <3>7, ChargedFacts DEF Until
            <4>2. QED  BY <4>1, FS_Subset, FS_CardinalityType
        <3>13. PICK x, y, d, p : /\ x = Cardinality(through) /\ y = Quota[cat] + idle
                                 /\ d = to - from /\ p = Period[cat]
            OBVIOUS
        <3>14. x \in Nat /\ y \in Nat /\ d \in Nat /\ p \in Nat \ {0}
            BY <1>1, <2>2, <3>12, <3>13
        <3>15. x * p <= y * p + d
            <4>1. x * p <= Quota[cat] * p + (to - ((from - 1) + 1)) + idle * p
                BY <3>10, <3>11, <3>13
            <4>2. to - ((from - 1) + 1) = d
                BY <2>2, <3>13
            <4>3. y * p = Quota[cat] * p + idle * p
                BY <2>2, <3>13, <3>14
            <4>4. /\ Quota[cat] * p \in Int /\ idle * p \in Int /\ x * p \in Int
                BY <2>2, <3>14
            <4>5. QED  BY <3>14, <4>1, <4>2, <4>3, <4>4
        <3>16. x <= y + d \div p
            BY <3>14, <3>15, Refilled
        <3>17. d \div p \in Nat
            BY <3>14
        <3>18. QED  BY <2>2, <3>13, <3>14, <3>16, <3>17
    <2>7. QED  BY <2>1, <2>4, <2>5, <2>6 DEF SubjectInv
<1>2. SubjectsInv => SubjectWithinQuota
    <2> SUFFICES ASSUME SubjectsInv, NEW s \in Subs, NEW cat \in Categories,
                        NEW from \in 0 .. MaxTime, NEW to \in 0 .. MaxTime, from <= to
                 PROVE  LET mine == {c \in Calls : calls[c].cat = cat /\ SubOf[calls[c].bearer] = s}
                            allowed == {c \in mine : calls[c].pc = "allowed" /\ calls[c].at <= to}
                            through == {c \in allowed : from <= calls[c].at}
                            idle == IF through = allowed THEN 0 ELSE 1
                            others == {SubOf[calls[c].bearer] : c \in
                                          {d \in Calls \ mine : calls[d].cat = cat
                                               /\ calls[d].bucket["sub"] # None}}
                        IN \/ Cardinality(through) <= Quota[cat] + (to - from) \div Period[cat] + idle
                           \/ Cardinality(others) >= KeyCap
        BY Zenon DEF SubjectWithinQuota
    <2> DEFINE mine == {c \in Calls : calls[c].cat = cat /\ SubOf[calls[c].bearer] = s}
               allowed == {c \in mine : calls[c].pc = "allowed" /\ calls[c].at <= to}
               through == {c \in allowed : from <= calls[c].at}
               idle == IF through = allowed THEN 0 ELSE 1
               others == {SubOf[calls[c].bearer] : c \in
                             {d \in Calls \ mine : calls[d].cat = cat
                                  /\ calls[d].bucket["sub"] # None}}
    <2>1. PICK own, admitted, window, spare, crowd :
              own = mine /\ admitted = allowed /\ window = through /\ spare = idle /\ crowd = others
        OBVIOUS
    <2>2. \/ Cardinality(window) <= Quota[cat] + (to - from) \div Period[cat] + spare
          \/ Cardinality(crowd) >= KeyCap
        BY <1>1, <2>1
    <2>3. QED  BY <2>1, <2>2
<1>3. QED  BY <1>2, SubjectsInit, SubjectsNext, PTL DEF Spec

-----------------------------------------------------------------------------
(* The session cap.                                                        *)

\* A request past the gate holds it, and one that has seen room still has it:
\* between its count and its insertion, sessions can only be removed.
GateHeld ==
    \A r \in Requests : rq[r].pc \in {"counting", "creating"} => gate = r

RoomWhileCreating ==
    \A r \in Requests : rq[r].pc = "creating" => Cardinality(sessions) < MaxSessions

CapInv ==
    /\ SessionTypeOK
    /\ IsFiniteSet(sessions)
    /\ CapRespected
    /\ GateHeld
    /\ RoomWhileCreating

LEMMA CapInit == SessionInit => CapInv
<1> SUFFICES ASSUME SessionInit PROVE CapInv
    OBVIOUS
<1> USE SessionCapAssumption DEF SessionInit
<1>1. IsFiniteSet(sessions) /\ CapRespected
    BY FS_EmptySet DEF CapRespected
<1>2. SessionTypeOK
    BY DEF SessionTypeOK, Steps
<1>3. QED  BY <1>1, <1>2 DEF CapInv, GateHeld, RoomWhileCreating

LEMMA CapNext == CapInv /\ [SessionNext]_sessionVars => CapInv'
<1> SUFFICES ASSUME CapInv, [SessionNext]_sessionVars PROVE CapInv'
    OBVIOUS
<1> USE SessionCapAssumption
<1>0. /\ SessionTypeOK /\ IsFiniteSet(sessions) /\ CapRespected /\ GateHeld
      /\ RoomWhileCreating /\ Cardinality(sessions) \in Nat
    BY FS_CardinalityType DEF CapInv
<1>1. ASSUME NEW r \in Requests, AcquireGate(r) PROVE CapInv'
    <2>1. SessionTypeOK' /\ GateHeld' /\ RoomWhileCreating'
        BY <1>0, <1>1 DEF AcquireGate, GateFree, SessionTypeOK, Steps, GateHeld, RoomWhileCreating
    <2>2. QED  BY <1>0, <1>1, <2>1 DEF AcquireGate, CapInv, CapRespected
<1>2. ASSUME NEW r \in Requests, ReadCount(r) PROVE CapInv'
    <2> DEFINE count == Cardinality(sessions)
    <2>0. count \in 0 .. MaxSessions
        BY <1>0 DEF CapRespected
    <2>1. SessionTypeOK'
        <3>1. rq' \in [Requests -> [pc: Steps, count: 0 .. MaxSessions]]
            <4>1. CASE AtCap(count)
                BY <1>0, <1>2, <2>0, <4>1 DEF ReadCount, SessionTypeOK, Steps
            <4>2. CASE ~ AtCap(count)
                BY <1>0, <1>2, <2>0, <4>2 DEF ReadCount, SessionTypeOK, Steps
            <4>3. QED  BY <4>1, <4>2
        <3>2. gate' \in Requests \cup {Nobody} /\ sessions' = sessions
            BY <1>0, <1>2 DEF ReadCount, SessionTypeOK, GateAfterReject
        <3>3. QED  BY <1>0, <3>1, <3>2 DEF SessionTypeOK
    <2>2. GateHeld'
        BY <1>0, <1>2 DEF ReadCount, GateHeld, GateAfterReject, SessionTypeOK
    <2>3. RoomWhileCreating'
        BY <1>0, <1>2 DEF ReadCount, RoomWhileCreating, AtCap, SessionTypeOK
    <2>4. QED  BY <1>0, <1>2, <2>1, <2>2, <2>3 DEF ReadCount, CapInv, CapRespected
<1>3. ASSUME NEW r \in Requests, InnerCreate(r) PROVE CapInv'
    <2>1. GateHeld' /\ \A q \in Requests : rq'[q].pc # "creating"
        BY <1>0, <1>3 DEF InnerCreate, GateHeld, SessionTypeOK
    <2>2. RoomWhileCreating'
        BY <2>1 DEF RoomWhileCreating
    <2>3. SessionTypeOK'
        BY <1>0, <1>3 DEF InnerCreate, SessionTypeOK, Steps
    <2>4. IsFiniteSet(sessions') /\ Cardinality(sessions') <= MaxSessions
        <3>1. CASE sessions' = sessions
            BY <1>0, <3>1 DEF CapRespected
        <3>2. ASSUME NEW id \in Ids \ sessions, sessions' = sessions \cup {id}
              PROVE  IsFiniteSet(sessions') /\ Cardinality(sessions') <= MaxSessions
            <4>1. Cardinality(sessions) < MaxSessions
                BY <1>0, <1>3 DEF InnerCreate, RoomWhileCreating
            <4>2. /\ IsFiniteSet(sessions')
                  /\ Cardinality(sessions') = Cardinality(sessions) + 1
                BY <1>0, <3>2, FS_AddElement
            <4>3. QED  BY <1>0, <4>1, <4>2
        <3>3. QED  BY <1>3, <3>1, <3>2 DEF InnerCreate
    <2>5. QED  BY <2>1, <2>2, <2>3, <2>4 DEF CapInv, CapRespected
<1>4. ASSUME NEW r \in Requests, Drop(r) PROVE CapInv'
    <2>1. SessionTypeOK' /\ GateHeld' /\ RoomWhileCreating'
        BY <1>0, <1>4 DEF Drop, SessionTypeOK, Steps, GateHeld, RoomWhileCreating
    <2>2. QED  BY <1>0, <1>4, <2>1 DEF Drop, CapInv, CapRespected
<1>5. ASSUME NEW id \in Ids, CloseSession(id) PROVE CapInv'
    <2>1. /\ IsFiniteSet(sessions')
          /\ Cardinality(sessions') = Cardinality(sessions) - 1
        BY <1>0, <1>5, FS_RemoveElement DEF CloseSession
    <2>2. Cardinality(sessions') <= Cardinality(sessions)
        BY <1>0, <2>1
    <2>3. CapRespected'
        BY <1>0, <2>1, <2>2 DEF CapRespected
    <2>4. RoomWhileCreating'
        <3>1. rq' = rq
            BY <1>5 DEF CloseSession
        <3>2. QED  BY <1>0, <2>1, <2>2, <3>1 DEF RoomWhileCreating
    <2>5. SessionTypeOK' /\ GateHeld'
        BY <1>0, <1>5 DEF CloseSession, SessionTypeOK, GateHeld
    <2>6. QED  BY <2>1, <2>3, <2>4, <2>5 DEF CapInv
<1>6. CASE UNCHANGED sessionVars
    BY <1>0, <1>6 DEF sessionVars, CapInv, SessionTypeOK, CapRespected, GateHeld, RoomWhileCreating
<1>7. QED  BY <1>1, <1>2, <1>3, <1>4, <1>5, <1>6 DEF SessionNext

LEMMA CapInvariant == SessionSpec => []CapInv
BY CapInit, CapNext, PTL DEF SessionSpec

\* MAX_SESSIONS is never exceeded, however many initializes run in parallel.
THEOREM CapHolds == SessionSpec => []CapRespected
<1>1. CapInv => CapRespected
    BY DEF CapInv
<1>2. QED  BY <1>1, CapInvariant, PTL

\* The pool's cardinality is the same operator.
LEMMA SameCardinality == \A S : Pool!Cardinality(S) = Cardinality(S)
BY Zenon DEF Pool!Cardinality, Cardinality, Pool!IsFiniteSet, IsFiniteSet

\* CappedSessionManager implements the capped pool with atomic answers.
THEOREM CreateLooksAtomic == SessionSpec => ImplementsPool
<1> USE DEF Pool!Init, Pool!Next, Pool!vars
<1>1. SessionInit => Pool!Init
    BY DEF SessionInit, Told
<1>2. CapInv /\ [SessionNext]_sessionVars => [Pool!Next]_Pool!vars
    <2> SUFFICES ASSUME CapInv, [SessionNext]_sessionVars PROVE [Pool!Next]_Pool!vars
        OBVIOUS
    <2>0. SessionTypeOK /\ RoomWhileCreating
        BY DEF CapInv
    <2> DEFINE told == [r \in Requests |-> Told(r)]
    <2>1. ASSUME NEW r \in Requests, AcquireGate(r) PROVE UNCHANGED <<sessions, told>>
        BY <2>0, <2>1 DEF AcquireGate, Told, SessionTypeOK
    <2>2. ASSUME NEW r \in Requests, ReadCount(r)
          PROVE  Pool!TurnAway(r) \/ UNCHANGED <<sessions, told>>
        <3>0. /\ sessions' = sessions /\ rq[r].pc = "counting"
              /\ \A q \in Requests \ {r} : rq'[q] = rq[q]
            BY <2>0, <2>2 DEF ReadCount, SessionTypeOK
        <3>1. CASE AtCap(Cardinality(sessions))
            <4>0. rq'[r].pc = "capped"
                BY <2>0, <2>2, <3>1 DEF ReadCount, SessionTypeOK
            <4>1. told' = [told EXCEPT ![r] = "turned away"]
                BY <3>0, <4>0 DEF Told
            <4>2. told[r] = "none"
                BY <3>0 DEF Told
            <4>3. Cardinality(sessions) >= MaxSessions
                BY <3>1 DEF AtCap
            <4>4. QED  BY <3>0, <4>1, <4>2, <4>3, SameCardinality DEF Pool!TurnAway
        <3>2. CASE ~ AtCap(Cardinality(sessions))
            <4>1. rq'[r].pc = "creating"
                BY <2>0, <2>2, <3>2 DEF ReadCount, SessionTypeOK
            <4>2. QED  BY <3>0, <4>1 DEF Told
        <3>3. QED  BY <3>1, <3>2
    <2>3. ASSUME NEW r \in Requests, InnerCreate(r)
          PROVE  Pool!Accept(r) \/ Pool!GiveUp(r)
        <3>1. told[r] = "none"
            BY <2>3 DEF InnerCreate, Told
        <3>2. CASE rq' = [rq EXCEPT ![r].pc = "failed"] /\ sessions' = sessions
            <4>1. told' = [told EXCEPT ![r] = "gave up"]
                BY <2>0, <3>2 DEF Told, SessionTypeOK
            <4>2. QED  BY <3>1, <3>2, <4>1 DEF Pool!GiveUp
        <3>3. CASE /\ \E id \in Ids \ sessions : sessions' = sessions \cup {id}
                   /\ rq' = [rq EXCEPT ![r].pc = "created"]
            <4>1. told' = [told EXCEPT ![r] = "accepted"]
                BY <2>0, <3>3 DEF Told, SessionTypeOK
            <4>2. Cardinality(sessions) < MaxSessions
                BY <2>0, <2>3 DEF InnerCreate, RoomWhileCreating
            <4>3. Pool!Accept(r)
                BY <3>1, <3>3, <4>1, <4>2, SameCardinality DEF Pool!Accept
            <4>4. QED  BY <4>3
        <3>4. QED  BY <2>3, <3>2, <3>3 DEF InnerCreate
    <2>4. ASSUME NEW r \in Requests, Drop(r) PROVE Pool!GiveUp(r)
        <3>1. told[r] = "none" /\ sessions' = sessions
            BY <2>4 DEF Drop, Told
        <3>2. told' = [told EXCEPT ![r] = "gave up"]
            BY <2>0, <2>4 DEF Drop, Told, SessionTypeOK
        <3>3. QED  BY <3>1, <3>2 DEF Pool!GiveUp
    <2>5. ASSUME NEW id \in Ids, CloseSession(id) PROVE Pool!Remove(id)
        BY <2>5 DEF CloseSession, Pool!Remove, Told
    <2>6. CASE UNCHANGED sessionVars
        BY <2>6 DEF sessionVars, Told
    <2>7. QED  BY <2>1, <2>2, <2>3, <2>4, <2>5, <2>6 DEF SessionNext
<1>3. QED
    BY <1>1, <1>2, CapInvariant, PTL DEF SessionSpec, ImplementsPool, Pool!Spec

=============================================================================
