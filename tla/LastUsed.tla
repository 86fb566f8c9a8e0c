------------------------------ MODULE LastUsed -------------------------------
(***************************************************************************)
(* The last-used record behind GET /token/introspect (src/last_used.rs),   *)
(* written by the authentication middleware for every accepted request     *)
(* that is not itself an introspection.  record() reads the clock before   *)
(* it takes the map's lock, so two requests of one bearer can be stored in *)
(* the other order.                                                        *)
(*                                                                         *)
(* The client's address is taken out of X-Forwarded-For: what the client   *)
(* claims, followed by one address appended by each proxy on the path, the *)
(* first of which sees the client itself.                                  *)
(***************************************************************************)
EXTENDS Integers, FiniteSets, Sequences

CONSTANTS
    Requests,           \* accepted requests
    Hashes,             \* bearer hashes
    Addresses,          \* client and proxy addresses
    Junk,               \* header entries that do not parse as an address
    MaxClaimed,         \* bound on the entries a client sends by itself
    ProxyHops,          \* proxies on the path, each appending one entry
    TrustedProxyHops,   \* config.trusted_proxy_hops
    MaxEntries,         \* MAX_ENTRIES
    MaxTime,            \* bound on the clock
    None

ASSUME LastUsedAssumption ==
    /\ MaxEntries \in Nat \ {0}
    /\ MaxClaimed \in Nat /\ ProxyHops \in Nat /\ TrustedProxyHops \in Nat
    /\ MaxTime \in Nat
    /\ None \notin Addresses
    /\ None \notin [at: Nat, ip: Addresses \cup {None}]
    /\ Junk \cap Addresses = {}

VARIABLES
    now,    \* SystemTime
    map,    \* LastUsedTracker.inner; None where there is no entry
    rq      \* the requests: step, bearer hash, client address, header, stamp, answer

vars == <<now, map, rq>>

Entries == Addresses \cup Junk

Known == {h \in Hashes : map[h] # None}

Init ==
    /\ now = 0
    /\ map = [h \in Hashes |-> None]
    /\ rq = [r \in Requests |-> [pc |-> "idle", hash |-> None, client |-> None,
                                 xff |-> <<>>, at |-> 0, shown |-> None]]

-----------------------------------------------------------------------------

\* Mutant: the entry the client wrote.
LeftmostEntry(xff, hops) ==
    IF xff = <<>> \/ xff[1] \notin Addresses THEN None ELSE xff[1]

\* parse_client_ip(): the entry `hops` from the right.
ParseClientIp(xff, hops) ==
    LET entry == xff[Len(xff) - hops + 1] IN
    IF hops = 0 \/ Len(xff) < hops \/ entry \notin Addresses THEN None ELSE entry

\* The headers a request of `client` can carry when it gets here: nothing at
\* all without a proxy, else claims, the client's address, further proxies.
Headers(client) ==
    LET claims == UNION {[1 .. n -> Entries] : n \in 0 .. MaxClaimed}
        proxies == [1 .. ProxyHops - 1 -> Addresses]
    IN IF ProxyHops = 0 THEN claims
       ELSE {claim \o <<client>> \o path : claim \in claims, path \in proxies}

\* bearer_auth() accepted the bearer; record() reads the clock.
Accept(r) ==
    /\ rq[r].pc = "idle"
    /\ \E h \in Hashes, client \in Addresses : \E xff \in Headers(client) :
          rq' = [rq EXCEPT ![r] = [pc |-> "stamped", hash |-> h, client |-> client,
                                   xff |-> xff, at |-> now, shown |-> None]]
    /\ UNCHANGED <<now, map>>

\* Mutant: the newest record makes room.
NewestKnown == {h \in Known : \A g \in Known : map[h].at >= map[g].at}

OldestKnown == {h \in Known : \A g \in Known : map[h].at <= map[g].at}

MustEvict(h) == Cardinality(Known) >= MaxEntries /\ h \notin Known

\* record(), under the write lock.
StoreRecord(r) ==
    LET h == rq[r].hash
        ip == ParseClientIp(rq[r].xff, TrustedProxyHops)
    IN
    /\ rq[r].pc = "stamped"
    /\ \E gone \in IF MustEvict(h) THEN {{o} : o \in OldestKnown} ELSE {{}} :
          map' = [g \in Hashes |-> IF g = h THEN [at |-> rq[r].at, ip |-> ip]
                                   ELSE IF g \in gone THEN None
                                   ELSE map[g]]
    /\ rq' = [rq EXCEPT ![r].pc = "recorded", ![r].xff = <<>>]
    /\ UNCHANGED now

\* GET /token/introspect: bearer_auth() records nothing, get() reads the map.
Introspect(r) ==
    /\ rq[r].pc = "idle"
    /\ \E h \in Hashes :
          rq' = [rq EXCEPT ![r].pc = "shown", ![r].hash = h, ![r].shown = map[h],
                           ![r].at = now]
    /\ UNCHANGED <<now, map>>

Tick ==
    /\ now < MaxTime
    /\ now' = now + 1
    /\ UNCHANGED <<map, rq>>

Next ==
    \/ \E r \in Requests : Accept(r) \/ StoreRecord(r) \/ Introspect(r)
    \/ Tick

Spec == Init /\ [][Next]_vars

-----------------------------------------------------------------------------
(* Properties                                                              *)

\* The address shown to a bearer's owner is one from which that bearer was
\* really used, as the first proxy saw it, and never one the client claimed in
\* the header; the time is that of the same request.  Where no proxy is trusted,
\* no address is shown.
ShownIsReal ==
    \A r \in Requests : rq[r].pc = "shown" /\ rq[r].shown # None =>
        \E q \in Requests :
            /\ rq[q].pc = "recorded"
            /\ rq[q].hash = rq[r].hash
            /\ rq[r].shown = [at |-> rq[q].at,
                               ip |-> IF TrustedProxyHops = 0 THEN None ELSE rq[q].client]

\* There are at most MAX_ENTRIES records, and a bearer's record is lost only to
\* that many others: the newcomer and MAX_ENTRIES - 1 whose own stamps are no
\* older.
RecordSurvives ==
    /\ Cardinality(Known) <= MaxEntries
    /\ \A h \in Hashes \ Known :
        LET uses(g) == {r \in Requests : rq[r].pc = "recorded" /\ rq[r].hash = g}
            others == {g \in Hashes \ {h} : uses(g) # {}}
        IN uses(h) # {} =>
            /\ Cardinality(others) >= MaxEntries
            /\ \E r \in uses(h) :
                  Cardinality({g \in others : \E q \in uses(g) : rq[q].at >= rq[r].at})
                      >= MaxEntries - 1

=============================================================================
