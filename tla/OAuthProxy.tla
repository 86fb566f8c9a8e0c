----------------------------- MODULE OAuthProxy ------------------------------
(***************************************************************************)
(* The pending-authorization table of the OAuth proxy (src/oauth_proxy.rs) *)
(* and the concurrent /authorize and /oauth/callback handlers that use it. *)
(*                                                                         *)
(* /authorize stamps the flow with Instant::now() BEFORE it takes the      *)
(* table's mutex, so flows can reach the table in another order than that  *)
(* of their stamps.  /oauth/callback removes its flow under the mutex and  *)
(* checks its age after releasing it.  Each handler serves one request.    *)
(***************************************************************************)
EXTENDS Integers, FiniteSets, RedirectUri

CONSTANTS
    Authorizers,        \* /authorize requests
    Callbacks,          \* /oauth/callback requests
    States,             \* values random_state() can draw
    AllowCollision,     \* may random_state() repeat a value already drawn?
    Uris,               \* redirect_uri values clients send
    AllowedRedirectUris,\* the operator's allowlist
    ClientStates,       \* state parameters clients send
    OversizedStates,    \* those longer than MAX_CLIENT_STATE_BYTES
    PendingTTL,         \* PENDING_TTL
    PendingCap,         \* PENDING_CAP
    MaxTime,            \* bound on the clock
    None                \* an absent value

ASSUME OAuthProxyAssumption ==
    /\ AllowCollision \in BOOLEAN
    /\ PendingTTL \in Nat \ {0}
    /\ PendingCap \in Nat \ {0}
    /\ MaxTime \in Nat
    /\ None \notin Authorizers
    /\ None \notin States
    /\ None \notin [uri: Uris, cstate: ClientStates \cup {None}, created: Nat]
    /\ None \notin OversizedStates

\* A redirect URI is a parsed URL, and parse_allowlist() only starts the server
\* with entries that pass validate_redirect_uri().
ASSUME RedirectUriAssumption ==
    /\ None \notin Uris
    /\ Uris \cup AllowedRedirectUris \subseteq
          [scheme: STRING, host: STRING, port: Nat, path: STRING, query: STRING,
           clean: BOOLEAN]
    /\ \A entry \in AllowedRedirectUris : ValidateRedirectUri(entry)

VARIABLES
    now,        \* the monotonic clock
    lock,       \* the /authorize handler inside insert(), or None
    byState,    \* PendingAuthorizations.by_state; None where there is no entry
    byAge,      \* PendingAuthorizations.by_age
    issued,     \* values random_state() has drawn
    az,         \* the /authorize handlers
    cb          \* the /oauth/callback handlers

vars == <<now, lock, byState, byAge, issued, az, cb>>

-----------------------------------------------------------------------------

Time == Nat

Pending == [uri: Uris, cstate: ClientStates \cup {None}, created: Time]

\* A handler's program counter with the locals that are live across a step.
AuthorizeHandler ==
    [pc: {"idle", "stamped", "inserting", "redirected", "refused"},
     state: States \cup {None}, pending: Pending \cup {None}, at: Time]

CallbackHandler ==
    [pc: {"idle", "taking", "taken", "delivered", "expired", "refused"},
     state: States \cup {None}, pending: Pending \cup {None}]

TypeOK ==
    /\ now \in Time
    /\ lock \in Authorizers \cup {None}
    /\ byState \in [States -> Pending \cup {None}]
    /\ byAge \subseteq Time \X States
    /\ issued \subseteq States
    /\ az \in [Authorizers -> AuthorizeHandler]
    /\ cb \in [Callbacks -> CallbackHandler]

Init ==
    /\ now = 0
    /\ lock = None
    /\ byState = [s \in States |-> None]
    /\ byAge = {}
    /\ issued = {}
    /\ az = [h \in Authorizers |->
               [pc |-> "idle", state |-> None, pending |-> None, at |-> 0]]
    /\ cb = [h \in Callbacks |->
               [pc |-> "idle", state |-> None, pending |-> None]]

-----------------------------------------------------------------------------

\* The keys of by_state.
Live == {s \in States : byState[s] # None}

Expired(created, t) == t - created >= PendingTTL

\* Mutant: last() for first().
IsNewest(p) == p \in byAge /\ \A q \in byAge : p[1] >= q[1]

\* by_age.first(): least stamp; the random state strings order the ties.
IsOldest(p) == p \in byAge /\ \A q \in byAge : p[1] <= q[1]

\* 400: no redirect_uri, one outside the allowlist, or an oversized state.
MustRefuse(uri, cstate) ==
    \/ uri # None => ~ IsAllowedRedirectUri(AllowedRedirectUris, uri)
    \/ cstate \in OversizedStates

\* Mutant: a state that may be guessed or repeated.
AnyState(s) == TRUE

\* random_state(): 192 random bits; a repeat is allowed only on request.
RandomState(s) == AllowCollision \/ s \notin issued

AuthorizeRefused(h) ==
    /\ az[h].pc = "idle"
    /\ \E uri \in Uris \cup {None}, cstate \in ClientStates \cup {None} :
          MustRefuse(uri, cstate)
    /\ az' = [az EXCEPT ![h].pc = "refused"]
    /\ UNCHANGED <<now, lock, byState, byAge, issued, cb>>

\* authorize() up to insert(): validate, draw the proxy state, stamp the flow.
AuthorizeStamp(h) ==
    /\ az[h].pc = "idle"
    /\ \E uri \in Uris \cup {None}, cstate \in ClientStates \cup {None},
          s \in States :
          /\ ~ MustRefuse(uri, cstate)
          /\ RandomState(s)
          /\ issued' = issued \cup {s}
          /\ az' = [az EXCEPT ![h] =
                [pc |-> "stamped", state |-> s, at |-> 0,
                 pending |-> [uri |-> uri, cstate |-> cstate, created |-> now]]]
    /\ UNCHANGED <<now, lock, byState, byAge, cb>>

\* insert(): take the mutex and read the clock.
InsertLock(h) ==
    /\ az[h].pc = "stamped"
    /\ lock = None
    /\ lock' = h
    /\ az' = [az EXCEPT ![h].pc = "inserting", ![h].at = now]
    /\ UNCHANGED <<now, byState, byAge, issued, cb>>

\* Mutant: one flow too many.
RoomForTwo(h, p) ==
    ~ Expired(p[1], az[h].at) /\ Cardinality(Live) <= PendingCap

\* insert(): the condition on which the eviction loop stops.
RoomAfter(h, p) ==
    ~ Expired(p[1], az[h].at) /\ Cardinality(Live) < PendingCap

\* Mutant: the loop forgets to shrink the index it iterates over.
AgeKept(p) == byAge

\* by_age after the loop removed its first entry.
AgeAfterEvict(p) == byAge \ {p}

\* insert(): one iteration of the eviction loop.
InsertEvict(h) ==
    /\ az[h].pc = "inserting"
    /\ \E p \in byAge :
          /\ IsOldest(p)
          /\ ~ RoomAfter(h, p)
          /\ byAge' = AgeAfterEvict(p)
          /\ byState' = [byState EXCEPT ![p[2]] = None]
    /\ UNCHANGED <<now, lock, issued, az, cb>>

\* by_age without the entry insert() replaces, if there is one.
AgeWithoutReplaced(s) ==
    byAge \ (IF byState[s] = None THEN {} ELSE {<<byState[s].created, s>>})

\* insert(): leave the loop, replace and store, unlock; authorize() redirects.
InsertStore(h) ==
    LET s == az[h].state IN
    /\ az[h].pc = "inserting"
    /\ \A p \in byAge : IsOldest(p) => RoomAfter(h, p)
    /\ byAge' = AgeWithoutReplaced(s) \cup {<<az[h].pending.created, s>>}
    /\ byState' = [byState EXCEPT ![s] = az[h].pending]
    /\ lock' = None
    /\ az' = [az EXCEPT ![h].pc = "redirected", ![h].at = 0]
    /\ UNCHANGED <<now, issued, cb>>

-----------------------------------------------------------------------------

\* callback(): a request arrives with some state (one Logto was given, given
\* again by a reload, or one never issued) or with none.
CallbackArrive(h) ==
    /\ cb[h].pc = "idle"
    /\ \/ \E s \in States : cb' = [cb EXCEPT ![h].pc = "taking", ![h].state = s]
       \/ cb' = [cb EXCEPT ![h].pc = "refused"]
    /\ UNCHANGED <<now, lock, byState, byAge, issued, az>>

\* Mutant: take() removes the flow from by_state only.
AgeUntouched(s) == byAge

\* by_age after take() removed state s from the table.
AgeAfterTake(s) == byAge \ {<<byState[s].created, s>>}

\* Mutant: take() looks the flow up without removing it.
StateUntouched(s) == byState

\* by_state after take() removed state s from the table.
StateAfterTake(s) == [byState EXCEPT ![s] = None]

\* take(), under the mutex: remove the flow from both indexes.
CallbackTake(h) ==
    LET s == cb[h].state IN
    /\ cb[h].pc = "taking"
    /\ lock = None
    /\ IF byState[s] = None
       THEN /\ cb' = [cb EXCEPT ![h].pc = "refused"]
            /\ UNCHANGED <<byState, byAge>>
       ELSE /\ cb' = [cb EXCEPT ![h].pc = "taken", ![h].pending = byState[s]]
            /\ byState' = StateAfterTake(s)
            /\ byAge' = AgeAfterTake(s)
    /\ UNCHANGED <<now, lock, issued, az>>

\* take() after the unlock: the age check; then callback()'s redirect to the
\* client's own redirect_uri with the client's own state.
CallbackFinish(h) ==
    /\ cb[h].pc = "taken"
    /\ cb' = [cb EXCEPT ![h].pc =
                IF Expired(cb[h].pending.created, now) THEN "expired"
                                                       ELSE "delivered"]
    /\ UNCHANGED <<now, lock, byState, byAge, issued, az>>

Tick ==
    /\ now < MaxTime
    /\ now' = now + 1
    /\ UNCHANGED <<lock, byState, byAge, issued, az, cb>>

-----------------------------------------------------------------------------

Authorize(h) ==
    \/ AuthorizeRefused(h)
    \/ AuthorizeStamp(h)
    \/ InsertLock(h)
    \/ InsertEvict(h)
    \/ InsertStore(h)

Callback(h) == CallbackArrive(h) \/ CallbackTake(h) \/ CallbackFinish(h)

Next ==
    \/ \E h \in Authorizers : Authorize(h)
    \/ \E h \in Callbacks : Callback(h)
    \/ Tick

Spec == Init /\ [][Next]_vars

-----------------------------------------------------------------------------
(* Properties                                                              *)

\* The two indexes hold the same flows: by_age is exactly the stamps of
\* by_state.  insert() relies on it to make room and to stop.
IndexAgree == byAge = {<<byState[s].created, s>> : s \in Live}

\* The table never holds more than PENDING_CAP flows, whatever the order in
\* which stamped handlers reach the mutex.
PendingBounded == Cardinality(Live) <= PendingCap

\* Every callback that reaches a client goes to the redirect_uri and with the
\* state of the /authorize request that was given this proxy state, and of no
\* other request.
DeliveredToAsker ==
    \A c \in Callbacks : cb[c].pc = "delivered" =>
        LET askers == {h \in Authorizers : /\ az[h].pc = "redirected"
                                           /\ az[h].state = cb[c].state}
        IN askers # {} /\ \A h \in askers : az[h].pending = cb[c].pending

\* A code only ever travels to a URI the operator listed, or to one that
\* differs from a listed loopback http URI in nothing but its port.
DeliveredToListed ==
    \A c \in Callbacks : cb[c].pc = "delivered" =>
        \E entry \in AllowedRedirectUris :
            LET uri == cb[c].pending.uri
            IN \/ uri = entry
               \/ /\ uri.scheme = "http" /\ uri.host \in LoopbackHosts
                  /\ uri = [entry EXCEPT !.port = uri.port]

\* A proxy state is redeemed at most once, also when the browser repeats the
\* callback while the first one is being served.
SingleUse ==
    \A c, d \in Callbacks :
        /\ cb[c].pc \in {"taken", "delivered"}
        /\ cb[d].pc \in {"taken", "delivered"}
        /\ cb[c].state = cb[d].state
        => c = d

\* A flow leaves the table only by its callback, by age, or because the table
\* was full of flows that are not older than it: the newcomer and PENDING_CAP
\* - 1 others.
FlowSurvives ==
    \A h \in Authorizers :
        LET rivals == {g \in Authorizers \ {h} :
                          az[g].pc \in {"inserting", "redirected"}}
        IN az[h].pc = "redirected" =>
            \/ byState[az[h].state] = az[h].pending
            \/ \E c \in Callbacks : /\ cb[c].state = az[h].state
                                    /\ cb[c].pc \notin {"taking", "refused"}
            \/ Expired(az[h].pending.created, now)
            \/ /\ Cardinality(rivals) >= PendingCap
               /\ Cardinality({g \in rivals : az[g].pending.created
                                  >= az[h].pending.created}) >= PendingCap - 1

=============================================================================
