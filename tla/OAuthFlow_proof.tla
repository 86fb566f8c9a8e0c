---------------------------- MODULE OAuthFlow_proof ----------------------------
(***************************************************************************)
(* Proofs about the OAuth proxy's pending-authorization table, for any     *)
(* number of handlers, any capacity, TTL and interleaving, and then about  *)
(* the whole flow.  Between Logto and its clients the proxy takes no step  *)
(* that OAuthProxy does not have, so what is proved of Spec holds of       *)
(* FlowSpec too; every spelling of the resource comes to the same origin;  *)
(* an honest exchange is not refused; and proxy and Logto together         *)
(* implement AuthorizationGrant.                                           *)
(***************************************************************************)
EXTENDS OAuthFlow, FiniteSetTheorems, WellFoundedInduction, SequenceTheorems, TLAPS

\* The locals a handler has set by the time it reaches a step.
LocalsSet ==
    /\ \A h \in Authorizers : az[h].pc \in {"stamped", "inserting", "redirected"}
          => az[h].state \in States /\ az[h].pending \in Pending
    /\ \A h \in Callbacks :
          /\ cb[h].pc \notin {"idle", "refused"} => cb[h].state \in States
          /\ cb[h].pc \in {"taken", "delivered", "expired"} => cb[h].pending \in Pending

TableInv ==
    /\ TypeOK
    /\ LocalsSet
    /\ IndexAgree
    /\ IsFiniteSet(Live)
    /\ PendingBounded

-----------------------------------------------------------------------------

\* Taking an entry out of by_state (evict, take) or putting one in (insert)
\* changes the set of live states by that one state.
LEMMA LiveAfterRemove ==
    ASSUME TypeOK, NEW s \in States, byState' = [byState EXCEPT ![s] = None]
    PROVE  Live' = Live \ {s}
BY DEF TypeOK, Live

\* Storing a flow makes its state live.
LEMMA LiveAfterPut ==
    ASSUME TypeOK, NEW s \in States, NEW p \in Pending,
           byState' = [byState EXCEPT ![s] = p]
    PROVE  Live' = Live \cup {s}
<1>1. p # None
    BY OAuthProxyAssumption DEF Pending, Time
<1>2. QED  BY <1>1 DEF TypeOK, Live

\* by_age read as a relation.
LEMMA AgeIsStamp ==
    ASSUME TypeOK, IndexAgree
    PROVE  \A t, s : <<t, s>> \in byAge
                        <=> s \in States /\ byState[s] # None /\ byState[s].created = t
BY DEF IndexAgree, Live

\* Every non-empty set of naturals has a least element.
LEMMA LeastNatural ==
    ASSUME NEW S, S \subseteq Nat, S # {}
    PROVE  \E t \in S : \A u \in S : t <= u
<1> DEFINE Less == {ss \in Nat \X Nat : ss[1] < ss[2]}
<1>1. IsWellFoundedOn(Less, Nat)
    BY NatLessThanWellFounded DEF OpToRel
<1>2. PICK t \in S : \A u \in S : ~ (<<u, t>> \in Less)
    <2> HIDE DEF Less
    <2>1. QED  BY <1>1, WFMin
<1>3. ASSUME NEW u \in S PROVE t <= u
    <2>1. t \in Nat /\ u \in Nat /\ <<u, t>> \in Nat \X Nat
        OBVIOUS
    <2>2. ~ (u < t)
        BY <1>2, <2>1
    <2>3. QED  BY <2>1, <2>2
<1>4. QED  BY <1>3

\* A non-empty by_age has a first entry, the one the eviction loop looks at.
LEMMA OldestExists ==
    ASSUME TypeOK, byAge # {}
    PROVE  \E p \in byAge : IsOldest(p)
<1> DEFINE stamps == {p[1] : p \in byAge}
<1>1. stamps \subseteq Nat /\ stamps # {}
    BY DEF TypeOK, Time
<1>2. PICK t \in stamps : \A u \in stamps : t <= u
    <2> HIDE DEF stamps
    <2>1. QED  BY <1>1, LeastNatural
<1>3. QED  BY <1>2 DEF IsOldest

-----------------------------------------------------------------------------

\* The table starts empty and consistent.
LEMMA TableInit == Init => TableInv
<1> SUFFICES ASSUME Init PROVE TableInv
    OBVIOUS
<1> USE OAuthProxyAssumption DEF Init
<1>1. TypeOK
    BY DEF TypeOK, Time, AuthorizeHandler, CallbackHandler
<1>2. LocalsSet
    BY DEF LocalsSet
<1>3. Live = {}
    BY DEF Live
<1>4. IndexAgree
    BY <1>3 DEF IndexAgree
<1>5. IsFiniteSet(Live) /\ PendingBounded
    BY <1>3, FS_EmptySet DEF PendingBounded
<1>6. QED  BY <1>1, <1>2, <1>4, <1>5 DEF TableInv

\* A step that leaves both indexes alone keeps everything but the types and
\* the locals.
LEMMA IndexesUntouched ==
    ASSUME TableInv, byState' = byState, byAge' = byAge
    PROVE  IndexAgree' /\ IsFiniteSet(Live)' /\ PendingBounded'
<1>1. Live' = Live
    BY DEF Live
<1>2. QED  BY <1>1 DEF TableInv, IndexAgree, PendingBounded

\* Removing one flow from both indexes.
LEMMA FlowRemoved ==
    ASSUME TableInv, NEW s \in States, byState[s] # None,
           byState' = [byState EXCEPT ![s] = None],
           byAge' = byAge \ {<<byState[s].created, s>>}
    PROVE  IndexAgree' /\ IsFiniteSet(Live)' /\ PendingBounded'
<1>1. TypeOK /\ IndexAgree /\ IsFiniteSet(Live) /\ PendingBounded
    BY DEF TableInv
<1>2. Live' = Live \ {s}
    BY <1>1, LiveAfterRemove
<1>3. \A r \in Live' : byState'[r] = byState[r]
    BY <1>1, <1>2 DEF TypeOK, Live
<1>4. IndexAgree'
    BY <1>1, <1>2, <1>3 DEF IndexAgree
<1>5. IsFiniteSet(Live') /\ Cardinality(Live') <= Cardinality(Live)
    BY <1>1, <1>2, FS_Subset
<1>6. Cardinality(Live) \in Nat /\ Cardinality(Live') \in Nat
    BY <1>1, <1>5, FS_CardinalityType
<1>7. QED  BY <1>1, <1>4, <1>5, <1>6, OAuthProxyAssumption DEF PendingBounded

\* Storing one flow in both indexes, over an older one of the same state if
\* there is one, when there is room.
LEMMA FlowStored ==
    ASSUME TableInv, NEW s \in States, NEW p \in Pending,
           byState' = [byState EXCEPT ![s] = p],
           byAge' = AgeWithoutReplaced(s) \cup {<<p.created, s>>},
           Cardinality(Live) < PendingCap
    PROVE  IndexAgree' /\ IsFiniteSet(Live)' /\ PendingBounded'
<1>1. TypeOK /\ IndexAgree /\ IsFiniteSet(Live)
    BY DEF TableInv
<1>2. Live' = Live \cup {s}
    BY <1>1, LiveAfterPut
<1>3. \A r \in Live \ {s} : byState'[r] = byState[r]
    BY <1>1 DEF TypeOK, Live
<1>4. byState'[s] = p
    BY <1>1 DEF TypeOK
<1>5. AgeWithoutReplaced(s) = {<<byState[r].created, r>> : r \in Live \ {s}}
    BY <1>1 DEF IndexAgree, AgeWithoutReplaced, Live
<1>6. IndexAgree'
    BY <1>2, <1>3, <1>4, <1>5 DEF IndexAgree
<1>7. IsFiniteSet(Live') /\ Cardinality(Live') <= Cardinality(Live) + 1
    <2>1. /\ IsFiniteSet(Live \cup {s})
          /\ Cardinality(Live \cup {s}) =
                IF s \in Live THEN Cardinality(Live) ELSE Cardinality(Live) + 1
        BY <1>1, FS_AddElement
    <2>2. Cardinality(Live) \in Nat
        BY <1>1, FS_CardinalityType
    <2>3. QED  BY <1>2, <2>1, <2>2
<1>8. Cardinality(Live) \in Nat /\ Cardinality(Live') \in Nat
    BY <1>1, <1>7, FS_CardinalityType
<1>9. QED  BY <1>6, <1>7, <1>8, OAuthProxyAssumption DEF PendingBounded

\* Every step of a handler leaves the table consistent and within its cap.
LEMMA TableNext == TableInv /\ [Next]_vars => TableInv'
<1> SUFFICES ASSUME TableInv, [Next]_vars PROVE TableInv'
    OBVIOUS
<1> USE OAuthProxyAssumption
<1>0. TypeOK /\ LocalsSet /\ IndexAgree /\ IsFiniteSet(Live)
    BY DEF TableInv
<1>1. ASSUME NEW h \in Authorizers, AuthorizeRefused(h) PROVE TableInv'
    <2>1. TypeOK' /\ LocalsSet'
        BY <1>0, <1>1 DEF AuthorizeRefused, TypeOK, AuthorizeHandler, LocalsSet
    <2>2. QED  BY <1>1, <2>1, IndexesUntouched DEF TableInv, AuthorizeRefused
<1>2. ASSUME NEW h \in Authorizers, AuthorizeStamp(h) PROVE TableInv'
    <2>1. PICK uri \in Uris \cup {None}, cstate \in ClientStates \cup {None},
               s \in States :
               /\ ~ MustRefuse(uri, cstate)
               /\ issued' = issued \cup {s}
               /\ az' = [az EXCEPT ![h] =
                     [pc |-> "stamped", state |-> s, at |-> 0,
                      pending |-> [uri |-> uri, cstate |-> cstate, created |-> now]]]
        BY <1>2 DEF AuthorizeStamp
    <2>2. [uri |-> uri, cstate |-> cstate, created |-> now] \in Pending
        BY <1>0, <2>1 DEF MustRefuse, Pending, TypeOK
    <2>3. TypeOK'
        BY <1>0, <1>2, <2>1, <2>2 DEF AuthorizeStamp, TypeOK, AuthorizeHandler, Time
    <2>4. LocalsSet'
        BY <1>0, <1>2, <2>1, <2>2 DEF AuthorizeStamp, TypeOK, LocalsSet
    <2>5. QED  BY <1>2, <2>3, <2>4, IndexesUntouched DEF TableInv, AuthorizeStamp
<1>3. ASSUME NEW h \in Authorizers, InsertLock(h) PROVE TableInv'
    <2>1. TypeOK' /\ LocalsSet'
        BY <1>0, <1>3 DEF InsertLock, TypeOK, AuthorizeHandler, LocalsSet, Time
    <2>2. QED  BY <1>3, <2>1, IndexesUntouched DEF TableInv, InsertLock
<1>4. ASSUME NEW h \in Authorizers, InsertEvict(h) PROVE TableInv'
    <2>1. PICK p \in byAge : /\ byAge' = byAge \ {p}
                             /\ byState' = [byState EXCEPT ![p[2]] = None]
        BY <1>4 DEF InsertEvict, AgeAfterEvict
    <2>2. p[2] \in States /\ byState[p[2]] # None /\ p = <<byState[p[2]].created, p[2]>>
        BY <1>0 DEF IndexAgree, Live
    <2>3. TypeOK' /\ LocalsSet'
        BY <1>0, <1>4, <2>1, <2>2 DEF InsertEvict, TypeOK, LocalsSet
    <2>4. QED  BY <2>1, <2>2, <2>3, FlowRemoved DEF TableInv
<1>5. ASSUME NEW h \in Authorizers, InsertStore(h) PROVE TableInv'
    <2> DEFINE s == az[h].state
               p == az[h].pending
    <2>1. s \in States /\ p \in Pending
        BY <1>0, <1>5 DEF InsertStore, LocalsSet
    <2>2. /\ byState' = [byState EXCEPT ![s] = p]
          /\ byAge' = AgeWithoutReplaced(s) \cup {<<p.created, s>>}
        BY <1>5 DEF InsertStore
    <2>3. Cardinality(Live) < PendingCap
        <3>1. CASE byAge = {}
            <4>1. Live = {}
                BY <1>0, <3>1 DEF IndexAgree
            <4>2. QED  BY <4>1, FS_EmptySet
        <3>2. CASE byAge # {}
            BY <1>0, <1>5, <3>2, OldestExists DEF InsertStore, RoomAfter
        <3>3. QED  BY <3>1, <3>2
    <2>4. TypeOK'
        <3>1. byState' \in [States -> Pending \cup {None}]
            BY <1>0, <2>1, <2>2 DEF TypeOK
        <3>2. byAge' \subseteq Time \X States
            BY <1>0, <2>1, <2>2 DEF TypeOK, AgeWithoutReplaced, Pending
        <3>3. az' \in [Authorizers -> AuthorizeHandler]
            BY <1>0, <1>5 DEF InsertStore, TypeOK, AuthorizeHandler, Time
        <3>4. QED  BY <1>0, <1>5, <3>1, <3>2, <3>3 DEF InsertStore, TypeOK
    <2>5. LocalsSet'
        BY <1>0, <1>5 DEF InsertStore, TypeOK, LocalsSet, AuthorizeHandler
    <2> HIDE DEF s, p
    <2>6. QED  BY <2>1, <2>2, <2>3, <2>4, <2>5, FlowStored DEF TableInv
<1>6. ASSUME NEW h \in Callbacks, CallbackArrive(h) PROVE TableInv'
    <2>1. TypeOK' /\ LocalsSet'
        BY <1>0, <1>6 DEF CallbackArrive, TypeOK, CallbackHandler, LocalsSet
    <2>2. QED  BY <1>6, <2>1, IndexesUntouched DEF TableInv, CallbackArrive
<1>7. ASSUME NEW h \in Callbacks, CallbackTake(h) PROVE TableInv'
    <2> DEFINE s == cb[h].state
    <2>1. s \in States
        BY <1>0, <1>7 DEF CallbackTake, LocalsSet
    <2>2. TypeOK' /\ LocalsSet'
        BY <1>0, <1>7, <2>1 DEF CallbackTake, StateAfterTake, AgeAfterTake, TypeOK,
            CallbackHandler, LocalsSet
    <2>3. CASE byState[s] = None
        BY <1>7, <2>2, <2>3, IndexesUntouched DEF TableInv, CallbackTake
    <2>4. CASE byState[s] # None
        BY <1>7, <2>1, <2>2, <2>4, FlowRemoved
            DEF TableInv, CallbackTake, StateAfterTake, AgeAfterTake
    <2>5. QED  BY <2>3, <2>4
<1>8. ASSUME NEW h \in Callbacks, CallbackFinish(h) PROVE TableInv'
    <2>1. TypeOK' /\ LocalsSet'
        BY <1>0, <1>8 DEF CallbackFinish, TypeOK, CallbackHandler, LocalsSet
    <2>2. QED  BY <1>8, <2>1, IndexesUntouched DEF TableInv, CallbackFinish
<1>9. CASE Tick
    <2>1. TypeOK' /\ LocalsSet'
        BY <1>0, <1>9 DEF Tick, TypeOK, LocalsSet, Time
    <2>2. QED  BY <1>9, <2>1, IndexesUntouched DEF TableInv, Tick
<1>10. CASE UNCHANGED vars
    <2>1. TypeOK' /\ LocalsSet'
        BY <1>0, <1>10 DEF vars, TypeOK, LocalsSet
    <2>2. QED  BY <1>10, <2>1, IndexesUntouched DEF TableInv, vars
<1>11. QED
    BY <1>1, <1>2, <1>3, <1>4, <1>5, <1>6, <1>7, <1>8, <1>9, <1>10
        DEF Next, Authorize, Callback

\* The table is consistent in every reachable state.
LEMMA TableInvariant == Spec => []TableInv
BY TableInit, TableNext, PTL DEF Spec

-----------------------------------------------------------------------------

\* The handlers' locals and the two indexes keep their types, for any
\* allowlist and any mix of accepted and refused requests.
THEOREM TypeCorrect == Spec => []TypeOK
<1>1. TableInv => TypeOK
    BY DEF TableInv
<1>2. QED  BY <1>1, TableInvariant, PTL

\* by_age and by_state never drift apart, whatever the order in which stamped
\* handlers reach the mutex and even if random_state() repeats a value.
THEOREM IndexesAgree == Spec => []IndexAgree
<1>1. TableInv => IndexAgree
    BY DEF TableInv
<1>2. QED  BY <1>1, TableInvariant, PTL

\* The table never exceeds PENDING_CAP, for any number of /authorize requests.
THEOREM TableBounded == Spec => []PendingBounded
<1>1. TableInv => PendingBounded
    BY DEF TableInv
<1>2. QED  BY <1>1, TableInvariant, PTL

-----------------------------------------------------------------------------

\* Handler h asked for, and has stored, this flow.
Asked(h, s, p) ==
    az[h].pc = "redirected" /\ az[h].state = s /\ az[h].pending = p

UniqueStates ==
    \A g, h \in Authorizers :
        az[g].state # None /\ az[g].state = az[h].state => g = h

StatesIssued ==
    \A h \in Authorizers : az[h].state # None => az[h].state \in issued

\* Every flow in the table, and every flow a callback took out of it, is the
\* flow of a handler that asked for it; a flow that was taken is not back.
FlowsHaveAskers ==
    /\ \A s \in States : byState[s] # None =>
          \E h \in Authorizers : Asked(h, s, byState[s])
    /\ \A c \in Callbacks : cb[c].pc \in {"taken", "delivered", "expired"} =>
          \E h \in Authorizers : Asked(h, cb[c].state, cb[c].pending)

TakenIsGone ==
    \A c \in Callbacks : cb[c].pc \in {"taken", "delivered"} =>
        byState[cb[c].state] = None

FlowInv ==
    /\ TableInv
    /\ UniqueStates
    /\ StatesIssued
    /\ FlowsHaveAskers
    /\ TakenIsGone
    /\ SingleUse

\* At the start there are no flows to confuse.
LEMMA FlowInvInit == Init => FlowInv
<1> SUFFICES ASSUME Init PROVE FlowInv
    OBVIOUS
<1>1. TableInv
    BY TableInit
<1>2. QED
    BY <1>1 DEF Init, FlowInv, UniqueStates, StatesIssued, FlowsHaveAskers,
        TakenIsGone, SingleUse

\* Every step keeps the flows apart, provided proxy states do not repeat.
LEMMA FlowInvNext ==
    ASSUME ~ AllowCollision
    PROVE  FlowInv /\ [Next]_vars => FlowInv'
<1> SUFFICES ASSUME FlowInv, [Next]_vars PROVE FlowInv'
    OBVIOUS
<1> USE OAuthProxyAssumption
<1>0. /\ TypeOK /\ LocalsSet /\ UniqueStates /\ StatesIssued
      /\ FlowsHaveAskers /\ TakenIsGone /\ SingleUse /\ TableInv'
    BY TableNext DEF FlowInv, TableInv
<1> DEFINE Rest == /\ UniqueStates /\ StatesIssued /\ FlowsHaveAskers
                   /\ TakenIsGone /\ SingleUse
<1> SUFFICES Rest'
    BY <1>0 DEF FlowInv
<1>1. ASSUME NEW h \in Authorizers, AuthorizeRefused(h) PROVE Rest'
    <2>1. /\ az' = [az EXCEPT ![h].pc = "refused"] /\ az[h].pc = "idle"
          /\ UNCHANGED <<byState, issued, cb>>
        BY <1>1 DEF AuthorizeRefused
    <2>2. UniqueStates' /\ StatesIssued'
        BY <1>0, <2>1 DEF UniqueStates, StatesIssued, TypeOK, AuthorizeHandler
    <2>3. \A g \in Authorizers : \A s, p : Asked(g, s, p) => Asked(g, s, p)'
        BY <1>0, <2>1 DEF Asked, TypeOK
    <2>4. FlowsHaveAskers'
        BY <1>0, <2>1, <2>3 DEF FlowsHaveAskers
    <2>5. QED  BY <1>0, <2>1, <2>2, <2>4 DEF TakenIsGone, SingleUse
<1>2. ASSUME NEW h \in Authorizers, AuthorizeStamp(h) PROVE Rest'
    <2>1. PICK s, p :
               /\ s \in States /\ s \notin issued
               /\ issued' = issued \cup {s}
               /\ az' = [az EXCEPT ![h] =
                     [pc |-> "stamped", state |-> s, at |-> 0, pending |-> p]]
        BY <1>2 DEF AuthorizeStamp, RandomState
    <2>2. az[h].pc = "idle" /\ UNCHANGED <<byState, cb>>
        BY <1>2 DEF AuthorizeStamp
    <2>3. UniqueStates' /\ StatesIssued'
        BY <1>0, <2>1 DEF UniqueStates, StatesIssued, TypeOK
    <2>4. \A g \in Authorizers : \A r, q : Asked(g, r, q) => Asked(g, r, q)'
        BY <1>0, <2>1, <2>2 DEF Asked, TypeOK
    <2>5. FlowsHaveAskers'
        BY <1>0, <2>2, <2>4 DEF FlowsHaveAskers
    <2>6. QED  BY <1>0, <2>2, <2>3, <2>5 DEF TakenIsGone, SingleUse
<1>3. ASSUME NEW h \in Authorizers, InsertLock(h) PROVE Rest'
    <2>1. /\ az' = [az EXCEPT ![h].pc = "inserting", ![h].at = now]
          /\ az[h].pc = "stamped"
          /\ UNCHANGED <<byState, issued, cb>>
        BY <1>3 DEF InsertLock
    <2>2. UniqueStates' /\ StatesIssued'
        BY <1>0, <2>1 DEF UniqueStates, StatesIssued, TypeOK, AuthorizeHandler
    <2>3. \A g \in Authorizers : \A s, p : Asked(g, s, p) => Asked(g, s, p)'
        BY <1>0, <2>1 DEF Asked, TypeOK
    <2>4. FlowsHaveAskers'
        BY <1>0, <2>1, <2>3 DEF FlowsHaveAskers
    <2>5. QED  BY <1>0, <2>1, <2>2, <2>4 DEF TakenIsGone, SingleUse
<1>4. ASSUME NEW h \in Authorizers, InsertEvict(h) PROVE Rest'
    <2>1. PICK p \in byAge : byState' = [byState EXCEPT ![p[2]] = None]
        BY <1>4 DEF InsertEvict
    <2>2. \A s \in States : byState'[s] # None => byState'[s] = byState[s]
        BY <1>0, <2>1 DEF TypeOK
    <2>3. UNCHANGED <<az, cb, issued>>
        BY <1>4 DEF InsertEvict
    <2>4. FlowsHaveAskers'
        BY <1>0, <2>2, <2>3 DEF FlowsHaveAskers, Asked
    <2>5. TakenIsGone'
        BY <1>0, <2>1, <2>3 DEF TakenIsGone, LocalsSet, TypeOK
    <2>6. QED
        BY <1>0, <2>3, <2>4, <2>5 DEF UniqueStates, StatesIssued, SingleUse
<1>5. ASSUME NEW h \in Authorizers, InsertStore(h) PROVE Rest'
    <2> DEFINE s == az[h].state
    <2>1. /\ az[h].pc = "inserting"
          /\ az' = [az EXCEPT ![h].pc = "redirected", ![h].at = 0]
          /\ byState' = [byState EXCEPT ![s] = az[h].pending]
          /\ UNCHANGED <<issued, cb>>
        BY <1>5 DEF InsertStore
    <2>2. s \in States
        BY <1>0, <2>1 DEF LocalsSet
    <2>3. UniqueStates' /\ StatesIssued'
        BY <1>0, <2>1 DEF UniqueStates, StatesIssued, TypeOK, AuthorizeHandler
    <2>4. \A g \in Authorizers : \A r, q : Asked(g, r, q) => Asked(g, r, q)'
        BY <1>0, <2>1 DEF Asked, TypeOK
    <2>5. /\ az'[h].pc = "redirected" /\ az'[h].state = s
          /\ az'[h].pending = az[h].pending
        BY <1>0, <2>1 DEF TypeOK, AuthorizeHandler
    <2>6. FlowsHaveAskers'
        <3>1. ASSUME NEW r \in States, byState'[r] # None
              PROVE  \E g \in Authorizers : Asked(g, r, byState[r])'
            <4>1. CASE r = s
                <5>1. byState'[r] = az[h].pending
                    BY <1>0, <2>1, <2>2, <4>1 DEF TypeOK
                <5>2. QED  BY <2>5, <4>1, <5>1 DEF Asked
            <4>2. CASE r # s
                <5>1. byState'[r] = byState[r]
                    BY <1>0, <2>1, <2>2, <4>2 DEF TypeOK
                <5>2. PICK g \in Authorizers : Asked(g, r, byState[r])
                    BY <1>0, <3>1, <5>1 DEF FlowsHaveAskers
                <5>3. QED  BY <2>4, <5>1, <5>2 DEF Asked
            <4>3. QED  BY <4>1, <4>2
        <3>2. QED  BY <1>0, <2>1, <2>4, <3>1 DEF FlowsHaveAskers
    <2>7. TakenIsGone'
        <3>1. SUFFICES ASSUME NEW c \in Callbacks, cb[c].pc \in {"taken", "delivered"}
                       PROVE  byState'[cb[c].state] = None
            BY <2>1 DEF TakenIsGone
        <3>2. PICK g \in Authorizers : Asked(g, cb[c].state, cb[c].pending)
            BY <1>0, <3>1 DEF FlowsHaveAskers
        <3>3. cb[c].state \in States
            BY <1>0, <3>1 DEF LocalsSet
        <3>4. cb[c].state # s
            BY <1>0, <2>1, <2>2, <3>2, <3>3 DEF Asked, UniqueStates
        <3>5. QED  BY <1>0, <2>1, <2>2, <3>1, <3>3, <3>4 DEF TakenIsGone, TypeOK
    <2>8. QED  BY <1>0, <2>1, <2>3, <2>6, <2>7 DEF SingleUse
<1>6. ASSUME NEW h \in Callbacks, CallbackArrive(h) PROVE Rest'
    <2>1. /\ UNCHANGED <<az, byState, issued>> /\ cb' \in [Callbacks -> CallbackHandler]
          /\ \A c \in Callbacks \ {h} : cb'[c] = cb[c]
          /\ cb'[h].pc \notin {"taken", "delivered", "expired"}
        BY <1>0, <1>6 DEF CallbackArrive, TypeOK, CallbackHandler
    <2>2. FlowsHaveAskers' /\ TakenIsGone' /\ SingleUse'
        BY <1>0, <2>1 DEF FlowsHaveAskers, Asked, TakenIsGone, SingleUse
    <2>3. QED  BY <1>0, <2>1, <2>2 DEF UniqueStates, StatesIssued
<1>7. ASSUME NEW h \in Callbacks, CallbackTake(h) PROVE Rest'
    <2> DEFINE s == cb[h].state
    <2>1. s \in States /\ UNCHANGED <<az, issued>>
        BY <1>0, <1>7 DEF CallbackTake, LocalsSet
    <2>2. UniqueStates' /\ StatesIssued'
        BY <1>0, <2>1 DEF UniqueStates, StatesIssued
    <2>3. CASE byState[s] = None
        <3>1. /\ byState' = byState
              /\ \A c \in Callbacks \ {h} : cb'[c] = cb[c]
              /\ cb'[h].pc \notin {"taken", "delivered", "expired"}
            BY <1>0, <1>7, <2>3 DEF CallbackTake, TypeOK, CallbackHandler
        <3>2. QED
            BY <1>0, <2>1, <2>2, <3>1 DEF FlowsHaveAskers, Asked, TakenIsGone, SingleUse
    <2>4. CASE byState[s] # None
        <3>1. /\ byState' = [byState EXCEPT ![s] = None]
              /\ \A c \in Callbacks \ {h} : cb'[c] = cb[c]
              /\ cb'[h].pc = "taken" /\ cb'[h].state = s /\ cb'[h].pending = byState[s]
            BY <1>0, <1>7, <2>4 DEF CallbackTake, StateAfterTake, TypeOK, CallbackHandler
        <3>2. byState'[s] = None /\ \A r \in States \ {s} : byState'[r] = byState[r]
            BY <1>0, <2>1, <3>1 DEF TypeOK
        <3>3. PICK g \in Authorizers : Asked(g, s, byState[s])
            BY <1>0, <2>1, <2>4 DEF FlowsHaveAskers
        <3>4. FlowsHaveAskers'
            BY <1>0, <2>1, <3>1, <3>2, <3>3 DEF FlowsHaveAskers, Asked
        <3>5. \A c \in Callbacks \ {h} : cb[c].pc \in {"taken", "delivered"}
                  => cb[c].state \in States /\ cb[c].state # s
            BY <1>0, <2>4 DEF TakenIsGone, LocalsSet
        <3>6. TakenIsGone' /\ SingleUse'
            BY <1>0, <2>1, <3>1, <3>2, <3>5 DEF TakenIsGone, SingleUse
        <3>7. QED  BY <2>2, <3>4, <3>6
    <2>5. QED  BY <2>3, <2>4
<1>8. ASSUME NEW h \in Callbacks, CallbackFinish(h) PROVE Rest'
    <2>1. /\ UNCHANGED <<az, byState, issued>> /\ cb[h].pc = "taken"
          /\ \A c \in Callbacks \ {h} : cb'[c] = cb[c]
          /\ cb'[h].state = cb[h].state /\ cb'[h].pending = cb[h].pending
        BY <1>0, <1>8 DEF CallbackFinish, TypeOK, CallbackHandler
    <2>2. FlowsHaveAskers' /\ TakenIsGone' /\ SingleUse'
        BY <1>0, <2>1 DEF FlowsHaveAskers, Asked, TakenIsGone, SingleUse
    <2>3. QED  BY <1>0, <2>1, <2>2 DEF UniqueStates, StatesIssued
<1>9. CASE Tick \/ UNCHANGED vars
    <2>1. UNCHANGED <<az, cb, byState, issued>>
        BY <1>9 DEF Tick, vars
    <2>2. QED
        BY <1>0, <2>1 DEF UniqueStates, StatesIssued, FlowsHaveAskers, Asked,
            TakenIsGone, SingleUse
<1>10. QED
    <2> HIDE DEF Rest
    <2>1. QED
        BY <1>1, <1>2, <1>3, <1>4, <1>5, <1>6, <1>7, <1>8, <1>9
            DEF Next, Authorize, Callback

\* A proxy state is redeemed at most once, for any number of /oauth/callback
\* requests that race for it, as long as random_state() does not repeat.
THEOREM RedeemedOnce == ASSUME ~ AllowCollision PROVE Spec => []SingleUse
<1>1. FlowInv => SingleUse
    BY DEF FlowInv
<1>2. Spec => []FlowInv
    BY FlowInvInit, FlowInvNext, PTL DEF Spec
<1>3. QED  BY <1>1, <1>2, PTL

\* The code of a login reaches the client that began it: the callback is sent
\* to the redirect_uri, with the state, of the one /authorize request that was
\* given its proxy state.
THEOREM ReachesAsker == ASSUME ~ AllowCollision PROVE Spec => []DeliveredToAsker
<1>1. FlowInv => DeliveredToAsker
    <2> SUFFICES ASSUME FlowInv, NEW c \in Callbacks, cb[c].pc = "delivered"
                 PROVE  LET askers == {h \in Authorizers :
                                          /\ az[h].pc = "redirected"
                                          /\ az[h].state = cb[c].state}
                        IN askers # {} /\ \A h \in askers : az[h].pending = cb[c].pending
        BY DEF DeliveredToAsker
    <2>1. PICK g \in Authorizers : Asked(g, cb[c].state, cb[c].pending)
        BY DEF FlowInv, FlowsHaveAskers
    <2>2. cb[c].state \in States
        BY DEF FlowInv, TableInv, LocalsSet
    <2>3. \A h \in Authorizers : az[h].state = cb[c].state => h = g
        BY <2>1, <2>2, OAuthProxyAssumption DEF FlowInv, UniqueStates, Asked
    <2>4. QED  BY <2>1, <2>3 DEF Asked
<1>2. Spec => []FlowInv
    BY FlowInvInit, FlowInvNext, PTL DEF Spec
<1>3. QED  BY <1>1, <1>2, PTL

-----------------------------------------------------------------------------

\* Every flow in flight is for a URI that authorize() found allowed.
AllowedFlow(p) == IsAllowedRedirectUri(AllowedRedirectUris, p.uri)

AllowedInv ==
    /\ \A h \in Authorizers : az[h].pc \in {"stamped", "inserting", "redirected"} =>
          AllowedFlow(az[h].pending)
    /\ \A s \in States : byState[s] # None => AllowedFlow(byState[s])
    /\ \A c \in Callbacks : cb[c].pc \in {"taken", "delivered", "expired"} =>
          AllowedFlow(cb[c].pending)

\* No step lets another URI in.
LEMMA AllowedNext == TableInv /\ AllowedInv /\ [Next]_vars => AllowedInv'
<1> SUFFICES ASSUME TableInv, AllowedInv, [Next]_vars PROVE AllowedInv'
    OBVIOUS
<1>0. TypeOK /\ LocalsSet
    BY DEF TableInv
<1>1. ASSUME NEW h \in Authorizers, AuthorizeRefused(h) PROVE AllowedInv'
    BY <1>0, <1>1 DEF AuthorizeRefused, TypeOK, AllowedInv
<1>2. ASSUME NEW h \in Authorizers, AuthorizeStamp(h) PROVE AllowedInv'
    <2>1. PICK uri \in Uris \cup {None}, cstate \in ClientStates \cup {None},
               s \in States :
               /\ ~ MustRefuse(uri, cstate)
               /\ az' = [az EXCEPT ![h] =
                     [pc |-> "stamped", state |-> s, at |-> 0,
                      pending |-> [uri |-> uri, cstate |-> cstate, created |-> now]]]
        BY <1>2 DEF AuthorizeStamp
    <2>2. AllowedFlow([uri |-> uri, cstate |-> cstate, created |-> now])
        BY <2>1 DEF MustRefuse, AllowedFlow
    <2>3. QED  BY <1>0, <1>2, <2>1, <2>2 DEF AuthorizeStamp, TypeOK, AllowedInv
<1>3. ASSUME NEW h \in Authorizers, InsertLock(h) PROVE AllowedInv'
    BY <1>0, <1>3 DEF InsertLock, TypeOK, AllowedInv
<1>4. ASSUME NEW h \in Authorizers, InsertEvict(h) PROVE AllowedInv'
    <2>1. PICK p \in byAge : byState' = [byState EXCEPT ![p[2]] = None]
        BY <1>4 DEF InsertEvict
    <2>2. QED  BY <1>0, <1>4, <2>1 DEF InsertEvict, TypeOK, AllowedInv
<1>5. ASSUME NEW h \in Authorizers, InsertStore(h) PROVE AllowedInv'
    BY <1>0, <1>5 DEF InsertStore, TypeOK, AllowedInv, LocalsSet
<1>6. ASSUME NEW h \in Callbacks, CallbackArrive(h) PROVE AllowedInv'
    BY <1>0, <1>6 DEF CallbackArrive, TypeOK, CallbackHandler, AllowedInv
<1>7. ASSUME NEW h \in Callbacks, CallbackTake(h) PROVE AllowedInv'
    <2>1. cb[h].state \in States
        BY <1>0, <1>7 DEF CallbackTake, LocalsSet
    <2>2. QED
        BY <1>0, <1>7, <2>1
            DEF CallbackTake, StateAfterTake, TypeOK, CallbackHandler, AllowedInv
<1>8. ASSUME NEW h \in Callbacks, CallbackFinish(h) PROVE AllowedInv'
    BY <1>0, <1>8 DEF CallbackFinish, TypeOK, AllowedInv
<1>9. CASE Tick \/ UNCHANGED vars
    BY <1>9 DEF Tick, vars, AllowedInv
<1>10. QED
    BY <1>1, <1>2, <1>3, <1>4, <1>5, <1>6, <1>7, <1>8, <1>9 DEF Next, Authorize, Callback

\* Only allowed URIs are ever in flight.
LEMMA AllowedInvariant == Spec => []AllowedInv
<1>1. Init => AllowedInv
    BY DEF Init, AllowedInv
<1>2. QED  BY <1>1, AllowedNext, TableInvariant, PTL DEF Spec

\* What is_allowed_redirect_uri() accepts is listed, or differs from a listed
\* loopback URI in its port only.
LEMMA AllowedIsListed ==
    ASSUME NEW uri \in Uris, IsAllowedRedirectUri(AllowedRedirectUris, uri)
    PROVE  \E entry \in AllowedRedirectUris :
               \/ uri = entry
               \/ /\ uri.scheme = "http" /\ uri.host \in LoopbackHosts
                  /\ uri = [entry EXCEPT !.port = uri.port]
<1> DEFINE U == [scheme: STRING, host: STRING, port: Nat, path: STRING, query: STRING,
                 clean: BOOLEAN]
<1>1. PICK entry \in AllowedRedirectUris :
         entry = uri \/ LoopbackRedirectMatches(entry, uri)
    BY DEF IsAllowedRedirectUri
<1>2. uri \in U /\ entry \in U
    BY RedirectUriAssumption
<1>3. ValidateRedirectUri(entry) /\ ValidateRedirectUri(uri)
    BY RedirectUriAssumption DEF IsAllowedRedirectUri
<1>5. entry.clean /\ uri.clean
    BY <1>3 DEF ValidateRedirectUri
<1>6. CASE LoopbackRedirectMatches(entry, uri)
    <2>1. /\ uri.scheme = "http" /\ entry.scheme = "http" /\ uri.host \in LoopbackHosts
          /\ entry.host = uri.host /\ entry.path = uri.path /\ entry.query = uri.query
        BY <1>6 DEF LoopbackRedirectMatches
    <2>2. entry.clean = TRUE /\ uri.clean = TRUE
        BY <1>2, <1>5
    <2>3. uri = [entry EXCEPT !.port = uri.port]
        BY <1>2, <2>1, <2>2
    <2>4. QED  BY <2>1, <2>3
<1>7. QED  BY <1>1, <1>6

\* An authorization code only ever travels to a URI the operator listed, up to
\* the port of a loopback client, whatever the handlers do in between.
THEOREM ReachesListed == Spec => []DeliveredToListed
<1>1. TableInv /\ AllowedInv => DeliveredToListed
    <2> SUFFICES ASSUME TableInv, AllowedInv, NEW c \in Callbacks, cb[c].pc = "delivered"
                 PROVE  \E entry \in AllowedRedirectUris :
                            LET uri == cb[c].pending.uri
                            IN \/ uri = entry
                               \/ /\ uri.scheme = "http" /\ uri.host \in LoopbackHosts
                                  /\ uri = [entry EXCEPT !.port = uri.port]
        BY DEF DeliveredToListed
    <2>1. cb[c].pending \in Pending /\ AllowedFlow(cb[c].pending)
        BY DEF TableInv, LocalsSet, AllowedInv
    <2>2. cb[c].pending.uri \in Uris
        BY <2>1 DEF Pending
    <2>3. QED  BY <2>1, <2>2, AllowedIsListed DEF AllowedFlow
<1>2. QED  BY <1>1, AllowedInvariant, TableInvariant, PTL

-----------------------------------------------------------------------------

\* The /authorize handlers that have reached the mutex.
Entered == {g \in Authorizers : az[g].pc \in {"inserting", "redirected"}}

\* The others among them, and those whose flow is not older than h's.
Rivals(h) == Entered \ {h}
Younger(h) == {g \in Rivals(h) : az[g].pending.created >= az[h].pending.created}

Crowded(h) ==
    Cardinality(Rivals(h)) >= PendingCap /\ Cardinality(Younger(h)) >= PendingCap - 1

WasCalledBack(h) ==
    \E c \in Callbacks : /\ cb[c].state = az[h].state
                         /\ cb[c].pc \notin {"taking", "refused"}

Fate(h) ==
    \/ byState[az[h].state] = az[h].pending
    \/ WasCalledBack(h)
    \/ Expired(az[h].pending.created, now)
    \/ Crowded(h)

\* FlowSurvives with what it needs: finitely many handlers got as far as the
\* table, insert() read the clock in the past, an idle callback has no state.
SurviveInv ==
    /\ IsFiniteSet(Entered)
    /\ \A h \in Authorizers : az[h].pc = "inserting" => az[h].at <= now
    /\ \A c \in Callbacks : cb[c].pc = "idle" => cb[c].state = None
    /\ \A h \in Authorizers : az[h].pc = "redirected" => Fate(h)

\* The fates are the four that FlowSurvives names.
LEMMA FateIsSurvival ==
    ASSUME SurviveInv PROVE FlowSurvives
<1>1. \A h : {g \in Authorizers \ {h} : az[g].pc \in {"inserting", "redirected"}}
                = Rivals(h)
    BY DEF Rivals, Entered
<1>2. QED  BY <1>1 DEF SurviveInv, Fate, WasCalledBack, Crowded, Younger, FlowSurvives

\* A handler that reached the table keeps its flow, and the clock does not go
\* back.
LEMMA EnteredStays ==
    ASSUME TypeOK, LocalsSet, [Next]_vars
    PROVE  /\ now' >= now
           /\ \A g \in Entered : /\ g \in Entered'
                                 /\ az'[g].state = az[g].state
                                 /\ az'[g].pending = az[g].pending
                                 /\ az[g].pc = "redirected" => az'[g] = az[g]
<1> USE DEF Entered
<1>1. ASSUME NEW h \in Authorizers, Authorize(h)
      PROVE  /\ now' = now
             /\ \A g \in Authorizers \ {h} : az'[g] = az[g]
             /\ h \in Entered => /\ az[h].pc = "inserting" /\ h \in Entered'
                                 /\ az'[h].state = az[h].state
                                 /\ az'[h].pending = az[h].pending
    BY <1>1 DEF Authorize, AuthorizeRefused, AuthorizeStamp, InsertLock, InsertEvict,
        InsertStore, TypeOK, AuthorizeHandler
<1>2. ASSUME NEW h \in Callbacks, Callback(h) PROVE UNCHANGED <<now, az>>
    BY <1>2 DEF Callback, CallbackArrive, CallbackTake, CallbackFinish
<1>3. now \in Nat
    BY DEF TypeOK, Time
<1>4. ASSUME NEW h \in Authorizers, Authorize(h)
      PROVE  /\ now' >= now
             /\ \A g \in Entered : /\ g \in Entered'
                                   /\ az'[g].state = az[g].state
                                   /\ az'[g].pending = az[g].pending
                                   /\ az[g].pc = "redirected" => az'[g] = az[g]
    BY <1>1, <1>3, <1>4
<1>5. ASSUME UNCHANGED az, now' >= now
      PROVE  \A g \in Entered : /\ g \in Entered'
                                /\ az'[g].state = az[g].state
                                /\ az'[g].pending = az[g].pending
                                /\ az[g].pc = "redirected" => az'[g] = az[g]
    BY <1>5
<1>6. CASE Tick \/ UNCHANGED vars
    <2>1. UNCHANGED az /\ now' >= now
        BY <1>3, <1>6 DEF Tick, vars
    <2>2. QED  BY <1>5, <2>1
<1>7. CASE \E h \in Callbacks : Callback(h)
    <2>1. UNCHANGED az /\ now' >= now
        BY <1>2, <1>3, <1>7
    <2>2. QED  BY <1>5, <2>1
<1>8. QED  BY <1>4, <1>6, <1>7 DEF Next

\* A step brings at most one handler to the table.
LEMMA EnteredFinite ==
    ASSUME TypeOK, IsFiniteSet(Entered), [Next]_vars
    PROVE  IsFiniteSet(Entered')
<1>1. ASSUME NEW h \in Authorizers, Authorize(h) PROVE Entered' \subseteq Entered \cup {h}
    BY <1>1 DEF Entered, Authorize, AuthorizeRefused, AuthorizeStamp, InsertLock,
        InsertEvict, InsertStore, TypeOK, AuthorizeHandler
<1>2. CASE \E h \in Authorizers : Authorize(h)
    <2>1. PICK h \in Authorizers : Authorize(h)
        BY <1>2
    <2>2. IsFiniteSet(Entered \cup {h})
        BY FS_AddElement
    <2>3. QED  BY <1>1, <2>1, <2>2, FS_Subset
<1>3. CASE ~ \E h \in Authorizers : Authorize(h)
    <2>1. UNCHANGED az
        BY <1>3 DEF Next, Callback, CallbackArrive, CallbackTake, CallbackFinish, Tick, vars
    <2>2. QED  BY <2>1 DEF Entered
<1>4. QED  BY <1>2, <1>3

\* A crowd does not disperse.
LEMMA CrowdStays ==
    ASSUME TypeOK, LocalsSet, [Next]_vars, IsFiniteSet(Entered), NEW h \in Authorizers,
           az[h].pc = "redirected", Crowded(h)
    PROVE  Crowded(h)'
<1>1. IsFiniteSet(Entered') /\ Entered \subseteq Entered' /\ az'[h] = az[h]
    BY EnteredFinite, EnteredStays DEF Entered
<1>2. \A g \in Entered : az'[g].pending = az[g].pending
    BY EnteredStays
<1>3. Rivals(h) \subseteq Rivals(h)' /\ Younger(h) \subseteq Younger(h)'
    BY <1>1, <1>2 DEF Rivals, Younger
<1>4. IsFiniteSet(Rivals(h)') /\ IsFiniteSet(Younger(h)')
    BY <1>1, FS_Subset DEF Rivals, Younger
<1>5. /\ Cardinality(Rivals(h)) <= Cardinality(Rivals(h)')
      /\ Cardinality(Younger(h)) <= Cardinality(Younger(h)')
    BY <1>3, <1>4, FS_Subset
<1>6. IsFiniteSet(Rivals(h)) /\ IsFiniteSet(Younger(h))
    BY <1>3, <1>4, FS_Subset
<1>7. /\ Cardinality(Rivals(h)) \in Nat /\ Cardinality(Younger(h)) \in Nat
      /\ Cardinality(Rivals(h)') \in Nat /\ Cardinality(Younger(h)') \in Nat
    BY <1>4, <1>6, FS_CardinalityType
<1>8. Cardinality(Rivals(h))' = Cardinality(Rivals(h)')
      /\ Cardinality(Younger(h))' = Cardinality(Younger(h)')
    OBVIOUS
<1>9. QED  BY <1>5, <1>7, <1>8, OAuthProxyAssumption DEF Crowded

\* Every flow in the table belongs to a handler of its own, so a full table
\* means as many handlers that redirected.
LEMMA FullMeansCrowded ==
    ASSUME FlowInv, IsFiniteSet(Entered), NEW h \in Authorizers, NEW i \in Authorizers,
           az[h].pc = "redirected", az[i].pc = "inserting",
           byState[az[h].state] = az[h].pending, Cardinality(Live) >= PendingCap,
           \A q \in byAge : az[h].pending.created <= q[1]
    PROVE  Crowded(h)
<1> DEFINE owners == {g \in Authorizers : /\ az[g].pc = "redirected"
                                          /\ byState[az[g].state] = az[g].pending}
           stateOf == [g \in owners |-> az[g].state]
<1>1. TypeOK /\ LocalsSet /\ IndexAgree /\ IsFiniteSet(Live) /\ FlowsHaveAskers
    BY DEF FlowInv, TableInv
<1>2. owners \subseteq Entered /\ IsFiniteSet(owners) /\ h \in owners /\ i \notin owners
    BY FS_Subset DEF Entered
<1>3. \A g \in owners : /\ az[g].state \in Live
                        /\ az[g].pending.created \in Nat
                        /\ az[h].pending.created <= az[g].pending.created
    <2> SUFFICES ASSUME NEW g \in owners
                 PROVE  /\ az[g].state \in Live
                        /\ az[g].pending.created \in Nat
                        /\ az[h].pending.created <= az[g].pending.created
        OBVIOUS
    <2>1. az[g].state \in States /\ az[g].pending \in Pending
        BY <1>1 DEF LocalsSet
    <2>2. az[g].pending # None /\ az[g].pending.created \in Nat
        BY <2>1, OAuthProxyAssumption DEF Pending, Time
    <2>3. az[g].state \in Live
        BY <2>1, <2>2 DEF Live
    <2>4. <<byState[az[g].state].created, az[g].state>> \in byAge
        BY <1>1, <2>3 DEF IndexAgree
    <2>5. QED  BY <2>2, <2>3, <2>4
<1>4. stateOf \in Surjection(owners, Live)
    <2>1. stateOf \in [owners -> Live]
        BY <1>3
    <2>2. \A s \in Live : \E g \in owners : stateOf[g] = s
        BY <1>1 DEF Live, FlowsHaveAskers, Asked
    <2>3. QED  BY <2>1, <2>2 DEF Surjection
<1> HIDE DEF owners, stateOf
<1>5. Cardinality(owners) >= Cardinality(Live)
    BY <1>2, <1>4, FS_Surjection
<1>6. /\ Cardinality(owners) \in Nat /\ Cardinality(Live) \in Nat
    BY <1>1, <1>2, FS_CardinalityType
<1>7. IsFiniteSet(owners \ {h}) /\ Cardinality(owners \ {h}) = Cardinality(owners) - 1
    BY <1>2, FS_RemoveElement
<1>8. Cardinality((owners \ {h}) \cup {i}) = Cardinality(owners)
    <2>1. i \notin owners \ {h}
        BY <1>2
    <2>2. Cardinality((owners \ {h}) \cup {i}) = Cardinality(owners \ {h}) + 1
        BY <1>7, <2>1, FS_AddElement
    <2>3. QED  BY <1>6, <1>7, <2>2
<1>9. (owners \ {h}) \cup {i} \subseteq Rivals(h) /\ IsFiniteSet(Rivals(h))
    BY <1>2, FS_Subset DEF Rivals, Entered
<1>10. owners \ {h} \subseteq Younger(h) /\ IsFiniteSet(Younger(h))
    <2>1. az[h].pending.created \in Nat
        BY <1>2, <1>3
    <2>2. \A g \in owners \ {h} : g \in Younger(h)
        BY <1>3, <1>9, <2>1 DEF Younger
    <2>3. QED  BY <1>9, <2>2, FS_Subset DEF Younger
<1>11. /\ Cardinality((owners \ {h}) \cup {i}) <= Cardinality(Rivals(h))
       /\ Cardinality(owners \ {h}) <= Cardinality(Younger(h))
    BY <1>9, <1>10, FS_Subset
<1>12. Cardinality(Rivals(h)) \in Nat /\ Cardinality(Younger(h)) \in Nat
    BY <1>9, <1>10, FS_CardinalityType
<1>13. QED  BY <1>5, <1>6, <1>7, <1>8, <1>11, <1>12, OAuthProxyAssumption DEF Crowded

\* insert() evicts a flow only for its age or for want of room.
LEMMA EvictionIsFate ==
    ASSUME FlowInv, SurviveInv, NEW i \in Authorizers, InsertEvict(i),
           NEW h \in Authorizers, az[h].pc = "redirected",
           byState[az[h].state] = az[h].pending
    PROVE  \/ byState'[az[h].state] = az[h].pending
           \/ Expired(az[h].pending.created, now)
           \/ Crowded(h)
<1>1. TypeOK /\ LocalsSet /\ IndexAgree
    BY DEF FlowInv, TableInv
<1>2. PICK p \in byAge : /\ IsOldest(p) /\ ~ RoomAfter(i, p)
                         /\ byState' = [byState EXCEPT ![p[2]] = None]
    BY DEF InsertEvict
<1>3. az[h].state \in States /\ az[h].pending \in Pending
    BY <1>1 DEF LocalsSet
<1>4. CASE p[2] # az[h].state
    BY <1>1, <1>2, <1>3, <1>4 DEF TypeOK
<1>5. CASE p[2] = az[h].state
    <2>1. p[1] = az[h].pending.created
        BY <1>1, <1>5 DEF IndexAgree
    <2>2. az[i].pc = "inserting" /\ az[i].at <= now
        BY DEF InsertEvict, SurviveInv
    <2>3. CASE Expired(p[1], az[i].at)
        <3>1. az[h].pending.created \in Nat /\ az[i].at \in Nat /\ now \in Nat
            BY <1>1, <1>3 DEF Pending, TypeOK, AuthorizeHandler, Time
        <3>2. QED  BY <2>1, <2>2, <2>3, <3>1, OAuthProxyAssumption DEF Expired
    <2>4. CASE ~ Expired(p[1], az[i].at)
        <3>1. ~ (Cardinality(Live) < PendingCap)
            BY <1>2, <2>4 DEF RoomAfter
        <3>2. Cardinality(Live) \in Nat
            BY FS_CardinalityType DEF FlowInv, TableInv
        <3>3. Cardinality(Live) >= PendingCap
            BY <3>1, <3>2, OAuthProxyAssumption
        <3>4. \A q \in byAge : az[h].pending.created <= q[1]
            BY <1>2, <2>1 DEF IsOldest
        <3>5. IsFiniteSet(Entered)
            BY DEF SurviveInv
        <3>6. QED  BY <2>2, <3>3, <3>4, <3>5, FullMeansCrowded
    <2>5. QED  BY <2>3, <2>4
<1>6. QED  BY <1>4, <1>5

\* One handler's flow through one step.
LEMMA FateStep ==
    ASSUME ~ AllowCollision, FlowInv, SurviveInv, [Next]_vars,
           NEW h \in Authorizers, az[h].pc = "redirected"
    PROVE  Fate(h)'
<1> USE OAuthProxyAssumption
<1>1. TypeOK /\ LocalsSet /\ UniqueStates /\ FlowsHaveAskers
    BY DEF FlowInv, TableInv
<1>2. now' >= now /\ az'[h] = az[h]
    BY <1>1, EnteredStays DEF Entered
<1>3. az[h].state \in States /\ az[h].pending \in Pending /\ az[h].pending # None
    BY <1>1 DEF LocalsSet, Pending, Time
<1>4. Expired(az[h].pending.created, now) => Expired(az[h].pending.created, now')
    <2>1. az[h].pending.created \in Nat /\ now \in Nat /\ now' \in Nat
        <3>1. TypeOK'
            BY TableNext DEF FlowInv, TableInv
        <3>2. QED  BY <1>1, <1>3, <3>1 DEF Pending, TypeOK, Time
    <2>2. QED  BY <1>2, <2>1 DEF Expired
<1>5. Crowded(h) => Crowded(h)'
    BY <1>1, CrowdStays DEF SurviveInv
<1>6. WasCalledBack(h) => WasCalledBack(h)'
    <2> SUFFICES ASSUME NEW c \in Callbacks, cb[c].state = az[h].state,
                        cb[c].pc \notin {"taking", "refused"}
                 PROVE  cb'[c].state = cb[c].state /\ cb'[c].pc \notin {"taking", "refused"}
        BY <1>2 DEF WasCalledBack
    <2>1. cb[c].pc \notin {"idle", "taking", "refused"}
        BY <1>3 DEF SurviveInv
    <2>2. ASSUME NEW d \in Callbacks, Callback(d)
          PROVE  cb'[c].state = cb[c].state /\ cb'[c].pc \notin {"taking", "refused"}
        BY <1>1, <2>1, <2>2 DEF Callback, CallbackArrive, CallbackTake, CallbackFinish,
            TypeOK, CallbackHandler
    <2>3. CASE ~ \E d \in Callbacks : Callback(d)
        <3>1. UNCHANGED cb
            BY <2>3 DEF Next, Authorize, AuthorizeRefused, AuthorizeStamp, InsertLock,
                InsertEvict, InsertStore, Tick, vars
        <3>2. QED  BY <2>1, <3>1
    <2>4. QED  BY <2>2, <2>3
<1>7. ASSUME byState[az[h].state] = az[h].pending PROVE Fate(h)'
    <2> DEFINE s == az[h].state
    <2>1. CASE byState'[s] = az[h].pending
        BY <1>2, <2>1 DEF Fate
    <2>2. CASE byState' = byState
        BY <1>2, <1>7, <2>2 DEF Fate
    <2>3. ASSUME NEW i \in Authorizers, InsertEvict(i) PROVE Fate(h)'
        <3>1. \/ byState'[s] = az[h].pending
              \/ Expired(az[h].pending.created, now)
              \/ Crowded(h)
            BY <1>7, <2>3, EvictionIsFate
        <3>2. QED  BY <1>2, <1>4, <1>5, <3>1 DEF Fate
    <2>4. ASSUME NEW i \in Authorizers, InsertStore(i) PROVE byState'[s] = az[h].pending
        <3>1. az[i].pc = "inserting" /\ byState' = [byState EXCEPT ![az[i].state] = az[i].pending]
            BY <2>4 DEF InsertStore
        <3>2. az[i].state # s
            BY <1>1, <1>3, <3>1 DEF UniqueStates
        <3>3. QED  BY <1>1, <1>3, <1>7, <3>1, <3>2 DEF TypeOK
    <2>5. ASSUME NEW c \in Callbacks, CallbackTake(c), byState' # byState, byState'[s] # az[h].pending
          PROVE  WasCalledBack(h)'
        <3>1. /\ cb'[c].pc = "taken" /\ cb'[c].state = cb[c].state
              /\ byState' = [byState EXCEPT ![cb[c].state] = None]
            BY <1>1, <2>5 DEF CallbackTake, StateAfterTake, TypeOK, CallbackHandler
        <3>2. cb[c].state = s
            BY <1>1, <1>3, <1>7, <2>5, <3>1 DEF TypeOK
        <3>3. QED  BY <1>2, <3>1, <3>2 DEF WasCalledBack
    <2>6. \/ byState' = byState
          \/ \E i \in Authorizers : InsertEvict(i) \/ InsertStore(i)
          \/ \E c \in Callbacks : CallbackTake(c)
        BY DEF Next, Authorize, Callback, AuthorizeRefused, AuthorizeStamp, InsertLock,
            CallbackArrive, CallbackFinish, Tick, vars
    <2>7. QED  BY <2>1, <2>2, <2>3, <2>4, <2>5, <2>6 DEF Fate
<1>8. QED  BY <1>2, <1>4, <1>5, <1>6, <1>7 DEF SurviveInv, Fate

\* Every step leaves each flow with a fate.
LEMMA SurviveNext ==
    ASSUME ~ AllowCollision, FlowInv, SurviveInv, [Next]_vars
    PROVE  SurviveInv'
<1> USE OAuthProxyAssumption
<1>1. TypeOK /\ LocalsSet /\ TypeOK'
    BY TableNext DEF FlowInv, TableInv
<1>2. IsFiniteSet(Entered')
    BY <1>1, EnteredFinite DEF SurviveInv
<1>3. now' >= now /\ now \in Nat /\ now' \in Nat
    BY <1>1, EnteredStays DEF TypeOK, Time
<1>4. ASSUME NEW h \in Authorizers, az'[h].pc = "inserting" PROVE az'[h].at <= now'
    <2>1. ASSUME NEW g \in Authorizers, Authorize(g)
          PROVE  (az'[h].at = now /\ now' = now) \/ az'[h] = az[h]
        BY <1>1, <1>4, <2>1 DEF Authorize, AuthorizeRefused, AuthorizeStamp, InsertLock,
            InsertEvict, InsertStore, TypeOK, AuthorizeHandler
    <2>2. (~ \E g \in Authorizers : Authorize(g)) => az'[h] = az[h]
        BY DEF Next, Callback, CallbackArrive, CallbackTake, CallbackFinish, Tick, vars
    <2>3. (az'[h].at = now /\ now' = now) \/ az'[h] = az[h]
        BY <2>1, <2>2
    <2>4. az[h].at \in Nat
        BY <1>1 DEF TypeOK, AuthorizeHandler, Time
    <2>5. QED  BY <1>3, <1>4, <2>3, <2>4 DEF SurviveInv
<1>5. ASSUME NEW c \in Callbacks, cb'[c].pc = "idle" PROVE cb'[c].state = None
    <2>1. ASSUME NEW d \in Callbacks, Callback(d) PROVE cb'[c] = cb[c]
        BY <1>1, <1>5, <2>1 DEF Callback, CallbackArrive, CallbackTake, CallbackFinish,
            TypeOK, CallbackHandler
    <2>2. (~ \E d \in Callbacks : Callback(d)) => cb'[c] = cb[c]
        BY DEF Next, Authorize, AuthorizeRefused, AuthorizeStamp, InsertLock,
            InsertEvict, InsertStore, Tick, vars
    <2>3. cb'[c] = cb[c]
        BY <2>1, <2>2
    <2>4. QED  BY <1>5, <2>3 DEF SurviveInv
<1>6. ASSUME NEW h \in Authorizers, az'[h].pc = "redirected" PROVE Fate(h)'
    <2>1. CASE az[h].pc = "redirected"
        BY <2>1, FateStep
    <2>2. CASE az[h].pc # "redirected"
        <3>1. ASSUME NEW g \in Authorizers, Authorize(g) PROVE g = h /\ InsertStore(h)
            BY <1>1, <1>6, <2>2, <3>1 DEF Authorize, AuthorizeRefused, AuthorizeStamp,
                InsertLock, InsertEvict, InsertStore, TypeOK, AuthorizeHandler
        <3>2. UNCHANGED az => FALSE
            BY <1>6, <2>2
        <3>3. InsertStore(h)
            BY <3>1, <3>2 DEF Next, Callback, CallbackArrive, CallbackTake,
                CallbackFinish, Tick, vars
        <3>4. az[h].state \in States
            BY <1>1, <3>3 DEF InsertStore, LocalsSet
        <3>5. /\ az'[h].state = az[h].state /\ az'[h].pending = az[h].pending
              /\ byState'[az[h].state] = az[h].pending
            BY <1>1, <3>3, <3>4 DEF InsertStore, TypeOK, AuthorizeHandler
        <3>6. QED  BY <3>5 DEF Fate
    <2>3. QED  BY <2>1, <2>2
<1>7. QED  BY <1>2, <1>4, <1>5, <1>6 DEF SurviveInv

\* A flow whose client was redirected to Logto is still in the table, was
\* called back, is too old, or gave way to PENDING_CAP rivals of which all but
\* one are not older: eviction never picks a flow it could have spared.
THEOREM Survives == ASSUME ~ AllowCollision PROVE Spec => []FlowSurvives
<1>1. Init => SurviveInv
    <2> SUFFICES ASSUME Init PROVE SurviveInv
        OBVIOUS
    <2>1. Entered = {}
        BY DEF Init, Entered
    <2>2. IsFiniteSet(Entered)
        BY <2>1, FS_EmptySet
    <2>3. QED  BY <2>2 DEF Init, SurviveInv
<1>2. Spec => []FlowInv
    BY FlowInvInit, FlowInvNext, PTL DEF Spec
<1>3. FlowInv /\ SurviveInv /\ [Next]_vars => SurviveInv'
    BY SurviveNext
<1>4. SurviveInv => FlowSurvives
    BY FateIsSurvival
<1>5. QED  BY <1>1, <1>2, <1>3, <1>4, PTL DEF Spec

-----------------------------------------------------------------------------
(* The whole flow.                                                         *)

\* Seen from the proxy's variables, a step of the flow is a step of the proxy
\* or no step at all.
LEMMA FlowStepIsProxyStep == [FlowNext]_allVars => [Next]_vars
<1> SUFFICES ASSUME [FlowNext]_allVars PROVE [Next]_vars
  OBVIOUS
<1>1. CASE UNCHANGED allVars
  BY <1>1 DEF allVars, vars
<1>2. ASSUME NEW h \in Authorizers,
             AuthorizeRefused(h) \/ AuthorizeStamp(h) \/ InsertLock(h)
                \/ InsertEvict(h) \/ Forward(h)
      PROVE  Next
  BY <1>2 DEF Forward, Authorize, Next
<1>3. ASSUME NEW c \in Callbacks, Arrive(c) \/ CallbackTake(c) \/ CallbackFinish(c)
      PROVE  Next
  BY <1>3 DEF Arrive, Callback, Next
<1>4. CASE Tick
  BY <1>4 DEF Next
<1>5. ASSUME NEW s \in States, LogtoIssue(s)
      PROVE  UNCHANGED vars
  BY <1>5 DEF LogtoIssue, vars
<1>6. ASSUME NEW e \in Exchanges,
             (\E h \in Authorizers : TokenRequest(e, h) \/ RefreshRequest(e, h))
                \/ LogtoToken(e) \/ TokenAnswer(e)
      PROVE  UNCHANGED vars
  BY <1>6 DEF TokenRequest, RefreshRequest, LogtoToken, TokenAnswer, vars
<1>7. QED
  BY <1>1, <1>2, <1>3, <1>4, <1>5, <1>6 DEF FlowNext

\* The flow is an OAuthProxy with more around it.
THEOREM FlowIsProxy == FlowSpec => Spec
<1>1. FlowInit => Init
  BY DEF FlowInit
<1>2. QED
  BY <1>1, FlowStepIsProxyStep, PTL DEF FlowSpec, Spec

\* In the composed system, too, the table is consistent and bounded and, if
\* random_state() never repeats, every proxy state is redeemed at most once and
\* for the client that asked.
THEOREM FlowKeepsTable ==
    ASSUME ~ AllowCollision
    PROVE  FlowSpec => [](/\ IndexAgree /\ PendingBounded /\ SingleUse
                         /\ DeliveredToAsker /\ DeliveredToListed /\ FlowSurvives)
BY FlowIsProxy, IndexesAgree, TableBounded, RedeemedOnce, ReachesAsker, ReachesListed,
    Survives, PTL

-----------------------------------------------------------------------------

\* What strip_trailing_slash() returns, for every URL: the URL up to its last
\* piece that is not a slash.
LEMMA StripResult ==
    ASSUME NEW S, NEW v \in Seq(S)
    PROVE  \E m \in 0..Len(v) :
              /\ m > 0 => v[m] # "/"
              /\ \A i \in m+1..Len(v) : v[i] = "/"
              /\ StripTrailingSlash(v) = SubSeq(v, 1, m)
<1> DEFINE Defines(f) == f = [n \in 0..Len(v) |->
                 IF n > 0 /\ v[n] = "/" THEN f[n - 1] ELSE SubSeq(v, 1, n)]
           Ends(n, m) == /\ m \in 0..n /\ (m > 0 => v[m] # "/")
                         /\ \A i \in m+1..n : v[i] = "/"
           strip == CHOOSE f : Defines(f)
           end(n) == CHOOSE m : Ends(n, m)
           g == [n \in 0..Len(v) |-> SubSeq(v, 1, end(n))]
<1>0. Len(v) \in Nat
    OBVIOUS
<1>1. StripTrailingSlash(v) = strip[Len(v)]
    BY DEF StripTrailingSlash
<1>2. ASSUME NEW n \in 0..Len(v) PROVE \E m : Ends(n, m)
    <2> DEFINE D == {n - m : m \in {k \in 0..n : k > 0 => v[k] # "/"}}
    <2>1. n - 0 \in D /\ D \subseteq Nat
        BY <1>0
    <2>2. PICK d \in D : \A u \in D : d <= u
        <3> HIDE DEF D
        <3>1. QED  BY <2>1, LeastNatural
    <2>3. PICK m \in 0..n : (m > 0 => v[m] # "/") /\ d = n - m
        BY <2>2
    <2>4. ASSUME NEW i \in m+1..n, v[i] # "/" PROVE FALSE
        <3>1. n - i \in D
            BY <1>0, <2>3, <2>4
        <3>2. d <= n - i
            BY <2>2, <3>1
        <3>3. QED  BY <1>0, <2>3, <2>4, <3>2
    <2>5. QED  BY <2>3, <2>4
<1>3. ASSUME NEW n \in 0..Len(v), NEW m, NEW k, Ends(n, m), Ends(n, k) PROVE m = k
    BY <1>0, <1>3
<1>4. ASSUME NEW n \in 0..Len(v) PROVE Ends(n, end(n))
    BY <1>2, <1>4
<1>5. Defines(g)
    <2>1. ASSUME NEW n \in 0..Len(v), n > 0, v[n] = "/" PROVE end(n) = end(n - 1)
        <3>1. n - 1 \in 0..Len(v)
            BY <1>0, <2>1
        <3>2. Ends(n - 1, end(n - 1)) /\ Ends(n, end(n))
            BY <1>4, <3>1
        <3> HIDE DEF end
        <3>3. Ends(n, end(n - 1))
            BY <1>0, <2>1, <3>2
        <3>4. QED  BY <1>3, <3>2, <3>3
    <2>2. ASSUME NEW n \in 0..Len(v), ~ (n > 0 /\ v[n] = "/") PROVE end(n) = n
        <3>1. Ends(n, n)
            BY <1>0, <2>2
        <3> HIDE DEF Ends
        <3>2. QED  BY <1>3, <1>4, <3>1
    <2> HIDE DEF end
    <2>3. ASSUME NEW n \in 0..Len(v)
          PROVE  g[n] = IF n > 0 /\ v[n] = "/" THEN g[n - 1] ELSE SubSeq(v, 1, n)
        <3>1. CASE n > 0 /\ v[n] = "/"
            <4>1. n - 1 \in 0..Len(v)
                BY <1>0, <3>1
            <4>2. QED  BY <2>1, <3>1, <4>1
        <3>2. CASE ~ (n > 0 /\ v[n] = "/")
            BY <2>2, <3>2
        <3>3. QED  BY <3>1, <3>2
    <2>4. QED  BY <2>3
<1>6. Defines(strip)
    <2> HIDE DEF g, Defines
    <2>1. QED  BY <1>5
<1>7. strip[Len(v)] = g[Len(v)]
    <2> HIDE DEF g, strip
    <2> DEFINE W == {n \in 0..Len(v) : strip[n] # g[n]}
    <2>1. ASSUME W # {} PROVE FALSE
        <3>1. W \subseteq Nat
            BY <1>0
        <3>2. PICK n \in W : \A u \in W : n <= u
            <4> HIDE DEF W
            <4>1. QED  BY <2>1, <3>1, LeastNatural
        <3>3. n \in 0..Len(v) /\ n \in Nat
            BY <1>0
        <3>4. /\ strip[n] = IF n > 0 /\ v[n] = "/" THEN strip[n - 1] ELSE SubSeq(v, 1, n)
              /\ g[n] = IF n > 0 /\ v[n] = "/" THEN g[n - 1] ELSE SubSeq(v, 1, n)
            BY <1>5, <1>6, <3>3
        <3>5. n > 0 => n - 1 \in 0..Len(v) /\ ~ (n <= n - 1)
            BY <1>0, <3>3
        <3>6. n > 0 => strip[n - 1] = g[n - 1]
            BY <3>2, <3>5
        <3> HIDE DEF Defines
        <3>7. strip[n] = g[n]
            BY <3>4, <3>6
        <3>8. QED  BY <3>2, <3>7
    <2>2. Len(v) \in 0..Len(v)
        BY <1>0
    <2>3. QED  BY <2>1, <2>2
<1>8. QED
    <2>1. Ends(Len(v), end(Len(v)))
        BY <1>0, <1>4
    <2>2. StripTrailingSlash(v) = SubSeq(v, 1, end(Len(v)))
        <3>1. Len(v) \in 0..Len(v)
            BY <1>0
        <3> HIDE DEF strip, end
        <3>2. QED  BY <1>1, <1>7, <3>1
    <2> HIDE DEF end
    <2>3. QED  BY <2>1, <2>2

\* A sequence is the tuple of its elements.
LEMMA AsTuple ==
    ASSUME NEW S, NEW s \in Seq(S)
    PROVE  /\ Len(s) = 1 => s = <<s[1]>>
           /\ Len(s) = 2 => s = <<s[1], s[2]>>
           /\ Len(s) = 3 => s = <<s[1], s[2], s[3]>>
           /\ Len(s) = 5 => s = <<s[1], s[2], s[3], s[4], s[5]>>
<1>1. ASSUME Len(s) = 1 PROVE s = <<s[1]>>
    BY <1>1
<1>2. ASSUME Len(s) = 2 PROVE s = <<s[1], s[2]>>
    BY <1>2
<1>3. ASSUME Len(s) = 3 PROVE s = <<s[1], s[2], s[3]>>
    BY <1>3
<1>4. ASSUME Len(s) = 5 PROVE s = <<s[1], s[2], s[3], s[4], s[5]>>
    BY <1>4
<1>5. QED  BY <1>1, <1>2, <1>3, <1>4

\* Appending pieces to a URL of one piece.
LEMMA JoinPieces ==
    ASSUME NEW S, NEW s \in Seq(S), NEW t \in Seq(S), Len(s) = 1
    PROVE  /\ Len(t) = 1 => s \o t = <<s[1], t[1]>>
           /\ Len(t) = 2 => s \o t = <<s[1], t[1], t[2]>>
           /\ Len(t) = 4 => s \o t = <<s[1], t[1], t[2], t[3], t[4]>>
<1> DEFINE r == s \o t
<1>1. /\ r \in Seq(S) /\ Len(r) = 1 + Len(t)
      /\ \A i \in 1..(1 + Len(t)) : r[i] = IF i <= 1 THEN s[i] ELSE t[i - 1]
    <2>1. /\ r \in Seq(S) /\ Len(r) = Len(s) + Len(t)
          /\ \A i \in 1..(Len(s) + Len(t)) :
                r[i] = IF i <= Len(s) THEN s[i] ELSE t[i - Len(s)]
        BY ConcatProperties
    <2> HIDE DEF r
    <2>2. QED  BY <2>1
<1> HIDE DEF r
<1>2. ASSUME Len(t) = 1 PROVE r = <<s[1], t[1]>>
    <2>1. r[1] = s[1] /\ r[2] = t[1]
        BY <1>1, <1>2
    <2>2. QED  BY <1>1, <1>2, <2>1, AsTuple
<1>3. ASSUME Len(t) = 2 PROVE r = <<s[1], t[1], t[2]>>
    <2>1. r[1] = s[1] /\ r[2] = t[1] /\ r[3] = t[2]
        BY <1>1, <1>3
    <2>2. QED  BY <1>1, <1>3, <2>1, AsTuple
<1>4. ASSUME Len(t) = 4 PROVE r = <<s[1], t[1], t[2], t[3], t[4]>>
    <2>1. r[1] = s[1] /\ r[2] = t[1] /\ r[3] = t[2] /\ r[4] = t[3] /\ r[5] = t[4]
        BY <1>1, <1>4
    <2>2. QED  BY <1>1, <1>4, <2>1, AsTuple
<1>5. QED  BY <1>2, <1>3, <1>4 DEF r

\* The same for pieces that are written out.
LEMMA Append2 ==
    ASSUME NEW a, NEW b PROVE <<a>> \o <<b>> = <<a, b>>
<1> DEFINE S == {a, b}
           x == <<a>>
           y == <<b>>
<1>1. x \in Seq(S) /\ Len(x) = 1 /\ y \in Seq(S) /\ Len(y) = 1 /\ x[1] = a /\ y[1] = b
    OBVIOUS
<1>2. x \o y = <<x[1], y[1]>>
    <2> HIDE DEF x, y, S
    <2>1. QED  BY <1>1, JoinPieces
<1>3. QED  BY <1>1, <1>2

\* Two pieces written out after the origin.
LEMMA Append3 ==
    ASSUME NEW a, NEW b, NEW c PROVE <<a>> \o <<b, c>> = <<a, b, c>>
<1> DEFINE S == {a, b, c}
           x == <<a>>
           y == <<b, c>>
<1>1. x \in Seq(S) /\ Len(x) = 1 /\ y \in Seq(S) /\ Len(y) = 2
    OBVIOUS
<1>2. x[1] = a /\ y[1] = b /\ y[2] = c
    OBVIOUS
<1>3. x \o y = <<x[1], y[1], y[2]>>
    <2> HIDE DEF x, y, S
    <2>1. QED  BY <1>1, JoinPieces
<1>4. QED  BY <1>2, <1>3

\* Four pieces written out after the origin.
LEMMA Append5 ==
    ASSUME NEW a, NEW b, NEW c, NEW d, NEW e
    PROVE  <<a>> \o <<b, c, d, e>> = <<a, b, c, d, e>>
<1> DEFINE S == {a, b, c, d, e}
           x == <<a>>
           y == <<b, c, d, e>>
<1>1. x \in Seq(S) /\ Len(x) = 1 /\ y \in Seq(S) /\ Len(y) = 4
    OBVIOUS
<1>2. x[1] = a /\ y[1] = b /\ y[2] = c /\ y[3] = d /\ y[4] = e
    OBVIOUS
<1>3. x \o y = <<x[1], y[1], y[2], y[3], y[4]>>
    <2> HIDE DEF x, y, S
    <2>1. QED  BY <1>1, JoinPieces
<1>4. QED  BY <1>2, <1>3

\* The first piece of a URL.
LEMMA FirstPiece ==
    ASSUME NEW S, NEW s \in Seq(S), Len(s) >= 1
    PROVE  SubSeq(s, 1, 1) = <<s[1]>>
<1> DEFINE r == SubSeq(s, 1, 1)
<1>1. \A i \in 1..1 : s[i] \in S
    OBVIOUS
<1>2. r \in Seq(S) /\ Len(r) = 1 /\ r[1] = s[1]
    BY <1>1, SubSeqProperties
<1> HIDE DEF r
<1>3. QED  BY <1>2, AsTuple DEF r

\* The URLs of a server at Origin, without their trailing slashes.
LEMMA OriginStripped ==
    /\ StripTrailingSlash(<<Origin>>) = <<Origin>>
    /\ StripTrailingSlash(<<Origin, "/">>) = <<Origin>>
    /\ StripTrailingSlash(<<Origin, "/", "mcp">>) = <<Origin, "/", "mcp">>
    /\ SubSeq(<<Origin, "/", "mcp">>, 1, 1) = <<Origin>>
<1> DEFINE S == {Origin, "/", "mcp"}
           one == <<Origin>>
           two == <<Origin, "/">>
           three == <<Origin, "/", "mcp">>
           Result(v, m) == /\ m \in 0..Len(v) /\ (m > 0 => v[m] # "/")
                           /\ \A i \in m+1..Len(v) : v[i] = "/"
                           /\ StripTrailingSlash(v) = SubSeq(v, 1, m)
<1>0. Origin # "/" /\ "mcp" # "/"
    BY OAuthFlowAssumption
<1>1. one \in Seq(S) /\ two \in Seq(S) /\ three \in Seq(S)
    OBVIOUS
<1>2. Len(one) = 1 /\ Len(two) = 2 /\ Len(three) = 3
    OBVIOUS
<1>3. one[1] = Origin /\ two[1] = Origin /\ two[2] = "/" /\ three[1] = Origin
      /\ three[3] = "mcp"
    OBVIOUS
<1> HIDE DEF one, two, three, S
<1>4. StripTrailingSlash(one) = <<one[1]>>
    <2>1. PICK m : Result(one, m)
        BY <1>1, StripResult
    <2>2. m = 1
        BY <1>0, <1>2, <1>3, <2>1
    <2>3. SubSeq(one, 1, 1) = <<one[1]>>
        <3>1. one \in Seq(S) /\ Len(one) >= 1
            BY <1>1, <1>2
        <3>2. QED  BY <3>1, FirstPiece, Zenon
    <2>4. QED  BY <2>1, <2>2, <2>3
<1>5. StripTrailingSlash(two) = <<two[1]>>
    <2>1. PICK m : Result(two, m)
        BY <1>1, StripResult
    <2>2. m = 1
        BY <1>0, <1>2, <1>3, <2>1
    <2>3. SubSeq(two, 1, 1) = <<two[1]>>
        <3>1. two \in Seq(S) /\ Len(two) >= 1
            BY <1>1, <1>2
        <3>2. QED  BY <3>1, FirstPiece, Zenon
    <2>4. QED  BY <2>1, <2>2, <2>3
<1>6. StripTrailingSlash(three) = three
    <2>1. PICK m : Result(three, m)
        BY <1>1, StripResult
    <2>2. m = 3
        BY <1>0, <1>2, <1>3, <2>1
    <2>3. QED  BY <1>1, <1>2, <2>1, <2>2, SubSeqFull
<1>7. SubSeq(three, 1, 1) = <<three[1]>>
    BY <1>1, <1>2, FirstPiece
<1>8. QED  BY <1>3, <1>4, <1>5, <1>6, <1>7 DEF one, two, three

\* canonical_resource_origin() and normalize_resource() meet at the origin.
LEMMA OriginNormal ==
    /\ \A raw \in Written : CanonicalResourceOrigin(raw) = <<Origin>>
    /\ \A resource \in Spellings(<<Origin>>) : NormalizeResource(resource) = <<Origin>>
    /\ McpResource(<<Origin>>) = <<Origin, "/", "mcp">>
<1>0. Origin # "/" /\ Origin # "mcp"
    BY OAuthFlowAssumption
<1>1. McpResource(<<Origin>>) = <<Origin, "/", "mcp">>
    BY OriginStripped, Append3 DEF McpResource
<1>2. WithoutMcp(<<Origin, "/", "mcp">>) = <<Origin>>
    <2>1. Len(<<Origin, "/", "mcp">>) - 2 = 1
        OBVIOUS
    <2>2. QED  BY <2>1, OriginStripped DEF WithoutMcp
<1>3. EndsInMcp(<<Origin, "/", "mcp">>) /\ ~ EndsInMcp(<<Origin>>)
    BY <1>0 DEF EndsInMcp
<1>4. <<Origin>> \o <<"/">> = <<Origin, "/">>
    BY Append2
<1>5. \A resource \in Spellings(<<Origin>>) : NormalizeResource(resource) = <<Origin>>
    <2>1. Spellings(<<Origin>>) = {<<Origin, "/", "mcp">>, <<Origin>>, <<Origin, "/">>}
        BY <1>1, <1>4 DEF Spellings
    <2>2. QED  BY <1>2, <1>3, <2>1, OriginStripped DEF NormalizeResource
<1>6. ASSUME NEW raw \in Written PROVE CanonicalResourceOrigin(raw) = <<Origin>>
    <2>1. CASE StripTrailingSlash(raw) = <<Origin>>
        BY <1>3, <2>1 DEF CanonicalResourceOrigin
    <2>2. CASE StripTrailingSlash(raw) = <<Origin, "/", "mcp">>
        <3>1. Len(<<Origin, "/", "mcp">>) > 2 /\ Last(<<Origin>>) # "/"
            BY <1>0 DEF Last
        <3>2. QED  BY <1>2, <1>3, <2>2, <3>1 DEF CanonicalResourceOrigin
    <2>3. QED  BY <2>1, <2>2, OAuthFlowAssumption
<1>7. QED  BY <1>1, <1>5, <1>6

\* The configured URL is the origin for good, and so is every resource that
\* goes to Logto.
UrlInv == url = <<Origin>>

\* No step changes the configuration.
LEMMA UrlInvariant == FlowSpec => []UrlInv
<1>1. FlowInit => UrlInv
    BY OriginNormal DEF FlowInit, UrlInv
<1>2. UrlInv /\ [FlowNext]_allVars => UrlInv'
    BY DEF UrlInv, FlowNext, flowVars, allVars, Forward, Arrive, LogtoIssue, TokenRequest,
        RefreshRequest, LogtoToken, TokenAnswer
<1>3. QED  BY <1>1, <1>2, PTL DEF FlowSpec

\* What the metadata, the 401 challenge and /register hand out works, for every
\* spelling of JMAP_MCP_RESOURCE_URL and every allowlist.
THEOREM DiscoveryWorks == FlowSpec => []AdvertisedWorks
<1>1. UrlInv => AdvertisedWorks
    <2> SUFFICES ASSUME UrlInv PROVE AdvertisedWorks
        OBVIOUS
    <2>1. /\ Challenge(url) =
               <<Origin, "/", ".well-known/oauth-protected-resource", "/", "mcp">>
          /\ ServerMetadata(url) = <<Origin, "/", ".well-known/oauth-authorization-server">>
          /\ CallbackUrl(url) = <<Origin, "/", "oauth/callback">>
        BY OriginStripped, Append3, Append5
            DEF UrlInv, Challenge, ServerMetadata, AuthorizationServer, CallbackUrl
    <2>2. \A leaf \in {"authorize", "token", "register"} :
              url \o <<"/", leaf>> = <<Origin, "/", leaf>>
        BY Append3 DEF UrlInv
    <2>3. McpResource(url) = <<Origin, "/", "mcp">>
        BY OriginNormal DEF UrlInv
    <2>4. {Challenge(url), ServerMetadata(url), McpResource(url), CallbackUrl(url)}
             \cup Endpoints(url) \subseteq Routes
        <3>1. Challenge(url) \in Routes /\ ServerMetadata(url) \in Routes
            BY <2>1 DEF Routes
        <3>2. McpResource(url) \in Routes /\ CallbackUrl(url) \in Routes
            BY <2>1, <2>3 DEF Routes
        <3>3. Endpoints(url) \subseteq Routes
            BY <2>2 DEF Routes, Endpoints
        <3>4. QED  BY <3>1, <3>2, <3>3
    <2>5. \A resource \in Spellings(url) : NormalizeResource(resource) = url
        BY OriginNormal DEF UrlInv
    <2>6. \A uris \in SUBSET Uris : RegisterAccepts(uris) =>
              \A uri \in uris : ~ MustRefuse(uri, None)
        BY OAuthProxyAssumption, RedirectUriAssumption DEF RegisterAccepts, MustRefuse
    <2>7. QED  BY <2>4, <2>5, <2>6 DEF AdvertisedWorks
<1>2. QED  BY <1>1, UrlInvariant, PTL

-----------------------------------------------------------------------------

OurCallback == CallbackUrl(<<Origin>>)

\* An authorization at Logto; by OriginNormal no other resource reaches it.
GrantRecord ==
    [challenge: Authorizers, redirect: {OurCallback}, resource: {<<Origin>>},
     status: {"asked", "code", "spent"}]

\* A POST /token request that has begun.
TokenCall ==
    [pc: {"refused", "relayed", "replied", "answered", "failed"}, by: Authorizers,
     code: States \cup {None}, uri: Uris \cup {None}, redirect: {OurCallback, None},
     resource: {<<Origin>>}, reply: {None, "token", "invalid", "empty"}]

IdleCall == [pc |-> "idle"]

FlowTyped ==
    /\ url = <<Origin>>
    /\ logto \in [States -> GrantRecord \cup {None}]
    /\ code \in [Callbacks -> States \cup {None}]
    /\ tk \in [Exchanges -> TokenCall \cup {IdleCall}]

\* Logto holds an authorization under the proxy state of the client whose PKCE
\* challenge it carries.
GrantsAsked ==
    \A s \in States : logto[s] # None =>
        /\ az[logto[s].challenge].pc = "redirected"
        /\ az[logto[s].challenge].state = s

\* Logto has issued this code.
Coded(k) == k \in States /\ logto[k] # None /\ logto[k].status \in {"code", "spent"}

\* A code that a client exchanges was issued, and that client was called back.
Exchanged(e) ==
    tk[e].pc # "idle" /\ tk[e].code # None =>
        /\ Coded(tk[e].code)
        /\ tk[e].redirect = OurCallback
        /\ az[tk[e].by].pc = "redirected"
        /\ \E c \in Callbacks : cb[c].pc = "delivered" /\ cb[c].state = az[tk[e].by].state

\* HonestNotRefused of one exchange.
Honest(e) ==
    \/ tk[e].pc = "refused"
    \/ tk[e].pc \in {"replied", "answered"} /\ tk[e].reply = "invalid"
    => /\ tk[e].code # None
       /\ \/ tk[e].uri # az[tk[e].by].pending.uri
          \/ tk[e].code # az[tk[e].by].state
          \/ logto[tk[e].code].status = "spent"

CodesIssued ==
    /\ \A c \in Callbacks : code[c] # None => Coded(code[c])
    /\ \A e \in Exchanges : Exchanged(e) /\ Honest(e)

GrantInv == FlowTyped /\ GrantsAsked /\ CodesIssued

\* Logto's resource is right and the refusals are for cause.
LEMMA GrantInvIsHonest == GrantInv => HonestNotRefused
<1> SUFFICES ASSUME GrantInv PROVE HonestNotRefused
    OBVIOUS
<1>1. ASSUME NEW s \in States, logto[s] # None PROVE logto[s].status # "refused"
    BY <1>1 DEF GrantInv, FlowTyped, GrantRecord
<1>2. \A e \in Exchanges : Honest(e)
    BY DEF GrantInv, CodesIssued
<1>3. QED  BY <1>1, <1>2 DEF HonestNotRefused, Honest

\* Nothing has been asked of Logto at the start.
LEMMA GrantInvInit == FlowInit => GrantInv
<1> SUFFICES ASSUME FlowInit PROVE GrantInv
    OBVIOUS
<1>1. FlowTyped
    BY OriginNormal DEF FlowInit, FlowTyped, IdleCall
<1>2. \A e \in Exchanges : tk[e].pc = "idle"
    BY DEF FlowInit
<1>3. CodesIssued
    BY <1>2 DEF FlowInit, CodesIssued, Exchanged, Honest
<1>4. QED  BY <1>1, <1>3 DEF GrantInv, FlowInit, GrantsAsked

\* A callback that was sent stays sent.
LEMMA DeliveredStays ==
    ASSUME TypeOK, [Next]_vars, NEW c \in Callbacks, cb[c].pc = "delivered"
    PROVE  cb'[c] = cb[c]
<1>1. ASSUME NEW d \in Callbacks, Callback(d) PROVE cb'[c] = cb[c]
    BY <1>1 DEF Callback, CallbackArrive, CallbackTake, CallbackFinish, TypeOK,
        CallbackHandler
<1>2. (~ \E d \in Callbacks : Callback(d)) => cb'[c] = cb[c]
    BY DEF Next, Authorize, AuthorizeRefused, AuthorizeStamp, InsertLock, InsertEvict,
        InsertStore, Tick, vars
<1>3. QED  BY <1>1, <1>2

\* What no step of the flow undoes: a redirected client, a callback that was
\* sent, an issued code and its challenge.
Kept ==
    /\ \A h \in Authorizers : az[h].pc = "redirected" => az'[h] = az[h]
    /\ \A c \in Callbacks : cb[c].pc = "delivered" => cb'[c] = cb[c]
    /\ \A k \in States : Coded(k) =>
          /\ Coded(k)'
          /\ logto[k].status = "spent" => logto'[k].status = "spent"

\* A step of the proxy takes back neither a redirect nor a callback.
LEMMA ProxyKept ==
    ASSUME TypeOK, LocalsSet, [Next]_vars
    PROVE  /\ \A h \in Authorizers : az[h].pc = "redirected" => az'[h] = az[h]
           /\ \A c \in Callbacks : cb[c].pc = "delivered" => cb'[c] = cb[c]
BY EnteredStays, DeliveredStays DEF Entered

\* An exchange that a step does not touch keeps what is known of it.
LEMMA ExchangeKept ==
    ASSUME FlowTyped, Kept, NEW e \in Exchanges, tk'[e] = tk[e], Exchanged(e), Honest(e)
    PROVE  Exchanged(e)' /\ Honest(e)'
<1>1. CASE tk[e].pc = "idle"
    BY <1>1 DEF Exchanged, Honest
<1>2. CASE tk[e].pc # "idle"
    <2>1. tk[e] \in TokenCall
        BY <1>2 DEF FlowTyped, IdleCall
    <2>2. tk[e].by \in Authorizers
        BY <2>1 DEF TokenCall
    <2>3. CASE tk[e].code = None
        BY <1>2, <2>3 DEF Exchanged, Honest
    <2>4. CASE tk[e].code # None
        <3>1. /\ Coded(tk[e].code) /\ tk[e].code \in States
              /\ tk[e].redirect = OurCallback /\ az[tk[e].by].pc = "redirected"
              /\ az'[tk[e].by] = az[tk[e].by]
            BY <1>2, <2>2, <2>4 DEF Exchanged, Coded, Kept
        <3>2. PICK c \in Callbacks : cb[c].pc = "delivered" /\ cb[c].state = az[tk[e].by].state
            BY <1>2, <2>4 DEF Exchanged
        <3>3. cb'[c] = cb[c]
            BY <3>2 DEF Kept
        <3>4. /\ Coded(tk[e].code)'
              /\ logto[tk[e].code].status = "spent" => logto'[tk[e].code].status = "spent"
            BY <3>1 DEF Kept, Coded
        <3>5. Exchanged(e)'
            BY <3>1, <3>2, <3>3, <3>4 DEF Exchanged
        <3>6. Honest(e)'
            BY <1>2, <2>4, <3>1, <3>4 DEF Honest
        <3>7. QED  BY <3>5, <3>6
    <2>5. QED  BY <2>3, <2>4
<1>3. QED  BY <1>1, <1>2

\* One origin behind all spellings, so one resource.
LEMMA OneResource ==
    ASSUME url = <<Origin>> PROVE Resources = {<<Origin>>} /\ CallbackUrl(url) = OurCallback
<1>1. Spellings(url) # {}
    BY DEF Spellings
<1>2. QED  BY <1>1, OriginNormal DEF Resources, OurCallback

\* An authorization at Logto is not the absence of one.
LEMMA NoneIsNoGrant == None \notin GrantRecord
BY OAuthFlowAssumption DEF GrantRecord, OurCallback

\* Logto is asked under a proxy state it has not seen.
LEMMA ForwardFresh ==
    ASSUME FlowInv, GrantInv, NEW h \in Authorizers, Forward(h)
    PROVE  az[h].state \in States /\ logto[az[h].state] = None
<1>1. az[h].pc = "inserting" /\ az[h].state \in States
    BY DEF Forward, InsertStore, FlowInv, TableInv, LocalsSet
<1>2. ASSUME logto[az[h].state] # None PROVE FALSE
    <2> DEFINE g == logto[az[h].state].challenge
    <2>1. g \in Authorizers
        BY <1>1, <1>2 DEF GrantInv, FlowTyped, GrantRecord
    <2>2. az[g].pc = "redirected" /\ az[g].state = az[h].state
        BY <1>1, <1>2 DEF GrantInv, GrantsAsked
    <2>3. az[h].state # None
        BY <1>1, OAuthProxyAssumption
    <2> HIDE DEF g
    <2>4. QED  BY <1>1, <2>1, <2>2, <2>3 DEF FlowInv, UniqueStates
<1>3. QED  BY <1>1, <1>2

\* The steps that leave the exchanges alone.
LEMMA OthersKeepGrants ==
    ASSUME FlowInv, GrantInv, [Next]_vars, Kept, FlowTyped', UNCHANGED tk,
           \A c \in Callbacks : code'[c] = code[c] \/ code'[c] = None \/ Coded(code'[c]),
           \A s \in States : logto'[s] # None =>
              /\ az'[logto'[s].challenge].pc = "redirected"
              /\ az'[logto'[s].challenge].state = s
    PROVE  GrantInv'
<1>1. \A c \in Callbacks : code'[c] # None => Coded(code'[c])
    BY DEF GrantInv, CodesIssued
<1>2. \A c \in Callbacks : code'[c] # None => Coded(code[c])'
    BY <1>1 DEF Kept, Coded
<1>3. \A e \in Exchanges : Exchanged(e)' /\ Honest(e)'
    BY ExchangeKept DEF GrantInv, CodesIssued
<1>4. QED  BY <1>2, <1>3 DEF GrantInv, CodesIssued, GrantsAsked

\* A step of the proxy alone.
LEMMA ProxyKeepsGrants ==
    ASSUME FlowInv, GrantInv, [Next]_vars, UNCHANGED flowVars
    PROVE  GrantInv'
<1>1. TypeOK /\ LocalsSet /\ FlowTyped
    BY DEF FlowInv, TableInv, GrantInv
<1>2. UNCHANGED <<url, logto, code, tk>>
    BY DEF flowVars
<1>3. Kept
    BY <1>1, <1>2, ProxyKept DEF Kept, Coded
<1>4. FlowTyped'
    BY <1>1, <1>2 DEF FlowTyped
<1>5. \A s \in States : logto'[s] # None =>
              /\ az'[logto'[s].challenge].pc = "redirected"
              /\ az'[logto'[s].challenge].state = s
    BY <1>1, <1>2, <1>3 DEF GrantInv, GrantsAsked, Kept, FlowTyped, GrantRecord
<1>6. QED  BY <1>2, <1>3, <1>4, <1>5, OthersKeepGrants

\* authorize() asks Logto under the client's own proxy state.
LEMMA ForwardKeepsGrants ==
    ASSUME FlowInv, GrantInv, [Next]_vars, NEW h \in Authorizers, Forward(h)
    PROVE  GrantInv'
<1> DEFINE s == az[h].state
<1>1. TypeOK /\ LocalsSet /\ FlowTyped
    BY DEF FlowInv, TableInv, GrantInv
<1>2. s \in States /\ logto[s] = None
    BY ForwardFresh
<1>3. PICK resource \in Resources :
         logto' = [logto EXCEPT ![s] =
            [challenge |-> h, redirect |-> CallbackUrl(url),
             resource |-> resource, status |-> "asked"]]
    BY DEF Forward
<1> DEFINE new == [challenge |-> h, redirect |-> OurCallback,
                   resource |-> <<Origin>>, status |-> "asked"]
<1>4. new \in GrantRecord /\ logto' = [logto EXCEPT ![s] = new] /\ new.challenge = h
    BY <1>1, <1>3, OneResource DEF FlowTyped, GrantRecord
<1>5. UNCHANGED <<url, code, tk>>
    BY DEF Forward
<1>6. az'[h].pc = "redirected" /\ az'[h].state = s
    BY <1>1 DEF Forward, InsertStore, TypeOK, AuthorizeHandler
<1> HIDE DEF new, s
<1>7. logto'[s] = new /\ \A r \in States \ {s} : logto'[r] = logto[r]
    BY <1>1, <1>2, <1>4 DEF FlowTyped
<1>8. Kept
    <2>1. \A k \in States : Coded(k) => k # s
        BY <1>2 DEF Coded
    <2>2. QED  BY <1>1, <1>7, <2>1, ProxyKept DEF Kept, Coded
<1>9. FlowTyped'
    BY <1>1, <1>2, <1>4, <1>5 DEF FlowTyped
<1>10. ASSUME NEW r \in States, logto'[r] # None
       PROVE  /\ az'[logto'[r].challenge].pc = "redirected"
              /\ az'[logto'[r].challenge].state = r
    <2>1. CASE r = s
        BY <1>4, <1>6, <1>7, <2>1
    <2>2. CASE r # s
        BY <1>1, <1>7, <1>8, <1>10, <2>2
            DEF GrantInv, GrantsAsked, Kept, FlowTyped, GrantRecord
    <2>3. QED  BY <2>1, <2>2
<1>11. QED  BY <1>5, <1>8, <1>9, <1>10, OthersKeepGrants

\* Logto issues the code: the resource is always the one it knows.
LEMMA IssueKeepsGrants ==
    ASSUME FlowInv, GrantInv, NEW s \in States, LogtoIssue(s)
    PROVE  GrantInv'
<1>1. TypeOK /\ LocalsSet /\ FlowTyped
    BY DEF FlowInv, TableInv, GrantInv
<1>2. logto[s] \in GrantRecord /\ logto[s] # None /\ logto[s].status = "asked"
    BY <1>1 DEF LogtoIssue, FlowTyped
<1> DEFINE new == [logto[s] EXCEPT !.status = "code"]
<1>3. new \in GrantRecord /\ new.challenge = logto[s].challenge
    BY <1>2 DEF GrantRecord
<1>4. logto' = [logto EXCEPT ![s] = new]
    BY <1>1, <1>2 DEF LogtoIssue, FlowTyped, GrantRecord
<1>5. UNCHANGED <<url, code, tk, az, cb>> /\ UNCHANGED vars
    BY DEF LogtoIssue, vars
<1> HIDE DEF new
<1>6. logto'[s] = new /\ \A r \in States \ {s} : logto'[r] = logto[r]
    BY <1>1, <1>4 DEF FlowTyped
<1>7. Kept
    <2>1. \A k \in States : Coded(k) => k # s
        BY <1>2 DEF Coded
    <2>2. QED  BY <1>5, <1>6, <2>1 DEF Kept, Coded
<1>8. FlowTyped'
    BY <1>1, <1>3, <1>4, <1>5 DEF FlowTyped
<1>9. \A r \in States : logto'[r] # None =>
              /\ az'[logto'[r].challenge].pc = "redirected"
              /\ az'[logto'[r].challenge].state = r
    BY <1>2, <1>3, <1>5, <1>6 DEF GrantInv, GrantsAsked
<1>10. QED  BY <1>5, <1>7, <1>8, <1>9, OthersKeepGrants

\* A callback request carries a code Logto issued, or none.
LEMMA ArriveKeepsGrants ==
    ASSUME FlowInv, GrantInv, [Next]_vars, NEW c \in Callbacks, Arrive(c)
    PROVE  GrantInv'
<1>1. TypeOK /\ LocalsSet /\ FlowTyped
    BY DEF FlowInv, TableInv, GrantInv
<1>2. PICK k \in Codes \cup {None} : code' = [code EXCEPT ![c] = k]
    BY DEF Arrive
<1>3. UNCHANGED <<url, logto, tk, az>>
    BY DEF Arrive, CallbackArrive
<1>4. Kept
    BY <1>1, <1>3, ProxyKept DEF Kept, Coded
<1>5. FlowTyped'
    BY <1>1, <1>2, <1>3 DEF FlowTyped, Codes
<1>6. \A d \in Callbacks : code'[d] = code[d] \/ code'[d] = None \/ Coded(code'[d])
    BY <1>1, <1>2 DEF FlowTyped, Codes, Coded
<1>7. \A s \in States : logto'[s] # None =>
              /\ az'[logto'[s].challenge].pc = "redirected"
              /\ az'[logto'[s].challenge].state = s
    BY <1>3 DEF GrantInv, GrantsAsked
<1>8. QED  BY <1>3, <1>4, <1>5, <1>6, <1>7, OthersKeepGrants

\* A step of one exchange, with or without Logto's answer.
LEMMA ExchangeKeepsGrants ==
    ASSUME GrantInv, Kept, UNCHANGED <<url, code, az>>, NEW e \in Exchanges,
           NEW new \in TokenCall, tk' = [tk EXCEPT ![e] = new],
           logto' \in [States -> GrantRecord \cup {None}],
           \A s \in States : logto'[s] # None =>
              logto[s] # None /\ logto'[s].challenge = logto[s].challenge,
           Exchanged(e)', Honest(e)'
    PROVE  GrantInv'
<1>1. FlowTyped
    BY DEF GrantInv
<1>2. FlowTyped'
    BY <1>1 DEF FlowTyped
<1>3. ASSUME NEW f \in Exchanges PROVE Exchanged(f)' /\ Honest(f)'
    <2>1. CASE f = e
        BY <2>1
    <2>2. CASE f # e
        <3>1. tk'[f] = tk[f]
            BY <1>1, <2>2 DEF FlowTyped
        <3>2. Exchanged(f) /\ Honest(f)
            BY DEF GrantInv, CodesIssued
        <3>3. QED  BY <1>1, <3>1, <3>2, ExchangeKept
    <2>3. QED  BY <2>1, <2>2
<1>4. \A c \in Callbacks : code'[c] # None => Coded(code[c])'
    BY DEF GrantInv, CodesIssued, Kept, Coded
<1>5. GrantsAsked'
    BY DEF GrantInv, GrantsAsked
<1>6. QED  BY <1>2, <1>3, <1>4, <1>5 DEF GrantInv, CodesIssued

\* An exchange that has begun is a token call.
LEMMA BegunIsCall ==
    ASSUME FlowTyped, NEW e \in Exchanges, tk[e].pc # "idle"
    PROVE  tk[e] \in TokenCall
BY DEF FlowTyped, IdleCall

\* A client that knows a code was redirected and called back.
LEMMA KnowingClient ==
    ASSUME FlowInv, GrantInv, NEW h \in Authorizers, NEW k \in Knows(h)
    PROVE  /\ Coded(k) /\ k # None /\ az[h].pc = "redirected"
           /\ \E c \in Callbacks : cb[c].pc = "delivered" /\ cb[c].state = az[h].state
<1>1. PICK c \in Callbacks : /\ cb[c].pc = "delivered" /\ cb[c].state = az[h].state
                             /\ k = code[c] /\ k # None
    BY DEF Knows
<1>2. Coded(k)
    BY <1>1 DEF GrantInv, CodesIssued
<1>3. cb[c].state \in States
    BY <1>1 DEF FlowInv, TableInv, LocalsSet
<1>4. PICK g \in Authorizers : Asked(g, cb[c].state, cb[c].pending)
    BY <1>1 DEF FlowInv, FlowsHaveAskers
<1>5. g = h
    BY <1>1, <1>3, <1>4, OAuthProxyAssumption DEF Asked, FlowInv, UniqueStates
<1>6. QED  BY <1>1, <1>2, <1>4, <1>5 DEF Asked

\* token() refuses an exchange only for a redirect_uri that is not the client's.
LEMMA RequestKeepsGrants ==
    ASSUME FlowInv, AllowedInv, GrantInv, NEW e \in Exchanges, NEW h \in Authorizers,
           TokenRequest(e, h)
    PROVE  GrantInv'
<1>1. TypeOK /\ LocalsSet /\ FlowTyped
    BY DEF FlowInv, TableInv, GrantInv
<1>2. UNCHANGED <<az, cb, url, logto, code>>
    BY DEF TokenRequest
<1>3. PICK k \in Knows(h), uri \in {az[h].pending.uri, None} \cup Uris,
           resource \in Resources :
          tk' = [tk EXCEPT ![e] =
             [pc |-> IF MustRefuse(uri, None) THEN "refused" ELSE "relayed",
              by |-> h, code |-> k, uri |-> uri,
              redirect |-> RewrittenRedirect(uri),
              resource |-> resource, reply |-> None]]
    BY DEF TokenRequest
<1>4. /\ Coded(k) /\ k \in States /\ k # None /\ az[h].pc = "redirected"
      /\ \E c \in Callbacks : cb[c].pc = "delivered" /\ cb[c].state = az[h].state
    BY KnowingClient DEF Coded
<1>5. az[h].pending \in Pending /\ az[h].pending.uri \in Uris
    BY <1>1, <1>4 DEF LocalsSet, Pending
<1>6. RewrittenRedirect(uri) = OurCallback /\ resource = <<Origin>>
    BY <1>1, OneResource DEF RewrittenRedirect, FlowTyped
<1>7. MustRefuse(uri, None) => uri # az[h].pending.uri
    BY <1>4, <1>5, OAuthProxyAssumption, RedirectUriAssumption
        DEF MustRefuse, AllowedInv, AllowedFlow
<1> DEFINE new == [pc |-> IF MustRefuse(uri, None) THEN "refused" ELSE "relayed",
                   by |-> h, code |-> k, uri |-> uri, redirect |-> OurCallback,
                   resource |-> <<Origin>>, reply |-> None]
<1>8. new \in TokenCall /\ tk' = [tk EXCEPT ![e] = new]
    BY <1>3, <1>4, <1>5, <1>6 DEF TokenCall
<1>9. /\ new.by = h /\ new.code = k /\ new.uri = uri /\ new.redirect = OurCallback
      /\ new.pc \in {"refused", "relayed"}
      /\ new.pc = "refused" => uri # az[h].pending.uri
    BY <1>7
<1> HIDE DEF new
<1>10. tk'[e] = new
    BY <1>1, <1>8 DEF FlowTyped
<1>11. Kept
    BY <1>2 DEF Kept, Coded
<1>12. Exchanged(e)' /\ Honest(e)'
    BY <1>2, <1>4, <1>9, <1>10 DEF Exchanged, Honest, Coded
<1>13. QED  BY <1>1, <1>2, <1>8, <1>11, <1>12, ExchangeKeepsGrants DEF FlowTyped

\* token() relays a refresh.
LEMMA RefreshKeepsGrants ==
    ASSUME FlowInv, GrantInv, NEW e \in Exchanges, NEW h \in Authorizers,
           RefreshRequest(e, h)
    PROVE  GrantInv'
<1>1. FlowTyped
    BY DEF GrantInv
<1>2. UNCHANGED <<az, cb, url, logto, code>>
    BY DEF RefreshRequest
<1> DEFINE new == [pc |-> "relayed", by |-> h, code |-> None, uri |-> None,
                   redirect |-> None, resource |-> <<Origin>>, reply |-> None]
<1>3. tk' = [tk EXCEPT ![e] = new]
    BY <1>1, OneResource DEF RefreshRequest, FlowTyped
<1>4. new \in TokenCall /\ new.code = None /\ new.pc = "relayed"
    BY DEF TokenCall
<1> HIDE DEF new
<1>5. tk'[e] = new
    BY <1>1, <1>3 DEF FlowTyped
<1>6. Exchanged(e)' /\ Honest(e)'
    BY <1>4, <1>5 DEF Exchanged, Honest
<1>7. Kept
    BY <1>2 DEF Kept, Coded
<1>8. QED  BY <1>1, <1>2, <1>3, <1>4, <1>6, <1>7, ExchangeKeepsGrants DEF FlowTyped

\* token() passes Logto's answer on, loses its body or fails.
LEMMA AnswerKeepsGrants ==
    ASSUME GrantInv, NEW e \in Exchanges, TokenAnswer(e)
    PROVE  GrantInv'
<1>1. FlowTyped /\ Exchanged(e) /\ Honest(e)
    BY DEF GrantInv, CodesIssued
<1>2. UNCHANGED <<az, cb, url, logto, code>> /\ tk[e].pc \in {"relayed", "replied"}
    BY DEF TokenAnswer
<1>3. tk[e] \in TokenCall
    BY <1>1, <1>2, BegunIsCall
<1>4. Kept
    BY <1>2 DEF Kept, Coded
<1>5. PICK pc, reply :
         /\ \/ pc = "failed" /\ reply = tk[e].reply
            \/ tk[e].pc = "replied" /\ pc = "answered" /\ reply \in {tk[e].reply, "empty"}
         /\ tk' = [tk EXCEPT ![e] = [tk[e] EXCEPT !.pc = pc, !.reply = reply]]
    <2>1. ASSUME NEW body \in {tk[e].reply, "empty"}, tk[e].pc = "replied",
                 tk' = [tk EXCEPT ![e].pc = "answered", ![e].reply = body]
          PROVE  tk' = [tk EXCEPT ![e] = [tk[e] EXCEPT !.pc = "answered", !.reply = body]]
        BY <2>1
    <2>2. ASSUME tk' = [tk EXCEPT ![e].pc = "failed"]
          PROVE  tk' = [tk EXCEPT ![e] = [tk[e] EXCEPT !.pc = "failed", !.reply = tk[e].reply]]
        <3>1. [tk[e] EXCEPT !.pc = "failed"]
                 = [tk[e] EXCEPT !.pc = "failed", !.reply = tk[e].reply]
            BY <1>3 DEF TokenCall
        <3>2. QED  BY <2>2, <3>1
    <2>3. QED  BY <2>1, <2>2 DEF TokenAnswer
<1> DEFINE new == [tk[e] EXCEPT !.pc = pc, !.reply = reply]
<1>6. /\ new \in TokenCall /\ new.by = tk[e].by /\ new.code = tk[e].code
      /\ new.uri = tk[e].uri /\ new.redirect = tk[e].redirect
      /\ new.pc = pc /\ new.reply = reply
    BY <1>3, <1>5 DEF TokenCall
<1> HIDE DEF new
<1>7. tk'[e] = new
    BY <1>1, <1>5 DEF FlowTyped, new
<1>8. Exchanged(e)'
    BY <1>1, <1>2, <1>6, <1>7 DEF Exchanged, Coded
<1>9. Honest(e)'
    BY <1>1, <1>2, <1>5, <1>6, <1>7 DEF Honest
<1>10. tk' = [tk EXCEPT ![e] = new]
    BY <1>5 DEF new
<1>11. QED  BY <1>1, <1>2, <1>4, <1>6, <1>8, <1>9, <1>10, ExchangeKeepsGrants DEF FlowTyped

\* Logto refuses a client's own code only if it is spent.
LEMMA TokenKeepsGrants ==
    ASSUME FlowInv, GrantInv, NEW e \in Exchanges, LogtoToken(e)
    PROVE  GrantInv'
<1> DEFINE k == tk[e].code
<1>1. FlowTyped /\ Exchanged(e)
    BY DEF GrantInv, CodesIssued
<1>2. UNCHANGED <<az, cb, url, code>> /\ tk[e].pc = "relayed"
    BY DEF LogtoToken
<1>3. tk[e] \in TokenCall
    BY <1>1, <1>2, BegunIsCall
<1>4. ASSUME NEW reply \in {"token", "invalid"},
             tk' = [tk EXCEPT ![e].pc = "replied", ![e].reply = reply],
             Kept, logto' \in [States -> GrantRecord \cup {None}],
             \A s \in States : logto'[s] # None =>
                logto[s] # None /\ logto'[s].challenge = logto[s].challenge,
             reply = "invalid" =>
                /\ k # None
                /\ k # az[tk[e].by].state \/ logto'[k].status = "spent"
      PROVE  GrantInv'
    <2> DEFINE new == [tk[e] EXCEPT !.pc = "replied", !.reply = reply]
    <2>1. tk' = [tk EXCEPT ![e] = new]
        BY <1>4
    <2>2. /\ new \in TokenCall /\ new.by = tk[e].by /\ new.code = tk[e].code
          /\ new.uri = tk[e].uri /\ new.redirect = tk[e].redirect
          /\ new.pc = "replied" /\ new.reply = reply
        BY <1>3, <1>4 DEF TokenCall
    <2> HIDE DEF new
    <2>3. tk'[e] = new
        BY <1>1, <2>1 DEF FlowTyped
    <2>4. Exchanged(e)'
        <3>1. CASE k = None
            BY <2>2, <2>3, <3>1 DEF Exchanged
        <3>2. CASE k # None
            <4>1. k \in States /\ logto'[k] # None /\ logto'[k].status \in {"code", "spent"}
                BY <1>1, <1>2, <1>4, <3>2 DEF Exchanged, Kept, Coded
            <4>2. /\ tk[e].redirect = OurCallback /\ az[tk[e].by].pc = "redirected"
                  /\ \E c \in Callbacks :
                        cb[c].pc = "delivered" /\ cb[c].state = az[tk[e].by].state
                BY <1>1, <1>2, <3>2 DEF Exchanged
            <4>3. az' = az /\ cb' = cb
                BY <1>2
            <4>4. QED  BY <2>2, <2>3, <4>1, <4>2, <4>3 DEF Exchanged, Coded
        <3>3. QED  BY <3>1, <3>2
    <2>5. Honest(e)'
        BY <1>2, <1>4, <2>2, <2>3 DEF Honest
    <2>6. UNCHANGED <<url, code, az>>
        BY <1>2
    <2>7. QED  BY <1>4, <2>1, <2>2, <2>4, <2>5, <2>6, ExchangeKeepsGrants
<1>5. UNCHANGED logto => /\ Kept /\ logto' \in [States -> GrantRecord \cup {None}]
                         /\ \A s \in States : logto'[s] # None =>
                               /\ logto[s] # None
                               /\ logto'[s].challenge = logto[s].challenge
    BY <1>1, <1>2 DEF Kept, Coded, FlowTyped
<1>6. CASE k = None
    <2>1. tk[e].resource = <<Origin>>
        BY <1>3 DEF TokenCall
    <2>2. /\ UNCHANGED logto
          /\ tk' = [tk EXCEPT ![e].pc = "replied", ![e].reply = "token"]
        BY <1>6, <2>1 DEF LogtoToken
    <2>3. QED  BY <1>4, <1>5, <2>2
<1>7. CASE k # None /\ ~ Redeemable(e)
    <2>1. /\ UNCHANGED logto
          /\ tk' = [tk EXCEPT ![e].pc = "replied", ![e].reply = "invalid"]
        BY <1>7 DEF LogtoToken
    <2>2. /\ k \in States /\ logto[k] # None /\ logto[k].status \in {"code", "spent"}
          /\ tk[e].redirect = OurCallback /\ az[tk[e].by].pc = "redirected"
        BY <1>1, <1>2, <1>7 DEF Exchanged, Coded
    <2>3. logto[k] \in GrantRecord
        BY <1>1, <2>2 DEF FlowTyped
    <2>4. ASSUME k = az[tk[e].by].state PROVE logto[k].status = "spent"
        <3> DEFINE g == logto[k].challenge
        <3>1. g \in Authorizers /\ tk[e].by \in Authorizers
            BY <1>3, <2>3 DEF GrantRecord, TokenCall
        <3>2. az[g].state = k /\ k # None
            BY <2>2, OAuthProxyAssumption DEF GrantInv, GrantsAsked
        <3> HIDE DEF g
        <3>3. g = tk[e].by
            BY <2>4, <3>1, <3>2 DEF FlowInv, UniqueStates
        <3>4. logto[k].redirect = tk[e].redirect /\ logto[k].resource = tk[e].resource
            BY <1>3, <2>2, <2>3 DEF GrantRecord, TokenCall
        <3>5. QED  BY <1>7, <2>2, <3>3, <3>4 DEF Redeemable, g
    <2>5. QED  BY <1>4, <1>5, <1>7, <2>1, <2>4
<1>8. CASE k # None /\ Redeemable(e)
    <2>1. /\ logto' = [logto EXCEPT ![k].status = "spent"]
          /\ tk' = [tk EXCEPT ![e].pc = "replied", ![e].reply = "token"]
        BY <1>8 DEF LogtoToken
    <2>2. k \in States /\ logto[k] # None /\ logto[k] \in GrantRecord
        BY <1>1, <1>2, <1>8 DEF Exchanged, Coded, FlowTyped
    <2> DEFINE grant == [logto[k] EXCEPT !.status = "spent"]
    <2>3. /\ grant \in GrantRecord /\ grant.challenge = logto[k].challenge
          /\ grant.status = "spent"
        BY <2>2 DEF GrantRecord
    <2>4. logto' = [logto EXCEPT ![k] = grant]
        BY <2>1
    <2> HIDE DEF grant
    <2>5. logto'[k] = grant /\ \A s \in States \ {k} : logto'[s] = logto[s]
        BY <1>1, <2>2, <2>4 DEF FlowTyped
    <2>6. grant # None
        BY <2>3, NoneIsNoGrant
    <2>7. Kept
        BY <1>2, <2>2, <2>3, <2>5, <2>6 DEF Kept, Coded
    <2>8. logto' \in [States -> GrantRecord \cup {None}]
        BY <1>1, <2>3, <2>4 DEF FlowTyped
    <2>9. \A s \in States : logto'[s] # None =>
             logto[s] # None /\ logto'[s].challenge = logto[s].challenge
        BY <2>2, <2>3, <2>5
    <2>10. QED  BY <1>4, <2>1, <2>7, <2>8, <2>9
<1>9. QED  BY <1>6, <1>7, <1>8

\* Every step of the flow keeps the grants.
LEMMA GrantInvNext ==
    ASSUME FlowInv, AllowedInv, GrantInv, [FlowNext]_allVars
    PROVE  GrantInv'
<1>1. [Next]_vars
    BY FlowStepIsProxyStep
<1>2. ASSUME UNCHANGED flowVars PROVE GrantInv'
    BY <1>1, <1>2, ProxyKeepsGrants
<1>3. ASSUME NEW h \in Authorizers, Forward(h) PROVE GrantInv'
    BY <1>1, <1>3, ForwardKeepsGrants
<1>4. ASSUME NEW c \in Callbacks, Arrive(c) PROVE GrantInv'
    BY <1>1, <1>4, ArriveKeepsGrants
<1>5. ASSUME NEW s \in States, LogtoIssue(s) PROVE GrantInv'
    BY <1>5, IssueKeepsGrants
<1>6. ASSUME NEW e \in Exchanges, NEW h \in Authorizers,
             TokenRequest(e, h) \/ RefreshRequest(e, h)
      PROVE  GrantInv'
    BY <1>6, RequestKeepsGrants, RefreshKeepsGrants
<1>7. ASSUME NEW e \in Exchanges, LogtoToken(e) \/ TokenAnswer(e) PROVE GrantInv'
    BY <1>7, TokenKeepsGrants, AnswerKeepsGrants
<1>8. UNCHANGED allVars => UNCHANGED flowVars
    BY DEF allVars, flowVars
<1>9. QED  BY <1>2, <1>3, <1>4, <1>5, <1>6, <1>7, <1>8 DEF FlowNext

\* The grants are kept in every reachable state of the flow.
LEMMA FlowInvariant ==
    ASSUME ~ AllowCollision PROVE FlowSpec => [](FlowInv /\ AllowedInv /\ GrantInv)
<1>1. Spec => []FlowInv
    BY FlowInvInit, FlowInvNext, PTL DEF Spec
<1>2. FlowSpec => [](FlowInv /\ AllowedInv)
    BY <1>1, FlowIsProxy, AllowedInvariant, PTL
<1>3. FlowInv /\ AllowedInv /\ GrantInv /\ [FlowNext]_allVars => GrantInv'
    BY GrantInvNext
<1>4. FlowSpec => []GrantInv
    BY <1>2, <1>3, GrantInvInit, PTL DEF FlowSpec
<1>5. QED  BY <1>2, <1>4, PTL

\* A client that sends its own code, its own redirect_uri and any advertised
\* resource is refused a token only if that code was redeemed before, however
\* its requests interleave with everyone else's.
THEOREM HonestServed == ASSUME ~ AllowCollision PROVE FlowSpec => []HonestNotRefused
BY FlowInvariant, GrantInvIsHonest, PTL

-----------------------------------------------------------------------------

\* What the refinement mapping counts.
Delivered(h) == {c \in Callbacks : cb[c].pc = "delivered" /\ cb[c].state = az[h].state}
Spent(h) == {s \in States : logto[s] # None /\ logto[s].status = "spent"
                                /\ logto[s].challenge = h}

\* The refinement mapping in terms of these sets.
LEMMA CountsAre ==
    /\ CalledBack = [h \in Authorizers |-> Cardinality(Delivered(h))]
    /\ Granted = [h \in Authorizers |-> Cardinality(Spent(h))]
BY DEF CalledBack, Granted, Delivered, Spent

\* One callback and one spent code at most, per client.
LEMMA OneDelivered ==
    ASSUME FlowInv, NEW h \in Authorizers, NEW c \in Delivered(h)
    PROVE  Delivered(h) = {c} /\ Cardinality(Delivered(h)) = 1
<1>1. Delivered(h) = {c}
    BY DEF Delivered, FlowInv, SingleUse
<1>2. QED  BY <1>1, FS_Singleton

\* A client's authorization is under one proxy state.
LEMMA OneSpent ==
    ASSUME GrantInv, NEW h \in Authorizers, NEW s \in Spent(h)
    PROVE  Spent(h) = {s} /\ Cardinality(Spent(h)) = 1
<1>1. \A r \in Spent(h) : r = az[h].state
    BY DEF Spent, GrantInv, GrantsAsked
<1>2. Spent(h) = {s}
    BY <1>1
<1>3. QED  BY <1>2, FS_Singleton

\* Nobody's callback moves to another client.
LEMMA DeliveredKept ==
    ASSUME FlowInv, FlowInv', [Next]_vars, NEW h \in Authorizers,
           NEW c \in Callbacks, cb[c].pc = "delivered"
    PROVE  c \in Delivered(h)' <=> c \in Delivered(h)
<1>1. TypeOK /\ LocalsSet /\ UniqueStates /\ UniqueStates'
    BY DEF FlowInv, TableInv
<1>2. PICK g \in Authorizers : Asked(g, cb[c].state, cb[c].pending)
    BY DEF FlowInv, FlowsHaveAskers
<1>3. cb[c].state \in States
    BY <1>1 DEF LocalsSet
<1>4. az'[g] = az[g] /\ cb'[c] = cb[c]
    BY <1>1, <1>2, ProxyKept DEF Asked
<1>5. az[h].state = cb[c].state <=> h = g
    BY <1>1, <1>2, <1>3, OAuthProxyAssumption DEF UniqueStates, Asked
<1>6. az'[h].state = cb[c].state <=> h = g
    BY <1>1, <1>2, <1>3, <1>4, OAuthProxyAssumption DEF UniqueStates, Asked
<1>7. QED  BY <1>4, <1>5, <1>6 DEF Delivered

\* Only callback()'s last step sends a callback.
LEMMA NoneDelivered ==
    ASSUME FlowInv, [Next]_vars, ~ \E c \in Callbacks : CallbackFinish(c)
    PROVE  \A c \in Callbacks : cb'[c].pc = "delivered" => cb[c].pc = "delivered"
<1>1. TypeOK
    BY DEF FlowInv, TableInv
<1>2. ASSUME NEW d \in Callbacks, CallbackArrive(d) \/ CallbackTake(d)
      PROVE  \A c \in Callbacks : cb'[c].pc = "delivered" => cb[c].pc = "delivered"
    BY <1>1, <1>2 DEF CallbackArrive, CallbackTake, TypeOK, CallbackHandler
<1>3. (~ \E d \in Callbacks : Callback(d)) => UNCHANGED cb
    BY DEF Next, Authorize, AuthorizeRefused, AuthorizeStamp, InsertLock, InsertEvict,
        InsertStore, Tick, vars
<1>4. QED  BY <1>2, <1>3 DEF Callback

\* No other step changes who was called back.
LEMMA DeliveredSame ==
    ASSUME FlowInv, FlowInv', [Next]_vars, ~ \E c \in Callbacks : CallbackFinish(c)
    PROVE  CalledBack' = CalledBack
<1>1. ASSUME NEW h \in Authorizers PROVE Delivered(h)' = Delivered(h)
    <2>1. ASSUME NEW c \in Callbacks PROVE c \in Delivered(h)' <=> c \in Delivered(h)
        <3>1. CASE cb[c].pc = "delivered"
            BY <3>1, DeliveredKept
        <3>2. CASE cb[c].pc # "delivered"
            BY <3>2, NoneDelivered DEF Delivered
        <3>3. QED  BY <3>1, <3>2
    <2>2. QED  BY <2>1 DEF Delivered
<1>2. [h \in Authorizers |-> Cardinality(Delivered(h))]'
         = [h \in Authorizers |-> Cardinality(Delivered(h))]
    BY <1>1
<1>3. QED  BY <1>2 DEF CalledBack, Delivered

\* callback()'s last step: the client is called back, for the first time, or the
\* flow is too old.
LEMMA FinishIsCallBack ==
    ASSUME FlowInv, FlowInv', NEW c \in Callbacks, CallbackFinish(c), UNCHANGED flowVars
    PROVE  (\E h \in Authorizers : Promise!CallBack(h)) \/ UNCHANGED Promise!vars
<1>1. TypeOK /\ LocalsSet /\ UniqueStates /\ SingleUse
    BY DEF FlowInv, TableInv
<1>2. UNCHANGED <<az, logto>> /\ cb[c].pc = "taken" /\ cb[c].state \in States
    BY <1>1 DEF CallbackFinish, flowVars, LocalsSet
<1>3. UNCHANGED Granted
    BY <1>2 DEF Granted
<1>4. /\ \A d \in Callbacks \ {c} : cb'[d] = cb[d]
      /\ cb'[c].state = cb[c].state /\ cb'[c].pc \in {"expired", "delivered"}
    BY <1>1 DEF CallbackFinish, TypeOK, CallbackHandler
<1>5. CASE cb'[c].pc = "expired"
    <2>1. \A h \in Authorizers : Delivered(h)' = Delivered(h)
        BY <1>2, <1>4, <1>5 DEF Delivered
    <2>2. [h \in Authorizers |-> Cardinality(Delivered(h))]'
             = [h \in Authorizers |-> Cardinality(Delivered(h))]
        BY <2>1
    <2>3. UNCHANGED CalledBack
        BY <2>2 DEF CalledBack, Delivered
    <2>4. QED  BY <1>3, <2>3 DEF Promise!vars
<1>6. CASE cb'[c].pc = "delivered"
    <2>1. PICK h \in Authorizers : Asked(h, cb[c].state, cb[c].pending)
        BY <1>2 DEF FlowInv, FlowsHaveAskers
    <2>2. \A g \in Authorizers : az[g].state = cb[c].state => g = h
        BY <1>1, <1>2, <2>1, OAuthProxyAssumption DEF UniqueStates, Asked
    <2>3. \A g \in Authorizers \ {h} : Delivered(g)' = Delivered(g)
        BY <1>2, <1>4, <2>2 DEF Delivered
    <2>4. Delivered(h) = {}
        BY <1>1, <1>2, <2>1 DEF Delivered, Asked, SingleUse
    <2>5. Cardinality(Delivered(h)) = 0
        BY <2>4, FS_EmptySet
    <2>6. Delivered(h)' = {c}
        BY <1>2, <1>4, <1>6, <2>1, <2>4 DEF Delivered, Asked
    <2>7. Cardinality(Delivered(h)') = 1
        BY <2>6, FS_Singleton
    <2>8. CalledBack[h] = 0
        BY <2>5, CountsAre
    <2>9. CalledBack' = [CalledBack EXCEPT ![h] = 1]
        <3>1. CalledBack' = [g \in Authorizers |-> Cardinality(Delivered(g)')]
            BY DEF CalledBack, Delivered
        <3>2. \A g \in Authorizers : Cardinality(Delivered(g)')
                 = IF g = h THEN 1 ELSE Cardinality(Delivered(g))
            BY <2>3, <2>7
        <3>3. QED  BY <3>1, <3>2, CountsAre
    <2>10. QED  BY <1>3, <2>8, <2>9 DEF Promise!CallBack
<1>7. QED  BY <1>4, <1>5, <1>6

\* Logto spends a code in answer to an exchange and at no other time.
LEMMA SpentSame ==
    ASSUME GrantInv,
           \A s \in States :
              \/ logto'[s] = logto[s]
              \/ /\ logto[s] # None => logto[s].status # "spent"
                 /\ logto'[s].status # "spent"
    PROVE  Granted' = Granted
<1>1. \A h \in Authorizers : Spent(h)' = Spent(h)
    BY DEF Spent
<1>2. [h \in Authorizers |-> Cardinality(Spent(h))]'
         = [h \in Authorizers |-> Cardinality(Spent(h))]
    BY <1>1
<1>3. QED  BY <1>2 DEF Granted, Spent

\* An exchange that Logto honours is the first for a client that was called
\* back; one that it refuses, and a refresh, change nothing that is promised.
LEMMA TokenIsGrant ==
    ASSUME FlowInv, GrantInv, NEW e \in Exchanges, LogtoToken(e)
    PROVE  (\E h \in Authorizers : Promise!Grant(h)) \/ UNCHANGED Promise!vars
<1> DEFINE k == tk[e].code
           h == tk[e].by
<1>1. FlowTyped /\ Exchanged(e) /\ GrantsAsked
    BY DEF GrantInv, CodesIssued
<1>2. UNCHANGED <<az, cb>> /\ tk[e].pc = "relayed"
    BY DEF LogtoToken
<1>3. UNCHANGED CalledBack
    BY <1>2 DEF CalledBack
<1>4. h \in Authorizers
    BY <1>1, <1>2, BegunIsCall DEF TokenCall
<1>5. CASE UNCHANGED logto
    BY <1>3, <1>5 DEF Granted, Promise!vars
<1>6. CASE k # None /\ Redeemable(e)
    <2>1. /\ logto' = [logto EXCEPT ![k].status = "spent"]
          /\ logto[k].status = "code" /\ logto[k].challenge = h
        BY <1>6 DEF LogtoToken, Redeemable
    <2>2. k \in States /\ logto[k] # None /\ logto[k] \in GrantRecord
        BY <1>1, <1>2, <1>6 DEF Exchanged, Coded, FlowTyped
    <2> DEFINE grant == [logto[k] EXCEPT !.status = "spent"]
    <2>3. grant \in GrantRecord /\ grant.challenge = h /\ grant.status = "spent"
        BY <2>1, <2>2 DEF GrantRecord
    <2>4. logto' = [logto EXCEPT ![k] = grant] /\ grant # None
        BY <2>1, <2>3, NoneIsNoGrant
    <2>5. k = az[h].state
        BY <1>1, <2>1, <2>2 DEF GrantsAsked
    <2>6. PICK c \in Callbacks : cb[c].pc = "delivered" /\ cb[c].state = az[h].state
        BY <1>1, <1>2, <1>6 DEF Exchanged
    <2> HIDE DEF grant, k, h
    <2>7. CalledBack[h] = 1
        BY <1>4, <2>6, OneDelivered, CountsAre DEF Delivered
    <2>8. logto'[k] = grant /\ \A s \in States \ {k} : logto'[s] = logto[s]
        BY <1>1, <2>2, <2>4 DEF FlowTyped
    <2>9. Spent(h) = {}
        BY <1>1, <2>1, <2>5 DEF Spent, GrantsAsked
    <2>10. {s \in States : logto'[s] # None /\ logto'[s].status = "spent"
                               /\ logto'[s].challenge = h} = {k}
        BY <2>2, <2>3, <2>4, <2>8, <2>9 DEF Spent
    <2>11. \A g \in Authorizers \ {h} :
              {s \in States : logto'[s] # None /\ logto'[s].status = "spent"
                                  /\ logto'[s].challenge = g} = Spent(g)
        BY <2>1, <2>3, <2>8 DEF Spent
    <2>12. Granted[h] = 0
        BY <1>4, <2>9, FS_EmptySet, CountsAre
    <2>13. Granted' = [Granted EXCEPT ![h] = 1]
        <3>1. Granted' = [g \in Authorizers |-> Cardinality(
                  {s \in States : logto'[s] # None /\ logto'[s].status = "spent"
                                      /\ logto'[s].challenge = g})]
            BY DEF Granted
        <3>2. Cardinality({k}) = 1
            BY FS_Singleton
        <3>3. \A g \in Authorizers : Granted'[g] = IF g = h THEN 1 ELSE Granted[g]
            BY <2>10, <2>11, <3>1, <3>2, CountsAre
        <3>4. QED  BY <3>1, <3>3, CountsAre
    <2>14. QED  BY <1>3, <1>4, <2>7, <2>12, <2>13 DEF Promise!Grant
<1>7. QED  BY <1>5, <1>6 DEF LogtoToken

\* Every step of the flow is a step of the promise or none.
LEMMA FlowStepKeepsPromise ==
    ASSUME FlowInv, FlowInv', GrantInv, [FlowNext]_allVars
    PROVE  [Promise!Next]_Promise!vars
<1>1. [Next]_vars
    BY FlowStepIsProxyStep
<1>2. FlowTyped
    BY DEF GrantInv
<1>3. ASSUME NEW c \in Callbacks, CallbackFinish(c), UNCHANGED flowVars
      PROVE  [Promise!Next]_Promise!vars
    BY <1>3, FinishIsCallBack DEF Promise!Next
<1>4. ASSUME NEW e \in Exchanges, LogtoToken(e) PROVE [Promise!Next]_Promise!vars
    BY <1>4, TokenIsGrant DEF Promise!Next
<1>5. ASSUME ~ \E c \in Callbacks : CallbackFinish(c), UNCHANGED Granted
      PROVE  [Promise!Next]_Promise!vars
    BY <1>1, <1>5, DeliveredSame DEF Promise!vars
<1>6. UNCHANGED logto => UNCHANGED Granted
    BY DEF Granted
<1>7. ASSUME NEW h \in Authorizers, Forward(h) PROVE UNCHANGED Granted
    <2>1. az[h].state \in States /\ logto[az[h].state] = None
        BY <1>7, ForwardFresh
    <2>2. PICK resource \in Resources :
             logto' = [logto EXCEPT ![az[h].state] =
                [challenge |-> h, redirect |-> CallbackUrl(url),
                 resource |-> resource, status |-> "asked"]]
        BY <1>7 DEF Forward
    <2>3. QED  BY <1>2, <2>1, <2>2, SpentSame DEF FlowTyped
<1>8. ASSUME NEW s \in States, LogtoIssue(s) PROVE UNCHANGED Granted
    <2>1. logto[s] \in GrantRecord /\ logto[s].status = "asked"
        BY <1>2, <1>8 DEF LogtoIssue, FlowTyped
    <2>2. \/ logto' = [logto EXCEPT ![s].status = "code"]
          \/ logto' = [logto EXCEPT ![s].status = "refused"]
        BY <1>8 DEF LogtoIssue
    <2>3. logto'[s].status # "spent" /\ \A r \in States \ {s} : logto'[r] = logto[r]
        BY <1>2, <2>1, <2>2 DEF FlowTyped, GrantRecord
    <2>4. QED  BY <2>1, <2>3, SpentSame
<1>9. ASSUME NEW c \in Callbacks, CallbackFinish(c)
      PROVE  cb' # cb
    <2>1. TypeOK
        BY DEF FlowInv, TableInv
    <2>2. cb[c].pc = "taken" /\ cb'[c].pc # "taken"
        BY <1>9, <2>1 DEF CallbackFinish, TypeOK, CallbackHandler
    <2>3. QED  BY <2>2
<1>10. UNCHANGED cb => ~ \E c \in Callbacks : CallbackFinish(c)
    BY <1>9
<1>11. ASSUME NEW h \in Authorizers,
              \/ AuthorizeRefused(h) \/ AuthorizeStamp(h) \/ InsertLock(h) \/ InsertEvict(h),
              UNCHANGED flowVars
       PROVE  UNCHANGED <<cb, logto>>
    BY <1>11 DEF AuthorizeRefused, AuthorizeStamp, InsertLock, InsertEvict, flowVars
<1>12. ASSUME NEW h \in Authorizers, Forward(h) PROVE UNCHANGED cb
    BY <1>12 DEF Forward, InsertStore
<1>13. ASSUME NEW s \in States, LogtoIssue(s) PROVE UNCHANGED cb
    BY <1>13 DEF LogtoIssue
<1>14. ASSUME NEW e \in Exchanges,
              (\E h \in Authorizers : TokenRequest(e, h) \/ RefreshRequest(e, h))
                 \/ TokenAnswer(e)
       PROVE  UNCHANGED <<cb, logto>>
    BY <1>14 DEF TokenRequest, RefreshRequest, TokenAnswer
<1>15. (Tick /\ UNCHANGED flowVars) \/ UNCHANGED allVars => UNCHANGED <<cb, logto>>
    BY DEF Tick, flowVars, allVars
<1>16. ASSUME NEW c \in Callbacks, Arrive(c) \/ (CallbackTake(c) /\ UNCHANGED flowVars)
       PROVE  UNCHANGED logto /\ ~ \E d \in Callbacks : CallbackFinish(d)
    <2>1. TypeOK
        BY DEF FlowInv, TableInv
    <2>2. /\ UNCHANGED logto
          /\ cb'[c].pc \in {"taking", "refused", "taken"} /\ cb[c].pc \in {"idle", "taking"}
          /\ \A d \in Callbacks \ {c} : cb'[d] = cb[d]
        BY <1>16, <2>1 DEF Arrive, CallbackArrive, CallbackTake, flowVars, TypeOK,
            CallbackHandler
    <2>3. ASSUME NEW d \in Callbacks, CallbackFinish(d) PROVE FALSE
        <3>1. cb[d].pc = "taken" /\ cb'[d].pc # "taken"
            BY <2>1, <2>3 DEF CallbackFinish, TypeOK, CallbackHandler
        <3>2. QED  BY <2>2, <3>1
    <2>4. QED  BY <2>2, <2>3
<1>17. QED
    BY <1>3, <1>4, <1>5, <1>6, <1>7, <1>8, <1>10, <1>11, <1>12, <1>13, <1>14, <1>15, <1>16
        DEF FlowNext

\* The proxy and Logto together implement AuthorizationGrant, for any number of
\* clients, callbacks and exchanges: each client is called back at most once and
\* is then issued at most one token for its code.
THEOREM KeepsPromise == ASSUME ~ AllowCollision PROVE FlowSpec => ImplementsGrant
<1>1. FlowInit => Promise!Init
    <2> SUFFICES ASSUME FlowInit PROVE Promise!Init
        OBVIOUS
    <2>1. \A h \in Authorizers : Delivered(h) = {} /\ Spent(h) = {}
        BY DEF FlowInit, Init, Delivered, Spent
    <2>2. \A h \in Authorizers : Cardinality(Delivered(h)) = 0 /\ Cardinality(Spent(h)) = 0
        BY <2>1, FS_EmptySet
    <2>3. QED  BY <2>2, CountsAre DEF Promise!Init
<1>2. FlowInv /\ FlowInv' /\ GrantInv /\ [FlowNext]_allVars => [Promise!Next]_Promise!vars
    BY FlowStepKeepsPromise
<1>3. QED
    BY <1>1, <1>2, FlowInvariant, PTL DEF FlowSpec, ImplementsGrant, Promise!Spec
=============================================================================
