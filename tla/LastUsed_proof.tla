--------------------------- MODULE LastUsed_proof ----------------------------
(***************************************************************************)
(* Proofs about the last-used records: the map stays bounded and a record  *)
(* is lost only to enough others, for every number of requests and bearers *)
(* and every order of clock readings; and an address that is shown is the  *)
(* client's own, for every header.                                         *)
(***************************************************************************)
EXTENDS LastUsed, FiniteSetTheorems, SequenceTheorems, TLAPS

Record == [at: Nat, ip: Addresses \cup {None}]

\* The recorded requests of bearer g; the bearers that have some.
Uses(g) == {r \in Requests : rq[r].pc = "recorded" /\ rq[r].hash = g}
Used == {g \in Hashes : Uses(g) # {}}

\* A header is one a request can carry, or has been forgotten.
Header == (UNION {Headers(client) : client \in Addresses}) \cup {<<>>}
Request == [pc: {"idle", "stamped", "recorded", "shown"}, hash: Hashes \cup {None},
            client: Addresses \cup {None}, xff: Header, at: Nat,
            shown: Record \cup {None}]

Typed ==
    /\ now \in Nat
    /\ map \in [Hashes -> Record \cup {None}]
    /\ rq \in [Requests -> Request]
    /\ \A r \in Requests : rq[r].pc \in {"stamped", "recorded"} => rq[r].hash \in Hashes

\* Every record is the stamp of a recorded use of its bearer.
Traced == \A h \in Known : \E r \in Uses(h) : map[h].at = rq[r].at

Bounded == IsFiniteSet(Used) /\ Cardinality(Known) <= MaxEntries

\* Enough others have come for the record of h to be gone.
Others(h) == {g \in Hashes \ {h} : Uses(g) # {}}
NotOlder(h, r) == {g \in Others(h) : \E q \in Uses(g) : rq[q].at >= rq[r].at}
Crowded(h) ==
    /\ Cardinality(Others(h)) >= MaxEntries
    /\ \E r \in Uses(h) : Cardinality(NotOlder(h, r)) >= MaxEntries - 1

LostForCause == \A h \in Hashes \ Known : Uses(h) # {} => Crowded(h)

RecordsInv == Typed /\ Traced /\ Bounded /\ LostForCause

-----------------------------------------------------------------------------

\* A record is not None.
LEMMA RecordIsSome == \A e \in Record : e # None
BY LastUsedAssumption DEF Record

\* What record() does to the map.
LEMMA StoreEffect ==
    ASSUME Typed, NEW r \in Requests, StoreRecord(r)
    PROVE  LET h == rq[r].hash IN
           /\ h \in Hashes
           /\ map'[h].at = rq[r].at
           /\ \E gone \in IF MustEvict(h) THEN {{o} : o \in OldestKnown} ELSE {{}} :
                 /\ Known' = (Known \ gone) \cup {h}
                 /\ \A g \in Hashes \ ({h} \cup gone) : map'[g] = map[g]
           /\ map' \in [Hashes -> Record \cup {None}]
<1> DEFINE h == rq[r].hash
           ip == ParseClientIp(rq[r].xff, TrustedProxyHops)
           new == [at |-> rq[r].at, ip |-> ip]
<1>1. h \in Hashes /\ rq[r].at \in Nat
    BY DEF StoreRecord, Typed, Request
<1>2. PICK gone \in IF MustEvict(h) THEN {{o} : o \in OldestKnown} ELSE {{}} :
          map' = [g \in Hashes |-> IF g = h THEN new
                                   ELSE IF g \in gone THEN None ELSE map[g]]
    BY DEF StoreRecord
<1>3. ip \in Addresses \cup {None}
    BY DEF ParseClientIp
<1> HIDE DEF ip
<1>4. new \in Record /\ new # None
    BY <1>1, <1>3, RecordIsSome DEF Record
<1>5. map' \in [Hashes -> Record \cup {None}]
    BY <1>2, <1>4 DEF Typed
<1>6. Known' = (Known \ gone) \cup {h}
    <2>1. \A g \in Hashes : map'[g] # None <=> g = h \/ (g \notin gone /\ map[g] # None)
        BY <1>2, <1>4
    <2>2. QED  BY <1>1, <2>1 DEF Known
<1>7. \A g \in Hashes \ ({h} \cup gone) : map'[g] = map[g]
    BY <1>2
<1>8. map'[h].at = rq[r].at
    BY <1>1, <1>2
<1>9. QED  BY <1>1, <1>2, <1>5, <1>6, <1>7, <1>8

\* A step takes no use away, and only record() adds one.
LEMMA UsesGrow ==
    ASSUME Typed, [Next]_vars
    PROVE  /\ \A g : \A q \in Uses(g) : q \in Uses(g)' /\ rq'[q].at = rq[q].at
           /\ \/ Used' = Used /\ Known' = Known /\ map' = map
              \/ \E r \in Requests : StoreRecord(r) /\ Used' = Used \cup {rq[r].hash}
<1>1. \A g : \A q \in Uses(g) : q \in Uses(g)' /\ rq'[q].at = rq[q].at
    <2> SUFFICES ASSUME NEW g, NEW q \in Uses(g)
                 PROVE  q \in Uses(g)' /\ rq'[q].at = rq[q].at
        OBVIOUS
    <2>1. rq'[q] = rq[q]
        BY DEF Next, vars, Accept, StoreRecord, Introspect, Tick, Uses, Typed, Request
    <2>2. QED  BY <2>1 DEF Uses
<1>2. ASSUME NEW r \in Requests, StoreRecord(r)
      PROVE  Used' = Used \cup {rq[r].hash}
    <2>1. /\ rq'[r].pc = "recorded" /\ rq'[r].hash = rq[r].hash /\ rq[r].hash \in Hashes
          /\ \A q \in Requests \ {r} : rq'[q] = rq[q]
        BY <1>2 DEF StoreRecord, Typed, Request
    <2>2. \A g : Uses(g)' \subseteq Uses(g) \cup {r}
        BY <2>1 DEF Uses
    <2>3. \A g : r \in Uses(g)' => g = rq[r].hash
        BY <2>1 DEF Uses
    <2>4. r \in Uses(rq[r].hash)'
        BY <2>1 DEF Uses
    <2>5. QED  BY <1>1, <2>1, <2>2, <2>3, <2>4 DEF Used
<1>3. ASSUME ~ \E r \in Requests : StoreRecord(r)
      PROVE  Used' = Used /\ Known' = Known /\ map' = map
    <2>1. map' = map /\ \A q \in Requests : rq'[q].pc = "recorded" => rq'[q] = rq[q]
        <3>1. CASE UNCHANGED vars
            BY <3>1 DEF vars
        <3>2. ASSUME NEW p \in Requests, Accept(p)
              PROVE  map' = map /\ \A q \in Requests : rq'[q].pc = "recorded" => rq'[q] = rq[q]
            BY <3>2 DEF Accept, Typed
        <3>3. ASSUME NEW p \in Requests, Introspect(p)
              PROVE  map' = map /\ \A q \in Requests : rq'[q].pc = "recorded" => rq'[q] = rq[q]
            <4>1. rq[p] \in Request
                BY DEF Typed
            <4>2. rq'[p].pc = "shown" /\ \A q \in Requests \ {p} : rq'[q] = rq[q]
                BY <3>3, <4>1 DEF Introspect, Typed, Request
            <4>3. QED  BY <3>3, <4>2 DEF Introspect
        <3>4. CASE Tick
            BY <3>4 DEF Tick
        <3>5. QED  BY <1>3, <3>1, <3>2, <3>3, <3>4 DEF Next
    <2>2. \A g : Uses(g)' = Uses(g)
        BY <1>1, <2>1 DEF Uses
    <2>3. QED  BY <2>1, <2>2 DEF Used, Known
<1>4. QED  BY <1>1, <1>2, <1>3

\* The types hold initially and in every step.
LEMMA TypedNext == ASSUME Typed, [Next]_vars PROVE Typed'
<1>1. CASE UNCHANGED vars
    BY <1>1 DEF vars, Typed
<1>2. ASSUME NEW r \in Requests, StoreRecord(r) PROVE Typed'
    <2>1. map' \in [Hashes -> Record \cup {None}]
        BY <1>2, StoreEffect
    <2>2. <<>> \in Header
        BY DEF Header
    <2>3. rq' \in [Requests -> Request]
        <3>1. rq[r] \in Request /\ rq \in [Requests -> Request]
            BY DEF Typed
        <3>2. [rq[r] EXCEPT !.pc = "recorded", !.xff = <<>>] \in Request
            BY <2>2, <3>1 DEF Request
        <3>3. rq' = [rq EXCEPT ![r] = [rq[r] EXCEPT !.pc = "recorded", !.xff = <<>>]]
            BY <1>2, <3>1 DEF StoreRecord
        <3>4. QED  BY <3>1, <3>2, <3>3
    <2>4. QED  BY <1>2, <2>1, <2>3 DEF StoreRecord, Typed, Request
<1>3. ASSUME NEW r \in Requests, Accept(r) PROVE Typed'
    <2>1. PICK h \in Hashes, client \in Addresses : \E xff \in Headers(client) :
              rq' = [rq EXCEPT ![r] = [pc |-> "stamped", hash |-> h, client |-> client,
                                       xff |-> xff, at |-> now, shown |-> None]]
        BY <1>3 DEF Accept
    <2>2. PICK xff \in Header :
              rq' = [rq EXCEPT ![r] = [pc |-> "stamped", hash |-> h, client |-> client,
                                       xff |-> xff, at |-> now, shown |-> None]]
        BY <2>1 DEF Header
    <2>3. rq' \in [Requests -> Request]
        BY <2>2 DEF Typed, Request
    <2>4. QED  BY <1>3, <2>2, <2>3 DEF Accept, Typed, Request
<1>4. ASSUME NEW r \in Requests, Introspect(r) PROVE Typed'
    <2>1. PICK h \in Hashes : rq' = [rq EXCEPT ![r] =
              [rq[r] EXCEPT !.pc = "shown", !.hash = h, !.shown = map[h], !.at = now]]
        BY <1>4 DEF Introspect, Typed
    <2>2. [rq[r] EXCEPT !.pc = "shown", !.hash = h, !.shown = map[h], !.at = now] \in Request
        BY DEF Typed, Request
    <2>3. rq' \in [Requests -> Request]
        BY <2>1, <2>2 DEF Typed
    <2>4. \A q \in Requests : rq'[q].pc \in {"stamped", "recorded"} => rq'[q].hash \in Hashes
        BY <2>1, <2>2 DEF Typed, Request
    <2>5. QED  BY <1>4, <2>3, <2>4 DEF Introspect, Typed
<1>5. CASE Tick
    BY <1>5 DEF Tick, Typed
<1>6. QED  BY <1>1, <1>2, <1>3, <1>4, <1>5 DEF Next

\* The map stays within MAX_ENTRIES, and every record is some use's.
LEMMA BoundedNext == ASSUME RecordsInv, [Next]_vars PROVE Traced' /\ Bounded'
<1>0. /\ Typed /\ Traced /\ IsFiniteSet(Used) /\ Cardinality(Known) <= MaxEntries
      /\ MaxEntries \in Nat \ {0}
    BY LastUsedAssumption DEF RecordsInv, Bounded
<1>1. \A g : \A q \in Uses(g) : q \in Uses(g)' /\ rq'[q].at = rq[q].at
    BY <1>0, UsesGrow
<1>2. Known \subseteq Used /\ IsFiniteSet(Known)
    <2>1. Known \subseteq Used
        BY <1>0 DEF Traced, Known, Used
    <2>2. QED  BY <1>0, <2>1, FS_Subset
<1>3. CASE Used' = Used /\ Known' = Known /\ map' = map
    <2>1. Traced'
        <3> SUFFICES ASSUME NEW h \in Known' PROVE \E r \in Uses(h)' : map'[h].at = rq'[r].at
            BY DEF Traced
        <3>1. PICK r \in Uses(h) : map[h].at = rq[r].at
            BY <1>0, <1>3 DEF Traced
        <3>2. QED  BY <1>1, <1>3, <3>1
    <2>2. QED  BY <1>0, <1>3, <2>1 DEF Bounded
<1>4. ASSUME NEW r \in Requests, StoreRecord(r), Used' = Used \cup {rq[r].hash}
      PROVE  Traced' /\ Bounded'
    <2>0. PICK h : h = rq[r].hash
        OBVIOUS
    <2>1. PICK gone \in IF MustEvict(h) THEN {{o} : o \in OldestKnown} ELSE {{}} :
              /\ Known' = (Known \ gone) \cup {h}
              /\ \A g \in Hashes \ ({h} \cup gone) : map'[g] = map[g]
        BY <1>0, <1>4, <2>0, StoreEffect
    <2>2. h \in Hashes /\ map'[h].at = rq[r].at
        BY <1>0, <1>4, <2>0, StoreEffect
    <2>3. Traced'
        <3> SUFFICES ASSUME NEW g \in Known' PROVE \E q \in Uses(g)' : map'[g].at = rq'[q].at
            BY DEF Traced
        <3>1. CASE g = h
            <4>1. r \in Uses(h)' /\ rq'[r].at = rq[r].at
                BY <1>0, <1>4, <2>0 DEF StoreRecord, Uses, Typed, Request
            <4>2. QED  BY <2>2, <3>1, <4>1
        <3>2. CASE g # h
            <4>1. g \in Known /\ map'[g] = map[g]
                BY <2>1, <3>2 DEF Known
            <4>2. PICK q \in Uses(g) : map[g].at = rq[q].at
                BY <1>0, <4>1 DEF Traced
            <4>3. QED  BY <1>1, <4>1, <4>2
        <3>3. QED  BY <3>1, <3>2
    <2>4. IsFiniteSet(Used')
        BY <1>0, <1>4, FS_AddElement
    <2>5. Cardinality(Known) \in Nat
        BY <1>2, FS_CardinalityType
    <2>6. Cardinality(Known') <= MaxEntries
        <3>1. CASE MustEvict(h)
            <4>1. PICK o \in Known : gone = {o}
                BY <2>1, <3>1 DEF OldestKnown
            <4>2. IsFiniteSet(Known \ {o}) /\ Cardinality(Known \ {o}) = Cardinality(Known) - 1
                BY <1>2, FS_RemoveElement
            <4>3. h \notin Known \ {o}
                BY <3>1 DEF MustEvict
            <4>4. Cardinality((Known \ {o}) \cup {h}) = Cardinality(Known \ {o}) + 1
                BY <4>2, <4>3, FS_AddElement
            <4>5. Known' = (Known \ {o}) \cup {h}
                BY <2>1, <4>1
            <4>6. QED  BY <1>0, <2>5, <4>2, <4>4, <4>5
        <3>2. CASE ~ MustEvict(h) /\ h \in Known
            <4>1. Known' = Known
                BY <2>1, <3>2
            <4>2. QED  BY <1>0, <4>1
        <3>3. CASE ~ MustEvict(h) /\ h \notin Known
            <4>1. Cardinality(Known) < MaxEntries
                BY <1>0, <2>5, <3>3 DEF MustEvict
            <4>2. Known' = Known \cup {h}
                BY <2>1, <3>3
            <4>3. Cardinality(Known') = Cardinality(Known) + 1
                BY <1>2, <3>3, <4>2, FS_AddElement
            <4>4. QED  BY <1>0, <2>5, <4>1, <4>3
        <3>4. QED  BY <3>1, <3>2, <3>3
    <2>7. QED  BY <2>3, <2>4, <2>6 DEF Bounded
<1>5. QED  BY <1>0, <1>3, <1>4, UsesGrow

\* What has crowded a bearer out goes on doing so.
LEMMA CrowdStays ==
    ASSUME RecordsInv, Bounded', [Next]_vars, NEW h \in Hashes, Crowded(h)
    PROVE  Crowded(h)'
<1>1. \A g : \A q \in Uses(g) : q \in Uses(g)' /\ rq'[q].at = rq[q].at
    BY UsesGrow DEF RecordsInv
<1>2. IsFiniteSet(Used) /\ IsFiniteSet(Used')
    BY DEF RecordsInv, Bounded
<1>3. PICK r \in Uses(h) : Cardinality(NotOlder(h, r)) >= MaxEntries - 1
    BY DEF Crowded
<1>4. Others(h) \subseteq Others(h)' /\ NotOlder(h, r) \subseteq NotOlder(h, r)'
    BY <1>1, <1>3 DEF Others, NotOlder
<1>5. /\ IsFiniteSet(Others(h)') /\ IsFiniteSet(NotOlder(h, r)')
      /\ IsFiniteSet(Others(h)) /\ IsFiniteSet(NotOlder(h, r))
    <2>1. Others(h)' \subseteq Used' /\ NotOlder(h, r)' \subseteq Used'
        BY DEF Others, NotOlder, Used
    <2>2. IsFiniteSet(Others(h)') /\ IsFiniteSet(NotOlder(h, r)')
        BY <1>2, <2>1, FS_Subset
    <2>3. QED  BY <1>4, <2>2, FS_Subset
<1>6. /\ Cardinality(Others(h)) <= Cardinality(Others(h)')
      /\ Cardinality(NotOlder(h, r)) <= Cardinality(NotOlder(h, r)')
    BY <1>4, <1>5, FS_Subset
<1>7. /\ Cardinality(Others(h)) \in Nat /\ Cardinality(Others(h)') \in Nat
      /\ Cardinality(NotOlder(h, r)) \in Nat /\ Cardinality(NotOlder(h, r)') \in Nat
    BY <1>5, FS_CardinalityType
<1>8. /\ Cardinality(Others(h)') >= MaxEntries
      /\ Cardinality(NotOlder(h, r)') >= MaxEntries - 1
    BY <1>3, <1>6, <1>7, LastUsedAssumption DEF Crowded
<1>9. QED  BY <1>1, <1>3, <1>8 DEF Crowded

\* record() takes away a record only for that many others: those that stay,
\* whose stamps are no older, and the newcomer.
LEMMA EvictionCrowds ==
    ASSUME RecordsInv, Bounded', [Next]_vars, NEW h \in Known, h \notin Known'
    PROVE  Crowded(h)'
<1>0. /\ Typed /\ Traced /\ IsFiniteSet(Used) /\ IsFiniteSet(Used')
      /\ MaxEntries \in Nat \ {0} /\ Known \subseteq Hashes /\ h \in Hashes
    BY LastUsedAssumption DEF RecordsInv, Bounded, Known
<1>1. \A g : \A q \in Uses(g) : q \in Uses(g)' /\ rq'[q].at = rq[q].at
    BY <1>0, UsesGrow
<1>2. PICK i \in Requests : StoreRecord(i)
    BY <1>0, UsesGrow
<1>n. PICK new : new = rq[i].hash
    OBVIOUS
<1>3. PICK gone \in IF MustEvict(new) THEN {{o} : o \in OldestKnown} ELSE {{}} :
          Known' = (Known \ gone) \cup {new}
    BY <1>0, <1>2, <1>n, StoreEffect
<1>4. MustEvict(new) /\ gone = {h} /\ h \in OldestKnown /\ new \notin Known /\ new \in Hashes
    <2>1. new \in Hashes
        BY <1>0, <1>2, <1>n, StoreEffect
    <2>2. QED  BY <1>3, <2>1 DEF MustEvict
<1>5. Known \subseteq Used /\ IsFiniteSet(Known)
    <2>1. Known \subseteq Used
        BY <1>0 DEF Traced, Known, Used
    <2>2. QED  BY <1>0, <2>1, FS_Subset
<1>6. i \in Uses(new)'
    BY <1>0, <1>2, <1>n DEF StoreRecord, Uses, Typed, Request
<1>7. PICK r \in Uses(h) : map[h].at = rq[r].at
    BY <1>0 DEF Traced
<1> DEFINE stay == Known \ {h}
<1>8. /\ IsFiniteSet(stay) /\ IsFiniteSet(stay \cup {new})
      /\ Cardinality(stay) = Cardinality(Known) - 1
      /\ Cardinality(stay \cup {new}) = Cardinality(Known)
      /\ Cardinality(Known) \in Nat /\ Cardinality(Known) >= MaxEntries
    <2>1. Cardinality(Known) \in Nat /\ Cardinality(Known) >= MaxEntries
        BY <1>4, <1>5, FS_CardinalityType DEF MustEvict
    <2>2. IsFiniteSet(stay) /\ Cardinality(stay) = Cardinality(Known) - 1
        BY <1>5, FS_RemoveElement
    <2>3. new \notin stay
        BY <1>4
    <2>4. IsFiniteSet(stay \cup {new}) /\ Cardinality(stay \cup {new}) = Cardinality(stay) + 1
        BY <2>2, <2>3, FS_AddElement
    <2>5. QED  BY <2>1, <2>2, <2>4
<1>9. stay \cup {new} \subseteq Others(h)'
    <2>1. \A g \in stay : g \in Others(h)'
        BY <1>0, <1>1 DEF Traced, Others, Known
    <2>2. new \in Others(h)'
        BY <1>4, <1>6 DEF Others
    <2>3. QED  BY <2>1, <2>2
<1>10. stay \subseteq NotOlder(h, r)'
    <2> SUFFICES ASSUME NEW g \in stay PROVE g \in NotOlder(h, r)'
        OBVIOUS
    <2>1. PICK q \in Uses(g) : map[g].at = rq[q].at
        BY <1>0 DEF Traced
    <2>2. map[h].at <= map[g].at
        BY <1>4 DEF OldestKnown
    <2>3. rq[r].at \in Nat /\ rq[q].at \in Nat
        BY <1>0 DEF Typed, Request, Uses
    <2>4. rq[q].at >= rq[r].at
        BY <1>7, <2>1, <2>2, <2>3
    <2>5. QED  BY <1>1, <1>7, <1>9, <2>1, <2>4 DEF NotOlder
<1>11. IsFiniteSet(Others(h)') /\ IsFiniteSet(NotOlder(h, r)')
    <2>1. Others(h)' \subseteq Used' /\ NotOlder(h, r)' \subseteq Used'
        BY DEF Others, NotOlder, Used
    <2>2. QED  BY <1>0, <2>1, FS_Subset
<1>12. /\ Cardinality(stay \cup {new}) <= Cardinality(Others(h)')
       /\ Cardinality(stay) <= Cardinality(NotOlder(h, r)')
       /\ Cardinality(Others(h)') \in Nat /\ Cardinality(NotOlder(h, r)') \in Nat
    BY <1>9, <1>10, <1>11, FS_Subset, FS_CardinalityType
<1>13. /\ Cardinality(Others(h)') >= MaxEntries
       /\ Cardinality(NotOlder(h, r)') >= MaxEntries - 1
    BY <1>0, <1>8, <1>12
<1>14. QED  BY <1>1, <1>7, <1>13 DEF Crowded

\* Initially there are no records and no uses.
LEMMA RecordsInit == Init => RecordsInv
<1> SUFFICES ASSUME Init PROVE RecordsInv
    OBVIOUS
<1>1. Typed
    BY DEF Init, Typed, Request, Header
<1>2. Known = {} /\ \A g : Uses(g) = {}
    BY DEF Init, Known, Uses
<1>3. Used = {}
    BY <1>2 DEF Used
<1>4. Cardinality(Known) <= MaxEntries /\ IsFiniteSet(Used)
    BY <1>2, <1>3, FS_EmptySet, LastUsedAssumption
<1>5. QED  BY <1>1, <1>2, <1>4 DEF RecordsInv, Traced, Bounded, LostForCause

\* One step keeps RecordsInv: what record() evicts is crowded out, and what was
\* gone before is so still.
LEMMA RecordsNext == ASSUME RecordsInv, [Next]_vars PROVE RecordsInv'
<1>1. Typed' /\ Traced' /\ Bounded'
    BY TypedNext, BoundedNext DEF RecordsInv
<1>2. ASSUME NEW h \in Hashes \ Known', Uses(h)' # {} PROVE Crowded(h)'
    <2>1. CASE h \in Known
        BY <1>1, <1>2, <2>1, EvictionCrowds
    <2>2. CASE h \notin Known
        <3>1. Uses(h) # {}
            <4>1. h \notin Used' \ Used
                <5>1. CASE Used' = Used
                    BY <5>1
                <5>2. ASSUME NEW r \in Requests, StoreRecord(r), Used' = Used \cup {rq[r].hash}
                      PROVE  h \notin Used' \ Used
                    BY <1>2, <5>2, StoreEffect DEF RecordsInv
                <5>3. QED  BY <5>1, <5>2, UsesGrow DEF RecordsInv
            <4>2. QED  BY <1>2, <4>1 DEF Used
        <3>2. Crowded(h)
            BY <2>2, <3>1 DEF RecordsInv, LostForCause
        <3>3. QED  BY <1>1, <3>2, CrowdStays
    <2>3. QED  BY <2>1, <2>2
<1>3. QED  BY <1>1, <1>2 DEF RecordsInv, LostForCause

\* The map never holds more than MAX_ENTRIES records, and record() takes one
\* away only for MAX_ENTRIES other bearers, MAX_ENTRIES - 1 of them used no
\* earlier, for every number of requests and bearers and every order in which
\* clock readings and the lock follow each other.
THEOREM RecordsKept == Spec => []RecordSurvives
<1>1. RecordsInv => RecordSurvives
    BY DEF RecordsInv, Bounded, LostForCause, Crowded, Others, NotOlder, Uses, RecordSurvives
<1>2. QED  BY <1>1, RecordsInit, RecordsNext, PTL DEF Spec

-----------------------------------------------------------------------------

\* parse_client_ip() finds the client in every header that passed as many
\* proxies as are trusted, whatever the client put in front; where none is
\* trusted it finds nothing.
LEMMA ClientFound ==
    ASSUME TrustedProxyHops \in {0, ProxyHops},
           NEW client \in Addresses, NEW xff \in Headers(client)
    PROVE  ParseClientIp(xff, TrustedProxyHops) = IF TrustedProxyHops = 0 THEN None ELSE client
<1>1. CASE TrustedProxyHops = 0
    BY <1>1 DEF ParseClientIp
<1>2. CASE TrustedProxyHops # 0
    <2>1. ProxyHops \in Nat \ {0} /\ TrustedProxyHops = ProxyHops
        BY <1>2, LastUsedAssumption
    <2>2. PICK claim \in UNION {[1 .. n -> Entries] : n \in 0 .. MaxClaimed},
                path \in [1 .. ProxyHops - 1 -> Addresses] :
              xff = claim \o <<client>> \o path
        <3> DEFINE claims == UNION {[1 .. n -> Entries] : n \in 0 .. MaxClaimed}
                   proxies == [1 .. ProxyHops - 1 -> Addresses]
        <3>1. Headers(client) = {claim \o <<client>> \o path : claim \in claims, path \in proxies}
            BY <2>1 DEF Headers
        <3> HIDE DEF claims, proxies
        <3>2. \E claim \in claims, path \in proxies : xff = claim \o <<client>> \o path
            BY <3>1
        <3>3. QED  BY <3>2 DEF claims, proxies
    <2>3. PICK n \in 0 .. MaxClaimed : claim \in [1 .. n -> Entries]
        BY <2>2
    <2>4. n \in Nat /\ claim \in Seq(Entries) /\ Len(claim) = n
        BY <2>3, LastUsedAssumption
    <2>5. path \in Seq(Entries) /\ Len(path) = ProxyHops - 1 /\ client \in Entries
        BY <2>1, <2>2 DEF Entries
    <2>6. /\ claim \o <<client>> \in Seq(Entries) /\ Len(claim \o <<client>>) = n + 1
          /\ (claim \o <<client>>)[n + 1] = client
        BY <2>4, <2>5
    <2>7. Len(xff) = n + ProxyHops /\ xff[n + 1] = client
        BY <2>1, <2>2, <2>4, <2>5, <2>6
    <2>8. Len(xff) - ProxyHops + 1 = n + 1 /\ ~ (Len(xff) < ProxyHops)
        BY <2>1, <2>4, <2>7
    <2>9. QED  BY <1>2, <2>1, <2>7, <2>8 DEF ParseClientIp
<1>3. QED  BY <1>1, <1>2

\* Entry e is what is recorded of some use of bearer h.
RecordOf(r) == [at |-> rq[r].at, ip |-> IF TrustedProxyHops = 0 THEN None ELSE rq[r].client]
IsReal(h, e) == \E q \in Uses(h) : e = RecordOf(q)

\* A request that has yet to be stored carries a header of its own client; a
\* record, and what was shown, is that of a stored use.
RealInv ==
    /\ Typed
    /\ \A r \in Requests : rq[r].pc = "stamped" =>
          rq[r].client \in Addresses /\ rq[r].xff \in Headers(rq[r].client)
    /\ \A h \in Known : IsReal(h, map[h])
    /\ \A r \in Requests : rq[r].pc = "shown" /\ rq[r].shown # None =>
          IsReal(rq[r].hash, rq[r].shown)

\* What is real stays so.
LEMMA RealStays ==
    ASSUME Typed, [Next]_vars, NEW h, NEW e, IsReal(h, e)
    PROVE  IsReal(h, e)'
<1>1. PICK q \in Uses(h) : e = RecordOf(q)
    BY DEF IsReal
<1>2. rq'[q] = rq[q]
    BY DEF Next, vars, Accept, StoreRecord, Introspect, Tick, Uses, Typed, Request
<1>3. q \in Uses(h)' /\ RecordOf(q)' = RecordOf(q)
    BY <1>2 DEF Uses, RecordOf
<1>4. QED  BY <1>1, <1>3 DEF IsReal

\* RealInv is inductive if the proxies that are trusted are those there are.
LEMMA RealNext ==
    ASSUME TrustedProxyHops \in {0, ProxyHops}, RealInv, [Next]_vars
    PROVE  RealInv'
<1>1. Typed /\ Typed'
    BY TypedNext DEF RealInv
<1>2. CASE UNCHANGED <<map, rq>>
    BY <1>1, <1>2 DEF RealInv, IsReal, Known, Uses, RecordOf
<1>3. ASSUME NEW i \in Requests, Accept(i) PROVE RealInv'
    <2>1. /\ \A r \in Requests \ {i} : rq'[r] = rq[r]
          /\ rq'[i].pc = "stamped" /\ rq'[i].client \in Addresses
          /\ rq'[i].xff \in Headers(rq'[i].client) /\ map' = map
        BY <1>1, <1>3 DEF Accept, Typed
    <2>2. ASSUME NEW h \in Known' PROVE IsReal(h, map[h])'
        BY <1>1, <2>1, RealStays DEF RealInv, Known
    <2>3. ASSUME NEW r \in Requests, rq'[r].pc = "shown", rq'[r].shown # None
          PROVE  IsReal(rq[r].hash, rq[r].shown)'
        <3>1. r # i /\ rq'[r] = rq[r]
            BY <2>1, <2>3
        <3>2. IsReal(rq[r].hash, rq[r].shown)
            BY <2>3, <3>1 DEF RealInv
        <3>3. PICK h, e : h = rq[r].hash /\ e = rq[r].shown
            OBVIOUS
        <3>4. IsReal(h, e)'
            BY <1>1, <3>2, <3>3, RealStays
        <3>5. QED  BY <3>1, <3>3, <3>4
    <2>4. QED  BY <1>1, <2>1, <2>2, <2>3 DEF RealInv
<1>4. ASSUME NEW i \in Requests, Introspect(i) PROVE RealInv'
    <2>1. /\ \A r \in Requests \ {i} : rq'[r] = rq[r]
          /\ rq'[i].pc = "shown" /\ rq'[i].hash \in Hashes
          /\ rq'[i].shown = map[rq'[i].hash] /\ map' = map
        <3>1. PICK h \in Hashes : rq' = [rq EXCEPT ![i] =
                  [rq[i] EXCEPT !.pc = "shown", !.hash = h, !.shown = map[h], !.at = now]]
            BY <1>1, <1>4 DEF Introspect, Typed
        <3>2. QED  BY <1>1, <1>4, <3>1 DEF Introspect, Typed, Request
    <2>2. ASSUME NEW h \in Known' PROVE IsReal(h, map[h])'
        BY <1>1, <2>1, RealStays DEF RealInv, Known
    <2>3. ASSUME NEW r \in Requests, rq'[r].pc = "shown", rq'[r].shown # None
          PROVE  IsReal(rq[r].hash, rq[r].shown)'
        <3>1. PICK h, e : h = rq'[r].hash /\ e = rq'[r].shown
            OBVIOUS
        <3>2. IsReal(h, e)
            <4>1. CASE r = i
                <5>1. h \in Known /\ e = map[h]
                    BY <2>1, <2>3, <3>1, <4>1 DEF Known
                <5>2. QED  BY <5>1 DEF RealInv
            <4>2. CASE r # i
                <5>1. rq'[r] = rq[r]
                    BY <2>1, <4>2
                <5>2. QED  BY <2>3, <3>1, <5>1 DEF RealInv
            <4>3. QED  BY <4>1, <4>2
        <3>3. IsReal(h, e)'
            BY <1>1, <3>2, RealStays
        <3>4. QED  BY <3>1, <3>3
    <2>4. \A r \in Requests : rq'[r].pc = "stamped" =>
              rq'[r].client \in Addresses /\ rq'[r].xff \in Headers(rq'[r].client)
        BY <2>1 DEF RealInv
    <2>5. QED  BY <1>1, <2>2, <2>3, <2>4 DEF RealInv
<1>5. ASSUME NEW i \in Requests, StoreRecord(i) PROVE RealInv'
    <2>1. PICK h : h = rq[i].hash
        OBVIOUS
    <2>2. /\ \A r \in Requests \ {i} : rq'[r] = rq[r]
          /\ rq'[i].pc = "recorded" /\ rq'[i].hash = h /\ rq'[i].at = rq[i].at
          /\ rq'[i].client = rq[i].client
          /\ rq[i].pc = "stamped" /\ h \in Hashes
        <3>1. rq[i] \in Request
            BY <1>1 DEF Typed
        <3>2. rq' = [rq EXCEPT ![i] = [rq[i] EXCEPT !.pc = "recorded", !.xff = <<>>]]
            BY <1>1, <1>5, <3>1 DEF StoreRecord, Typed
        <3>3. rq[i].pc = "stamped"
            BY <1>5 DEF StoreRecord
        <3>4. QED  BY <1>1, <2>1, <3>1, <3>2, <3>3 DEF Typed, Request
    <2>3. map'[h] = [at |-> rq[i].at, ip |-> ParseClientIp(rq[i].xff, TrustedProxyHops)]
        BY <1>5, <2>1, <2>2 DEF StoreRecord
    <2>4. ParseClientIp(rq[i].xff, TrustedProxyHops)
              = IF TrustedProxyHops = 0 THEN None ELSE rq[i].client
        BY <2>2, ClientFound DEF RealInv
    <2>5. IsReal(h, map[h])'
        <3>1. i \in Uses(h)'
            BY <2>2 DEF Uses
        <3>2. map'[h] = RecordOf(i)'
            BY <2>2, <2>3, <2>4 DEF RecordOf
        <3>3. QED  BY <3>1, <3>2 DEF IsReal
    <2>6. ASSUME NEW g \in Known' PROVE IsReal(g, map[g])'
        <3>1. CASE g = h
            BY <2>5, <3>1
        <3>2. CASE g # h
            <4>1. g \in Known /\ map'[g] = map[g]
                BY <1>1, <1>5, <2>1, <2>6, <3>2, StoreEffect DEF Known
            <4>2. PICK e : e = map[g]
                OBVIOUS
            <4>3. IsReal(g, e)
                BY <4>1, <4>2 DEF RealInv
            <4>4. IsReal(g, e)'
                BY <1>1, <4>3, RealStays
            <4>5. QED  BY <4>1, <4>2, <4>4
        <3>3. QED  BY <3>1, <3>2
    <2>7. ASSUME NEW r \in Requests, rq'[r].pc = "shown", rq'[r].shown # None
          PROVE  IsReal(rq[r].hash, rq[r].shown)'
        <3>1. PICK g, e : g = rq[r].hash /\ e = rq[r].shown
            OBVIOUS
        <3>2. rq'[r] = rq[r]
            BY <2>2, <2>7
        <3>3. IsReal(g, e)
            BY <2>7, <3>1, <3>2 DEF RealInv
        <3>4. IsReal(g, e)'
            BY <1>1, <3>3, RealStays
        <3>5. QED  BY <3>1, <3>2, <3>4
    <2>8. \A r \in Requests : rq'[r].pc = "stamped" =>
              rq'[r].client \in Addresses /\ rq'[r].xff \in Headers(rq'[r].client)
        BY <2>2 DEF RealInv
    <2>9. QED  BY <1>1, <2>6, <2>7, <2>8 DEF RealInv
<1>6. QED  BY <1>2, <1>3, <1>4, <1>5 DEF Next, Tick, vars

\* The address and time that /token/introspect shows are those of a real use of
\* that bearer, as the first proxy saw it, whatever header a client sends, if the
\* proxies that are trusted are those there are, or none.
THEOREM RealShown ==
    ASSUME TrustedProxyHops \in {0, ProxyHops}
    PROVE  Spec => []ShownIsReal
<1>1. Init => RealInv
    <2> SUFFICES ASSUME Init PROVE RealInv
        OBVIOUS
    <2>1. Typed
        BY RecordsInit DEF RecordsInv
    <2>2. QED  BY <2>1 DEF Init, RealInv, Known
<1>2. RealInv /\ [Next]_vars => RealInv'
    BY RealNext
<1>3. RealInv => ShownIsReal
    BY DEF RealInv, IsReal, RecordOf, Uses, ShownIsReal
<1>4. QED  BY <1>1, <1>2, <1>3, PTL DEF Spec
=============================================================================
