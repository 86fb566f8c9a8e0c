-------------------------- MODULE FromAddress_proof --------------------------
(***************************************************************************)
(* Proofs about the choice of the From address, for any number of          *)
(* addresses, identities, principals, aliases and declared addresses.      *)
(*                                                                         *)
(* The loops of owned_addresses() are replaced by their defining equations *)
(* (MergeSteps), and what they make of a list is found by a least          *)
(* counterexample (MergeForm): the identities come first and as listed, an *)
(* alias or declared address after them is no identity's.  Then what       *)
(* choose_from_address() answers is stated in terms of the set of owned    *)
(* addresses and that of the identities' (ChooseForm), which is where the  *)
(* order in which the server lists them disappears.                        *)
(***************************************************************************)
EXTENDS FromAddress, FiniteSetTheorems, SequenceTheorems, WellFoundedInduction, TLAPS

Options == Addresses \cup {None}
Lists == Seq(OwnedAddress)

\* Every non-empty set of naturals has a least element.
LEMMA LeastNatural ==
    ASSUME NEW S, S \subseteq Nat, S # {}
    PROVE  \E t \in S : \A u \in S : t <= u
<1> DEFINE Less == {ss \in Nat \X Nat : ss[1] < ss[2]}
<1>1. IsWellFoundedOn(Less, Nat)
    BY NatLessThanWellFounded DEF OpToRel
<1>2. PICK t \in S : \A u \in S : ~ (<<u, t>> \in Less)
    <2> HIDE DEF Less
    <2>1. QED  BY <1>1, WFMin
<1>3. ASSUME NEW u \in S PROVE t <= u
    <2>1. t \in Nat /\ u \in Nat /\ <<u, t>> \in Nat \X Nat
        OBVIOUS
    <2>2. ~ (u < t)
        BY <1>2, <2>1
    <2>3. QED  BY <2>1, <2>2
<1>4. QED  BY <1>3

\* A non-empty set of naturals with an upper bound has a greatest element, and
\* Max() is it.
LEMMA MaxIsGreatest ==
    ASSUME NEW n \in Nat, NEW S \in SUBSET (0..n), S # {}
    PROVE  Max(S) \in S /\ \A u \in S : u <= Max(S)
<1> DEFINE D == {n - u : u \in S}
<1>1. D \subseteq Nat /\ D # {}
    OBVIOUS
<1>2. PICK d \in D : \A e \in D : d <= e
    <2> HIDE DEF D
    <2>1. QED  BY <1>1, LeastNatural
<1>3. PICK t \in S : d = n - t
    BY <1>2
<1>4. ASSUME NEW u \in S PROVE t >= u
    <2>1. d <= n - u
        BY <1>2
    <2>2. t \in 0..n /\ u \in 0..n
        OBVIOUS
    <2>3. QED  BY <1>3, <2>1, <2>2
<1>5. Max(S) \in S /\ \A u \in S : Max(S) >= u
    BY <1>4 DEF Max
<1>6. QED
    <2>1. ASSUME NEW u \in S PROVE u <= Max(S)
        <3>1. u \in 0..n /\ Max(S) \in 0..n /\ Max(S) >= u
            BY <1>5
        <3>2. QED  BY <3>1
    <2>2. QED  BY <1>5, <2>1

\* F folds G over any set of indices up to n, from the lowest.
FoldsBy(F, n, T, base, G) ==
    /\ F \in [SUBSET (1..n) -> T]
    /\ \A s \in SUBSET (1..n) :
          F[s] = IF s = {} THEN base ELSE G[<<F[s \ {Max(s)}], Max(s)>>]

\* What a fold over the indices of a sequence is defined by has a solution.
LEMMA FoldSolution ==
    ASSUME NEW N \in Nat, NEW T, NEW base \in T, NEW G \in [T \X (1..N) -> T]
    PROVE  \E F : FoldsBy(F, N, T, base, G)
<1> USE DEF FoldsBy
<1> DEFINE Solves(F, k) == FoldsBy(F, k, T, base, G)
           Bad == {k \in 0..N : ~ \E F : Solves(F, k)}
<1>1. ASSUME Bad # {} PROVE FALSE
    <2>1. PICK k \in Bad : \A u \in Bad : k <= u
        <3>1. Bad \subseteq Nat
            OBVIOUS
        <3> HIDE DEF Bad
        <3>2. QED  BY <1>1, <3>1, LeastNatural
    <2>2. k \in 0..N /\ ~ \E F : Solves(F, k)
        OBVIOUS
    <2>3. CASE k = 0
        <3>1. Solves([s \in SUBSET (1..k) |-> base], k)
            BY <2>3
        <3> HIDE DEF Solves
        <3>2. QED  BY <2>2, <3>1
    <2>4. CASE k # 0
        <3>1. k - 1 \in 0..N /\ k \in 1..N
            BY <2>2, <2>4
        <3>2. PICK F : Solves(F, k - 1)
            <4>1. k - 1 \notin Bad
                <5>1. ASSUME k - 1 \in Bad PROVE FALSE
                    <6>1. k <= k - 1
                        <7> HIDE DEF Bad
                        <7>1. QED  BY <2>1, <5>1
                    <6>2. QED  BY <2>2, <6>1
                <5> HIDE DEF Bad
                <5>2. QED  BY <5>1
            <4> HIDE DEF Solves
            <4>2. QED  BY <3>1, <4>1
        <3>3. PICK H : H = [s \in SUBSET (1..k) |->
                               IF k \in s THEN G[<<F[s \ {k}], k>>] ELSE F[s]]
            OBVIOUS
        <3>4. \A s \in SUBSET (1..k) : k \notin s => s \in SUBSET (1..(k - 1))
            BY <3>1
        <3>5. \A s \in SUBSET (1..k) : s \ {k} \in SUBSET (1..(k - 1))
            BY <3>1
        <3>6. ASSUME NEW s \in SUBSET (1..k) PROVE H[s] \in T
            <4>1. CASE k \in s
                <5>1. F[s \ {k}] \in T
                    BY <3>2, <3>5
                <5>2. <<F[s \ {k}], k>> \in T \X (1..N)
                    BY <3>1, <5>1
                <5>3. QED  BY <3>3, <4>1, <5>2
            <4>2. CASE k \notin s
                BY <3>2, <3>3, <3>4, <4>2
            <4>3. QED  BY <4>1, <4>2
        <3>7. ASSUME NEW s \in SUBSET (1..k), s # {}
              PROVE  H[s] = G[<<H[s \ {Max(s)}], Max(s)>>]
            <4>1. s \in SUBSET (0..k) /\ k \in Nat
                BY <3>1
            <4>2. Max(s) \in s /\ \A u \in s : u <= Max(s)
                BY <3>7, <4>1, MaxIsGreatest
            <4>3. CASE k \in s
                <5>1. Max(s) = k
                    <6>1. Max(s) \in 1..k /\ k <= Max(s)
                        BY <4>2, <4>3
                    <6>2. QED  BY <4>1, <6>1
                <5>2. s \ {k} \in SUBSET (1..k) /\ H[s \ {k}] = F[s \ {k}]
                    BY <3>3
                <5>3. QED  BY <3>3, <4>3, <5>1, <5>2
            <4>4. CASE k \notin s
                <5>1. s \in SUBSET (1..(k - 1))
                    BY <3>4, <4>4
                <5>2. F[s] = G[<<F[s \ {Max(s)}], Max(s)>>]
                    BY <3>2, <3>7, <5>1
                <5>3. H[s] = F[s] /\ H[s \ {Max(s)}] = F[s \ {Max(s)}]
                    BY <3>3, <4>4
                <5>4. QED  BY <5>2, <5>3
            <4>5. QED  BY <4>3, <4>4
        <3>8. H[{}] = base
            <4>1. F[{}] = base /\ {} \in SUBSET (1..k)
                BY <3>2
            <4>2. QED  BY <3>3, <4>1
        <3>9. Solves(H, k)
            BY <3>3, <3>6, <3>7, <3>8
        <3> HIDE DEF Solves
        <3>10. QED  BY <2>2, <3>9
    <2>5. QED  BY <2>3, <2>4
<1>2. \E F : Solves(F, N)
    <2>1. N \notin Bad
        BY <1>1
    <2> HIDE DEF Solves
    <2>2. QED  BY <2>1
<1>3. QED  BY <1>2

\* One turn of the loop: what it appends is an owned address.
LEMMA PushType ==
    ASSUME NEW list \in Lists, NEW email \in Options
    PROVE  Push(list, email) \in Lists
<1>1. CASE email = None \/ \E i \in DOMAIN list : list[i].email = email
    BY <1>1 DEF Push
<1>2. CASE ~ (email = None \/ \E i \in DOMAIN list : list[i].email = email)
    <2>1. email \in Addresses
        BY <1>2 DEF Options
    <2>2. Owned(email, None) \in OwnedAddress
        BY <2>1 DEF Owned, OwnedAddress
    <2>3. QED  BY <1>2, <2>2 DEF Push, Lists
<1>3. QED  BY <1>1, <1>2

\* The loop of owned_addresses(), address by address.
LEMMA MergeSteps ==
    ASSUME NEW t \in Lists, NEW more \in Seq(Options)
    PROVE  \E h \in [0..Len(more) -> Lists] :
              /\ h[0] = t /\ h[Len(more)] = Merge(t, more)
              /\ \A k \in DOMAIN more : h[k] = Push(h[k - 1], more[k])
<1> DEFINE N == Len(more)
           Defines(f) == f = [s \in SUBSET (DOMAIN more) |->
                IF s = {} THEN t
                ELSE Push(f[s \ {Max(s)}], more[Max(s)])]
           iter == CHOOSE f : Defines(f)
<1>0. N \in Nat /\ DOMAIN more = 1..N
    OBVIOUS
<1>1. Merge(t, more) = iter[DOMAIN more]
    BY DEF Merge, FoldLeft, MapThenFoldSet
<1>2. \E f : Defines(f)
    <2>1. PICK G : G = [q \in Lists \X (1..N) |-> Push(q[1], more[q[2]])]
        OBVIOUS
    <2>2. G \in [Lists \X (1..N) -> Lists]
        <3>1. ASSUME NEW q \in Lists \X (1..N) PROVE G[q] \in Lists
            <4>1. q[1] \in Lists /\ more[q[2]] \in Options
                BY <1>0
            <4>2. QED  BY <2>1, <4>1, PushType
        <3>2. QED  BY <2>1, <3>1
    <2>3. PICK F : FoldsBy(F, N, Lists, t, G)
        <3>1. N \in Nat
            BY <1>0
        <3> HIDE DEF N
        <3>2. QED  BY <2>2, <3>1, FoldSolution
    <2> USE DEF FoldsBy
    <2>4. ASSUME NEW s \in SUBSET (1..N), s # {}
          PROVE  F[s] = Push(F[s \ {Max(s)}], more[Max(s)])
        <3>1. Max(s) \in 1..N
            <4>1. s \in SUBSET (0..N)
                BY <1>0
            <4>2. Max(s) \in s
                BY <1>0, <2>4, <4>1, MaxIsGreatest
            <4>3. QED  BY <4>2
        <3>2. <<F[s \ {Max(s)}], Max(s)>> \in Lists \X (1..N)
            BY <2>3, <3>1
        <3>3. QED  BY <2>1, <2>3, <2>4, <3>2
    <2>5. F[{}] = t
        BY <2>3
    <2>6. Defines(F)
        BY <1>0, <2>3, <2>4, <2>5
    <2> HIDE DEF Defines
    <2>7. QED  BY <2>6
<1>3. Defines(iter)
    <2> HIDE DEF Defines
    <2>1. QED  BY <1>2
<1> HIDE DEF iter
<1>4. ASSUME NEW k \in 1..N
      PROVE  iter[1..k] = Push(iter[1..(k - 1)], more[k])
    <2>1. (1..k) \in SUBSET (0..N) /\ 1..k # {} /\ (1..k) \in SUBSET (DOMAIN more)
        <3>1. N \in Nat /\ DOMAIN more = 1..N
            BY <1>0
        <3> HIDE DEF N
        <3>2. k \in 1..k /\ \A u \in 1..k : u \in 0..N /\ u \in 1..N
            BY <3>1
        <3>3. QED  BY <3>1, <3>2
    <2>2. Max(1..k) \in 1..k /\ \A u \in 1..k : u <= Max(1..k)
        BY <1>0, <2>1, MaxIsGreatest
    <2>3. k \in Nat /\ k <= Max(1..k)
        BY <1>0, <2>2
    <2>4. Max(1..k) = k
        BY <2>2, <2>3
    <2>5. (1..k) \ {k} = 1..(k - 1)
        BY <2>3
    <2>6. QED  BY <1>3, <2>1, <2>4, <2>5
<1>5. iter[{}] = t
    BY <1>3
<1>6. PICK h : h = [k \in 0..N |-> iter[1..k]]
    OBVIOUS
<1>7. \A k \in 1..N : k - 1 \in 0..N /\ h[k] = Push(h[k - 1], more[k])
    BY <1>0, <1>4, <1>6
<1>8. h[0] = t /\ h[N] = Merge(t, more)
    BY <1>0, <1>1, <1>5, <1>6
<1>9. ASSUME NEW k \in 0..N PROVE h[k] \in Lists
    <2> DEFINE W == {n \in 0..N : h[n] \notin Lists}
    <2>1. ASSUME W # {} PROVE FALSE
        <3>1. PICK n \in W : \A u \in W : n <= u
            <4>1. W \subseteq Nat
                BY <1>0
            <4> HIDE DEF W
            <4>2. QED  BY <2>1, <4>1, LeastNatural
        <3>2. n \in 1..N
            BY <1>0, <1>8, <3>1
        <3>3. n - 1 \notin W
            <4>1. n - 1 \in W => n <= n - 1
                BY <3>1
            <4> HIDE DEF W
            <4>2. QED  BY <3>2, <4>1
        <3>4. h[n - 1] \in Lists
            BY <1>7, <3>2, <3>3
        <3>5. more[n] \in Options
            BY <1>0, <3>2
        <3>6. h[n] \in Lists
            BY <1>7, <3>2, <3>4, <3>5, PushType
        <3>7. QED  BY <3>1, <3>6
    <2>2. QED  BY <2>1
<1>10. h \in [0..N -> Lists]
    BY <1>6, <1>9
<1>11. QED  BY <1>0, <1>7, <1>8, <1>10


EmailsOf(list) == {list[k].email : k \in 1..Len(list)}

\* What one list of addresses is when some have been merged into another.
Merged(list, emails, r) ==
    /\ r \in Lists /\ Len(list) <= Len(r)
    /\ \A k \in 1..Len(list) : r[k] = list[k]
    /\ \A k \in Len(list) + 1 .. Len(r) :
          r[k].identity = None /\ r[k].email \notin EmailsOf(list)
    /\ EmailsOf(r) = EmailsOf(list) \cup (emails \ {None})

\* One turn of the loop keeps what the list is.
LEMMA PushForm ==
    ASSUME NEW list \in Lists, NEW emails \in SUBSET Options, NEW r,
           Merged(list, emails, r), NEW e \in Options
    PROVE  Merged(list, emails \cup {e}, Push(r, e))
<1>0. r \in Lists /\ DOMAIN r = 1..Len(r) /\ Len(r) \in Nat /\ Len(list) \in Nat
    BY DEF Merged, Lists
<1>1. CASE e = None \/ \E i \in DOMAIN r : r[i].email = e
    <2>1. Push(r, e) = r
        BY <1>1 DEF Push
    <2>2. e = None \/ e \in EmailsOf(r)
        BY <1>0, <1>1 DEF EmailsOf
    <2>3. EmailsOf(r) = EmailsOf(list) \cup ((emails \cup {e}) \ {None})
        BY <2>2 DEF Merged
    <2>4. QED  BY <2>1, <2>3 DEF Merged
<1>2. CASE ~ (e = None \/ \E i \in DOMAIN r : r[i].email = e)
    <2>1. PICK q : q = Push(r, e)
        OBVIOUS
    <2>2. PICK o : o = Owned(e, None)
        OBVIOUS
    <2>3. o.email = e /\ o.identity = None /\ o \in OwnedAddress
        BY <1>2, <2>2 DEF Owned, OwnedAddress, Options
    <2>4. q = Append(r, o)
        BY <1>2, <2>1, <2>2 DEF Push
    <2>5. q \in Lists /\ Len(q) = Len(r) + 1 /\ q[Len(r) + 1] = o
          /\ \A k \in 1..Len(r) : q[k] = r[k]
        BY <1>0, <2>3, <2>4 DEF Lists
    <2>6. EmailsOf(q) = EmailsOf(r) \cup {e}
        <3>1. ASSUME NEW x \in EmailsOf(q) PROVE x \in EmailsOf(r) \cup {e}
            <4>1. PICK k \in 1..Len(q) : x = q[k].email
                BY DEF EmailsOf
            <4>2. CASE k = Len(r) + 1
                BY <2>3, <2>5, <4>1, <4>2
            <4>3. CASE k # Len(r) + 1
                <5>1. k \in 1..Len(r)
                    BY <1>0, <2>5, <4>3
                <5>2. QED  BY <2>5, <4>1, <5>1 DEF EmailsOf
            <4>4. QED  BY <4>2, <4>3
        <3>2. ASSUME NEW x \in EmailsOf(r) PROVE x \in EmailsOf(q)
            <4>1. PICK k \in 1..Len(r) : x = r[k].email
                BY DEF EmailsOf
            <4>2. k \in 1..Len(q) /\ x = q[k].email
                BY <1>0, <2>5, <4>1
            <4>3. QED  BY <4>2 DEF EmailsOf
        <3>3. e \in EmailsOf(q)
            <4>1. Len(r) + 1 \in 1..Len(q)
                BY <1>0, <2>5
            <4>2. QED  BY <2>3, <2>5, <4>1 DEF EmailsOf
        <3>4. QED  BY <3>1, <3>2, <3>3
    <2>7. e \notin EmailsOf(r)
        BY <1>0, <1>2 DEF EmailsOf
    <2>8. Len(list) <= Len(q) /\ \A k \in 1..Len(list) : q[k] = list[k]
        BY <1>0, <2>5 DEF Merged
    <2>9. ASSUME NEW k \in Len(list) + 1 .. Len(q)
          PROVE  q[k].identity = None /\ q[k].email \notin EmailsOf(list)
        <3>1. CASE k = Len(r) + 1
            <4>1. e \notin EmailsOf(list)
                BY <2>7 DEF Merged
            <4>2. QED  BY <2>3, <2>5, <3>1, <4>1
        <3>2. CASE k # Len(r) + 1
            <4>1. k \in Len(list) + 1 .. Len(r) /\ q[k] = r[k]
                BY <1>0, <2>5, <3>2
            <4>2. QED  BY <4>1 DEF Merged
        <3>3. QED  BY <3>1, <3>2
    <2>10. EmailsOf(q) = EmailsOf(list) \cup ((emails \cup {e}) \ {None})
        <3>1. EmailsOf(r) = EmailsOf(list) \cup (emails \ {None}) /\ e # None
            BY <1>2 DEF Merged
        <3>2. QED  BY <2>6, <3>1
    <2>11. QED  BY <2>1, <2>5, <2>8, <2>9, <2>10 DEF Merged
<1>3. QED  BY <1>1, <1>2

\* What the loop makes of a list: the list itself comes first, every address
\* is there, and what is appended has no identity and was not there before.
LEMMA MergeForm ==
    ASSUME NEW list \in Lists, NEW emails \in Seq(Options)
    PROVE  Merged(list, {emails[k] : k \in 1..Len(emails)}, Merge(list, emails))
<1>1. PICK h \in [0..Len(emails) -> Lists] :
          /\ h[0] = list /\ h[Len(emails)] = Merge(list, emails)
          /\ \A k \in DOMAIN emails : h[k] = Push(h[k - 1], emails[k])
    BY MergeSteps
<1>2. PICK N \in Nat : N = Len(emails) /\ DOMAIN emails = 1..N
    OBVIOUS
<1> DEFINE Upto(k) == {emails[m] : m \in 1..k}
           W == {k \in 0..N : ~ Merged(list, Upto(k), h[k])}
<1>3. ASSUME W # {} PROVE FALSE
    <2>1. PICK n \in W : \A u \in W : n <= u
        <3>1. W \subseteq Nat
            OBVIOUS
        <3> HIDE DEF W
        <3>2. QED  BY <1>3, <3>1, LeastNatural
    <2>2. n \in 0..N /\ ~ Merged(list, Upto(n), h[n])
        OBVIOUS
    <2>3. CASE n = 0
        <3>1. Upto(n) = {}
            BY <2>3
        <3>2. Len(list) \in Nat
            BY DEF Lists
        <3>3. Merged(list, {}, list)
            BY <3>2 DEF Merged
        <3>4. QED  BY <1>1, <2>2, <2>3, <3>1, <3>3
    <2>4. CASE n # 0
        <3>1. n \in 1..N /\ n - 1 \in 0..N
            BY <2>2, <2>4
        <3>2. n - 1 \notin W
            <4>1. n - 1 \in W => n <= n - 1
                BY <2>1
            <4> HIDE DEF W
            <4>2. QED  BY <3>1, <4>1
        <3>3. Merged(list, Upto(n - 1), h[n - 1])
            BY <3>1, <3>2
        <3>4. emails[n] \in Options /\ Upto(n - 1) \in SUBSET Options
            BY <1>2, <3>1
        <3>5. Upto(n) = Upto(n - 1) \cup {emails[n]}
            BY <3>1
        <3>6. PICK v : v = Upto(n - 1)
            OBVIOUS
        <3> HIDE DEF Upto
        <3>7. Merged(list, v \cup {emails[n]}, Push(h[n - 1], emails[n]))
            BY <3>3, <3>4, <3>6, PushForm
        <3>8. h[n] = Push(h[n - 1], emails[n])
            BY <1>1, <1>2, <3>1
        <3>9. QED  BY <2>2, <3>5, <3>6, <3>7, <3>8
    <2>5. QED  BY <2>3, <2>4
<1>4. Merged(list, Upto(N), h[N])
    <2>1. N \notin W
        BY <1>3
    <2> HIDE DEF Upto
    <2>2. QED  BY <2>1
<1>5. Upto(Len(emails)) = {emails[k] : k \in 1..Len(emails)}
    OBVIOUS
<1> HIDE DEF Upto
<1>6. QED  BY <1>1, <1>2, <1>4, <1>5

-----------------------------------------------------------------------------
(* The first element that fits                                             *)

\* Min() of a non-empty set of naturals is its least element.
LEMMA MinIsLeast ==
    ASSUME NEW S, S \subseteq Nat, S # {}
    PROVE  Min(S) \in S /\ \A u \in S : Min(S) <= u
<1>1. \E t \in S : \A u \in S : t <= u
    BY LeastNatural
<1>2. QED  BY <1>1 DEF Min

\* n is the first of the indices in S, or 0 where there is none.
First(S, n) ==
    \/ S = {} /\ n = 0
    \/ n \in S /\ n > 0 /\ \A m \in S : n <= m

\* What SelectInSeq() computes.
LEMMA FirstIs ==
    ASSUME NEW L \in Nat, NEW S \in SUBSET (1..L)
    PROVE  First(S, IF S # {} THEN Min(S) ELSE 0)
<1>1. CASE S = {}
    BY <1>1 DEF First
<1>2. CASE S # {}
    <2>0. S \subseteq Nat
        OBVIOUS
    <2>1. Min(S) \in S /\ \A u \in S : Min(S) <= u
        BY <1>2, <2>0, MinIsLeast
    <2>2. Min(S) > 0
        <3>1. Min(S) \in 1..L
            BY <2>1
        <3>2. QED  BY <3>1
    <2>3. QED  BY <1>2, <2>1, <2>2 DEF First
<1>3. QED  BY <1>1, <1>2

\* x is the element at the first of the indices in S, or None.
Hit(s, S, x) ==
    \/ S = {} /\ x = None
    \/ \E n \in S : x = s[n] /\ \A m \in S : n <= m

\* What FindFirst() computes from the indices that fit.
LEMMA HitIs ==
    ASSUME NEW s, NEW L \in Nat, NEW S \in SUBSET (1..L), NEW n,
           n = IF S # {} THEN Min(S) ELSE 0, NEW x,
           x = IF n = 0 THEN None ELSE s[n]
    PROVE  Hit(s, S, x)
<1>1. First(S, n)
    BY FirstIs
<1>2. CASE S = {} /\ n = 0
    BY <1>2 DEF Hit
<1>3. CASE n \in S /\ n > 0 /\ \A m \in S : n <= m
    <2>1. n \in 1..L
        BY <1>3
    <2>2. n # 0
        BY <2>1
    <2>3. x = s[n]
        BY <2>2
    <2>4. QED  BY <1>3, <2>3 DEF Hit
<1>4. QED  BY <1>1, <1>2, <1>3 DEF First

Where(list, want) == {k \in 1..Len(list) : list[k].email = want}

\* Find() returns the first record with the address.
LEMMA FindIs ==
    ASSUME NEW list \in Lists, NEW want
    PROVE  Hit(list, Where(list, want), Find(list, want))
<1>1. Len(list) \in Nat /\ Where(list, want) \in SUBSET (1..Len(list))
    BY DEF Lists, Where
<1>2. PICK n : n = IF Where(list, want) # {} THEN Min(Where(list, want)) ELSE 0
    OBVIOUS
<1>3. Find(list, want) = IF n = 0 THEN None ELSE list[n]
    BY <1>2 DEF Find, FindFirst, SelectInSeq, Where
<1>4. QED  BY <1>1, <1>2, <1>3, HitIs

\* The owned addresses are the identities and then others without one.
Extends(ids, o) ==
    /\ ids \in Seq([email: Addresses, identity: Ids]) /\ o \in Lists
    /\ Len(ids) <= Len(o)
    /\ \A k \in 1..Len(ids) : o[k] = ids[k]
    /\ \A k \in Len(ids) + 1 .. Len(o) :
          o[k].identity = None /\ o[k].email \notin EmailsOf(ids)

\* Lengths and elements of the two lists.
LEMMA ExtendsType ==
    ASSUME NEW ids, NEW o, Extends(ids, o)
    PROVE  /\ Len(ids) \in Nat /\ Len(o) \in Nat /\ DOMAIN ids = 1..Len(ids)
           /\ \A k \in 1..Len(ids) :
                 /\ k \in 1..Len(o) /\ o[k] = ids[k] /\ ids[k].email \in Addresses
                 /\ ids[k].identity \in Ids /\ ids[k].identity # None
           /\ \A k \in 1..Len(o) :
                 /\ o[k] \in OwnedAddress /\ o[k].email \in Addresses
                 /\ o[k] # None /\ o[k] # Refused
                 /\ o[k].identity # None => k \in 1..Len(ids)
<1>1. Len(ids) \in Nat /\ Len(o) \in Nat /\ DOMAIN ids = 1..Len(ids)
    BY DEF Extends, Lists
<1>2. ASSUME NEW k \in 1..Len(ids)
      PROVE  /\ k \in 1..Len(o) /\ o[k] = ids[k] /\ ids[k].email \in Addresses
             /\ ids[k].identity \in Ids /\ ids[k].identity # None
    <2>1. ids[k] \in [email: Addresses, identity: Ids]
        <3>1. PICK R : R = [email: Addresses, identity: Ids]
            OBVIOUS
        <3>2. ids \in Seq(R)
            BY <3>1 DEF Extends
        <3>3. ids[k] \in R
            BY <3>2
        <3>4. QED  BY <3>1, <3>3
    <2>2. k \in 1..Len(o) /\ o[k] = ids[k]
        BY <1>1 DEF Extends
    <2>3. QED  BY <2>1, <2>2, FromAssumption
<1>3. ASSUME NEW k \in 1..Len(o)
      PROVE  /\ o[k] \in OwnedAddress /\ o[k].email \in Addresses
             /\ o[k] # None /\ o[k] # Refused
             /\ o[k].identity # None => k \in 1..Len(ids)
    <2>1. o[k] \in OwnedAddress
        BY DEF Extends, Lists
    <2>2. k \in 1..Len(ids) \/ k \in Len(ids) + 1 .. Len(o)
        BY <1>1
    <2>3. o[k].identity # None => k \in 1..Len(ids)
        BY <2>2 DEF Extends
    <2>4. o[k].email \in Addresses
        BY <2>1 DEF OwnedAddress
    <2>5. QED  BY <2>1, <2>3, <2>4, FromAssumption
<1>4. QED  BY <1>1, <1>2, <1>3

\* What Find() returns from the owned addresses: a record with the address, its
\* first identity if it has one.
Found(ids, o, want, x) ==
    /\ x # None <=> want \in EmailsOf(o)
    /\ x # None =>
          /\ x \in OwnedAddress /\ x # Refused /\ x.email = want
          /\ x.identity # None <=> want \in EmailsOf(ids)
          /\ x.identity # None =>
                /\ x = Find(ids, want)
                /\ \E k \in 1..Len(ids) : ids[k] = x

\* Find() prefers the identities.
LEMMA FindForm ==
    ASSUME NEW ids, NEW o, Extends(ids, o), NEW want
    PROVE  Found(ids, o, want, Find(o, want))
<1> USE ExtendsType
<1>0. o \in Lists /\ ids \in Lists
    <2>1. [email: Addresses, identity: Ids] \subseteq OwnedAddress
        BY DEF OwnedAddress
    <2>2. QED  BY <2>1 DEF Extends, Lists
<1>1. PICK x : x = Find(o, want) /\ Hit(o, Where(o, want), x)
    BY <1>0, FindIs
<1>2. CASE Where(o, want) = {}
    <2>1. x = None
        BY <1>1, <1>2 DEF Hit
    <2>2. want \notin EmailsOf(o)
        BY <1>2 DEF EmailsOf, Where
    <2>3. QED  BY <1>1, <2>1, <2>2 DEF Found
<1>3. CASE Where(o, want) # {}
    <2>1. PICK n \in Where(o, want) : x = o[n] /\ \A m \in Where(o, want) : n <= m
        BY <1>1, <1>3 DEF Hit
    <2>2. n \in 1..Len(o) /\ x.email = want
        BY <2>1 DEF Where
    <2>3. x # None /\ x # Refused /\ x \in OwnedAddress /\ want \in EmailsOf(o)
        BY <2>1, <2>2 DEF EmailsOf
    <2>4. CASE n \in 1..Len(ids)
        <3>1. ids[n] = x /\ x.identity # None
            BY <2>1, <2>4
        <3>2. want \in EmailsOf(ids)
            BY <2>2, <2>4, <3>1 DEF EmailsOf
        <3>3. x = Find(ids, want)
            <4>1. PICK y : y = Find(ids, want) /\ Hit(ids, Where(ids, want), y)
                BY <1>0, FindIs
            <4>2. n \in Where(ids, want)
                BY <2>2, <2>4, <3>1 DEF Where
            <4>3. PICK m \in Where(ids, want) :
                      y = ids[m] /\ \A k \in Where(ids, want) : m <= k
                BY <4>1, <4>2 DEF Hit
            <4>4. m \in 1..Len(ids) /\ ids[m].email = want /\ m <= n
                BY <4>2, <4>3 DEF Where
            <4>5. m \in Where(o, want)
                BY <4>4 DEF Where
            <4>6. n <= m
                BY <2>1, <4>5
            <4>7. n = m
                BY <2>2, <4>4, <4>6
            <4>8. QED  BY <3>1, <4>1, <4>3, <4>7
        <3>4. QED  BY <1>1, <2>2, <2>3, <2>4, <3>1, <3>2, <3>3 DEF Found
    <2>5. CASE n \notin 1..Len(ids)
        <3>1. n \in Len(ids) + 1 .. Len(o)
            BY <2>2, <2>5
        <3>2. x.identity = None /\ want \notin EmailsOf(ids)
            BY <2>1, <2>2, <3>1 DEF Extends
        <3>3. QED  BY <1>1, <2>2, <2>3, <3>2 DEF Found
    <2>6. QED  BY <2>4, <2>5
<1>4. QED  BY <1>2, <1>3

\* What fallback_identity_id() returns.
Fallback(ids, claim, id) ==
    /\ id = None <=> claim \notin EmailsOf(ids) /\ EmailsOf(ids) \subseteq RoleAddresses
    /\ id # None =>
          \E k \in 1..Len(ids) :
              /\ ids[k].identity = id
              /\ ids[k].email = claim \/ ids[k].email \notin RoleAddresses

\* fallback_identity_id() returns the caller's identity or a personal one, and
\* one of them if there is one.
LEMMA FallbackForm ==
    ASSUME NEW ids, NEW o, Extends(ids, o), NEW i
    PROVE  Fallback(ids, i.claim, FallbackIdentityId(o, i))
<1> USE ExtendsType
<1>1. PICK c : c = i.claim
    OBVIOUS
<1>2. PICK M : M = {k \in 1..Len(o) : o[k].email = c /\ o[k].identity # None}
    OBVIOUS
<1>3. PICK P : P = {k \in 1..Len(o) : o[k].identity # None /\ ~ IsRoleAddress(o[k].email)}
    OBVIOUS
<1>4. PICK nm : nm = IF M # {} THEN Min(M) ELSE 0
    OBVIOUS
<1>5. PICK np : np = IF P # {} THEN Min(P) ELSE 0
    OBVIOUS
<1>6. PICK mine : mine = IF nm = 0 THEN None ELSE o[nm]
    OBVIOUS
<1>7. PICK personal : personal = IF np = 0 THEN None ELSE o[np]
    OBVIOUS
<1>8. FallbackIdentityId(o, i) = IF mine # None THEN mine.identity
                                 ELSE IF personal # None THEN personal.identity
                                 ELSE None
    BY <1>1, <1>2, <1>3, <1>4, <1>5, <1>6, <1>7
       DEF FallbackIdentityId, FindFirst, SelectInSeq
<1>9. Hit(o, M, mine) /\ Hit(o, P, personal)
    <2>1. Len(o) \in Nat
        OBVIOUS
    <2>2. M \in SUBSET (1..Len(o)) /\ P \in SUBSET (1..Len(o))
        BY <1>2, <1>3
    <2>3. QED  BY ONLY <2>1, <2>2, <1>4, <1>5, <1>6, <1>7, HitIs
<1>10. \A k \in M : /\ k \in 1..Len(ids) /\ o[k] = ids[k] /\ ids[k].email = c
                    /\ o[k] # None /\ o[k].identity # None
    BY <1>2
<1>11. \A k \in P : /\ k \in 1..Len(ids) /\ o[k] = ids[k]
                    /\ ids[k].email \notin RoleAddresses
                    /\ o[k] # None /\ o[k].identity # None
    BY <1>3 DEF IsRoleAddress
<1>12. CASE M # {}
    <2>1. PICK k \in M : mine = o[k]
        BY <1>9, <1>12 DEF Hit
    <2>2. FallbackIdentityId(o, i) = ids[k].identity /\ ids[k].identity # None
        BY <1>8, <1>10, <2>1
    <2>3. c \in EmailsOf(ids)
        BY <1>10, <2>1 DEF EmailsOf
    <2>4. QED  BY <1>1, <1>10, <2>1, <2>2, <2>3 DEF Fallback
<1>13. CASE M = {} /\ P # {}
    <2>1. PICK k \in P : personal = o[k]
        BY <1>9, <1>13 DEF Hit
    <2>2. mine = None
        BY <1>9, <1>13 DEF Hit
    <2>3. FallbackIdentityId(o, i) = ids[k].identity /\ ids[k].identity # None
        BY <1>8, <1>11, <2>1, <2>2
    <2>4. ~ (EmailsOf(ids) \subseteq RoleAddresses)
        BY <1>11, <2>1 DEF EmailsOf
    <2>5. QED  BY <1>1, <1>11, <2>1, <2>3, <2>4 DEF Fallback
<1>14. CASE M = {} /\ P = {}
    <2>1. mine = None /\ personal = None
        BY <1>9, <1>14 DEF Hit
    <2>2. FallbackIdentityId(o, i) = None
        BY <1>8, <2>1
    <2>3. \A k \in 1..Len(ids) : ids[k].email # c /\ ids[k].email \in RoleAddresses
        BY <1>2, <1>3, <1>14 DEF IsRoleAddress
    <2>4. c \notin EmailsOf(ids) /\ EmailsOf(ids) \subseteq RoleAddresses
        BY <2>3 DEF EmailsOf
    <2>5. QED  BY <1>1, <2>2, <2>4 DEF Fallback
<1>15. QED  BY <1>12, <1>13, <1>14

-----------------------------------------------------------------------------
(* choose_from_address() in terms of sets of addresses                     *)

\* The first preferred address that is personal, E being the owned ones.
FirstPreferred(E, preferred) ==
    LET S == {k \in 1..Len(preferred) : preferred[k] \in E \ RoleAddresses}
        n == IF S # {} THEN Min(S) ELSE 0
    IN IF n = 0 THEN None ELSE preferred[n]

DefaultWant(E, preferred, claim) ==
    IF FirstPreferred(E, preferred) # None THEN FirstPreferred(E, preferred)
    ELSE IF claim # None /\ claim \in E \ RoleAddresses THEN claim
    ELSE None

\* The address a message is to be sent from.
Wanted(E, explicit, preferred, claim) ==
    IF explicit # None
    THEN IF explicit \in E \ RoleAddresses THEN explicit ELSE None
    ELSE DefaultWant(E, preferred, claim)

\* The default is a personal owned address.
LEMMA DefaultForm ==
    ASSUME NEW ids, NEW o, Extends(ids, o), NEW i, i.preferred \in Seq(Addresses),
           NEW w, w = DefaultWant(EmailsOf(o), i.preferred, i.claim)
    PROVE  /\ DefaultFrom(o, i) = IF w = None THEN None ELSE Find(o, w)
           /\ w # None => w \in EmailsOf(o) \ RoleAddresses
<1>1. PICK E : E = EmailsOf(o)
    OBVIOUS
<1>2. \A x : Find(o, x) # None <=> x \in E
    BY <1>1, FindForm DEF Found
<1>3. PICK pref \in Seq(Addresses) : pref = i.preferred
    OBVIOUS
<1>4. PICK claim : claim = i.claim
    OBVIOUS
<1>5. PICK S : S = {k \in 1..Len(pref) : pref[k] \in E \ RoleAddresses}
    OBVIOUS
<1>6. {k \in 1..Len(pref) : Find(o, pref[k]) # None /\ ~ IsRoleAddress(pref[k])} = S
    BY <1>2, <1>5 DEF IsRoleAddress
<1>7. PICK n : n = IF S # {} THEN Min(S) ELSE 0
    OBVIOUS
<1>8. PICK wanted : wanted = IF n = 0 THEN None ELSE pref[n]
    OBVIOUS
<1>9. DefaultFrom(o, i) =
          IF wanted # None THEN Find(o, wanted)
          ELSE IF claim # None /\ Find(o, claim) # None /\ ~ IsRoleAddress(claim)
               THEN Find(o, claim)
          ELSE None
    BY <1>3, <1>4, <1>6, <1>7, <1>8 DEF DefaultFrom, FindFirst, SelectInSeq
<1>10. FirstPreferred(E, pref) = wanted
    BY <1>5, <1>7, <1>8 DEF FirstPreferred
<1>11. Hit(pref, S, wanted)
    <2>1. Len(pref) \in Nat /\ S \in SUBSET (1..Len(pref))
        BY <1>5
    <2>2. QED  BY ONLY <2>1, <1>7, <1>8, HitIs
<1>12. wanted # None => wanted \in E \ RoleAddresses
    BY <1>5, <1>11 DEF Hit
<1>13. w = IF wanted # None THEN wanted
           ELSE IF claim # None /\ claim \in E \ RoleAddresses THEN claim
           ELSE None
    BY <1>1, <1>3, <1>4, <1>10 DEF DefaultWant
<1>14. QED  BY <1>1, <1>2, <1>9, <1>12, <1>13 DEF IsRoleAddress

\* No message can be sent, from whatever address w.
Unsendable(ids, claim, w) ==
    \/ w = None
    \/ /\ w \notin EmailsOf(ids) /\ claim \notin EmailsOf(ids)
       /\ EmailsOf(ids) \subseteq RoleAddresses

\* What choose_from_address() answers, w being the wanted address.
Chosen(ids, claim, w, r) ==
    /\ r = Refused <=> Unsendable(ids, claim, w)
    /\ r # Refused =>
          /\ r.email = w
          /\ \E k \in 1..Len(ids) :
                /\ ids[k].identity = r.identity
                /\ \/ ids[k].email = w
                   \/ /\ w \notin EmailsOf(ids)
                      /\ ids[k].email = claim \/ ids[k].email \notin RoleAddresses

\* The address choose_from_address() answers depends on the set of owned
\* addresses, the set of the identities' and the request alone; it is a personal
\* owned address, submitted under a fitting identity.
LEMMA ChooseForm ==
    ASSUME NEW ids, NEW o, Extends(ids, o), NEW i, i.preferred \in Seq(Addresses),
           NEW w, w = Wanted(EmailsOf(o), i.explicit, i.preferred, i.claim)
    PROVE  /\ Chosen(ids, i.claim, w, ChooseFromAddress(o, i))
           /\ w # None => w \in EmailsOf(o) \ RoleAddresses
<1>1. PICK c : c = IF i.explicit # None THEN ExplicitFrom(o, i.explicit)
                                        ELSE DefaultFrom(o, i)
    OBVIOUS
<1>2. PICK f : f = FallbackIdentityId(o, i)
    OBVIOUS
<1>3. PICK id : id = IF c.identity # None THEN c.identity ELSE f
    OBVIOUS
<1>4. PICK r : r = ChooseFromAddress(o, i)
    OBVIOUS
<1>5. r = IF o = <<>> \/ c = None THEN Refused
          ELSE IF id = None THEN Refused
          ELSE Owned(c.email, id)
    BY <1>1, <1>2, <1>3, <1>4 DEF ChooseFromAddress
<1>6. \A x : Found(ids, o, x, Find(o, x))
    BY FindForm
<1>7. /\ c = IF w = None THEN None ELSE Find(o, w)
      /\ w # None => w \in EmailsOf(o) \ RoleAddresses
    <2>1. CASE i.explicit # None
        <3>1. w = IF i.explicit \in EmailsOf(o) \ RoleAddresses THEN i.explicit ELSE None
            BY <2>1 DEF Wanted
        <3>2. c = IF i.explicit \in RoleAddresses THEN None ELSE Find(o, i.explicit)
            BY <1>1, <2>1 DEF ExplicitFrom, IsRoleAddress
        <3>3. Find(o, i.explicit) # None <=> i.explicit \in EmailsOf(o)
            BY <1>6 DEF Found
        <3>4. QED  BY <2>1, <3>1, <3>2, <3>3
    <2>2. CASE i.explicit = None
        <3>1. w = DefaultWant(EmailsOf(o), i.preferred, i.claim) /\ c = DefaultFrom(o, i)
            BY <1>1, <2>2 DEF Wanted
        <3>2. QED  BY <3>1, DefaultForm
    <2>3. QED  BY <2>1, <2>2
<1>8. CASE w = None
    BY <1>4, <1>5, <1>7, <1>8 DEF Chosen, Unsendable
<1>9. CASE w # None
    <2>1. Found(ids, o, w, c)
        BY <1>6, <1>7, <1>9
    <2>2. w \in EmailsOf(o)
        BY <1>7, <1>9
    <2>3. c # None /\ c.email = w /\ c \in OwnedAddress
          /\ (c.identity # None <=> w \in EmailsOf(ids))
        BY <2>1, <2>2 DEF Found
    <2>4. o # <<>>
        <3>1. PICK k \in 1..Len(o) : TRUE
            BY <2>2 DEF EmailsOf
        <3>2. Len(o) \in Nat /\ Len(o) # 0
            BY <3>1, ExtendsType
        <3>3. QED  BY <3>2
    <2>5. r = IF id = None THEN Refused ELSE Owned(w, id)
        BY <1>5, <2>3, <2>4
    <2>6. Fallback(ids, i.claim, f)
        BY <1>2, FallbackForm
    <2>7. CASE c.identity # None
        <3>1. PICK k \in 1..Len(ids) : ids[k] = c
            BY <2>1, <2>3, <2>7 DEF Found
        <3>2. id = ids[k].identity /\ id # None /\ ids[k].email = w /\ id \in Ids
            BY <1>3, <2>3, <2>7, <3>1 DEF OwnedAddress
        <3>3. w \in EmailsOf(ids)
            BY <2>3, <2>7
        <3>4. r = Owned(w, id) /\ r.email = w /\ r.identity = id
            BY <2>5, <3>2 DEF Owned
        <3>5. r # Refused
            <4>1. r \in OwnedAddress
                BY <2>3, <3>2, <3>4 DEF Owned, OwnedAddress
            <4>2. QED  BY <4>1, FromAssumption
        <3>6. ~ Unsendable(ids, i.claim, w)
            BY <1>9, <3>3 DEF Unsendable
        <3>7. QED  BY <1>4, <1>7, <3>2, <3>4, <3>5, <3>6 DEF Chosen
    <2>8. CASE c.identity = None /\ f = None
        <3>1. id = None
            BY <1>3, <2>8
        <3>2. r = Refused
            BY <2>5, <3>1
        <3>3. Unsendable(ids, i.claim, w)
            BY <2>3, <2>6, <2>8 DEF Fallback, Unsendable
        <3>4. QED  BY <1>4, <1>7, <3>2, <3>3 DEF Chosen
    <2>9. CASE c.identity = None /\ f # None
        <3>1. id = f
            BY <1>3, <2>9
        <3>2. PICK k \in 1..Len(ids) :
                  /\ ids[k].identity = f
                  /\ ids[k].email = i.claim \/ ids[k].email \notin RoleAddresses
            BY <2>6, <2>9 DEF Fallback
        <3>3. r = Owned(w, f) /\ r.email = w /\ r.identity = f
            BY <2>5, <2>9, <3>1 DEF Owned
        <3>4. f \in Ids
            BY <3>2, ExtendsType
        <3>5. r # Refused
            <4>1. r \in OwnedAddress
                BY <2>3, <3>3, <3>4 DEF Owned, OwnedAddress
            <4>2. QED  BY <4>1, FromAssumption
        <3>6. w \notin EmailsOf(ids)
            BY <2>3, <2>9
        <3>7. ~ Unsendable(ids, i.claim, w)
            BY <1>9, <2>6, <2>9 DEF Fallback, Unsendable
        <3>8. QED  BY <1>4, <1>7, <3>2, <3>3, <3>5, <3>6, <3>7 DEF Chosen
    <2>10. QED  BY <2>7, <2>8, <2>9
<1>10. QED  BY <1>8, <1>9

-----------------------------------------------------------------------------
(* The addresses a caller owns                                             *)

\* The elements of a sequence are in the set it is over.
LEMMA ElementsOf ==
    ASSUME NEW R, NEW s \in Seq(R)
    PROVE  /\ Len(s) \in Nat /\ DOMAIN s = 1..Len(s)
           /\ \A k \in 1..Len(s) : s[k] \in R
OBVIOUS

Principal ==
    [names: SUBSET Addresses,
     aliases: Seq([email: Addresses, enabled: BOOLEAN, domainKnown: BOOLEAN])]

\* The parts of a request.
LEMMA InputType ==
    ASSUME NEW i \in Input
    PROVE  /\ i.identities \in Seq([email: Addresses, identity: Ids])
           /\ i.lookup \in {"ok", "unavailable", "failed"}
           /\ i.principals \in Seq(Principal)
           /\ i.declared \in Seq([owner: Addresses \cup {Malformed, None},
                                  email: Addresses \cup {Malformed}])
           /\ i.preferred \in Seq(Addresses)
           /\ i.explicit \in Options /\ i.claim \in Options
           /\ i.authenticatedAs \in Options
BY DEF Input, Principal, Options

\* The aliases of a principal.
LEMMA PrincipalType ==
    ASSUME NEW p \in Principal
    PROVE  /\ p.names \in SUBSET Addresses
           /\ Len(p.aliases) \in Nat /\ DOMAIN p.aliases = 1..Len(p.aliases)
           /\ \A k \in 1..Len(p.aliases) : p.aliases[k].email \in Addresses
<1>1. PICK R : R = [email: Addresses, enabled: BOOLEAN, domainKnown: BOOLEAN]
    OBVIOUS
<1>2. p.aliases \in Seq(R) /\ p.names \in SUBSET Addresses
    BY <1>1 DEF Principal
<1>3. \A k \in 1..Len(p.aliases) : p.aliases[k] \in R
    BY <1>2, ElementsOf
<1>4. \A x \in R : x.email \in Addresses
    BY <1>1
<1>5. QED  BY <1>2, <1>3, <1>4, ElementsOf

\* The indices of the principals that go by the caller's name, and the first.
Own(i) == {p \in 1..Len(i.principals) : i.claim \in i.principals[p].names}

\* x is an enabled alias of the caller's principal, of a known domain.
Alias(i, x) ==
    /\ i.claim # None /\ i.lookup # "unavailable"
    /\ \E p \in Own(i) :
          /\ \A q \in Own(i) : p <= q
          /\ \E k \in 1..Len(i.principals[p].aliases) :
                /\ i.principals[p].aliases[k].email = x
                /\ i.principals[p].aliases[k].enabled
                /\ i.principals[p].aliases[k].domainKnown

SetOf(s) == {s[k] : k \in 1..Len(s)}

\* What principal_aliases() returns.
LEMMA AliasForm ==
    ASSUME NEW i \in Input
    PROVE  /\ PrincipalAliases(i) \in Seq(Options)
           /\ \A x : x \in SetOf(PrincipalAliases(i)) \ {None} <=> Alias(i, x)
<1>1. PICK a : a = PrincipalAliases(i)
    OBVIOUS
<1>2. CASE i.claim = None \/ i.lookup = "unavailable"
    <2>1. a = <<>>
        BY <1>1, <1>2 DEF PrincipalAliases
    <2>2. \A x : ~ Alias(i, x)
        BY <1>2 DEF Alias
    <2>3. a \in Seq(Options) /\ SetOf(a) = {}
        BY <2>1 DEF SetOf
    <2>4. QED  BY <1>1, <2>2, <2>3
<1>3. CASE ~ (i.claim = None \/ i.lookup = "unavailable")
    <2>1. PICK ps \in Seq(Principal) : ps = i.principals
        BY InputType
    <2>2. Len(ps) \in Nat /\ \A p \in 1..Len(ps) : ps[p] \in Principal
        BY ElementsOf
    <2>3. PICK S : S = Own(i)
        OBVIOUS
    <2>4. S = {p \in 1..Len(ps) : PrincipalIs(ps[p], i.claim)}
        BY <2>1, <2>3 DEF Own, PrincipalIs
    <2>5. PICK n : n = IF S # {} THEN Min(S) ELSE 0
        OBVIOUS
    <2>6. a = IF n = 0 THEN <<>> ELSE AliasesOf(ps[n])
        BY <1>1, <1>3, <2>1, <2>4, <2>5 DEF PrincipalAliases, SelectInSeq
    <2>7. First(S, n)
        BY <2>2, <2>4, <2>5, FirstIs
    <2>8. CASE S = {}
        <3>1. a = <<>>
            BY <2>5, <2>6, <2>8
        <3>2. a \in Seq(Options) /\ SetOf(a) = {}
            BY <3>1 DEF SetOf
        <3>3. \A x : ~ Alias(i, x)
            BY <2>3, <2>8 DEF Alias
        <3>4. QED  BY <1>1, <3>2, <3>3
    <2>9. CASE S # {}
        <3>1. n \in S /\ n > 0 /\ \A m \in S : n <= m
            BY <2>7, <2>9 DEF First
        <3>2. n \in 1..Len(ps)
            BY <2>4, <3>1
        <3>3. PICK p \in Principal : p = ps[n]
            BY <2>2, <3>2
        <3>4. PICK L \in Nat : /\ L = Len(p.aliases) /\ DOMAIN p.aliases = 1..L
                               /\ \A k \in 1..L : p.aliases[k].email \in Addresses
            BY PrincipalType
        <3>5. a = [k \in 1..L |->
                      IF p.aliases[k].enabled /\ p.aliases[k].domainKnown
                      THEN p.aliases[k].email ELSE None]
            <4>1. n # 0
                BY <2>2, <3>2
            <4>2. QED  BY <2>6, <3>3, <3>4, <4>1 DEF AliasesOf
        <3>6. \A k \in 1..L : a[k] \in Options
            BY <3>4, <3>5 DEF Options
        <3>7. a \in Seq(Options) /\ Len(a) = L
            BY <3>5, <3>6
        <3>8. \A m \in S : (\A q \in S : m <= q) => m = n
            <4>1. S \subseteq Nat
                BY <2>4
            <4>2. QED  BY <3>1, <4>1
        <3>9. ASSUME NEW x, x \in SetOf(a) \ {None} PROVE Alias(i, x)
            <4>1. PICK k \in 1..L : x = a[k] /\ x # None
                BY <3>7, <3>9 DEF SetOf
            <4>2. /\ p.aliases[k].enabled /\ p.aliases[k].domainKnown
                  /\ p.aliases[k].email = x
                BY <3>5, <4>1
            <4>3. QED  BY <1>3, <2>1, <2>3, <3>1, <3>3, <3>4, <4>2 DEF Alias
        <3>10. ASSUME NEW x, Alias(i, x) PROVE x \in SetOf(a) \ {None}
            <4>1. PICK m \in S :
                     /\ \A q \in S : m <= q
                     /\ \E k \in 1..Len(ps[m].aliases) :
                           /\ ps[m].aliases[k].email = x /\ ps[m].aliases[k].enabled
                           /\ ps[m].aliases[k].domainKnown
                BY <2>1, <2>3, <3>10 DEF Alias
            <4>2. ps[m] = p
                BY <3>3, <3>8, <4>1
            <4>3. PICK k \in 1..L : /\ p.aliases[k].email = x /\ p.aliases[k].enabled
                                    /\ p.aliases[k].domainKnown
                BY <3>4, <4>1, <4>2
            <4>4. a[k] = x /\ x \in Addresses
                BY <3>4, <3>5, <4>3
            <4>5. QED  BY <3>7, <4>4, FromAssumption DEF SetOf
        <3>11. QED  BY <1>1, <3>7, <3>9, <3>10
    <2>10. QED  BY <2>8, <2>9
<1>4. QED  BY <1>2, <1>3

ExtrasOf(i) == ExtrasGrantedTo(i.authenticatedAs, ParseExtraFromAddresses(i.declared))

\* What extras_granted_to() returns: addresses declared for the authenticated
\* account.
LEMMA ExtrasForm ==
    ASSUME NEW i \in Input, ParseExtraFromAddresses(i.declared) # Refused
    PROVE  /\ ExtrasOf(i) \in Seq(Options)
           /\ \A x \in SetOf(ExtrasOf(i)) \ {None} :
                 /\ i.authenticatedAs # None
                 /\ \E k \in DOMAIN i.declared :
                       i.declared[k] = [owner |-> i.authenticatedAs, email |-> x]
<1>1. PICK R : R = [owner: Addresses \cup {Malformed, None}, email: Addresses \cup {Malformed}]
    OBVIOUS
<1>2. PICK d \in Seq(R) : d = i.declared
    BY <1>1, InputType
<1>3. PICK N \in Nat : N = Len(d) /\ DOMAIN d = 1..N /\ \A k \in 1..N : d[k] \in R
    BY ElementsOf
<1>4. PICK e : e = ParseExtraFromAddresses(d)
    OBVIOUS
<1>5. e = [k \in 1..N |->
              IF d[k].owner = None \/ \E j \in 1 .. k - 1 : d[j] = d[k]
              THEN None ELSE d[k]]
    BY <1>2, <1>3, <1>4 DEF ParseExtraFromAddresses
<1>6. \A k \in 1..N : d[k].email \in Addresses
    <2>1. \A k \in 1..N : ParseOneAddress(d[k].email) # Refused
        BY <1>2, <1>3 DEF ParseExtraFromAddresses
    <2>2. \A k \in 1..N : d[k].email # Malformed
        BY <2>1 DEF ParseOneAddress
    <2>3. \A x \in R : x.email \in Addresses \cup {Malformed}
        BY <1>1
    <2>4. QED  BY <1>3, <2>2, <2>3
<1>7. PICK u : u = i.authenticatedAs
    OBVIOUS
<1>8. PICK g : g = ExtrasOf(i)
    OBVIOUS
<1>9. CASE u = None
    <2>1. g = <<>>
        BY <1>7, <1>8, <1>9 DEF ExtrasOf, ExtrasGrantedTo
    <2>2. g \in Seq(Options) /\ SetOf(g) = {}
        BY <2>1 DEF SetOf
    <2>3. QED  BY <1>8, <2>2
<1>10. CASE u # None
    <2>1. g = [k \in 1..N |-> IF e[k] # None /\ ~ IsRoleAddress(e[k].email) /\ e[k].owner = u
                              THEN e[k].email ELSE None]
        <3>1. DOMAIN e = 1..N
            BY <1>5
        <3>2. QED
            BY <1>2, <1>4, <1>7, <1>8, <1>10, <3>1 DEF ExtrasOf, ExtrasGrantedTo
    <2>2. \A k \in 1..N : e[k] # None => e[k] = d[k]
        BY <1>5
    <2>3. \A k \in 1..N : g[k] \in Options
        BY <1>6, <2>1, <2>2 DEF Options
    <2>4. g \in Seq(Options) /\ Len(g) = N
        BY <2>1, <2>3
    <2>5. ASSUME NEW x \in SetOf(g) \ {None}
          PROVE  \E k \in DOMAIN i.declared : i.declared[k] = [owner |-> u, email |-> x]
        <3>1. PICK k \in 1..N : x = g[k] /\ x # None
            BY <2>4 DEF SetOf
        <3>2. x = d[k].email /\ u = d[k].owner
            BY <2>1, <2>2, <3>1
        <3>3. d[k] = [owner |-> d[k].owner, email |-> d[k].email]
            BY <1>1, <1>3
        <3>4. QED  BY <1>2, <1>3, <3>2, <3>3
    <2>6. QED  BY <1>7, <1>8, <1>10, <2>4, <2>5
<1>11. QED  BY <1>9, <1>10

\* What owned_addresses() returns: the identities, then without one the aliases
\* and the addresses declared for the caller that are no identity's.
LEMMA OwnedForm ==
    ASSUME NEW i \in Input, ParseExtraFromAddresses(i.declared) # Refused
    PROVE  /\ Extends(i.identities, OwnedAddresses(i))
           /\ EmailsOf(OwnedAddresses(i)) =
                 EmailsOf(i.identities) \cup (SetOf(PrincipalAliases(i)) \ {None})
                                        \cup (SetOf(ExtrasOf(i)) \ {None})
<1>1. PICK ids : ids = i.identities
    OBVIOUS
<1>2. ids \in Seq([email: Addresses, identity: Ids]) /\ ids \in Lists
    <2>1. [email: Addresses, identity: Ids] \subseteq OwnedAddress
        BY DEF OwnedAddress
    <2>2. ids \in Seq([email: Addresses, identity: Ids])
        BY <1>1, InputType
    <2>3. ids \in Lists
        <3>1. PICK R : R = [email: Addresses, identity: Ids]
            OBVIOUS
        <3>2. PICK T : T = OwnedAddress
            OBVIOUS
        <3>3. R \subseteq T /\ ids \in Seq(R)
            BY <2>1, <2>2, <3>1, <3>2
        <3>4. ids \in Seq(T)
            BY ONLY <3>3
        <3>5. QED  BY <3>2, <3>4 DEF Lists
    <2>4. QED  BY ONLY <2>2, <2>3
<1>3. PICK a \in Seq(Options) : a = PrincipalAliases(i)
    BY AliasForm
<1>4. PICK g \in Seq(Options) : g = ExtrasOf(i)
    BY ExtrasForm
<1>5. PICK r : r = Merge(ids, a)
    OBVIOUS
<1>6. PICK o : o = Merge(r, g)
    OBVIOUS
<1>7. OwnedAddresses(i) = o
    BY <1>1, <1>3, <1>4, <1>5, <1>6 DEF OwnedAddresses, ExtrasOf
<1>8. Merged(ids, SetOf(a), r)
    BY <1>2, <1>5, MergeForm DEF SetOf
<1>9. r \in Lists
    BY <1>8 DEF Merged
<1>10. Merged(r, SetOf(g), o)
    BY <1>6, <1>9, MergeForm DEF SetOf
<1>11. EmailsOf(o) = EmailsOf(ids) \cup (SetOf(a) \ {None}) \cup (SetOf(g) \ {None})
    BY <1>8, <1>10 DEF Merged
<1>12. Extends(ids, o)
    <2>1. Len(ids) \in Nat /\ Len(r) \in Nat /\ Len(o) \in Nat /\ o \in Lists
        BY <1>2, <1>8, <1>10 DEF Merged, Lists
    <2>2. Len(ids) <= Len(r) /\ Len(r) <= Len(o)
        BY <1>8, <1>10 DEF Merged
    <2>3. ASSUME NEW k \in 1..Len(ids) PROVE o[k] = ids[k]
        <3>1. k \in 1..Len(r)
            BY <2>1, <2>2
        <3>2. QED  BY <1>8, <1>10, <3>1 DEF Merged
    <2>4. ASSUME NEW k \in Len(ids) + 1 .. Len(o)
          PROVE  o[k].identity = None /\ o[k].email \notin EmailsOf(ids)
        <3>1. CASE k \in 1..Len(r)
            <4>1. k \in Len(ids) + 1 .. Len(r) /\ o[k] = r[k]
                BY <1>10, <2>1, <3>1 DEF Merged
            <4>2. QED  BY <1>8, <4>1 DEF Merged
        <3>2. CASE k \notin 1..Len(r)
            <4>1. k \in Len(r) + 1 .. Len(o)
                BY <2>1, <3>2
            <4>2. EmailsOf(ids) \subseteq EmailsOf(r)
                BY <1>8 DEF Merged
            <4>3. QED  BY <1>10, <4>1, <4>2 DEF Merged
        <3>3. QED  BY <3>1, <3>2
    <2>5. Len(ids) <= Len(o)
        BY <2>1, <2>2
    <2>6. QED  BY <1>2, <2>1, <2>3, <2>4, <2>5 DEF Extends
<1>13. QED  BY <1>1, <1>3, <1>4, <1>7, <1>11, <1>12

-----------------------------------------------------------------------------
(* Other orders                                                            *)

\* Another order of a sequence has the same elements: an injection of a finite
\* set into itself misses nothing.
LEMMA OrderForm ==
    ASSUME NEW R, NEW q \in Seq(R), NEW s \in Orders(q)
    PROVE  s \in Seq(R) /\ Len(s) = Len(q) /\ SetOf(s) = SetOf(q)
<1>1. PICK N \in Nat : N = Len(q) /\ DOMAIN q = 1..N /\ \A k \in 1..N : q[k] \in R
    BY ElementsOf
<1>2. PICK f \in [1..N -> 1..N] :
          /\ \A a, b \in 1..N : f[a] = f[b] => a = b
          /\ s = [k \in 1..N |-> q[f[k]]]
    <2>1. Orders(q) = {[k \in 1..N |-> q[f[k]]] :
                          f \in {g \in [1..N -> 1..N] :
                                    \A a, b \in 1..N : g[a] = g[b] => a = b}}
        BY <1>1 DEF Orders
    <2>2. PICK f \in {g \in [1..N -> 1..N] : \A a, b \in 1..N : g[a] = g[b] => a = b} :
              s = [k \in 1..N |-> q[f[k]]]
        BY <2>1
    <2>3. QED  BY <2>2
<1>3. s \in Seq(R) /\ Len(s) = N
    <2>1. \A k \in 1..N : s[k] \in R
        BY <1>1, <1>2
    <2>2. QED  BY <1>2, <2>1
<1>4. ASSUME NEW m \in 1..N PROVE \E k \in 1..N : f[k] = m
    <2>1. SUFFICES ASSUME \A k \in 1..N : f[k] # m PROVE FALSE
        OBVIOUS
    <2>2. f \in [1..N -> (1..N) \ {m}]
        BY <2>1
    <2>3. IsFiniteSet(1..N) /\ Cardinality(1..N) = N
        BY FS_Interval
    <2>4. IsFiniteSet((1..N) \ {m}) /\ Cardinality((1..N) \ {m}) = N - 1
        BY <2>3, FS_RemoveElement
    <2>5. Cardinality((1..N) \ {m}) < Cardinality(1..N)
        BY <2>3, <2>4
    <2>6. \E x, y \in 1..N : x # y /\ f[x] = f[y]
        BY <2>2, <2>3, <2>4, <2>5, FS_PigeonHole
    <2>7. QED  BY <1>2, <2>6
<1>5. ASSUME NEW x \in SetOf(s) PROVE x \in SetOf(q)
    <2>1. PICK k \in 1..N : x = s[k]
        BY <1>3 DEF SetOf
    <2>2. x = q[f[k]] /\ f[k] \in 1..N
        BY <1>2, <2>1
    <2>3. QED  BY <1>1, <2>2 DEF SetOf
<1>6. ASSUME NEW x \in SetOf(q) PROVE x \in SetOf(s)
    <2>1. PICK m \in 1..N : x = q[m]
        BY <1>1 DEF SetOf
    <2>2. PICK k \in 1..N : f[k] = m
        BY <1>4
    <2>3. x = s[k]
        BY <1>2, <2>1, <2>2
    <2>4. QED  BY <1>3, <2>3 DEF SetOf
<1>7. QED  BY <1>1, <1>3, <1>5, <1>6

\* The addresses in a list are those of its elements.
LEMMA EmailsOfSet ==
    ASSUME NEW list
    PROVE  EmailsOf(list) = {x.email : x \in SetOf(list)}
BY DEF EmailsOf, SetOf

\* A sequence and its reverse.
LEMMA ReverseForm ==
    ASSUME NEW R, NEW q \in Seq(R)
    PROVE  /\ Reverse(q) \in Seq(R) /\ Len(Reverse(q)) = Len(q)
           /\ \A k \in 1..Len(q) :
                 /\ Len(q) - k + 1 \in 1..Len(q)
                 /\ Reverse(q)[k] = q[Len(q) - k + 1]
                 /\ Reverse(q)[Len(q) - k + 1] = q[k]
<1>1. PICK N \in Nat : N = Len(q) /\ \A k \in 1..N : q[k] \in R
    BY ElementsOf
<1>2. PICK r : r = Reverse(q)
    OBVIOUS
<1>3. r = [k \in 1..N |-> q[(N - k) + 1]]
    BY <1>1, <1>2 DEF Reverse
<1>4. \A k \in 1..N : N - k + 1 \in 1..N /\ N - (N - k + 1) + 1 = k
    OBVIOUS
<1>5. \A k \in 1..N : r[k] = q[N - k + 1] /\ r[N - k + 1] = q[k] /\ r[k] \in R
    BY <1>1, <1>3, <1>4
<1>6. r \in Seq(R) /\ Len(r) = N
    BY <1>3, <1>5
<1>7. QED  BY <1>1, <1>2, <1>4, <1>5, <1>6

\* The request with the identities in the order s and all aliases reversed.
Reordered(i, s) ==
    [i EXCEPT !.identities = s,
              !.principals = [p \in DOMAIN i.principals |->
                  [i.principals[p] EXCEPT !.aliases = Reverse(@)]]]

\* j is i with its lists in other orders.
SameButOrder(i, j) ==
    /\ j \in Input
    /\ j.lookup = i.lookup /\ j.declared = i.declared /\ j.explicit = i.explicit
    /\ j.preferred = i.preferred /\ j.claim = i.claim
    /\ j.authenticatedAs = i.authenticatedAs
    /\ EmailsOf(j.identities) = EmailsOf(i.identities)
    /\ \A x : Alias(j, x) <=> Alias(i, x)

\* Reordering the lists leaves the sets as they are.
LEMMA ReorderedForm ==
    ASSUME NEW i \in Input, NEW s \in Orders(i.identities)
    PROVE  SameButOrder(i, Reordered(i, s))
<1>1. PICK j : j = Reordered(i, s)
    OBVIOUS
<1>2. PICK IR : IR = [email: Addresses, identity: Ids]
    OBVIOUS
<1>3. PICK AR : AR = [email: Addresses, enabled: BOOLEAN, domainKnown: BOOLEAN]
    OBVIOUS
<1>4. PICK ps \in Seq(Principal) : ps = i.principals
    BY InputType
<1>5. PICK N \in Nat : N = Len(ps) /\ DOMAIN ps = 1..N /\ \A p \in 1..N : ps[p] \in Principal
    BY ElementsOf
<1>6. PICK qs : qs = [p \in 1..N |-> [ps[p] EXCEPT !.aliases = Reverse(@)]]
    OBVIOUS
<1>7. /\ j.lookup = i.lookup /\ j.declared = i.declared /\ j.explicit = i.explicit
      /\ j.preferred = i.preferred /\ j.claim = i.claim
      /\ j.authenticatedAs = i.authenticatedAs
      /\ j.identities = s /\ j.principals = qs
    BY <1>1, <1>4, <1>5, <1>6 DEF Reordered, Input
<1>8. ASSUME NEW p \in 1..N
      PROVE  /\ ps[p].aliases \in Seq(AR)
             /\ qs[p] \in Principal /\ qs[p].names = ps[p].names
             /\ qs[p].aliases = Reverse(ps[p].aliases)
    <2>1. PICK a : a = ps[p].aliases
        OBVIOUS
    <2>2. a \in Seq(AR)
        BY <1>3, <1>5, <2>1 DEF Principal
    <2>3. PICK b : b = Reverse(a)
        OBVIOUS
    <2>4. b \in Seq(AR)
        BY <2>2, <2>3, ReverseForm
    <2>5. qs[p] = [ps[p] EXCEPT !.aliases = b]
        BY <1>6, <2>1, <2>3
    <2>6. ps[p] \in [names: SUBSET Addresses, aliases: Seq(AR)]
        BY <1>3, <1>5 DEF Principal
    <2>7. PICK A : A = Seq(AR)
        OBVIOUS
    <2>8. /\ qs[p] \in [names: SUBSET Addresses, aliases: A]
          /\ qs[p].names = ps[p].names /\ qs[p].aliases = b
        BY ONLY <2>4, <2>5, <2>6, <2>7
    <2>9. QED  BY <1>3, <2>1, <2>2, <2>3, <2>7, <2>8 DEF Principal
<1>9. qs \in Seq(Principal) /\ Len(qs) = N
    BY <1>6, <1>8
<1>10. s \in Seq(IR) /\ SetOf(s) = SetOf(i.identities)
    <2>1. i.identities \in Seq(IR)
        BY <1>2, InputType
    <2>2. QED  BY <2>1, OrderForm
<1>11. EmailsOf(j.identities) = EmailsOf(i.identities)
    BY <1>7, <1>10, EmailsOfSet
<1>12. j \in Input
    <2>1. PICK I : I = Seq(IR)
        OBVIOUS
    <2>2. PICK P : P = Seq(Principal)
        OBVIOUS
    <2>3. PICK D : D = Seq([owner: Addresses \cup {Malformed, None},
                            email: Addresses \cup {Malformed}])
        OBVIOUS
    <2>4. PICK L : L = {"ok", "unavailable", "failed"}
        OBVIOUS
    <2>5. PICK F : F = Seq(Addresses)
        OBVIOUS
    <2>6. Input = [identities: I, lookup: L, principals: P, declared: D,
                   explicit: Addresses \cup {None}, preferred: F,
                   claim: Addresses \cup {None},
                   authenticatedAs: Addresses \cup {None}]
        BY <1>2, <2>1, <2>2, <2>3, <2>4, <2>5 DEF Input, Principal
    <2>7. j = [i EXCEPT !.identities = s, !.principals = qs]
        BY <1>1, <1>4, <1>5, <1>6 DEF Reordered
    <2>8. s \in I /\ qs \in P
        BY <1>9, <1>10, <2>1, <2>2
    <2>9. i \in Input
        OBVIOUS
    <2>10. QED  BY ONLY <2>6, <2>7, <2>8, <2>9
<1>13. Own(j) = Own(i)
    BY <1>4, <1>5, <1>7, <1>8, <1>9 DEF Own
<1>14. \A p \in Own(i) : p \in 1..N
    BY <1>4, <1>5 DEF Own
<1>15. ASSUME NEW p \in 1..N, NEW x
       PROVE  (\E k \in 1..Len(qs[p].aliases) :
                  /\ qs[p].aliases[k].email = x /\ qs[p].aliases[k].enabled
                  /\ qs[p].aliases[k].domainKnown)
              <=> (\E k \in 1..Len(ps[p].aliases) :
                  /\ ps[p].aliases[k].email = x /\ ps[p].aliases[k].enabled
                  /\ ps[p].aliases[k].domainKnown)
    <2>1. PICK a \in Seq(AR) : a = ps[p].aliases
        BY <1>8
    <2>2. PICK b : b = qs[p].aliases /\ b = Reverse(a)
        BY <1>8, <2>1
    <2>3. PICK M : M = Len(a) /\ M = Len(b)
        BY <2>2, ReverseForm
    <2>4. \A k \in 1..M : M - k + 1 \in 1..M /\ b[k] = a[M - k + 1] /\ b[M - k + 1] = a[k]
        BY <2>2, <2>3, ReverseForm
    <2>5. (\E k \in 1..M : b[k].email = x /\ b[k].enabled /\ b[k].domainKnown)
          <=> (\E k \in 1..M : a[k].email = x /\ a[k].enabled /\ a[k].domainKnown)
        BY ONLY <2>4
    <2>6. QED  BY <2>1, <2>2, <2>3, <2>5
<1>16. ASSUME NEW x PROVE Alias(j, x) <=> Alias(i, x)
    <2>1. PICK S : S = Own(i) /\ S = Own(j) /\ \A p \in S : p \in 1..N
        BY <1>13, <1>14
    <2>2. PICK Q : Q = [p \in 1..N |->
                          \E k \in 1..Len(qs[p].aliases) :
                              /\ qs[p].aliases[k].email = x /\ qs[p].aliases[k].enabled
                              /\ qs[p].aliases[k].domainKnown]
        OBVIOUS
    <2>3. \A p \in S : Q[p] <=> \E k \in 1..Len(qs[p].aliases) :
                              /\ qs[p].aliases[k].email = x /\ qs[p].aliases[k].enabled
                              /\ qs[p].aliases[k].domainKnown
        BY <2>1, <2>2
    <2>4. \A p \in S : Q[p] <=> \E k \in 1..Len(ps[p].aliases) :
                              /\ ps[p].aliases[k].email = x /\ ps[p].aliases[k].enabled
                              /\ ps[p].aliases[k].domainKnown
        <3>1. ASSUME NEW p \in S
              PROVE  Q[p] <=> \E k \in 1..Len(ps[p].aliases) :
                              /\ ps[p].aliases[k].email = x /\ ps[p].aliases[k].enabled
                              /\ ps[p].aliases[k].domainKnown
            <4>1. p \in 1..N
                BY <2>1
            <4>2. (\E k \in 1..Len(qs[p].aliases) :
                      /\ qs[p].aliases[k].email = x /\ qs[p].aliases[k].enabled
                      /\ qs[p].aliases[k].domainKnown)
                  <=> (\E k \in 1..Len(ps[p].aliases) :
                      /\ ps[p].aliases[k].email = x /\ ps[p].aliases[k].enabled
                      /\ ps[p].aliases[k].domainKnown)
                BY ONLY <1>15, <4>1
            <4>3. QED  BY ONLY <2>3, <4>2
        <3>2. QED  BY ONLY <3>1
    <2>5. Alias(j, x) <=> /\ j.claim # None /\ j.lookup # "unavailable"
                          /\ \E p \in S : (\A q \in S : p <= q) /\ Q[p]
        BY <1>7, <2>1, <2>3 DEF Alias
    <2>6. Alias(i, x) <=> /\ i.claim # None /\ i.lookup # "unavailable"
                          /\ \E p \in S : (\A q \in S : p <= q) /\ Q[p]
        BY <1>4, <2>1, <2>4 DEF Alias
    <2>7. QED  BY ONLY <1>7, <2>5, <2>6
<1>17. QED  BY <1>1, <1>7, <1>11, <1>12, <1>16 DEF SameButOrder

\* The address chosen depends on the sets alone.
LEMMA SameAddress ==
    ASSUME NEW i \in Input, NEW j, SameButOrder(i, j),
           ParseExtraFromAddresses(i.declared) # Refused
    PROVE  EmailOf(ChooseFromAddress(OwnedAddresses(j), j))
           = EmailOf(ChooseFromAddress(OwnedAddresses(i), i))
<1>1. j \in Input /\ ParseExtraFromAddresses(j.declared) # Refused
    BY DEF SameButOrder
<1>2. PICK o : o = OwnedAddresses(i)
    OBVIOUS
<1>3. PICK q : q = OwnedAddresses(j)
    OBVIOUS
<1>4. Extends(i.identities, o) /\ Extends(j.identities, q)
    BY <1>1, <1>2, <1>3, OwnedForm
<1>5. SetOf(PrincipalAliases(j)) \ {None} = SetOf(PrincipalAliases(i)) \ {None}
    <2>1. PICK a : a = SetOf(PrincipalAliases(i)) \ {None}
        OBVIOUS
    <2>2. PICK b : b = SetOf(PrincipalAliases(j)) \ {None}
        OBVIOUS
    <2>3. \A x : x \in a <=> Alias(i, x)
        BY <2>1, AliasForm
    <2>4. \A x : x \in b <=> Alias(j, x)
        BY <1>1, <2>2, AliasForm
    <2>5. \A x : x \in a <=> x \in b
        BY <2>3, <2>4 DEF SameButOrder
    <2>6. QED  BY ONLY <2>1, <2>2, <2>5
<1>6. ExtrasOf(j) = ExtrasOf(i)
    BY DEF ExtrasOf, SameButOrder
<1>7. EmailsOf(q) = EmailsOf(o)
    <2>1. EmailsOf(o) = EmailsOf(i.identities) \cup (SetOf(PrincipalAliases(i)) \ {None})
                                               \cup (SetOf(ExtrasOf(i)) \ {None})
        BY <1>2, OwnedForm
    <2>2. EmailsOf(q) = EmailsOf(j.identities) \cup (SetOf(PrincipalAliases(j)) \ {None})
                                               \cup (SetOf(ExtrasOf(j)) \ {None})
        BY <1>1, <1>3, OwnedForm
    <2>3. EmailsOf(j.identities) = EmailsOf(i.identities)
        BY DEF SameButOrder
    <2>4. QED  BY ONLY <2>1, <2>2, <2>3, <1>5, <1>6
<1>8. PICK w : w = Wanted(EmailsOf(o), i.explicit, i.preferred, i.claim)
    OBVIOUS
<1>9. w = Wanted(EmailsOf(q), j.explicit, j.preferred, j.claim)
    BY <1>7, <1>8 DEF SameButOrder
<1>10. i.preferred \in Seq(Addresses) /\ j.preferred \in Seq(Addresses)
    BY <1>1, InputType
<1>11. Chosen(i.identities, i.claim, w, ChooseFromAddress(o, i))
    BY <1>4, <1>8, <1>10, ChooseForm
<1>12. Chosen(j.identities, j.claim, w, ChooseFromAddress(q, j))
    BY <1>4, <1>9, <1>10, ChooseForm
<1>13. Unsendable(i.identities, i.claim, w) <=> Unsendable(j.identities, j.claim, w)
    BY DEF Unsendable, SameButOrder
<1>14. QED  BY <1>2, <1>3, <1>11, <1>12, <1>13 DEF Chosen, EmailOf

-----------------------------------------------------------------------------
(* The invariant                                                           *)

Offered(i) ==
    LET owned == OwnedAddresses(i) IN
    {[email |-> owned[k].email, identity |-> owned[k].identity,
      role |-> IsRoleAddress(owned[k].email)] : k \in DOMAIN owned}

Shown(i) ==
    SelectProfileIdentity(i.identities,
                          IF i.claim # None THEN i.claim ELSE i.authenticatedAs)

Unless(i, answer) == IF i.lookup = "failed" THEN Refused ELSE answer

\* The server started, so what the operator declared is well-formed, and an
\* answer is what the tool computes from the request.
FromInv ==
    /\ in \in Input /\ ParseExtraFromAddresses(in.declared) # Refused
    /\ tool = "resolve" => out = Unless(in, ChooseFromAddress(OwnedAddresses(in), in))
    /\ tool = "get_identities" => out = Unless(in, Offered(in))
    /\ tool = "get_profile" => out = Unless(in, Shown(in))

\* FromInv is an invariant.
LEMMA FromInvariant == Spec => []FromInv
<1>1. Init => FromInv
    <2>1. SUFFICES ASSUME Init PROVE FromInv
        OBVIOUS
    <2>2. in \in Inputs /\ ParseExtraFromAddresses(in.declared) # Refused
        BY <2>1 DEF Init
    <2>3. tool # "resolve" /\ tool # "get_identities" /\ tool # "get_profile"
        BY <2>1, FromAssumption DEF Init
    <2>4. QED  BY <2>2, <2>3, FromAssumption DEF FromInv
<1>2. FromInv /\ [Next]_vars => FromInv'
    <2>1. SUFFICES ASSUME FromInv, [Next]_vars PROVE FromInv'
        OBVIOUS
    <2>2. in' = in
        BY <2>1 DEF Next, Resolve, GetIdentities, GetProfile, Answer, vars
    <2>3. in' \in Input /\ ParseExtraFromAddresses(in'.declared) # Refused
        BY <2>1, <2>2 DEF FromInv
    <2>4. CASE Resolve
        <3>1. tool' = "resolve"
              /\ out' = Unless(in', ChooseFromAddress(OwnedAddresses(in'), in'))
            BY <2>2, <2>4 DEF Resolve, Answer, Unless
        <3>2. tool' # "get_identities" /\ tool' # "get_profile"
            BY <3>1
        <3>3. QED  BY <2>3, <3>1, <3>2 DEF FromInv
    <2>5. CASE GetIdentities
        <3>1. tool' = "get_identities" /\ out' = Unless(in', Offered(in'))
            BY <2>2, <2>5 DEF GetIdentities, Answer, Unless, Offered
        <3>2. tool' # "resolve" /\ tool' # "get_profile"
            BY <3>1
        <3>3. QED  BY <2>3, <3>1, <3>2 DEF FromInv
    <2>6. CASE GetProfile
        <3>1. tool' = "get_profile" /\ out' = Unless(in', Shown(in'))
            BY <2>2, <2>6 DEF GetProfile, Answer, Unless, Shown
        <3>2. tool' # "resolve" /\ tool' # "get_identities"
            BY <3>1
        <3>3. QED  BY <2>3, <3>1, <3>2 DEF FromInv
    <2>7. CASE UNCHANGED vars
        BY <2>1, <2>7 DEF FromInv, vars
    <2>8. QED  BY <2>1, <2>4, <2>5, <2>6, <2>7 DEF Next
<1>3. QED  BY <1>1, <1>2, PTL DEF Spec

\* What the code takes for an owned address somebody gave to the caller.
LEMMA OwnedIsEntitled ==
    ASSUME FromInv, in.lookup # "failed", NEW x \in EmailsOf(OwnedAddresses(in))
    PROVE  Entitled(x)
<1>1. in \in Input /\ ParseExtraFromAddresses(in.declared) # Refused
    BY DEF FromInv
<1>2. \/ x \in EmailsOf(in.identities)
      \/ x \in SetOf(PrincipalAliases(in)) \ {None}
      \/ x \in SetOf(ExtrasOf(in)) \ {None}
    BY <1>1, OwnedForm
<1>3. CASE x \in EmailsOf(in.identities)
    <2>1. DOMAIN in.identities = 1..Len(in.identities)
        BY <1>1, OwnedForm, ExtendsType
    <2>2. QED  BY <1>3, <2>1 DEF EmailsOf, Entitled
<1>4. CASE x \in SetOf(PrincipalAliases(in)) \ {None}
    <2>1. Alias(in, x)
        BY <1>1, <1>4, AliasForm
    <2>2. PICK ps \in Seq(Principal) : ps = in.principals
        BY <1>1, InputType
    <2>3. DOMAIN ps = 1..Len(ps) /\ \A p \in 1..Len(ps) : ps[p] \in Principal
        BY ElementsOf
    <2>4. in.lookup = "ok"
        BY <1>1, <2>1, InputType DEF Alias
    <2>5. PICK p \in 1..Len(ps) :
              /\ in.claim \in ps[p].names
              /\ \E k \in 1..Len(ps[p].aliases) :
                    ps[p].aliases[k].email = x /\ ps[p].aliases[k].enabled
        BY <2>1, <2>2 DEF Alias, Own
    <2>6. DOMAIN ps[p].aliases = 1..Len(ps[p].aliases)
        BY <2>3, PrincipalType
    <2>7. PICK k \in DOMAIN ps[p].aliases :
              ps[p].aliases[k].email = x /\ ps[p].aliases[k].enabled
        BY <2>5, <2>6
    <2>8. QED  BY <2>2, <2>3, <2>4, <2>5, <2>7 DEF Entitled
<1>5. CASE x \in SetOf(ExtrasOf(in)) \ {None}
    BY <1>1, <1>5, ExtrasForm DEF Entitled
<1>6. QED  BY <1>2, <1>3, <1>4, <1>5

\* What a tool that sends mail has resolved.
LEMMA ResolvedForm ==
    ASSUME FromInv, Sent,
           NEW w, w = Wanted(EmailsOf(OwnedAddresses(in)), in.explicit, in.preferred, in.claim)
    PROVE  /\ in.lookup # "failed" /\ w \in EmailsOf(OwnedAddresses(in)) \ RoleAddresses
           /\ Chosen(in.identities, in.claim, w, out)
<1>1. in \in Input /\ ParseExtraFromAddresses(in.declared) # Refused
    BY DEF FromInv
<1>2. in.lookup # "failed" /\ out = ChooseFromAddress(OwnedAddresses(in), in)
    BY DEF FromInv, Sent, Unless
<1>3. Extends(in.identities, OwnedAddresses(in)) /\ in.preferred \in Seq(Addresses)
    BY <1>1, OwnedForm, InputType
<1>4. /\ Chosen(in.identities, in.claim, w, out)
      /\ w # None => w \in EmailsOf(OwnedAddresses(in)) \ RoleAddresses
    BY <1>2, <1>3, ChooseForm
<1>5. w # None
    BY <1>4 DEF Chosen, Unsendable, Sent
<1>6. QED  BY <1>2, <1>4, <1>5

\* From is always an address the caller is entitled to and never a shared one,
\* and get_identities() offers no other: for any lists of identities, principals
\* and declared addresses, whatever the token claims and the caller passes.
THEOREM FromAlwaysEntitled == Spec => []FromIsEntitled
<1>1. FromInv => FromIsEntitled
    <2>1. SUFFICES ASSUME FromInv PROVE FromIsEntitled
        OBVIOUS
    <2>2. ASSUME Sent PROVE Entitled(out.email) /\ out.email \notin RoleAddresses
        <3>1. PICK w : w = Wanted(EmailsOf(OwnedAddresses(in)), in.explicit,
                                  in.preferred, in.claim)
            OBVIOUS
        <3>2. /\ in.lookup # "failed" /\ w \in EmailsOf(OwnedAddresses(in)) \ RoleAddresses
              /\ Chosen(in.identities, in.claim, w, out)
            BY <2>1, <2>2, <3>1, ResolvedForm
        <3>3. out.email = w
            BY <2>2, <3>2 DEF Chosen, Sent
        <3>4. QED  BY <2>1, <3>2, <3>3, OwnedIsEntitled
    <2>3. ASSUME tool = "get_identities", out # Refused, NEW a \in out
          PROVE  Entitled(a.email) /\ (a.role <=> a.email \in RoleAddresses)
        <3>1. PICK o : o = OwnedAddresses(in)
            OBVIOUS
        <3>2. in.lookup # "failed" /\ out = Offered(in)
            BY <2>1, <2>3 DEF FromInv, Unless
        <3>3. o \in Lists
            BY <2>1, <3>1, OwnedForm DEF FromInv, Extends
        <3>4. PICK k \in DOMAIN o : a = [email |-> o[k].email, identity |-> o[k].identity,
                                         role |-> IsRoleAddress(o[k].email)]
            BY <2>3, <3>1, <3>2 DEF Offered
        <3>5. o[k].email \in EmailsOf(o)
            <4>1. DOMAIN o = 1..Len(o)
                BY <3>3 DEF Lists
            <4>2. QED  BY <4>1 DEF EmailsOf
        <3>6. Entitled(o[k].email)
            BY <2>1, <3>1, <3>2, <3>5, OwnedIsEntitled
        <3>7. a.email = o[k].email /\ a.role = IsRoleAddress(o[k].email)
            BY <3>4
        <3>8. QED  BY <3>6, <3>7 DEF IsRoleAddress
    <2>4. QED  BY <2>2, <2>3 DEF FromIsEntitled
<1>2. QED  BY <1>1, FromInvariant, PTL

\* The address never depends on the order in which the server lists identities
\* and aliases, for any number of them.
THEOREM OrderNeverMatters == Spec => []OrderIrrelevant
<1>1. FromInv => OrderIrrelevant
    <2>1. SUFFICES ASSUME FromInv, tool = "resolve", in.lookup # "failed",
                          NEW s \in Orders(in.identities)
                   PROVE  EmailOf(ChooseFromAddress(OwnedAddresses(Reordered(in, s)),
                                                    Reordered(in, s))) = EmailOf(out)
        BY DEF OrderIrrelevant, Reordered
    <2>2. in \in Input /\ ParseExtraFromAddresses(in.declared) # Refused
          /\ out = ChooseFromAddress(OwnedAddresses(in), in)
        BY <2>1 DEF FromInv, Unless
    <2>3. SameButOrder(in, Reordered(in, s))
        BY <2>2, ReorderedForm
    <2>4. QED  BY <2>2, <2>3, SameAddress
<1>2. QED  BY <1>1, FromInvariant, PTL

\* A message is submitted under its From's identity or, if that has none, under
\* the caller's own or a personal one; get_profile() shows the identity of the
\* default From.  For any lists, with any address under several identities.
THEOREM IdentityAlwaysFits == Spec => []IdentityFits
<1>1. FromInv => IdentityFits
    <2>1. SUFFICES ASSUME FromInv PROVE IdentityFits
        OBVIOUS
    <2>2. in \in Input /\ ParseExtraFromAddresses(in.declared) # Refused
        BY <2>1 DEF FromInv
    <2>3. PICK o : o = OwnedAddresses(in)
        OBVIOUS
    <2>4. PICK ids : ids = in.identities
        OBVIOUS
    <2>5. Extends(ids, o)
        BY <2>2, <2>3, <2>4, OwnedForm
    <2>6. DOMAIN ids = 1..Len(ids)
        BY <2>5, ExtendsType
    <2>7. ASSUME Sent
          PROVE  \E k \in DOMAIN ids :
                    /\ ids[k].identity = out.identity
                    /\ \/ ids[k].email = out.email
                       \/ /\ \A n \in DOMAIN ids : ids[n].email # out.email
                          /\ ids[k].email = in.claim \/ ids[k].email \notin RoleAddresses
        <3>1. PICK w : w = Wanted(EmailsOf(OwnedAddresses(in)), in.explicit,
                                  in.preferred, in.claim)
            OBVIOUS
        <3>2. Chosen(ids, in.claim, w, out)
            BY <2>1, <2>4, <2>7, <3>1, ResolvedForm
        <3>3. out.email = w
            BY <2>7, <3>2 DEF Chosen, Sent
        <3>4. PICK k \in 1..Len(ids) :
                  /\ ids[k].identity = out.identity
                  /\ \/ ids[k].email = w
                     \/ /\ w \notin EmailsOf(ids)
                        /\ ids[k].email = in.claim \/ ids[k].email \notin RoleAddresses
            BY <2>7, <3>2 DEF Chosen, Sent
        <3>5. w \notin EmailsOf(ids) => \A n \in DOMAIN ids : ids[n].email # w
            BY <2>6 DEF EmailsOf
        <3>6. QED  BY <2>6, <3>3, <3>4, <3>5
    <2>8. ASSUME tool = "get_profile", out # Refused,
                 NEW from, from = DefaultFrom(o, [in EXCEPT !.preferred = <<>>]),
                 from # None, from.identity # None
          PROVE  out = from
        <3>1. PICK i : i = [in EXCEPT !.preferred = <<>>]
            OBVIOUS
        <3>2. i.preferred = <<>> /\ i.claim = in.claim
            BY <2>2, <3>1 DEF Input
        <3>3. PICK w : w = DefaultWant(EmailsOf(o), i.preferred, i.claim)
            OBVIOUS
        <3>4. i.preferred \in Seq(Addresses)
            BY <3>2
        <3>5. from = IF w = None THEN None ELSE Find(o, w)
            BY <2>5, <2>8, <3>1, <3>3, <3>4, DefaultForm
        <3>6. FirstPreferred(EmailsOf(o), <<>>) = None
            BY DEF FirstPreferred
        <3>7. w # None /\ w = in.claim
            BY <2>8, <3>2, <3>3, <3>5, <3>6 DEF DefaultWant
        <3>8. from = Find(o, w)
            BY <3>5, <3>7
        <3>9. from = Find(ids, w)
            BY <2>5, <2>8, <3>8, FindForm DEF Found
        <3>10. out = Shown(in)
            BY <2>1, <2>8 DEF FromInv, Unless
        <3>11. Shown(in) = from
            BY <2>4, <2>8, <3>7, <3>9 DEF Shown, SelectProfileIdentity
        <3>12. QED  BY <3>10, <3>11
    <2>9. QED  BY <2>3, <2>4, <2>7, <2>8 DEF IdentityFits
<1>2. QED  BY <1>1, FromInvariant, PTL

=============================================================================
