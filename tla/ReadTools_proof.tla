-------------------------- MODULE ReadTools_proof ---------------------------
(***************************************************************************)
(* Proofs about the read tools and the content sandbox, for texts of any   *)
(* length over any lexemes, any number of messages and mailboxes and any   *)
(* limits: no pass of escape_injection_markers() leaves or rebuilds a      *)
(* marker, a wrapped body has one opening and one closing delimiter, a     *)
(* result is flagged for what it shows, what an answer leaves out it       *)
(* leaves out for cause, and no download passes the cap.                   *)
(*                                                                         *)
(* First what the passes do to a text, lexeme by lexeme: FoldLeft and the  *)
(* recursion of Replace() are replaced by their defining equations, and    *)
(* by least counterexamples where the argument is an induction.  Then what *)
(* each tool makes of a message.  Last the invariant, action by action.    *)
(***************************************************************************)
EXTENDS ReadTools, FiniteSetTheorems, SequenceTheorems, WellFoundedInduction, TLAPS

\* Every non-empty set of naturals has a least element.
LEMMA LeastNatural ==
    ASSUME NEW S, S \subseteq Nat, S # {}
    PROVE  \E t \in S : \A u \in S : t <= u
<1> DEFINE Less == {ss \in Nat \X Nat : ss[1] < ss[2]}
<1>1. IsWellFoundedOn(Less, Nat)
    BY NatLessThanWellFounded DEF OpToRel
<1>2. PICK t \in S : \A u \in S : ~ (<<u, t>> \in Less)
    <2> HIDE DEF Less
    <2>1. QED  BY <1>1, WFMin
<1>3. ASSUME NEW u \in S PROVE t <= u
    <2>1. t \in Nat /\ u \in Nat /\ <<u, t>> \in Nat \X Nat
        OBVIOUS
    <2>2. ~ (u < t)
        BY <1>2, <2>1
    <2>3. QED  BY <2>1, <2>2
<1>4. QED  BY <1>3

\* A non-empty set of naturals with an upper bound has a greatest element, and
\* Max() is it.
LEMMA MaxIsGreatest ==
    ASSUME NEW n \in Nat, NEW S \in SUBSET (0..n), S # {}
    PROVE  Max(S) \in S /\ \A u \in S : u <= Max(S)
<1> DEFINE D == {n - u : u \in S}
<1>1. D \subseteq Nat /\ D # {}
    OBVIOUS
<1>2. PICK d \in D : \A e \in D : d <= e
    <2> HIDE DEF D
    <2>1. QED  BY <1>1, LeastNatural
<1>3. PICK t \in S : d = n - t
    BY <1>2
<1>4. ASSUME NEW u \in S PROVE t >= u
    <2>1. d <= n - u
        BY <1>2
    <2>2. t \in 0..n /\ u \in 0..n
        OBVIOUS
    <2>3. QED  BY <1>3, <2>1, <2>2
<1>5. Max(S) \in S /\ \A u \in S : Max(S) >= u
    BY <1>4 DEF Max
<1>6. QED
    <2>1. ASSUME NEW u \in S PROVE u <= Max(S)
        <3>1. u \in 0..n /\ Max(S) \in 0..n /\ Max(S) >= u
            BY <1>5
        <3>2. QED  BY <3>1
    <2>2. QED  BY <1>5, <2>1

\* F folds G over any set of indices up to n, from the lowest.
FoldsBy(F, n, T, base, G) ==
    /\ F \in [SUBSET (1..n) -> T]
    /\ \A s \in SUBSET (1..n) :
          F[s] = IF s = {} THEN base ELSE G[<<F[s \ {Max(s)}], Max(s)>>]

\* What a fold over the indices of a sequence is defined by has a solution.
LEMMA FoldSolution ==
    ASSUME NEW N \in Nat, NEW T, NEW base \in T, NEW G \in [T \X (1..N) -> T]
    PROVE  \E F : FoldsBy(F, N, T, base, G)
<1> USE DEF FoldsBy
<1> DEFINE Solves(F, k) == FoldsBy(F, k, T, base, G)
           Bad == {k \in 0..N : ~ \E F : Solves(F, k)}
<1>1. ASSUME Bad # {} PROVE FALSE
    <2>1. PICK k \in Bad : \A u \in Bad : k <= u
        <3>1. Bad \subseteq Nat
            OBVIOUS
        <3> HIDE DEF Bad
        <3>2. QED  BY <1>1, <3>1, LeastNatural
    <2>2. k \in 0..N /\ ~ \E F : Solves(F, k)
        OBVIOUS
    <2>3. CASE k = 0
        <3>1. Solves([s \in SUBSET (1..k) |-> base], k)
            BY <2>3
        <3> HIDE DEF Solves
        <3>2. QED  BY <2>2, <3>1
    <2>4. CASE k # 0
        <3>1. k - 1 \in 0..N /\ k \in 1..N
            BY <2>2, <2>4
        <3>2. PICK F : Solves(F, k - 1)
            <4>1. k - 1 \notin Bad
                <5>1. ASSUME k - 1 \in Bad PROVE FALSE
                    <6>1. k <= k - 1
                        <7> HIDE DEF Bad
                        <7>1. QED  BY <2>1, <5>1
                    <6>2. QED  BY <2>2, <6>1
                <5> HIDE DEF Bad
                <5>2. QED  BY <5>1
            <4> HIDE DEF Solves
            <4>2. QED  BY <3>1, <4>1
        <3>3. PICK H : H = [s \in SUBSET (1..k) |->
                               IF k \in s THEN G[<<F[s \ {k}], k>>] ELSE F[s]]
            OBVIOUS
        <3>4. \A s \in SUBSET (1..k) : k \notin s => s \in SUBSET (1..(k - 1))
            BY <3>1
        <3>5. \A s \in SUBSET (1..k) : s \ {k} \in SUBSET (1..(k - 1))
            BY <3>1
        <3>6. ASSUME NEW s \in SUBSET (1..k) PROVE H[s] \in T
            <4>1. CASE k \in s
                <5>1. F[s \ {k}] \in T
                    BY <3>2, <3>5
                <5>2. <<F[s \ {k}], k>> \in T \X (1..N)
                    BY <3>1, <5>1
                <5>3. QED  BY <3>3, <4>1, <5>2
            <4>2. CASE k \notin s
                BY <3>2, <3>3, <3>4, <4>2
            <4>3. QED  BY <4>1, <4>2
        <3>7. ASSUME NEW s \in SUBSET (1..k), s # {}
              PROVE  H[s] = G[<<H[s \ {Max(s)}], Max(s)>>]
            <4>1. s \in SUBSET (0..k) /\ k \in Nat
                BY <3>1
            <4>2. Max(s) \in s /\ \A u \in s : u <= Max(s)
                BY <3>7, <4>1, MaxIsGreatest
            <4>3. CASE k \in s
                <5>1. Max(s) = k
                    <6>1. Max(s) \in 1..k /\ k <= Max(s)
                        BY <4>2, <4>3
                    <6>2. QED  BY <4>1, <6>1
                <5>2. s \ {k} \in SUBSET (1..k) /\ H[s \ {k}] = F[s \ {k}]
                    BY <3>3
                <5>3. QED  BY <3>3, <4>3, <5>1, <5>2
            <4>4. CASE k \notin s
                <5>1. s \in SUBSET (1..(k - 1))
                    BY <3>4, <4>4
                <5>2. F[s] = G[<<F[s \ {Max(s)}], Max(s)>>]
                    BY <3>2, <3>7, <5>1
                <5>3. H[s] = F[s] /\ H[s \ {Max(s)}] = F[s \ {Max(s)}]
                    BY <3>3, <4>4
                <5>4. QED  BY <5>2, <5>3
            <4>5. QED  BY <4>3, <4>4
        <3>8. H[{}] = base
            <4>1. F[{}] = base /\ {} \in SUBSET (1..k)
                BY <3>2
            <4>2. QED  BY <3>3, <4>1
        <3>9. Solves(H, k)
            BY <3>3, <3>6, <3>7, <3>8
        <3> HIDE DEF Solves
        <3>10. QED  BY <2>2, <3>9
    <2>5. QED  BY <2>3, <2>4
<1>2. \E F : Solves(F, N)
    <2>1. N \notin Bad
        BY <1>1
    <2> HIDE DEF Solves
    <2>2. QED  BY <2>1
<1>3. QED  BY <1>2

\* The passes of escape_injection_markers(), one by one.
LEMMA EscapeSteps ==
    ASSUME NEW t \in Text, Passes \in Seq(Text),
           \A u \in Text, k \in DOMAIN Passes : Replace(u, Passes[k]) \in Text
    PROVE  \E h \in [0..Len(Passes) -> Text] :
              /\ h[0] = t /\ h[Len(Passes)] = Escape(t)
              /\ \A k \in DOMAIN Passes : h[k] = Replace(h[k - 1], Passes[k])
<1> DEFINE N == Len(Passes)
           Defines(f) == f = [s \in SUBSET (DOMAIN Passes) |->
                IF s = {} THEN t
                ELSE Replace(f[s \ {Max(s)}], Passes[Max(s)])]
           iter == CHOOSE f : Defines(f)
<1>0. N \in Nat /\ DOMAIN Passes = 1..N
    OBVIOUS
<1>1. Escape(t) = iter[DOMAIN Passes]
    BY DEF Escape, FoldLeft, MapThenFoldSet
<1>2. \E f : Defines(f)
    <2>1. PICK G : G = [q \in Text \X (1..N) |-> Replace(q[1], Passes[q[2]])]
        OBVIOUS
    <2>2. G \in [Text \X (1..N) -> Text]
        BY <1>0, <2>1
    <2>3. PICK F : FoldsBy(F, N, Text, t, G)
        <3>1. N \in Nat
            BY <1>0
        <3> HIDE DEF N
        <3>2. QED  BY <2>2, <3>1, FoldSolution
    <2> USE DEF FoldsBy
    <2>4. ASSUME NEW s \in SUBSET (1..N), s # {}
          PROVE  F[s] = Replace(F[s \ {Max(s)}], Passes[Max(s)])
        <3>1. Max(s) \in 1..N
            <4>1. s \in SUBSET (0..N)
                BY <1>0
            <4>2. Max(s) \in s
                BY <1>0, <2>4, <4>1, MaxIsGreatest
            <4>3. QED  BY <4>2
        <3>2. <<F[s \ {Max(s)}], Max(s)>> \in Text \X (1..N)
            BY <2>3, <3>1
        <3>3. QED  BY <2>1, <2>3, <2>4, <3>2
    <2>5. F[{}] = t
        BY <2>3
    <2>6. Defines(F)
        BY <1>0, <2>3, <2>4, <2>5
    <2> HIDE DEF Defines
    <2>7. QED  BY <2>6
<1>3. Defines(iter)
    <2> HIDE DEF Defines
    <2>1. QED  BY <1>2
<1> HIDE DEF iter
<1>4. ASSUME NEW k \in 1..N
      PROVE  iter[1..k] = Replace(iter[1..(k - 1)], Passes[k])
    <2>1. (1..k) \in SUBSET (0..N) /\ 1..k # {} /\ (1..k) \in SUBSET (DOMAIN Passes)
        BY <1>0
    <2>2. Max(1..k) \in 1..k /\ \A u \in 1..k : u <= Max(1..k)
        BY <1>0, <2>1, MaxIsGreatest
    <2>3. k \in Nat /\ k <= Max(1..k)
        BY <1>0, <2>2
    <2>4. Max(1..k) = k
        BY <2>2, <2>3
    <2>5. (1..k) \ {k} = 1..(k - 1)
        BY <2>3
    <2>6. QED  BY <1>3, <2>1, <2>4, <2>5
<1>5. iter[{}] = t
    BY <1>3
<1>6. PICK h : h = [k \in 0..N |-> iter[1..k]]
    OBVIOUS
<1>7. \A k \in 1..N : k - 1 \in 0..N /\ h[k] = Replace(h[k - 1], Passes[k])
    BY <1>0, <1>4, <1>6
<1>8. h[0] = t /\ h[N] = Escape(t)
    BY <1>0, <1>1, <1>5, <1>6
<1>9. ASSUME NEW k \in 0..N PROVE h[k] \in Text
    <2> DEFINE W == {n \in 0..N : h[n] \notin Text}
    <2>1. ASSUME W # {} PROVE FALSE
        <3>1. PICK n \in W : \A u \in W : n <= u
            <4>1. W \subseteq Nat
                BY <1>0
            <4> HIDE DEF W
            <4>2. QED  BY <2>1, <4>1, LeastNatural
        <3>2. n \in 1..N
            BY <1>0, <1>8, <3>1
        <3>3. n - 1 \notin W
            <4>1. n - 1 \in W => n <= n - 1
                BY <3>1
            <4> HIDE DEF W
            <4>2. QED  BY <3>2, <4>1
        <3>4. h[n - 1] \in Text
            BY <1>7, <3>2, <3>3
        <3>5. QED  BY <1>0, <1>7, <3>1, <3>2, <3>4
    <2>2. QED  BY <2>1
<1>10. h \in [0..N -> Text]
    BY <1>6, <1>9
<1>11. QED  BY <1>0, <1>7, <1>8, <1>10

Entities == {"&lt;", "&gt;", "&#91;", "&#93;"}
Brackets == {"<", "["}

\* What the needles of escape_injection_markers() have in common: an opening
\* bracket comes first and only first, so that no two occurrences overlap, and
\* there are no entity references.
IsNeedle(n) ==
    /\ n \in Text /\ Len(n) > 0 /\ n[1] \in Brackets
    /\ \A k \in 1..Len(n) : n[k] \notin Entities /\ (k > 1 => n[k] \notin Brackets)

\* Case folding and entity references, lexeme by lexeme.
LEMMA LowerFacts ==
    ASSUME NEW l
    PROVE  /\ l \in Lexemes => Entity(l) \in Lexemes
           /\ Entity(l) \notin Brackets
           /\ Entity(l) \in Entities \/ Entity(l) = l
           /\ \A b \in Brackets \cup Entities \cup {">", "]", "/", " ", "email:message"} :
                 Lower(l) = b <=> l = b
           /\ Lower(Lower(l)) = Lower(l)
           /\ l \notin Entities => Resolved(l) = Lower(l) /\ Resolved(Entity(l)) = Lower(l)
<1> USE DEF Entities, Brackets
<1>1. l \in Lexemes => Entity(l) \in Lexemes
    BY ReadAssumption DEF Entity, Vocabulary
<1>2. Entity(l) \notin Brackets
    BY DEF Entity
<1>4. Entity(l) \in Entities \/ Entity(l) = l
    BY DEF Entity
<1>5. \A b \in Brackets \cup Entities \cup {">", "]", "/", " ", "email:message"} :
                 Lower(l) = b <=> l = b
    BY DEF Lower
<1>6. Lower(Lower(l)) = Lower(l)
    BY DEF Lower
<1>7. ASSUME l \notin Entities PROVE Resolved(l) = Lower(l)
    BY <1>7 DEF Resolved
<1>8. ASSUME l \notin Entities PROVE Resolved(Entity(l)) = Lower(l)
    BY <1>8 DEF Resolved, Entity, Lower
<1>9. QED  BY <1>1, <1>2, <1>4, <1>5, <1>6, <1>7, <1>8

\* FoundAt(), lexeme by lexeme.
LEMMA FoundPointwise ==
    ASSUME NEW S, NEW t \in Seq(S), NEW n \in Seq(S), Len(n) > 0, NEW i \in Nat \ {0}
    PROVE  FoundAt(t, n, i) <=>
              /\ i + Len(n) - 1 <= Len(t)
              /\ \A k \in 1..Len(n) : Lower(t[i + k - 1]) = Lower(n[k])
<1>1. SUFFICES ASSUME i + Len(n) - 1 <= Len(t)
               PROVE  FoundAt(t, n, i) <=>
                         \A k \in 1..Len(n) : Lower(t[i + k - 1]) = Lower(n[k])
    BY DEF FoundAt
<1>2. PICK s : s = SubSeq(t, i, i + Len(n) - 1)
    OBVIOUS
<1>3. /\ s \in Seq(S) /\ Len(s) = Len(n) /\ DOMAIN s = 1..Len(n)
      /\ \A k \in 1..Len(n) : s[k] = t[i + k - 1]
    BY <1>1, <1>2
<1>4. FoundAt(t, n, i) <=> LowerCase(s) = LowerCase(n)
    BY <1>1, <1>2 DEF FoundAt
<1>5. /\ LowerCase(s) = [k \in 1..Len(n) |-> Lower(s[k])]
      /\ LowerCase(n) = [k \in 1..Len(n) |-> Lower(n[k])]
    BY <1>3 DEF LowerCase
<1>6. LowerCase(s) = LowerCase(n) <=> \A k \in 1..Len(n) : Lower(s[k]) = Lower(n[k])
    BY <1>5
<1>7. QED  BY <1>3, <1>4, <1>6

\* A function on an initial segment is a sequence.
LEMMA SegmentIsSeq ==
    ASSUME NEW S, NEW n \in Nat, NEW f \in [1..n -> S]
    PROVE  f \in Seq(S) /\ Len(f) = n /\ DOMAIN f = 1..n
OBVIOUS

\* Concatenation, element by element.
LEMMA Concatenated ==
    ASSUME NEW S, NEW a \in Seq(S), NEW b \in Seq(S)
    PROVE  /\ a \o b \in Seq(S) /\ Len(a \o b) = Len(a) + Len(b)
           /\ \A k \in 1..Len(a) : (a \o b)[k] = a[k]
           /\ \A k \in (Len(a) + 1)..(Len(a) + Len(b)) : (a \o b)[k] = b[k - Len(a)]
OBVIOUS

\* Occurrences of a needle do not overlap.
LEMMA NoOverlap ==
    ASSUME NEW t \in Text, NEW n, IsNeedle(n), NEW i \in Nat \ {0}, NEW j \in Nat \ {0},
           FoundAt(t, n, i), FoundAt(t, n, j), i < j
    PROVE  i + Len(n) <= j
<1>1. SUFFICES ASSUME j < i + Len(n) PROVE FALSE
    BY DEF IsNeedle, Text
<1>2. n \in Text /\ Len(n) > 0 /\ Len(n) \in Nat
    BY DEF IsNeedle, Text
<1>3. 1 \in 1..Len(n) /\ j - i + 1 \in 2..Len(n) /\ i + (j - i + 1) - 1 = j /\ j + 1 - 1 = j
    BY <1>1, <1>2
<1>4. Lower(t[j]) = Lower(n[1]) /\ Lower(t[j]) = Lower(n[j - i + 1])
    <2>1. \A k \in 1..Len(n) : Lower(t[i + k - 1]) = Lower(n[k])
        BY <1>2, FoundPointwise DEF Text
    <2>2. \A k \in 1..Len(n) : Lower(t[j + k - 1]) = Lower(n[k])
        BY <1>2, FoundPointwise DEF Text
    <2>3. QED  BY <1>2, <1>3, <2>1, <2>2
<1>5. n[1] \in Brackets /\ n[j - i + 1] \notin Brackets 
    BY <1>2, <1>3 DEF IsNeedle, Text
<1>6. Lower(n[1]) = n[1]
    BY <1>5, LowerFacts
<1>7. Lower(n[j - i + 1]) # n[1]
    BY <1>5, LowerFacts
<1>8. QED  BY <1>4, <1>6, <1>7

\* What one pass of replace_ascii_case_insensitive() makes of each lexeme.
Rewritten(t, n, r) ==
    /\ r \in Text /\ Len(r) = Len(t)
    /\ \A p \in 1..Len(t) :
          \/ \E q \in 1..p : /\ FoundAt(t, n, q) /\ p < q + Len(n)
                             /\ r[p] = Entity(n[p - q + 1])
          \/ /\ \A q \in 1..p : FoundAt(t, n, q) => p >= q + Len(n)
             /\ r[p] = t[p]

\* What replace_ascii_case_insensitive() returns.
LEMMA ReplaceForm ==
    ASSUME NEW t \in Text, NEW n, IsNeedle(n)
    PROVE  Rewritten(t, n, Replace(t, n))
<1> DEFINE N == Len(n)
           L == Len(t)
           Defines(f) == f = [i \in 1..(Len(t) + 1) |->
              IF i > Len(t) THEN <<>>
              ELSE IF FoundAt(t, n, i)
                   THEN [k \in DOMAIN n |-> Entity(n[k])] \o f[i + Len(n)]
                   ELSE <<t[i]>> \o f[i + 1]]
           rest == CHOOSE f : Defines(f)
           Covers(q, i, p) == q \in i..p /\ FoundAt(t, n, q) /\ p < q + N
           Source(i, p) == CHOOSE q : Covers(q, i, p)
           At(i, p) == IF \E q : Covers(q, i, p) THEN Entity(n[p - Source(i, p) + 1])
                                                 ELSE t[p]
           g == [i \in 1..(L + 1) |-> [k \in 1..(L + 1 - i) |-> At(i, i + k - 1)]]
<1>0. /\ N \in Nat /\ L \in Nat /\ N > 0 /\ n \in Text /\ DOMAIN n = 1..N
      /\ \A k \in 1..N : n[k] \in Lexemes
      /\ \A k \in 1..L : t[k] \in Lexemes
    BY DEF IsNeedle, Text
<1>1. Replace(t, n) = rest[1]
    BY DEF Replace
<1>2. ASSUME NEW i \in 1..L, FoundAt(t, n, i) PROVE i + N - 1 <= L
    BY <1>2 DEF FoundAt
<1>3. ASSUME NEW i \in 1..(L + 1), NEW j \in 1..(L + 1), NEW p \in 1..L, NEW q, NEW u,
             Covers(q, i, p), Covers(u, j, p)
      PROVE  q = u
    <2>1. q \in Nat \ {0} /\ u \in Nat \ {0} /\ p < q + N /\ p < u + N /\ q <= p /\ u <= p
        BY <1>0, <1>3
    <2>2. ~ (q < u) /\ ~ (u < q)
        BY <1>0, <1>3, <2>1, NoOverlap
    <2>3. QED  BY <2>1, <2>2
<1>4. ASSUME NEW i \in 1..(L + 1), NEW p \in 1..L, NEW q, Covers(q, i, p)
      PROVE  At(i, p) = Entity(n[p - q + 1])
    <2>1. Covers(Source(i, p), i, p)
        BY <1>4, Zenon
    <2> HIDE DEF Source
    <2>2. Source(i, p) = q
        BY <1>3, <1>4, <2>1
    <2>3. QED  BY <1>4, <2>2
<1>5. ASSUME NEW i \in 1..(L + 1), NEW p \in 1..L, ~ \E q : Covers(q, i, p)
      PROVE  At(i, p) = t[p]
    BY <1>5
<1> HIDE DEF At
<1>6. ASSUME NEW i \in 1..(L + 1), NEW p \in 1..L PROVE At(i, p) \in Lexemes
    <2>1. ASSUME NEW q, Covers(q, i, p) PROVE At(i, p) \in Lexemes
        <3>1. p - q + 1 \in 1..N
            BY <1>0, <2>1
        <3>2. QED  BY <1>0, <1>4, <2>1, <3>1, LowerFacts
    <2>2. CASE ~ \E q : Covers(q, i, p)
        BY <1>0, <1>5, <2>2
    <2>3. QED  BY <2>1, <2>2
<1>7. ASSUME NEW i \in 1..(L + 1)
      PROVE  /\ g[i] \in Text /\ Len(g[i]) = L + 1 - i
             /\ \A k \in 1..(L + 1 - i) : g[i][k] = At(i, i + k - 1)
    <2>1. g[i] = [k \in 1..(L + 1 - i) |-> At(i, i + k - 1)]
        OBVIOUS
    <2>2. L + 1 - i \in Nat /\ \A k \in 1..(L + 1 - i) : i + k - 1 \in 1..L
        BY <1>0
    <2>3. \A k \in 1..(L + 1 - i) : At(i, i + k - 1) \in Lexemes
        BY <1>6, <2>2
    <2> HIDE DEF g
    <2>4. g[i] \in [1..(L + 1 - i) -> Lexemes]
        BY <2>1, <2>3
    <2>5. g[i] \in Seq(Lexemes) /\ Len(g[i]) = L + 1 - i
        BY <2>2, <2>4, SegmentIsSeq
    <2>6. \A k \in 1..(L + 1 - i) : g[i][k] = At(i, i + k - 1)
        BY <2>1
    <2>7. QED  BY <2>5, <2>6 DEF Text
<1>8. ASSUME NEW i \in 1..L, FoundAt(t, n, i)
      PROVE  g[i] = [k \in DOMAIN n |-> Entity(n[k])] \o g[i + N]
    <2>1. PICK a : a = [k \in DOMAIN n |-> Entity(n[k])]
        OBVIOUS
    <2>2. a \in Text /\ Len(a) = N /\ \A k \in 1..N : a[k] = Entity(n[k])
        <3>1. a \in [1..N -> Lexemes]
            BY <1>0, <2>1, LowerFacts
        <3>2. QED  BY <1>0, <2>1, <3>1 DEF Text
    <2>3. i + N \in 1..(L + 1) /\ i \in 1..(L + 1)
        BY <1>0, <1>2, <1>8
    <2>4. PICK b : b = g[i + N]
        OBVIOUS
    <2>5. /\ b \in Text /\ Len(b) = L + 1 - (i + N)
          /\ \A k \in 1..(L + 1 - (i + N)) : b[k] = At(i + N, i + N + k - 1)
        BY <1>7, <2>3, <2>4
    <2>6. ASSUME NEW k \in 1..N PROVE g[i][k] = a[k]
        <3>1. i + k - 1 \in 1..L /\ k \in 1..(L + 1 - i) /\ i + k - 1 - i + 1 = k
            BY <1>0, <1>2, <1>8
        <3>2. Covers(i, i, i + k - 1)
            BY <1>0, <1>8, <3>1
        <3>3. At(i, i + k - 1) = Entity(n[i + k - 1 - i + 1])
            BY <1>4, <2>3, <3>1, <3>2
        <3> HIDE DEF g
        <3>4. QED  BY <1>7, <2>2, <2>3, <3>1, <3>3
    <2>7. ASSUME NEW k \in (N + 1)..(L + 1 - i) PROVE g[i][k] = b[k - N]
        <3>1. PICK p : p = i + k - 1
            OBVIOUS
        <3>2. /\ p \in 1..L /\ k \in 1..(L + 1 - i) /\ k - N \in 1..(L + 1 - (i + N))
              /\ i + N + (k - N) - 1 = p /\ p >= i + N
            BY <1>0, <2>7, <3>1
        <3>3. ASSUME NEW q, Covers(q, i, p) PROVE Covers(q, i + N, p)
            <4>1. q # i
                BY <1>0, <3>2, <3>3
            <4>2. i < q /\ q \in Nat \ {0} /\ i \in Nat \ {0}
                BY <1>0, <3>3, <4>1
            <4>3. i + N <= q
                BY <1>8, <3>3, <4>2, NoOverlap
            <4>4. QED  BY <1>0, <3>2, <3>3, <4>2, <4>3
        <3>4. ASSUME NEW q, Covers(q, i + N, p) PROVE Covers(q, i, p)
            BY <1>0, <3>2, <3>4
        <3>5. At(i, p) = At(i + N, p)
            <4>1. ASSUME NEW q, Covers(q, i, p) PROVE At(i, p) = At(i + N, p)
                <5>1. At(i, p) = Entity(n[p - q + 1])
                    BY <1>4, <2>3, <3>2, <4>1
                <5>2. At(i + N, p) = Entity(n[p - q + 1])
                    BY <1>4, <2>3, <3>2, <3>3, <4>1
                <5>3. QED  BY <5>1, <5>2
            <4>2. CASE ~ \E q : Covers(q, i, p)
                <5>1. ~ \E q : Covers(q, i + N, p)
                    BY <3>4, <4>2
                <5>2. QED  BY <1>5, <2>3, <3>2, <4>2, <5>1
            <4>3. QED  BY <4>1, <4>2
        <3> HIDE DEF g
        <3>6. QED  BY <1>7, <2>3, <2>5, <3>1, <3>2, <3>5
    <2>8. QED
        <3>1. PICK c : c = g[i]
            OBVIOUS
        <3> HIDE DEF g
        <3>2. c \in Text /\ Len(c) = L + 1 - i
            BY <1>7, <2>3, <3>1
        <3>3. c = a \o b
            <4>1. a \o b \in Text /\ Len(a \o b) = L + 1 - i
                <5>1. a \o b \in Text /\ Len(a \o b) = Len(a) + Len(b)
                    BY <2>2, <2>5, Concatenated DEF Text
                <5>2. QED  BY <1>0, <2>2, <2>5, <5>1
            <4>2. ASSUME NEW k \in 1..(L + 1 - i) PROVE c[k] = (a \o b)[k]
                <5>1. CASE k <= N
                    <6>1. k \in 1..Len(a) /\ k \in 1..N
                        BY <1>0, <2>2, <5>1
                    <6>2. (a \o b)[k] = a[k]
                        BY <2>2, <2>5, <6>1, Concatenated DEF Text
                    <6>3. QED  BY <2>6, <3>1, <6>1, <6>2
                <5>2. CASE k > N
                    <6>1. k \in (N + 1)..(L + 1 - i)
                        BY <1>0, <5>2
                    <6>2. k \in (Len(a) + 1)..(Len(a) + Len(b))
                        BY <1>0, <2>2, <2>5, <6>1
                    <6>3. (a \o b)[k] = b[k - Len(a)]
                        BY <2>2, <2>5, <6>2, Concatenated DEF Text
                    <6>4. c[k] = b[k - N] /\ Len(a) = N
                        BY <2>2, <2>7, <3>1, <6>1
                    <6> HIDE DEF N
                    <6>5. QED  BY <6>3, <6>4
                <5>3. k <= N \/ k > N
                    BY <1>0
                <5>4. QED  BY <5>1, <5>2, <5>3
            <4>3. QED  BY <3>2, <4>1, <4>2, SeqEqual DEF Text
        <3>4. QED  BY <2>1, <2>4, <3>1, <3>3
<1>9. ASSUME NEW i \in 1..L, ~ FoundAt(t, n, i)
      PROVE  g[i] = <<t[i]>> \o g[i + 1]
    <2>1. i + 1 \in 1..(L + 1) /\ i \in 1..(L + 1)
        BY <1>0
    <2>2. PICK b : b = g[i + 1]
        OBVIOUS
    <2>3. PICK c : c = g[i]
        OBVIOUS
    <2>4. /\ b \in Text /\ Len(b) = L + 1 - (i + 1)
          /\ \A k \in 1..(L + 1 - (i + 1)) : b[k] = At(i + 1, i + 1 + k - 1)
        BY <1>7, <2>1, <2>2
    <2>5. /\ c \in Text /\ Len(c) = L + 1 - i
          /\ \A k \in 1..(L + 1 - i) : c[k] = At(i, i + k - 1)
        BY <1>7, <2>1, <2>3
    <2> HIDE DEF g
    <2>6. <<t[i]>> \in Text /\ Len(<<t[i]>>) = 1
        BY <1>0 DEF Text
    <2>7. <<t[i]>> \o b \in Text /\ Len(<<t[i]>> \o b) = L + 1 - i
        <3>1. <<t[i]>> \o b \in Text /\ Len(<<t[i]>> \o b) = 1 + Len(b)
            BY <2>4, <2>6, Concatenated DEF Text
        <3>2. QED  BY <1>0, <2>1, <2>4, <3>1
    <2>8. c[1] = t[i]
        <3>1. ~ \E q : Covers(q, i, i)
            BY <1>9
        <3>2. At(i, i) = t[i]
            BY <1>5, <2>1, <3>1
        <3>3. 1 \in 1..(L + 1 - i) /\ i + 1 - 1 = i
            BY <1>0
        <3>4. QED  BY <2>5, <3>2, <3>3
    <2>9. ASSUME NEW k \in 2..(L + 1 - i) PROVE c[k] = b[k - 1]
        <3>1. PICK p : p = i + k - 1
            OBVIOUS
        <3>2. /\ p \in 1..L /\ k \in 1..(L + 1 - i) /\ k - 1 \in 1..(L + 1 - (i + 1))
              /\ i + 1 + (k - 1) - 1 = p /\ p >= i + 1
            BY <1>0, <2>9, <3>1
        <3>3. ASSUME NEW q PROVE Covers(q, i, p) <=> Covers(q, i + 1, p)
            BY <1>0, <1>9, <3>2
        <3>4. At(i, p) = At(i + 1, p)
            <4>1. ASSUME NEW q, Covers(q, i, p) PROVE At(i, p) = At(i + 1, p)
                <5>1. At(i, p) = Entity(n[p - q + 1])
                    BY <1>4, <2>1, <3>2, <4>1
                <5>2. At(i + 1, p) = Entity(n[p - q + 1])
                    BY <1>4, <2>1, <3>2, <3>3, <4>1
                <5>3. QED  BY <5>1, <5>2
            <4>2. CASE ~ \E q : Covers(q, i, p)
                <5>1. ~ \E q : Covers(q, i + 1, p)
                    BY <3>3, <4>2
                <5>2. QED  BY <1>5, <2>1, <3>2, <4>2, <5>1
            <4>3. QED  BY <4>1, <4>2
        <3>5. QED  BY <2>4, <2>5, <3>1, <3>2, <3>4
    <2>10. ASSUME NEW k \in 1..(L + 1 - i) PROVE c[k] = (<<t[i]>> \o b)[k]
        <3>1. CASE k = 1
            BY <1>0, <2>4, <2>6, <2>8, <3>1 DEF Text
        <3>2. CASE k # 1
            <4>1. k \in 2..(L + 1 - i)
                BY <1>0, <3>2
            <4>2. (<<t[i]>> \o b)[k] = b[k - 1]
                BY <1>0, <2>1, <2>4, <2>6, <4>1 DEF Text
            <4>3. QED  BY <2>9, <4>1, <4>2
        <3>3. QED  BY <3>1, <3>2
    <2>11. c = <<t[i]>> \o b
        BY <2>5, <2>7, <2>10, SeqEqual DEF Text
    <2>12. QED  BY <2>2, <2>3, <2>11
<1>10. g[L + 1] = <<>>
    <2>1. L + 1 \in 1..(L + 1)
        BY <1>0
    <2>2. g[L + 1] \in Text /\ Len(g[L + 1]) = 0
        <3> HIDE DEF g
        <3>1. g[L + 1] \in Text /\ Len(g[L + 1]) = L + 1 - (L + 1)
            BY <1>7, <2>1
        <3>2. QED  BY <1>0, <3>1
    <2> HIDE DEF g
    <2>3. QED  BY <2>2 DEF Text
<1>11. Defines(g)
    <2>1. g = [i \in 1..(L + 1) |-> g[i]]
        OBVIOUS
    <2> HIDE DEF g
    <2>2. ASSUME NEW i \in 1..(L + 1)
          PROVE  g[i] = IF i > L THEN <<>>
                        ELSE IF FoundAt(t, n, i)
                             THEN [k \in DOMAIN n |-> Entity(n[k])] \o g[i + N]
                             ELSE <<t[i]>> \o g[i + 1]
        <3>1. CASE i > L
            <4>1. i = L + 1
                BY <1>0, <3>1
            <4>2. QED  BY <1>10, <3>1, <4>1
        <3>2. CASE i <= L
            <4>1. i \in 1..L /\ ~ (i > L)
                BY <1>0, <3>2
            <4>2. QED  BY <1>8, <1>9, <4>1
        <3>3. QED  BY <1>0, <3>1, <3>2
    <2>3. QED  BY <2>1, <2>2
<1>12. Defines(rest)
    <2> HIDE DEF g, Defines
    <2>1. QED  BY <1>11
<1>13. rest[1] = g[1]
    <2>1. ASSUME NEW i \in 1..(L + 1) PROVE rest[i] =
              IF i > L THEN <<>>
              ELSE IF FoundAt(t, n, i)
                   THEN [k \in DOMAIN n |-> Entity(n[k])] \o rest[i + N]
                   ELSE <<t[i]>> \o rest[i + 1]
        <3> HIDE DEF rest
        <3>1. QED  BY <1>12
    <2>2. ASSUME NEW i \in 1..(L + 1) PROVE g[i] =
              IF i > L THEN <<>>
              ELSE IF FoundAt(t, n, i)
                   THEN [k \in DOMAIN n |-> Entity(n[k])] \o g[i + N]
                   ELSE <<t[i]>> \o g[i + 1]
        <3> HIDE DEF g
        <3>1. QED  BY <1>11
    <2> HIDE DEF g, rest
    <2> DEFINE W == {d \in 0..L : rest[L + 1 - d] # g[L + 1 - d]}
    <2>3. ASSUME W # {} PROVE FALSE
        <3>1. PICK d \in W : \A u \in W : d <= u
            <4>1. W \subseteq Nat
                BY <1>0
            <4> HIDE DEF W
            <4>2. QED  BY <2>3, <4>1, LeastNatural
        <3>2. PICK i : i = L + 1 - d
            OBVIOUS
        <3>3. i \in 1..(L + 1) /\ d \in 0..L /\ d = L + 1 - i /\ rest[i] # g[i]
            BY <1>0, <3>1, <3>2
        <3>4. ASSUME NEW j \in 1..(L + 1), j > i PROVE rest[j] = g[j]
            <4>1. L + 1 - j \in 0..L /\ L + 1 - j < d /\ L + 1 - (L + 1 - j) = j
                BY <1>0, <3>3, <3>4
            <4>2. L + 1 - j \notin W
                <5>1. L + 1 - j \in W => d <= L + 1 - j
                    BY <3>1
                <5> HIDE DEF W
                <5>2. QED  BY <3>3, <4>1, <5>1
            <4>3. QED  BY <4>1, <4>2
        <3>5. CASE i > L
            BY <2>1, <2>2, <3>3, <3>5
        <3>6. CASE i <= L /\ FoundAt(t, n, i)
            <4>1. i \in 1..L /\ ~ (i > L)
                BY <1>0, <3>3, <3>6
            <4>2. i + N \in 1..(L + 1) /\ i + N > i
                BY <1>0, <1>2, <3>6, <4>1
            <4>3. QED  BY <2>1, <2>2, <3>3, <3>4, <3>6, <4>1, <4>2
        <3>7. CASE i <= L /\ ~ FoundAt(t, n, i)
            <4>1. ~ (i > L) /\ i + 1 \in 1..(L + 1) /\ i + 1 > i
                BY <1>0, <3>3, <3>7
            <4>2. QED  BY <2>1, <2>2, <3>3, <3>4, <3>7, <4>1
        <3>8. QED  BY <1>0, <3>3, <3>5, <3>6, <3>7
    <2>4. L \in 0..L /\ L \notin W /\ L + 1 - L = 1
        BY <1>0, <2>3
    <2>5. QED  BY <2>4
<1>14. PICK r : r = Replace(t, n)
    OBVIOUS
<1>15. r = g[1]
    BY <1>1, <1>13, <1>14
<1>16. 1 \in 1..(L + 1) /\ L + 1 - 1 = L
    BY <1>0
<1>17. r \in Text /\ Len(r) = L /\ \A p \in 1..L : r[p] = At(1, p)
    <2>1. \A p \in 1..L : 1 + p - 1 = p
        BY <1>0
    <2> HIDE DEF g
    <2>2. /\ g[1] \in Text /\ Len(g[1]) = L
          /\ \A k \in 1..L : g[1][k] = At(1, 1 + k - 1)
        BY <1>7, <1>16
    <2>3. QED  BY <1>15, <2>1, <2>2
<1>18. ASSUME NEW p \in 1..L
       PROVE  \/ \E q \in 1..p : /\ FoundAt(t, n, q) /\ p < q + Len(n)
                                  /\ r[p] = Entity(n[p - q + 1])
              \/ /\ \A q \in 1..p : FoundAt(t, n, q) => p >= q + Len(n)
                 /\ r[p] = t[p]
    <2>1. ASSUME NEW q, Covers(q, 1, p)
          PROVE  \E u \in 1..p : /\ FoundAt(t, n, u) /\ p < u + Len(n)
                                 /\ r[p] = Entity(n[p - u + 1])
        BY <1>4, <1>16, <1>17, <2>1
    <2>2. ASSUME ~ \E q : Covers(q, 1, p)
          PROVE  /\ \A q \in 1..p : FoundAt(t, n, q) => p >= q + Len(n)
                 /\ r[p] = t[p]
        <3>1. \A q \in 1..p : FoundAt(t, n, q) => ~ (p < q + N)
            BY <2>2
        <3>2. r[p] = t[p]
            BY <1>5, <1>16, <1>17, <2>2
        <3>3. QED  BY <1>0, <3>1, <3>2
    <2>3. QED  BY <2>1, <2>2
<1>19. QED  BY <1>14, <1>17, <1>18 DEF Rewritten

\* What a pass does to a lexeme: nothing, or it renders one that matches.
LEMMA RewrittenLexeme ==
    ASSUME NEW t \in Text, NEW n, IsNeedle(n), NEW r, Rewritten(t, n, r),
           NEW p \in 1..Len(t)
    PROVE  \/ r[p] = t[p]
           \/ \E l : l \notin Entities /\ r[p] = Entity(l) /\ Lower(t[p]) = Lower(l)
<1>0. n \in Text /\ Len(n) \in Nat /\ Len(n) > 0 /\ Len(t) \in Nat
    BY DEF IsNeedle, Text
<1>1. ASSUME NEW q \in 1..p, FoundAt(t, n, q), p < q + Len(n), r[p] = Entity(n[p - q + 1])
      PROVE  \E l : l \notin Entities /\ r[p] = Entity(l) /\ Lower(t[p]) = Lower(l)
    <2>1. p - q + 1 \in 1..Len(n) /\ q + (p - q + 1) - 1 = p /\ q \in Nat \ {0}
        BY <1>0, <1>1
    <2>2. \A k \in 1..Len(n) : Lower(t[q + k - 1]) = Lower(n[k])
        BY <1>0, <1>1, <2>1, FoundPointwise DEF Text
    <2>3. Lower(t[p]) = Lower(n[p - q + 1])
        BY <2>1, <2>2
    <2>4. n[p - q + 1] \notin Entities
        BY <2>1 DEF IsNeedle
    <2>5. QED  BY <1>1, <2>3, <2>4
<1>2. QED  BY <1>1 DEF Rewritten

\* A pass brings no needle about, and leaves none of its own.
LEMMA PassAddsNothing ==
    ASSUME NEW t \in Text, NEW n, IsNeedle(n), NEW r, Rewritten(t, n, r),
           NEW m, IsNeedle(m), NEW i \in Nat \ {0}, FoundAt(r, m, i)
    PROVE  FoundAt(t, m, i)
<1>0. /\ m \in Text /\ Len(m) \in Nat /\ Len(m) > 0 /\ r \in Text /\ Len(r) = Len(t)
      /\ Len(t) \in Nat
    BY DEF IsNeedle, Text, Rewritten
<1>1. i + Len(m) - 1 <= Len(t) /\ \A k \in 1..Len(m) : Lower(r[i + k - 1]) = Lower(m[k])
    BY <1>0, FoundPointwise DEF Text
<1>2. ASSUME NEW k \in 1..Len(m) PROVE Lower(t[i + k - 1]) = Lower(m[k])
    <2>1. PICK p \in 1..Len(t) : p = i + k - 1
        BY <1>0, <1>1
    <2>2. Lower(r[p]) = Lower(m[k]) /\ m[k] \notin Entities
        BY <1>1, <2>1 DEF IsNeedle
    <2>3. r[p] \notin Entities
        <3>1. ASSUME r[p] \in Entities PROVE FALSE
            <4>1. Lower(r[p]) = r[p]
                BY <3>1, LowerFacts
            <4>2. m[k] = r[p]
                BY <2>2, <3>1, <4>1, LowerFacts
            <4>3. QED  BY <2>2, <3>1, <4>2
        <3>2. QED  BY <3>1
    <2>4. ASSUME NEW l, l \notin Entities, r[p] = Entity(l), Lower(t[p]) = Lower(l)
          PROVE  Lower(t[p]) = Lower(r[p])
        <3>1. r[p] = l
            BY <2>3, <2>4, LowerFacts
        <3>2. QED  BY <2>4, <3>1
    <2>5. Lower(t[p]) = Lower(r[p])
        BY <2>4, RewrittenLexeme
    <2>6. QED  BY <2>1, <2>2, <2>5
<1>3. QED  BY <1>0, <1>1, <1>2, FoundPointwise DEF Text

\* A pass leaves none of its own needle.
LEMMA PassLeavesNone ==
    ASSUME NEW t \in Text, NEW n, IsNeedle(n), NEW r, Rewritten(t, n, r),
           NEW i \in Nat \ {0}
    PROVE  ~ FoundAt(r, n, i)
<1>1. SUFFICES ASSUME FoundAt(r, n, i) PROVE FALSE
    OBVIOUS
<1>0. /\ n \in Text /\ Len(n) \in Nat /\ Len(n) > 0 /\ r \in Text /\ Len(r) = Len(t)
      /\ Len(t) \in Nat
    BY DEF IsNeedle, Text, Rewritten
<1>2. i + Len(n) - 1 <= Len(t) /\ \A k \in 1..Len(n) : Lower(r[i + k - 1]) = Lower(n[k])
    BY <1>0, <1>1, FoundPointwise DEF Text
<1>3. i \in 1..Len(t) /\ 1 \in 1..Len(n) /\ i + 1 - 1 = i /\ i \in 1..i
    BY <1>0, <1>2
<1>4. Lower(r[i]) = Lower(n[1]) /\ n[1] \in Brackets
    BY <1>2, <1>3 DEF IsNeedle
<1>5. Lower(n[1]) = n[1]
    BY <1>4, LowerFacts
<1>6. r[i] = n[1]
    BY <1>4, <1>5, LowerFacts
<1>7. FoundAt(t, n, i)
    BY <1>1, PassAddsNothing
<1>8. ~ (i >= i + Len(n))
    BY <1>0
<1>9. PICK q \in 1..i : r[i] = Entity(n[i - q + 1])
    BY <1>3, <1>7, <1>8 DEF Rewritten
<1>10. Entity(n[i - q + 1]) \notin Brackets
    BY LowerFacts
<1>11. QED  BY <1>4, <1>6, <1>9, <1>10

\* A pass loses nothing but the case.
LEMMA PassLosesNothing ==
    ASSUME NEW t \in Text, NEW n, IsNeedle(n), NEW r, Rewritten(t, n, r)
    PROVE  Unescaped(r) = Unescaped(t)
<1>0. /\ r \in Text /\ Len(r) = Len(t) /\ DOMAIN r = 1..Len(t) /\ DOMAIN t = 1..Len(t)
    BY DEF Text, Rewritten
<1>1. ASSUME NEW p \in 1..Len(t) PROVE Resolved(r[p]) = Resolved(t[p])
    <2>1. ASSUME NEW l, l \notin Entities, r[p] = Entity(l), Lower(t[p]) = Lower(l)
          PROVE  Resolved(r[p]) = Resolved(t[p])
        <3>1. Resolved(r[p]) = Lower(l)
            BY <2>1, LowerFacts
        <3>2. ASSUME t[p] \in Entities PROVE FALSE
            <4>1. Lower(t[p]) = t[p]
                BY <3>2, LowerFacts
            <4>2. l = t[p]
                BY <2>1, <3>2, <4>1, LowerFacts
            <4>3. QED  BY <2>1, <3>2, <4>2
        <3>3. Resolved(t[p]) = Lower(t[p])
            BY <3>2, LowerFacts
        <3>4. QED  BY <2>1, <3>1, <3>3
    <2>2. QED  BY <2>1, RewrittenLexeme
<1>2. QED  BY <1>0, <1>1 DEF Unescaped

NeedleList(s) == s \in Seq(Text) /\ \A k \in DOMAIN s : IsNeedle(s[k])

\* Every element of s is one of c.
Keeps(s, c) == \A k \in DOMAIN s : \E j \in DOMAIN c : c[j] = s[k]

\* The tables may be put one after the other.
LEMMA NeedleListConcat ==
    ASSUME NEW a, NEW b, NEW c, NeedleList(a), NeedleList(b), c = a \o b
    PROVE  /\ NeedleList(c)
           /\ Keeps(a, c) /\ Keeps(b, c)
<1>0. a \in Seq(Text) /\ b \in Seq(Text) /\ Len(a) \in Nat /\ Len(b) \in Nat
      /\ DOMAIN a = 1..Len(a) /\ DOMAIN b = 1..Len(b)
    BY DEF NeedleList
<1>2. /\ c \in Seq(Text) /\ Len(c) = Len(a) + Len(b)
      /\ \A k \in 1..Len(a) : c[k] = a[k]
      /\ \A k \in (Len(a) + 1)..(Len(a) + Len(b)) : c[k] = b[k - Len(a)]
    BY <1>0, Concatenated
<1>3. DOMAIN c = 1..(Len(a) + Len(b))
    BY <1>2
<1>4. ASSUME NEW k \in DOMAIN c PROVE IsNeedle(c[k])
    <2>1. CASE k \in 1..Len(a)
        BY <1>0, <1>2, <2>1 DEF NeedleList
    <2>2. CASE k \in (Len(a) + 1)..(Len(a) + Len(b))
        <3>1. k - Len(a) \in 1..Len(b)
            BY <1>0, <2>2
        <3>2. QED  BY <1>0, <1>2, <2>2, <3>1 DEF NeedleList
    <2>3. k \in 1..Len(a) \/ k \in (Len(a) + 1)..(Len(a) + Len(b))
        BY <1>0, <1>3
    <2>4. QED  BY <2>1, <2>2, <2>3
<1>5. ASSUME NEW k \in DOMAIN a PROVE k \in DOMAIN c /\ c[k] = a[k]
    BY <1>0, <1>2, <1>3
<1>6. ASSUME NEW k \in DOMAIN b PROVE k + Len(a) \in DOMAIN c /\ c[k + Len(a)] = b[k]
    BY <1>0, <1>2, <1>3
<1>7. QED  BY <1>2, <1>4, <1>5, <1>6 DEF NeedleList, Keeps

\* The markers a text must not hold.
Markers == {Close, Open} \cup Range(ANGLE_ROLE_TOKENS) \cup Range(BRACKET_ROLE_TOKENS)

\* Three lexemes, or two or four, that make a needle.
LEMMA NeedleTuples ==
    ASSUME NEW a \in Lexemes, NEW b \in Lexemes, NEW c \in Lexemes, NEW d \in Lexemes,
           a \in Brackets, a \notin Entities,
           \A l \in {b, c, d} : l \notin Entities /\ l \notin Brackets
    PROVE  IsNeedle(<<a, b>>) /\ IsNeedle(<<a, b, c>>) /\ IsNeedle(<<a, b, c, d>>)
<1> HIDE DEF Brackets, Entities
<1>1. IsNeedle(<<a, b>>)
    BY DEF IsNeedle, Text
<1>2. IsNeedle(<<a, b, c>>)
    BY DEF IsNeedle, Text
<1>3. IsNeedle(<<a, b, c, d>>)
    BY DEF IsNeedle, Text
<1>4. QED  BY <1>1, <1>2, <1>3

\* Everything the escapes look for is a needle, and every marker is looked for.
LEMMA PassesAreNeedles ==
    /\ NeedleList(Passes)
    /\ \A m \in Markers : \E k \in DOMAIN Passes : Passes[k] = m
    /\ \A m \in Markers : IsNeedle(m)
<1>1. Close \o <<">">> = <<"<", "/", "email:message", ">">>
    <2>1. ASSUME NEW a, NEW b, NEW c, NEW d PROVE <<a, b, c>> \o <<d>> = <<a, b, c, d>>
        <3>1. PICK S : S = {a, b, c, d}
            OBVIOUS
        <3>2. PICK u, v, w : u = <<a, b, c>> /\ v = <<d>> /\ w = <<a, b, c, d>>
            OBVIOUS
        <3>3. u \in Seq(S) /\ v \in Seq(S) /\ w \in Seq(S) /\ Len(u) = 3 /\ Len(v) = 1 /\ Len(w) = 4
            BY <3>1, <3>2
        <3>4. /\ u \o v \in Seq(S) /\ Len(u \o v) = 4
              /\ \A k \in 1..3 : (u \o v)[k] = u[k]
              /\ (u \o v)[4] = v[1]
            <4>1. /\ u \o v \in Seq(S) /\ Len(u \o v) = Len(u) + Len(v)
                  /\ \A k \in 1..Len(u) : (u \o v)[k] = u[k]
                  /\ \A k \in (Len(u) + 1)..(Len(u) + Len(v)) : (u \o v)[k] = v[k - Len(u)]
                BY <3>3, Concatenated
            <4>2. 4 \in (Len(u) + 1)..(Len(u) + Len(v)) /\ 4 - Len(u) = 1
                BY <3>3
            <4>3. QED  BY <3>3, <4>1, <4>2
        <3>5. \A k \in 1..3 : u[k] = w[k]
            BY <3>2
        <3>6. v[1] = w[4]
            BY <3>2
        <3>7. \A k \in 1..4 : (u \o v)[k] = w[k]
            BY <3>4, <3>5, <3>6
        <3>8. u \o v = w
            BY <3>3, <3>4, <3>7, SeqEqual
        <3>9. QED  BY <3>2, <3>8
    <2>2. QED  BY <2>1 DEF Close
<1> DEFINE words == {"email:message", "system", "assistant", "user",
                    "|im_start|", "|im_end|", "INST", "/", ">", "]"}
<1>2. ASSUME NEW l \in words PROVE l \in Lexemes /\ l \notin Entities /\ l \notin Brackets
    BY ReadAssumption DEF Vocabulary, Entities, Brackets
<1>3. ASSUME NEW l \in {"<", "["} PROVE l \in Lexemes /\ l \notin Entities /\ l \in Brackets
    BY ReadAssumption DEF Vocabulary, Entities, Brackets
<1>4. ASSUME NEW a \in {"<", "["}, NEW b \in words, NEW c \in words, NEW d \in words
      PROVE  IsNeedle(<<a, b>>) /\ IsNeedle(<<a, b, c>>) /\ IsNeedle(<<a, b, c, d>>)
    <2> HIDE DEF words
    <2>1. QED  BY <1>2, <1>3, NeedleTuples
<1>5. IsNeedle(Close) /\ IsNeedle(Open) /\ IsNeedle(Close \o <<">">>)
    BY <1>1, <1>4 DEF Close, Open
<1>6. /\ IsNeedle(<<"<", "system", ">">>) /\ IsNeedle(<<"<", "/", "system", ">">>)
      /\ IsNeedle(<<"<", "assistant", ">">>) /\ IsNeedle(<<"<", "/", "assistant", ">">>)
      /\ IsNeedle(<<"<", "user", ">">>) /\ IsNeedle(<<"<", "/", "user", ">">>)
      /\ IsNeedle(<<"<", "|im_start|", ">">>) /\ IsNeedle(<<"<", "|im_end|", ">">>)
      /\ IsNeedle(<<"[", "INST", "]">>) /\ IsNeedle(<<"[", "/", "INST", "]">>)
    BY <1>4
<1>7. \A n : IsNeedle(n) => n \in Text
    BY DEF IsNeedle
<1> HIDE DEF words
<1>8. PICK w : w = <<Close \o <<">">>, Close, Open>>
    OBVIOUS
<1>9. NeedleList(w) /\ DOMAIN w = 1..3 /\ w[2] = Close /\ w[3] = Open
    <2>1. ASSUME NEW a \in Text, NEW b \in Text, NEW c \in Text,
                 IsNeedle(a), IsNeedle(b), IsNeedle(c)
          PROVE  NeedleList(<<a, b, c>>)
        BY <2>1 DEF NeedleList
    <2>2. NeedleList(w)
        BY <1>5, <1>7, <1>8, <2>1
    <2>3. QED  BY <1>8, <2>2
<1>10. NeedleList(ANGLE_ROLE_TOKENS)
    <2>1. ANGLE_ROLE_TOKENS \in Seq(Text)
        BY <1>6, <1>7 DEF ANGLE_ROLE_TOKENS
    <2>2. \A k \in DOMAIN ANGLE_ROLE_TOKENS : IsNeedle(ANGLE_ROLE_TOKENS[k])
        BY <1>6 DEF ANGLE_ROLE_TOKENS
    <2>3. QED  BY <2>1, <2>2 DEF NeedleList
<1>11. NeedleList(BRACKET_ROLE_TOKENS)
    <2>1. BRACKET_ROLE_TOKENS \in Seq(Text)
        BY <1>6, <1>7 DEF BRACKET_ROLE_TOKENS
    <2>2. \A k \in DOMAIN BRACKET_ROLE_TOKENS : IsNeedle(BRACKET_ROLE_TOKENS[k])
        BY <1>6 DEF BRACKET_ROLE_TOKENS
    <2>3. QED  BY <2>1, <2>2 DEF NeedleList
<1>12. PICK x : x = w \o ANGLE_ROLE_TOKENS
    OBVIOUS
<1>13. NeedleList(x) /\ Keeps(w, x) /\ Keeps(ANGLE_ROLE_TOKENS, x)
    BY <1>9, <1>10, <1>12, NeedleListConcat
<1>14. Passes = x \o BRACKET_ROLE_TOKENS
    BY <1>8, <1>12 DEF Passes
<1>15. NeedleList(Passes) /\ Keeps(x, Passes) /\ Keeps(BRACKET_ROLE_TOKENS, Passes)
    BY <1>11, <1>13, <1>14, NeedleListConcat
<1> USE DEF Keeps
<1>16. ASSUME NEW m \in Markers PROVE \E k \in DOMAIN Passes : Passes[k] = m
    <2>1. CASE m = Close
        <3>1. PICK j \in DOMAIN x : x[j] = Close
            BY <1>9, <1>13
        <3>2. QED  BY <1>15, <2>1, <3>1
    <2>2. CASE m = Open
        <3>1. PICK j \in DOMAIN x : x[j] = Open
            BY <1>9, <1>13
        <3>2. QED  BY <1>15, <2>2, <3>1
    <2>3. CASE m \in Range(ANGLE_ROLE_TOKENS)
        <3>1. PICK k \in DOMAIN ANGLE_ROLE_TOKENS : m = ANGLE_ROLE_TOKENS[k]
            BY <2>3 DEF Range
        <3>2. PICK j \in DOMAIN x : x[j] = m
            BY <1>13, <3>1
        <3>3. QED  BY <1>15, <3>2
    <2>4. CASE m \in Range(BRACKET_ROLE_TOKENS)
        <3>1. PICK k \in DOMAIN BRACKET_ROLE_TOKENS : m = BRACKET_ROLE_TOKENS[k]
            BY <2>4 DEF Range
        <3>2. QED  BY <1>15, <3>1
    <2>5. QED  BY <2>1, <2>2, <2>3, <2>4 DEF Markers
<1>17. ASSUME NEW m \in Markers PROVE IsNeedle(m)
    <2>1. PICK k \in DOMAIN Passes : Passes[k] = m
        BY <1>16
    <2>2. QED  BY <1>15, <2>1 DEF NeedleList
<1>18. QED  BY <1>15, <1>16, <1>17

\* What escape_injection_markers() makes of a text: as long, the same to a reader
\* who resolves the entities, and without a marker.
EscapeOf(t, r) ==
    /\ r \in Text /\ Len(r) = Len(t)
    /\ Unescaped(r) = Unescaped(t)
    /\ \A m \in Markers, i \in Nat \ {0} : ~ FoundAt(r, m, i)

\* All passes together leave no marker and lose nothing.
LEMMA EscapeIsClean ==
    ASSUME NEW t \in Text
    PROVE  EscapeOf(t, Escape(t))
<1> DEFINE N == Len(Passes)
<1>1. Passes \in Seq(Text) /\ \A k \in DOMAIN Passes : IsNeedle(Passes[k])
    BY PassesAreNeedles DEF NeedleList
<1>0. N \in Nat /\ DOMAIN Passes = 1..N
    BY <1>1
<1>2. \A u \in Text, k \in DOMAIN Passes : Rewritten(u, Passes[k], Replace(u, Passes[k]))
    BY <1>1, ReplaceForm
<1>3. \A u \in Text, k \in DOMAIN Passes : Replace(u, Passes[k]) \in Text
    BY <1>2 DEF Rewritten
<1>4. PICK h \in [0..N -> Text] :
              /\ h[0] = t /\ h[N] = Escape(t)
              /\ \A k \in DOMAIN Passes : h[k] = Replace(h[k - 1], Passes[k])
    BY <1>1, <1>3, EscapeSteps
<1> HIDE DEF N
<1>5. ASSUME NEW k \in 1..N
      PROVE  /\ k - 1 \in 0..N /\ k \in 0..N /\ k \in DOMAIN Passes /\ h[k - 1] \in Text
             /\ Rewritten(h[k - 1], Passes[k], h[k])
    <2>1. k - 1 \in 0..N /\ k \in 0..N /\ k \in DOMAIN Passes
        BY <1>0
    <2>2. QED  BY <1>2, <1>4, <2>1
<1>6. ASSUME NEW k \in 0..N PROVE Len(h[k]) = Len(t) /\ Unescaped(h[k]) = Unescaped(t)
    <2> DEFINE W == {n \in 0..N : ~ (Len(h[n]) = Len(t) /\ Unescaped(h[n]) = Unescaped(t))}
    <2>1. ASSUME W # {} PROVE FALSE
        <3>1. PICK n \in W : \A u \in W : n <= u
            <4>1. W \subseteq Nat
                BY <1>0
            <4> HIDE DEF W
            <4>2. QED  BY <2>1, <4>1, LeastNatural
        <3>2. n \in 1..N
            BY <1>0, <1>4, <3>1
        <3>3. n - 1 \notin W
            <4>1. n - 1 \in W => n <= n - 1
                BY <3>1
            <4> HIDE DEF W
            <4>2. QED  BY <3>2, <4>1
        <3>4. Len(h[n - 1]) = Len(t) /\ Unescaped(h[n - 1]) = Unescaped(t)
            BY <1>5, <3>2, <3>3
        <3>5. Len(h[n]) = Len(h[n - 1])
            BY <1>5, <3>2 DEF Rewritten
        <3>6. Unescaped(h[n]) = Unescaped(h[n - 1])
            BY <1>1, <1>5, <3>2, PassLosesNothing
        <3>7. QED  BY <3>1, <3>4, <3>5, <3>6
    <2>2. QED  BY <2>1
<1>7. ASSUME NEW m \in Markers, NEW i \in Nat \ {0} PROVE ~ FoundAt(h[N], m, i)
    <2>1. PICK j \in DOMAIN Passes : Passes[j] = m
        BY PassesAreNeedles
    <2>2. j \in 1..N /\ IsNeedle(m)
        BY <1>0, <2>1, PassesAreNeedles
    <2>3. ~ FoundAt(h[j], m, i)
        BY <1>5, <2>1, <2>2, PassLeavesNone
    <2> DEFINE W == {n \in j..N : FoundAt(h[n], m, i)}
    <2>4. ASSUME W # {} PROVE FALSE
        <3>1. PICK n \in W : \A u \in W : n <= u
            <4>1. W \subseteq Nat
                BY <1>0, <2>2
            <4> HIDE DEF W
            <4>2. QED  BY <2>4, <4>1, LeastNatural
        <3>2. n \in 1..N /\ n - 1 \in j..N /\ FoundAt(h[n], m, i)
            <4>1. n \in j..N /\ FoundAt(h[n], m, i)
                BY <3>1
            <4>2. n # j
                BY <2>3, <4>1
            <4>3. QED  BY <1>0, <2>2, <4>1, <4>2
        <3>3. n - 1 \notin W
            <4>1. n - 1 \in W => n <= n - 1
                BY <3>1
            <4> HIDE DEF W
            <4>2. QED  BY <3>2, <4>1
        <3>4. FoundAt(h[n - 1], m, i)
            BY <1>1, <1>5, <2>2, <3>2, PassAddsNothing
        <3>5. QED  BY <3>2, <3>3, <3>4
    <2>5. N \in j..N
        BY <1>0, <2>2
    <2>6. QED  BY <2>4, <2>5
<1>8. N \in 0..N
    BY <1>0
<1>9. h[N] \in Text /\ Len(h[N]) = Len(t) /\ Unescaped(h[N]) = Unescaped(t)
    BY <1>4, <1>6, <1>8
<1>10. QED  BY <1>4, <1>7, <1>9 DEF EscapeOf

\* Texts and markers that FoundAt() does not find hold none.
LEMMA NoMarkersIn ==
    ASSUME NEW r \in Text, \A m \in Markers, i \in Nat \ {0} : ~ FoundAt(r, m, i)
    PROVE  MarkersIn(r) = {}
<1>1. SUFFICES ASSUME NEW p \in Markers, NEW i \in DOMAIN r, NEW j \in DOMAIN r,
                      LowerCase(p) = SubSeq(LowerCase(r), i, j)
               PROVE  FALSE
    BY DEF MarkersIn, Markers
<1>2. /\ p \in Text /\ Len(p) \in Nat /\ Len(p) > 0 /\ DOMAIN p = 1..Len(p)
      /\ Len(r) \in Nat /\ DOMAIN r = 1..Len(r)
    BY PassesAreNeedles DEF IsNeedle, Text
<1>3. PICK a, b : a = LowerCase(p) /\ b = LowerCase(r)
    OBVIOUS
<1>4. PICK S : S = {Lower(l) : l \in Lexemes}
    OBVIOUS
<1>5. a \in Seq(S) /\ Len(a) = Len(p) /\ \A k \in 1..Len(p) : a[k] = Lower(p[k])
    <2>1. \A k \in 1..Len(p) : p[k] \in Lexemes
        BY <1>2 DEF Text
    <2>2. a = [k \in 1..Len(p) |-> Lower(p[k])]
        BY <1>2, <1>3 DEF LowerCase
    <2>3. a \in [1..Len(p) -> S]
        BY <1>4, <2>1, <2>2
    <2>4. QED  BY <1>2, <2>2, <2>3, SegmentIsSeq
<1>6. b \in Seq(S) /\ Len(b) = Len(r) /\ \A k \in 1..Len(r) : b[k] = Lower(r[k])
    <2>1. \A k \in 1..Len(r) : r[k] \in Lexemes
        BY <1>2 DEF Text
    <2>2. b = [k \in 1..Len(r) |-> Lower(r[k])]
        BY <1>2, <1>3 DEF LowerCase
    <2>3. b \in [1..Len(r) -> S]
        BY <1>4, <2>1, <2>2
    <2>4. QED  BY <1>2, <2>2, <2>3, SegmentIsSeq
<1>7. a = SubSeq(b, i, j) /\ i \in 1..Len(b) /\ j \in 1..Len(b)
    BY <1>1, <1>2, <1>3, <1>6
<1>8. CASE i <= j
    <2>1. Len(a) = j - i + 1 /\ \A k \in 1..(j - i + 1) : a[k] = b[i + k - 1]
        BY <1>6, <1>7, <1>8
    <2>2. j = i + Len(p) - 1
        BY <1>2, <1>5, <2>1
    <2>3. \A k \in 1..Len(p) : Lower(r[i + k - 1]) = Lower(p[k])
        <3>1. ASSUME NEW k \in 1..Len(p) PROVE Lower(r[i + k - 1]) = Lower(p[k])
            <4>1. i + k - 1 \in 1..Len(r) /\ k \in 1..(j - i + 1)
                BY <1>2, <1>6, <1>7, <2>2
            <4>2. QED  BY <1>5, <1>6, <2>1, <4>1
        <3>2. QED  BY <3>1
    <2>4. i + Len(p) - 1 <= Len(r) /\ i \in Nat \ {0}
        BY <1>2, <2>2
    <2>5. FoundAt(r, p, i)
        BY <1>2, <2>3, <2>4, FoundPointwise DEF Text
    <2>6. QED  BY <2>4, <2>5
<1>9. CASE ~ (i <= j)
    <2>1. Len(a) = 0
        BY <1>6, <1>7, <1>9
    <2>2. QED  BY <1>2, <1>5, <2>1
<1>10. QED  BY <1>8, <1>9

\* The opening delimiter, and how a wrapped text starts.
LEMMA OpenThenSpace ==
    /\ Open \in Seq(Lexemes) /\ Len(Open) = 2 /\ Open[1] = "<" /\ Open[2] = "email:message"
    /\ \A n : n = Open \o <<" ">> =>
          /\ n \in Seq(Lexemes) /\ Len(n) = 3
          /\ \A k \in 1..2 : n[k] = Open[k]
          /\ n[3] = " "
<1>1. "<" \in Lexemes /\ "email:message" \in Lexemes /\ " " \in Lexemes
    BY ReadAssumption DEF Vocabulary
<1>2. PICK a, b, c : a = "<" /\ b = "email:message" /\ c = " "
    OBVIOUS
<1>3. PICK u, v : u = <<a, b>> /\ v = <<c>>
    OBVIOUS
<1>4. Open = u /\ <<" ">> = v
    BY <1>2, <1>3 DEF Open
<1>5. a \in Lexemes /\ b \in Lexemes /\ c \in Lexemes
    BY <1>1, <1>2
<1>6. /\ u \in Seq(Lexemes) /\ Len(u) = 2 /\ u[1] = a /\ u[2] = b
      /\ v \in Seq(Lexemes) /\ Len(v) = 1 /\ v[1] = c
    BY <1>3, <1>5
<1>7. ASSUME NEW n, n = u \o v
      PROVE  /\ n \in Seq(Lexemes) /\ Len(n) = 3
             /\ \A k \in 1..2 : n[k] = u[k]
             /\ n[3] = c
    <2>1. /\ n \in Seq(Lexemes) /\ Len(n) = Len(u) + Len(v)
          /\ \A k \in 1..Len(u) : n[k] = u[k]
          /\ \A k \in (Len(u) + 1)..(Len(u) + Len(v)) : n[k] = v[k - Len(u)]
        BY <1>6, <1>7, Concatenated
    <2>2. 3 \in (Len(u) + 1)..(Len(u) + Len(v)) /\ 3 - Len(u) = 1
        BY <1>6
    <2>3. QED  BY <1>6, <2>1, <2>2
<1>8. QED  BY <1>2, <1>4, <1>6, <1>7

\* Where a needle is found, what it begins with is found.
LEMMA FoundPrefix ==
    ASSUME NEW S, NEW t \in Seq(S), NEW n \in Seq(S), NEW m \in Seq(S), NEW i \in Nat \ {0},
           Len(m) > 0, Len(m) <= Len(n), \A k \in 1..Len(m) : n[k] = m[k],
           FoundAt(t, n, i)
    PROVE  FoundAt(t, m, i)
<1>0. Len(n) \in Nat /\ Len(m) \in Nat /\ Len(t) \in Nat /\ Len(n) > 0
    OBVIOUS
<1>1. /\ i + Len(n) - 1 <= Len(t)
      /\ \A k \in 1..Len(n) : Lower(t[i + k - 1]) = Lower(n[k])
    BY <1>0, FoundPointwise
<1>2. /\ i + Len(m) - 1 <= Len(t)
      /\ \A k \in 1..Len(m) : Lower(t[i + k - 1]) = Lower(m[k])
    BY <1>0, <1>1
<1>3. QED  BY <1>0, <1>2, FoundPointwise

\* Each marker is_suspicious() looks for is one that is escaped, up to case, or
\* begins with one: the two tables agree where it matters.
LEMMA SuspiciousHasMarker ==
    ASSUME NEW t \in Text, Suspicious(t), ~ Mentions(t, <<"phrase">>)
    PROVE  \E m \in Markers, i \in Nat \ {0} : FoundAt(t, m, i)
<1>0. DOMAIN t \subseteq Nat \ {0} /\ Len(t) \in Nat
    BY DEF Text
<1>1. /\ \A k \in 1..8 : ANGLE_ROLE_TOKENS[k] \in Markers
      /\ \A k \in 1..2 : BRACKET_ROLE_TOKENS[k] \in Markers
      /\ Close \in Markers /\ Open \in Markers
    <2>1. DOMAIN ANGLE_ROLE_TOKENS = 1..8 /\ DOMAIN BRACKET_ROLE_TOKENS = 1..2
        BY DEF ANGLE_ROLE_TOKENS, BRACKET_ROLE_TOKENS
    <2>2. QED  BY <2>1 DEF Markers, Range
<1>2. PICK marker : /\ marker \in SUSPICIOUS_ROLE_MARKERS \cup {Close, Open \o <<" ">>}
                    /\ \E i \in DOMAIN t : FoundAt(t, marker, i)
    BY DEF Suspicious, Mentions
<1>3. PICK i \in DOMAIN t : FoundAt(t, marker, i)
    BY <1>2
<1>4. ASSUME marker \in Markers PROVE \E m \in Markers, j \in Nat \ {0} : FoundAt(t, m, j)
    BY <1>0, <1>3, <1>4
<1>5. CASE marker = Close
    BY <1>1, <1>4, <1>5
<1>6. CASE marker \in {<<"<", "system", ">">>, <<"<", "/", "system", ">">>,
                       <<"<", "assistant", ">">>, <<"<", "/", "assistant", ">">>,
                       <<"<", "|im_start|", ">">>, <<"<", "|im_end|", ">">>}
    <2>1. \E k \in 1..8 : marker = ANGLE_ROLE_TOKENS[k]
        <3>1. /\ ANGLE_ROLE_TOKENS[1] = <<"<", "system", ">">>
              /\ ANGLE_ROLE_TOKENS[2] = <<"<", "/", "system", ">">>
              /\ ANGLE_ROLE_TOKENS[3] = <<"<", "assistant", ">">>
              /\ ANGLE_ROLE_TOKENS[4] = <<"<", "/", "assistant", ">">>
              /\ ANGLE_ROLE_TOKENS[7] = <<"<", "|im_start|", ">">>
              /\ ANGLE_ROLE_TOKENS[8] = <<"<", "|im_end|", ">">>
            BY DEF ANGLE_ROLE_TOKENS
        <3>2. \A k \in {1, 2, 3, 4, 7, 8} : k \in 1..8
            OBVIOUS
        <3>3. QED  BY <1>6, <3>1, <3>2, Zenon
    <2>2. QED  BY <1>1, <1>4, <2>1
<1>7. CASE marker \in {<<"[", "inst", "]">>, <<"[", "/", "inst", "]">>}
    <2>1. /\ LowerCase(<<"[", "inst", "]">>) = LowerCase(<<"[", "INST", "]">>)
          /\ LowerCase(<<"[", "/", "inst", "]">>) = LowerCase(<<"[", "/", "INST", "]">>)
        BY DEF LowerCase, Lower
    <2>2. /\ Len(<<"[", "inst", "]">>) = Len(<<"[", "INST", "]">>)
          /\ Len(<<"[", "/", "inst", "]">>) = Len(<<"[", "/", "INST", "]">>)
        OBVIOUS
    <2>3. /\ BRACKET_ROLE_TOKENS[1] = <<"[", "INST", "]">>
          /\ BRACKET_ROLE_TOKENS[2] = <<"[", "/", "INST", "]">>
        BY DEF BRACKET_ROLE_TOKENS
    <2>4. PICK m \in Markers : LowerCase(marker) = LowerCase(m) /\ Len(marker) = Len(m)
        <3>1. 1 \in 1..2 /\ 2 \in 1..2
            OBVIOUS
        <3>2. QED  BY <1>1, <1>7, <2>1, <2>2, <2>3, <3>1, Zenon
    <2>5. FoundAt(t, m, i)
        BY <1>3, <2>4 DEF FoundAt
    <2>6. QED  BY <1>0, <2>5
<1>8. CASE marker = Open \o <<" ">>
    <2>1. PICK n : n = Open \o <<" ">>
        OBVIOUS
    <2>2. n \in Seq(Lexemes) /\ Len(n) = 3 /\ \A k \in 1..2 : n[k] = Open[k]
        BY <2>1, OpenThenSpace
    <2>3. Open \in Seq(Lexemes) /\ Len(Open) = 2
        BY OpenThenSpace
    <2>4. FoundAt(t, n, i) /\ i \in Nat \ {0} /\ t \in Seq(Lexemes)
        BY <1>0, <1>3, <1>8, <2>1 DEF Text
    <2>5. \A k \in 1..Len(Open) : n[k] = Open[k]
        BY <2>2, <2>3
    <2>6. FoundAt(t, Open, i)
        <3>1. Len(Open) > 0 /\ Len(Open) <= Len(n)
            BY <2>2, <2>3
        <3>2. n \in Seq(Lexemes) /\ Open \in Seq(Lexemes)
            BY <2>2, <2>3
        <3>3. QED  BY <2>4, <2>5, <3>1, <3>2, FoundPrefix
    <2>7. QED  BY <1>0, <1>1, <2>6
<1>9. QED  BY <1>2, <1>5, <1>6, <1>7, <1>8 DEF SUSPICIOUS_ROLE_MARKERS

\* The escapes are right for every text, of whatever length and lexemes.
THEOREM EscapesEveryText == EscapeSoundFor(Text)
<1> SUFFICES ASSUME NEW t \in Text
             PROVE  /\ MarkersIn(Escape(t)) = {}
                    /\ Unescaped(Escape(t)) = Unescaped(t)
                    /\ Suspicious(t) /\ ~ Mentions(t, <<"phrase">>) => Escape(t) # t
    BY DEF EscapeSoundFor
<1>1. EscapeOf(t, Escape(t))
    BY EscapeIsClean
<1>2. MarkersIn(Escape(t)) = {}
    BY <1>1, NoMarkersIn DEF EscapeOf
<1>3. ASSUME Suspicious(t), ~ Mentions(t, <<"phrase">>), Escape(t) = t PROVE FALSE
    <2>1. PICK m \in Markers, i \in Nat \ {0} : FoundAt(t, m, i)
        BY <1>3, SuspiciousHasMarker
    <2>2. QED  BY <1>1, <1>3, <2>1 DEF EscapeOf
<1>4. QED  BY <1>1, <1>2, <1>3 DEF EscapeOf

\* Nothing an initial state depends on: the run's texts are texts.
THEOREM EscapesAreSound == Spec => []EscapeSound
<1>1. EscapeSoundFor(Texts)
    BY EscapesEveryText, ReadAssumption DEF EscapeSoundFor
<1>2. EscapeSound
    BY <1>1 DEF EscapeSound
<1>3. QED  BY <1>2, PTL

\* One more lexeme.
LEMMA ConcatOne ==
    ASSUME NEW s \in Seq(Lexemes), NEW l \in Lexemes, NEW w, w = s \o <<l>>
    PROVE  /\ w \in Seq(Lexemes) /\ Len(w) = Len(s) + 1
           /\ \A k \in 1..Len(s) : w[k] = s[k]
           /\ w[Len(s) + 1] = l
<1>1. PICK v : v = <<l>>
    OBVIOUS
<1>2. v \in Seq(Lexemes) /\ Len(v) = 1 /\ v[1] = l /\ Len(s) \in Nat
    BY <1>1
<1>3. /\ w \in Seq(Lexemes) /\ Len(w) = Len(s) + Len(v)
      /\ \A k \in 1..Len(s) : w[k] = s[k]
      /\ \A k \in (Len(s) + 1)..(Len(s) + Len(v)) : w[k] = v[k - Len(s)]
    BY <1>1, <1>2, Concatenated
<1>4. Len(s) + 1 \in (Len(s) + 1)..(Len(s) + Len(v)) /\ Len(s) + 1 - Len(s) = 1
    BY <1>2
<1>5. QED  BY <1>2, <1>3, <1>4

\* Where wrap_body() puts what.
Layout(w, a, e) ==
    /\ w \in Text /\ Len(w) = Len(a) + Len(e) + 8
    /\ w[1] = "<" /\ w[2] = "email:message" /\ w[3] = " "
    /\ \A k \in 1..Len(a) : w[3 + k] = a[k]
    /\ w[4 + Len(a)] = ">"
    /\ \A k \in 1..Len(e) : w[4 + Len(a) + k] = e[k]
    /\ w[5 + Len(a) + Len(e)] = "<" /\ w[6 + Len(a) + Len(e)] = "/"
    /\ w[7 + Len(a) + Len(e)] = "email:message" /\ w[8 + Len(a) + Len(e)] = ">"

\* Six pieces one after the other.
Pieces(w, s, a, b, e, c, x, y) ==
    /\ w \in Seq(Lexemes) /\ Len(w) = x + y + 8
    /\ \A k \in 1..3 : w[k] = s[k]
    /\ \A k \in 1..x : w[3 + k] = a[k]
    /\ w[4 + x] = b
    /\ \A k \in 1..y : w[4 + x + k] = e[k]
    /\ \A k \in 1..3 : w[4 + x + y + k] = c[k]
    /\ w[8 + x + y] = b

\* Where the pieces of a wrapped text are.
LEMMA Assembled ==
    ASSUME NEW s \in Seq(Lexemes), NEW a \in Seq(Lexemes), NEW e \in Seq(Lexemes),
           NEW c \in Seq(Lexemes), NEW b \in Lexemes,
           NEW x \in Nat, NEW y \in Nat,
           Len(s) = 3, Len(c) = 3, Len(a) = x, Len(e) = y,
           NEW w, w = s \o a \o <<b>> \o e \o c \o <<b>>
    PROVE  Pieces(w, s, a, b, e, c, x, y)
<1>2. PICK s2 : s2 = s \o a
    OBVIOUS
<1>3. PICK s3 : s3 = s2 \o <<b>>
    OBVIOUS
<1>4. PICK s4 : s4 = s3 \o e
    OBVIOUS
<1>5. PICK s5 : s5 = s4 \o c
    OBVIOUS
<1>6. w = s5 \o <<b>>
    BY <1>2, <1>3, <1>4, <1>5
<1>14. /\ s2 \in Seq(Lexemes) /\ Len(s2) = Len(s) + Len(a)
       /\ \A k \in 1..Len(s) : s2[k] = s[k]
       /\ \A k \in (Len(s) + 1)..(Len(s) + Len(a)) : s2[k] = a[k - Len(s)]
    BY <1>2, Concatenated
<1>15. /\ s3 \in Seq(Lexemes) /\ Len(s3) = Len(s2) + 1
       /\ \A k \in 1..Len(s2) : s3[k] = s2[k]
       /\ s3[Len(s2) + 1] = b
    BY <1>3, <1>14, ConcatOne
<1>16. /\ s4 \in Seq(Lexemes) /\ Len(s4) = Len(s3) + Len(e)
       /\ \A k \in 1..Len(s3) : s4[k] = s3[k]
       /\ \A k \in (Len(s3) + 1)..(Len(s3) + Len(e)) : s4[k] = e[k - Len(s3)]
    BY <1>4, <1>15, Concatenated
<1>17. /\ s5 \in Seq(Lexemes) /\ Len(s5) = Len(s4) + Len(c)
       /\ \A k \in 1..Len(s4) : s5[k] = s4[k]
       /\ \A k \in (Len(s4) + 1)..(Len(s4) + Len(c)) : s5[k] = c[k - Len(s4)]
    <2>1. s4 \in Seq(Lexemes)
        BY <1>16
    <2>2. QED  BY <1>5, <2>1, Concatenated
<1>18. /\ w \in Seq(Lexemes) /\ Len(w) = Len(s5) + 1
       /\ \A k \in 1..Len(s5) : w[k] = s5[k]
       /\ w[Len(s5) + 1] = b
    <2>1. s5 \in Seq(Lexemes) /\ b \in Lexemes
        BY <1>17
    <2>2. PICK v : v = s5 \o <<b>>
        OBVIOUS
    <2>3. /\ v \in Seq(Lexemes) /\ Len(v) = Len(s5) + 1
          /\ \A k \in 1..Len(s5) : v[k] = s5[k]
          /\ v[Len(s5) + 1] = b
        <3> HIDE <1>6
        <3>1. QED  BY ONLY <2>1, <2>2, ConcatOne
    <2>4. w = v
        BY <1>6, <2>2
    <2>5. QED  BY <2>3, <2>4
<1>19. Len(s2) = 3 + x
    BY <1>14
<1>20. Len(s3) = 4 + x
    BY <1>15, <1>19
<1>21. Len(s4) = 4 + x + y
    BY <1>16, <1>20
<1>22. Len(s5) = 7 + x + y
    BY <1>17, <1>21
<1>23. Len(w) = x + y + 8
    BY <1>18, <1>22
<1>24. \A k \in 1..(7 + x + y) : w[k] = s5[k]
    BY <1>18, <1>22
<1>25. \A k \in 1..(4 + x + y) : w[k] = s4[k]
    <2>1. ASSUME NEW k \in 1..(4 + x + y) PROVE w[k] = s4[k]
        <3>1. k \in 1..(7 + x + y)
            OBVIOUS
        <3>2. s5[k] = s4[k]
            BY <1>17, <1>21
        <3>3. QED  BY <1>24, <3>1, <3>2
    <2>2. QED  BY <2>1
<1>26. \A k \in 1..(4 + x) : w[k] = s3[k]
    <2>1. ASSUME NEW k \in 1..(4 + x) PROVE w[k] = s3[k]
        <3>1. k \in 1..(4 + x + y)
            OBVIOUS
        <3>2. s4[k] = s3[k]
            BY <1>16, <1>20
        <3>3. QED  BY <1>25, <3>1, <3>2
    <2>2. QED  BY <2>1
<1>27. \A k \in 1..(3 + x) : w[k] = s2[k]
    <2>1. ASSUME NEW k \in 1..(3 + x) PROVE w[k] = s2[k]
        <3>1. k \in 1..(4 + x)
            OBVIOUS
        <3>2. s3[k] = s2[k]
            BY <1>15, <1>19
        <3>3. QED  BY <1>26, <3>1, <3>2
    <2>2. QED  BY <2>1
<1>28. \A k \in 1..3 : w[k] = s[k]
    <2>1. ASSUME NEW k \in 1..3 PROVE w[k] = s[k]
        <3>1. k \in 1..(3 + x)
            OBVIOUS
        <3>2. s2[k] = s[k]
            BY <1>14
        <3>3. QED  BY <1>27, <3>1, <3>2
    <2>2. QED  BY <2>1
<1>29. \A k \in 1..x : w[3 + k] = a[k]
    <2>1. ASSUME NEW k \in 1..x PROVE w[3 + k] = a[k]
        <3>1. 3 + k \in 1..(3 + x) /\ 3 + k \in (3 + 1)..(3 + x) /\ 3 + k - 3 = k
            OBVIOUS
        <3>2. s2[3 + k] = a[3 + k - 3]
            BY <1>14, <3>1
        <3>3. QED  BY <1>27, <3>1, <3>2
    <2>2. QED  BY <2>1
<1>30. w[4 + x] = b
    <2>1. 4 + x \in 1..(4 + x) /\ s3[4 + x] = b
        <3>1. Len(s2) + 1 = 4 + x
            BY <1>19
        <3>2. QED  BY <1>15, <3>1
    <2>2. QED  BY <1>26, <2>1
<1>31. \A k \in 1..y : w[4 + x + k] = e[k]
    <2>1. ASSUME NEW k \in 1..y PROVE w[4 + x + k] = e[k]
        <3>1. PICK n : n = 4 + x
            OBVIOUS
        <3>2. n \in Nat /\ Len(s3) = n /\ n = 4 + x
            BY <1>20, <3>1
        <3>3. n + k \in (n + 1)..(n + y) /\ n + k - n = k /\ n + k \in 1..(4 + x + y)
            BY <3>2
        <3>4. s4[n + k] = e[n + k - n]
            BY <1>16, <3>2, <3>3
        <3>5. w[n + k] = s4[n + k]
            BY <1>25, <3>3
        <3>6. QED  BY <3>2, <3>3, <3>4, <3>5
    <2>2. QED  BY <2>1
<1>32. \A k \in 1..3 : w[4 + x + y + k] = c[k]
    <2>1. ASSUME NEW k \in 1..3 PROVE w[4 + x + y + k] = c[k]
        <3>1. PICK n : n = 4 + x + y
            OBVIOUS
        <3>2. n \in Nat /\ Len(s4) = n /\ n = 4 + x + y
            BY <1>21, <3>1
        <3>3. n + k \in (n + 1)..(n + 3) /\ n + k - n = k /\ n + k \in 1..(7 + x + y)
            BY <3>2
        <3>4. s5[n + k] = c[n + k - n]
            BY <1>17, <3>2, <3>3
        <3>5. w[n + k] = s5[n + k]
            BY <1>24, <3>3
        <3>6. QED  BY <3>2, <3>3, <3>4, <3>5
    <2>2. QED  BY <2>1
<1>33. w[8 + x + y] = b
    <2>1. Len(s5) + 1 = 8 + x + y
        BY <1>22
    <2>2. QED  BY <1>18, <2>1
<1>34. QED
    BY <1>18, <1>23, <1>28, <1>29, <1>30, <1>31, <1>32, <1>33 DEF Pieces

\* attr_escape() is piecewise and leaves no angle bracket.
LEMMA AttrEscaped ==
    ASSUME NEW t \in Text
    PROVE  /\ AttrEscape(t) \in Text
           /\ \A k \in 1..Len(AttrEscape(t)) : AttrEscape(t)[k] # "<"
<1>1. PICK a, n : a = AttrEscape(t) /\ n = Len(t)
    OBVIOUS
<1>2. t \in [1..n -> Lexemes] /\ n \in Nat /\ DOMAIN t = 1..n
    BY <1>1 DEF Text
<1>3. a = [i \in 1..n |-> IF t[i] \in {"<", ">"} THEN Entity(t[i]) ELSE t[i]]
    BY <1>1, <1>2 DEF AttrEscape
<1>4. \A i \in 1..n : Entity(t[i]) \in Lexemes
    BY <1>2, LowerFacts
<1>5. a \in [1..n -> Lexemes]
    BY <1>2, <1>3, <1>4
<1>6. a \in Seq(Lexemes) /\ Len(a) = n
    BY <1>2, <1>5, SegmentIsSeq
<1>7. \A i \in 1..n : a[i] # "<"
    BY <1>3 DEF Entity
<1>8. QED  BY <1>1, <1>6, <1>7 DEF Text

\* The closing delimiter.
LEMMA CloseFacts ==
    /\ Close \in Seq(Lexemes) /\ Len(Close) = 3
    /\ Close[1] = "<" /\ Close[2] = "/" /\ Close[3] = "email:message"
<1>1. Close \in Seq(Lexemes)
    BY PassesAreNeedles DEF Markers, IsNeedle, Text
<1>2. QED  BY <1>1 DEF Close

\* wrap_body() has that layout.
LEMMA WrapLayout ==
    ASSUME NEW sender \in Text, NEW body \in Text
    PROVE  Layout(WrapBody(sender, body), AttrEscape(sender), Escape(body))
<1>1. PICK a, e, b, s, c : /\ a = AttrEscape(sender) /\ e = Escape(body)
                           /\ b = ">" /\ s = Open \o <<" ">> /\ c = Close
    OBVIOUS
<1>2. PICK w : w = s \o a \o <<b>> \o e \o c \o <<b>>
    OBVIOUS
<1>3. WrapBody(sender, body) = w
    BY <1>1, <1>2 DEF WrapBody
<1>4. /\ s \in Seq(Lexemes) /\ Len(s) = 3
      /\ s[1] = "<" /\ s[2] = "email:message" /\ s[3] = " "
    <2>1. s = Open \o <<" ">>
        BY <1>1
    <2>2. /\ s \in Seq(Lexemes) /\ Len(s) = 3
          /\ \A k \in 1..2 : s[k] = Open[k]
          /\ s[3] = " "
        BY ONLY <2>1, OpenThenSpace
    <2>3. s[1] = Open[1] /\ s[2] = Open[2]
        <3>1. 1 \in 1..2 /\ 2 \in 1..2
            OBVIOUS
        <3>2. \A k \in 1..2 : s[k] = Open[k]
            BY <2>2
        <3>3. QED  BY ONLY <3>1, <3>2, Zenon
    <2>4. QED  BY <2>2, <2>3, OpenThenSpace
<1>5. /\ c \in Seq(Lexemes) /\ Len(c) = 3
      /\ c[1] = "<" /\ c[2] = "/" /\ c[3] = "email:message"
    BY <1>1, CloseFacts
<1>6. a \in Seq(Lexemes)
    BY <1>1, AttrEscaped DEF Text
<1>7. e \in Seq(Lexemes)
    BY <1>1, EscapeIsClean DEF EscapeOf, Text
<1>8. b \in Lexemes
    BY <1>1, ReadAssumption DEF Vocabulary
<1>9. PICK x, y : x = Len(a) /\ y = Len(e)
    OBVIOUS
<1>10. x \in Nat /\ y \in Nat
    BY <1>6, <1>7, <1>9
<1>11. Len(s) = 3 /\ Len(c) = 3
    BY <1>4, <1>5
<1>12. Len(a) = x /\ Len(e) = y
    BY <1>9
<1>13. s \in Seq(Lexemes) /\ c \in Seq(Lexemes)
    BY <1>4, <1>5
<1>14. Pieces(w, s, a, b, e, c, x, y)
    BY <1>2, <1>6, <1>7, <1>8, <1>10, <1>11, <1>12, <1>13, Assembled
<1>15. w[1] = "<" /\ w[2] = "email:message" /\ w[3] = " "
    <2>1. \A k \in 1..3 : w[k] = s[k]
        BY <1>14 DEF Pieces
    <2>2. w[1] = s[1] /\ w[2] = s[2] /\ w[3] = s[3]
        BY <2>1
    <2>3. QED  BY <1>4, <2>2
<1>16. /\ w[5 + x + y] = "<" /\ w[6 + x + y] = "/" /\ w[7 + x + y] = "email:message"
    <2>1. \A k \in 1..3 : w[4 + x + y + k] = c[k]
        BY <1>14 DEF Pieces
    <2>2. w[4 + x + y + 1] = c[1] /\ w[4 + x + y + 2] = c[2] /\ w[4 + x + y + 3] = c[3]
        BY <2>1
    <2>3. /\ 4 + x + y + 1 = 5 + x + y /\ 4 + x + y + 2 = 6 + x + y
          /\ 4 + x + y + 3 = 7 + x + y
        BY <1>10
    <2>4. QED  BY <1>5, <2>2, <2>3
<1>17. /\ w \in Text /\ Len(w) = x + y + 8
       /\ \A k \in 1..x : w[3 + k] = a[k]
       /\ w[4 + x] = b
       /\ \A k \in 1..y : w[4 + x + k] = e[k]
       /\ w[8 + x + y] = b
    BY <1>14 DEF Pieces, Text
<1>18. Layout(w, a, e)
    BY <1>1, <1>12, <1>15, <1>16, <1>17 DEF Layout
<1>19. QED  BY <1>1, <1>3, <1>18

\* An angle bracket stands for itself in every case.
LEMMA LowerIs ==
    ASSUME NEW l, NEW b, b \in {"<", "/", "email:message"}
    PROVE  (Lower(l) = Lower(b) <=> l = b)
BY LowerFacts DEF Brackets

\* A needle that starts with an angle bracket is found in a wrapped text at one
\* of the two delimiters, or in the escaped body.
LEMMA WrapHits ==
    ASSUME NEW a \in Text, NEW e \in Text, NEW w, Layout(w, a, e),
           \A k \in 1..Len(a) : a[k] # "<",
           NEW n, IsNeedle(n), n[1] = "<", NEW i \in Nat \ {0}, FoundAt(w, n, i)
    PROVE  \/ i = 1 \/ i = 5 + Len(a) + Len(e)
           \/ i - 4 - Len(a) \in Nat \ {0} /\ FoundAt(e, n, i - 4 - Len(a))
<1>1. PICK x, y, N : x = Len(a) /\ y = Len(e) /\ N = Len(n)
    OBVIOUS
<1>2. x \in Nat /\ y \in Nat /\ N \in Nat /\ N > 0
    BY <1>1 DEF Text, IsNeedle
<1>3. Len(w) = x + y + 8
    BY <1>1 DEF Layout
<1>4. i + N - 1 <= x + y + 8 /\ \A k \in 1..N : Lower(w[i + k - 1]) = Lower(n[k])
    <2>1. w \in Seq(Lexemes)
        BY DEF Layout, Text
    <2>2. n \in Seq(Lexemes) /\ Len(n) > 0
        BY DEF IsNeedle, Text
    <2>3. /\ i + Len(n) - 1 <= Len(w)
          /\ \A k \in 1..Len(n) : Lower(w[i + k - 1]) = Lower(n[k])
        BY <2>1, <2>2, FoundPointwise
    <2>4. QED  BY <1>1, <1>3, <2>3
<1>5. w[i] = "<"
    <2>1. 1 \in 1..N /\ i + 1 - 1 = i
        BY <1>2
    <2>2. Lower(w[i]) = Lower(n[1])
        BY <1>4, <2>1
    <2>3. QED  BY <2>2, LowerIs
<1>6. SUFFICES ASSUME i # 1, i # 5 + x + y
               PROVE  i - 4 - x \in Nat \ {0} /\ FoundAt(e, n, i - 4 - x)
    BY <1>1
<1>7. i > 3
    <2>1. i # 2 /\ i # 3
        BY <1>5 DEF Layout
    <2>2. QED  BY <1>6, <2>1
<1>8. i > 3 + x
    <2>1. SUFFICES ASSUME i <= 3 + x PROVE FALSE
        BY <1>2
    <2>2. i - 3 \in 1..x /\ 3 + (i - 3) = i
        BY <1>2, <1>7, <2>1
    <2>3. w[3 + (i - 3)] = a[i - 3] /\ a[i - 3] # "<"
        BY <1>1, <2>2 DEF Layout
    <2>4. QED  BY <1>5, <2>2, <2>3
<1>9. i > 4 + x
    <2>1. i # 4 + x
        BY <1>1, <1>5 DEF Layout
    <2>2. QED  BY <1>2, <1>8, <2>1
<1>10. i < 5 + x + y
    <2>1. /\ w[6 + x + y] # "<" /\ w[7 + x + y] # "<" /\ w[8 + x + y] # "<"
        BY <1>1 DEF Layout
    <2>2. i # 6 + x + y /\ i # 7 + x + y /\ i # 8 + x + y
        BY <1>5, <2>1
    <2>3. i <= x + y + 8
        BY <1>2, <1>4
    <2>4. QED  BY <1>2, <1>6, <2>2, <2>3
<1>11. i + N - 1 <= 4 + x + y
    <2>1. SUFFICES ASSUME i + N - 1 > 4 + x + y PROVE FALSE
        BY <1>2
    <2>2. PICK k : k = 6 + x + y - i
        OBVIOUS
    <2>3. k \in 1..N /\ k > 1 /\ i + k - 1 = 5 + x + y
        BY <1>2, <1>10, <2>1, <2>2
    <2>4. Lower(w[5 + x + y]) = Lower(n[k])
        BY <1>4, <2>3
    <2>5. w[5 + x + y] = "<"
        BY <1>1 DEF Layout
    <2>6. n[k] = "<"
        BY <2>4, <2>5, LowerIs
    <2>7. n[k] \notin Brackets
        BY <1>1, <2>3 DEF IsNeedle
    <2>8. QED  BY <2>6, <2>7 DEF Brackets
<1>12. PICK j : j = i - 4 - x
    OBVIOUS
<1>13. j \in Nat \ {0} /\ i = 4 + x + j /\ j + N - 1 <= y
    BY <1>2, <1>9, <1>11, <1>12
<1>14. ASSUME NEW k \in 1..N PROVE Lower(e[j + k - 1]) = Lower(n[k])
    <2>1. j + k - 1 \in 1..y /\ 4 + x + (j + k - 1) = i + k - 1
        BY <1>2, <1>13
    <2>2. w[4 + x + (j + k - 1)] = e[j + k - 1]
        BY <1>1, <2>1 DEF Layout
    <2>3. QED  BY <1>4, <2>1, <2>2
<1>15. FoundAt(e, n, j)
    <2>1. n \in Seq(Lexemes) /\ Len(n) > 0 /\ e \in Seq(Lexemes)
        BY DEF IsNeedle, Text
    <2>2. j + Len(n) - 1 <= Len(e) /\ \A k \in 1..Len(n) : Lower(e[j + k - 1]) = Lower(n[k])
        BY <1>1, <1>13, <1>14
    <2>3. j \in Nat \ {0}
        BY <1>13
    <2>4. QED  BY <2>1, <2>2, <2>3, FoundPointwise
<1>16. QED  BY <1>12, <1>13, <1>15

\* The role tokens in angle brackets are no delimiters.
LEMMA AngleTokens ==
    \A m \in Range(ANGLE_ROLE_TOKENS) :
        m \in Markers /\ m[1] = "<" /\ Len(m) > 2
        /\ m[2] # "email:message" /\ m[3] # "email:message"
<1>1. \A m \in Range(ANGLE_ROLE_TOKENS) : m \in Markers
    BY DEF Markers
<1>2. ASSUME NEW k \in 1..8
      PROVE  LET m == ANGLE_ROLE_TOKENS[k] IN
             m[1] = "<" /\ Len(m) > 2 /\ m[2] # "email:message" /\ m[3] # "email:message"
    <2>1. k = 1 \/ k = 2 \/ k = 3 \/ k = 4 \/ k = 5 \/ k = 6 \/ k = 7 \/ k = 8
        OBVIOUS
    <2>2. CASE k = 1  BY <2>2 DEF ANGLE_ROLE_TOKENS
    <2>3. CASE k = 2  BY <2>3 DEF ANGLE_ROLE_TOKENS
    <2>4. CASE k = 3  BY <2>4 DEF ANGLE_ROLE_TOKENS
    <2>5. CASE k = 4  BY <2>5 DEF ANGLE_ROLE_TOKENS
    <2>6. CASE k = 5  BY <2>6 DEF ANGLE_ROLE_TOKENS
    <2>7. CASE k = 6  BY <2>7 DEF ANGLE_ROLE_TOKENS
    <2>8. CASE k = 7  BY <2>8 DEF ANGLE_ROLE_TOKENS
    <2>9. CASE k = 8  BY <2>9 DEF ANGLE_ROLE_TOKENS
    <2>10. QED  BY <2>1, <2>2, <2>3, <2>4, <2>5, <2>6, <2>7, <2>8, <2>9
<1>3. DOMAIN ANGLE_ROLE_TOKENS = 1..8
    BY DEF ANGLE_ROLE_TOKENS
<1>4. QED  BY <1>1, <1>2, <1>3 DEF Range

\* A wrapped text has one opening and one closing delimiter, its own.
LEMMA WrapDelimited ==
    ASSUME NEW sender \in Text, NEW body \in Text
    PROVE  Delimited(WrapBody(sender, body))
<1>1. PICK w, a, e, z : /\ w = WrapBody(sender, body) /\ a = AttrEscape(sender)
                        /\ e = Escape(body) /\ z = 5 + Len(a) + Len(e)
    OBVIOUS
<1>2. Layout(w, a, e)
    BY <1>1, WrapLayout
<1>3. a \in Text /\ \A k \in 1..Len(a) : a[k] # "<"
    BY <1>1, AttrEscaped
<1>4. e \in Text /\ \A m \in Markers, i \in Nat \ {0} : ~ FoundAt(e, m, i)
    BY <1>1, EscapeIsClean DEF EscapeOf
<1>5. /\ Len(a) \in Nat /\ Len(e) \in Nat /\ z \in Nat \ {0}
      /\ Len(w) = z + 3 /\ DOMAIN w = 1..(z + 3) /\ w \in Seq(Lexemes)
    <2>1. Len(a) \in Nat /\ Len(e) \in Nat
        BY <1>3, <1>4 DEF Text
    <2>2. w \in Seq(Lexemes) /\ Len(w) = Len(a) + Len(e) + 8
        BY <1>2 DEF Layout, Text
    <2>3. DOMAIN w = 1..Len(w)
        BY <2>2
    <2>4. z = 5 + Len(a) + Len(e)
        BY <1>1
    <2>5. Len(w) = z + 3 /\ z \in Nat \ {0}
        BY <2>1, <2>2, <2>4
    <2>6. QED  BY <2>1, <2>2, <2>3, <2>5
<1>6. ASSUME NEW m, m \in Markers, m[1] = "<", NEW i \in Nat \ {0}, FoundAt(w, m, i)
      PROVE  i = 1 \/ i = z
    <2>1. IsNeedle(m)
        BY <1>6, PassesAreNeedles
    <2>2. a \in Text /\ e \in Text
        BY <1>3, <1>4
    <2>3. \A k \in 1..Len(a) : a[k] # "<"
        BY <1>3
    <2>4. \/ i = 1 \/ i = 5 + Len(a) + Len(e)
          \/ i - 4 - Len(a) \in Nat \ {0} /\ FoundAt(e, m, i - 4 - Len(a))
        BY <1>2, <1>6, <2>1, <2>2, <2>3, WrapHits
    <2>5. QED  BY <1>1, <1>4, <1>6, <2>4
<1>7. /\ w[1] = "<" /\ w[2] = "email:message" /\ w[3] = " "
      /\ w[z] = "<" /\ w[z + 1] = "/" /\ w[z + 2] = "email:message"
    <2>1. 6 + Len(a) + Len(e) = z + 1 /\ 7 + Len(a) + Len(e) = z + 2
        BY <1>1, <1>5
    <2>2. /\ w[1] = "<" /\ w[2] = "email:message" /\ w[3] = " "
          /\ w[z] = "<" /\ w[6 + Len(a) + Len(e)] = "/"
          /\ w[7 + Len(a) + Len(e)] = "email:message"
        BY <1>1, <1>2 DEF Layout
    <2>3. QED  BY <2>1, <2>2
<1>8. Open \in Markers /\ Close \in Markers
    BY DEF Markers
<1>9. Open \in Seq(Lexemes) /\ Len(Open) = 2 /\ Open[1] = "<" /\ Open[2] = "email:message"
    BY OpenThenSpace
<1>10. /\ Close \in Seq(Lexemes) /\ Len(Close) = 3
       /\ Close[1] = "<" /\ Close[2] = "/" /\ Close[3] = "email:message"
    BY CloseFacts
<1>11. ASSUME NEW n \in Seq(Lexemes), Len(n) > 0, NEW i \in Nat \ {0}
       PROVE  FoundAt(w, n, i) <=> /\ i + Len(n) - 1 <= Len(w)
                                   /\ \A k \in 1..Len(n) : Lower(w[i + k - 1]) = Lower(n[k])
    BY <1>5, <1>11, FoundPointwise
<1>12. FoundAt(w, Open, 1) /\ ~ FoundAt(w, Open, z)
    <2>1. FoundAt(w, Open, 1)
        <3>1. \A k \in 1..2 : Lower(w[1 + k - 1]) = Lower(Open[k])
            <4>1. \A k \in 1..2 : k = 1 \/ k = 2
                OBVIOUS
            <4>2. w[1 + 1 - 1] = Open[1] /\ w[1 + 2 - 1] = Open[2]
                <5>1. 1 + 1 - 1 = 1 /\ 1 + 2 - 1 = 2
                    OBVIOUS
                <5>2. w[1] = Open[1] /\ w[2] = Open[2]
                    BY <1>7, <1>9
                <5>3. QED  BY ONLY <5>1, <5>2
            <4>3. QED  BY <4>1, <4>2
        <3>2. 1 + 2 - 1 <= Len(w) /\ 1 \in Nat \ {0} /\ 2 > 0
            BY <1>5
        <3>3. QED  BY <1>9, <1>11, <3>1, <3>2
    <2>2. ASSUME FoundAt(w, Open, z) PROVE FALSE
        <3>1. \A k \in 1..2 : Lower(w[z + k - 1]) = Lower(Open[k])
            <4>1. FoundAt(w, Open, z) /\ Open \in Seq(Lexemes) /\ Len(Open) = 2 /\ Len(Open) > 0
                BY <1>9, <2>2
            <4>2. z \in Nat \ {0}
                BY <1>5
            <4>3. \A k \in 1..Len(Open) : Lower(w[z + k - 1]) = Lower(Open[k])
                BY <1>11, <4>1, <4>2
            <4>4. QED  BY <4>1, <4>3
        <3>2. 2 \in 1..2 /\ z + 2 - 1 = z + 1
            BY <1>5
        <3>3. Lower(w[z + 1]) = Lower(Open[2])
            BY <3>1, <3>2
        <3>4. w[z + 1] = "email:message"
            BY <1>9, <3>3, LowerIs
        <3>5. QED  BY <1>7, <3>4
    <2>3. QED  BY <2>1, <2>2
<1>13. FoundAt(w, Close, z) /\ ~ FoundAt(w, Close, 1)
    <2>1. FoundAt(w, Close, z)
        <3>1. \A k \in 1..3 : Lower(w[z + k - 1]) = Lower(Close[k])
            <4>1. \A k \in 1..3 : k = 1 \/ k = 2 \/ k = 3
                OBVIOUS
            <4>2. z + 1 - 1 = z /\ z + 2 - 1 = z + 1 /\ z + 3 - 1 = z + 2
                BY <1>5
            <4>3. /\ w[z + 1 - 1] = Close[1] /\ w[z + 2 - 1] = Close[2]
                  /\ w[z + 3 - 1] = Close[3]
                BY <1>7, <1>10, <4>2
            <4>4. QED  BY <4>1, <4>3
        <3>2. z + 3 - 1 <= Len(w) /\ 3 > 0
            BY <1>5
        <3>3. QED  BY <1>5, <1>10, <1>11, <3>1, <3>2
    <2>2. ASSUME FoundAt(w, Close, 1) PROVE FALSE
        <3>1. \A k \in 1..3 : Lower(w[1 + k - 1]) = Lower(Close[k])
            <4>1. FoundAt(w, Close, 1) /\ Close \in Seq(Lexemes) /\ Len(Close) = 3 /\ Len(Close) > 0
                BY <1>10, <2>2
            <4>2. 1 \in Nat \ {0}
                BY <1>5
            <4>3. \A k \in 1..Len(Close) : Lower(w[1 + k - 1]) = Lower(Close[k])
                BY <1>11, <4>1, <4>2
            <4>4. QED  BY <4>1, <4>3
        <3>2. 2 \in 1..3 /\ 1 + 2 - 1 = 2
            OBVIOUS
        <3>3. Lower(w[2]) = Lower(Close[2])
            BY <3>1, <3>2
        <3>4. w[2] = "/"
            BY <1>10, <3>3, LowerIs
        <3>5. QED  BY <1>7, <3>4
    <2>3. QED  BY <2>1, <2>2
<1>14. ASSUME NEW m, m \in Range(ANGLE_ROLE_TOKENS), NEW i \in DOMAIN w, FoundAt(w, m, i)
       PROVE  FALSE
    <2>1. /\ m \in Markers /\ m[1] = "<" /\ Len(m) > 2
          /\ m[2] # "email:message" /\ m[3] # "email:message"
        BY <1>14, AngleTokens
    <2>2. i \in Nat \ {0}
        BY <1>5
    <2>3. i = 1 \/ i = z
        BY <1>6, <1>14, <2>1, <2>2
    <2>4. m \in Seq(Lexemes) /\ Len(m) > 0 /\ Len(m) \in Nat
        BY <2>1, PassesAreNeedles DEF IsNeedle, Text
    <2>5. \A k \in 1..Len(m) : Lower(w[i + k - 1]) = Lower(m[k])
        BY <1>11, <1>14, <2>2, <2>4
    <2>6. 2 \in 1..Len(m) /\ 3 \in 1..Len(m)
        BY <2>1, <2>4
    <2>7. Lower(w[i + 2 - 1]) = Lower(m[2]) /\ Lower(w[i + 3 - 1]) = Lower(m[3])
        BY <2>5, <2>6
    <2>8. CASE i = 1
        <3>1. i + 2 - 1 = 2
            BY <2>8
        <3>2. Lower(m[2]) = Lower("email:message")
            BY <1>7, <2>7, <3>1
        <3>3. QED  BY <2>1, <3>2, LowerIs
    <2>9. CASE i = z
        <3>1. i + 3 - 1 = z + 2
            BY <1>5, <2>9
        <3>2. Lower(m[3]) = Lower("email:message")
            BY <1>7, <2>7, <3>1
        <3>3. QED  BY <2>1, <3>2, LowerIs
    <2>10. QED  BY <2>3, <2>8, <2>9
<1>15. Len(w) - 3 = z /\ z \in DOMAIN w /\ 1 \in DOMAIN w /\ \A i \in DOMAIN w : i \in Nat \ {0}
    BY <1>5
<1>16. {i \in DOMAIN w : FoundAt(w, Open, i)} = {1}
    BY <1>6, <1>8, <1>9, <1>12, <1>15
<1>17. {i \in DOMAIN w : FoundAt(w, Close, i)} = {Len(w) - 3}
    BY <1>6, <1>8, <1>10, <1>13, <1>15
<1>18. \A m \in Range(ANGLE_ROLE_TOKENS) : ~ Mentions(w, m)
    BY <1>14 DEF Mentions
<1>19. Delimited(w)
    BY <1>16, <1>17, <1>18 DEF Delimited
<1>20. QED  BY <1>1, <1>19

-----------------------------------------------------------------------------
(* The inductive invariant.                                                *)

\* What Stalwart holds: a message in a mailbox has been delivered.
MailInv ==
    /\ letter \in [Mails -> Letter \cup {None}]
    /\ in \in [Mails -> SUBSET Boxes]
    /\ supports \in {{}, Optional}
    /\ \A m \in Existing : letter[m] \in Letter

\* A call that has no answer yet.
CallRecord ==
    [pc: {"idle", "begun", "queried", "fetched", "found"}, req: Requests \cup {None},
     ids: SUBSET Mails, list: Seq(Mails), kind: {None}, items: {<<>>},
     held: SUBSET Mails, lives: SUBSET Mails]

\* How the ids of a query came about, and what is known of their messages.
QueryInv ==
    /\ Tool \in {"list_recent_emails", "search_emails", "read_thread"}
    /\ IF Tool = "read_thread" THEN call.ids = call.held ELSE call.ids \in Page(call.held)
    /\ \A m \in call.ids : letter[m] \in Letter

\* The attachment that was found is on the message named.
DownloadInv ==
    /\ Tool = "download_attachment" /\ call.req.blob = call.req.of
    /\ letter[call.req.of] \in Letter

CallInv ==
    /\ call \in CallRecord
    /\ call.pc # "idle" => call.req \in Requests
    /\ call.pc \in {"queried", "fetched"} => QueryInv
    /\ call.pc = "fetched" => call.list \in SetToSeqs(call.ids \cap call.lives)
    /\ call.pc = "found" => DownloadInv

\* Nothing happens after the answer, so that a call is described up to it.
ReadInv == MailInv /\ (call.pc # "answered" => CallInv)

-----------------------------------------------------------------------------
(* What the tools show is made of texts.                                   *)

\* addrs() makes a text of a name and an address.
LEMMA AddrsIsText ==
    ASSUME NEW a \in Addressee
    PROVE  Addrs(a) \in Text
<1>1. PICK n, e, p, q, r : n = a.name /\ e = a.email /\ p = " " /\ q = "<" /\ r = ">"
    OBVIOUS
<1>2. n \in Seq(Lexemes) /\ e \in Seq(Lexemes)
    BY <1>1 DEF Addressee, Text
<1>3. p \in Lexemes /\ q \in Lexemes /\ r \in Lexemes
    BY <1>1, ReadAssumption DEF Vocabulary
<1>4. PICK u, v : u = <<p, q>> /\ v = <<r>>
    OBVIOUS
<1>5. u \in Seq(Lexemes) /\ v \in Seq(Lexemes)
    BY <1>3, <1>4
<1>6. n \o u \in Seq(Lexemes)
    BY <1>2, <1>5
<1>7. (n \o u) \o e \in Seq(Lexemes)
    BY <1>2, <1>6
<1>8. ((n \o u) \o e) \o v \in Seq(Lexemes)
    BY <1>5, <1>7
<1>9. Addrs(a) = e \/ Addrs(a) = ((n \o u) \o e) \o v
    BY <1>1, <1>4 DEF Addrs
<1>10. QED  BY <1>2, <1>8, <1>9 DEF Text

\* truncate_text_body() always finds a boundary, were it the beginning.
LEMMA TruncateIsText ==
    ASSUME NEW t \in Text
    PROVE  Truncate(t) \in Text
<1> DEFINE fits == {n \in 0..Len(t) : Width(SubSeq(t, 1, n)) <= MAX_TEXT_BODY}
<1>1. Len(t) \in Nat
    BY DEF Text
<1>2. 0 \in fits
    <2>1. SubSeq(t, 1, 0) = <<>>
        BY DEF Text
    <2>2. Width(<<>>) = 0
        <3>1. {i \in DOMAIN <<>> : <<>>[i] = "wide"} = {}
            OBVIOUS
        <3>2. Len(<<>>) = 0
            OBVIOUS
        <3>3. QED  BY <3>1, <3>2, FS_EmptySet DEF Width
    <2>3. MAX_TEXT_BODY \in Nat
        BY ReadAssumption
    <2>4. Width(SubSeq(t, 1, 0)) <= MAX_TEXT_BODY
        <3>1. Width(SubSeq(t, 1, 0)) = 0
            BY ONLY <2>1, <2>2
        <3>2. QED  BY ONLY <2>3, <3>1
    <2>5. 0 \in 0..Len(t)
        BY <1>1
    <2>6. QED  BY ONLY <2>4, <2>5
<1>3. fits \in SUBSET (0..Len(t)) /\ fits # {}
    BY <1>2
<1>4. PICK n : n = CHOOSE c \in fits : \A k \in fits : k <= c
    OBVIOUS
<1>5. Truncate(t) = SubSeq(t, 1, n)
    BY <1>4 DEF Truncate
<1> HIDE DEF fits
<1>6. \E k \in fits : \A u \in fits : u <= k
    BY <1>1, <1>3, MaxIsGreatest
<1>7. n \in fits
    BY <1>4, <1>6
<1>8. n \in 0..Len(t)
    BY <1>3, <1>7
<1>9. QED  BY <1>5, <1>8 DEF Text

\* What is shown of a message, and how: some of its texts escaped, some of them
\* wrapped, and the flag is set by them.
Explained(r) ==
    /\ r.id \in Mails /\ letter[r.id] \in Letter
    /\ \E raws, bodies \in SUBSET RawTexts(r.id) :
          /\ r.plain = Sanitized(raws)
          /\ r.wrapped = {WrapBody(Addrs(letter[r.id].from), b) : b \in bodies}
          /\ r.suspicious <=> AnySuspicious(raws \cup bodies)

\* The fields of a message.
LEMMA LetterTexts ==
    ASSUME NEW l \in Letter
    PROVE  /\ Addrs(l.from) \in Text /\ Addrs(l.to) \in Text
           /\ l.subject \in Text /\ l.ref \in Text
           /\ l.name \in Text \cup {None}
           /\ ExtractTextBody(l) \in Text
           /\ ExtractHtmlBody(l) \in Text \cup {None}
           /\ l.text \in Text \cup {None}
<1>1. /\ l.from \in Addressee /\ l.to \in Addressee /\ l.subject \in Text /\ l.ref \in Text
      /\ l.text \in Text \cup {None} /\ l.html \in Text \cup {None}
      /\ l.name \in Text \cup {None}
    BY DEF Letter
<1>2. <<>> \in Text
    BY DEF Text
<1>3. QED
    BY <1>1, <1>2, AddrsIsText DEF ExtractTextBody, ExtractHtmlBody, TextBodyPart, HtmlBodyPart

\* What may be shown of a message is text.
LEMMA RawAreTexts ==
    ASSUME NEW m, letter[m] \in Letter
    PROVE  RawTexts(m) \subseteq Text
<1>1. PICK l : l = letter[m]
    OBVIOUS
<1>2. /\ Addrs(l.from) \in Text /\ Addrs(l.to) \in Text
      /\ l.subject \in Text /\ l.ref \in Text
      /\ l.name \in Text \cup {None}
      /\ ExtractTextBody(l) \in Text
      /\ ExtractHtmlBody(l) \in Text \cup {None}
      /\ l.text \in Text \cup {None}
    BY <1>1, LetterTexts
<1>3. Snippet(m) \in Text
    BY <1>1, <1>2 DEF Snippet
<1>4. Maybe(l.name) \subseteq Text /\ Maybe(ExtractHtmlBody(l)) \subseteq Text
    BY <1>2 DEF Maybe
<1>5. \A t \in {ExtractTextBody(l)} \cup Maybe(ExtractHtmlBody(l)) : Truncate(t) \in Text
    BY <1>2, <1>4, TruncateIsText
<1>6. QED  BY <1>1, <1>2, <1>3, <1>4, <1>5 DEF RawTexts

\* The two properties of a result.
SafeResult(r) ==
    /\ \A text \in r.plain : MarkersIn(text) = {}
    /\ \A text \in r.wrapped : Delimited(text)

ExactFlag(r) ==
    LET Wrapped(t) == WrapBody(Addrs(letter[r.id].from), t)
        innocent == {t \in RawTexts(r.id) : ~ Suspicious(t)}
    IN IF r.suspicious
       THEN \E t \in RawTexts(r.id) \ innocent :
                Escape(t) \in r.plain \/ Wrapped(t) \in r.wrapped
       ELSE /\ r.plain \subseteq {Escape(t) : t \in innocent}
            /\ r.wrapped \subseteq {Wrapped(t) : t \in innocent}

\* A result made that way has no marker in it.
LEMMA ExplainedIsSafe ==
    ASSUME NEW r, Explained(r)
    PROVE  SafeResult(r)
<1>1. letter[r.id] \in Letter
    BY DEF Explained
<1>2. PICK raws, bodies :
          /\ raws \subseteq RawTexts(r.id) /\ bodies \subseteq RawTexts(r.id)
          /\ r.plain = Sanitized(raws)
          /\ r.wrapped = {WrapBody(Addrs(letter[r.id].from), b) : b \in bodies}
    BY DEF Explained
<1>3. RawTexts(r.id) \subseteq Text
    BY <1>1, RawAreTexts
<1>4. ASSUME NEW t \in raws PROVE MarkersIn(Escape(t)) = {}
    <2>1. t \in Text
        BY <1>2, <1>3
    <2>2. QED  BY <2>1, EscapesEveryText DEF EscapeSoundFor
<1>5. ASSUME NEW b \in bodies PROVE Delimited(WrapBody(Addrs(letter[r.id].from), b))
    <2>1. b \in Text
        BY <1>2, <1>3
    <2>2. Addrs(letter[r.id].from) \in Text
        BY <1>1, LetterTexts
    <2>3. QED  BY <2>1, <2>2, WrapDelimited
<1>6. QED  BY <1>2, <1>4, <1>5 DEF SafeResult, Sanitized

\* A result made that way has an exact flag.
LEMMA ExplainedIsExact ==
    ASSUME NEW r, Explained(r)
    PROVE  ExactFlag(r)
<1>1. PICK s, R : s = Addrs(letter[r.id].from) /\ R = RawTexts(r.id)
    OBVIOUS
<1>2. PICK raws, bodies :
          /\ raws \subseteq R /\ bodies \subseteq R
          /\ r.plain = Sanitized(raws)
          /\ r.wrapped = {WrapBody(s, b) : b \in bodies}
          /\ r.suspicious <=> AnySuspicious(raws \cup bodies)
    BY <1>1 DEF Explained
<1>3. PICK innocent : innocent = {t \in R : ~ Suspicious(t)}
    OBVIOUS
<1>4. ASSUME r.suspicious
      PROVE  \E t \in R \ innocent : Escape(t) \in r.plain \/ WrapBody(s, t) \in r.wrapped
    <2>1. PICK t : t \in raws \cup bodies /\ Suspicious(t)
        BY <1>2, <1>4 DEF AnySuspicious
    <2>2. t \in R \ innocent
        BY <1>2, <1>3, <2>1
    <2>3. Escape(t) \in r.plain \/ WrapBody(s, t) \in r.wrapped
        BY <1>2, <2>1 DEF Sanitized
    <2>4. QED  BY <2>2, <2>3
<1>5. ASSUME ~ r.suspicious
      PROVE  /\ r.plain \subseteq {Escape(t) : t \in innocent}
             /\ r.wrapped \subseteq {WrapBody(s, t) : t \in innocent}
    <2>1. raws \subseteq innocent /\ bodies \subseteq innocent
        BY <1>2, <1>3, <1>5 DEF AnySuspicious
    <2>2. QED  BY <1>2, <2>1 DEF Sanitized
<1>6. QED  BY <1>1, <1>3, <1>4, <1>5 DEF ExactFlag

\* The texts of a message, one by one.
LEMMA RawFacts ==
    ASSUME NEW m, NEW l, l = letter[m]
    PROVE  /\ {Addrs(l.from), Addrs(l.to), l.subject, l.ref, Snippet(m)} \subseteq RawTexts(m)
           /\ Maybe(l.name) \subseteq RawTexts(m)
           /\ Truncate(ExtractTextBody(l)) \in RawTexts(m)
           /\ {Truncate(h) : h \in Maybe(ExtractHtmlBody(l))} \subseteq RawTexts(m)
BY DEF RawTexts

\* The fields of a result.
LEMMA ShownFields ==
    ASSUME NEW m, NEW p, NEW w, NEW s
    PROVE  LET r == Shown(m, p, w, s) IN
           r.id = m /\ r.plain = p /\ r.wrapped = w /\ r.suspicious = s
BY DEF Shown

\* How to explain a result.
LEMMA ExplainedBy ==
    ASSUME NEW m \in Mails, letter[m] \in Letter, NEW r, r.id = m,
           NEW raws \in SUBSET RawTexts(m), NEW bodies \in SUBSET RawTexts(m),
           r.plain = Sanitized(raws),
           r.wrapped = {WrapBody(Addrs(letter[m].from), b) : b \in bodies},
           r.suspicious <=> AnySuspicious(raws \cup bodies)
    PROVE  Explained(r)
BY DEF Explained

\* list_recent_emails() shows the addresses and the subject.
LEMMA EmailSummaryExplained ==
    ASSUME NEW m \in Mails, letter[m] \in Letter
    PROVE  Explained(EmailSummary(m))
<1>1. PICK l, r : l = letter[m] /\ r = EmailSummary(m)
    OBVIOUS
<1>2. PICK raws : raws = {Addrs(l.from), Addrs(l.to), l.subject}
    OBVIOUS
<1>3. raws \in SUBSET RawTexts(m) /\ {} \in SUBSET RawTexts(m)
    BY <1>1, <1>2, RawFacts
<1>4. Sanitized(raws)
          = {SanitizedAddrs(l.from), SanitizedAddrs(l.to)} \cup Sanitized({l.subject})
    BY <1>2 DEF Sanitized, SanitizedAddrs
<1>5. r = Shown(m, Sanitized(raws), {}, AnySuspicious(raws))
    BY <1>1, <1>2, <1>4 DEF EmailSummary
<1>6. /\ r.id = m /\ r.plain = Sanitized(raws) /\ r.wrapped = {}
      /\ r.suspicious = AnySuspicious(raws)
    BY <1>5, ShownFields
<1>7. r.wrapped = {WrapBody(Addrs(letter[m].from), b) : b \in {}}
    BY <1>6
<1>8. r.suspicious <=> AnySuspicious(raws \cup {})
    BY <1>6
<1>9. Explained(r)
    BY <1>3, <1>6, <1>7, <1>8, ExplainedBy
<1>10. QED  BY <1>1, <1>9

\* get_email_headers() also shows the references.
LEMMA EmailHeadersExplained ==
    ASSUME NEW m \in Mails, letter[m] \in Letter
    PROVE  Explained(EmailHeadersResult(m))
<1>1. PICK l, r : l = letter[m] /\ r = EmailHeadersResult(m)
    OBVIOUS
<1>2. PICK raws : raws = {Addrs(l.from), Addrs(l.to), l.subject, l.ref}
    OBVIOUS
<1>3. raws \in SUBSET RawTexts(m) /\ {} \in SUBSET RawTexts(m)
    BY <1>1, <1>2, RawFacts
<1>4. Sanitized(raws)
          = {SanitizedAddrs(l.from), SanitizedAddrs(l.to)} \cup Sanitized({l.subject, l.ref})
    BY <1>2 DEF Sanitized, SanitizedAddrs
<1>5. r = Shown(m, Sanitized(raws), {}, AnySuspicious(raws))
    BY <1>1, <1>2, <1>4 DEF EmailHeadersResult
<1>6. /\ r.id = m /\ r.plain = Sanitized(raws) /\ r.wrapped = {}
      /\ r.suspicious = AnySuspicious(raws)
    BY <1>5, ShownFields
<1>7. r.wrapped = {WrapBody(Addrs(letter[m].from), b) : b \in {}}
    BY <1>6
<1>8. r.suspicious <=> AnySuspicious(raws \cup {})
    BY <1>6
<1>9. Explained(r)
    BY <1>3, <1>6, <1>7, <1>8, ExplainedBy
<1>10. QED  BY <1>1, <1>9

\* Also with the bytes of a download.
LEMMA ListAttachmentsExplained ==
    ASSUME NEW m \in Mails, letter[m] \in Letter, NEW bytes
    PROVE  /\ Explained(ListAttachmentsResult(m))
           /\ Explained([ListAttachmentsResult(m) EXCEPT !.bytes = bytes])
           /\ [ListAttachmentsResult(m) EXCEPT !.bytes = bytes].bytes = bytes
<1>1. PICK r, q : /\ r = ListAttachmentsResult(m)
                  /\ q = [ListAttachmentsResult(m) EXCEPT !.bytes = bytes]
    OBVIOUS
<1>2. PICK raws : raws = Maybe(letter[m].name)
    OBVIOUS
<1>3. raws \in SUBSET RawTexts(m) /\ {} \in SUBSET RawTexts(m)
    BY <1>2, RawFacts
<1>5. r = Shown(m, Sanitized(raws), {}, AnySuspicious(raws))
    BY <1>1, <1>2 DEF ListAttachmentsResult
<1>6. /\ r.id = m /\ r.plain = Sanitized(raws) /\ r.wrapped = {}
      /\ r.suspicious = AnySuspicious(raws)
    BY <1>5, ShownFields
<1>7. q.id = r.id /\ q.plain = r.plain /\ q.wrapped = r.wrapped /\ q.suspicious = r.suspicious
      /\ q.bytes = bytes
    <2>1. PICK p, s : p = Sanitized(raws) /\ s = AnySuspicious(raws)
        OBVIOUS
    <2>2. r = [id |-> m, plain |-> p, wrapped |-> {}, suspicious |-> s,
               html |-> None, bytes |-> 0]
        BY <1>5, <2>1 DEF Shown
    <2>3. q = [r EXCEPT !.bytes = bytes]
        BY <1>1
    <2>4. QED  BY <2>2, <2>3
<1>8. {} = {WrapBody(Addrs(letter[m].from), b) : b \in {}} /\ raws \cup {} = raws
    OBVIOUS
<1>9. Explained(r)
    <2>1. r.wrapped = {WrapBody(Addrs(letter[m].from), b) : b \in {}}
        BY <1>6
    <2>2. r.suspicious <=> AnySuspicious(raws \cup {})
        BY <1>6
    <2>3. QED  BY <1>3, <1>6, <2>1, <2>2, ExplainedBy
<1>10. Explained(q)
    <2>1. q.wrapped = {WrapBody(Addrs(letter[m].from), b) : b \in {}}
        BY <1>6, <1>7
    <2>2. q.suspicious <=> AnySuspicious(raws \cup {})
        BY <1>6, <1>7
    <2>3. q.id = m /\ q.plain = Sanitized(raws)
        BY <1>6, <1>7
    <2>4. QED  BY <1>3, <2>1, <2>2, <2>3, ExplainedBy
<1>11. QED  BY <1>1, <1>7, <1>9, <1>10

\* read_thread() shows the sender, the subject and the cut text, wrapped.
LEMMA ThreadEmailExplained ==
    ASSUME NEW m \in Mails, letter[m] \in Letter
    PROVE  Explained(ThreadEmail(m))
<1>1. PICK l, r, s, b : /\ l = letter[m] /\ r = ThreadEmail(m)
                        /\ s = Addrs(l.from) /\ b = Truncate(ExtractTextBody(l))
    OBVIOUS
<1>2. PICK raws, bodies : raws = {s, l.subject} /\ bodies = {b}
    OBVIOUS
<1>3. raws \in SUBSET RawTexts(m) /\ bodies \in SUBSET RawTexts(m)
    BY <1>1, <1>2, RawFacts
<1>4. Sanitized(raws) = {SanitizedAddrs(l.from)} \cup Sanitized({l.subject})
    BY <1>1, <1>2 DEF Sanitized, SanitizedAddrs
<1>5. r = Shown(m, Sanitized(raws), {WrapBody(s, b)}, Suspicious(b) \/ AnySuspicious(raws))
    BY <1>1, <1>2, <1>4 DEF ThreadEmail, Evaluate
<1>6. /\ r.id = m /\ r.plain = Sanitized(raws) /\ r.wrapped = {WrapBody(s, b)}
      /\ r.suspicious = (Suspicious(b) \/ AnySuspicious(raws))
    BY <1>5, ShownFields
<1>7. r.wrapped = {WrapBody(Addrs(letter[m].from), t) : t \in bodies}
    BY <1>1, <1>2, <1>6
<1>8. r.suspicious <=> AnySuspicious(raws \cup bodies)
    BY <1>2, <1>6 DEF AnySuspicious
<1>9. Explained(r)
    BY <1>3, <1>6, <1>7, <1>8, ExplainedBy
<1>10. QED  BY <1>1, <1>9

\* search_emails() shows a snippet, wrapped, unless it is empty.
LEMMA SearchEmailHitExplained ==
    ASSUME NEW m \in Mails, letter[m] \in Letter,
           NEW snippet, snippet = None \/ snippet = Snippet(m)
    PROVE  /\ Explained(SearchEmailHit(m, snippet))
           /\ SearchEmailHit(m, snippet).id = m
           /\ SearchEmailHit(m, snippet).wrapped = {} => Maybe(snippet) \subseteq {<<>>}
<1>1. PICK l, r, s, V : /\ l = letter[m] /\ r = SearchEmailHit(m, snippet)
                        /\ s = Addrs(l.from) /\ V = {Evaluate(s, b) : b \in Maybe(snippet) \ {<<>>}}
    OBVIOUS
<1>2. PICK raws, bodies : raws = {s, l.subject} /\ bodies = Maybe(snippet) \ {<<>>}
    OBVIOUS
<1>3. raws \in SUBSET RawTexts(m) /\ bodies \in SUBSET RawTexts(m)
    BY <1>1, <1>2, RawFacts DEF Maybe
<1>4. Sanitized(raws) = {SanitizedAddrs(l.from)} \cup Sanitized({l.subject})
    BY <1>1, <1>2 DEF Sanitized, SanitizedAddrs
<1>5. r = Shown(m, Sanitized(raws), {v.wrapped : v \in V},
                (\E v \in V : v.suspicious) \/ AnySuspicious(raws))
    BY <1>1, <1>2, <1>4 DEF SearchEmailHit
<1>6. /\ r.id = m /\ r.plain = Sanitized(raws) /\ r.wrapped = {v.wrapped : v \in V}
      /\ r.suspicious = ((\E v \in V : v.suspicious) \/ AnySuspicious(raws))
    BY <1>5, ShownFields
<1>0. /\ V = {Evaluate(s, t) : t \in bodies}
      /\ \A t : Evaluate(s, t).wrapped = WrapBody(s, t)
      /\ \A t : Evaluate(s, t).suspicious <=> Suspicious(t)
    BY <1>1, <1>2 DEF Evaluate
<1>7. {v.wrapped : v \in V} = {WrapBody(s, t) : t \in bodies}
    <2>1. \A v \in V : \E t \in bodies : v.wrapped = WrapBody(s, t)
        BY ONLY <1>0
    <2>2. \A t \in bodies : \E v \in V : v.wrapped = WrapBody(s, t)
        BY ONLY <1>0
    <2>3. QED  BY ONLY <2>1, <2>2
<1>8. (\E v \in V : v.suspicious) <=> (\E t \in bodies : Suspicious(t))
    <2>1. ASSUME NEW v \in V, v.suspicious PROVE \E t \in bodies : Suspicious(t)
        BY ONLY <1>0, <2>1
    <2>2. ASSUME NEW t \in bodies, Suspicious(t) PROVE \E v \in V : v.suspicious
        BY ONLY <1>0, <2>2
    <2>3. QED  BY ONLY <2>1, <2>2
<1>9. r.wrapped = {WrapBody(Addrs(letter[m].from), t) : t \in bodies}
    BY <1>1, <1>6, <1>7
<1>10. r.suspicious <=> AnySuspicious(raws \cup bodies)
    BY <1>6, <1>8 DEF AnySuspicious
<1>11. Explained(r)
    BY <1>3, <1>6, <1>9, <1>10, ExplainedBy
<1>12. r.wrapped = {} => bodies = {}
    BY <1>9
<1>13. QED  BY <1>1, <1>2, <1>6, <1>11, <1>12

\* read_email() shows the markup as well, cut, judged and escaped.
LEMMA ReadEmailExplained ==
    ASSUME NEW m \in Mails, letter[m] \in Letter
    PROVE  Explained(ReadEmailResult(m))
<1>1. PICK l, r, s, b : /\ l = letter[m] /\ r = ReadEmailResult(m)
                        /\ s = Addrs(l.from) /\ b = Truncate(ExtractTextBody(l))
    OBVIOUS
<1>2. PICK htmls, heads : /\ htmls = {Truncate(h) : h \in Maybe(ExtractHtmlBody(l))}
                          /\ heads = {s, Addrs(l.to), l.subject} \cup Maybe(l.name)
    OBVIOUS
<1>3. PICK raws, bodies : raws = heads \cup htmls /\ bodies = {b}
    OBVIOUS
<1>4. raws \in SUBSET RawTexts(m) /\ bodies \in SUBSET RawTexts(m)
    BY <1>1, <1>2, <1>3, RawFacts
<1>5. Sanitized(raws) = {SanitizedAddrs(l.from), SanitizedAddrs(l.to)}
          \cup Sanitized({l.subject} \cup Maybe(l.name)) \cup Sanitized(htmls)
    BY <1>1, <1>2, <1>3 DEF Sanitized, SanitizedAddrs
<1>6. PICK g : g = (Suspicious(b) \/ AnySuspicious(htmls) \/ AnySuspicious(heads))
    OBVIOUS
<1>7. PICK h : r = [Shown(m, Sanitized(raws), {WrapBody(s, b)}, g) EXCEPT !.html = h]
    <2>1. ReadEmailHtmlBody(l) = [escaped |-> Sanitized(htmls), suspicious |-> AnySuspicious(htmls)]
        BY <1>2 DEF ReadEmailHtmlBody
    <2>2. /\ ReadEmailHtmlBody(l).escaped = Sanitized(htmls)
          /\ ReadEmailHtmlBody(l).suspicious = AnySuspicious(htmls)
        BY <2>1
    <2>3. Evaluate(s, b).wrapped = WrapBody(s, b) /\ Evaluate(s, b).suspicious = Suspicious(b)
        BY DEF Evaluate
    <2>4. \E h : r = [Shown(m, {SanitizedAddrs(l.from), SanitizedAddrs(l.to)}
                             \cup Sanitized({l.subject} \cup Maybe(l.name)) \cup Sanitized(htmls),
                       {Evaluate(s, b).wrapped},
                       \/ Evaluate(s, b).suspicious \/ ReadEmailHtmlBody(l).suspicious
                       \/ AnySuspicious({Addrs(l.from), Addrs(l.to), l.subject}
                                           \cup Maybe(l.name))) EXCEPT !.html = h]
        BY <1>1, <2>2 DEF ReadEmailResult
    <2>5. PICK P, W, G :
              /\ P = {SanitizedAddrs(l.from), SanitizedAddrs(l.to)}
                       \cup Sanitized({l.subject} \cup Maybe(l.name)) \cup Sanitized(htmls)
              /\ W = {Evaluate(s, b).wrapped}
              /\ G = (\/ Evaluate(s, b).suspicious \/ ReadEmailHtmlBody(l).suspicious
                      \/ AnySuspicious({Addrs(l.from), Addrs(l.to), l.subject}
                                          \cup Maybe(l.name)))
        OBVIOUS
    <2>6. \E h : r = [Shown(m, P, W, G) EXCEPT !.html = h]
        BY ONLY <2>4, <2>5
    <2>7. P = Sanitized(raws) /\ W = {WrapBody(s, b)}
        BY ONLY <1>5, <2>3, <2>5
    <2>8. G = g
        BY ONLY <1>1, <1>2, <1>6, <2>2, <2>3, <2>5
    <2>9. QED  BY ONLY <2>6, <2>7, <2>8
<1>8. /\ r.id = m /\ r.plain = Sanitized(raws) /\ r.wrapped = {WrapBody(s, b)}
      /\ r.suspicious = g
    <2>1. PICK p, w : p = Sanitized(raws) /\ w = {WrapBody(s, b)}
        OBVIOUS
    <2>2. r = [[id |-> m, plain |-> p, wrapped |-> w, suspicious |-> g,
                html |-> None, bytes |-> 0] EXCEPT !.html = h]
        BY <1>7, <2>1 DEF Shown
    <2>3. QED  BY <2>1, <2>2
<1>9. r.wrapped = {WrapBody(Addrs(letter[m].from), t) : t \in bodies}
    BY <1>1, <1>3, <1>8
<1>10. r.suspicious <=> AnySuspicious(raws \cup bodies)
    BY <1>3, <1>6, <1>8 DEF AnySuspicious
<1>11. Explained(r)
    BY <1>4, <1>8, <1>9, <1>10, ExplainedBy
<1>12. QED  BY <1>1, <1>11

-----------------------------------------------------------------------------
(* Answers.                                                                *)

\* A set listed in any order.
LEMMA ListedAll ==
    ASSUME NEW S, IsFiniteSet(S), NEW f \in SetToSeqs(S)
    PROVE  /\ f \in Seq(S) /\ DOMAIN f = 1..Len(f) /\ Len(f) \in Nat
           /\ Len(f) = Cardinality(S)
           /\ \A x \in S : \E i \in DOMAIN f : f[i] = x
           /\ \A i, j \in DOMAIN f : f[i] = f[j] => i = j
<1>1. PICK n : n = Cardinality(S)
    OBVIOUS
<1>2. n \in Nat
    BY <1>1, FS_CardinalityType
<1>3. f \in [1..n -> S] /\ \A i, j \in 1..n : i # j => f[i] # f[j]
    BY <1>1 DEF SetToSeqs
<1>4. f \in Seq(S) /\ Len(f) = n /\ DOMAIN f = 1..n
    BY <1>2, <1>3, SegmentIsSeq
<1>5. f \in Injection(1..n, S)
    BY <1>3 DEF Injection, IsInjective
<1>6. Cardinality(1..n) = n
    <2>1. 1 \in Int /\ n \in Int
        BY <1>2
    <2>2. Cardinality(1..n) = IF 1 > n THEN 0 ELSE n - 1 + 1
        BY <2>1, FS_Interval
    <2>3. QED  BY <1>2, <2>2
<1>7. f \in Surjection(1..n, S)
    BY <1>1, <1>5, <1>6, FS_Injection
<1>8. \A x \in S : \E i \in 1..n : f[i] = x
    BY <1>7 DEF Surjection
<1>9. QED  BY <1>1, <1>2, <1>3, <1>4, <1>8

\* What a request names.
LEMMA RequestFacts ==
    ASSUME NEW q \in Requests
    PROVE  /\ q.tool \in EmailTools \cup {"download_attachment"} => q.of \in Mails
           /\ q.tool = "list_recent_activity" => q.of = None
           /\ q.limit \in Nat
<1>1. ASSUME NEW tools, NEW named, NEW blobs, NEW limits,
             q \in Request(tools, named, blobs, limits)
      PROVE  q.tool \in tools /\ q.of \in named /\ q.limit \in limits
    BY <1>1 DEF Request
<1>2. Limits \subseteq Nat /\ 0 \in Nat
    BY ReadAssumption
<1>3. CASE q \in Request(EmailTools, Mails, {None}, {0})
    BY <1>1, <1>2, <1>3 DEF EmailTools
<1>4. CASE q \in Request({"download_attachment"}, Mails, Mails, {0})
    BY <1>1, <1>2, <1>4
<1>5. CASE q \in Request({"list_recent_emails"}, ArgBoxes, {None}, Limits)
    <2>1. q.tool = "list_recent_emails" /\ q.of \in ArgBoxes /\ q.limit \in Limits
        BY <1>5 DEF Request
    <2>2. QED  BY <1>2, <2>1 DEF EmailTools
<1>6. CASE q \in Request({"search_emails"}, ArgBoxes \cup {None}, {None}, Limits)
    <2>1. q.tool = "search_emails" /\ q.of \in ArgBoxes \cup {None} /\ q.limit \in Limits
        BY <1>6 DEF Request
    <2>2. QED  BY <1>2, <2>1 DEF EmailTools
<1>7. CASE q \in Request({"read_thread"}, Threads, {None}, Limits)
    <2>1. q.tool = "read_thread" /\ q.of \in Threads /\ q.limit \in Limits
        BY <1>7 DEF Request
    <2>2. QED  BY <1>2, <2>1 DEF EmailTools
<1>8. CASE q \in Request({"list_recent_activity"}, {None}, {None}, Limits)
    <2>1. q.tool = "list_recent_activity" /\ q.of \in {None} /\ q.limit \in Limits
        BY <1>8 DEF Request
    <2>2. QED  BY <1>2, <2>1 DEF EmailTools
<1>9. CASE q \in Request({"get_mailbox_info"}, ArgBoxes, {None}, {0})
    BY <1>1, <1>2, <1>9 DEF EmailTools
<1>10. CASE q \in Request({"get_unread_summary"}, ArgBoxes \cup {None}, {None}, {0})
    BY <1>1, <1>2, <1>10 DEF EmailTools
<1>11. CASE q \in Request({"list_mailboxes", "get_vacation_response"} \cup SessionTools,
                         {None}, {None}, {0})
    BY <1>1, <1>2, <1>11 DEF EmailTools, SessionTools
<1>12. QED
    BY <1>3, <1>4, <1>5, <1>6, <1>7, <1>8, <1>9, <1>10, <1>11 DEF Requests

\* capped_email_limit() is a number.
LEMMA LimitIsNat ==
    ASSUME call.req \in Requests
    PROVE  Limit \in Nat
<1>1. call.req.limit \in Nat /\ MAX_EMAIL_LIMIT \in Nat
    BY RequestFacts, ReadAssumption
<1>2. QED  BY <1>1 DEF Limit, CappedEmailLimit

\* What an answer consists of.
LEMMA AnswerFields ==
    ASSUME call \in CallRecord, NEW kind, NEW items, Answer(kind, items)
    PROVE  /\ call'.pc = "answered" /\ call'.kind = kind /\ call'.items = items
           /\ call'.req = call.req /\ call'.held = call.held /\ call'.lives = call.lives
           /\ letter' = letter /\ in' = in /\ supports' = supports
BY DEF CallRecord, Answer

Ids(items) == {items[i].id : i \in DOMAIN items}

ContentGood(items) ==
    Tool \in ContentTools => \A i \in DOMAIN items : Explained(items[i])

PageGood(items) ==
    Tool \in {"list_recent_emails", "search_emails", "read_thread"} =>
        \A m \in (call.held \cap call.lives) \ Ids(items) :
            Limit <= Cardinality(
                {n \in IF Tool = "read_thread" THEN Ids(items) ELSE call.held \ {m} :
                    ReceivedAt[n] >= ReceivedAt[m]})

ActivityGood(items) ==
    Tool = "list_recent_activity" =>
        \A b \in Boxes \ Ids(items), i \in DOMAIN items :
            MailboxSummary(b).unread <= items[i].unread

SnippetGood(items) ==
    Tool = "search_emails" /\ "SearchSnippet/get" \in supports =>
        \A i \in DOMAIN items :
            items[i].wrapped = {} => items[i].id \notin Existing \/ Snippet(items[i].id) = <<>>

VacationGood(items) ==
    Tool = "get_vacation_response" =>
        items[1].supported = ("VacationResponse/get" \in supports)

DownloadGood(items) ==
    Tool = "download_attachment" =>
        /\ items[1].bytes <= DownloadMaxBytes
        /\ items[1].bytes = letter[call.req.of].bytes

\* What has to be shown of the items of a successful answer.
GoodItems(items) ==
    /\ ContentGood(items) /\ PageGood(items) /\ ActivityGood(items)
    /\ SnippetGood(items) /\ VacationGood(items) /\ DownloadGood(items)

\* The invariants of the run that are about answers.
AnswersGood == Sandboxed /\ FlagIsExact /\ LeftOutForCause /\ DownloadCapped

\* They say nothing of a call that has no answer, or an answer that is an error.
LEMMA NoAnswerIsGood ==
    ASSUME call'.pc # "answered" \/ call'.kind # "ok"
    PROVE  AnswersGood'
<1>1. \A tools : ~ Answered(tools)'
    BY DEF Answered
<1>2. Results' = {}
    BY <1>1 DEF Results
<1>3. Sandboxed' /\ FlagIsExact'
    BY <1>2 DEF Sandboxed, FlagIsExact
<1>4. LeftOutForCause' /\ DownloadCapped'
    BY <1>1 DEF LeftOutForCause, DownloadCapped
<1>5. QED  BY <1>3, <1>4 DEF AnswersGood

\* A successful answer is good if its items are.
LEMMA AnswerIsGood ==
    ASSUME call \in CallRecord, NEW items, Answer("ok", items), GoodItems(items)
    PROVE  AnswersGood'
<1>1. /\ call'.pc = "answered" /\ call'.kind = "ok" /\ call'.items = items
      /\ call'.req = call.req /\ call'.held = call.held /\ call'.lives = call.lives
      /\ letter' = letter /\ in' = in /\ supports' = supports
    BY AnswerFields
<1>2. Tool' = Tool /\ Limit' = Limit
    BY <1>1 DEF Tool, Limit
<1>3. /\ \A m : RawTexts(m)' = RawTexts(m)
      /\ \A m : Snippet(m)' = Snippet(m)
      /\ Existing' = Existing
      /\ \A b : MailboxSummary(b)' = MailboxSummary(b)
    BY <1>1 DEF RawTexts, Snippet, Existing, MailboxSummary
<1>4. ASSUME NEW r, r \in Results' PROVE SafeResult(r) /\ ExactFlag(r)
    <2>1. Tool \in ContentTools /\ r \in Range(items)
        BY <1>1, <1>2, <1>4 DEF Results, Answered
    <2>2. PICK i \in DOMAIN items : r = items[i]
        BY <2>1 DEF Range
    <2>3. Explained(r)
        BY <2>1, <2>2 DEF GoodItems, ContentGood
    <2>4. QED  BY <2>3, ExplainedIsSafe, ExplainedIsExact
<1>5. Sandboxed'
    BY <1>4 DEF Sandboxed, SafeResult
<1>6. FlagIsExact'
    BY <1>1, <1>3, <1>4 DEF FlagIsExact, ExactFlag
<1>7. DownloadCapped'
    BY <1>1, <1>2 DEF DownloadCapped, Answered, GoodItems, DownloadGood
<1>8. \A tools : Answered(tools)' => Tool \in tools
    BY <1>2 DEF Answered
<1>9. {call'.items[i].id : i \in DOMAIN call'.items} = Ids(items)
    BY <1>1 DEF Ids
<1>10. Answered({"list_recent_emails", "search_emails", "read_thread"})' =>
          \A m \in (call'.held \cap call'.lives) \ Ids(items) :
              Limit' <= Cardinality(
                  {n \in IF Tool' = "read_thread" THEN Ids(items) ELSE call'.held \ {m} :
                      ReceivedAt[n] >= ReceivedAt[m]})
    BY <1>1, <1>2, <1>8 DEF GoodItems, PageGood
<1>11. Answered({"list_recent_activity"})' =>
          \A b \in Boxes \ Ids(items), i \in DOMAIN call'.items :
              MailboxSummary(b)'.unread <= call'.items[i].unread
    BY <1>1, <1>3, <1>8 DEF GoodItems, ActivityGood
<1>12. Answered({"search_emails"})' /\ "SearchSnippet/get" \in supports' =>
          \A r \in Results' : r.wrapped = {} => r.id \notin Existing' \/ Snippet(r.id)' = <<>>
    <2>1. SUFFICES ASSUME Answered({"search_emails"})', "SearchSnippet/get" \in supports',
                          NEW r, r \in Results', r.wrapped = {}
                   PROVE  r.id \notin Existing' \/ Snippet(r.id)' = <<>>
        OBVIOUS
    <2>2. Tool = "search_emails"
        BY <1>8, <2>1
    <2>3. r \in Range(items)
        BY <1>1, <2>1 DEF Results
    <2>4. PICK i \in DOMAIN items : r = items[i]
        BY <2>3 DEF Range
    <2>5. r.id \notin Existing \/ Snippet(r.id) = <<>>
        BY <1>1, <2>1, <2>2, <2>4 DEF GoodItems, SnippetGood
    <2>6. QED  BY <1>3, <2>5
<1>13. Answered({"get_vacation_response"})' =>
          call'.items[1].supported = ("VacationResponse/get" \in supports')
    BY <1>1, <1>8 DEF GoodItems, VacationGood
<1>14. LeftOutForCause'
    BY <1>9, <1>10, <1>11, <1>12, <1>13 DEF LeftOutForCause
<1>15. QED  BY <1>5, <1>6, <1>7, <1>14 DEF AnswersGood

-----------------------------------------------------------------------------
(* One lemma per action.                                                   *)

\* What a step has to keep.
Kept == ReadInv' /\ AnswersGood'

\* A step that answers.
LEMMA AnswerStep ==
    ASSUME ReadInv, call.pc # "answered", NEW kind, NEW items, Answer(kind, items),
           kind = "ok" => GoodItems(items)
    PROVE  Kept
<1>1. call \in CallRecord /\ MailInv
    BY DEF ReadInv, CallInv
<1>2. /\ call'.pc = "answered" /\ call'.kind = kind
      /\ letter' = letter /\ in' = in /\ supports' = supports
    BY <1>1, AnswerFields
<1>3. MailInv'
    BY <1>1, <1>2 DEF MailInv, Existing
<1>4. ReadInv'
    BY <1>2, <1>3 DEF ReadInv
<1>5. AnswersGood'
    <2>1. CASE kind = "ok"
        BY <1>1, <2>1, AnswerIsGood
    <2>2. CASE kind # "ok"
        BY <1>2, <2>2, NoAnswerIsGood
    <2>3. QED  BY <2>1, <2>2
<1>6. QED  BY <1>4, <1>5 DEF Kept

\* A step that answers with an error.
LEMMA ErrorStep ==
    ASSUME ReadInv, call.pc # "answered", NEW kind, kind # "ok", Answer(kind, <<>>)
    PROVE  Kept
BY AnswerStep

\* A step of the call that asks for something.
LEMMA CallStep ==
    ASSUME ReadInv, UNCHANGED <<letter, in, supports>>, CallInv', call'.pc # "answered"
    PROVE  Kept
<1>1. MailInv
    BY DEF ReadInv
<1>2. MailInv'
    BY <1>1 DEF MailInv, Existing
<1>3. QED  BY <1>2, NoAnswerIsGood DEF ReadInv, Kept

\* The tools that show neither messages nor what could be left out.
LEMMA OtherTool ==
    ASSUME NEW items, Tool \notin ContentTools,
           Tool \notin {"list_recent_activity", "get_vacation_response"}
    PROVE  GoodItems(items)
BY DEF GoodItems, ContentGood, PageGood, ActivityGood, SnippetGood, VacationGood, DownloadGood,
       ContentTools

\* The tools that show one message leave nothing out.
LEMMA MessageTool ==
    ASSUME NEW items, Tool \in EmailTools, \A i \in DOMAIN items : Explained(items[i])
    PROVE  GoodItems(items)
BY DEF GoodItems, ContentGood, PageGood, ActivityGood, SnippetGood, VacationGood, DownloadGood,
       EmailTools

\* A call begins.
LEMMA BeginStep ==
    ASSUME ReadInv, Begin
    PROVE  Kept
<1>1. call.pc = "idle" /\ call \in CallRecord
    BY DEF Begin, ReadInv, CallInv
<1>2. PICK q \in Requests : call' = [call EXCEPT !.pc = "begun", !.req = q]
    BY DEF Begin
<1>3. call' \in CallRecord /\ call'.pc = "begun" /\ call'.req = q
    BY <1>1, <1>2 DEF CallRecord
<1>4. CallInv'
    BY <1>3 DEF CallInv
<1>5. UNCHANGED <<letter, in, supports>>
    BY DEF Begin
<1>6. QED  BY <1>3, <1>4, <1>5, CallStep

\* The quota, the failures, and the answers from the session.
LEMMA PlainAnswers ==
    ASSUME ReadInv, RateLimitCheck \/ Fails \/ Whoami \/ GetAccountInfo
    PROVE  Kept
<1>1. CASE RateLimitCheck
    <2>1. call.pc # "answered" /\ Answer("limited", <<>>)
        BY <1>1 DEF RateLimitCheck
    <2>2. QED  BY <2>1, ErrorStep
<1>2. CASE Fails
    <2>1. call.pc # "answered"
        BY <1>2 DEF Fails
    <2>2. PICK kind : kind # "ok" /\ Answer(kind, <<>>)
        BY <1>2 DEF Fails
    <2>3. QED  BY <2>1, <2>2, ErrorStep
<1>3. CASE Whoami \/ GetAccountInfo
    <2>1. call.pc # "answered" /\ Answer("ok", <<>>) /\ Tool \in SessionTools
        BY <1>3 DEF Whoami, GetAccountInfo, Begun, SessionTools
    <2>2. GoodItems(<<>>)
        BY <2>1, OtherTool DEF SessionTools, ContentTools, EmailTools
    <2>3. QED  BY <2>1, <2>2, AnswerStep
<1>4. QED  BY <1>1, <1>2, <1>3

\* One Email/get and what is made of the message.
LEMMA OfMessageStep ==
    ASSUME ReadInv, NEW tool \in EmailTools, Begun(tool), NEW r,
           call.req.of \in Existing => Answer("ok", <<r>>),
           call.req.of \notin Existing => Answer("invalid", <<>>),
           call.req.of \in Mails /\ letter[call.req.of] \in Letter => Explained(r)
    PROVE  Kept
<1>1. call.pc = "begun" /\ Tool = tool /\ call.pc # "answered" /\ call.req \in Requests /\ MailInv
    BY DEF Begun, ReadInv, CallInv
<1>2. CASE call.req.of \in Existing
    <2>1. call.req.of \in Mails /\ letter[call.req.of] \in Letter
        BY <1>1, <1>2 DEF MailInv, Existing
    <2>2. Explained(r)
        BY <2>1
    <2>3. PICK items : items = <<r>>
        OBVIOUS
    <2>4. \A i \in DOMAIN items : items[i] = r
        BY <2>3
    <2>5. GoodItems(items)
        BY <1>1, <2>2, <2>4, MessageTool
    <2>6. Answer("ok", items)
        BY <1>2, <2>3
    <2>7. QED  BY <1>1, <2>5, <2>6, AnswerStep
<1>3. CASE call.req.of \notin Existing
    BY <1>1, <1>3, ErrorStep
<1>4. QED  BY <1>2, <1>3

\* read_email(), get_email_headers() and list_attachments().
LEMMA MessageAnswers ==
    ASSUME ReadInv, ReadEmail \/ GetEmailHeaders \/ ListAttachments
    PROVE  Kept
<1>0. {"read_email", "get_email_headers", "list_attachments"} = EmailTools
    BY DEF EmailTools
<1>1. CASE ReadEmail
    <2>1. PICK r : r = ReadEmailResult(call.req.of)
        OBVIOUS
    <2>2. call.req.of \in Existing => Answer("ok", <<r>>)
        BY <1>1, <2>1 DEF ReadEmail, OfMessage
    <2>3. call.req.of \notin Existing => Answer("invalid", <<>>)
        BY <1>1 DEF ReadEmail, OfMessage
    <2>4. call.req.of \in Mails /\ letter[call.req.of] \in Letter => Explained(r)
        BY <2>1, ReadEmailExplained
    <2>5. Begun("read_email") /\ "read_email" \in EmailTools
        BY <1>0, <1>1 DEF ReadEmail
    <2>6. QED  BY <2>2, <2>3, <2>4, <2>5, OfMessageStep
<1>2. CASE GetEmailHeaders
    <2>1. PICK r : r = EmailHeadersResult(call.req.of)
        OBVIOUS
    <2>2. call.req.of \in Existing => Answer("ok", <<r>>)
        BY <1>2, <2>1 DEF GetEmailHeaders, OfMessage
    <2>3. call.req.of \notin Existing => Answer("invalid", <<>>)
        BY <1>2 DEF GetEmailHeaders, OfMessage
    <2>4. call.req.of \in Mails /\ letter[call.req.of] \in Letter => Explained(r)
        BY <2>1, EmailHeadersExplained
    <2>5. Begun("get_email_headers") /\ "get_email_headers" \in EmailTools
        BY <1>0, <1>2 DEF GetEmailHeaders
    <2>6. QED  BY <2>2, <2>3, <2>4, <2>5, OfMessageStep
<1>3. CASE ListAttachments
    <2>1. PICK r : r = ListAttachmentsResult(call.req.of)
        OBVIOUS
    <2>2. call.req.of \in Existing => Answer("ok", <<r>>)
        BY <1>3, <2>1 DEF ListAttachments, OfMessage
    <2>3. call.req.of \notin Existing => Answer("invalid", <<>>)
        BY <1>3 DEF ListAttachments, OfMessage
    <2>4. call.req.of \in Mails /\ letter[call.req.of] \in Letter => Explained(r)
        BY <2>1, ListAttachmentsExplained
    <2>5. Begun("list_attachments") /\ "list_attachments" \in EmailTools
        BY <1>0, <1>3 DEF ListAttachments
    <2>6. QED  BY <2>2, <2>3, <2>4, <2>5, OfMessageStep
<1>4. QED  BY <1>1, <1>2, <1>3

\* Email/query.
LEMMA EmailQueryStep ==
    ASSUME ReadInv, EmailQuery
    PROVE  Kept
<1>1. /\ call.pc = "begun" /\ Tool \in {"list_recent_emails", "search_emails"}
      /\ call \in CallRecord /\ call.req \in Requests /\ MailInv
    BY DEF EmailQuery, ReadInv, CallInv
<1>2. PICK page \in Page(Filtered) :
          call' = [call EXCEPT !.pc = "queried", !.ids = page, !.held = Filtered]
    BY DEF EmailQuery
<1>3. PICK F : F = Filtered
    OBVIOUS
<1>4. F \subseteq Existing /\ F \subseteq Mails
    BY <1>3 DEF Filtered, Existing
<1>5. page \subseteq F
    BY <1>2, <1>3 DEF Page, Top
<1>6. /\ call' \in CallRecord /\ call'.pc = "queried" /\ call'.req = call.req
      /\ call'.ids = page /\ call'.held = F
    BY <1>1, <1>2, <1>3, <1>4, <1>5 DEF CallRecord
<1>7. Tool' = Tool /\ Limit' = Limit /\ letter' = letter
    BY <1>6 DEF Tool, Limit, EmailQuery
<1>9. \A m \in page : letter'[m] \in Letter
    BY <1>1, <1>4, <1>5, <1>7 DEF MailInv
<1>10. (page \in Page(call.held))'
    BY <1>2, <1>3, <1>6, <1>7 DEF Page, Top
<1>11. QueryInv'
    BY <1>1, <1>6, <1>7, <1>9, <1>10 DEF QueryInv
<1>12. CallInv'
    BY <1>1, <1>6, <1>11 DEF CallInv
<1>13. UNCHANGED <<letter, in, supports>>
    BY DEF EmailQuery
<1>14. QED  BY <1>6, <1>12, <1>13, CallStep

\* Thread/get.
LEMMA ThreadGetStep ==
    ASSUME ReadInv, ThreadGet
    PROVE  Kept
<1>1. /\ call.pc = "begun" /\ Tool = "read_thread"
      /\ call \in CallRecord /\ call.req \in Requests /\ MailInv
    BY DEF ThreadGet, Begun, ReadInv, CallInv
<1>2. PICK F : F = {m \in Existing : ThreadOf[m] = call.req.of}
    OBVIOUS
<1>3. CASE F = {}
    <2>1. Answer("error", <<>>) /\ call.pc # "answered"
        BY <1>1, <1>2, <1>3 DEF ThreadGet
    <2>2. QED  BY <2>1, ErrorStep
<1>4. CASE F # {}
    <2>1. /\ call' = [call EXCEPT !.pc = "queried", !.ids = F, !.held = F]
          /\ UNCHANGED <<letter, in, supports>>
        BY <1>2, <1>4 DEF ThreadGet
    <2>2. F \subseteq Existing /\ F \subseteq Mails
        BY <1>2 DEF Existing
    <2>3. /\ call' \in CallRecord /\ call'.pc = "queried" /\ call'.req = call.req
          /\ call'.ids = F /\ call'.held = F
        BY <1>1, <2>1, <2>2 DEF CallRecord
    <2>4. \A m \in F : letter'[m] \in Letter
        BY <1>1, <2>1, <2>2 DEF MailInv
    <2>5. QueryInv'
        BY <1>1, <2>3, <2>4 DEF QueryInv, Tool
    <2>6. CallInv'
        BY <1>1, <2>3, <2>5 DEF CallInv
    <2>7. QED  BY <2>1, <2>3, <2>6, CallStep
<1>5. QED  BY <1>3, <1>4

\* Email/get lists each of the ids that still exist once.
LEMMA EmailGetStep ==
    ASSUME ReadInv, EmailGet
    PROVE  Kept
<1>1. /\ call.pc = "queried"
      /\ call \in CallRecord /\ call.req \in Requests /\ MailInv /\ QueryInv
    BY DEF EmailGet, ReadInv, CallInv
<1>2. PICK list \in SetToSeqs(call.ids \cap Existing) :
          call' = [call EXCEPT !.pc = "fetched", !.list = list, !.lives = Existing]
    BY DEF EmailGet
<1>3. call.ids \subseteq Mails /\ Existing \subseteq Mails
    BY <1>1 DEF CallRecord, Existing
<1>4. list \in Seq(Mails)
    <2>1. IsFiniteSet(call.ids \cap Existing)
        BY <1>3, ReadAssumption, FS_Subset
    <2>2. list \in Seq(call.ids \cap Existing)
        BY <2>1, ListedAll
    <2>3. QED  BY <1>3, <2>2
<1>5. /\ call' \in CallRecord /\ call'.pc = "fetched" /\ call'.req = call.req
      /\ call'.ids = call.ids /\ call'.held = call.held
      /\ call'.list = list /\ call'.lives = Existing
    BY <1>1, <1>2, <1>3, <1>4 DEF CallRecord
<1>6. UNCHANGED <<letter, in, supports>>
    BY DEF EmailGet
<1>7. QueryInv'
    <2>1. Tool' = Tool /\ Limit' = Limit /\ letter' = letter
        BY <1>5, <1>6 DEF Tool, Limit
    <2>2. (call.ids \in Page(call.held))' <=> call.ids \in Page(call.held)
        BY <1>5, <2>1 DEF Page, Top
    <2>3. QED  BY <1>1, <1>5, <2>1, <2>2 DEF QueryInv
<1>8. CallInv'
    BY <1>1, <1>2, <1>5, <1>7 DEF CallInv
<1>9. QED  BY <1>5, <1>6, <1>8, CallStep

\* The attachment is looked up on the message named.
LEMMA FindAttachmentStep ==
    ASSUME ReadInv, FindAttachment
    PROVE  Kept
<1>1. /\ call.pc = "begun" /\ Tool = "download_attachment"
      /\ call \in CallRecord /\ call.req \in Requests /\ MailInv
    BY DEF FindAttachment, Begun, ReadInv, CallInv
<1>2. CASE Answer("invalid", <<>>)
    BY <1>1, <1>2, ErrorStep
<1>3. CASE ~ Answer("invalid", <<>>)
    <2>1. /\ call.req.of \in Existing /\ call.req.blob = call.req.of
          /\ call' = [call EXCEPT !.pc = "found"]
          /\ UNCHANGED <<letter, in, supports>>
        BY <1>3 DEF FindAttachment
    <2>2. call' \in CallRecord /\ call'.pc = "found" /\ call'.req = call.req
        BY <1>1, <2>1 DEF CallRecord
    <2>3. DownloadInv'
        BY <1>1, <2>1, <2>2 DEF DownloadInv, Tool, MailInv
    <2>4. CallInv'
        BY <1>1, <2>2, <2>3 DEF CallInv
    <2>5. QED  BY <2>1, <2>2, <2>4, CallStep
<1>4. QED  BY <1>2, <1>3

\* The bytes are measured whether or not a length was announced.
LEMMA DownloadBlobStep ==
    ASSUME ReadInv, DownloadBlob
    PROVE  Kept
<1>1. /\ call.pc = "found" /\ call.req \in Requests /\ DownloadInv
    BY DEF DownloadBlob, ReadInv, CallInv
<1>2. PICK m, bytes : m = call.req.of /\ bytes = letter[m].bytes
    OBVIOUS
<1>3. m \in Mails /\ letter[m] \in Letter /\ Tool = "download_attachment" /\ call.req.blob = m
    BY <1>1, <1>2, RequestFacts DEF DownloadInv, Tool
<1>4. bytes \in Nat
    BY <1>2, <1>3 DEF Letter
<1>5. PICK r : r = [ListAttachmentsResult(m) EXCEPT !.bytes = bytes]
    OBVIOUS
<1>6. Explained(r) /\ r.bytes = bytes
    BY <1>3, <1>5, ListAttachmentsExplained
<1>7. CASE Answer("invalid", <<>>)
    BY <1>1, <1>7, ErrorStep
<1>8. CASE ~ Answer("invalid", <<>>)
    <2>1. PICK length : WithinCap(length, bytes) /\ Answer("ok", <<r>>)
        BY <1>2, <1>3, <1>5, <1>8 DEF DownloadBlob
    <2>2. bytes <= DownloadMaxBytes
        BY <1>4, <2>1, ReadAssumption DEF WithinCap, TooLarge
    <2>3. PICK items : items = <<r>>
        OBVIOUS
    <2>4. items[1] = r /\ \A i \in DOMAIN items : items[i] = r
        BY <2>3
    <2>5. GoodItems(items)
        BY <1>2, <1>3, <1>6, <2>2, <2>4
           DEF GoodItems, ContentGood, PageGood, ActivityGood, SnippetGood, VacationGood, DownloadGood
    <2>6. Answer("ok", items)
        BY <2>1, <2>3
    <2>7. QED  BY <1>1, <2>5, <2>6, AnswerStep
<1>9. QED  BY <1>7, <1>8

\* Email/query cut its page at the limit, if it left something out, and put
\* nothing older on it.
LEMMA PageLeavesOut ==
    ASSUME call.req \in Requests, NEW held \in SUBSET Mails, NEW page \in Page(held),
           NEW m \in held \ page
    PROVE  Limit <= Cardinality({n \in held \ {m} : ReceivedAt[n] >= ReceivedAt[m]})
<1>1. PICK T : T = {n \in held \ {m} : ReceivedAt[n] >= ReceivedAt[m]}
    OBVIOUS
<1>2. /\ page \subseteq held
      /\ Cardinality(page) = IF Limit < Cardinality(held) THEN Limit ELSE Cardinality(held)
      /\ \A x \in page, y \in held \ page : ReceivedAt[x] >= ReceivedAt[y]
    BY DEF Page, Top
<1>3. IsFiniteSet(held)
    BY ReadAssumption, FS_Subset
<1>4. T \in SUBSET held /\ page \in SUBSET T
    BY <1>1, <1>2
<1>5. IsFiniteSet(T)
    BY <1>3, <1>4, FS_Subset
<1>6. Cardinality(page) <= Cardinality(T)
    BY <1>4, <1>5, FS_Subset
<1>7. Cardinality(page) # Cardinality(held)
    <2>1. page \in SUBSET held /\ page # held
        BY <1>2
    <2>2. QED  BY <1>3, <2>1, FS_Subset
<1>8. Cardinality(page) = Limit
    BY <1>2, <1>7
<1>9. QED  BY <1>1, <1>6, <1>8

\* What is known of a list that was fetched.
Fetched ==
    /\ call.list \in Seq(Mails) /\ DOMAIN call.list = 1..Len(call.list) /\ Len(call.list) \in Nat
    /\ \A i \in DOMAIN call.list : call.list[i] \in Mails /\ letter[call.list[i]] \in Letter
    /\ \A m \in call.ids \cap call.lives : \E i \in DOMAIN call.list : call.list[i] = m
    /\ \A i, j \in DOMAIN call.list : call.list[i] = call.list[j] => i = j

\* The list has every message of the query that still existed, once.
LEMMA FetchedFacts ==
    ASSUME CallInv, call.pc = "fetched"
    PROVE  Fetched
<1>1. /\ call \in CallRecord /\ QueryInv
      /\ call.list \in SetToSeqs(call.ids \cap call.lives)
    BY DEF CallInv
<1>2. PICK S : S = call.ids \cap call.lives
    OBVIOUS
<1>3. S \subseteq Mails /\ IsFiniteSet(S) /\ call.list \in Seq(Mails)
    <2>1. S \in SUBSET Mails
        BY <1>1, <1>2 DEF CallRecord
    <2>2. QED  BY <1>1, <2>1, ReadAssumption, FS_Subset DEF CallRecord
<1>4. PICK f : f = call.list
    OBVIOUS
<1>5. f \in SetToSeqs(S) /\ f \in Seq(Mails)
    BY <1>1, <1>2, <1>3, <1>4
<1>6. /\ f \in Seq(S) /\ DOMAIN f = 1..Len(f) /\ Len(f) \in Nat
      /\ \A x \in S : \E i \in DOMAIN f : f[i] = x
      /\ \A i, j \in DOMAIN f : f[i] = f[j] => i = j
    BY <1>3, <1>5, ListedAll
<1>7. \A i \in DOMAIN f : f[i] \in S
    BY <1>6
<1>8. \A m \in S : m \in Mails /\ letter[m] \in Letter
    BY <1>1, <1>2, <1>3 DEF QueryInv
<1>9. QED  BY <1>2, <1>4, <1>5, <1>6, <1>7, <1>8 DEF Fetched

\* An answer that shows the list as it came.
LEMMA WholeListGood ==
    ASSUME CallInv, call.pc = "fetched", Tool \in {"list_recent_emails", "search_emails"},
           NEW items, DOMAIN items = DOMAIN call.list,
           \A i \in DOMAIN call.list : items[i].id = call.list[i]
    PROVE  PageGood(items)
<1>1. Fetched
    BY FetchedFacts
<1>2. /\ call \in CallRecord /\ call.req \in Requests
      /\ call.ids \in Page(call.held)
    BY DEF CallInv, QueryInv
<1>3. ASSUME NEW m \in (call.held \cap call.lives) \ Ids(items)
      PROVE  Limit <= Cardinality({n \in call.held \ {m} : ReceivedAt[n] >= ReceivedAt[m]})
    <2>1. m \notin call.ids
        BY <1>1, <1>3 DEF Fetched, Ids
    <2>2. call.held \in SUBSET Mails /\ m \in call.held \ call.ids
        BY <1>2, <2>1 DEF CallRecord
    <2>3. QED  BY <1>2, <2>2, PageLeavesOut
<1>4. QED  BY <1>3 DEF PageGood

\* list_recent_emails() shows the list as it came.
LEMMA ListRecentEmailsStep ==
    ASSUME ReadInv, ListRecentEmails
    PROVE  Kept
<1>1. call.pc = "fetched" /\ Tool = "list_recent_emails" /\ CallInv
    BY DEF ListRecentEmails, ReadInv
<1>2. PICK items : items = [i \in DOMAIN call.list |-> EmailSummary(call.list[i])]
    OBVIOUS
<1>3. Fetched
    BY <1>1, FetchedFacts
<1>4. DOMAIN items = DOMAIN call.list
    BY <1>2
<1>5. \A i \in DOMAIN call.list : Explained(items[i]) /\ items[i].id = call.list[i]
    <2>1. ASSUME NEW i \in DOMAIN call.list
          PROVE  Explained(items[i]) /\ items[i].id = call.list[i]
        <3>1. items[i] = EmailSummary(call.list[i])
            BY <1>2
        <3>2. call.list[i] \in Mails /\ letter[call.list[i]] \in Letter
            BY <1>3 DEF Fetched
        <3>3. EmailSummary(call.list[i]).id = call.list[i]
            BY ShownFields DEF EmailSummary
        <3>4. QED  BY <3>1, <3>2, <3>3, EmailSummaryExplained
    <2>2. QED  BY <2>1
<1>6. PageGood(items)
    BY <1>1, <1>4, <1>5, WholeListGood
<1>7. GoodItems(items)
    BY <1>1, <1>4, <1>5, <1>6
       DEF GoodItems, ContentGood, ActivityGood, SnippetGood, VacationGood, DownloadGood
<1>8. Answer("ok", items) /\ call.pc # "answered"
    BY <1>1, <1>2 DEF ListRecentEmails
<1>9. QED  BY <1>7, <1>8, AnswerStep

\* search_emails() leaves a snippet out only where there is none.
LEMMA SearchEmailsStep ==
    ASSUME ReadInv, SearchEmails
    PROVE  Kept
<1>1. call.pc = "fetched" /\ Tool = "search_emails" /\ CallInv /\ MailInv /\ call.pc # "answered"
    BY DEF SearchEmails, ReadInv
<1>2. PICK found \in SearchSnippets :
          IF found = None THEN Answer("error", <<>>) ELSE Answer("ok", Hits(found))
    BY DEF SearchEmails
<1>3. CASE found = None
    <2>1. Answer("error", <<>>)
        BY <1>2, <1>3
    <2>2. QED  BY <1>1, <2>1, ErrorStep
<1>4. CASE found # None
    <2>1. PICK items : items = Hits(found)
        OBVIOUS
    <2>2. Answer("ok", items)
        BY <1>2, <1>4, <2>1
    <2>3. DOMAIN items = DOMAIN call.list /\ Fetched
        BY <1>1, <2>1, FetchedFacts DEF Hits
    <2>4. ASSUME "SearchSnippet/get" \in supports, call.list # <<>> PROVE found = Existing
        BY <1>2, <1>4, <2>4 DEF SearchSnippets, OptionalErrors, Unsupported
    <2>5. ASSUME NEW i \in DOMAIN call.list
          PROVE  /\ Explained(items[i]) /\ items[i].id = call.list[i]
                 /\ "SearchSnippet/get" \in supports /\ items[i].wrapped = {} =>
                       items[i].id \notin Existing \/ Snippet(items[i].id) = <<>>
        <3>1. PICK m, s : m = call.list[i] /\ s = IF m \in found THEN Snippet(m) ELSE None
            OBVIOUS
        <3>2. items[i] = SearchEmailHit(m, s)
            BY <2>1, <3>1 DEF Hits
        <3>3. m \in Mails /\ letter[m] \in Letter
            BY <2>3, <3>1 DEF Fetched
        <3>4. /\ Explained(items[i]) /\ items[i].id = m
              /\ items[i].wrapped = {} => Maybe(s) \subseteq {<<>>}
            <4>1. s = None \/ s = Snippet(m)
                BY <3>1
            <4>2. QED  BY <3>2, <3>3, <4>1, SearchEmailHitExplained
        <3>5. call.list # <<>>
            <4>1. DOMAIN <<>> = {}
                OBVIOUS
            <4>2. QED  BY <4>1
        <3>6. ASSUME "SearchSnippet/get" \in supports, items[i].wrapped = {}, m \in Existing
              PROVE  Snippet(m) = <<>>
            <4>1. s = Snippet(m)
                BY <2>4, <3>1, <3>5, <3>6
            <4>2. Snippet(m) \in RawTexts(m)
                BY RawFacts
            <4>3. Snippet(m) \in Text
                BY <3>3, <4>2, RawAreTexts
            <4>4. Snippet(m) # None
                BY <4>3, ReadAssumption
            <4>5. QED  BY <3>4, <3>6, <4>1, <4>4 DEF Maybe
        <3>7. QED  BY <3>1, <3>4, <3>6
    <2>6. PageGood(items)
        BY <1>1, <2>3, <2>5, WholeListGood
    <2>7. SnippetGood(items) /\ ContentGood(items)
        BY <2>3, <2>5 DEF SnippetGood, ContentGood
    <2>8. GoodItems(items)
        BY <1>1, <2>6, <2>7 DEF GoodItems, ActivityGood, VacationGood, DownloadGood
    <2>9. QED  BY <1>1, <2>2, <2>8, AnswerStep
<1>5. QED  BY <1>3, <1>4

-----------------------------------------------------------------------------
(* Sorted lists.                                                           *)

\* What a stable sort by a key makes of a list.
Arranged(sorted, list, K, S) ==
    /\ sorted \in Seq(S) /\ Len(sorted) = Len(list) /\ DOMAIN sorted = 1..Len(list)
    /\ \A i \in DOMAIN list : \E j \in DOMAIN sorted : sorted[j] = list[i]
    /\ \A i, j \in DOMAIN sorted : i < j => K[sorted[i]] >= K[sorted[j]]
    /\ (\A i, j \in DOMAIN list : list[i] = list[j] => i = j) =>
          \A i, j \in DOMAIN sorted : sorted[i] = sorted[j] => i = j

\* Sorting by a key arranges the list.
LEMMA SortedIsArranged ==
    ASSUME NEW S, NEW list \in Seq(S), NEW K \in [S -> Nat],
           NEW p \in Bijection(DOMAIN list, DOMAIN list),
           \A i, j \in DOMAIN list : i < j =>
               K[list[p[i]]] > K[list[p[j]]] \/ K[list[p[i]]] = K[list[p[j]]],
           NEW sorted, sorted = [i \in DOMAIN list |-> list[p[i]]]
    PROVE  Arranged(sorted, list, K, S)
<1>1. PICK n : n = Len(list)
    OBVIOUS
<1>2. n \in Nat /\ DOMAIN list = 1..n /\ \A i \in 1..n : list[i] \in S
    BY <1>1
<1>3. /\ p \in [1..n -> 1..n]
      /\ \A i, j \in 1..n : p[i] = p[j] => i = j
      /\ \A i \in 1..n : \E j \in 1..n : p[j] = i
    BY <1>2 DEF Bijection, Injection, Surjection, IsInjective
<1>4. sorted = [i \in 1..n |-> list[p[i]]]
    BY <1>2
<1>5. sorted \in [1..n -> S]
    BY <1>2, <1>3, <1>4
<1>6. sorted \in Seq(S) /\ Len(sorted) = n /\ DOMAIN sorted = 1..n
    BY <1>2, <1>5, SegmentIsSeq
<1>7. \A i \in 1..n : \E j \in 1..n : sorted[j] = list[i]
    BY <1>3, <1>4
<1>8. ASSUME NEW i \in 1..n, NEW j \in 1..n, i < j PROVE K[sorted[i]] >= K[sorted[j]]
    <2>0. sorted[i] = list[p[i]] /\ sorted[j] = list[p[j]]
        BY <1>4
    <2>1. K[sorted[i]] > K[sorted[j]] \/ K[sorted[i]] = K[sorted[j]]
        <3>1. K[list[p[i]]] > K[list[p[j]]] \/ K[list[p[i]]] = K[list[p[j]]]
            BY <1>2, <1>8, Zenon
        <3>2. QED  BY ONLY <2>0, <3>1
    <2>2. K[sorted[i]] \in Nat /\ K[sorted[j]] \in Nat
        BY <1>5
    <2>3. QED  BY <2>1, <2>2
<1>9. ASSUME \A i, j \in 1..n : list[i] = list[j] => i = j,
             NEW i \in 1..n, NEW j \in 1..n, sorted[i] = sorted[j]
      PROVE  i = j
    <2>1. list[p[i]] = list[p[j]] /\ p[i] \in 1..n /\ p[j] \in 1..n
        BY <1>3, <1>4, <1>9
    <2>2. p[i] = p[j]
        BY <1>9, <2>1
    <2>3. QED  BY <1>3, <2>2
<1>10. (\A i, j \in 1..n : list[i] = list[j] => i = j) =>
          \A i, j \in 1..n : sorted[i] = sorted[j] => i = j
    BY <1>9
<1>11. \A i, j \in 1..n : i < j => K[sorted[i]] >= K[sorted[j]]
    BY <1>8
<1>12. Len(list) = n
    BY <1>1
<1>13. QED
    <2>1. /\ sorted \in Seq(S) /\ Len(sorted) = Len(list) /\ DOMAIN sorted = 1..Len(list)
          /\ DOMAIN list = 1..n /\ DOMAIN sorted = 1..n
        BY <1>2, <1>6, <1>12
    <2>2. QED  BY ONLY <1>7, <1>10, <1>11, <2>1, Zenon DEF Arranged

\* truncate(limit) keeps a beginning.
LEMMA CutFacts ==
    ASSUME NEW S, NEW s \in Seq(S), Limit \in Nat
    PROVE  \E k \in Nat : /\ k <= Len(s) /\ Cut(s) \in Seq(S) /\ DOMAIN Cut(s) = 1..k
                          /\ \A i \in 1..k : Cut(s)[i] = s[i]
                          /\ k < Len(s) => k = Limit
<1>1. PICK k, L : L = Len(s) /\ k = IF Limit < L THEN Limit ELSE L
    OBVIOUS
<1>2. L \in Nat
    BY <1>1
<1>3. k \in Nat /\ k <= L /\ (k < L => k = Limit)
    BY <1>1, <1>2
<1>4. Cut(s) = SubSeq(s, 1, k)
    BY <1>1 DEF Cut
<1>5. SubSeq(s, 1, k) \in Seq(S) /\ DOMAIN SubSeq(s, 1, k) = 1..k
      /\ \A i \in 1..k : SubSeq(s, 1, k)[i] = s[i]
    BY <1>1, <1>3
<1>6. QED  BY <1>1, <1>3, <1>4, <1>5

\* read_thread() sorts before it cuts, so that the newest stay.
LEMMA ReadThreadStep ==
    ASSUME ReadInv, ReadThread
    PROVE  Kept
<1>1. call.pc = "fetched" /\ Tool = "read_thread" /\ CallInv /\ call.pc # "answered"
    BY DEF ReadThread, ReadInv
<1>2. PICK f : f = call.list
    OBVIOUS
<1>3. /\ f \in Seq(Mails) /\ DOMAIN f = 1..Len(f) /\ Len(f) \in Nat
      /\ \A i \in DOMAIN f : f[i] \in Mails /\ letter[f[i]] \in Letter
      /\ \A m \in call.ids \cap call.lives : \E i \in DOMAIN f : f[i] = m
      /\ \A i, j \in DOMAIN f : f[i] = f[j] => i = j
    BY <1>1, <1>2, FetchedFacts DEF Fetched
<1>4. PICK c : c \in NewestOf(f) /\ Answer("ok", [i \in DOMAIN c |-> ThreadEmail(c[i])])
    BY <1>2 DEF ReadThread
<1>5. PICK s : s \in Sorted(f, LAMBDA m : ReceivedAt[m]) /\ c = Cut(s)
    BY <1>4 DEF NewestOf
<1>6. PICK p : /\ p \in Bijection(DOMAIN f, DOMAIN f)
               /\ \A i, j \in DOMAIN f : i < j =>
                     \/ ReceivedAt[f[p[i]]] > ReceivedAt[f[p[j]]]
                     \/ ReceivedAt[f[p[i]]] = ReceivedAt[f[p[j]]] /\ p[i] < p[j]
               /\ s = [i \in DOMAIN f |-> f[p[i]]]
    BY <1>5 DEF Sorted
<1>7. Arranged(s, f, ReceivedAt, Mails)
    <2>1. ReceivedAt \in [Mails -> Nat]
        BY ReadAssumption
    <2>2. \A i, j \in DOMAIN f : i < j =>
             ReceivedAt[f[p[i]]] > ReceivedAt[f[p[j]]] \/ ReceivedAt[f[p[i]]] = ReceivedAt[f[p[j]]]
        BY <1>6
    <2>3. f \in Seq(Mails) /\ p \in Bijection(DOMAIN f, DOMAIN f) /\ s = [i \in DOMAIN f |-> f[p[i]]]
        BY <1>3, <1>6
    <2>4. QED  BY ONLY <2>1, <2>2, <2>3, SortedIsArranged
<1>8. PICK L : L = Len(f)
    OBVIOUS
<1>9. /\ L \in Nat /\ s \in Seq(Mails) /\ Len(s) = L /\ DOMAIN s = 1..L /\ DOMAIN f = 1..L
      /\ \A i \in 1..L : \E j \in 1..L : s[j] = f[i]
      /\ \A i, j \in 1..L : i < j => ReceivedAt[s[i]] >= ReceivedAt[s[j]]
      /\ \A i, j \in 1..L : s[i] = s[j] => i = j
    BY <1>3, <1>7, <1>8 DEF Arranged
<1>10. call.req \in Requests /\ call.ids = call.held
    BY <1>1 DEF CallInv, QueryInv
<1>11. Limit \in Nat
    BY <1>10, LimitIsNat
<1>12. PICK k \in Nat : /\ k <= L /\ DOMAIN c = 1..k
                        /\ \A i \in 1..k : c[i] = s[i]
                        /\ k < L => k = Limit
    BY <1>5, <1>9, <1>11, CutFacts
<1>13. PICK items : items = [i \in DOMAIN c |-> ThreadEmail(c[i])]
    OBVIOUS
<1>14. DOMAIN items = 1..k
    BY <1>12, <1>13
<1>15. ASSUME NEW i \in 1..k PROVE Explained(items[i]) /\ items[i].id = s[i]
    <2>1. i \in 1..L
        BY <1>9, <1>12
    <2>2. s[i] \in Mails /\ letter[s[i]] \in Letter
        <3>1. PICK q : q \in 1..L /\ s[i] = f[q]
            BY <1>6, <1>9, <2>1 DEF Bijection, Injection
        <3>2. QED  BY <1>3, <1>9, <3>1
    <2>3. items[i] = ThreadEmail(s[i])
        BY <1>12, <1>13
    <2>4. ThreadEmail(s[i]).id = s[i]
        BY ShownFields DEF ThreadEmail
    <2>5. QED  BY <2>2, <2>3, <2>4, ThreadEmailExplained
<1>16. Ids(items) = {s[i] : i \in 1..k}
    BY <1>14, <1>15 DEF Ids
<1>17. ASSUME NEW m \in (call.held \cap call.lives) \ Ids(items)
       PROVE  Limit <= Cardinality({n \in Ids(items) : ReceivedAt[n] >= ReceivedAt[m]})
    <2>1. PICK j : j \in 1..L /\ s[j] = m
        <3>1. PICK q : q \in DOMAIN f /\ f[q] = m
            BY <1>3, <1>10, <1>17
        <3>2. q \in 1..L
            BY <1>9, <3>1
        <3>3. QED  BY <1>9, <3>1, <3>2
    <2>2. j > k
        BY <1>9, <1>16, <1>17, <2>1
    <2>3. k = Limit
        BY <1>9, <1>12, <2>1, <2>2
    <2>4. PICK T : T = {n \in Ids(items) : ReceivedAt[n] >= ReceivedAt[m]}
        OBVIOUS
    <2>5. PICK g : g = [i \in 1..k |-> s[i]]
        OBVIOUS
    <2>6. g \in [1..k -> T]
        <3>1. ASSUME NEW i \in 1..k PROVE s[i] \in T
            <4>1. i \in 1..L /\ i < j
                BY <1>9, <1>12, <2>1, <2>2
            <4>2. ReceivedAt[s[i]] >= ReceivedAt[s[j]]
                BY <1>9, <2>1, <4>1
            <4>3. s[i] \in Ids(items)
                BY <1>16
            <4>4. QED  BY <2>1, <2>4, <4>2, <4>3
        <3>2. QED  BY <2>5, <3>1
    <2>7. \A i1, i2 \in 1..k : g[i1] = g[i2] => i1 = i2
        <3>1. \A i \in 1..k : i \in 1..L
            BY <1>9, <1>12
        <3>2. QED  BY <1>9, <2>5, <3>1
    <2>8. g \in Injection(1..k, T)
        BY <2>6, <2>7 DEF Injection, IsInjective
    <2>9. IsFiniteSet(T)
        <3>1. T \subseteq Mails
            <4>1. \A i \in 1..k : s[i] \in Mails
                BY <1>9, <1>12
            <4>2. QED  BY <1>16, <2>4, <4>1
        <3>2. QED  BY <3>1, ReadAssumption, FS_Subset
    <2>10. Cardinality(1..k) <= Cardinality(T)
        BY <2>8, <2>9, FS_Injection
    <2>11. Cardinality(1..k) = k
        <3>1. 1 \in Int /\ k \in Int
            OBVIOUS
        <3>2. Cardinality(1..k) = IF 1 > k THEN 0 ELSE k - 1 + 1
            BY <3>1, FS_Interval
        <3>3. QED  BY <3>2
    <2>12. QED  BY <2>3, <2>4, <2>10, <2>11
<1>18. PageGood(items)
    BY <1>1, <1>17 DEF PageGood
<1>19. ContentGood(items)
    BY <1>14, <1>15 DEF ContentGood
<1>20. GoodItems(items)
    BY <1>1, <1>18, <1>19 DEF GoodItems, ActivityGood, SnippetGood, VacationGood, DownloadGood
<1>21. Answer("ok", items)
    BY <1>4, <1>13
<1>22. QED  BY <1>1, <1>20, <1>21, AnswerStep

\* The tools that list mailboxes.
LEMMA MailboxAnswers ==
    ASSUME ReadInv, ListMailboxes \/ GetMailboxInfo \/ GetUnreadSummary
    PROVE  Kept
<1>1. /\ call.pc = "begun" /\ call.pc # "answered"
      /\ Tool \in {"list_mailboxes", "get_mailbox_info", "get_unread_summary"}
    BY DEF ListMailboxes, GetMailboxInfo, GetUnreadSummary, Begun
<1>2. \A items : GoodItems(items)
    <2>1. /\ Tool \notin ContentTools
          /\ Tool \notin {"list_recent_activity", "get_vacation_response"}
        BY <1>1 DEF ContentTools, EmailTools
    <2>2. QED  BY <2>1, OtherTool
<1>3. PICK kind, items : Answer(kind, items)
    BY DEF ListMailboxes, GetMailboxInfo, GetUnreadSummary
<1>4. QED  BY <1>1, <1>2, <1>3, AnswerStep

\* list_recent_activity() sorts before it cuts.
LEMMA ListRecentActivityStep ==
    ASSUME ReadInv, ListRecentActivity
    PROVE  Kept
<1>1. /\ call.pc = "begun" /\ Tool = "list_recent_activity" /\ call.pc # "answered"
      /\ call.req \in Requests /\ MailInv
    BY DEF ListRecentActivity, Begun, ReadInv, CallInv
<1>2. call.req.of = None /\ Limit \in Nat
    BY <1>1, RequestFacts, LimitIsNat DEF Tool
<1>3. PICK S : S = {MailboxSummary(b) : b \in Boxes}
    OBVIOUS
<1>4. IsFiniteSet(S)
    <2>1. PICK g : g = [b \in Boxes |-> MailboxSummary(b)]
        OBVIOUS
    <2>2. g \in Surjection(Boxes, S)
        BY <1>3, <2>1 DEF Surjection
    <2>3. QED  BY <2>2, ReadAssumption, FS_Surjection
<1>5. Listed = SetToSeqs(S)
    BY <1>2, <1>3 DEF Listed, MailboxGet
<1>6. PICK f, s : /\ f \in SetToSeqs(S) /\ s \in Sorted(f, LAMBDA b : b.unread)
                  /\ Answer("ok", Cut(s))
    BY <1>5 DEF ListRecentActivity
<1>7. /\ f \in Seq(S) /\ DOMAIN f = 1..Len(f) /\ Len(f) \in Nat
      /\ \A x \in S : \E i \in DOMAIN f : f[i] = x
    BY <1>4, <1>6, ListedAll
<1>8. \A x \in S : x.unread \in Nat
    <2>1. ASSUME NEW b \in Boxes PROVE MailboxSummary(b).unread \in Nat
        <3>1. PICK T : T = {m \in {m \in Mails : b \in in[m]} : ~ letter[m].seen}
            OBVIOUS
        <3>2. MailboxSummary(b).unread = Cardinality(T)
            BY <3>1 DEF MailboxSummary
        <3>3. T \in SUBSET Mails
            BY <3>1
        <3>4. QED  BY <3>2, <3>3, ReadAssumption, FS_Subset, FS_CardinalityType
    <2>2. QED  BY <1>3, <2>1
<1>9. PICK K : K = [x \in S |-> x.unread]
    OBVIOUS
<1>10. K \in [S -> Nat]
    BY <1>8, <1>9
<1>11. PICK p : /\ p \in Bijection(DOMAIN f, DOMAIN f)
                /\ \A i, j \in DOMAIN f : i < j =>
                     \/ f[p[i]].unread > f[p[j]].unread
                     \/ f[p[i]].unread = f[p[j]].unread /\ p[i] < p[j]
                /\ s = [i \in DOMAIN f |-> f[p[i]]]
    BY <1>6 DEF Sorted
<1>12. \A i \in DOMAIN f : f[p[i]] \in S
    BY <1>7, <1>11 DEF Bijection, Injection
<1>13. \A i, j \in DOMAIN f : i < j => K[f[p[i]]] > K[f[p[j]]] \/ K[f[p[i]]] = K[f[p[j]]]
    BY <1>9, <1>11, <1>12
<1>14. Arranged(s, f, K, S)
    <2>1. f \in Seq(S) /\ p \in Bijection(DOMAIN f, DOMAIN f) /\ s = [i \in DOMAIN f |-> f[p[i]]]
        BY <1>7, <1>11
    <2>2. QED  BY ONLY <1>10, <1>13, <2>1, SortedIsArranged
<1>15. PICK L : L = Len(f)
    OBVIOUS
<1>16. /\ L \in Nat /\ s \in Seq(S) /\ Len(s) = L /\ DOMAIN s = 1..L /\ DOMAIN f = 1..L
       /\ \A i \in 1..L : \E j \in 1..L : s[j] = f[i]
       /\ \A i, j \in 1..L : i < j => K[s[i]] >= K[s[j]]
       /\ \A i \in 1..L : s[i] \in S
    <2>1. s \in Seq(S) /\ DOMAIN s = 1..L /\ Len(s) = L
        BY <1>14, <1>15 DEF Arranged
    <2>2. \A i \in 1..L : s[i] \in S
        BY ONLY <2>1
    <2>3. QED  BY <1>7, <1>14, <1>15, <2>1, <2>2 DEF Arranged
<1>17. PICK items : items = Cut(s)
    OBVIOUS
<1>18. PICK k \in Nat : /\ k <= L /\ DOMAIN items = 1..k
                        /\ \A i \in 1..k : items[i] = s[i]
    <2>1. s \in Seq(S) /\ Limit \in Nat /\ Len(s) = L /\ items = Cut(s)
        BY <1>2, <1>16, <1>17
    <2>2. QED  BY ONLY <2>1, CutFacts
<1>19. ASSUME NEW b \in Boxes \ Ids(items), NEW i \in 1..k
       PROVE  MailboxSummary(b).unread <= items[i].unread
    <2>1. MailboxSummary(b) \in S
        BY <1>3
    <2>2. PICK j : j \in 1..L /\ s[j] = MailboxSummary(b)
        BY <1>7, <1>16, <2>1
    <2>3. j > k
        <3>1. SUFFICES ASSUME j <= k PROVE FALSE
            BY <2>2
        <3>2. j \in 1..k
            BY <2>2, <3>1
        <3>3. items[j] = MailboxSummary(b) /\ j \in DOMAIN items
            BY <1>18, <2>2, <3>2
        <3>4. MailboxSummary(b).id = b
            BY DEF MailboxSummary
        <3>5. QED  BY <1>19, <3>3, <3>4 DEF Ids
    <2>4. i \in 1..L /\ i < j
        BY <1>16, <1>18, <2>2, <2>3
    <2>5. K[s[i]] >= K[s[j]] /\ s[i] \in S /\ s[j] \in S
        BY <1>16, <2>2, <2>4
    <2>6. s[i].unread >= s[j].unread /\ s[i].unread \in Nat /\ s[j].unread \in Nat
        BY <1>8, <1>9, <2>5
    <2>7. items[i] = s[i]
        BY <1>18
    <2>8. QED  BY <2>2, <2>6, <2>7
<1>20. ActivityGood(items)
    BY <1>18, <1>19 DEF ActivityGood
<1>21. GoodItems(items)
    BY <1>1, <1>20
       DEF GoodItems, ContentGood, PageGood, SnippetGood, VacationGood, DownloadGood,
           ContentTools, EmailTools
<1>22. Answer("ok", items)
    BY <1>6, <1>17
<1>23. QED  BY <1>1, <1>21, <1>22, AnswerStep

\* get_vacation_response() never takes a failure for a lack of support.
LEMMA GetVacationResponseStep ==
    ASSUME ReadInv, GetVacationResponse
    PROVE  Kept
<1>1. call.pc # "answered" /\ Tool = "get_vacation_response"
    BY DEF GetVacationResponse, Begun
<1>2. ASSUME NEW b \in BOOLEAN, b <=> "VacationResponse/get" \in supports,
             Answer("ok", <<[supported |-> b]>>)
      PROVE  Kept
    <2>1. PICK items : items = <<[supported |-> b]>>
        OBVIOUS
    <2>2. items[1].supported = b
        BY <2>1
    <2>3. VacationGood(items)
        BY <1>2, <2>2 DEF VacationGood
    <2>4. GoodItems(items)
        BY <1>1, <2>3
           DEF GoodItems, ContentGood, PageGood, SnippetGood, ActivityGood, DownloadGood,
               ContentTools, EmailTools
    <2>5. Answer("ok", items)
        BY <1>2, <2>1
    <2>6. QED  BY <1>1, <2>4, <2>5, AnswerStep
<1>3. CASE "VacationResponse/get" \in supports /\ Answer("ok", <<[supported |-> TRUE]>>)
    BY <1>2, <1>3
<1>4. ASSUME NEW error \in OptionalErrors("VacationResponse/get"),
             IF Unsupported(error) THEN Answer("ok", <<[supported |-> FALSE]>>)
             ELSE Answer("error", <<>>)
      PROVE  Kept
    <2>1. CASE Unsupported(error)
        <3>1. "VacationResponse/get" \notin supports
            BY <1>4, <2>1 DEF OptionalErrors, Unsupported
        <3>2. Answer("ok", <<[supported |-> FALSE]>>)
            BY <1>4, <2>1
        <3>3. QED  BY <1>2, <3>1, <3>2
    <2>2. CASE ~ Unsupported(error)
        <3>1. Answer("error", <<>>)
            BY <1>4, <2>2
        <3>2. QED  BY <1>1, <3>1, ErrorStep
    <2>3. QED  BY <2>1, <2>2
<1>5. QED  BY <1>3, <1>4 DEF GetVacationResponse

\* Another client delivers, moves or destroys a message.
LEMMA ClientStep ==
    ASSUME ReadInv, NEW m \in Mails, Deliver(m) \/ Destroy(m) \/ \E b \in Boxes : Move(m, {b})
    PROVE  Kept
<1>1. /\ call.pc # "answered" /\ UNCHANGED <<supports, call>> /\ MailInv /\ CallInv
    BY DEF Deliver, Destroy, Move, ReadInv
<1>2. /\ letter' \in [Mails -> Letter \cup {None}]
      /\ in' \in [Mails -> SUBSET Boxes]
      /\ \A x \in Mails : letter[x] \in Letter => letter'[x] \in Letter
      /\ \A x \in Mails : in'[x] # {} => letter'[x] \in Letter
    <2>1. CASE Deliver(m)
        <3>1. PICK l \in Letters[m], b \in Boxes :
                  letter' = [letter EXCEPT ![m] = l] /\ in' = [in EXCEPT ![m] = {b}]
            BY <2>1 DEF Deliver
        <3>2. l \in Letter
            BY <3>1, ReadAssumption
        <3>3. QED  BY <1>1, <3>1, <3>2 DEF MailInv, Existing
    <2>2. ASSUME NEW boxes \in SUBSET Boxes, Move(m, boxes) 
          PROVE  /\ letter' \in [Mails -> Letter \cup {None}]
                 /\ in' \in [Mails -> SUBSET Boxes]
                 /\ \A x \in Mails : letter[x] \in Letter => letter'[x] \in Letter
                 /\ \A x \in Mails : in'[x] # {} => letter'[x] \in Letter
        BY <1>1, <2>2 DEF Move, MailInv, Existing
    <2>3. QED  BY <2>1, <2>2 DEF Destroy
<1>3. MailInv'
    BY <1>1, <1>2 DEF MailInv, Existing
<1>4. /\ call' = call /\ Tool' = Tool /\ Limit' = Limit
    BY <1>1 DEF Tool, Limit
<1>5. ASSUME QueryInv PROVE QueryInv'
    <2>1. call.ids \subseteq Mails
        BY <1>1 DEF CallInv, CallRecord
    <2>2. (call.ids \in Page(call.held))' <=> call.ids \in Page(call.held)
        BY <1>4 DEF Page, Top
    <2>3. QED  BY <1>2, <1>4, <1>5, <2>1, <2>2 DEF QueryInv
<1>6. ASSUME DownloadInv, call.req \in Requests PROVE DownloadInv'
    <2>1. call.req.of \in Mails
        BY <1>6, RequestFacts DEF DownloadInv, Tool
    <2>2. QED  BY <1>2, <1>4, <1>6, <2>1 DEF DownloadInv
<1>7. CallInv'
    BY <1>1, <1>4, <1>5, <1>6 DEF CallInv
<1>8. call'.pc # "answered"
    BY <1>1
<1>9. QED  BY <1>3, <1>7, <1>8, NoAnswerIsGood DEF ReadInv, Kept

\* Every step keeps the invariant and gives a good answer, if any.
LEMMA NextKeeps ==
    ASSUME ReadInv, Next
    PROVE  Kept
BY BeginStep, PlainAnswers, EmailQueryStep, ThreadGetStep, EmailGetStep, ListRecentEmailsStep,
   ReadThreadStep, SearchEmailsStep, MessageAnswers, FindAttachmentStep, DownloadBlobStep,
   MailboxAnswers, ListRecentActivityStep, GetVacationResponseStep, ClientStep DEF Next

\* So does a step that changes nothing.
LEMMA AnswersStutter ==
    ASSUME ReadInv, AnswersGood, UNCHANGED vars
    PROVE  Kept
<1>1. letter' = letter /\ in' = in /\ supports' = supports /\ call' = call
    BY DEF vars
<1>2. ReadInv'
    <2>1. MailInv' <=> MailInv
        BY <1>1 DEF MailInv, Existing
    <2>2. Tool' = Tool /\ Limit' = Limit
        BY <1>1 DEF Tool, Limit
    <2>3. (call.ids \in Page(call.held))' <=> call.ids \in Page(call.held)
        BY <1>1, <2>2 DEF Page, Top
    <2>4. QueryInv' <=> QueryInv
        BY <1>1, <2>2, <2>3 DEF QueryInv
    <2>5. DownloadInv' <=> DownloadInv
        BY <1>1, <2>2 DEF DownloadInv
    <2>6. CallInv' <=> CallInv
        BY <1>1, <2>4, <2>5 DEF CallInv
    <2>7. QED  BY <1>1, <2>1, <2>6 DEF ReadInv
<1>3. AnswersGood'
    <2>1. /\ Tool' = Tool /\ Limit' = Limit /\ Existing' = Existing
          /\ \A m : RawTexts(m)' = RawTexts(m)
          /\ \A m : Snippet(m)' = Snippet(m)
          /\ \A b : MailboxSummary(b)' = MailboxSummary(b)
        BY <1>1 DEF Tool, Limit, RawTexts, Snippet, Existing, MailboxSummary
    <2>2. \A tools : Answered(tools)' <=> Answered(tools)
        BY <1>1, <2>1 DEF Answered
    <2>3. Results' = Results
        BY <1>1, <2>2 DEF Results
    <2>4. Sandboxed'
        BY <2>3 DEF AnswersGood, Sandboxed
    <2>5. FlagIsExact'
        BY <1>1, <2>1, <2>3 DEF AnswersGood, FlagIsExact
    <2>6. DownloadCapped'
        BY <1>1, <2>2 DEF AnswersGood, DownloadCapped
    <2>7. LeftOutForCause'
        <3>1. LeftOutForCause
            BY DEF AnswersGood
        <3>2. PICK ids : ids = {call.items[i].id : i \in DOMAIN call.items}
            OBVIOUS
        <3>3. {call'.items[i].id : i \in DOMAIN call'.items} = ids
            BY <1>1, <3>2
        <3>4. Answered({"list_recent_emails", "search_emails", "read_thread"})' =>
                  \A m \in (call'.held \cap call'.lives) \ ids :
                      Limit' <= Cardinality(
                          {n \in IF Tool' = "read_thread" THEN ids ELSE call'.held \ {m} :
                              ReceivedAt[n] >= ReceivedAt[m]})
            BY <1>1, <2>1, <2>2, <3>1, <3>2 DEF LeftOutForCause
        <3>5. Answered({"list_recent_activity"})' =>
                  \A b \in Boxes \ ids, i \in DOMAIN call'.items :
                      MailboxSummary(b)'.unread <= call'.items[i].unread
            BY <1>1, <2>1, <2>2, <3>1, <3>2 DEF LeftOutForCause
        <3>6. Answered({"search_emails"})' /\ "SearchSnippet/get" \in supports' =>
                  \A r \in Results' :
                      r.wrapped = {} => r.id \notin Existing' \/ Snippet(r.id)' = <<>>
            BY <1>1, <2>1, <2>2, <2>3, <3>1 DEF LeftOutForCause
        <3>7. Answered({"get_vacation_response"})' =>
                  call'.items[1].supported = ("VacationResponse/get" \in supports')
            BY <1>1, <2>2, <3>1 DEF LeftOutForCause
        <3>8. QED  BY <3>3, <3>4, <3>5, <3>6, <3>7 DEF LeftOutForCause
    <2>8. QED  BY <2>4, <2>5, <2>6, <2>7 DEF AnswersGood
<1>4. QED  BY <1>2, <1>3 DEF Kept

\* The invariant holds initially.
LEMMA InitAnswers == Init => ReadInv /\ AnswersGood
<1>1. SUFFICES ASSUME Init PROVE ReadInv /\ AnswersGood
    OBVIOUS
<1>2. call.pc = "idle" /\ call \in CallRecord
    <2>1. PICK e, R : e = <<>> /\ R = Requests \cup {None}
        OBVIOUS
    <2>2. call = [pc |-> "idle", req |-> None, ids |-> {}, list |-> e,
                  kind |-> None, items |-> e, held |-> {}, lives |-> {}]
        <3>1. call = Idle
            BY <1>1 DEF Init
        <3>2. QED  BY ONLY <2>1, <3>1 DEF Idle
    <2>3. e \in Seq(Mails) /\ e \in {<<>>} /\ None \in R
        <3>1. \A S : <<>> \in Seq(S)
            OBVIOUS
        <3>2. e \in Seq(Mails) /\ e \in {<<>>}
            BY ONLY <2>1, <3>1
        <3>3. None \in R
            BY ONLY <2>1
        <3>4. QED  BY <3>2, <3>3
    <2>4. CallRecord = [pc: {"idle", "begun", "queried", "fetched", "found"}, req: R,
                        ids: SUBSET Mails, list: Seq(Mails), kind: {None}, items: {<<>>},
                        held: SUBSET Mails, lives: SUBSET Mails]
        BY <2>1 DEF CallRecord
    <2>5. QED  BY ONLY <2>2, <2>3, <2>4
<1>3. ReadInv
    BY <1>1, <1>2 DEF Init, ReadInv, MailInv, CallInv, Existing
<1>4. \A tools : ~ Answered(tools)
    BY <1>2 DEF Answered
<1>5. Results = {}
    BY <1>4 DEF Results
<1>6. Sandboxed /\ FlagIsExact
    BY <1>5 DEF Sandboxed, FlagIsExact
<1>7. LeftOutForCause /\ DownloadCapped
    BY <1>4 DEF LeftOutForCause, DownloadCapped
<1>8. QED  BY <1>3, <1>6, <1>7 DEF AnswersGood

\* Every behaviour keeps the inductive invariant and gives good answers.
LEMMA AnswersAreGood == Spec => [](ReadInv /\ AnswersGood)
<1>1. ReadInv /\ AnswersGood /\ [Next]_vars => (ReadInv /\ AnswersGood)'
    BY NextKeeps, AnswersStutter DEF Kept
<1>2. QED  BY <1>1, InitAnswers, PTL DEF Spec

\* Whatever anyone writes in a message, no marker and no delimiter gets through
\* to the model, for every text and every set of messages.
THEOREM ShownIsSandboxed == Spec => []Sandboxed
<1>1. AnswersGood => Sandboxed
    BY DEF AnswersGood
<1>2. QED  BY <1>1, AnswersAreGood, PTL

\* A result's flag is about what it shows, no more and no less.
THEOREM FlagsAreExact == Spec => []FlagIsExact
<1>1. AnswersGood => FlagIsExact
    BY DEF AnswersGood
<1>2. QED  BY <1>1, AnswersAreGood, PTL

\* What an answer leaves out it leaves out for cause, for every number of
\* messages and mailboxes, every limit and every order Stalwart lists them in.
THEOREM NothingLeftOutWithoutCause == Spec => []LeftOutForCause
<1>1. AnswersGood => LeftOutForCause
    BY DEF AnswersGood
<1>2. QED  BY <1>1, AnswersAreGood, PTL

\* No download passes the cap.
THEOREM DownloadsAreCapped == Spec => []DownloadCapped
<1>1. AnswersGood => DownloadCapped
    BY DEF AnswersGood
<1>2. QED  BY <1>1, AnswersAreGood, PTL
=============================================================================
