---------------------------- MODULE Memory_proofs ----------------------------
(***************************************************************************)
(* Lemmas about answers, for the stores whose answers are listings of what *)
(* a query asks for, put in order and cut at the limit.  No induction is   *)
(* needed: that a listing is complete follows from its length, and that    *)
(* there is one in order from counting what comes before each element.     *)
(***************************************************************************)
EXTENDS Memory, Integers, FiniteSetTheorems, TLAPS

-----------------------------------------------------------------------------
\* A sequence without repetitions, as long as a set has elements, has them all.
LEMMA Listing ==
    ASSUME NEW S, IsFiniteSet(S), NEW s \in SetToSeqs(S)
    PROVE  /\ Len(s) = Cardinality(S)
           /\ s \in Seq(S)
           /\ \A i, j \in 1 .. Len(s) : s[i] = s[j] => i = j
           /\ \A x \in S : \E i \in 1 .. Len(s) : s[i] = x
<1> DEFINE n == Cardinality(S)
<1>1. n \in Nat
  BY FS_CardinalityType
<1>2. s \in [1 .. n -> S] /\ \A i, j \in 1 .. n : s[i] = s[j] => i = j
  BY DEF SetToSeqs
<1>3. s \in Injection(1 .. n, S)
  BY <1>2 DEF Injection, IsInjective
<1>4. IsFiniteSet(1 .. n) /\ Cardinality(1 .. n) = n
  BY <1>1, FS_Interval
<1>5. s \in Surjection(1 .. n, S)
  BY <1>3, <1>4, FS_Injection
<1>6. \A x \in S : \E i \in 1 .. n : s[i] = x
  BY <1>5 DEF Surjection
<1> HIDE DEF n
<1>7. s \in Seq(S) /\ Len(s) = n
  BY <1>1, <1>2
<1> QED
  BY <1>2, <1>6, <1>7 DEF n

-----------------------------------------------------------------------------
\* The first n of a listing that is in order of R: they are in order, each
\* comes before all that are left, and what is left out comes after them.
LEMMA FirstOf ==
    ASSUME NEW S, IsFiniteSet(S), NEW s \in SetToSeqs(S), NEW n \in Nat, NEW R,
           \A i, j \in DOMAIN s : i < j => <<s[i], s[j]>> \in R
    PROVE  LET a == SubSeq(s, 1, IF Len(s) > n THEN n ELSE Len(s))
           IN  /\ a \in Seq(S) /\ IsInjective(a) /\ Len(a) <= n
               /\ Len(a) = n \/ ToSet(a) = S
               /\ \A i, j \in DOMAIN a : i < j => <<a[i], a[j]>> \in R
               /\ \A i \in DOMAIN a : \A x \in S \ ToSet(SubSeq(a, 1, i - 1)) :
                     x = a[i] \/ <<a[i], x>> \in R
               /\ \A x \in ToSet(a), y \in S \ ToSet(a) : <<x, y>> \in R
<1> DEFINE m == IF Len(s) > n THEN n ELSE Len(s)
           a == SubSeq(s, 1, m)
           k == Len(s)
<1>1. /\ s \in Seq(S)
      /\ \A i, j \in 1 .. k : s[i] = s[j] => i = j
      /\ \A x \in S : \E i \in 1 .. k : s[i] = x
  BY Listing
<1>2. m \in Nat /\ m <= n /\ m <= k /\ (m = n \/ m = k) /\ k \in Nat
  BY <1>1
<1>3. s \in [1 .. k -> S] /\ DOMAIN s = 1 .. k
  BY <1>1
<1> HIDE DEF m
<1>4. /\ a \in Seq(S) /\ Len(a) = m /\ DOMAIN a = 1 .. m
      /\ \A i \in 1 .. m : a[i] = s[i]
  BY <1>1, <1>2
<1> HIDE DEF a, k
<1>5. \A i \in 1 .. m : i \in 1 .. k
  BY <1>2
<1>6. IsInjective(a)
  BY <1>1, <1>4, <1>5, Zenon DEF IsInjective
<1>7. m = k => ToSet(a) = S
  <2> SUFFICES ASSUME m = k
               PROVE  ToSet(a) = S
    OBVIOUS
  <2>1. ToSet(a) = {s[i] : i \in 1 .. k}
    BY <1>4 DEF ToSet
  <2> QED
    BY <1>1, <1>3, <2>1
<1>8. \A i, j \in DOMAIN a : i < j => <<a[i], a[j]>> \in R
  BY <1>3, <1>4, <1>5, Zenon
<1>9. ASSUME NEW i \in DOMAIN a, NEW x \in S \ ToSet(SubSeq(a, 1, i - 1))
      PROVE  x = a[i] \/ <<a[i], x>> \in R
  <2>1. PICK j \in 1 .. k : s[j] = x
    BY <1>1
  <2>2. i \in 1 .. m
    BY <1>4
  <2> DEFINE b == SubSeq(a, 1, i - 1)
  <2>3. DOMAIN b = 1 .. i - 1 /\ \A l \in 1 .. i - 1 : b[l] = a[l]
    BY <1>2, <1>4, <2>2
  <2> HIDE DEF b
  <2>4. ASSUME j < i
        PROVE  FALSE
    <3>1. j \in 1 .. i - 1 /\ j \in 1 .. m
      BY <1>2, <2>1, <2>2, <2>4
    <3>2. b[j] = x
      BY <1>4, <2>1, <2>3, <3>1
    <3>3. x \in ToSet(b)
      BY <2>3, <3>1, <3>2, Zenon DEF ToSet
    <3> QED
      BY <1>9, <3>3 DEF b
  <2>5. i = j \/ i < j
    BY <1>2, <2>1, <2>2, <2>4
  <2>6. a[i] = s[i] /\ i \in DOMAIN s /\ j \in DOMAIN s
    BY <1>3, <1>4, <1>5, <2>1, <2>2
  <2> QED
    BY <2>1, <2>5, <2>6, Zenon
<1>10. ASSUME NEW x \in ToSet(a), NEW y \in S \ ToSet(a)
       PROVE  <<x, y>> \in R
  <2>1. PICK i \in 1 .. m : a[i] = x
    BY <1>4 DEF ToSet
  <2>2. PICK j \in 1 .. k : s[j] = y
    BY <1>1
  <2>3. j \notin 1 .. m
    BY <1>4, <2>2, Zenon DEF ToSet
  <2>4. i < j
    BY <1>2, <2>1, <2>2, <2>3
  <2>5. a[i] = s[i] /\ i \in DOMAIN s /\ j \in DOMAIN s
    BY <1>3, <1>4, <1>5, <2>1, <2>2
  <2> QED
    BY <2>1, <2>2, <2>4, <2>5, Zenon
<1> QED
  BY <1>2, <1>4, <1>6, <1>7, <1>8, <1>9, <1>10 DEF a, m, k

-----------------------------------------------------------------------------
\* R puts the elements of S in an order.
StrictOrder(R, S) ==
    /\ \A x, y \in S : x = y \/ <<x, y>> \in R \/ <<y, x>> \in R
    /\ \A x \in S : <<x, x>> \notin R
    /\ \A x, y, z \in S : <<x, y>> \in R /\ <<y, z>> \in R => <<x, z>> \in R

\* A finite set with a strict order has a listing in that order: the place of
\* an element is the number of those before it.
LEMMA Sortable ==
    ASSUME NEW S, IsFiniteSet(S), NEW R, StrictOrder(R, S)
    PROVE  \E s \in SetToSeqs(S) :
              \A i, j \in DOMAIN s : i < j => <<s[i], s[j]>> \in R
<1> DEFINE n        == Cardinality(S)
           Below(x) == {y \in S : <<y, x>> \in R}
           rank     == [x \in S |-> Cardinality(Below(x)) + 1]
           s        == [i \in 1 .. n |-> CHOOSE x \in S : rank[x] = i]
<1>0. /\ \A x, y \in S : x = y \/ <<x, y>> \in R \/ <<y, x>> \in R
      /\ \A x \in S : <<x, x>> \notin R
      /\ \A x, y, z \in S : <<x, y>> \in R /\ <<y, z>> \in R => <<x, z>> \in R
  BY Zenon DEF StrictOrder
<1>1. n \in Nat
  BY FS_CardinalityType
<1>2. ASSUME NEW x \in S
      PROVE  IsFiniteSet(Below(x)) /\ Cardinality(Below(x)) \in Nat
                /\ Cardinality(Below(x)) < n
  <2>1. Below(x) \in SUBSET S /\ Below(x) # S
    BY <1>0
  <2> HIDE DEF Below
  <2>2. IsFiniteSet(Below(x)) /\ Cardinality(Below(x)) <= n /\ n # Cardinality(Below(x))
    BY <2>1, FS_Subset
  <2> QED
    BY <1>1, <2>2, FS_CardinalityType
<1>3. ASSUME NEW x \in S, NEW y \in S, <<x, y>> \in R
      PROVE  Cardinality(Below(x)) < Cardinality(Below(y))
  <2>1. Below(x) \in SUBSET Below(y) /\ Below(x) # Below(y)
    BY <1>0, <1>3
  <2>2. IsFiniteSet(Below(y)) /\ Cardinality(Below(x)) \in Nat /\ Cardinality(Below(y)) \in Nat
    BY <1>2
  <2> HIDE DEF Below
  <2> QED
    BY <2>1, <2>2, FS_Subset
<1> HIDE DEF Below, n
<1>4. rank \in [S -> 1 .. n]
  BY <1>1, <1>2
<1>5. \A x, y \in S : <<x, y>> \in R => rank[x] < rank[y]
  BY <1>2, <1>3
<1> HIDE DEF rank
<1>6. rank \in Injection(S, 1 .. n)
  <2>1. ASSUME NEW x \in S, NEW y \in S, rank[x] = rank[y]
        PROVE  x = y
    <3>1. ~(rank[x] < rank[y]) /\ ~(rank[y] < rank[x])
      BY <1>4, <2>1
    <3> QED
      BY <1>0, <1>5, <3>1, Zenon
  <2> QED
    BY <1>4, <2>1, Zenon DEF Injection, IsInjective
<1>7. IsFiniteSet(1 .. n) /\ Cardinality(1 .. n) = n
  BY <1>1, FS_Interval
<1>8. rank \in Surjection(S, 1 .. n)
  BY <1>6, <1>7, FS_Injection DEF n
<1>9. \A i \in 1 .. n : s[i] \in S /\ rank[s[i]] = i
  BY <1>8 DEF Surjection
<1> HIDE DEF s
<1>10. s \in [1 .. n -> S]
  BY <1>9 DEF s
<1>11. s \in SetToSeqs(S)
  BY <1>9, <1>10 DEF SetToSeqs, n
<1>12. \A i, j \in 1 .. n : i < j => <<s[i], s[j]>> \in R
  <2> SUFFICES ASSUME NEW i \in 1 .. n, NEW j \in 1 .. n, i < j
               PROVE  <<s[i], s[j]>> \in R
    OBVIOUS
  <2>1. s[i] # s[j] /\ ~(rank[s[j]] < rank[s[i]])
    BY <1>1, <1>9
  <2> QED
    BY <1>0, <1>5, <1>9, <2>1, Zenon
<1> QED
  BY <1>10, <1>11, <1>12
-----------------------------------------------------------------------------
\* What ORDER BY created_at DESC LIMIT selects of what is wanted is an answer
\* as it should be.
LEMMA NewestOf ==
    ASSUME NEW rows, NEW ctx, NEW q, LimitOf(q) \in Nat,
           IsFiniteSet(Wanted(rows, ctx, q)),
           \A id \in Wanted(rows, ctx, q) : rows[id].created \in Nat,
           NEW s \in SetToSeqs(Wanted(rows, ctx, q)),
           \A i, j \in DOMAIN s :
               i < j => rows[s[i]].created >= rows[s[j]].created
    PROVE  LET n == LimitOf(q)
               a == SubSeq(s, 1, IF Len(s) > n THEN n ELSE Len(s))
           IN  /\ Answers(rows, ctx, q, a)
               /\ NewestFirst(rows, ctx, q, a)
<1> DEFINE n == LimitOf(q)
           a == SubSeq(s, 1, IF Len(s) > n THEN n ELSE Len(s))
           S == Wanted(rows, ctx, q)
           R == {p \in S \X S : rows[p[1]].created >= rows[p[2]].created}
<1>1. \A i, j \in DOMAIN s : i < j => <<s[i], s[j]>> \in R
  <2>1. \A i \in DOMAIN s : s[i] \in S
    BY DEF SetToSeqs
  <2> QED
    BY <2>1
<1> HIDE DEF R, S, n
<1>2. /\ a \in Seq(S) /\ IsInjective(a) /\ Len(a) <= n
      /\ Len(a) = n \/ ToSet(a) = S
      /\ \A i \in DOMAIN a : \A x \in S \ ToSet(SubSeq(a, 1, i - 1)) :
            x = a[i] \/ <<a[i], x>> \in R
  BY <1>1, FirstOf DEF S, n
<1> HIDE DEF a
<1>3. ToSet(a) \subseteq S
  BY <1>2 DEF ToSet
<1>4. Len(a) = n \/ (Len(a) < n /\ ToSet(a) = S)
  BY <1>2 DEF n
<1>5. \A i \in DOMAIN a : \A id \in S \ ToSet(SubSeq(a, 1, i - 1)) :
         rows[a[i]].created >= rows[id].created
  <2> SUFFICES ASSUME NEW i \in DOMAIN a,
                      NEW id \in S \ ToSet(SubSeq(a, 1, i - 1))
               PROVE  rows[a[i]].created >= rows[id].created
    OBVIOUS
  <2>1. rows[id].created \in Nat
    BY DEF S
  <2>2. CASE id = a[i]
    BY <2>1, <2>2
  <2>3. CASE <<a[i], id>> \in R
    BY <2>3 DEF R
  <2> QED
    BY <1>2, <2>2, <2>3
<1> QED
  BY <1>2, <1>3, <1>4, <1>5 DEF Answers, NewestFirst, S, n, a

-----------------------------------------------------------------------------
\* Finitely many IDs can be listed by increasing keys, and of equal keys by ID.
LEMMA ListingByKey ==
    ASSUME NEW S, IsFiniteSet(S), S \subseteq Nat, NEW key \in [S -> Int]
    PROVE  \E s \in SetToSeqs(S) :
              \A i, j \in DOMAIN s : i < j =>
                 \/ key[s[i]] < key[s[j]]
                 \/ key[s[i]] = key[s[j]] /\ s[i] < s[j]
<1> DEFINE First(x, y) == key[x] < key[y] \/ (key[x] = key[y] /\ x < y)
           R           == {p \in S \X S : First(p[1], p[2])}
<1>1. \A x, y \in S : <<x, y>> \in R <=> First(x, y)
  OBVIOUS
<1>2. \A x \in S : x \in Nat /\ key[x] \in Int
  OBVIOUS
<1> HIDE DEF R
<1>3. ASSUME NEW x \in S, NEW y \in S
      PROVE  x = y \/ <<x, y>> \in R \/ <<y, x>> \in R
  <2>1. x = y \/ First(x, y) \/ First(y, x)
    BY <1>2
  <2> QED
    BY <1>1, <2>1
<1>4. ASSUME NEW x \in S
      PROVE  <<x, x>> \notin R
  BY <1>1, <1>2
<1>5. ASSUME NEW x \in S, NEW y \in S, NEW z \in S, <<x, y>> \in R, <<y, z>> \in R
      PROVE  <<x, z>> \in R
  <2>1. First(x, y) /\ First(y, z)
    BY <1>1, <1>5
  <2>2. First(x, z)
    BY <1>2, <2>1
  <2> QED
    BY <1>1, <2>2
<1> HIDE DEF First
<1>6. \E s \in SetToSeqs(S) :
         \A i, j \in DOMAIN s : i < j => <<s[i], s[j]>> \in R
  <2>1. StrictOrder(R, S)
    BY <1>3, <1>4, <1>5, Zenon DEF StrictOrder
  <2> QED
    BY <2>1, Sortable, Zenon
<1>7. PICK s \in SetToSeqs(S) :
         \A i, j \in DOMAIN s : i < j => <<s[i], s[j]>> \in R
  BY <1>6, Zenon
<1>8. \A i \in DOMAIN s : s[i] \in S
  BY DEF SetToSeqs
<1>9. \A i, j \in DOMAIN s : i < j => First(s[i], s[j])
  BY <1>1, <1>7, <1>8, Zenon
<1> QED
  BY <1>9, Zenon DEF First

\* x comes before y: newer, or as new and with the smaller ID.
Newer(rows, x, y) ==
    \/ rows[x].created > rows[y].created
    \/ rows[x].created = rows[y].created /\ x < y

\* Finitely many records can be listed so, the newest first.
LEMMA NewestListing ==
    ASSUME NEW S, IsFiniteSet(S), S \subseteq Nat, NEW rows,
           \A x \in S : rows[x].created \in Nat
    PROVE  \E s \in SetToSeqs(S) :
              \A i, j \in DOMAIN s : i < j => Newer(rows, s[i], s[j])
<1> DEFINE key == [x \in S |-> 0 - rows[x].created]
<1>1. key \in [S -> Int]
  OBVIOUS
<1>2. \A x \in S : key[x] = 0 - rows[x].created
  OBVIOUS
<1> HIDE DEF key
<1>3. PICK s \in SetToSeqs(S) :
         \A i, j \in DOMAIN s : i < j =>
            \/ key[s[i]] < key[s[j]]
            \/ key[s[i]] = key[s[j]] /\ s[i] < s[j]
  BY <1>1, ListingByKey
<1>4. ASSUME NEW i \in DOMAIN s, NEW j \in DOMAIN s, i < j
      PROVE  Newer(rows, s[i], s[j])
  <2>1. s[i] \in S /\ s[j] \in S
    BY DEF SetToSeqs
  <2>2. rows[s[i]].created \in Nat /\ rows[s[j]].created \in Nat
    BY <2>1
  <2>3. \/ key[s[i]] < key[s[j]]
        \/ key[s[i]] = key[s[j]] /\ s[i] < s[j]
    BY <1>3, <1>4
  <2>4. key[s[i]] = 0 - rows[s[i]].created /\ key[s[j]] = 0 - rows[s[j]].created
    BY <1>2, <2>1
  <2> QED
    BY <2>2, <2>3, <2>4 DEF Newer
<1> QED
  BY <1>4
=============================================================================
