---------------------------- MODULE DequeProofs ----------------------------
(* What the queue operations of the two gates do to a queue without duplicates. *)
EXTENDS Deques, SequenceTheorems, FiniteSetTheorems, TLAPS

\* deque.remove closes the gap: what stood behind the k-th place moves up by one.
LEMMA RemoveAtPlaces ==
    ASSUME NEW S, NEW q \in Seq(S), NEW k \in 1 .. Len(q)
    PROVE  LET w == RemoveAt(q, k) IN
           /\ w \in Seq(S) /\ Len(w) = Len(q) - 1 /\ DOMAIN w = 1 .. (Len(q) - 1)
           /\ \A i \in 1 .. (Len(q) - 1) : w[i] = IF i < k THEN q[i] ELSE q[i + 1]
<1> DEFINE l == SubSeq(q, 1, k - 1)
           r == SubSeq(q, k + 1, Len(q))
           w == RemoveAt(q, k)
<1>1. DOMAIN q = 1 .. Len(q) /\ Len(q) \in Nat
  OBVIOUS
<1>2. w = l \o r
  BY DEF RemoveAt
<1> HIDE DEF w
<1>3. /\ l \in Seq(S) /\ Len(l) = k - 1
      /\ \A i \in 1 .. (k - 1) : l[i] = q[i]
  <2>1. \A i \in 1 .. (k - 1) : q[i] \in S
    BY <1>1
  <2>2. k - 1 \in Int /\ 1 \in Int
    BY <1>1
  <2> QED BY <2>1, <2>2, <1>1, SubSeqProperties
<1>4. /\ r \in Seq(S) /\ Len(r) = Len(q) - k
      /\ \A i \in 1 .. (Len(q) - k) : r[i] = q[k + i]
  <2>1. \A i \in (k + 1) .. Len(q) : q[i] \in S
    BY <1>1
  <2>2. k + 1 \in Int /\ Len(q) \in Int
    BY <1>1
  <2>3. \A i \in 1 .. (Len(q) - (k + 1) + 1) : r[i] = q[k + 1 + i - 1]
    BY <2>1, <2>2, SubSeqProperties
  <2>4. r \in Seq(S)
    BY <2>1, <2>2, SubSeqProperties
  <2>5. Len(r) = IF k + 1 <= Len(q) THEN Len(q) - (k + 1) + 1 ELSE 0
    BY <2>1, <2>2, SubSeqProperties
  <2> HIDE DEF r
  <2>6. Len(r) = Len(q) - k
    <3>1. \A x, y \in Int : x <= y =>
              (IF x + 1 <= y THEN y - (x + 1) + 1 ELSE 0) = y - x
      OBVIOUS
    <3>2. k \in Int /\ Len(q) \in Int /\ k <= Len(q)
      BY <1>1
    <3> QED BY <2>5, <3>1, <3>2, Zenon
  <2>7. ASSUME NEW i \in 1 .. (Len(q) - k)
        PROVE  r[i] = q[k + i]
    BY <2>3, <1>1
  <2> QED BY <2>4, <2>6, <2>7
<1> HIDE DEF l, r
<1>5. /\ w \in Seq(S) /\ Len(w) = Len(q) - 1 /\ DOMAIN w = 1 .. (Len(q) - 1)
      /\ \A i \in 1 .. (Len(q) - 1) : w[i] = IF i < k THEN q[i] ELSE q[i + 1]
  <2>1. w = l \o r
    BY <1>2
  <2>2. /\ l \o r \in Seq(S)
        /\ Len(l \o r) = Len(l) + Len(r)
        /\ \A i \in 1 .. (Len(l) + Len(r)) :
              (l \o r)[i] = IF i <= Len(l) THEN l[i] ELSE r[i - Len(l)]
    BY <1>3, <1>4, ConcatProperties
  <2>3. Len(l) + Len(r) = Len(q) - 1
    BY <1>3, <1>4, <1>1
  <2>4. w \in Seq(S) /\ Len(w) = Len(q) - 1
    BY <2>1, <2>2, <2>3
  <2>5. DOMAIN w = 1 .. Len(w)
    BY <2>4
  <2>6. ASSUME NEW i \in 1 .. (Len(q) - 1)
        PROVE  w[i] = IF i < k THEN q[i] ELSE q[i + 1]
    <3>1. w[i] = IF i <= k - 1 THEN l[i] ELSE r[i - (k - 1)]
      BY <2>1, <2>2, <2>3, <1>3
    <3>2. CASE i < k
      <4>1. i \in 1 .. (k - 1) /\ i <= k - 1
        BY <3>2, <1>1
      <4> QED BY <4>1, <3>1, <3>2, <1>3
    <3>3. CASE i >= k
      <4>1. i - (k - 1) \in 1 .. (Len(q) - k) /\ ~(i <= k - 1) /\ k + (i - (k - 1)) = i + 1
        BY <3>3, <1>1
      <4>2. r[i - (k - 1)] = q[k + (i - (k - 1))]
        BY <4>1, <1>4
      <4> QED BY <4>1, <4>2, <3>1, <3>3, <1>1
    <3> QED BY <3>2, <3>3, <1>1
  <2> QED BY <2>4, <2>5, <2>6
<1> QED BY <1>5 DEF w

\* deque.remove takes out the one occurrence of t, keeps the rest, and lets no
\* request fall behind the last one.
LEMMA WithoutQueue ==
    ASSUME NEW S, NEW q \in Seq(S), NEW t, IsInjective(q)
    PROVE  /\ Without(q, t) \in Seq(S)
           /\ IsInjective(Without(q, t))
           /\ Range(Without(q, t)) = Range(q) \ {t}
           /\ Len(Without(q, t)) <= Len(q)
           /\ \A i \in 1 .. (Len(Without(q, t)) - 1) :
                \E j \in 1 .. (Len(q) - 1) : Without(q, t)[i] = q[j]
<1>1. CASE ~ \E i \in DOMAIN q : q[i] = t
  <2>1. Without(q, t) = q
    BY <1>1 DEF Without
  <2>2. Len(q) \in Nat
    OBVIOUS
  <2> QED BY <1>1, <2>1, <2>2 DEF Range
<1>2. CASE \E i \in DOMAIN q : q[i] = t
  <2> DEFINE P(i) == q[i] = t /\ \A j \in 1 .. (i - 1) : q[j] # t
             k == CHOOSE i \in DOMAIN q : P(i)
             w == Without(q, t)
  <2>1. DOMAIN q = 1 .. Len(q) /\ Len(q) \in Nat
    OBVIOUS
  <2>2. \E i \in DOMAIN q : P(i)
    <3>1. PICK i \in DOMAIN q : q[i] = t
      BY <1>2
    <3>2. \A j \in 1 .. (i - 1) : q[j] # t
      BY <3>1, <2>1 DEF IsInjective
    <3> QED BY <3>1, <3>2
  <2>3. k \in 1 .. Len(q) /\ q[k] = t
    BY <2>1, <2>2
  <2>4. w = RemoveAt(q, k)
    BY <1>2 DEF Without
  <2> HIDE DEF k, w
  <2>5. /\ w \in Seq(S) /\ Len(w) = Len(q) - 1 /\ DOMAIN w = 1 .. (Len(q) - 1)
        /\ \A i \in 1 .. (Len(q) - 1) : w[i] = IF i < k THEN q[i] ELSE q[i + 1]
    BY <2>3, <2>4, RemoveAtPlaces
  <2>6. IsInjective(w)
    <3> SUFFICES ASSUME NEW a \in 1 .. (Len(q) - 1), NEW b \in 1 .. (Len(q) - 1), w[a] = w[b]
                 PROVE  a = b
      BY <2>5 DEF IsInjective
    <3> DEFINE at(i) == IF i < k THEN i ELSE i + 1
    <3>1. w[a] = q[at(a)] /\ w[b] = q[at(b)]
      BY <2>5
    <3>2. at(a) \in DOMAIN q /\ at(b) \in DOMAIN q
      BY <2>1, <2>3
    <3>3. at(a) = at(b)
      BY <3>1, <3>2 DEF IsInjective
    <3> QED BY <3>3, <2>1, <2>3
  <2>7. Range(w) = Range(q) \ {t}
    <3>1. Range(w) \subseteq Range(q) \ {t}
      BY <2>1, <2>3, <2>5, SMTT(30) DEF IsInjective, Range
    <3>2. ASSUME NEW u \in Range(q) \ {t}
          PROVE  u \in Range(w)
      <4>1. PICK j \in 1 .. Len(q) : u = q[j]
        BY <2>1 DEF Range
      <4>2. j # k
        BY <4>1, <2>3
      <4>3. CASE j < k
        <5>1. j \in 1 .. (Len(q) - 1) /\ w[j] = u
          BY <4>3, <4>1, <2>1, <2>3, <2>5
        <5> QED BY <5>1, <2>5 DEF Range
      <4>4. CASE j > k
        <5>1. j - 1 \in 1 .. (Len(q) - 1) /\ w[j - 1] = u
          BY <4>4, <4>1, <2>1, <2>3, <2>5
        <5> QED BY <5>1, <2>5 DEF Range
      <4> QED BY <4>2, <4>3, <4>4, <4>1, <2>3
    <3> QED BY <3>1, <3>2
  <2>8. \A i \in 1 .. (Len(w) - 1) : \E j \in 1 .. (Len(q) - 1) : w[i] = q[j]
    <3> TAKE i \in 1 .. (Len(w) - 1)
    <3>1. i \in 1 .. (Len(q) - 1) /\ i + 1 \in 1 .. (Len(q) - 1)
      BY <2>1, <2>5
    <3> QED BY <3>1, <2>5
  <2>9. Len(w) <= Len(q)
    BY <2>1, <2>5
  <2> QED BY <2>5, <2>6, <2>7, <2>8, <2>9 DEF w
<1> QED BY <1>1, <1>2

LEMMA WithoutPlace ==
    ASSUME NEW S, NEW q \in Seq(S), NEW t \in Range(q), IsInjective(q)
    PROVE  \E k \in 1 .. Len(q) : q[k] = t /\ Without(q, t) = RemoveAt(q, k)
<1> DEFINE P(i) == q[i] = t /\ \A j \in 1 .. (i - 1) : q[j] # t
           k == CHOOSE i \in DOMAIN q : P(i)
<1>1. DOMAIN q = 1 .. Len(q) /\ Len(q) \in Nat
  OBVIOUS
<1>2. PICK i \in DOMAIN q : q[i] = t
  BY DEF Range
<1>3. \A j \in 1 .. (i - 1) : q[j] # t
  BY <1>1, <1>2 DEF IsInjective
<1>4. k \in DOMAIN q /\ P(k)
  BY <1>2, <1>3
<1>5. Without(q, t) = RemoveAt(q, k)
  BY <1>2 DEF Without
<1> QED BY <1>1, <1>4, <1>5

\* append puts a new element behind all the others.
LEMMA AppendQueue ==
    ASSUME NEW S, NEW q \in Seq(S), NEW t \in S, IsInjective(q), t \notin Range(q)
    PROVE  /\ Append(q, t) \in Seq(S)
           /\ Append(q, t) # <<>>
           /\ IsInjective(Append(q, t))
           /\ Range(Append(q, t)) = Range(q) \union {t}
           /\ \A i \in 1 .. (Len(Append(q, t)) - 1) : Append(q, t)[i] \in Range(q)
<1> DEFINE w == Append(q, t)
<1>1. /\ Len(q) \in Nat /\ DOMAIN q = 1 .. Len(q)
      /\ w \in Seq(S) /\ w # <<>> /\ Len(w) = Len(q) + 1
      /\ DOMAIN w = 1 .. (Len(q) + 1)
      /\ \A i \in 1 .. Len(q) : w[i] = q[i]
      /\ w[Len(q) + 1] = t
  BY AppendProperties
<1> HIDE DEF w
<1>2. IsInjective(w)
  BY <1>1 DEF IsInjective, Range
<1>3. Range(w) = Range(q) \union {t}
  BY <1>1 DEF Range
<1>4. \A i \in 1 .. (Len(w) - 1) : w[i] \in Range(q)
  BY <1>1 DEF Range
<1> QED BY <1>1, <1>2, <1>3, <1>4 DEF w

\* The elements of the first n places, and the queue without those places.
FirstOf(q, n) == {q[i] : i \in 1 .. n}
RestOf(q, n) == SubSeq(q, n + 1, Len(q))

\* The first n of a queue and the rest of it share no element, and together are the queue.
LEMMA FirstQueue ==
    ASSUME NEW S, NEW q \in Seq(S), IsInjective(q), NEW n \in 0 .. Len(q)
    PROVE  /\ RestOf(q, n) \in Seq(S) /\ IsInjective(RestOf(q, n))
           /\ RestOf(q, n) # <<>> => n # Len(q)
           /\ Range(RestOf(q, n)) \union FirstOf(q, n) = Range(q)
           /\ Range(RestOf(q, n)) \intersect FirstOf(q, n) = {}
           /\ IsFiniteSet(FirstOf(q, n)) /\ Cardinality(FirstOf(q, n)) = n
<1> DEFINE w == SubSeq(q, n + 1, Len(q))
           g == {q[i] : i \in 1 .. n}
<1>1. Len(q) \in Nat /\ DOMAIN q = 1 .. Len(q) /\ n \in Int /\ 0 <= n /\ n <= Len(q)
  OBVIOUS
<1>2. /\ w \in Seq(S) /\ Len(w) = Len(q) - n
      /\ \A i \in 1 .. (Len(q) - n) : w[i] = q[n + i]
  <2>1. n + 1 \in Int /\ Len(q) \in Int
    BY <1>1
  <2>2. \A i \in (n + 1) .. Len(q) : q[i] \in S
    BY <1>1
  <2>3. /\ w \in Seq(S)
        /\ Len(w) = IF n + 1 <= Len(q) THEN Len(q) - (n + 1) + 1 ELSE 0
        /\ \A i \in 1 .. (Len(q) - (n + 1) + 1) : w[i] = q[n + 1 + i - 1]
    BY <2>1, <2>2, SubSeqProperties
  <2> HIDE DEF w
  <2>4. Len(w) = Len(q) - n
    <3>1. Len(w) = IF n + 1 <= Len(q) THEN Len(q) - (n + 1) + 1 ELSE 0
      BY <2>3
    <3>2. \A x, y \in Int : x <= y =>
              (IF x + 1 <= y THEN y - (x + 1) + 1 ELSE 0) = y - x
      OBVIOUS
    <3>3. n \in Int /\ Len(q) \in Int /\ n <= Len(q)
      BY <1>1
    <3> QED BY <3>1, <3>2, <3>3, Zenon
  <2>5. ASSUME NEW i \in 1 .. (Len(q) - n)
        PROVE  w[i] = q[n + i]
    <3>1. i \in 1 .. (Len(q) - (n + 1) + 1) /\ n + 1 + i - 1 = n + i
      BY <1>1
    <3>2. w[i] = q[n + 1 + i - 1]
      BY <3>1, <2>3
    <3> QED BY <3>1, <3>2
  <2> QED BY <2>3, <2>4, <2>5
<1>3. DOMAIN w = 1 .. (Len(q) - n)
  BY <1>2
<1> HIDE DEF w
<1>4. w # <<>> => n # Len(q)
  <2>1. SUFFICES ASSUME n = Len(q)
                 PROVE  w = <<>>
    OBVIOUS
  <2>2. Len(w) = 0 /\ w \in Seq(S)
    BY <2>1, <1>1, <1>2
  <2> QED BY <2>2, EmptySeq
<1>5. IsInjective(w)
  <2> SUFFICES ASSUME NEW i \in 1 .. (Len(q) - n), NEW j \in 1 .. (Len(q) - n), w[i] = w[j]
               PROVE  i = j
    BY <1>3 DEF IsInjective
  <2>1. n + i \in DOMAIN q /\ n + j \in DOMAIN q /\ q[n + i] = q[n + j]
    BY <1>1, <1>2
  <2>2. n + i = n + j
    BY <2>1 DEF IsInjective
  <2> QED BY <2>2, <1>1
<1>6. Range(w) \union g = Range(q)
  <2>1. Range(w) \subseteq Range(q)
    BY <1>1, <1>2, <1>3, SMTT(30) DEF Range
  <2>2. g \subseteq Range(q)
    BY <1>1 DEF Range
  <2>3. ASSUME NEW u \in Range(q), u \notin g
        PROVE  u \in Range(w)
    <3>1. PICK i \in 1 .. Len(q) : u = q[i]
      BY <1>1 DEF Range
    <3>2. i \notin 1 .. n
      BY <3>1, <2>3
    <3>3. i - n \in 1 .. (Len(q) - n) /\ w[i - n] = u
      BY <3>1, <3>2, <1>1, <1>2
    <3> QED BY <3>3, <1>3 DEF Range
  <2> QED BY <2>1, <2>2, <2>3
<1>7. Range(w) \intersect g = {}
  <2> SUFFICES ASSUME NEW i \in 1 .. (Len(q) - n), NEW j \in 1 .. n, w[i] = q[j]
               PROVE  FALSE
    BY <1>3 DEF Range
  <2>1. n + i \in DOMAIN q /\ j \in DOMAIN q /\ q[n + i] = q[j]
    BY <1>1, <1>2
  <2>2. n + i = j
    BY <2>1 DEF IsInjective
  <2> QED BY <2>2, <1>1
<1>8. IsFiniteSet(g) /\ Cardinality(g) = n
  <2> DEFINE f == [i \in 1 .. n |-> q[i]]
  <2>1. f \in Surjection(1 .. n, g)
    BY DEF Surjection
  <2>2. f \in Injection(1 .. n, g)
    BY <1>1 DEF Injection, IsInjective
  <2>3. IsFiniteSet(1 .. n) /\ Cardinality(1 .. n) = n
    <3>1. n \in Int /\ n >= 0 /\ 1 \in Int
      BY <1>1
    <3>2. /\ IsFiniteSet(1 .. n)
          /\ Cardinality(1 .. n) = IF 1 > n THEN 0 ELSE n - 1 + 1
      BY <3>1, FS_Interval
    <3>3. (IF 1 > n THEN 0 ELSE n - 1 + 1) = n
      BY <3>1
    <3> QED BY <3>2, <3>3
  <2> HIDE DEF f, g
  <2> QED BY <2>1, <2>2, <2>3, FS_Surjection
<1> QED BY <1>2, <1>4, <1>5, <1>6, <1>7, <1>8 DEF w, g, FirstOf, RestOf
=============================================================================
