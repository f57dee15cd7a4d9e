----------------------- MODULE AdministrationProofs -----------------------
(***************************************************************************)
(* Proofs about the two kinds of login, by the administrator and, for an   *)
(* account, by hand: Administration and DeferredChrome.                    *)
(*                                                                         *)
(* The table of attempts, pruned only when a login looks at it, counts     *)
(* exactly the failures of the last window.                                *)
(*                                                                         *)
(* A Chrome, its directory and its lease are in somebody's hands, all the  *)
(* way from start() to the end of the winding up: by one invariant on who  *)
(* is inside the manager lock, and with which session.                     *)
(***************************************************************************)
EXTENDS Administration, DeferredChrome,
        SequenceTheorems, FiniteSetTheorems, WellFoundedInduction, TLAPS

-----------------------------------------------------------------------------
(* ADMINISTRATION: pruning a queue that is in order of age *)

\* A set of numbers that is not empty has a least one: no interval 1 .. x of those
\* that end in the set is a part of all the others but the least.
LEMMA LeastNumber ==
    ASSUME NEW T \in SUBSET Nat, T # {}
    PROVE  \E x \in T : \A y \in T : x <= y
<1> DEFINE Intervals == {1 .. x : x \in T}
<1>1. Intervals \subseteq FiniteSubsetsOf(Nat) /\ Intervals # {}
  <2>1. ASSUME NEW x \in T
        PROVE  1 .. x \in SUBSET Nat /\ IsFiniteSet(1 .. x)
    <3>1. 1 \in Int /\ x \in Int
      OBVIOUS
    <3> QED BY <3>1, FS_Interval
  <2> QED BY <2>1 DEF FiniteSubsetsOf
<1>2. \E s \in Intervals : \A t \in Intervals : <<t, s>> \notin StrictSubsetOrdering(Nat)
  <2> HIDE DEF Intervals
  <2> QED BY <1>1, FS_StrictSubsetOrderingWellFounded, WFMin
<1>3. PICK x \in T : \A t \in Intervals : <<t, 1 .. x>> \notin StrictSubsetOrdering(Nat)
  BY <1>2
<1>4. ASSUME NEW y \in T, y < x
      PROVE  FALSE
  <2>1. 1 .. y \in SUBSET Nat /\ 1 .. x \in SUBSET Nat
    OBVIOUS
  <2>2. 1 .. y \subseteq 1 .. x /\ x \in 1 .. x /\ x \notin 1 .. y
    BY <1>4
  <2>3. <<1 .. y, 1 .. x>> \in StrictSubsetOrdering(Nat)
    BY <2>1, <2>2 DEF StrictSubsetOrdering
  <2> QED BY <1>3, <2>3
<1> QED BY <1>4

\* The oldest attempt comes first.
OldestFirst(ages) == \A i, j \in 1 .. Len(ages) : i <= j => ages[j] <= ages[i]

\* The first n have reached the limit and the others have not.
SplitsAt(ages, limit, n) ==
    /\ n \in 0 .. Len(ages)
    /\ \A i \in 1 .. n : ages[i] >= limit
    /\ \A i \in (n + 1) .. Len(ages) : ages[i] < limit

\* The loop stops.
LEMMA SplitExists ==
    ASSUME NEW ages \in Seq(Nat), NEW limit \in Nat, OldestFirst(ages)
    PROVE  \E n : SplitsAt(ages, limit, n)
<1>1. Len(ages) \in Nat /\ DOMAIN ages = 1 .. Len(ages) /\ \A i \in 1 .. Len(ages) : ages[i] \in Nat
  OBVIOUS
<1> DEFINE T == {n \in 0 .. Len(ages) : \A i \in (n + 1) .. Len(ages) : ages[i] < limit}
<1>2. T \in SUBSET Nat /\ Len(ages) \in T
  BY <1>1
<1>3. PICK n \in T : \A m \in T : n <= m
  BY <1>2, LeastNumber
<1>4. n \in 0 .. Len(ages) /\ \A i \in (n + 1) .. Len(ages) : ages[i] < limit
  BY <1>3
<1>5. ASSUME NEW i \in 1 .. n
      PROVE  ages[i] >= limit
  <2>1. ages[n] >= limit
    <3> SUFFICES ASSUME ages[n] < limit PROVE FALSE
      BY <1>1, <1>4, <1>5
    <3>1. n - 1 \in 0 .. Len(ages) /\ ~(n <= n - 1)
      BY <1>1, <1>4, <1>5
    <3>2. ASSUME NEW j \in (n - 1 + 1) .. Len(ages)
          PROVE  ages[j] < limit
      <4>1. j = n \/ j \in (n + 1) .. Len(ages)
        BY <1>1, <1>4, <3>2
      <4> QED BY <1>4, <4>1
    <3>3. n - 1 \in T
      BY <3>1, <3>2
    <3> HIDE DEF T
    <3> QED BY <1>3, <3>1, <3>3
  <2>2. ages[n] <= ages[i]
    BY <1>1, <1>4 DEF OldestFirst
  <2>3. ages[n] \in Nat /\ ages[i] \in Nat
    BY <1>1, <1>4
  <2> QED BY <2>1, <2>2, <2>3
<1> HIDE DEF T
<1> QED BY <1>4, <1>5 DEF SplitsAt

\* Where the queue splits, the loop stops, and nowhere else.
LEMMA PoppedAtSplit ==
    ASSUME NEW ages \in Seq(Nat), NEW limit \in Nat, NEW n, SplitsAt(ages, limit, n)
    PROVE  Popped(ages, limit) = SubSeq(ages, n + 1, Len(ages))
<1>1. /\ Len(ages) \in Nat /\ \A i \in 1 .. Len(ages) : ages[i] \in Nat
      /\ n \in 0 .. Len(ages)
  BY DEF SplitsAt
<1> DEFINE P(k) == /\ \A i \in 1 .. k : ages[i] >= limit
                   /\ k < Len(ages) => ages[k + 1] < limit
<1>2. P(n)
  BY <1>1 DEF SplitsAt
<1>3. ASSUME NEW k \in 0 .. Len(ages), P(k)
      PROVE  k = n
  <2>1. CASE k < n
    <3>1. k + 1 \in 1 .. n /\ k + 1 \in 1 .. Len(ages) /\ k < Len(ages)
      BY <1>1, <2>1
    <3>2. ages[k + 1] >= limit /\ ages[k + 1] < limit /\ ages[k + 1] \in Nat
      BY <1>1, <1>3, <3>1 DEF SplitsAt
    <3> QED BY <3>2
  <2>2. CASE k > n
    <3>1. n + 1 \in 1 .. k /\ n + 1 \in (n + 1) .. Len(ages) /\ n + 1 \in 1 .. Len(ages)
      BY <1>1, <2>2
    <3>2. ages[n + 1] >= limit /\ ages[n + 1] < limit /\ ages[n + 1] \in Nat
      BY <1>1, <1>3, <3>1 DEF SplitsAt
    <3> QED BY <3>2
  <2> QED BY <1>1, <2>1, <2>2
<1>4. n = CHOOSE k \in 0 .. Len(ages) : P(k)
  <2> HIDE DEF P
  <2> QED BY <1>1, <1>2, <1>3
<1> QED BY <1>4 DEF Popped

\* What is left, place by place.
LEMMA PoppedPlaces ==
    ASSUME NEW ages \in Seq(0 .. Window), NEW n, SplitsAt(ages, Window, n)
    PROVE  /\ Popped(ages, Window) \in Seq(0 .. Window)
           /\ Len(Popped(ages, Window)) = Len(ages) - n
           /\ \A i \in 1 .. (Len(ages) - n) : /\ Popped(ages, Window)[i] = ages[n + i]
                                              /\ ages[n + i] < Window
<1>1. /\ Len(ages) \in Nat /\ \A i \in 1 .. Len(ages) : ages[i] \in 0 .. Window
      /\ n \in 0 .. Len(ages) /\ ages \in Seq(Nat) /\ Window \in Nat
  <2>1. Window \in Nat /\ 0 .. Window \subseteq Nat
    BY LimiterAssumption
  <2>2. ages \in Seq(Nat)
    BY <2>1, SeqMonotonic
  <2> QED BY <2>1, <2>2 DEF SplitsAt
<1> DEFINE p == SubSeq(ages, n + 1, Len(ages))
<1>2. Popped(ages, Window) = p
  BY <1>1, PoppedAtSplit
<1>3. /\ p \in Seq(0 .. Window)
      /\ Len(p) = IF n + 1 <= Len(ages) THEN Len(ages) - (n + 1) + 1 ELSE 0
      /\ \A i \in 1 .. (Len(ages) - (n + 1) + 1) : p[i] = ages[n + 1 + i - 1]
  <2>1. n + 1 \in Int /\ Len(ages) \in Int
    BY <1>1
  <2>2. \A i \in (n + 1) .. Len(ages) : ages[i] \in 0 .. Window
    BY <1>1
  <2> QED BY <2>1, <2>2, SubSeqProperties
<1> HIDE DEF p
<1>4. Len(p) = Len(ages) - n
  <2>1. \A x, y \in Int : x <= y => (IF x + 1 <= y THEN y - (x + 1) + 1 ELSE 0) = y - x
    OBVIOUS
  <2>2. n \in Int /\ Len(ages) \in Int /\ n <= Len(ages)
    BY <1>1
  <2> QED BY <1>3, <2>1, <2>2, Zenon
<1>5. ASSUME NEW i \in 1 .. (Len(ages) - n)
      PROVE  p[i] = ages[n + i] /\ ages[n + i] < Window
  <2>1. i \in 1 .. (Len(ages) - (n + 1) + 1) /\ n + 1 + i - 1 = n + i
    BY <1>1
  <2>2. n + i \in (n + 1) .. Len(ages)
    BY <1>1
  <2> QED BY <1>3, <2>1, <2>2 DEF SplitsAt
<1> QED BY <1>2, <1>3, <1>4, <1>5

\* The queue after pruning: in order, and everything in it is younger than the window.
LEMMA PoppedIsYoung ==
    ASSUME NEW ages \in Seq(0 .. Window), OldestFirst(ages)
    PROVE  LET p == Popped(ages, Window) IN
           p \in Seq(0 .. Window - 1) /\ Len(p) <= Len(ages) /\ OldestFirst(p)
<1>1. Window \in Nat /\ Len(ages) \in Nat /\ 0 .. Window \in SUBSET Nat /\ ages \in Seq(Nat)
  <2>1. Window \in Nat /\ 0 .. Window \subseteq Nat
    BY LimiterAssumption
  <2>2. ages \in Seq(Nat)
    BY <2>1, SeqMonotonic
  <2> QED BY <2>1, <2>2
<1>2. PICK n : SplitsAt(ages, Window, n)
  BY <1>1, SplitExists
<1> DEFINE p == Popped(ages, Window)
<1>3. /\ p \in Seq(0 .. Window) /\ Len(p) = Len(ages) - n
      /\ \A i \in 1 .. (Len(ages) - n) : p[i] = ages[n + i] /\ ages[n + i] < Window
  BY <1>2, PoppedPlaces
<1> HIDE DEF p
<1>4. /\ p \in Seq(0 .. Window - 1) /\ Len(p) \in Nat /\ Len(p) <= Len(ages)
      /\ n \in 0 .. Len(ages)
  <2>1. ASSUME NEW i \in 1 .. Len(p)
        PROVE  p[i] \in 0 .. Window - 1
    <3>1. p[i] \in 0 .. Window
      BY <1>3, ElementOfSeq
    <3>2. p[i] < Window
      BY <1>3
    <3> QED BY <1>1, <3>1, <3>2
  <2>2. Len(p) \in Nat /\ p \in [1 .. Len(p) -> 0 .. Window]
    BY <1>3, LenProperties
  <2>3. p \in [1 .. Len(p) -> 0 .. Window - 1]
    BY <2>1, <2>2
  <2>4. n \in 0 .. Len(ages)
    BY <1>2 DEF SplitsAt
  <2>5. p \in Seq(0 .. Window - 1)
    <3> DEFINE A == 0 .. Window - 1
    <3>1. \E k \in Nat : p \in [1 .. k -> A]
      BY <2>2, <2>3
    <3> HIDE DEF A
    <3>2. p \in Seq(A)
      BY <3>1, SeqDef
    <3> QED BY <3>2 DEF A
  <2> QED BY <1>1, <1>3, <2>2, <2>4, <2>5
<1>5. OldestFirst(p)
  <2> SUFFICES ASSUME NEW i \in 1 .. Len(p), NEW j \in 1 .. Len(p), i <= j
               PROVE  p[j] <= p[i]
    BY DEF OldestFirst
  <2>1. i \in 1 .. (Len(ages) - n) /\ j \in 1 .. (Len(ages) - n)
    BY <1>3
  <2>2. n + i \in 1 .. Len(ages) /\ n + j \in 1 .. Len(ages) /\ n + i <= n + j
    BY <1>1, <1>4, <2>1
  <2>3. p[i] = ages[n + i] /\ p[j] = ages[n + j]
    BY <1>3, <2>1
  <2> QED BY <2>2, <2>3 DEF OldestFirst
<1> QED BY <1>4, <1>5 DEF p

\* Pruning changes nothing of a queue that is young already.
LEMMA YoungStays ==
    ASSUME NEW ages \in Seq(0 .. Window - 1)
    PROVE  Popped(ages, Window) = ages
<1>1. Window \in Nat /\ Len(ages) \in Nat /\ ages \in Seq(0 .. Window)
  <2>1. Window \in Nat /\ 0 .. Window - 1 \subseteq 0 .. Window
    BY LimiterAssumption
  <2>2. ages \in Seq(0 .. Window)
    BY <2>1, SeqMonotonic
  <2> QED BY <2>1, <2>2
<1>2. SplitsAt(ages, Window, 0)
  BY <1>1 DEF SplitsAt
<1> DEFINE p == Popped(ages, Window)
<1>3. /\ p \in Seq(0 .. Window) /\ Len(p) = Len(ages) - 0
      /\ \A i \in 1 .. (Len(ages) - 0) : p[i] = ages[0 + i] /\ ages[0 + i] < Window
  BY <1>1, <1>2, PoppedPlaces
<1> HIDE DEF p
<1>4. Len(p) = Len(ages) /\ \A i \in 1 .. Len(p) : p[i] = ages[i]
  BY <1>1, <1>3
<1>5. p = ages
  BY <1>1, <1>3, <1>4, SeqEqual
<1> QED BY <1>5 DEF p

\* A new failure is the youngest of its queue.
LEMMA AppendedInOrder ==
    ASSUME NEW ages \in Seq(0 .. Window - 1), OldestFirst(ages)
    PROVE  /\ Append(ages, 0) \in Seq(0 .. Window - 1) /\ OldestFirst(Append(ages, 0))
           /\ Len(Append(ages, 0)) = Len(ages) + 1 /\ Append(ages, 0) # <<>>
<1>1. Window \in Nat \ {0} /\ 0 \in 0 .. Window - 1 /\ Len(ages) \in Nat
  BY LimiterAssumption
<1> DEFINE w == Append(ages, 0)
<1>2. /\ w \in Seq(0 .. Window - 1) /\ Len(w) = Len(ages) + 1 /\ w # <<>>
      /\ \A i \in 1 .. Len(ages) : w[i] = ages[i]
      /\ w[Len(ages) + 1] = 0
  BY <1>1, AppendProperties, SMTT(30)
<1> HIDE DEF w
<1>3. \A i \in 1 .. Len(w) : w[i] \in 0 .. Window - 1
  BY <1>2, ElementOfSeq
<1>4. OldestFirst(w)
  <2> SUFFICES ASSUME NEW i \in 1 .. Len(w), NEW j \in 1 .. Len(w), i <= j
               PROVE  w[j] <= w[i]
    BY DEF OldestFirst
  <2>1. CASE j = Len(ages) + 1
    BY <1>1, <1>2, <1>3, <2>1
  <2>2. CASE j # Len(ages) + 1
    <3>1. i \in 1 .. Len(ages) /\ j \in 1 .. Len(ages)
      BY <1>1, <1>2, <2>2
    <3> QED BY <1>2, <3>1 DEF OldestFirst
  <2> QED BY <2>1, <2>2
<1> QED BY <1>2, <1>4 DEF w

\* Time passes for all attempts at once.
LEMMA OlderInOrder ==
    ASSUME NEW ages \in Seq(0 .. Window), OldestFirst(ages)
    PROVE  LET w == Older(ages, Window) IN
           /\ w \in Seq(0 .. Window) /\ Len(w) = Len(ages) /\ OldestFirst(w)
           /\ \A i \in 1 .. Len(ages) : w[i] = IF ages[i] < Window THEN ages[i] + 1 ELSE Window
<1>1. /\ Window \in Nat /\ Len(ages) \in Nat /\ DOMAIN ages = 1 .. Len(ages)
      /\ \A i \in 1 .. Len(ages) : ages[i] \in 0 .. Window
  BY LimiterAssumption
<1> DEFINE w == Older(ages, Window)
<1>2. w = [i \in 1 .. Len(ages) |-> IF ages[i] < Window THEN ages[i] + 1 ELSE Window]
  BY <1>1 DEF Older
<1>3. \A i \in 1 .. Len(ages) : (IF ages[i] < Window THEN ages[i] + 1 ELSE Window) \in 0 .. Window
  BY <1>1
<1> HIDE DEF w
<1>4. w \in [1 .. Len(ages) -> 0 .. Window]
  BY <1>2, <1>3
<1>5. w \in Seq(0 .. Window)
  BY <1>1, <1>4, SeqDef
<1>6. Len(w) = Len(ages)
  BY <1>1, <1>4, <1>5
<1>7. \A i \in 1 .. Len(ages) : w[i] = IF ages[i] < Window THEN ages[i] + 1 ELSE Window
  BY <1>2
<1>8. OldestFirst(w)
  <2> SUFFICES ASSUME NEW i \in 1 .. Len(ages), NEW j \in 1 .. Len(ages), i <= j
               PROVE  w[j] <= w[i]
    BY <1>6 DEF OldestFirst
  <2>1. ages[j] <= ages[i] /\ ages[i] \in 0 .. Window /\ ages[j] \in 0 .. Window
    BY <1>1 DEF OldestFirst
  <2> QED BY <1>1, <1>7, <2>1
<1> QED BY <1>5, <1>6, <1>7, <1>8 DEF w

\* Pruning late or at every tick makes no difference.
LEMMA PruningCanWait ==
    ASSUME NEW ages \in Seq(0 .. Window), OldestFirst(ages)
    PROVE  Popped(Older(ages, Window), Window)
               = Popped(Older(Popped(ages, Window), Window), Window)
<1>1. Window \in Nat /\ Len(ages) \in Nat /\ 0 .. Window \in SUBSET Nat /\ ages \in Seq(Nat)
  <2>1. Window \in Nat /\ 0 .. Window \subseteq Nat
    BY LimiterAssumption
  <2>2. ages \in Seq(Nat)
    BY <2>1, SeqMonotonic
  <2> QED BY <2>1, <2>2
<1> DEFINE old == Older(ages, Window)
           kept == Popped(ages, Window)
           oldKept == Older(kept, Window)
<1>2. /\ old \in Seq(0 .. Window) /\ Len(old) = Len(ages) /\ OldestFirst(old)
      /\ \A i \in 1 .. Len(ages) : old[i] = IF ages[i] < Window THEN ages[i] + 1 ELSE Window
  BY OlderInOrder
<1>3. kept \in Seq(0 .. Window - 1) /\ Len(kept) <= Len(ages) /\ OldestFirst(kept)
  BY PoppedIsYoung
<1>4. kept \in Seq(0 .. Window)
  <2>1. 0 .. Window - 1 \subseteq 0 .. Window
    BY <1>1
  <2> HIDE DEF kept
  <2> QED BY <1>3, <2>1, SeqMonotonic
<1>5. /\ oldKept \in Seq(0 .. Window) /\ Len(oldKept) = Len(kept) /\ OldestFirst(oldKept)
      /\ \A i \in 1 .. Len(kept) : oldKept[i] = IF kept[i] < Window THEN kept[i] + 1 ELSE Window
  <2> HIDE DEF kept
  <2> QED BY <1>3, <1>4, OlderInOrder
<1>6. PICK n : SplitsAt(ages, Window, n)
  BY <1>1, SplitExists
<1>7. /\ n \in 0 .. Len(ages) /\ Len(kept) = Len(ages) - n
      /\ \A i \in 1 .. (Len(ages) - n) : kept[i] = ages[n + i]
  <2>1. n \in 0 .. Len(ages)
    BY <1>6 DEF SplitsAt
  <2> QED BY <1>6, <2>1, PoppedPlaces
<1> HIDE DEF old, kept, oldKept
<1>8. old \in Seq(Nat) /\ oldKept \in Seq(Nat)
  BY <1>1, <1>2, <1>5, SeqMonotonic
<1>9. PICK m : SplitsAt(old, Window, m)
  BY <1>1, <1>2, <1>8, SplitExists
<1>10. m \in 0 .. Len(ages) /\ n <= m
  <2>1. m \in 0 .. Len(ages)
    BY <1>2, <1>9 DEF SplitsAt
  <2>2. ASSUME m < n
        PROVE  FALSE
    <3>1. m + 1 \in 1 .. n /\ m + 1 \in (m + 1) .. Len(old) /\ m + 1 \in 1 .. Len(ages)
      BY <1>1, <1>2, <1>7, <2>1, <2>2
    <3>2. ages[m + 1] >= Window /\ old[m + 1] < Window /\ ages[m + 1] \in Nat
      BY <1>1, <1>6, <1>9, <3>1 DEF SplitsAt
    <3>3. old[m + 1] = Window
      BY <1>1, <1>2, <3>1, <3>2
    <3> QED BY <1>1, <3>2, <3>3
  <2> QED BY <1>7, <2>1, <2>2
<1>11. \A i \in 1 .. (Len(ages) - n) : oldKept[i] = old[n + i]
  <2> TAKE i \in 1 .. (Len(ages) - n)
  <2>1. i \in 1 .. Len(kept) /\ n + i \in 1 .. Len(ages) /\ kept[i] = ages[n + i]
    BY <1>1, <1>7
  <2> QED BY <1>2, <1>5, <2>1
<1>12. SplitsAt(oldKept, Window, m - n)
  <2>1. m - n \in 0 .. Len(oldKept) /\ Len(oldKept) = Len(ages) - n
    BY <1>1, <1>5, <1>7, <1>10
  <2>2. ASSUME NEW i \in 1 .. (m - n)
        PROVE  oldKept[i] >= Window
    <3>1. i \in 1 .. (Len(ages) - n) /\ n + i \in 1 .. m
      BY <1>1, <1>7, <1>10
    <3> QED BY <1>9, <1>11, <3>1 DEF SplitsAt
  <2>3. ASSUME NEW i \in (m - n + 1) .. Len(oldKept)
        PROVE  oldKept[i] < Window
    <3>1. i \in 1 .. (Len(ages) - n) /\ n + i \in (m + 1) .. Len(old)
      BY <1>1, <1>2, <1>7, <1>10, <2>1
    <3> QED BY <1>9, <1>11, <3>1 DEF SplitsAt
  <2> QED BY <2>1, <2>2, <2>3 DEF SplitsAt
<1> DEFINE p == Popped(old, Window)
           q == Popped(oldKept, Window)
<1>13. /\ p \in Seq(0 .. Window) /\ Len(p) = Len(ages) - m
       /\ \A i \in 1 .. (Len(ages) - m) : p[i] = old[m + i]
  BY <1>2, <1>9, PoppedPlaces
<1>14. /\ q \in Seq(0 .. Window) /\ Len(q) = Len(oldKept) - (m - n)
       /\ \A i \in 1 .. (Len(oldKept) - (m - n)) : q[i] = oldKept[m - n + i]
  BY <1>5, <1>12, PoppedPlaces
<1> HIDE DEF p, q
<1>15. Len(q) = Len(p)
  <2>1. Len(q) = (Len(ages) - n) - (m - n)
    BY <1>5, <1>7, <1>14
  <2>2. Len(ages) \in Int /\ n \in Int /\ m \in Int
    BY <1>1, <1>7, <1>10
  <2> QED BY <1>13, <2>1, <2>2
<1>16. ASSUME NEW i \in 1 .. Len(p)
       PROVE  p[i] = q[i]
  <2>1. /\ i \in 1 .. (Len(ages) - m) /\ i \in 1 .. (Len(oldKept) - (m - n))
        /\ m - n + i \in 1 .. (Len(ages) - n) /\ n + (m - n + i) = m + i
    BY <1>1, <1>5, <1>7, <1>10, <1>13
  <2>2. p[i] = old[m + i] /\ q[i] = oldKept[m - n + i]
    BY <1>13, <1>14, <2>1
  <2>3. oldKept[m - n + i] = old[m + i]
    BY <1>11, <2>1
  <2> QED BY <2>2, <2>3
<1>17. p = q
  BY <1>13, <1>14, <1>15, <1>16, SeqEqual
<1> QED BY <1>17 DEF p, q, old, kept, oldKept

-----------------------------------------------------------------------------
(* The limiter *)

\* The table holds the failures of the last window, and perhaps older ones before them.
RightTable(a, f) ==
    /\ a \in [Clients -> Seq(0 .. Window)]
    /\ f \in [Clients -> Seq(0 .. Window - 1)]
    /\ \A c \in Clients : /\ Len(a[c]) <= MaxAttempts
                          /\ OldestFirst(a[c])
                          /\ f[c] = Popped(a[c], Window)
    /\ Cardinality(Tracked(f)) <= MaxClients
TableIsRight == RightTable(attempts, failures)

\* A queue without attempts.
LEMMA EmptyQueue ==
    /\ <<>> \in Seq(0 .. Window) /\ <<>> \in Seq(0 .. Window - 1) /\ Len(<<>>) = 0
    /\ OldestFirst(<<>>) /\ <<>> = Popped(<<>>, Window)
<1>1. <<>> \in Seq(0 .. Window) /\ <<>> \in Seq(0 .. Window - 1) /\ Len(<<>>) = 0
  BY EmptySeq
<1>2. OldestFirst(<<>>)
  BY <1>1 DEF OldestFirst
<1> QED BY <1>1, <1>2, YoungStays

LEMMA TableFacts ==
    ASSUME TableIsRight
    PROVE  /\ Pruned(attempts) = failures
           /\ failures \in [Clients -> Seq(0 .. Window)]
           /\ \A c \in Clients : /\ OldestFirst(failures[c]) /\ Len(failures[c]) \in Nat
                                 /\ Len(failures[c]) <= MaxAttempts
                                 /\ failures[c] = Popped(failures[c], Window)
           /\ IsFiniteSet(Tracked(failures)) /\ Cardinality(Tracked(failures)) \in Nat
<1>1. Pruned(attempts) = failures
  BY DEF TableIsRight, RightTable, Pruned
<1>2. ASSUME NEW c \in Clients
      PROVE  /\ OldestFirst(failures[c]) /\ Len(failures[c]) \in Nat
             /\ Len(failures[c]) <= MaxAttempts /\ failures[c] = Popped(failures[c], Window)
             /\ failures[c] \in Seq(0 .. Window)
  <2>1. /\ attempts[c] \in Seq(0 .. Window) /\ OldestFirst(attempts[c])
        /\ Len(attempts[c]) <= MaxAttempts /\ Len(attempts[c]) \in Nat
        /\ failures[c] \in Seq(0 .. Window - 1) /\ failures[c] = Popped(attempts[c], Window)
    BY DEF TableIsRight, RightTable
  <2>2. OldestFirst(failures[c]) /\ Len(failures[c]) <= Len(attempts[c])
    BY <2>1, PoppedIsYoung
  <2>3. Popped(failures[c], Window) = failures[c]
    BY <2>1, YoungStays
  <2>4. 0 .. Window - 1 \subseteq 0 .. Window
    BY LimiterAssumption
  <2>5. failures[c] \in Seq(0 .. Window)
    BY <2>1, <2>4, SeqMonotonic
  <2>6. Len(failures[c]) \in Nat /\ Len(failures[c]) <= MaxAttempts
    <3>1. Len(failures[c]) \in Nat
      BY <2>5, LenProperties
    <3> QED BY <2>1, <2>2, <3>1, LimiterAssumption
  <2> QED BY <2>2, <2>3, <2>5, <2>6
<1>3. failures \in [Clients -> Seq(0 .. Window)]
  BY <1>2 DEF TableIsRight, RightTable
<1>4. IsFiniteSet(Tracked(failures)) /\ Cardinality(Tracked(failures)) \in Nat
  <2>1. Tracked(failures) \in SUBSET Clients
    BY DEF Tracked
  <2> QED BY <2>1, LimiterAssumption, FS_Subset, FS_CardinalityType
<1> QED BY <1>1, <1>2, <1>3, <1>4

\* The clients with failures become fewer, or stay.
LEMMA FewerTracked ==
    ASSUME TableIsRight, NEW f, Tracked(f) \subseteq Tracked(failures)
    PROVE  Cardinality(Tracked(f)) <= MaxClients
<1>1. /\ Cardinality(Tracked(f)) \in Nat
      /\ Cardinality(Tracked(f)) <= Cardinality(Tracked(failures))
      /\ Cardinality(Tracked(failures)) \in Nat
  <2>1. IsFiniteSet(Tracked(f)) /\ Cardinality(Tracked(f)) <= Cardinality(Tracked(failures))
    BY TableFacts, FS_Subset
  <2> QED BY <2>1, TableFacts, FS_CardinalityType
<1> QED BY <1>1, LimiterAssumption DEF TableIsRight, RightTable

\* What is_limited says, in terms of the failures.
LEMMA LimitedByFailures ==
    ASSUME TableIsRight, NEW c \in Clients
    PROVE  Limited(c) <=> \/ failures[c] # <<>> /\ Len(failures[c]) = MaxAttempts
                          \/ failures[c] = <<>> /\ Full(failures)
<1>1. Len(failures[c]) \in Nat /\ Len(failures[c]) <= MaxAttempts /\ Pruned(attempts) = failures
  BY TableFacts
<1>2. Limited(c) <=> IF c \in Tracked(failures) THEN Len(failures[c]) >= MaxAttempts
                     ELSE Full(failures)
  BY <1>1 DEF Limited
<1>3. c \in Tracked(failures) <=> failures[c] # <<>>
  BY DEF Tracked
<1> QED BY <1>1, <1>2, <1>3, LimiterAssumption

\* A client whose attempts are dropped, or pruned.
LEMMA ClearedTable ==
    ASSUME TableIsRight, NEW c \in Clients,
           attempts' = [failures EXCEPT ![c] = <<>>], failures' = [failures EXCEPT ![c] = <<>>]
    PROVE  TableIsRight'
<1>1. /\ failures \in [Clients -> Seq(0 .. Window)]
      /\ \A d \in Clients : /\ OldestFirst(failures[d]) /\ Len(failures[d]) <= MaxAttempts
                            /\ failures[d] = Popped(failures[d], Window)
  BY TableFacts
<1>2. /\ <<>> \in Seq(0 .. Window) /\ <<>> \in Seq(0 .. Window - 1) /\ Len(<<>>) = 0
      /\ OldestFirst(<<>>) /\ <<>> = Popped(<<>>, Window)
  BY EmptyQueue
<1>3. /\ attempts' \in [Clients -> Seq(0 .. Window)]
      /\ failures' \in [Clients -> Seq(0 .. Window - 1)]
  BY <1>1, <1>2 DEF TableIsRight, RightTable
<1>4. ASSUME NEW d \in Clients
      PROVE  /\ Len(attempts'[d]) <= MaxAttempts /\ OldestFirst(attempts'[d])
             /\ failures'[d] = Popped(attempts'[d], Window)
  <2>1. CASE d = c
    <3>1. attempts'[d] = <<>> /\ failures'[d] = <<>>
      BY <1>1, <2>1 DEF TableIsRight, RightTable
    <3> QED BY <1>2, <3>1, LimiterAssumption
  <2>2. CASE d # c
    <3>1. attempts'[d] = failures[d] /\ failures'[d] = failures[d]
      BY <1>1, <2>2 DEF TableIsRight, RightTable
    <3> QED BY <1>1, <3>1
  <2> QED BY <2>1, <2>2
<1>5. Cardinality(Tracked(failures')) <= MaxClients
  <2>1. Tracked(failures') \subseteq Tracked(failures)
    BY <1>1 DEF Tracked, TableIsRight, RightTable
  <2> QED BY <2>1, FewerTracked
<1> QED BY <1>3, <1>4, <1>5 DEF TableIsRight, RightTable

LEMMA PrunedTable ==
    ASSUME TableIsRight, attempts' = failures, failures' = failures
    PROVE  TableIsRight'
BY TableFacts DEF TableIsRight, RightTable

\* A client that is not limited fails once more.
LEMMA FailureCounted ==
    ASSUME TableIsRight, NEW c \in Clients, ~Limited(c), RecordFailure(c),
           failures' = [failures EXCEPT ![c] = Append(@, 0)]
    PROVE  TableIsRight'
<1> DEFINE more == Append(failures[c], 0)
<1>1. /\ failures \in [Clients -> Seq(0 .. Window)]
      /\ \A d \in Clients : /\ OldestFirst(failures[d]) /\ Len(failures[d]) <= MaxAttempts
                            /\ Len(failures[d]) \in Nat
                            /\ failures[d] = Popped(failures[d], Window)
      /\ Pruned(attempts) = failures
      /\ IsFiniteSet(Tracked(failures)) /\ Cardinality(Tracked(failures)) \in Nat
  BY TableFacts
<1>2. failures[c] \in Seq(0 .. Window - 1) /\ OldestFirst(failures[c])
  BY <1>1 DEF TableIsRight, RightTable
<1>3. /\ more \in Seq(0 .. Window - 1) /\ OldestFirst(more)
      /\ Len(more) = Len(failures[c]) + 1 /\ more # <<>> /\ more = Popped(more, Window)
  <2>1. /\ more \in Seq(0 .. Window - 1) /\ OldestFirst(more)
        /\ Len(more) = Len(failures[c]) + 1 /\ more # <<>>
    BY <1>2, AppendedInOrder
  <2> HIDE DEF more
  <2> QED BY <2>1, YoungStays
<1>4. more \in Seq(0 .. Window)
  <2>1. 0 .. Window - 1 \subseteq 0 .. Window
    BY LimiterAssumption
  <2> HIDE DEF more
  <2> QED BY <1>3, <2>1, SeqMonotonic
<1>5. c \in Tracked(failures) \/ ~Full(failures)
  BY LimitedByFailures DEF Tracked
<1>6. attempts' = [failures EXCEPT ![c] = more] /\ failures' = [failures EXCEPT ![c] = more]
  BY <1>1, <1>5 DEF RecordFailure
<1>7. Len(more) <= MaxAttempts
  <2>1. Len(failures[c]) # MaxAttempts
    <3>1. CASE failures[c] = <<>>
      <4>1. Len(failures[c]) = 0
        BY <3>1, EmptySeq
      <4> QED BY <4>1, LimiterAssumption
    <3>2. CASE failures[c] # <<>>
      BY <3>2, LimitedByFailures
    <3> QED BY <3>1, <3>2
  <2> HIDE DEF more
  <2> QED BY <1>1, <1>3, <2>1, LimiterAssumption
<1> HIDE DEF more
<1>8. /\ attempts' \in [Clients -> Seq(0 .. Window)]
      /\ failures' \in [Clients -> Seq(0 .. Window - 1)]
  BY <1>1, <1>3, <1>4, <1>6, ZenonT(30) DEF TableIsRight, RightTable
<1>9. ASSUME NEW d \in Clients
      PROVE  /\ Len(attempts'[d]) <= MaxAttempts /\ OldestFirst(attempts'[d])
             /\ failures'[d] = Popped(attempts'[d], Window)
  <2>1. CASE d = c
    <3>1. attempts'[d] = more /\ failures'[d] = more
      BY <1>1, <1>6, <2>1 DEF TableIsRight, RightTable
    <3> QED BY <1>3, <1>7, <3>1
  <2>2. CASE d # c
    <3>1. attempts'[d] = failures[d] /\ failures'[d] = failures[d]
      BY <1>1, <1>6, <2>2 DEF TableIsRight, RightTable
    <3> QED BY <1>1, <3>1
  <2> QED BY <2>1, <2>2
<1>10. Tracked(failures') = Tracked(failures) \union {c}
  BY <1>1, <1>3, <1>6 DEF Tracked, TableIsRight, RightTable
<1>11. Cardinality(Tracked(failures')) <= MaxClients
  <2>1. CASE c \in Tracked(failures)
    <3>1. Tracked(failures') = Tracked(failures)
      BY <1>10, <2>1
    <3> QED BY <3>1 DEF TableIsRight, RightTable
  <2>2. CASE c \notin Tracked(failures)
    <3>1. Cardinality(Tracked(failures')) = Cardinality(Tracked(failures)) + 1
      BY <1>1, <1>10, <2>2, FS_AddElement, ZenonT(60)
    <3>2. ~(Cardinality(Tracked(failures)) >= MaxClients)
      BY <1>5, <2>2 DEF Full
    <3> QED BY <1>1, <3>1, <3>2, LimiterAssumption
  <2> QED BY <2>1, <2>2
<1> QED BY <1>8, <1>9, <1>11 DEF TableIsRight, RightTable

\* Time passes: what the table will forget when it is pruned is forgotten already.
LEMMA AgedTable ==
    ASSUME TableIsRight,
           attempts' = [c \in Clients |-> Older(attempts[c], Window)],
           failures' = [c \in Clients |-> Popped(Older(failures[c], Window), Window)]
    PROVE  TableIsRight'
<1>1. /\ failures \in [Clients -> Seq(0 .. Window)]
      /\ \A c \in Clients : OldestFirst(failures[c])
  BY TableFacts
<1>2. ASSUME NEW c \in Clients
      PROVE  /\ attempts'[c] \in Seq(0 .. Window) /\ failures'[c] \in Seq(0 .. Window - 1)
             /\ Len(attempts'[c]) <= MaxAttempts /\ OldestFirst(attempts'[c])
             /\ failures'[c] = Popped(attempts'[c], Window)
             /\ failures[c] = <<>> => failures'[c] = <<>>
  <2>1. /\ attempts[c] \in Seq(0 .. Window) /\ OldestFirst(attempts[c])
        /\ Len(attempts[c]) <= MaxAttempts /\ failures[c] = Popped(attempts[c], Window)
        /\ failures[c] \in Seq(0 .. Window) /\ OldestFirst(failures[c])
    BY <1>1 DEF TableIsRight, RightTable
  <2>2. /\ Older(attempts[c], Window) \in Seq(0 .. Window)
        /\ Len(Older(attempts[c], Window)) = Len(attempts[c])
        /\ OldestFirst(Older(attempts[c], Window))
    BY <2>1, OlderInOrder
  <2>3. /\ Older(failures[c], Window) \in Seq(0 .. Window)
        /\ Len(Older(failures[c], Window)) = Len(failures[c])
        /\ OldestFirst(Older(failures[c], Window))
    BY <2>1, OlderInOrder
  <2>4. Popped(Older(attempts[c], Window), Window) = Popped(Older(failures[c], Window), Window)
    BY <2>1, PruningCanWait
  <2>5. /\ Popped(Older(failures[c], Window), Window) \in Seq(0 .. Window - 1)
        /\ Len(Popped(Older(failures[c], Window), Window)) <= Len(Older(failures[c], Window))
    BY <2>3, PoppedIsYoung
  <2>6. attempts'[c] = Older(attempts[c], Window)
        /\ failures'[c] = Popped(Older(failures[c], Window), Window)
    OBVIOUS
  <2>7. ASSUME failures[c] = <<>>
        PROVE  failures'[c] = <<>>
    <3>1. failures'[c] \in Seq(0 .. Window - 1) /\ Len(failures'[c]) <= 0
      BY <2>3, <2>5, <2>6, <2>7, EmptySeq
    <3> HIDE DEF Popped
    <3> QED BY <3>1, EmptySeq
  <2> QED BY <2>1, <2>2, <2>4, <2>5, <2>6, <2>7
<1>3. /\ attempts' \in [Clients -> Seq(0 .. Window)]
      /\ failures' \in [Clients -> Seq(0 .. Window - 1)]
  BY <1>2
<1>4. Cardinality(Tracked(failures')) <= MaxClients
  <2>1. Tracked(failures') \subseteq Tracked(failures)
    BY <1>2 DEF Tracked
  <2> QED BY <2>1, FewerTracked
<1> QED BY <1>2, <1>3, <1>4 DEF TableIsRight, RightTable

\* The table of a new process.
LEMMA EmptyTable == RightTable([c \in Clients |-> <<>>], [c \in Clients |-> <<>>])
<1> DEFINE e == [c \in Clients |-> <<>>]
<1>1. \A c \in Clients : e[c] = <<>>
  OBVIOUS
<1>2. e \in [Clients -> Seq(0 .. Window)] /\ e \in [Clients -> Seq(0 .. Window - 1)]
  BY EmptyQueue
<1>3. Tracked(e) = {}
  BY DEF Tracked
<1>4. Cardinality(Tracked(e)) <= MaxClients
  BY <1>3, FS_EmptySet, LimiterAssumption
<1> HIDE DEF e
<1>5. \A c \in Clients : /\ Len(e[c]) <= MaxAttempts /\ OldestFirst(e[c])
                         /\ e[c] = Popped(e[c], Window)
  BY <1>1, EmptyQueue, LimiterAssumption
<1>6. RightTable(e, e)
  BY <1>2, <1>4, <1>5 DEF RightTable
<1> QED BY <1>6 DEF e

-----------------------------------------------------------------------------
(* The sessions *)

\* A session and the time since its password was proved make up no more than a lifetime.
SessionsLast ==
    /\ cookie \in [Clients -> {None} \union Session]
    /\ proved \in [Clients -> [Databases -> 0 .. Lifetime]]
    /\ \A c \in Clients : cookie[c] # None =>
            proved[c][cookie[c].ver] + cookie[c].left <= Lifetime

LEMMA IssuedSessionLasts ==
    ASSUME SessionsLast, db \in Databases, NEW c \in Clients, IssueSession(c)
    PROVE  SessionsLast'
<1> DEFINE new == [ver |-> db, left |-> Lifetime]
<1>1. /\ new \in Session /\ new # None /\ new.ver = db /\ new.left = Lifetime
      /\ cookie' = [cookie EXCEPT ![c] = new] /\ proved' = [proved EXCEPT ![c][db] = 0]
      /\ Lifetime \in Nat
  BY LimiterAssumption, NoneIsNoSession DEF IssueSession, Session
<1> HIDE DEF new
<1>2. /\ cookie' \in [Clients -> {None} \union Session]
      /\ proved' \in [Clients -> [Databases -> 0 .. Lifetime]]
  BY <1>1 DEF SessionsLast
<1>3. ASSUME NEW d \in Clients, cookie'[d] # None
      PROVE  proved'[d][cookie'[d].ver] + cookie'[d].left <= Lifetime
  <2>1. CASE d = c
    <3>1. cookie'[d] = new /\ proved'[d][db] = 0
      BY <1>1, <2>1 DEF SessionsLast
    <3> QED BY <1>1, <3>1
  <2>2. CASE d # c
    <3>1. cookie'[d] = cookie[d] /\ proved'[d] = proved[d]
      BY <1>1, <2>2 DEF SessionsLast
    <3> QED BY <1>3, <3>1 DEF SessionsLast
  <2> QED BY <2>1, <2>2
<1> QED BY <1>2, <1>3 DEF SessionsLast

\* A session grows shorter as fast as its proof grows old.
LEMMA SessionsAge ==
    ASSUME SessionsLast, Tick
    PROVE  SessionsLast'
<1>1. Lifetime \in Nat
  BY LimiterAssumption
<1>2. ASSUME NEW c \in Clients
      PROVE  /\ cookie'[c] = IF cookie[c] = None \/ cookie[c].left = 0 THEN cookie[c]
                             ELSE [cookie[c] EXCEPT !.left = @ - 1]
             /\ \A d \in Databases : proved'[c][d] = IF proved[c][d] < Lifetime
                                                     THEN proved[c][d] + 1 ELSE Lifetime
  BY <1>2 DEF Tick
<1>3. ASSUME NEW c \in Clients
      PROVE  /\ cookie'[c] \in {None} \union Session
             /\ cookie'[c] # None =>
                    /\ cookie[c] # None /\ cookie[c] \in Session /\ cookie'[c].ver = cookie[c].ver
                    /\ \/ cookie[c].left = 0 /\ cookie'[c].left = 0
                       \/ cookie[c].left > 0 /\ cookie'[c].left = cookie[c].left - 1
  <2>1. CASE cookie[c] = None
    BY <1>2, <2>1
  <2>2. CASE cookie[c] # None
    <3>1. cookie[c] \in Session /\ cookie[c].left \in 0 .. Lifetime
      BY <2>2 DEF SessionsLast, Session
    <3>2. CASE cookie[c].left = 0
      BY <1>2, <3>1, <3>2
    <3>3. CASE cookie[c].left # 0
      <4> DEFINE s == [cookie[c] EXCEPT !.left = @ - 1]
      <4>1. cookie'[c] = s
        BY <1>2, <2>2, <3>3
      <4>2. cookie[c].left - 1 \in 0 .. Lifetime /\ cookie[c].left > 0
        BY <1>1, <3>1, <3>3
      <4>3. s \in Session /\ s.ver = cookie[c].ver /\ s.left = cookie[c].left - 1
        BY <3>1, <4>2 DEF Session
      <4> HIDE DEF s
      <4> QED BY <2>2, <3>1, <4>1, <4>2, <4>3
    <3> QED BY <3>2, <3>3
  <2> QED BY <2>1, <2>2
<1>4. cookie' \in [Clients -> {None} \union Session]
  <2>1. cookie' = [c \in Clients |-> cookie'[c]]
    BY DEF Tick
  <2> QED BY <1>3, <2>1
<1>5. ASSUME NEW c \in Clients, NEW d \in Databases
      PROVE  proved'[c][d] \in 0 .. Lifetime
  <2> DEFINE p == proved[c][d]
  <2>1. p \in 0 .. Lifetime
    BY DEF SessionsLast
  <2>2. proved'[c][d] = IF p < Lifetime THEN p + 1 ELSE Lifetime
    BY <1>2
  <2> HIDE DEF p
  <2>3. (IF p < Lifetime THEN p + 1 ELSE Lifetime) \in 0 .. Lifetime
    BY <1>1, <2>1
  <2> QED BY <2>2, <2>3
<1>6. proved' \in [Clients -> [Databases -> 0 .. Lifetime]]
  <2>1. proved' = [c \in Clients |-> [d \in Databases |-> proved'[c][d]]]
    BY DEF Tick
  <2> QED BY <1>5, <2>1
<1>7. ASSUME NEW c \in Clients, cookie'[c] # None
      PROVE  proved'[c][cookie'[c].ver] + cookie'[c].left <= Lifetime
  <2> DEFINE v == cookie[c].ver
             p == proved[c][v]
             l == cookie[c].left
  <2>1. v \in Databases /\ p \in 0 .. Lifetime /\ l \in 0 .. Lifetime /\ p + l <= Lifetime
    BY <1>3, <1>7 DEF SessionsLast, Session
  <2>2. /\ cookie'[c].ver = v
        /\ \/ l = 0 /\ cookie'[c].left = 0
           \/ l > 0 /\ cookie'[c].left = l - 1
    BY <1>3, <1>7
  <2>3. proved'[c][v] = IF p < Lifetime THEN p + 1 ELSE Lifetime
    BY <1>2, <2>1
  <2> HIDE DEF v, p, l
  <2> QED BY <1>1, <2>1, <2>2, <2>3
<1> QED BY <1>4, <1>6, <1>7 DEF SessionsLast

-----------------------------------------------------------------------------
(* The inductive invariant *)

AdInv == /\ db \in Databases /\ configured \subseteq Databases
         /\ TableIsRight /\ SessionsLast

LEMMA AdInit == Init => AdInv
<1> SUFFICES ASSUME Init PROVE AdInv
  OBVIOUS
<1>1. TableIsRight
  BY EmptyTable DEF Init, TableIsRight
<1>2. SessionsLast
  BY LimiterAssumption DEF Init, SessionsLast
<1> QED BY <1>1, <1>2 DEF Init, AdInv

LEMMA AdStep == AdInv /\ [Next]_vars => AdInv'
<1> SUFFICES ASSUME AdInv, [Next]_vars PROVE AdInv'
  OBVIOUS
<1>1. /\ db \in Databases /\ configured \subseteq Databases /\ TableIsRight /\ SessionsLast
      /\ Pruned(attempts) = failures
  <2>1. TableIsRight
    BY DEF AdInv
  <2> QED BY <2>1, TableFacts DEF AdInv
<1>2. ASSUME NEW c \in Clients, Setup(c)
      PROVE  AdInv'
  <2>1. TableIsRight'
    BY <1>1, <1>2 DEF Setup, TableIsRight
  <2>2. SessionsLast'
    BY <1>1, <1>2, IssuedSessionLasts DEF Setup
  <2> QED BY <1>1, <1>2, <2>1, <2>2 DEF Setup, AdInv
<1>3. ASSUME NEW c \in Clients, LoginRefused(c)
      PROVE  AdInv'
  <2>1. TableIsRight'
    BY <1>1, <1>3, PrunedTable DEF LoginRefused
  <2> QED BY <1>1, <1>3, <2>1 DEF LoginRefused, AdInv, SessionsLast
<1>4. ASSUME NEW c \in Clients, LoginFails(c)
      PROVE  AdInv'
  <2>1. TableIsRight'
    BY <1>1, <1>4, FailureCounted DEF LoginFails
  <2> QED BY <1>1, <1>4, <2>1 DEF LoginFails, AdInv, SessionsLast
<1>5. ASSUME NEW c \in Clients, LoginSucceeds(c)
      PROVE  AdInv'
  <2>1. TableIsRight'
    BY <1>1, <1>5, ClearedTable DEF LoginSucceeds
  <2>2. SessionsLast'
    BY <1>1, <1>5, IssuedSessionLasts DEF LoginSucceeds
  <2> QED BY <1>1, <1>5, <2>1, <2>2 DEF LoginSucceeds, AdInv
<1>6. ASSUME NEW c \in Clients, Logout(c)
      PROVE  AdInv'
  <2>1. TableIsRight'
    BY <1>1, <1>6 DEF Logout, TableIsRight
  <2>2. SessionsLast'
    BY <1>1, <1>6 DEF Logout, SessionsLast
  <2> QED BY <1>1, <1>6, <2>1, <2>2 DEF Logout, AdInv
<1>7. CASE Tick
  <2>1. TableIsRight'
    BY <1>1, <1>7, AgedTable DEF Tick
  <2>2. SessionsLast'
    BY <1>1, <1>7, SessionsAge
  <2> QED BY <1>1, <1>7, <2>1, <2>2 DEF Tick, AdInv
<1>8. CASE Restart
  <2>1. TableIsRight'
    BY <1>8, EmptyTable DEF Restart, TableIsRight
  <2> QED BY <1>1, <1>8, <2>1 DEF Restart, AdInv, SessionsLast
<1>9. CASE UNCHANGED vars
  BY <1>9 DEF vars, AdInv, TableIsRight, SessionsLast
<1> QED BY <1>2, <1>3, <1>4, <1>5, <1>6, <1>7, <1>8, <1>9 DEF Next

LEMMA AdInvariant == Spec => []AdInv
BY AdInit, AdStep, PTL DEF Spec

\* Every variable stays in its type, the table of attempts within its bounds.
THEOREM AdminTypeCorrect == Spec => []AdminTypeOK
<1>1. AdInv => AdminTypeOK
  BY DEF AdInv, AdminTypeOK, TableIsRight, RightTable, SessionsLast
<1> QED BY <1>1, AdInvariant, PTL

\* The limiter, for any number of clients, attempts and ticks: it counts the failures of
\* the last window, and it refuses those and only those who have used them up.
THEOREM LimiterIsExact == Spec => []LimiterHolds
<1>1. ASSUME AdInv
      PROVE  LimiterHolds
  <2>1. TableIsRight
    BY <1>1 DEF AdInv
  <2>2. AdminTypeOK /\ Cardinality(Tracked(failures)) <= MaxClients
    BY <1>1 DEF AdInv, AdminTypeOK, TableIsRight, RightTable, SessionsLast
  <2>3. ASSUME NEW c \in Clients
        PROVE  /\ Len(failures[c]) <= MaxAttempts
               /\ Len(failures[c]) = MaxAttempts => Limited(c)
               /\ Limited(c) => Len(failures[c]) = MaxAttempts \/ Full(failures)
    <3>1. Len(failures[c]) <= MaxAttempts
      BY <2>1, TableFacts
    <3>2. Len(failures[c]) = MaxAttempts => failures[c] # <<>>
      BY EmptyQueue, LimiterAssumption
    <3> QED BY <2>1, <3>1, <3>2, LimitedByFailures
  <2> QED BY <2>2, <2>3 DEF LimiterHolds
<1> QED BY <1>1, AdInvariant, PTL

\* Sessions are earned, for any number of databases, of clients and any lifetime.
THEOREM SessionsAreEarnedHolds == Spec => []SessionsAreEarned
<1>1. ASSUME AdInv
      PROVE  SessionsAreEarned
  <2> SUFFICES ASSUME NEW c \in Clients, Verified(cookie[c])
               PROVE  proved[c][db] < Lifetime
    BY DEF SessionsAreEarned
  <2>1. cookie[c] # None /\ cookie[c].left > 0 /\ cookie[c].ver = db /\ db \in Databases
    BY <1>1 DEF Verified, AdInv
  <2>2. cookie[c] \in Session /\ cookie[c].left \in 0 .. Lifetime /\ Lifetime \in Nat
    BY <1>1, <2>1, LimiterAssumption DEF AdInv, SessionsLast, Session
  <2>3. proved[c][db] \in 0 .. Lifetime /\ proved[c][db] + cookie[c].left <= Lifetime
    BY <1>1, <2>1 DEF AdInv, SessionsLast
  <2> QED BY <2>1, <2>2, <2>3
<1> QED BY <1>1, AdInvariant, PTL

-----------------------------------------------------------------------------
(* DEFERRED CHROME                                                         *)

\* Each kind of process has its own places.
PlacesOf(p) ==
    Winding \union
    CASE p \in Starts  -> {"out", "first", "visiting", "acquiring", "second", "launching",
                           "opening", "made", "failed"}
      [] p \in Users   -> {"out", "expire", "close", "tidying", "queueing", "operating"}
      [] p = Sweeper   -> {"out", "sweep", "visiting", "stopped"}
      [] p = Closer    -> {"out", "shutdown", "emptying", "draining", "closed", "aborted"}
InPlace == \A p \in Procs : pc[p] \in PlacesOf(p)

\* The manager lock has one holder; start() alone winds up without it, and only itself.
Winds(p, s) == pc[p] \in Winding /\ on[p] = s
Holding(p) == \/ pc[p] \in {"visiting", "launching", "opening", "emptying"}
              \/ pc[p] \in Winding /\ on[p] # p
OneManager == \A p \in Procs : Holding(p) => manager = p

\* What is wound up is in nobody else's hands: it was made and has left the registry, or
\* it is what start() itself has failed to make; and the winding goes in order.
WindingInOrder == \A p \in Procs : pc[p] \in Winding \union {"tidying"} =>
    /\ on[p] \in Starts \ sessions
    /\ \/ pc[on[p]] = "made"
       \/ on[p] = p /\ pc[p] \in {"terminating", "removing", "releasing"}
    /\ pc[p] \in {"removing", "releasing"} => on[p] \notin alive
    /\ At(p, "releasing") => on[p] \notin profiles

\* What is registered was made, is whole, and is its account's session; the next one is
\* only begun when the account has none.
RegisteredWhole ==
    /\ \A s \in sessions : /\ At(s, "made") /\ s \in profiles \intersect leased
                           /\ current[accountOf[s]] = s
    /\ \A t \in Starts : pc[t] \in {"launching", "opening"} =>
          t \in profiles \intersect leased /\ current[accountOf[t]] = Nothing

\* A Chrome and a directory go with a lease, and a lease with somebody who knows it.
LeaseKnown ==
    /\ alive \subseteq leased
    /\ \A s \in profiles \ leased : \E u \in Users : At(u, "tidying") /\ on[u] = s
    /\ \A s \in leased :
          /\ pc[s] \in {"second", "visiting", "launching", "opening", "made"} \union Winding
          /\ At(s, "made") => s \in sessions \union lost \/ \E p \in Procs : Winds(p, s)

\* Once close_all() has the lock nothing is registered any more that it does not visit,
\* and past its sessions nothing is on the way to be registered.
ClosedToNew ==
    /\ ~At(Closer, "out") => closing
    /\ pc[Closer] \in {"emptying"} \union Winding => sessions \subseteq todo
    /\ pc[Closer] \in {"draining", "closed"} =>
          /\ sessions = {}
          /\ \A t \in leased : ~Holding(t)
    /\ At(Closer, "closed") => leased = {}

DeferredInv == /\ DeferredTypeOK /\ InPlace /\ OneManager /\ WindingInOrder
               /\ RegisteredWhole /\ LeaseKnown /\ ClosedToNew

LEMMA NamesDiffer ==
    /\ \A p \in Procs : p \in Starts \/ p \in Users \/ p = Sweeper \/ p = Closer
    /\ Starts \subseteq Procs /\ Users \subseteq Procs /\ Sweeper \in Procs /\ Closer \in Procs
    /\ \A p \in Starts : p \notin Users /\ p # Sweeper /\ p # Closer
    /\ \A p \in Users : p # Sweeper /\ p # Closer
    /\ Sweeper # Closer
    /\ Nothing \notin Procs
    /\ \A f \in Calls : f \in [Starts -> Accounts]
  BY DeferredAssumption DEF Procs

LEMMA DeferredInitInv == DeferredInit => DeferredInv
<1> SUFFICES ASSUME DeferredInit PROVE DeferredInv
  OBVIOUS
<1> USE NamesDiffer DEF DeferredInit
<1>1. DeferredTypeOK
  BY DEF DeferredTypeOK, Stands, Over
<1>2. InPlace /\ OneManager
  BY DEF InPlace, PlacesOf, OneManager, Holding, Winding
<1>3. WindingInOrder /\ RegisteredWhole /\ LeaseKnown /\ ClosedToNew
  BY DEF WindingInOrder, RegisteredWhole, LeaseKnown, ClosedToNew, Winding, At
<1> QED BY <1>1, <1>2, <1>3 DEF DeferredInv

\* The lock is this process's, or nobody's: nobody else is inside.
LEMMA NobodyElse ==
    ASSUME DeferredInv, NEW p \in Procs, manager \in {p, Nothing}
    PROVE  /\ \A q \in Procs \ {p} : ~Holding(q)
           /\ p # Closer => pc[Closer] \notin {"emptying"} \union Winding
<1>1. \A q \in Procs \ {p} : ~Holding(q)
  BY NamesDiffer DEF DeferredInv, OneManager
<1>2. pc[Closer] \in Winding => on[Closer] \in Starts
  BY NamesDiffer DEF DeferredInv, WindingInOrder
<1> QED BY <1>1, <1>2, NamesDiffer DEF Holding

\* What start() leaves to its finally block, and everybody else to the caller.
LEMMA AbandonInv ==
    ASSUME DeferredInv, NEW p \in Procs, Abandon(p), manager \in {p, Nothing},
           pc[p] \in {"visiting", "emptying", "expire", "close", "second", "launching", "opening"},
           manager' = Nothing, todo' \subseteq Starts,
           UNCHANGED <<sessions, current, resources, idle, closing, oplock, fixed>>
    PROVE  DeferredInv'
<1> USE NamesDiffer DEF DeferredInv, resources, fixed
<1> DEFINE place == IF p \in leased THEN "terminating"
                    ELSE CASE p \in Starts -> "failed" [] p = Closer -> "aborted" [] OTHER -> "out"
           with == IF p \in leased THEN p ELSE Nothing
<1>1. /\ pc' = [pc EXCEPT ![p] = place] /\ on' = [on EXCEPT ![p] = with]
      /\ pc \in [Procs -> Stands] /\ on \in [Procs -> Starts \union {Nothing}]
  BY DEF Abandon, Go, DeferredTypeOK
<1>2. \A q \in Procs \ {p} : ~Holding(q)
  BY NobodyElse
<1>3. p \in leased => p \in Starts /\ ~At(p, "made") /\ p \notin sessions
  BY DEF DeferredTypeOK, At, RegisteredWhole
<1>4. DeferredTypeOK'
  <2>1. place \in Stands /\ with \in Starts \union {Nothing}
    BY <1>3 DEF Stands, Over, Winding
  <2> QED BY <1>1, <2>1 DEF DeferredTypeOK
<1>5. InPlace'
  BY <1>1, <1>3 DEF InPlace, PlacesOf, Winding
<1>6. OneManager'
  BY <1>1, <1>2 DEF OneManager, Holding, Winding
<1>7. WindingInOrder'
  BY <1>1, <1>3 DEF WindingInOrder, Winding, At
<1>8. RegisteredWhole'
  BY <1>1 DEF RegisteredWhole, At
<1>9. LeaseKnown'
  <2>1. \A s \in Starts, q \in Procs : Winds(q, s) => Winds(q, s)'
    BY <1>1 DEF Winds, Winding
  <2>2. \A s \in Starts, u \in Users : At(u, "tidying") /\ on[u] = s
                                          => (At(u, "tidying") /\ on[u] = s)'
    BY <1>1 DEF At
  <2> QED BY <1>1, <1>3, <2>1, <2>2 DEF LeaseKnown, DeferredTypeOK, Winding, At
<1>10. ClosedToNew'
  <2>1. p # Closer => pc[Closer] \notin {"emptying"} \union Winding
    BY NobodyElse
  <2>2. \A t \in leased : ~Holding(t)'
    BY <1>1, <1>2 DEF Holding, DeferredTypeOK
  <2> QED BY <1>1, <1>3, <2>1, <2>2 DEF ClosedToNew, Winding, At, DeferredTypeOK
<1> QED BY <1>4, <1>5, <1>6, <1>7, <1>8, <1>9, <1>10

\* _close_native_locked: the session is popped before anything is awaited.
LEMMA CloseInv ==
    ASSUME DeferredInv, NEW p \in Procs, NEW s, NEW how \in {"closing", "keeping"},
           Close(p, s, how), manager \in {p, Nothing},
           pc[p] \in {"visiting", "emptying", "expire", "close"},
           todo' \subseteq Starts, p = Closer => todo' = todo \ {s},
           UNCHANGED <<resources, idle, closing, oplock, fixed>>
    PROVE  DeferredInv'
<1> USE NamesDiffer DEF DeferredInv, resources, fixed
<1>1. CASE s \notin sessions
  BY <1>1, AbandonInv DEF Close
<1>2. CASE s \in sessions
  <2>1. /\ sessions' = sessions \ {s} /\ current' = [current EXCEPT ![accountOf[s]] = Nothing]
        /\ manager' = p
        /\ pc' = [pc EXCEPT ![p] = how] /\ on' = [on EXCEPT ![p] = s]
        /\ pc \in [Procs -> Stands] /\ on \in [Procs -> Starts \union {Nothing}]
        /\ how \in Winding
    BY <1>2 DEF Close, Go, DeferredTypeOK, Winding
  <2>2. \A q \in Procs \ {p} : ~Holding(q)
    BY NobodyElse
  <2>3. s \in Starts /\ At(s, "made") /\ s # p /\ s \in profiles \intersect leased
    BY <1>2 DEF RegisteredWhole, At, DeferredTypeOK
  <2>4. DeferredTypeOK'
    BY <2>1, <2>3 DEF DeferredTypeOK, Stands
  <2>5. InPlace'
    BY <2>1 DEF InPlace, PlacesOf
  <2>6. OneManager'
    BY <2>1, <2>2 DEF OneManager, Holding
  <2>7. WindingInOrder'
    <3> SUFFICES ASSUME NEW q \in Procs, pc'[q] \in Winding \union {"tidying"}
                 PROVE  /\ on'[q] \in Starts \ sessions'
                        /\ \/ pc'[on'[q]] = "made"
                           \/ on'[q] = q /\ pc'[q] \in {"terminating", "removing", "releasing"}
                        /\ pc'[q] \in {"removing", "releasing"} => on'[q] \notin alive
                        /\ pc'[q] = "releasing" => on'[q] \notin profiles
      BY <2>1 DEF WindingInOrder, At
    <3>1. CASE q = p
      BY <3>1, <2>1, <2>3 DEF At
    <3>2. CASE q # p
      BY <3>2, <2>1, <2>3 DEF WindingInOrder, At
    <3> QED BY <3>1, <3>2
  <2>8. RegisteredWhole'
    <3>1. \A x \in sessions' : accountOf[x] # accountOf[s]
      BY <2>1, <1>2 DEF RegisteredWhole
    <3>2. current \in [Accounts -> Starts \union {Nothing}] /\ accountOf \in [Starts -> Accounts]
      BY DEF DeferredTypeOK
    <3>3. \A x \in Starts : pc'[x] \in {"launching", "opening"} => pc'[x] = pc[x]
      BY <2>1
    <3>4. \A x \in sessions' : At(x, "made")'
      BY <2>1 DEF RegisteredWhole, At
    <3> QED BY <2>1, <2>3, <3>1, <3>2, <3>3, <3>4 DEF RegisteredWhole, DeferredTypeOK
  <2>9. LeaseKnown'
    <3>1. \A x \in Starts, q \in Procs : Winds(q, x) => Winds(q, x)'
      BY <2>1 DEF Winds, Winding
    <3>2. Winds(p, s)'
      BY <2>1 DEF Winds
    <3>3. \A x \in Starts, u \in Users : At(u, "tidying") /\ on[u] = x
                                            => (At(u, "tidying") /\ on[u] = x)'
      BY <2>1 DEF At
    <3> QED BY <2>1, <2>3, <3>1, <3>2, <3>3 DEF LeaseKnown, DeferredTypeOK, At
  <2>10. ClosedToNew'
    <3>1. p # Closer => pc[Closer] \notin {"emptying"} \union Winding
      BY NobodyElse
    <3>2. p = Closer => pc[Closer] = "emptying"
      BY DEF InPlace, PlacesOf, Winding
    <3> QED BY <1>2, <2>1, <2>3, <3>1, <3>2 DEF ClosedToNew, Winding, At, DeferredTypeOK
  <2> QED BY <2>4, <2>5, <2>6, <2>7, <2>8, <2>9, <2>10
<1> QED BY <1>1, <1>2

\* Moves between places where a process has nothing in its hands.
Quiet == {"out", "first", "sweep", "expire", "close", "queueing", "operating"}

LEMMA QuietInv ==
    ASSUME DeferredInv, NEW p \in Procs \ {Closer}, pc[p] \in Quiet,
           NEW place \in Quiet \intersect PlacesOf(p), NEW s \in Starts \union {Nothing},
           Go(p, place, s),
           idle' \subseteq Starts, oplock' \in [Starts -> Procs \union {Nothing}],
           UNCHANGED <<sessions, current, resources, closing, manager, todo, fixed>>
    PROVE  DeferredInv'
<1> USE NamesDiffer DEF DeferredInv, resources, fixed, Quiet
<1>1. /\ pc' = [pc EXCEPT ![p] = place] /\ on' = [on EXCEPT ![p] = s]
      /\ pc \in [Procs -> Stands] /\ on \in [Procs -> Starts \union {Nothing}]
  BY DEF Go, DeferredTypeOK
<1>2. DeferredTypeOK'
  BY <1>1 DEF DeferredTypeOK, Stands, Over, Waiting
<1>3. InPlace'
  BY <1>1 DEF InPlace
<1>4. OneManager'
  BY <1>1 DEF OneManager, Holding, Winding
<1>5. WindingInOrder'
  BY <1>1 DEF WindingInOrder, Winding, At
<1>6. RegisteredWhole'
  BY <1>1 DEF RegisteredWhole, At
<1>7. LeaseKnown'
  <2>1. \A x \in Starts, q \in Procs : Winds(q, x) => Winds(q, x)'
    BY <1>1 DEF Winds, Winding
  <2>2. p \notin leased
    BY DEF LeaseKnown, Winding
  <2>3. \A x \in Starts, u \in Users : At(u, "tidying") /\ on[u] = x
                                          => (At(u, "tidying") /\ on[u] = x)'
    BY <1>1 DEF At
  <2> QED BY <1>1, <2>1, <2>2, <2>3 DEF LeaseKnown, DeferredTypeOK, At
<1>8. ClosedToNew'
  BY <1>1 DEF ClosedToNew, At, DeferredTypeOK, Holding, Winding
<1> QED BY <1>2, <1>3, <1>4, <1>5, <1>6, <1>7, <1>8

\* One await of the winding further, with the same session.
LEMMA WindsOnInv ==
    ASSUME DeferredInv, NEW p \in Procs, pc[p] \in Winding, NEW place, Go(p, place, on[p]),
           \/ /\ pc[p] \in {"closing", "keeping", "saving"}
              /\ place \in {"saving", "terminating"}
              /\ UNCHANGED resources
           \/ /\ At(p, "terminating") /\ place = "removing"
              /\ alive' = alive \ {on[p]} /\ UNCHANGED <<profiles, leased>>
           \/ /\ At(p, "removing") /\ place = "releasing"
              /\ profiles' = profiles \ {on[p]} /\ UNCHANGED <<alive, leased>>,
           oplock' \in [Starts -> Procs \union {Nothing}],
           UNCHANGED <<sessions, current, idle, closing, manager, todo, fixed>>
    PROVE  DeferredInv'
<1> USE NamesDiffer DEF DeferredInv, resources, fixed
<1> DEFINE s == on[p]
<1>1. /\ pc' = [pc EXCEPT ![p] = place] /\ on' = on
      /\ pc \in [Procs -> Stands] /\ on \in [Procs -> Starts \union {Nothing}]
      /\ place \in Winding /\ leased' = leased
      /\ alive' \subseteq alive /\ profiles' \subseteq profiles
  BY DEF Go, DeferredTypeOK, Winding
<1>2. /\ s \in Starts \ sessions
      /\ pc[s] = "made" \/ s = p
      /\ \A t \in Starts : pc[t] \in {"launching", "opening"} => t # s
  BY DEF WindingInOrder, Winding
<1>3. \A q \in Procs : pc'[q] \in Winding <=> pc[q] \in Winding
  BY <1>1
<1>4. \A q \in Procs, there \in Stands \ Winding : pc'[q] = there <=> pc[q] = there
  BY <1>1
<1>5. DeferredTypeOK'
  BY <1>1 DEF DeferredTypeOK, Stands
<1>6. InPlace'
  BY <1>1 DEF InPlace, PlacesOf
<1>7. OneManager'
  BY <1>1 DEF OneManager, Holding, Winding
<1>8. WindingInOrder'
  <2> SUFFICES ASSUME NEW q \in Procs, pc'[q] \in Winding \union {"tidying"}
               PROVE  /\ on[q] \in Starts \ sessions
                      /\ \/ pc'[on[q]] = "made"
                         \/ on[q] = q /\ pc'[q] \in {"terminating", "removing", "releasing"}
                      /\ pc'[q] \in {"removing", "releasing"} => on[q] \notin alive'
                      /\ pc'[q] = "releasing" => on[q] \notin profiles'
    BY <1>1 DEF WindingInOrder, At
  <2>1. CASE q = p
    BY <2>1, <1>1 DEF WindingInOrder, Winding, At
  <2>2. CASE q # p
    <3>1. /\ on[q] \in Starts \ sessions
          /\ \/ pc[on[q]] = "made"
             \/ on[q] = q /\ pc[q] \in {"terminating", "removing", "releasing"}
          /\ pc[q] \in {"removing", "releasing"} => on[q] \notin alive
          /\ pc[q] = "releasing" => on[q] \notin profiles
      BY <2>2, <1>1 DEF WindingInOrder, At
    <3>2. pc[on[q]] = "made" => on[q] # p
      BY DEF Winding
    <3> QED BY <2>2, <3>1, <3>2, <1>1
  <2> QED BY <2>1, <2>2
<1>9. RegisteredWhole'
  <2>1. \A t \in Starts : t # s => (t \in profiles' <=> t \in profiles)
    BY <1>1
  <2>2. \A t \in Starts : /\ pc'[t] = "made" <=> pc[t] = "made"
                          /\ pc'[t] \in {"launching", "opening"}
                                <=> pc[t] \in {"launching", "opening"}
    BY <1>1 DEF Winding
  <2> QED BY <1>1, <1>2, <2>1, <2>2 DEF RegisteredWhole, At, DeferredTypeOK
<1>10. LeaseKnown'
  <2>1. \A x \in Starts, q \in Procs : Winds(q, x) <=> Winds(q, x)'
    BY <1>1, <1>3 DEF Winds
  <2>2. \A x \in Starts, u \in Users : At(u, "tidying") /\ on[u] = x
                                          <=> (At(u, "tidying") /\ on[u] = x)'
    BY <1>1 DEF At, Winding
  <2> QED BY <1>1, <2>1, <2>2 DEF LeaseKnown, DeferredTypeOK, At, Winding
<1>11. ClosedToNew'
  <2>1. \A q \in Procs : Holding(q)' <=> Holding(q)
    BY <1>1, <1>3 DEF Holding, Winding
  <2> QED BY <1>1, <2>1 DEF ClosedToNew, At, DeferredTypeOK, Winding
<1> QED BY <1>5, <1>6, <1>7, <1>8, <1>9, <1>10, <1>11

\* The lease is returned last, when Chrome and the directory are gone.
LEMMA ReleaseInv == ASSUME DeferredInv, NEW p \in Procs, Release(p) PROVE DeferredInv'
<1> USE NamesDiffer DEF DeferredInv, Release, fixed
<1> DEFINE s == on[p]
           place == CASE p \in Users -> "out" [] s = p -> "failed" [] p = Closer -> "emptying"
                      [] OTHER -> "visiting"
<1>1. /\ pc' = [pc EXCEPT ![p] = place] /\ on' = [on EXCEPT ![p] = Nothing]
      /\ pc \in [Procs -> Stands] /\ on \in [Procs -> Starts \union {Nothing}]
      /\ leased' = leased \ {s} /\ pc[p] \in Winding
      /\ UNCHANGED <<sessions, current, alive, profiles, closing, todo, accountOf, lost>>
  BY DEF Go, DeferredTypeOK, Winding, At
<1>2. /\ s \in Starts \ sessions /\ s \notin alive \union profiles
      /\ pc[s] = "made" \/ s = p
  BY DEF WindingInOrder, Winding, At
<1>3. place \notin Winding /\ manager' = IF p \in Users THEN Nothing ELSE manager
  BY <1>2 DEF Winding
<1>4. DeferredTypeOK'
  BY <1>1, <1>3 DEF DeferredTypeOK, Stands, Over
<1>5. InPlace'
  BY <1>1, <1>2 DEF InPlace, PlacesOf
<1>6. OneManager'
  <2>1. s # p => manager = p
    BY <1>1 DEF OneManager, Holding
  <2>2. \A q \in Procs \ {p} : Holding(q)' <=> Holding(q)
    BY <1>1 DEF Holding
  <2>3. Holding(p)' => manager' = p
    BY <2>1, <1>1, <1>2, <1>3 DEF Holding
  <2>4. \A q \in Procs \ {p} : Holding(q) => manager' = q
    BY <2>1, <1>2, <1>3 DEF OneManager
  <2> QED BY <2>2, <2>3, <2>4 DEF OneManager
<1>7. WindingInOrder'
  BY <1>1, <1>2, <1>3 DEF WindingInOrder, Winding, At
<1>8. RegisteredWhole'
  BY <1>1, <1>2, <1>3 DEF RegisteredWhole, At, Winding
<1>9. LeaseKnown'
  <2>1. \A x \in Starts \ {s}, q \in Procs : Winds(q, x) => Winds(q, x)'
    BY <1>1 DEF Winds
  <2>2. \A x \in Starts, u \in Users : At(u, "tidying") /\ on[u] = x
                                          => (At(u, "tidying") /\ on[u] = x)'
    BY <1>1 DEF At, Winding
  <2>3. \A x \in leased' : x = p => place = "visiting"
    BY <1>1 DEF DeferredTypeOK
  <2> QED BY <1>1, <1>2, <2>1, <2>2, <2>3 DEF LeaseKnown, DeferredTypeOK, At, Winding
<1>10. ClosedToNew'
  <2>1. p = Closer => place = "emptying"
    BY <1>2
  <2>2. \A t \in leased' : Holding(t)' => Holding(t)
    BY <1>1 DEF Holding, DeferredTypeOK
  <2> QED BY <1>1, <1>3, <2>1, <2>2 DEF ClosedToNew, At, Winding
<1> QED BY <1>4, <1>5, <1>6, <1>7, <1>8, <1>9, <1>10

LEMMA EnterInv == ASSUME DeferredInv, NEW p \in Procs, Enter(p) PROVE DeferredInv'
<1> USE NamesDiffer DEF DeferredInv, Enter
<1>1. CASE At(p, "second") /\ closing
  BY <1>1, AbandonInv DEF At, DeferredTypeOK
<1>2. CASE ~(At(p, "second") /\ closing)
  <2> USE DEF resources, fixed
  <2>1. /\ pc' = [pc EXCEPT ![p] = "visiting"] /\ on' = [on EXCEPT ![p] = Nothing]
        /\ pc \in [Procs -> Stands] /\ on \in [Procs -> Starts \union {Nothing}]
        /\ manager' = p /\ todo' = sessions
    BY <1>2 DEF Go, DeferredTypeOK
  <2>2. /\ \A q \in Procs \ {p} : ~Holding(q)
        /\ p # Closer /\ pc[Closer] \notin {"emptying"} \union Winding
    BY NobodyElse DEF InPlace, PlacesOf, Winding
  <2>3. DeferredTypeOK'
    BY <2>1 DEF DeferredTypeOK, Stands
  <2>4. InPlace'
    BY <2>1 DEF InPlace, PlacesOf, Winding
  <2>5. OneManager'
    BY <2>1, <2>2 DEF OneManager, Holding
  <2>6. WindingInOrder'
    BY <2>1 DEF WindingInOrder, Winding, At
  <2>7. RegisteredWhole'
    BY <2>1 DEF RegisteredWhole, At
  <2>8. LeaseKnown'
    <3>1. \A x \in Starts, q \in Procs : Winds(q, x) => Winds(q, x)'
      BY <2>1 DEF Winds, Winding
    <3>2. \A x \in Starts, u \in Users : At(u, "tidying") /\ on[u] = x
                                            => (At(u, "tidying") /\ on[u] = x)'
      BY <2>1 DEF At
    <3> QED BY <2>1, <3>1, <3>2 DEF LeaseKnown, DeferredTypeOK, At
  <2>9. ClosedToNew'
    <3>1. pc[Closer] \in {"draining", "closed"} => p \notin leased
      BY <1>2 DEF LeaseKnown, ClosedToNew, Winding, At
    <3>2. \A t \in leased \ {p} : ~Holding(t)'
      BY <2>1, <2>2 DEF Holding, DeferredTypeOK
    <3> QED BY <2>1, <2>2, <3>1, <3>2 DEF ClosedToNew, At
  <2> QED BY <2>3, <2>4, <2>5, <2>6, <2>7, <2>8, <2>9
<1> QED BY <1>1, <1>2

\* The lock is handed back with nothing on the way, by the sweep and by close_all(), or by
\* a start() that has no lease yet and goes to wait for one.
LEMMA LeavesInv ==
    ASSUME DeferredInv, NEW p \in Procs, pc[p] \in {"visiting", "emptying"}, p \notin leased,
           NEW place, Go(p, place, Nothing),
           \/ p = Sweeper /\ place = "out"
           \/ p \in Starts /\ place = "acquiring"
           \/ p = Closer /\ todo = {} /\ place = "draining",
           manager' = Nothing,
           UNCHANGED <<sessions, current, resources, idle, closing, oplock, todo, fixed>>
    PROVE  DeferredInv'
<1> USE NamesDiffer DEF DeferredInv, resources, fixed
<1>1. /\ pc' = [pc EXCEPT ![p] = place] /\ on' = [on EXCEPT ![p] = Nothing]
      /\ pc \in [Procs -> Stands] /\ on \in [Procs -> Starts \union {Nothing}]
      /\ manager = p /\ place \in {"out", "acquiring", "draining"}
  BY DEF Go, DeferredTypeOK, OneManager, Holding
<1>2. /\ \A q \in Procs \ {p} : ~Holding(q)
      /\ p # Closer => pc[Closer] \notin {"emptying"} \union Winding
  BY <1>1, NobodyElse
<1>3. DeferredTypeOK'
  BY <1>1 DEF DeferredTypeOK, Stands, Over
<1>4. InPlace'
  BY <1>1 DEF InPlace, PlacesOf
<1>5. OneManager'
  BY <1>1, <1>2 DEF OneManager, Holding, Winding
<1>6. WindingInOrder'
  BY <1>1 DEF WindingInOrder, Winding, At
<1>7. RegisteredWhole'
  BY <1>1 DEF RegisteredWhole, At
<1>8. LeaseKnown'
  <2>1. \A x \in Starts, q \in Procs : Winds(q, x) => Winds(q, x)'
    BY <1>1 DEF Winds, Winding
  <2>2. \A x \in Starts, u \in Users : At(u, "tidying") /\ on[u] = x
                                          => (At(u, "tidying") /\ on[u] = x)'
    BY <1>1 DEF At
  <2> QED BY <1>1, <2>1, <2>2 DEF LeaseKnown, DeferredTypeOK, At
<1>9. ClosedToNew'
  <2>1. \A q \in Procs : ~Holding(q)'
    BY <1>1, <1>2 DEF Holding, Winding
  <2>2. p = Closer => sessions = {} /\ At(p, "emptying")
    BY DEF ClosedToNew, InPlace, PlacesOf, Winding, At
  <2> QED BY <1>1, <1>2, <2>1, <2>2 DEF ClosedToNew, At, DeferredTypeOK, Winding
<1> QED BY <1>3, <1>4, <1>5, <1>6, <1>7, <1>8, <1>9

\* A lease, before the gate is closed.
LEMMA AcquireInv == ASSUME DeferredInv, NEW t \in Starts, Acquire(t) PROVE DeferredInv'
<1> USE NamesDiffer DEF DeferredInv, Acquire, fixed, locks
<1> DEFINE place == pc'[t]
<1>1. /\ pc' = [pc EXCEPT ![t] = place] /\ on' = [on EXCEPT ![t] = Nothing]
      /\ pc \in [Procs -> Stands] /\ on \in [Procs -> Starts \union {Nothing}]
      /\ pc[t] = "acquiring"
      /\ \/ place = "failed" /\ closing /\ leased' = leased
         \/ place = "second" /\ ~closing /\ leased' = leased \union {t}
      /\ UNCHANGED <<sessions, current, alive, profiles, closing, manager, todo, accountOf, lost>>
  BY DEF Go, DeferredTypeOK, At
<1>2. DeferredTypeOK'
  BY <1>1 DEF DeferredTypeOK, Stands, Over, Waiting
<1>3. InPlace'
  BY <1>1 DEF InPlace, PlacesOf
<1>4. OneManager'
  BY <1>1 DEF OneManager, Holding, Winding
<1>5. WindingInOrder'
  BY <1>1 DEF WindingInOrder, Winding, At
<1>6. RegisteredWhole'
  <2>1. leased \subseteq leased' /\ place \notin {"launching", "opening"}
    BY <1>1
  <2>2. \A x \in Starts \ {t} : pc'[x] = pc[x]
    BY <1>1
  <2>3. t \notin sessions
    BY <1>1 DEF RegisteredWhole, At
  <2> QED BY <1>1, <2>1, <2>2, <2>3 DEF RegisteredWhole, At, DeferredTypeOK
<1>7. LeaseKnown'
  <2>1. \A x \in Starts, q \in Procs : Winds(q, x) => Winds(q, x)'
    BY <1>1 DEF Winds, Winding
  <2>2. \A x \in Starts, u \in Users : At(u, "tidying") /\ on[u] = x
                                          => (At(u, "tidying") /\ on[u] = x)'
    BY <1>1 DEF At
  <2>3. t \notin leased
    BY <1>1 DEF LeaseKnown, Winding
  <2> QED BY <1>1, <2>1, <2>2, <2>3 DEF LeaseKnown, DeferredTypeOK, At
<1>8. ClosedToNew'
  BY <1>1 DEF ClosedToNew, At, DeferredTypeOK, Holding, Winding
<1> QED BY <1>2, <1>3, <1>4, <1>5, <1>6, <1>7, <1>8

\* The directory is made, and then the process: by the one start() that has the lock.
LEMMA MakesInv ==
    ASSUME DeferredInv, NEW t \in leased, NEW place,
           Go(t, place, Nothing), UNCHANGED manager,
           \/ /\ At(t, "visiting") /\ place = "launching" /\ current[accountOf[t]] = Nothing
              /\ profiles' = profiles \union {t} /\ UNCHANGED alive
           \/ /\ At(t, "launching") /\ place = "opening"
              /\ alive' = alive \union {t} /\ UNCHANGED profiles,
           UNCHANGED <<sessions, current, leased, idle, closing, oplock, todo, fixed>>
    PROVE  DeferredInv'
<1> USE NamesDiffer DEF DeferredInv, fixed
<1>1. /\ pc' = [pc EXCEPT ![t] = place] /\ on' = [on EXCEPT ![t] = Nothing]
      /\ pc \in [Procs -> Stands] /\ on \in [Procs -> Starts \union {Nothing}]
      /\ t \in Starts /\ pc[t] \in {"visiting", "launching"} /\ place \in {"launching", "opening"}
      /\ alive \subseteq alive' /\ alive' \subseteq alive \union {t}
      /\ profiles \subseteq profiles' /\ profiles' \subseteq profiles \union {t}
  BY DEF Go, DeferredTypeOK, At
<1>2. DeferredTypeOK'
  BY <1>1 DEF DeferredTypeOK, Stands
<1>3. InPlace'
  BY <1>1 DEF InPlace, PlacesOf
<1>4. OneManager'
  BY <1>1 DEF OneManager, Holding, Winding
<1>5. WindingInOrder'
  BY <1>1 DEF WindingInOrder, Winding, At
<1>6. RegisteredWhole'
  <2>1. t \in profiles' /\ current[accountOf[t]] = Nothing
    BY <1>1 DEF RegisteredWhole, At
  <2>2. \A x \in Starts \ {t} : pc'[x] = pc[x]
    BY <1>1
  <2>3. t \notin sessions
    BY <1>1 DEF RegisteredWhole, At
  <2> QED BY <1>1, <2>1, <2>2, <2>3 DEF RegisteredWhole, At, DeferredTypeOK
<1>7. LeaseKnown'
  <2>1. \A x \in Starts, q \in Procs : Winds(q, x) => Winds(q, x)'
    BY <1>1 DEF Winds, Winding
  <2>2. \A x \in Starts, u \in Users : At(u, "tidying") /\ on[u] = x
                                          => (At(u, "tidying") /\ on[u] = x)'
    BY <1>1 DEF At
  <2> QED BY <1>1, <2>1, <2>2 DEF LeaseKnown, DeferredTypeOK, At
<1>8. ClosedToNew'
  <2>1. Holding(t)
    BY <1>1 DEF Holding
  <2> QED BY <1>1, <2>1 DEF ClosedToNew, At, DeferredTypeOK, Winding
<1> QED BY <1>2, <1>3, <1>4, <1>5, <1>6, <1>7, <1>8

LEMMA PortOpensInv == ASSUME DeferredInv, NEW t \in Starts, PortOpens(t) PROVE DeferredInv'
<1> USE NamesDiffer DEF DeferredInv, PortOpens, fixed, resources
<1>1. /\ pc' = [pc EXCEPT ![t] = "made"] /\ on' = [on EXCEPT ![t] = Nothing]
      /\ pc \in [Procs -> Stands] /\ on \in [Procs -> Starts \union {Nothing}]
      /\ pc[t] = "opening" /\ t \in profiles \intersect leased
      /\ current[accountOf[t]] = Nothing
      /\ current' = [current EXCEPT ![accountOf[t]] = t]
      /\ current \in [Accounts -> Starts \union {Nothing}] /\ accountOf \in [Starts -> Accounts]
      /\ Holding(t) /\ manager = t
  BY DEF Go, DeferredTypeOK, At, RegisteredWhole, OneManager, Holding
<1>2. /\ \A q \in Procs \ {t} : ~Holding(q)
      /\ pc[Closer] \notin {"emptying"} \union Winding
  BY <1>1, NobodyElse
<1>3. DeferredTypeOK'
  BY <1>1 DEF DeferredTypeOK, Stands, Over
<1>4. InPlace'
  BY <1>1 DEF InPlace, PlacesOf
<1>5. OneManager'
  BY <1>1, <1>2 DEF OneManager, Holding, Winding
<1>6. WindingInOrder'
  <2>1. \A q \in Procs : pc'[q] \in Winding \union {"tidying"} =>
           q # t /\ pc'[q] = pc[q] /\ on'[q] = on[q] /\ on[q] # t
    BY <1>1 DEF WindingInOrder, Winding
  <2> QED BY <1>1, <2>1 DEF WindingInOrder, At
<1>7. RegisteredWhole'
  <2>1. \A x \in Starts : pc'[x] \notin {"launching", "opening"}
    BY <1>1, <1>2 DEF Holding
  <2>2. \A x \in sessions : accountOf[x] # accountOf[t]
    BY <1>1 DEF RegisteredWhole, DeferredTypeOK
  <2>3. \A x \in sessions : current'[accountOf[x]] = x
    BY <1>1, <2>2 DEF RegisteredWhole, DeferredTypeOK
  <2> QED BY <1>1, <2>1, <2>3 DEF RegisteredWhole, At, DeferredTypeOK
<1>8. LeaseKnown'
  <2>1. \A x \in Starts, q \in Procs : Winds(q, x) => Winds(q, x)'
    BY <1>1 DEF Winds, Winding
  <2>2. \A x \in Starts, u \in Users : At(u, "tidying") /\ on[u] = x
                                          => (At(u, "tidying") /\ on[u] = x)'
    BY <1>1 DEF At
  <2> QED BY <1>1, <2>1, <2>2 DEF LeaseKnown, DeferredTypeOK, At
<1>9. ClosedToNew'
  BY <1>1, <1>2 DEF ClosedToNew, At
<1> QED BY <1>3, <1>4, <1>5, <1>6, <1>7, <1>8, <1>9

LEMMA GetDeadInv ==
    ASSUME DeferredInv, NEW u \in Users, NEW s \in Starts, GetDead(u, s)
    PROVE  DeferredInv'
<1> USE NamesDiffer DEF DeferredInv, GetDead, fixed, locks
<1>1. /\ pc' = [pc EXCEPT ![u] = "tidying"] /\ on' = [on EXCEPT ![u] = s]
      /\ pc \in [Procs -> Stands] /\ on \in [Procs -> Starts \union {Nothing}]
      /\ pc[u] = "out" /\ s \in sessions /\ s \notin alive /\ pc[s] = "made"
      /\ current \in [Accounts -> Starts \union {Nothing}] /\ accountOf \in [Starts -> Accounts]
      /\ current' = [current EXCEPT ![accountOf[s]] = Nothing]
      /\ sessions' = sessions \ {s} /\ leased' = leased \ {s}
      /\ UNCHANGED <<alive, profiles, closing, manager, todo, accountOf, lost>>
  BY DEF Go, DeferredTypeOK, At, RegisteredWhole
<1>2. DeferredTypeOK'
  BY <1>1 DEF DeferredTypeOK, Stands
<1>3. InPlace'
  BY <1>1 DEF InPlace, PlacesOf
<1>4. OneManager'
  BY <1>1 DEF OneManager, Holding, Winding
<1>5. WindingInOrder'
  BY <1>1 DEF WindingInOrder, Winding, At
<1>6. RegisteredWhole'
  <2>1. \A x \in sessions' : accountOf[x] # accountOf[s]
    BY <1>1 DEF RegisteredWhole
  <2>2. \A x \in sessions' : current'[accountOf[x]] = x
    BY <1>1, <2>1 DEF RegisteredWhole, DeferredTypeOK
  <2> QED BY <1>1, <2>2 DEF RegisteredWhole, At, DeferredTypeOK
<1>7. LeaseKnown'
  <2>1. \A x \in Starts, q \in Procs : Winds(q, x) => Winds(q, x)'
    BY <1>1 DEF Winds, Winding
  <2>2. \A x \in Starts, v \in Users : At(v, "tidying") /\ on[v] = x
                                          => (At(v, "tidying") /\ on[v] = x)'
    BY <1>1 DEF At
  <2>3. (At(u, "tidying") /\ on[u] = s)'
    BY <1>1 DEF At
  <2> QED BY <1>1, <2>1, <2>2, <2>3 DEF LeaseKnown, DeferredTypeOK, At
<1>8. ClosedToNew'
  BY <1>1 DEF ClosedToNew, At, DeferredTypeOK, Holding, Winding
<1> QED BY <1>2, <1>3, <1>4, <1>5, <1>6, <1>7, <1>8

LEMMA TidyInv == ASSUME DeferredInv, NEW u \in Users, Tidy(u) PROVE DeferredInv'
<1> USE NamesDiffer DEF DeferredInv, Tidy, fixed, locks
<1> DEFINE s == on[u]
<1>1. /\ pc' = [pc EXCEPT ![u] = "out"] /\ on' = [on EXCEPT ![u] = Nothing]
      /\ pc \in [Procs -> Stands] /\ on \in [Procs -> Starts \union {Nothing}]
      /\ pc[u] = "tidying" /\ s \in Starts \ sessions /\ pc[s] = "made"
      /\ profiles' = profiles \ {s}
      /\ UNCHANGED <<sessions, current, alive, leased, closing, manager, todo, accountOf, lost>>
  BY DEF Go, DeferredTypeOK, At, WindingInOrder, Winding
<1>2. DeferredTypeOK'
  BY <1>1 DEF DeferredTypeOK, Stands, Over
<1>3. InPlace'
  BY <1>1 DEF InPlace, PlacesOf
<1>4. OneManager'
  BY <1>1 DEF OneManager, Holding, Winding
<1>5. WindingInOrder'
  BY <1>1 DEF WindingInOrder, Winding, At
<1>6. RegisteredWhole'
  BY <1>1 DEF RegisteredWhole, At, DeferredTypeOK
<1>7. LeaseKnown'
  <2>1. \A x \in Starts, q \in Procs : Winds(q, x) => Winds(q, x)'
    BY <1>1 DEF Winds, Winding
  <2>2. \A x \in Starts \ {s}, v \in Users : At(v, "tidying") /\ on[v] = x
                                                => (At(v, "tidying") /\ on[v] = x)'
    BY <1>1 DEF At
  <2> QED BY <1>1, <2>1, <2>2 DEF LeaseKnown, DeferredTypeOK, At
<1>8. ClosedToNew'
  BY <1>1 DEF ClosedToNew, At, DeferredTypeOK, Holding, Winding
<1> QED BY <1>2, <1>3, <1>4, <1>5, <1>6, <1>7, <1>8

\* Wherever the sweep is cancelled: what it had popped is lost, and nothing else.
LEMMA StopSweeperInv == ASSUME DeferredInv, StopSweeper PROVE DeferredInv'
<1> USE NamesDiffer DEF DeferredInv, StopSweeper
<1> DEFINE s == on[Sweeper]
<1>1. /\ pc' = [pc EXCEPT ![Sweeper] = "stopped"] /\ on' = [on EXCEPT ![Sweeper] = Nothing]
      /\ pc \in [Procs -> Stands] /\ on \in [Procs -> Starts \union {Nothing}]
      /\ alive' \subseteq alive /\ profiles' \subseteq profiles
      /\ profiles' # profiles => At(Sweeper, "removing") /\ profiles' = profiles \ {s}
      /\ lost' = IF pc[Sweeper] \in Winding THEN lost \union {s} ELSE lost
      /\ oplock' \in [Starts -> Procs \union {Nothing}]
  BY DEF Go, DeferredTypeOK
<1>2. pc[Sweeper] \in Winding => s \in Starts \ sessions /\ pc[s] = "made"
  BY DEF WindingInOrder
<1>3. DeferredTypeOK'
  <2>1. lost' \subseteq Starts /\ alive' \subseteq Starts /\ profiles' \subseteq Starts
    BY <1>1, <1>2 DEF DeferredTypeOK
  <2> QED BY <1>1, <2>1 DEF DeferredTypeOK, Stands, Over
<1>4. InPlace'
  BY <1>1 DEF InPlace, PlacesOf
<1>5. OneManager'
  <2>1. \A q \in Procs : Holding(q)' => Holding(q) /\ q # Sweeper
    BY <1>1 DEF Holding, Winding
  <2> QED BY <2>1 DEF OneManager
<1>6. WindingInOrder'
  BY <1>1 DEF WindingInOrder, Winding, At
<1>7. RegisteredWhole'
  <2>1. \A x \in Starts : (x \in profiles /\ x \notin profiles') => x = s /\ pc[x] = "made"
                                                                    /\ x \notin sessions
    BY <1>1, <1>2 DEF At, Winding
  <2> QED BY <1>1, <2>1 DEF RegisteredWhole, At, DeferredTypeOK
<1>8. LeaseKnown'
  <2>1. \A x \in Starts, q \in Procs : Winds(q, x) => Winds(q, x)' \/ x \in lost'
    BY <1>1 DEF Winds
  <2>2. \A x \in Starts, v \in Users : At(v, "tidying") /\ on[v] = x
                                          => (At(v, "tidying") /\ on[v] = x)'
    BY <1>1 DEF At
  <2>3. lost \subseteq lost'
    BY <1>1
  <2> QED BY <1>1, <2>1, <2>2, <2>3 DEF LeaseKnown, DeferredTypeOK, At
<1>9. ClosedToNew'
  BY <1>1 DEF ClosedToNew, At, DeferredTypeOK, Holding, Winding
<1> QED BY <1>3, <1>4, <1>5, <1>6, <1>7, <1>8, <1>9

\* The timeout passes, Chrome is shut by its user, the manager begins to close.
LEMMA OutsideInv ==
    ASSUME DeferredInv,
           \/ \E s \in Starts : ChromeExits(s) \/ GrowsIdle(s)
           \/ BeginClose \/ CloseAll \/ Drained
    PROVE  DeferredInv'
<1> USE NamesDiffer DEF DeferredInv, fixed, resources, locks
<1>1. CASE \E s \in Starts : ChromeExits(s) \/ GrowsIdle(s)
  <2>1. /\ alive' \subseteq alive /\ idle' \subseteq Starts
        /\ UNCHANGED <<sessions, current, profiles, leased, closing, manager, oplock, todo,
                       pc, on, accountOf, lost>>
    BY <1>1 DEF ChromeExits, GrowsIdle, DeferredTypeOK
  <2>2. DeferredTypeOK'
    BY <2>1 DEF DeferredTypeOK
  <2>3. InPlace' /\ OneManager'
    BY <2>1 DEF InPlace, OneManager, Holding
  <2>4. WindingInOrder' /\ RegisteredWhole'
    BY <2>1 DEF WindingInOrder, RegisteredWhole, At
  <2>5. LeaseKnown' /\ ClosedToNew'
    BY <2>1 DEF LeaseKnown, ClosedToNew, At, Winds, Holding
  <2> QED BY <2>2, <2>3, <2>4, <2>5
<1>2. CASE BeginClose \/ CloseAll \/ Drained
  <2> DEFINE place == pc'[Closer]
  <2>1. /\ pc' = [pc EXCEPT ![Closer] = place] /\ on' = [on EXCEPT ![Closer] = Nothing]
        /\ pc \in [Procs -> Stands] /\ on \in [Procs -> Starts \union {Nothing}]
        /\ UNCHANGED <<sessions, current, alive, profiles, leased, idle, oplock, accountOf, lost>>
        /\ \/ /\ pc[Closer] = "out" /\ place = "shutdown" /\ closing' /\ closing' \in BOOLEAN
              /\ UNCHANGED <<manager, todo>>
           \/ /\ pc[Closer] = "shutdown" /\ place = "emptying" /\ manager = Nothing
              /\ manager' = Closer /\ todo' = sessions /\ UNCHANGED closing
           \/ /\ pc[Closer] = "draining" /\ place = "closed" /\ leased = {}
              /\ UNCHANGED <<manager, todo, closing>>
    <3>1. pc \in [Procs -> Stands] /\ on \in [Procs -> Starts \union {Nothing}]
      BY DEF DeferredTypeOK
    <3>2. CASE BeginClose
      BY <3>1, <3>2 DEF BeginClose, Go, At
    <3>3. CASE CloseAll
      BY <3>1, <3>3 DEF CloseAll, Go, At
    <3>4. CASE Drained
      BY <3>1, <3>4 DEF Drained, Go, At
    <3> QED BY <1>2, <3>2, <3>3, <3>4
  <2>2. DeferredTypeOK'
    BY <2>1 DEF DeferredTypeOK, Stands, Over, Waiting
  <2>3. InPlace'
    BY <2>1 DEF InPlace, PlacesOf
  <2>4. OneManager'
    BY <2>1 DEF OneManager, Holding, Winding
  <2>5. WindingInOrder' /\ RegisteredWhole'
    <3>1. \A x \in Starts : pc'[x] = pc[x]
      BY <2>1
    <3>2. place \notin Winding \union {"tidying"} /\ Closer \notin Starts
      BY <2>1 DEF Winding
    <3>3. \A q \in Procs \ {Closer} : pc'[q] = pc[q] /\ on'[q] = on[q]
      BY <2>1
    <3>4. WindingInOrder'
      BY <2>1, <3>1, <3>2, <3>3 DEF WindingInOrder, At
    <3>5. RegisteredWhole'
      BY <2>1, <3>1 DEF RegisteredWhole, At, DeferredTypeOK
    <3> QED BY <3>4, <3>5
  <2>6. LeaseKnown'
    <3>1. \A x \in Starts, q \in Procs : Winds(q, x) => Winds(q, x)'
      BY <2>1 DEF Winds, Winding
    <3>2. \A x \in Starts, v \in Users : At(v, "tidying") /\ on[v] = x
                                            => (At(v, "tidying") /\ on[v] = x)'
      BY <2>1 DEF At
    <3> QED BY <2>1, <3>1, <3>2 DEF LeaseKnown, DeferredTypeOK, At
  <2>7. ClosedToNew'
    BY <2>1 DEF ClosedToNew, At, DeferredTypeOK, Holding, Winding
  <2> QED BY <2>2, <2>3, <2>4, <2>5, <2>6, <2>7
<1> QED BY <1>1, <1>2

\* Each step is one of these.
LEMMA StepInv == ASSUME DeferredInv, NEW p \in Procs, Step(p) PROVE DeferredInv'
<1> USE NamesDiffer DEF DeferredInv
<1>0. /\ pc \in [Procs -> Stands] /\ on \in [Procs -> Starts \union {Nothing}]
      /\ oplock \in [Starts -> Procs \union {Nothing}]
      /\ leased \subseteq Starts /\ idle \subseteq Starts /\ todo \subseteq Starts
      /\ sessions \subseteq Starts
      /\ Holding(p) => manager = p
      /\ pc[p] \in Winding => on[p] \in Starts
  BY DEF DeferredTypeOK, OneManager, WindingInOrder
<1>1. CASE CloseEnter(p) \/ Saved(p) \/ Terminate(p) \/ Remove(p)
  <2>1. /\ pc[p] \in Winding
        /\ oplock' \in [Starts -> Procs \union {Nothing}]
        /\ UNCHANGED <<sessions, current, idle, closing, manager, todo, fixed>>
    BY <1>0, <1>1 DEF CloseEnter, Saved, Terminate, Remove, At, Winding, locks
  <2>2. CASE CloseEnter(p)
    BY <2>1, <2>2, WindsOnInv DEF CloseEnter, At
  <2>3. CASE Saved(p)
    BY <2>1, <2>3, WindsOnInv DEF Saved, At
  <2>4. CASE Terminate(p)
    BY <2>1, <2>4, WindsOnInv DEF Terminate, At
  <2>5. CASE Remove(p)
    BY <2>1, <2>5, WindsOnInv DEF Remove, At
  <2> QED BY <1>1, <2>2, <2>3, <2>4, <2>5
<1>2. CASE Release(p) \/ Enter(p)
  BY <1>2, ReleaseInv, EnterInv
<1>3. CASE \E s \in Starts : Visit(p, s)
  <2>1. PICK s \in Starts : Visit(p, s)
    BY <1>3
  <2>2. p # Closer
    BY <2>1 DEF Visit, At, InPlace, PlacesOf, Winding
  <2> QED BY <1>0, <2>1, <2>2, CloseInv DEF Visit, At, Holding
<1>4. CASE p = Sweeper /\ SweepEnds
  <2>1. p \notin leased
    BY <1>0, <1>4
  <2> QED BY <1>4, <2>1, LeavesInv DEF SweepEnds, VisitsDone, At
<1>5. CASE p \in Starts /\ Replace(p)
  BY <1>0, <1>5, CloseInv DEF Replace, VisitsDone, At, Holding
<1>6. CASE p \in Starts /\ AskForLease(p)
  BY <1>6, LeavesInv DEF AskForLease, VisitsDone, At
<1>7. CASE p \in Starts /\ (Acquire(p) \/ PortOpens(p))
  BY <1>7, AcquireInv, PortOpensInv
<1>8. CASE p \in Starts /\ (Launch(p) \/ Spawn(p))
  <2>1. Holding(p) /\ p \in leased
    BY <1>8 DEF Launch, Spawn, VisitsDone, At, Holding, RegisteredWhole
  <2>2. CASE Launch(p) /\ profiles' = profiles \union {p} /\ Go(p, "launching", Nothing)
             /\ UNCHANGED manager
    BY <2>1, <2>2, MakesInv DEF Launch, VisitsDone
  <2>3. CASE Spawn(p) /\ alive' = alive \union {p} /\ Go(p, "opening", Nothing)
             /\ UNCHANGED manager
    BY <2>1, <2>3, MakesInv DEF Spawn
  <2>4. CASE Abandon(p) /\ manager' = Nothing
    BY <1>0, <1>8, <2>1, <2>4, AbandonInv DEF Launch, Spawn, VisitsDone, At, resources
  <2> QED BY <1>8, <2>2, <2>3, <2>4 DEF Launch, Spawn
<1>9. CASE p \in Starts /\ PortFails(p)
  BY <1>0, <1>9, AbandonInv DEF PortFails, At, Holding
<1>10. CASE p \in Users /\ Tidy(p)
  BY <1>10, TidyInv
<1>11. CASE p \in Users /\ (Operate(p) \/ Operated(p))
  <2>1. /\ idle' \subseteq Starts /\ oplock' \in [Starts -> Procs \union {Nothing}]
        /\ UNCHANGED <<sessions, current, resources, closing, manager, todo, fixed>>
        /\ pc[p] \in Quiet /\ on[p] \in Starts \union {Nothing}
        /\ p # Closer /\ {"out", "operating", "close"} \subseteq Quiet \intersect PlacesOf(p)
    BY <1>0, <1>11 DEF Operate, Operated, At, Quiet, PlacesOf
  <2>2. \/ Go(p, "out", Nothing) \/ Go(p, "operating", on[p]) \/ Go(p, "close", on[p])
    BY <1>11 DEF Operate, Operated
  <2> QED BY <2>1, <2>2, QuietInv
<1>12. CASE p \in Users /\ UserCloses(p)
  BY <1>0, <1>12, CloseInv DEF UserCloses
<1>13. CASE p = Closer /\ (CloseAll \/ Drained)
  BY <1>13, OutsideInv
<1>14. CASE p = Closer /\ \E s \in Starts : Empty(s)
  BY <1>0, <1>14, CloseInv DEF Empty, At, Holding
<1>15. CASE p = Closer /\ Emptied
  <2>1. p \notin leased
    BY <1>0, <1>15
  <2> QED BY <1>15, <2>1, LeavesInv DEF Emptied, At
<1> QED BY <1>1, <1>2, <1>3, <1>4, <1>5, <1>6, <1>7, <1>8, <1>9, <1>10, <1>11, <1>12, <1>13,
           <1>14, <1>15 DEF Step

LEMMA DeferredNextInv == DeferredInv /\ [DeferredNext]_deferredVars => DeferredInv'
<1> SUFFICES ASSUME DeferredInv, [DeferredNext]_deferredVars PROVE DeferredInv'
  OBVIOUS
<1>0. /\ oplock \in [Starts -> Procs \union {Nothing}] /\ idle \subseteq Starts
  BY DEF DeferredInv, DeferredTypeOK
<1>1. CASE \E p \in Procs : Step(p)
  BY <1>1, StepInv
<1>2. CASE \E p \in Procs : Call(p)
  <2>1. PICK p \in Procs : Call(p)
    BY <1>2
  <2>2. p # Closer /\ pc[p] \in Quiet
    BY <2>1, NamesDiffer DEF Call, At, Quiet
  <2>3. CASE p \in Starts
    <3>1. Go(p, "first", Nothing) /\ "first" \in Quiet \intersect PlacesOf(p)
      BY <2>1, <2>3, NamesDiffer DEF Call, Quiet, PlacesOf
    <3> QED BY <1>0, <2>1, <2>2, <3>1, QuietInv DEF Call, locks
  <2>4. CASE p = Sweeper
    <3>1. Go(p, "sweep", Nothing) /\ "sweep" \in Quiet \intersect PlacesOf(p)
      BY <2>1, <2>4, NamesDiffer DEF Call, Quiet, PlacesOf
    <3> QED BY <1>0, <2>1, <2>2, <3>1, QuietInv DEF Call, locks
  <2> QED BY <2>1, <2>3, <2>4 DEF Call
<1>3. CASE \E u \in Users, s \in Starts : Get(u, s) \/ GetExpired(u, s)
  <2>1. PICK u \in Users, s \in Starts : Get(u, s) \/ GetExpired(u, s)
    BY <1>3
  <2>2. /\ u \in Procs \ {Closer} /\ pc[u] \in Quiet
        /\ UNCHANGED <<sessions, current, resources, idle, closing, locks, fixed>>
        /\ {"close", "queueing", "expire"} \subseteq Quiet \intersect PlacesOf(u)
    BY <2>1, NamesDiffer DEF Get, GetExpired, At, Quiet, PlacesOf
  <2>3. \E next \in {"close", "queueing", "expire"} : Go(u, next, s)
    BY <2>1 DEF Get, GetExpired
  <2> QED BY <1>0, <2>2, <2>3, QuietInv DEF locks
<1>4. CASE \E u \in Users, s \in Starts : GetDead(u, s)
  BY <1>4, GetDeadInv
<1>5. CASE StopSweeper
  BY <1>5, StopSweeperInv
<1>6. CASE BeginClose \/ \E s \in Starts : ChromeExits(s) \/ GrowsIdle(s)
  BY <1>6, OutsideInv
<1>7. CASE UNCHANGED deferredVars
  <2> USE <1>7 DEF deferredVars, resources, locks, fixed, DeferredInv
  <2>1. DeferredTypeOK' /\ InPlace' /\ OneManager'
    BY DEF DeferredTypeOK, InPlace, OneManager, Holding
  <2>2. WindingInOrder' /\ RegisteredWhole'
    BY DEF WindingInOrder, RegisteredWhole, At
  <2>3. LeaseKnown' /\ ClosedToNew'
    BY DEF LeaseKnown, ClosedToNew, At, Winds, Holding
  <2> QED BY <2>1, <2>2, <2>3
<1> QED BY <1>1, <1>2, <1>3, <1>4, <1>5, <1>6, <1>7 DEF DeferredNext

\* Everybody who takes a deferred session out of the table winds it up step by step, leases
\* and resources are known to one of them, and once close_all() has begun no session is
\* added (DeferredChromeBrowserSessionManager).
THEOREM DeferredSessionsInOrder == DeferredSpec => []DeferredInv
  BY DeferredInitInv, DeferredNextInv, PTL DEF DeferredSpec

\* A Chrome, a profile directory and a lease belong to a registered session or to somebody
\* who is about to remove them, on every path out of _native_sessions, whoever closes,
\* fails or is cancelled meanwhile; and close_all() leaves nothing behind
\* (DeferredChromeBrowserSessionManager).
THEOREM NothingIsForgotten == DeferredSpec => []NothingForgotten
<1>1. DeferredInv => NothingForgotten
  <2> SUFFICES ASSUME DeferredInv PROVE NothingForgotten
    OBVIOUS
  <2> USE NamesDiffer DEF DeferredInv
  <2>1. \A s \in alive \union profiles \union leased : s \in sessions \union lost \/ InHand(s)
    <3>1. \A s \in leased : s \in sessions \union lost \/ InHand(s)
      BY DEF LeaseKnown, InHand, Winds, At
    <3>2. \A s \in profiles \ leased : InHand(s)
      BY DEF LeaseKnown, InHand, At
    <3> QED BY <3>1, <3>2 DEF LeaseKnown
  <2>2. /\ sessions \subseteq profiles \intersect leased
        /\ \A s \in sessions : current[accountOf[s]] = s
    BY DEF RegisteredWhole
  <2>3. pc[Closer] \in {"draining", "closed"} => sessions = {}
    BY DEF ClosedToNew
  <2>4. At(Closer, "closed") =>
          /\ alive = {}
          /\ \A s \in profiles : \E u \in Users : At(u, "tidying") /\ on[u] = s
    BY DEF ClosedToNew, LeaseKnown
  <2> QED BY <2>1, <2>2, <2>3, <2>4 DEF NothingForgotten
<1> QED BY <1>1, DeferredSessionsInOrder, PTL
=============================================================================
