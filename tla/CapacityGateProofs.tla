------------------------- MODULE CapacityGateProofs -------------------------
(***************************************************************************)
(* Theorems about CapacityGate, for every finite set of tasks, every set   *)
(* of kinds and every positive limit.                                      *)
(***************************************************************************)
EXTENDS CapacityGate, DequeProofs

-----------------------------------------------------------------------------
(* Dispatch.                                                               *)

\* How many waiters may be granted: no more than wait, no more than there are leases
\* left, and all that wait unless the leases run out.
LEMMA GrantsFacts ==
    ASSUME NEW k \in Kinds, NEW q \in Seq(Tasks), NEW on \in SUBSET Tasks,
           Cardinality(Holders(k, on)) <= Limit[k],
           closing => q = <<>>
    PROVE  LET n == Grants(q, k, on)
               h == Cardinality(Holders(k, on)) IN
           /\ IsFiniteSet(Holders(k, on))
           /\ h \in Nat /\ n \in 0 .. Len(q)
           /\ h + n <= Limit[k]
           /\ n # Len(q) => h + n = Limit[k] /\ ~closing
<1> DEFINE h == Cardinality(Holders(k, on))
           n == Grants(q, k, on)
<1>1. IsFiniteSet(Holders(k, on)) /\ h \in Nat
  <2>1. Holders(k, on) \in SUBSET Tasks
    BY DEF Holders
  <2>2. IsFiniteSet(Holders(k, on))
    BY <2>1, FS_Subset, LimitsArePositive
  <2> QED BY <2>2, FS_CardinalityType
<1>2. Limit[k] \in Nat /\ Len(q) \in Nat
  BY LimitsArePositive
<1>3. n = IF closing \/ Limit[k] <= h THEN 0
          ELSE IF Len(q) <= Limit[k] - h THEN Len(q) ELSE Limit[k] - h
  BY DEF Grants, Least
<1>4. closing => Len(q) = 0
  OBVIOUS
<1> HIDE DEF h, n
<1>5. h <= Limit[k]
  BY DEF h
<1>6. n \in 0 .. Len(q) /\ h + n <= Limit[k] /\ (n # Len(q) => h + n = Limit[k] /\ ~closing)
  BY <1>1, <1>2, <1>3, <1>4, <1>5
<1> QED BY <1>1, <1>6 DEF h, n

\* The grants take the front of the queue; together with the holders they stay within
\* the limit, and who is left over waits because the limit is reached.
LEMMA DispatchFacts ==
    ASSUME NEW k \in Kinds, NEW q \in Seq(Tasks), NEW on \in SUBSET Tasks,
           IsInjective(q), Range(q) \intersect on = {},
           \A t \in Range(q) : KindOf[t] = k,
           Cardinality(Holders(k, on)) <= Limit[k],
           closing => q = <<>>
    PROVE  /\ RestOf(q, Grants(q, k, on)) \in Seq(Tasks)
           /\ IsInjective(RestOf(q, Grants(q, k, on)))
           /\ Range(RestOf(q, Grants(q, k, on))) \union FirstOf(q, Grants(q, k, on)) = Range(q)
           /\ Range(RestOf(q, Grants(q, k, on))) \intersect FirstOf(q, Grants(q, k, on)) = {}
           /\ Cardinality(Holders(k, on \union FirstOf(q, Grants(q, k, on)))) <= Limit[k]
           /\ RestOf(q, Grants(q, k, on)) # <<>> =>
                 /\ Cardinality(Holders(k, on \union FirstOf(q, Grants(q, k, on)))) = Limit[k]
                 /\ ~closing
           /\ \A k2 \in Kinds \ {k} :
                 Holders(k2, on \union FirstOf(q, Grants(q, k, on))) = Holders(k2, on)
<1> DEFINE n == Grants(q, k, on)
           w == RestOf(q, n)
           g == FirstOf(q, n)
           H == Holders(k, on)
<1>1. /\ IsFiniteSet(H) /\ Cardinality(H) \in Nat /\ n \in 0 .. Len(q)
      /\ Cardinality(H) + n <= Limit[k]
      /\ n # Len(q) => Cardinality(H) + n = Limit[k] /\ ~closing
  BY GrantsFacts
<1> HIDE DEF n, H
<1>2. /\ w \in Seq(Tasks) /\ IsInjective(w)
      /\ w # <<>> => n # Len(q)
      /\ Range(w) \union g = Range(q) /\ Range(w) \intersect g = {}
      /\ IsFiniteSet(g) /\ Cardinality(g) = n
  <2>1. n \in 0 .. Len(q) /\ q \in Seq(Tasks) /\ IsInjective(q)
    BY <1>1
  <2> QED BY <2>1, FirstQueue
<1> HIDE DEF w, g
<1>3. Holders(k, on \union g) = H \union g /\ H \intersect g = {}
  BY <1>2 DEF Holders, H
<1>4. \A k2 \in Kinds \ {k} : Holders(k2, on \union g) = Holders(k2, on)
  BY <1>2 DEF Holders
<1>5. Cardinality(H \union g) = Cardinality(H) + n
  <2>1. Cardinality(H \union g) = Cardinality(H) + Cardinality(g) - Cardinality(H \intersect g)
    BY <1>1, <1>2, FS_Union
  <2>2. Cardinality(H \intersect g) = 0
    BY <1>3, FS_EmptySet
  <2>3. Cardinality(H) \in Nat /\ n \in Nat
    <3>1. Cardinality(H) \in Nat
      BY <1>1
    <3>2. n \in 0 .. Len(q)
      BY <1>1
    <3> QED BY <3>1, <3>2
  <2> QED BY <2>1, <2>2, <2>3, <1>2
<1>6. Cardinality(Holders(k, on \union g)) <= Limit[k]
  BY <1>1, <1>3, <1>5
<1>7. w # <<>> => Cardinality(Holders(k, on \union g)) = Limit[k] /\ ~closing
  BY <1>1, <1>2, <1>3, <1>5
<1> QED BY <1>2, <1>4, <1>6, <1>7 DEF n, w, g
-----------------------------------------------------------------------------
(* The inductive invariant: beside the checked properties it says that the *)
(* queues, the tokens and the refusals share no task, and that everyone in *)
(* a queue or refused is still inside acquire().                           *)

QueuesAreOfKind == \A k \in Kinds : \A t \in Range(waiters[k]) : KindOf[t] = k

QueuedOnce == \A k \in Kinds : IsInjective(waiters[k])

QueuedIsWaiting == \A k \in Kinds : \A t \in Range(waiters[k]) :
    place[t] \in {"waiting", "cancelled"} /\ t \notin active /\ t \notin refused

RefusedIsWaiting == \A t \in refused :
    place[t] \in {"waiting", "cancelled"} /\ t \notin active

GInv == /\ GateTypeOK /\ QueuesAreOfKind /\ QueuedOnce
        /\ QueuedIsWaiting /\ RefusedIsWaiting /\ TokensAreOwned
        /\ WithinLimits /\ NoIdleCapacity /\ DrainedTellsTheTruth

-----------------------------------------------------------------------------
(* One lemma for the dispatch of every action, then one lemma per action.  *)

\* Who gives a token back leaves no more holders than there were.
LEMMA FewerHold ==
    ASSUME GInv, NEW k \in Kinds, NEW on \in SUBSET active
    PROVE  Cardinality(Holders(k, on)) <= Limit[k]
<1>1. IsFiniteSet(Holders(k, active)) /\ Holders(k, on) \in SUBSET Holders(k, active)
  <2>1. Holders(k, active) \in SUBSET Tasks
    BY DEF GInv, GateTypeOK, Holders
  <2> QED BY <2>1, FS_Subset, LimitsArePositive DEF Holders
<1>2. Cardinality(Holders(k, on)) <= Cardinality(Holders(k, active))
  BY <1>1, FS_Subset
<1>3. Cardinality(Holders(k, active)) \in Nat /\ Cardinality(Holders(k, on)) \in Nat
  BY <1>1, FS_Subset, FS_CardinalityType
<1>4. Cardinality(Holders(k, active)) <= Limit[k] /\ Limit[k] \in Nat
  BY LimitsArePositive DEF GInv, WithinLimits
<1> QED BY <1>2, <1>3, <1>4

\* A dispatch of kind k that starts with the queue q and the token holders on: the
\* queue and the tokens stay apart, nobody gets lost between them, the limit is kept
\* and used, and the other kinds do not notice.
LEMMA DispatchStep ==
    ASSUME GInv, NEW k \in Kinds, NEW q \in Seq(Tasks), NEW on \in SUBSET active,
           IsInjective(q), Range(q) \intersect on = {},
           \A t \in Range(q) : KindOf[t] = k,
           \A t \in active \ on : KindOf[t] = k,
           closing => q = <<>>,
           Dispatch(k, q, on), closing' = closing
    PROVE  /\ waiters' \in [Kinds -> Seq(Tasks)] /\ active' \in SUBSET Tasks
           /\ \A k2 \in Kinds \ {k} : waiters'[k2] = waiters[k2]
           /\ Range(waiters'[k]) \union active' = Range(q) \union on
           /\ Range(waiters'[k]) \intersect active' = {}
           /\ Range(waiters'[k]) \subseteq Range(q) /\ on \subseteq active'
           /\ QueuesAreOfKind' /\ QueuedOnce' /\ WithinLimits' /\ NoIdleCapacity'
<1> DEFINE n == Grants(q, k, on)
           w == RestOf(q, n)
           g == FirstOf(q, n)
<1>1. waiters' = [waiters EXCEPT ![k] = w] /\ active' = on \union g
  BY DEF Dispatch, RestOf, FirstOf
<1>2. waiters \in [Kinds -> Seq(Tasks)] /\ on \in SUBSET Tasks
  BY DEF GInv, GateTypeOK
<1>4. Cardinality(Holders(k, on)) <= Limit[k]
  BY FewerHold
<1>5. /\ w \in Seq(Tasks) /\ IsInjective(w)
      /\ Range(w) \union g = Range(q) /\ Range(w) \intersect g = {}
      /\ Cardinality(Holders(k, on \union g)) <= Limit[k]
      /\ w # <<>> => Cardinality(Holders(k, on \union g)) = Limit[k] /\ ~closing
      /\ \A k2 \in Kinds \ {k} : Holders(k2, on \union g) = Holders(k2, on)
  <2>1. /\ k \in Kinds /\ q \in Seq(Tasks) /\ on \in SUBSET Tasks
        /\ IsInjective(q) /\ Range(q) \intersect on = {}
        /\ \A t \in Range(q) : KindOf[t] = k
        /\ Cardinality(Holders(k, on)) <= Limit[k]
        /\ closing => q = <<>>
    BY <1>2, <1>4
  <2> QED BY ONLY <2>1, DispatchFacts, SMTT(30)
<1> HIDE DEF n, w, g
<1>6. /\ waiters' \in [Kinds -> Seq(Tasks)] /\ waiters'[k] = w
      /\ \A k2 \in Kinds \ {k} : waiters'[k2] = waiters[k2]
  BY <1>1, <1>2, <1>5
<1>7. g \subseteq Range(q) /\ Range(q) \subseteq Tasks
  BY <1>5 DEF Range
<1>8. active' \in SUBSET Tasks
  BY <1>1, <1>2, <1>7
<1>9. \A k2 \in Kinds \ {k} : Holders(k2, active') = Holders(k2, active)
  BY <1>1, <1>7 DEF Holders
<1>10. QueuesAreOfKind' /\ QueuedOnce'
  BY <1>5, <1>6 DEF GInv, QueuesAreOfKind, QueuedOnce
<1>11. WithinLimits' /\ NoIdleCapacity'
  <2> SUFFICES ASSUME NEW k2 \in Kinds
               PROVE  /\ Cardinality(Holders(k2, active')) <= Limit[k2]
                      /\ waiters'[k2] # <<>> =>
                            Cardinality(Holders(k2, active')) = Limit[k2] /\ ~closing
    BY DEF WithinLimits, NoIdleCapacity, Holders
  <2>1. CASE k2 = k
    BY <2>1, <1>1, <1>5, <1>6
  <2>2. CASE k2 # k
    BY <2>2, <1>6, <1>9 DEF GInv, WithinLimits, NoIdleCapacity
  <2> QED BY <2>1, <2>2
<1>12. /\ Range(waiters'[k]) \union active' = Range(q) \union on
       /\ Range(waiters'[k]) \intersect active' = {}
       /\ Range(waiters'[k]) \subseteq Range(q) /\ on \subseteq active'
  BY <1>1, <1>5, <1>6
<1> QED BY <1>6, <1>8, <1>10, <1>11, <1>12

LEMMA AcquireStep ==
    ASSUME GInv, NEW t \in Tasks, Acquire(t)
    PROVE  GInv'
<1> DEFINE k == KindOf[t]
           q == Append(waiters[k], t)
<1>1. /\ place[t] = "outside" /\ ~closing
      /\ Dispatch(k, q, active) /\ drained' = FALSE
      /\ place' = [place EXCEPT ![t] = IF t \in active' THEN "leased" ELSE "waiting"]
      /\ UNCHANGED <<refused, closing>>
  BY DEF Acquire
<1>2. k \in Kinds /\ waiters[k] \in Seq(Tasks) /\ IsInjective(waiters[k])
  BY LimitsArePositive DEF GInv, GateTypeOK, QueuedOnce
<1>3. t \notin active /\ t \notin refused /\ \A k2 \in Kinds : t \notin Range(waiters[k2])
  BY <1>1 DEF GInv, TokensAreOwned, RefusedIsWaiting, QueuedIsWaiting
<1>4. q \in Seq(Tasks) /\ IsInjective(q) /\ Range(q) = Range(waiters[k]) \union {t}
  <2> DEFINE v == waiters[k]
  <2>1. v \in Seq(Tasks) /\ IsInjective(v) /\ t \notin Range(v)
    BY <1>2, <1>3
  <2> HIDE DEF v
  <2>2. /\ Append(v, t) \in Seq(Tasks) /\ IsInjective(Append(v, t))
        /\ Range(Append(v, t)) = Range(v) \union {t}
    BY <2>1, AppendQueue
  <2> QED BY <2>2 DEF v
<1> HIDE DEF q
<1>5. \A u \in Range(q) : KindOf[u] = k /\ u \notin active
  BY <1>2, <1>3, <1>4 DEF GInv, QueuesAreOfKind, QueuedIsWaiting
<1> HIDE DEF k
<1>6. /\ waiters' \in [Kinds -> Seq(Tasks)] /\ active' \in SUBSET Tasks
      /\ \A k2 \in Kinds \ {k} : waiters'[k2] = waiters[k2]
      /\ Range(waiters'[k]) \union active' = Range(q) \union active
      /\ Range(waiters'[k]) \intersect active' = {}
      /\ Range(waiters'[k]) \subseteq Range(q) /\ active \subseteq active'
      /\ QueuesAreOfKind' /\ QueuedOnce' /\ WithinLimits' /\ NoIdleCapacity'
  BY <1>1, <1>2, <1>4, <1>5, DispatchStep
<1>7. /\ \A u \in Tasks \ {t} : place'[u] = place[u]
      /\ place'[t] = IF t \in active' THEN "leased" ELSE "waiting"
  BY <1>1 DEF GInv, GateTypeOK
<1>8. GateTypeOK'
  BY <1>1, <1>6 DEF GInv, GateTypeOK, Places
<1>9. QueuedIsWaiting'
  <2> SUFFICES ASSUME NEW k2 \in Kinds, NEW u \in Range(waiters'[k2])
               PROVE  place'[u] \in {"waiting", "cancelled"} /\ u \notin active' /\ u \notin refused
    BY <1>1 DEF QueuedIsWaiting
  <2>1. CASE k2 = k
    <3>1. u \in Range(q) /\ u \notin active'
      BY <2>1, <1>6
    <3>2. CASE u = t
      BY <3>1, <3>2, <1>3, <1>7
    <3>3. CASE u # t
      <4>1. u \in Range(waiters[k]) /\ u \in Tasks
        <5>1. u \in Range(waiters[k])
          BY <3>1, <3>3, <1>4
        <5>2. Range(waiters[k]) \subseteq Tasks
          BY <1>2 DEF Range
        <5> QED BY <5>1, <5>2
      <4> QED BY <4>1, <3>1, <3>3, <1>2, <1>7 DEF GInv, QueuedIsWaiting
    <3> QED BY <3>2, <3>3
  <2>2. CASE k2 # k
    <3>1. u \in Range(waiters[k2]) /\ KindOf[u] = k2 /\ u \in Tasks
      BY <2>2, <1>6 DEF GInv, QueuesAreOfKind, GateTypeOK, Range
    <3>2. u \notin Range(q) /\ u # t
      BY <3>1, <2>2, <1>3, <1>5
    <3> QED BY <3>1, <3>2, <1>6, <1>7 DEF GInv, QueuedIsWaiting
  <2> QED BY <2>1, <2>2
<1>10. RefusedIsWaiting'
  <2> SUFFICES ASSUME NEW u \in refused
               PROVE  place'[u] \in {"waiting", "cancelled"} /\ u \notin active'
    BY <1>1 DEF RefusedIsWaiting
  <2>1. u \in Tasks /\ u # t /\ u \notin active /\ u \notin Range(waiters[k])
    BY <1>2, <1>3 DEF GInv, GateTypeOK, RefusedIsWaiting, QueuedIsWaiting
  <2> QED BY <2>1, <1>4, <1>6, <1>7 DEF GInv, RefusedIsWaiting
<1>11. TokensAreOwned'
  <2>1. \A u \in active' : place'[u] # "outside"
    <3> SUFFICES ASSUME NEW u \in active'
                 PROVE  place'[u] # "outside"
      OBVIOUS
    <3>1. CASE u = t
      BY <3>1, <1>7
    <3>2. CASE u # t
      BY <3>2, <1>2, <1>4, <1>6, <1>7 DEF GInv, TokensAreOwned, QueuedIsWaiting
    <3> QED BY <3>1, <3>2
  <2>2. ASSUME NEW u \in Tasks
        PROVE  /\ place'[u] = "leased" => u \in active'
               /\ place'[u] \in {"waiting", "cancelled"} =>
                     u \in active' \union refused' \union Range(waiters'[KindOf[u]])
    <3>1. CASE u = t
      <4>1. t \in active' \union Range(waiters'[k])
        BY <1>4, <1>6
      <4> QED BY <3>1, <4>1, <1>7 DEF k
    <3>2. CASE u # t
      <4>1. place'[u] = "leased" => u \in active'
        BY <3>2, <1>6, <1>7 DEF GInv, TokensAreOwned
      <4>2. place'[u] \in {"waiting", "cancelled"} =>
               u \in active \union refused \union Range(waiters[KindOf[u]])
        BY <3>2, <1>7 DEF GInv, TokensAreOwned
      <4>3. KindOf[u] \in Kinds
        BY LimitsArePositive
      <4>4. u \in Range(waiters[KindOf[u]]) => u \in active' \union Range(waiters'[KindOf[u]])
        BY <4>3, <1>4, <1>6
      <4> QED BY <4>1, <4>2, <4>4, <1>1, <1>6
    <3> QED BY <3>1, <3>2
  <2> QED BY <2>1, <2>2 DEF TokensAreOwned
<1>12. DrainedTellsTheTruth'
  <2>1. t \in active' \union Range(waiters'[k])
    BY <1>4, <1>6
  <2>2. ~(active' = {} /\ \A k2 \in Kinds : waiters'[k2] = <<>>)
    BY <2>1, <1>2 DEF Range
  <2> QED BY <2>2, <1>1 DEF DrainedTellsTheTruth
<1> QED BY <1>6, <1>8, <1>9, <1>10, <1>11, <1>12 DEF GInv

\* A task that leaves the gate takes its token or its place in the queue with it.
LEMMA LeaveStep ==
    ASSUME GInv, NEW t \in Tasks, place[t] # "outside",
           NEW k, k = KindOf[t],
           NEW q \in Seq(Tasks), IsInjective(q), Range(q) = Range(waiters[k]) \ {t},
           closing => q = <<>>,
           Dispatch(k, q, active \ {t}), SetDrained, Leave(t)
    PROVE  GInv'
<1>1. /\ refused' = refused \ {t} /\ closing' = closing
      /\ place' = [place EXCEPT ![t] = "outside"]
  BY DEF Leave
<1>2. k \in Kinds /\ active \ {t} \in SUBSET active
  BY LimitsArePositive
<1>3. \A u \in Range(q) : KindOf[u] = k /\ u \notin active
  BY <1>2 DEF GInv, QueuesAreOfKind, QueuedIsWaiting
<1>4. \A u \in active \ (active \ {t}) : KindOf[u] = k
  OBVIOUS
<1>5. /\ waiters' \in [Kinds -> Seq(Tasks)] /\ active' \in SUBSET Tasks
      /\ \A k2 \in Kinds \ {k} : waiters'[k2] = waiters[k2]
      /\ Range(waiters'[k]) \union active' = Range(q) \union (active \ {t})
      /\ Range(waiters'[k]) \intersect active' = {}
      /\ Range(waiters'[k]) \subseteq Range(q) /\ active \ {t} \subseteq active'
      /\ QueuesAreOfKind' /\ QueuedOnce' /\ WithinLimits' /\ NoIdleCapacity'
  BY <1>1, <1>2, <1>3, <1>4, DispatchStep
<1>6. (\A u \in Tasks \ {t} : place'[u] = place[u]) /\ place'[t] = "outside"
  BY <1>1 DEF GInv, GateTypeOK
<1>7. t \notin active' /\ \A k2 \in Kinds : t \notin Range(waiters'[k2])
  BY <1>5 DEF GInv, QueuesAreOfKind
<1>8. DrainedTellsTheTruth'
  BY DEF SetDrained, DrainedTellsTheTruth
<1>9. GateTypeOK'
  <2>1. drained' \in BOOLEAN
    BY DEF SetDrained
  <2> QED BY <2>1, <1>1, <1>5 DEF GInv, GateTypeOK, Places
<1>10. QueuedIsWaiting'
  <2> SUFFICES ASSUME NEW k2 \in Kinds, NEW u \in Range(waiters'[k2])
               PROVE  /\ place'[u] \in {"waiting", "cancelled"}
                      /\ u \notin active' /\ u \notin refused'
    BY DEF QueuedIsWaiting
  <2>1. u # t
    BY <1>7
  <2>2. u \in Range(waiters[k2])
    BY <1>5
  <2>3. u \in Tasks
    BY <2>2 DEF GInv, GateTypeOK, Range
  <2>4. /\ place[u] \in {"waiting", "cancelled"} /\ u \notin active /\ u \notin refused
        /\ KindOf[u] = k2
    BY <2>2 DEF GInv, QueuedIsWaiting, QueuesAreOfKind
  <2>5. u \notin active'
    <3>1. CASE k2 = k
      BY <3>1, <1>5
    <3>2. CASE k2 # k
      BY <3>2, <2>4, <1>3, <1>5
    <3> QED BY <3>1, <3>2
  <2> QED BY <2>1, <2>3, <2>4, <2>5, <1>1, <1>6
<1>11. RefusedIsWaiting'
  <2> SUFFICES ASSUME NEW u \in refused, u # t
               PROVE  place'[u] \in {"waiting", "cancelled"} /\ u \notin active'
    BY <1>1 DEF RefusedIsWaiting
  <2>1. /\ u \in Tasks /\ u \notin active /\ u \notin Range(waiters[k])
        /\ place[u] \in {"waiting", "cancelled"}
    BY <1>2 DEF GInv, GateTypeOK, RefusedIsWaiting, QueuedIsWaiting
  <2> QED BY <2>1, <1>5, <1>6
<1>12. TokensAreOwned'
  <2>1. ASSUME NEW u \in active'
        PROVE  place'[u] # "outside"
    <3>1. u # t /\ u \in Tasks
      BY <1>5, <1>7
    <3>2. u \in active \/ u \in Range(waiters[k])
      BY <1>5
    <3>3. place[u] # "outside"
      BY <3>1, <3>2, <1>2 DEF GInv, TokensAreOwned, QueuedIsWaiting
    <3> QED BY <3>1, <3>3, <1>6
  <2>2. ASSUME NEW u \in Tasks
        PROVE  /\ place'[u] = "leased" => u \in active'
               /\ place'[u] \in {"waiting", "cancelled"} =>
                     u \in active' \union refused' \union Range(waiters'[KindOf[u]])
    <3>1. CASE u = t
      BY <3>1, <1>6
    <3>2. CASE u # t
      <4>1. place'[u] = "leased" => u \in active'
        BY <3>2, <1>5, <1>6 DEF GInv, TokensAreOwned
      <4>2. place'[u] \in {"waiting", "cancelled"} =>
               u \in active \union refused \union Range(waiters[KindOf[u]])
        BY <3>2, <1>6 DEF GInv, TokensAreOwned
      <4>3. KindOf[u] \in Kinds
        BY LimitsArePositive
      <4>4. u \in Range(waiters[KindOf[u]]) => u \in active' \union Range(waiters'[KindOf[u]])
        BY <3>2, <4>3, <1>5
      <4> QED BY <3>2, <4>1, <4>2, <4>4, <1>1, <1>5
    <3> QED BY <3>1, <3>2
  <2> QED BY <2>1, <2>2 DEF TokensAreOwned
<1> QED BY <1>5, <1>8, <1>9, <1>10, <1>11, <1>12 DEF GInv

LEMMA WithdrawStep ==
    ASSUME GInv, NEW t \in Tasks, Withdraw(t)
    PROVE  GInv'
<1> DEFINE k == KindOf[t]
           q == waiters[k]
           v == Without(q, t)
<1>1. k \in Kinds /\ q \in Seq(Tasks) /\ IsInjective(q) /\ (closing => q = <<>>)
  BY LimitsArePositive DEF GInv, GateTypeOK, QueuedOnce, NoIdleCapacity
<1>2. place[t] # "outside" /\ SetDrained /\ Leave(t)
  BY DEF Withdraw
<1>3. CASE t \in active
  <2>1. Dispatch(k, q, active \ {t})
    BY <1>3 DEF Withdraw
  <2>2. Range(q) = Range(q) \ {t}
    BY <1>1, <1>3 DEF GInv, QueuedIsWaiting
  <2> HIDE DEF k
  <2> QED BY <2>1, <2>2, <1>1, <1>2, LeaveStep DEF k
<1>4. CASE t \notin active
  <2>1. Dispatch(k, v, active \ {t})
    <3>1. active \ {t} = active
      BY <1>4
    <3> QED BY <3>1, <1>4 DEF Withdraw
  <2>2. closing => v = <<>>
    BY <1>1 DEF Without
  <2> HIDE DEF q
  <2>3. v \in Seq(Tasks) /\ IsInjective(v) /\ Range(v) = Range(q) \ {t}
    BY <1>1, WithoutQueue
  <2> HIDE DEF v, k
  <2> QED BY <2>1, <2>2, <2>3, <1>1, <1>2, LeaveStep DEF k, q
<1> QED BY <1>3, <1>4

LEMMA ReleaseStep ==
    ASSUME GInv, NEW t \in Tasks, Release(t)
    PROVE  GInv'
<1> DEFINE k == KindOf[t]
           q == waiters[k]
<1>1. k \in Kinds /\ q \in Seq(Tasks) /\ IsInjective(q) /\ (closing => q = <<>>)
  BY LimitsArePositive DEF GInv, GateTypeOK, QueuedOnce, NoIdleCapacity
<1>2. /\ place[t] # "outside" /\ t \in active
      /\ Dispatch(k, q, active \ {t}) /\ SetDrained /\ Leave(t)
  BY DEF Release, GInv, TokensAreOwned
<1>3. Range(q) = Range(q) \ {t}
  BY <1>1, <1>2 DEF GInv, QueuedIsWaiting
<1> QED BY <1>1, <1>2, <1>3, LeaveStep

\* A grant that is noticed, and a cancellation: only the place of the task changes.
LEMMA ResumeStep ==
    ASSUME GInv, NEW t \in Tasks, Resume(t) \/ Cancel(t)
    PROVE  GInv'
<1>1. /\ place[t] = "waiting" /\ place' = [place EXCEPT ![t] = place'[t]]
      /\ place'[t] \in {"leased", "cancelled"} /\ (place'[t] = "leased" => t \in active)
      /\ UNCHANGED <<waiters, active, refused, closing, drained>>
  BY DEF Resume, Cancel, GInv, GateTypeOK
<1>2. place'[t] = "leased" => t \notin refused /\ \A k \in Kinds : t \notin Range(waiters[k])
  BY <1>1 DEF GInv, RefusedIsWaiting, QueuedIsWaiting
<1>3. \A u \in Tasks \ {t} : place'[u] = place[u]
  BY <1>1 DEF GInv, GateTypeOK
<1>4. GateTypeOK'
  BY <1>1 DEF GInv, GateTypeOK, Places
<1>5. QueuedIsWaiting'
  <2> SUFFICES ASSUME NEW k \in Kinds, NEW u \in Range(waiters[k])
               PROVE  place'[u] \in {"waiting", "cancelled"} /\ u \notin active /\ u \notin refused
    BY <1>1 DEF QueuedIsWaiting
  <2>1. u \in Tasks
    BY DEF GInv, GateTypeOK, Range
  <2> QED BY <2>1, <1>1, <1>2, <1>3 DEF GInv, QueuedIsWaiting
<1>6. RefusedIsWaiting'
  BY <1>1, <1>2, <1>3 DEF GInv, GateTypeOK, RefusedIsWaiting
<1>7. TokensAreOwned'
  BY <1>1, <1>3 DEF GInv, GateTypeOK, TokensAreOwned
<1>8. QueuesAreOfKind' /\ QueuedOnce' /\ WithinLimits' /\ NoIdleCapacity' /\ DrainedTellsTheTruth'
  BY <1>1 DEF GInv, QueuesAreOfKind, QueuedOnce, WithinLimits, NoIdleCapacity,
              DrainedTellsTheTruth, Holders
<1> QED BY <1>4, <1>5, <1>6, <1>7, <1>8 DEF GInv

\* Everyone who waits is refused, and the queues are empty from then on.
LEMMA BeginCloseStep ==
    ASSUME GInv, BeginClose
    PROVE  GInv'
<1>1. /\ closing' = TRUE /\ SetDrained /\ UNCHANGED <<active, place>>
      /\ refused' = refused \union UNION {Range(waiters[k]) : k \in Kinds}
      /\ waiters' = [k \in Kinds |-> <<>>]
  BY DEF BeginClose
<1>2. \A k \in Kinds : waiters'[k] = <<>> /\ Range(waiters'[k]) = {}
  BY <1>1 DEF Range
<1>3. \A k \in Kinds : Range(waiters[k]) \subseteq Tasks
  BY DEF GInv, GateTypeOK, Range
<1>4. GateTypeOK'
  <2>1. drained' \in BOOLEAN
    BY <1>1 DEF SetDrained
  <2>2. refused' \subseteq Tasks
    BY <1>1, <1>3 DEF GInv, GateTypeOK
  <2>3. waiters' \in [Kinds -> Seq(Tasks)]
    BY <1>1
  <2> QED BY <2>1, <2>2, <2>3, <1>1 DEF GInv, GateTypeOK
<1>5. QueuesAreOfKind' /\ QueuedIsWaiting'
  BY <1>2 DEF QueuesAreOfKind, QueuedIsWaiting
<1>6. QueuedOnce'
  BY <1>2 DEF QueuedOnce, IsInjective
<1>7. RefusedIsWaiting'
  BY <1>1 DEF GInv, RefusedIsWaiting, QueuedIsWaiting
<1>8. TokensAreOwned'
  <2> SUFFICES ASSUME NEW t \in Tasks, place[t] \in {"waiting", "cancelled"}
               PROVE  t \in active \union refused'
    BY <1>1 DEF GInv, TokensAreOwned
  <2>1. t \in active \union refused \union Range(waiters[KindOf[t]])
    BY DEF GInv, TokensAreOwned
  <2>2. KindOf[t] \in Kinds
    BY LimitsArePositive
  <2> QED BY <2>1, <2>2, <1>1
<1>9. WithinLimits' /\ NoIdleCapacity'
  BY <1>1, <1>2 DEF GInv, WithinLimits, NoIdleCapacity, Holders
<1>10. DrainedTellsTheTruth'
  BY <1>1 DEF SetDrained, DrainedTellsTheTruth
<1> QED BY <1>4, <1>5, <1>6, <1>7, <1>8, <1>9, <1>10 DEF GInv

-----------------------------------------------------------------------------
(* The theorems.                                                           *)

LEMMA InitInvariant == GateInit => GInv
<1> SUFFICES ASSUME GateInit
             PROVE  GInv
  OBVIOUS
<1>1. /\ \A k \in Kinds : waiters[k] = <<>> /\ Range(waiters[k]) = {}
      /\ active = {} /\ refused = {} /\ drained = TRUE
      /\ \A t \in Tasks : place[t] = "outside"
  BY DEF GateInit, Range
<1>2. GateTypeOK
  <2>1. waiters \in [Kinds -> Seq(Tasks)]
    BY DEF GateInit
  <2>2. place \in [Tasks -> Places]
    BY DEF GateInit, Places
  <2> QED BY <2>1, <2>2 DEF GateInit, GateTypeOK
<1>3. QueuesAreOfKind /\ QueuedIsWaiting /\ RefusedIsWaiting /\ TokensAreOwned
  BY <1>1 DEF QueuesAreOfKind, QueuedIsWaiting, RefusedIsWaiting, TokensAreOwned
<1>4. QueuedOnce
  BY <1>1 DEF QueuedOnce, IsInjective
<1>5. NoIdleCapacity /\ DrainedTellsTheTruth
  BY <1>1 DEF NoIdleCapacity, DrainedTellsTheTruth
<1>6. WithinLimits
  <2> SUFFICES ASSUME NEW k \in Kinds
               PROVE  Cardinality(Holders(k, active)) <= Limit[k]
    BY DEF WithinLimits
  <2>1. Holders(k, active) = {}
    BY <1>1 DEF Holders
  <2>2. Cardinality(Holders(k, active)) = 0
    BY <2>1, FS_EmptySet
  <2> QED BY <2>2, LimitsArePositive
<1> QED BY <1>2, <1>3, <1>4, <1>5, <1>6 DEF GInv

LEMMA StepKeepsInvariant == GInv /\ [Next]_gateVars => GInv'
<1> SUFFICES ASSUME GInv, [Next]_gateVars
             PROVE  GInv'
  OBVIOUS
<1>1. CASE UNCHANGED gateVars
  BY <1>1 DEF gateVars, GInv, GateTypeOK, QueuesAreOfKind, QueuedOnce, QueuedIsWaiting,
              RefusedIsWaiting, TokensAreOwned, WithinLimits, NoIdleCapacity,
              DrainedTellsTheTruth, Holders
<1>2. ASSUME NEW t \in Tasks, Acquire(t)
      PROVE  GInv'
  BY <1>2, AcquireStep
<1>3. ASSUME NEW t \in Tasks, Resume(t) \/ Cancel(t)
      PROVE  GInv'
  BY <1>3, ResumeStep
<1>4. ASSUME NEW t \in Tasks, Withdraw(t)
      PROVE  GInv'
  BY <1>4, WithdrawStep
<1>5. ASSUME NEW t \in Tasks, Release(t)
      PROVE  GInv'
  BY <1>5, ReleaseStep
<1>6. CASE BeginClose
  BY <1>6, BeginCloseStep
<1> QED BY <1>1, <1>2, <1>3, <1>4, <1>5, <1>6 DEF Next

\* The invariant of the gate holds in every state of every run.
LEMMA Invariant == Spec => []GInv
<1> QED BY InitInvariant, StepKeepsInvariant, PTL DEF Spec

\* The types of the gate's state, whatever the tasks, kinds and limits.
THEOREM GateTypeCorrect == Spec => []GateTypeOK
<1>1. GInv => GateTypeOK
  BY DEF GInv
<1> QED BY <1>1, Invariant, PTL

\* However acquire, cancellation, release and begin_close interleave, no kind ever has
\* more leases out than its limit (capacity.py:133-144).
THEOREM LimitsHold == Spec => []WithinLimits
<1>1. GInv => WithinLimits
  BY DEF GInv
<1> QED BY <1>1, Invariant, PTL

\* Whenever somebody waits, all leases of the kind are out and the gate is open: every
\* action that frees a lease or takes a request out dispatches before it ends.
THEOREM CapacityIsUsed == Spec => []NoIdleCapacity
<1>1. GInv => NoIdleCapacity
  BY DEF GInv
<1> QED BY <1>1, Invariant, PTL

\* No token outlives its request and no request is lost: a cancelled or refused waiter
\* that had already been granted gives its token back (capacity.py:81-90).
THEOREM NoTokenLeaks == Spec => []TokensAreOwned
<1>1. GInv => TokensAreOwned
  BY DEF GInv
<1> QED BY <1>1, Invariant, PTL

\* wait_drained() is neither early nor late (capacity.py:146-150).
THEOREM DrainedIsAccurate == Spec => []DrainedTellsTheTruth
<1>1. GInv => DrainedTellsTheTruth
  BY DEF GInv
<1> QED BY <1>1, Invariant, PTL

-----------------------------------------------------------------------------
(* What the callers of the gate may rely on.                               *)

\* A closed gate takes nobody in and grants nothing.
LEMMA ClosedGateGrantsNothing ==
    ASSUME GInv, closing, [Next]_gateVars
    PROVE  closing' /\ active' \subseteq active
<1>1. ASSUME NEW k, NEW q, NEW on \in SUBSET active, Dispatch(k, q, on)
      PROVE  active' \subseteq active
  <2>1. Grants(q, k, on) = 0
    BY DEF Grants
  <2>2. {q[i] : i \in 1 .. Grants(q, k, on)} = {}
    BY <2>1
  <2> QED BY <1>1, <2>2 DEF Dispatch
<1>2. CASE UNCHANGED gateVars
  BY <1>2 DEF gateVars
<1>3. ASSUME NEW t \in Tasks, Withdraw(t) \/ Release(t)
      PROVE  closing' /\ active' \subseteq active
  <2>1. closing' = closing
    BY <1>3 DEF Withdraw, Release, Leave
  <2>2. \/ Dispatch(KindOf[t], waiters[KindOf[t]], active \ {t})
        \/ Dispatch(KindOf[t], Without(waiters[KindOf[t]], t), active)
    BY <1>3 DEF Withdraw, Release
  <2> QED BY <1>1, <2>1, <2>2
<1>4. ASSUME NEW t \in Tasks, Acquire(t) \/ Resume(t) \/ Cancel(t)
      PROVE  closing' /\ active' \subseteq active
  BY <1>4 DEF Acquire, Resume, Cancel
<1>5. CASE BeginClose
  BY <1>5 DEF BeginClose
<1> QED BY <1>2, <1>3, <1>4, <1>5 DEF Next

\* What each call of the gate does to the task that makes it, and to the others.
LEMMA GateMoves ==
    ASSUME GateTypeOK, NEW t \in Tasks
    PROVE  /\ Acquire(t) => /\ place[t] = "outside" /\ ~closing /\ closing' = closing
                            /\ place'[t] = IF t \in active' THEN "leased" ELSE "waiting"
           /\ Resume(t) => /\ place[t] = "waiting" /\ place'[t] = "leased"
                           /\ active' = active /\ closing' = closing
           /\ Cancel(t) => /\ place[t] = "waiting" /\ place'[t] = "cancelled"
                           /\ active' = active /\ closing' = closing
           /\ Withdraw(t) => /\ place[t] \in {"waiting", "cancelled"}
                             /\ place'[t] = "outside" /\ closing' = closing
           /\ Release(t) => /\ place[t] = "leased" /\ place'[t] = "outside"
                            /\ closing' = closing
           /\ Acquire(t) \/ Resume(t) \/ Cancel(t) \/ Withdraw(t) \/ Release(t) =>
                \A u \in Tasks \ {t} : place'[u] = place[u]
<1> QED BY DEF GateTypeOK, Acquire, Resume, Cancel, Withdraw, Release, Leave

-----------------------------------------------------------------------------
(* First come, first served.                                               *)

\* As long as somebody waits, nothing but a release lets anybody in.
LEMMA NoneServedWhenFull ==
    ASSUME GInv, NEW k \in Kinds, waiters[k] # <<>>, NEW q, Dispatch(k, q, active)
    PROVE  active' = active
<1>1. Limit[k] <= Cardinality(Holders(k, active))
  <2>1. Cardinality(Holders(k, active)) = Limit[k] /\ Limit[k] \in Nat
    BY LimitsArePositive DEF GInv, NoIdleCapacity
  <2> QED BY <2>1
<1>2. Grants(q, k, active) = 0
  BY <1>1 DEF Grants
<1>3. {q[i] : i \in 1 .. Grants(q, k, active)} = {}
  BY <1>2
<1> QED BY <1>3 DEF Dispatch

\* A dispatch that takes place for c lets a waiter of k in only together with those
\* that stand before it.
LEMMA DispatchServesOldest ==
    ASSUME GInv, NEW c \in Kinds, NEW v \in Seq(Tasks), NEW on \in SUBSET active,
           \A u \in Range(v) : KindOf[u] = c,
           closing => v = <<>>,
           Dispatch(c, v, on),
           NEW k \in Kinds, c = k => v = waiters[k] \/ on = active,
           NEW i \in DOMAIN waiters[k], NEW j \in DOMAIN waiters[k],
           i < j, waiters[k][j] \in active'
    PROVE  waiters[k][i] \in active'
<1> DEFINE n == Grants(v, c, on)
           q == waiters[k]
<1>1. q \in Seq(Tasks) /\ IsInjective(q) /\ q # <<>>
  BY DEF GInv, GateTypeOK, QueuedOnce
<1>2. q[j] \in Range(q) /\ q[j] \notin active /\ KindOf[q[j]] = k
  <2>1. q[j] \in Range(q)
    BY DEF Range
  <2> QED BY <2>1 DEF GInv, QueuedIsWaiting, QueuesAreOfKind
<1>3. PICK m \in 1 .. n : q[j] = v[m]
  BY <1>2 DEF Dispatch
<1>4. n \in 0 .. Len(v)
  <2>1. Cardinality(Holders(c, on)) <= Limit[c] /\ on \in SUBSET Tasks
    BY FewerHold DEF GInv, GateTypeOK
  <2> QED BY <2>1, GrantsFacts
<1>5. active' = on \union {v[x] : x \in 1 .. n}
  BY DEF Dispatch
<1> HIDE DEF n
<1>6. m \in DOMAIN v /\ v[m] \in Range(v)
  <2>1. m \in 1 .. Len(v)
    BY <1>4
  <2> QED BY <2>1 DEF Range
<1>7. c = k
  BY <1>2, <1>3, <1>6
<1>8. CASE on = active
  <2>1. active' = active
    BY <1>1, <1>7, <1>8, NoneServedWhenFull
  <2> QED BY <2>1, <1>2
<1>9. CASE v = q
  <2>1. j = m
    BY <1>1, <1>3, <1>6, <1>9 DEF IsInjective
  <2>2. i \in 1 .. n
    <3>1. i \in Nat /\ 1 <= i /\ i < m
      BY <2>1, <1>1
    <3>2. m \in Int /\ m <= n /\ n \in Int
      BY <1>4
    <3> QED BY <3>1, <3>2
  <2> QED BY <2>2, <1>5, <1>9
<1> QED BY <1>7, <1>8, <1>9

\* "FIFO" (capacity.py:50): whatever is cancelled, withdrawn or refused meanwhile, of two
\* waiters of a kind the later one is never let in before the earlier one.
THEOREM FirstComeFirstServed == Spec => OldestFirst
<1>1. ASSUME GInv, [Next]_gateVars, NEW k \in Kinds,
             NEW i \in DOMAIN waiters[k], NEW j \in DOMAIN waiters[k],
             i < j, waiters[k][j] \in active'
      PROVE  waiters[k][i] \in active'
  <2>1. waiters[k][j] \notin active
    BY <1>1 DEF GInv, QueuedIsWaiting, Range
  <2>2. PICK t \in Tasks : Acquire(t) \/ Withdraw(t) \/ Release(t)
    BY <1>1, <2>1 DEF Next, gateVars, Resume, Cancel, BeginClose
  <2> DEFINE c == KindOf[t]
             q == waiters[c]
  <2>3. /\ c \in Kinds /\ q \in Seq(Tasks) /\ IsInjective(q) /\ (closing => q = <<>>)
        /\ \A u \in Range(q) : KindOf[u] = c
    BY <1>1, LimitsArePositive
    DEF GInv, GateTypeOK, QueuedOnce, QueuesAreOfKind, NoIdleCapacity
  <2>4. CASE Acquire(t)
    <3>1. Dispatch(c, Append(q, t), active) /\ ~closing
      BY <2>4 DEF Acquire
    <3>2. t \notin Range(q)
      BY <1>1, <2>3, <2>4 DEF Acquire, GInv, QueuedIsWaiting
    <3> HIDE DEF q
    <3>3. Append(q, t) \in Seq(Tasks) /\ Range(Append(q, t)) = Range(q) \union {t}
      BY <2>3, <3>2, AppendQueue
    <3>4. \A u \in Range(Append(q, t)) : KindOf[u] = c
      BY <3>3, <2>3
    <3> HIDE DEF c
    <3> QED BY <1>1, <2>3, <3>1, <3>3, <3>4, DispatchServesOldest
  <2>5. CASE Withdraw(t) /\ t \notin active
    <3>1. Dispatch(c, Without(q, t), active)
      BY <2>5 DEF Withdraw
    <3>2. closing => Without(q, t) = <<>>
      BY <2>3 DEF Without
    <3> HIDE DEF q
    <3>3. Without(q, t) \in Seq(Tasks) /\ Range(Without(q, t)) = Range(q) \ {t}
      BY <2>3, WithoutQueue
    <3>4. \A u \in Range(Without(q, t)) : KindOf[u] = c
      BY <3>3, <2>3
    <3> HIDE DEF c
    <3> QED BY <1>1, <2>3, <3>1, <3>2, <3>3, <3>4, DispatchServesOldest
  <2>6. CASE Release(t) \/ (Withdraw(t) /\ t \in active)
    <3>1. Dispatch(c, q, active \ {t})
      BY <2>6 DEF Release, Withdraw
    <3>2. c = k => q = waiters[k]
      OBVIOUS
    <3> HIDE DEF q, c
    <3>3. active \ {t} \in SUBSET active
      OBVIOUS
    <3> QED BY <1>1, <2>3, <3>1, <3>2, <3>3, DispatchServesOldest
  <2> QED BY <2>2, <2>4, <2>5, <2>6
<1>2. GInv /\ [Next]_gateVars =>
        [\A k \in Kinds : \A i, j \in DOMAIN waiters[k] :
            i < j /\ waiters[k][j] \in active' => waiters[k][i] \in active']_gateVars
  BY <1>1
<1> QED BY <1>2, Invariant, PTL DEF Spec, OldestFirst
=============================================================================
