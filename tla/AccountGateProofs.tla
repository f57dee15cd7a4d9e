------------------------- MODULE AccountGateProofs -------------------------
(***************************************************************************)
(* Theorems about AccountGate, for every set of tasks and of accounts.     *)
(***************************************************************************)
EXTENDS AccountGate, DequeProofs

-----------------------------------------------------------------------------
(* Dispatch.                                                               *)

\* _dispatch_locked on an entry that nobody holds promotes its oldest request and
\* leaves the others in their order; otherwise it changes nothing.
LEMMA DispatchEntry ==
    ASSUME NEW e \in Entry, IsInjective(e.queue)
    PROVE  LET d == Dispatch(e) IN
           /\ d \in Entry /\ IsInjective(d.queue) /\ d.deleting = e.deleting
           /\ e.active # None \/ e.queue = <<>> => d = e
           /\ e.active = None /\ e.queue # <<>> =>
                /\ d.active = e.queue[1]
                /\ d.active \in Tasks /\ d.active \in Range(e.queue)
                /\ Range(d.queue) = Range(e.queue) \ {d.active}
                /\ d.queue # <<>> => Len(e.queue) > 1
                /\ \A i \in 1 .. (Len(d.queue) - 1) :
                      \E j \in 1 .. (Len(e.queue) - 1) : d.queue[i] = e.queue[j]
<1> DEFINE d == Dispatch(e)
           q == e.queue
<1>1. q \in Seq(Tasks) /\ e.active \in Tasks \union {None} /\ e.deleting \in BOOLEAN
  BY DEF Entry
<1>2. CASE e.active # None \/ q = <<>>
  BY <1>2 DEF Dispatch
<1>3. CASE e.active = None /\ q # <<>>
  <2>1. /\ d = [queue |-> Tail(q), active |-> Head(q), deleting |-> e.deleting]
    BY <1>3 DEF Dispatch, Entry
  <2>2. d.queue = Tail(q) /\ d.active = Head(q) /\ d.deleting = e.deleting
    BY <2>1
  <2>3. /\ Head(q) \in Tasks
        /\ Tail(q) \in Seq(Tasks)
        /\ Len(Tail(q)) = Len(q) - 1
        /\ \A i \in 1 .. Len(Tail(q)) : Tail(q)[i] = q[i + 1]
    BY <1>1, <1>3, HeadTailProperties
  <2>4. /\ Len(q) \in Nat /\ Len(q) >= 1
        /\ DOMAIN q = 1 .. Len(q) /\ Head(q) = q[1]
    BY <1>1, <1>3
  <2> DEFINE w == Tail(q)
  <2>5. DOMAIN w = 1 .. (Len(q) - 1)
    BY <2>3
  <2>6. d \in Entry
    BY <2>1, <2>3, <1>1 DEF Entry
  <2> HIDE DEF w, d, q
  <2>7. \A i \in 1 .. (Len(q) - 1) : w[i] = q[i + 1]
    BY <2>3, <2>4 DEF w
  <2>8. IsInjective(q)
    BY DEF q
  <2>9. IsInjective(w)
    BY <2>4, <2>5, <2>7, <2>8 DEF IsInjective
  <2>10. Range(w) = Range(q) \ {q[1]}
    <3>1. Range(w) \subseteq Range(q) \ {q[1]}
      BY <2>4, <2>5, <2>7, <2>8 DEF IsInjective, Range
    <3>2. ASSUME NEW u \in Range(q) \ {q[1]}
          PROVE  u \in Range(w)
      <4>1. PICK j \in 1 .. Len(q) : u = q[j] /\ j # 1
        BY <2>4 DEF Range
      <4>2. j - 1 \in 1 .. (Len(q) - 1) /\ w[j - 1] = u
        BY <4>1, <2>4, <2>7
      <4> QED BY <4>2, <2>5 DEF Range
    <3> QED BY <3>1, <3>2
  <2>11. \A i \in 1 .. (Len(w) - 1) : \E j \in 1 .. (Len(q) - 1) : w[i] = q[j]
    <3> TAKE i \in 1 .. (Len(w) - 1)
    <3>1. i \in 1 .. (Len(q) - 1) /\ i + 1 \in 1 .. (Len(q) - 1)
      BY <2>3, <2>4 DEF w
    <3> QED BY <3>1, <2>7
  <2>12. w # <<>> => Len(q) > 1
    <3>1. w \in Seq(Tasks) /\ Len(w) = Len(q) - 1
      BY <2>3 DEF w
    <3> QED BY <3>1, <2>4
  <2>13. q[1] \in Range(q)
    BY <2>4 DEF Range
  <2>14. d.queue = w /\ d.active = q[1] /\ d.deleting = e.deleting
    BY <2>2, <2>4 DEF w
  <2>15. d.active \in Tasks
    BY <2>3, <2>4, <2>14
  <2>16. /\ Range(d.queue) = Range(q) \ {d.active}
         /\ d.queue # <<>> => Len(q) > 1
         /\ \A i \in 1 .. (Len(d.queue) - 1) : \E j \in 1 .. (Len(q) - 1) : d.queue[i] = q[j]
    BY <2>10, <2>11, <2>12, <2>14
  <2> QED BY <1>3, <2>6, <2>9, <2>13, <2>14, <2>15, <2>16 DEF q, d
<1> QED BY <1>2, <1>3

-----------------------------------------------------------------------------
(* The inductive invariant: beside the checked properties it says which    *)
(* tasks stand in an entry, that no request is queued twice, and that a    *)
(* deletion is always the last of its line.                                *)

InFlight(t) == pc[t] # "idle"

IdleTasks == \A t \in Tasks :
    /\ ~InFlight(t) <=> request[t] = None
    /\ ~InFlight(t) => t \notin granted

ActiveIsGranted == \A a \in Accounts, t \in Tasks : entry[a].active = t =>
    /\ InFlight(t) /\ request[t].account = a
    /\ t \in granted

QueuedIsWaiting == \A a \in Accounts, t \in Tasks : t \in Range(entry[a].queue) =>
    /\ pc[t] \in {"waiting", "cancelled"} /\ request[t].account = a
    /\ t \notin granted

QueuedOnce == \A a \in Accounts : IsInjective(entry[a].queue)

InFlightIsInLine == \A t \in Tasks : InFlight(t) =>
    LET e == entry[request[t].account] IN
    /\ e.active = t \/ t \in Range(e.queue)
    /\ pc[t] = "body" => e.active = t

DeleteIsLast == \A a \in Accounts, t \in Tasks :
    request[t] = [account |-> a, kind |-> "delete"] =>
        /\ entry[a].active = t => entry[a].queue = <<>>
        /\ \A i \in 1 .. (Len(entry[a].queue) - 1) : entry[a].queue[i] # t

IInv == /\ TypeOK /\ IdleTasks /\ ActiveIsGranted /\ QueuedIsWaiting /\ QueuedOnce
        /\ InFlightIsInLine /\ DeleteIsLast
        /\ RetainedWhileActive /\ DeletingTellsTheTruth

\* At most one deletion of an account is in flight.
LEMMA OneDeletion ==
    ASSUME IInv, NEW a \in Accounts, NEW t \in Tasks, NEW u \in Tasks,
           request[t] = [account |-> a, kind |-> "delete"],
           request[u] = [account |-> a, kind |-> "delete"]
    PROVE  t = u
<1> DEFINE q == entry[a].queue
<1>1. InFlight(t) /\ InFlight(u)
  BY NoneIsNoValue DEF IInv, IdleTasks, Request, Kinds
<1>2. /\ entry[a].active = t \/ t \in Range(q)
      /\ entry[a].active = u \/ u \in Range(q)
  BY <1>1 DEF IInv, InFlightIsInLine
<1>3. /\ entry[a].active = t => q = <<>>
      /\ entry[a].active = u => q = <<>>
      /\ \A i \in 1 .. (Len(q) - 1) : q[i] # t /\ q[i] # u
  BY DEF IInv, DeleteIsLast
<1>4. q \in Seq(Tasks)
  BY DEF IInv, TypeOK, Entry
<1>5. Len(q) \in Nat /\ DOMAIN q = 1 .. Len(q)
  BY <1>4
<1>6. CASE q = <<>>
  BY <1>2, <1>6 DEF Range
<1>7. CASE q # <<>>
  <2>1. t \in Range(q) /\ u \in Range(q)
    BY <1>2, <1>3, <1>7
  <2>2. PICK i \in 1 .. Len(q), j \in 1 .. Len(q) : q[i] = t /\ q[j] = u
    BY <2>1, <1>5 DEF Range
  <2>3. i = Len(q) /\ j = Len(q)
    BY <2>2, <1>3, <1>5
  <2> QED BY <2>2, <2>3
<1> QED BY <1>6, <1>7

\* What is left of the entry of t's account once t is out of the line.
LeftBy(t, a, e) ==
    /\ e \in Entry /\ IsInjective(e.queue)
    /\ e.active # t /\ e.active \in {None, entry[a].active}
    /\ Range(e.queue) = Range(entry[a].queue) \ {t}
    /\ \A i \in 1 .. (Len(e.queue) - 1) :
          \E j \in 1 .. (Len(entry[a].queue) - 1) : e.queue[i] = entry[a].queue[j]
    /\ Len(e.queue) <= Len(entry[a].queue)
    /\ entry[a].active # t => e.active = entry[a].active
    /\ e.deleting <=> \E u \in Tasks \ {t} : request[u] = [account |-> a, kind |-> "delete"]
\* The locked block that ends a call, dispatch and cleanup included.
LEMMA SettleStep ==
    ASSUME IInv, NEW t \in Tasks, NEW a \in Accounts, NEW e,
           InFlight(t), request[t].account = a,
           LeftBy(t, a, e), Settle(a, e, t), Forget(t)
    PROVE  IInv'
<1> DEFINE d == Dispatch(e)
           old == entry[a]
<1>1. /\ entry' = [entry EXCEPT ![a] = d]
      /\ granted' = (granted \union ({d.active} \ {None})) \ {t}
      /\ retained' = IF IsIdle(d) THEN retained \ {a} ELSE retained
      /\ request' = [request EXCEPT ![t] = None]
      /\ pc' = [pc EXCEPT ![t] = "idle"]
  BY DEF Settle, Forget
<1>2. /\ retained \subseteq Accounts /\ entry \in [Accounts -> Entry]
      /\ granted \subseteq Tasks /\ request \in [Tasks -> Request \union {None}]
      /\ pc \in [Tasks -> Places] /\ old \in Entry
      /\ old.queue \in Seq(Tasks)
  BY DEF IInv, TypeOK, Entry
<1>3. /\ e \in Entry /\ IsInjective(e.queue)
      /\ e.active # t /\ e.active \in {None, old.active}
      /\ e.active \in Tasks \union {None}
      /\ Range(e.queue) = Range(old.queue) \ {t}
      /\ old.active # t => e.active = old.active
      /\ e.queue \in Seq(Tasks)
  BY DEF LeftBy, Entry
<1>4. /\ d \in Entry /\ IsInjective(d.queue) /\ d.deleting = e.deleting
      /\ e.active # None \/ e.queue = <<>> => d = e
      /\ e.active = None /\ e.queue # <<>> =>
            /\ d.active = e.queue[1]
            /\ d.active \in Tasks /\ d.active \in Range(e.queue)
            /\ Range(d.queue) = Range(e.queue) \ {d.active}
            /\ d.queue # <<>> => Len(e.queue) > 1
            /\ \A i \in 1 .. (Len(d.queue) - 1) :
                  \E j \in 1 .. (Len(e.queue) - 1) : d.queue[i] = e.queue[j]
  BY <1>3, DispatchEntry
<1>5. \A i \in 1 .. (Len(e.queue) - 1) :
          \E j \in 1 .. (Len(old.queue) - 1) : e.queue[i] = old.queue[j]
  BY DEF LeftBy
<1>6. Len(e.queue) \in Nat /\ Len(old.queue) \in Nat /\ Len(e.queue) <= Len(old.queue)
  BY <1>2, <1>3 DEF LeftBy
<1>7. \A b \in Accounts : entry'[b] = IF b = a THEN d ELSE entry[b]
  BY <1>1, <1>2
<1>8. \A u \in Tasks : /\ request'[u] = IF u = t THEN None ELSE request[u]
                       /\ pc'[u] = IF u = t THEN "idle" ELSE pc[u]
  BY <1>1, <1>2
<1> HIDE DEF d, old
\* Consequences: what the new entry holds.
<1>9. d.active # t /\ t \notin Range(d.queue) /\ Range(d.queue) \subseteq Range(old.queue)
  BY <1>3, <1>4
<1>10. \A u \in Tasks \ {t} :
          (d.active = u \/ u \in Range(d.queue)) <=> (old.active = u \/ u \in Range(old.queue))
  BY <1>3, <1>4, NoneIsNoValue
<1>11. \A u \in Tasks \ {t} : old.active = u => d.active = u
  BY <1>3, <1>4, NoneIsNoValue
<1>12. d.active = None => d.queue = <<>>
  BY <1>3, <1>4, NoneIsNoValue
<1>13. \A u \in Tasks : u \in Range(d.queue) => d.active # u
  <2> SUFFICES ASSUME NEW u \in Tasks, u \in Range(d.queue), d.active = u PROVE FALSE
    OBVIOUS
  <2>1. d = e
    BY <1>3, <1>4
  <2>2. u \in Range(old.queue) /\ old.active = u
    BY <2>1, <1>3, NoneIsNoValue
  <2> QED BY <2>2 DEF IInv, ActiveIsGranted, QueuedIsWaiting, old
<1>14. d.active \in Tasks \union {None} /\ d.queue \in Seq(Tasks)
  BY <1>4 DEF Entry
<1>15. \A i \in 1 .. (Len(d.queue) - 1) :
          \E j \in 1 .. (Len(old.queue) - 1) : d.queue[i] = old.queue[j]
  <2> SUFFICES ASSUME NEW i \in 1 .. (Len(d.queue) - 1)
               PROVE  \E j \in 1 .. (Len(old.queue) - 1) : d.queue[i] = old.queue[j]
    OBVIOUS
  <2>1. \E j \in 1 .. (Len(e.queue) - 1) : d.queue[i] = e.queue[j]
    BY <1>3, <1>4
  <2> QED BY <2>1, <1>5
<1>16. \A u \in Tasks : d.active = u /\ d.queue # <<>> =>
          \/ old.active = u /\ old.queue # <<>>
          \/ \E j \in 1 .. (Len(old.queue) - 1) : old.queue[j] = u
  <2> SUFFICES ASSUME NEW u \in Tasks, d.active = u, d.queue # <<>>
               PROVE  \/ old.active = u /\ old.queue # <<>>
                      \/ \E j \in 1 .. (Len(old.queue) - 1) : old.queue[j] = u
    OBVIOUS
  <2>1. CASE e.active = None /\ e.queue # <<>>
    <3>1. u = e.queue[1] /\ 1 \in 1 .. (Len(e.queue) - 1)
      BY <2>1, <1>4, <1>6
    <3> QED BY <3>1, <1>5
  <2>2. CASE ~(e.active = None /\ e.queue # <<>>)
    <3>1. d = e
      BY <2>2, <1>4
    <3>2. old.active = u /\ e.queue # <<>>
      BY <3>1, <1>3, NoneIsNoValue
    <3>3. Len(e.queue) # 0
      BY <3>2, <1>3
    <3>4. old.queue # <<>>
      BY <3>3, <1>2, <1>6
    <3> QED BY <3>2, <3>4
  <2> QED BY <2>1, <2>2
\* The conjuncts of the invariant.
<1>20. TypeOK'
  BY <1>1, <1>2, <1>4, <1>14 DEF TypeOK, Places
<1>21. IdleTasks'
  <2> SUFFICES ASSUME NEW u \in Tasks
               PROVE  /\ ~InFlight(u)' <=> request'[u] = None
                      /\ ~InFlight(u)' => u \notin granted'
    BY DEF IdleTasks
  <2>1. CASE u = t
    BY <2>1, <1>1, <1>8 DEF InFlight
  <2>2. CASE u # t
    <3>1. InFlight(u)' = InFlight(u) /\ request'[u] = request[u]
      BY <2>2, <1>8 DEF InFlight
    <3>2. ~InFlight(u) => d.active # u
      BY <2>2, <1>10 DEF IInv, ActiveIsGranted, QueuedIsWaiting, InFlight, old
    <3> QED BY <2>2, <3>1, <3>2, <1>1 DEF IInv, IdleTasks
  <2> QED BY <2>1, <2>2
<1>22. ActiveIsGranted'
  <2> SUFFICES ASSUME NEW b \in Accounts, NEW u \in Tasks, entry'[b].active = u
               PROVE  InFlight(u)' /\ request'[u].account = b /\ u \in granted'
    BY DEF ActiveIsGranted
  <2>1. u # t
    BY <1>7, <1>9 DEF IInv, ActiveIsGranted, old
  <2>2. InFlight(u)' = InFlight(u) /\ request'[u] = request[u]
    BY <2>1, <1>8 DEF InFlight
  <2>3. CASE b = a
    <3>1. d.active = u
      BY <2>3, <1>7
    <3>2. old.active = u \/ u \in Range(old.queue)
      BY <3>1, <2>1, <1>10
    <3> QED BY <2>1, <2>2, <2>3, <3>1, <3>2, <1>1, NoneIsNoValue
            DEF IInv, ActiveIsGranted, QueuedIsWaiting, InFlight, old
  <2>4. CASE b # a
    BY <2>1, <2>2, <2>4, <1>1, <1>7 DEF IInv, ActiveIsGranted
  <2> QED BY <2>3, <2>4
<1>23. QueuedIsWaiting'
  <2> SUFFICES ASSUME NEW b \in Accounts, NEW u \in Tasks, u \in Range(entry'[b].queue)
               PROVE  /\ pc'[u] \in {"waiting", "cancelled"} /\ request'[u].account = b
                      /\ u \notin granted'
    BY DEF QueuedIsWaiting
  <2>1. u \in Range(entry[b].queue)
    BY <1>7, <1>9 DEF old
  <2>2. pc[u] \in {"waiting", "cancelled"} /\ request[u].account = b /\ u \notin granted
    BY <2>1 DEF IInv, QueuedIsWaiting
  <2>3. u # t
    BY <2>2, <1>7, <1>9
  <2>4. d.active # u
    <3>1. CASE b = a
      BY <3>1, <1>7, <1>13
    <3>2. CASE b # a
      <4> SUFFICES ASSUME d.active = u PROVE FALSE
        OBVIOUS
      <4>1. old.active = u \/ u \in Range(old.queue)
        BY <2>3, <1>10
      <4> QED BY <4>1, <3>2, <2>2 DEF IInv, ActiveIsGranted, QueuedIsWaiting, old
    <3> QED BY <3>1, <3>2
  <2> QED BY <2>2, <2>3, <2>4, <1>1, <1>8
<1>24. QueuedOnce'
  BY <1>4, <1>7 DEF IInv, QueuedOnce
<1>25. InFlightIsInLine'
  <2> SUFFICES ASSUME NEW u \in Tasks, InFlight(u)'
               PROVE  LET f == entry'[request'[u].account] IN
                      /\ f.active = u \/ u \in Range(f.queue)
                      /\ pc'[u] = "body" => f.active = u
    BY DEF InFlightIsInLine
  <2>1. u # t
    BY <1>8 DEF InFlight
  <2>2. InFlight(u) /\ request'[u] = request[u] /\ pc'[u] = pc[u]
    BY <2>1, <1>8 DEF InFlight
  <2>3. request[u] \in Request
    BY <2>2, <1>2 DEF IInv, IdleTasks
  <2>4. request[u].account \in Accounts
    BY <2>3 DEF Request
  <2>5. LET f == entry[request[u].account] IN
        /\ f.active = u \/ u \in Range(f.queue)
        /\ pc[u] = "body" => f.active = u
    BY <2>2 DEF IInv, InFlightIsInLine
  <2> QED BY <2>1, <2>2, <2>4, <2>5, <1>7, <1>10, <1>11 DEF old
<1>26. DeleteIsLast'
  <2> SUFFICES ASSUME NEW b \in Accounts, NEW u \in Tasks,
                      request'[u] = [account |-> b, kind |-> "delete"]
               PROVE  /\ entry'[b].active = u => entry'[b].queue = <<>>
                      /\ \A i \in 1 .. (Len(entry'[b].queue) - 1) : entry'[b].queue[i] # u
    BY DEF DeleteIsLast
  <2>1. u # t
    <3>1. [account |-> b, kind |-> "delete"] \in Request
      BY DEF Request, Kinds
    <3> QED BY <3>1, <1>8, NoneIsNoValue
  <2>2. request[u] = [account |-> b, kind |-> "delete"]
    BY <2>1, <1>8
  <2>3. /\ entry[b].active = u => entry[b].queue = <<>>
        /\ \A i \in 1 .. (Len(entry[b].queue) - 1) : entry[b].queue[i] # u
    BY <2>2 DEF IInv, DeleteIsLast
  <2>4. CASE b # a
    BY <2>3, <2>4, <1>7
  <2>5. CASE b = a
    <3>1. d.active = u => d.queue = <<>>
      BY <2>3, <2>5, <1>16 DEF old
    <3>2. \A i \in 1 .. (Len(d.queue) - 1) : d.queue[i] # u
      BY <2>3, <2>5, <1>15 DEF old
    <3> QED BY <3>1, <3>2, <2>5, <1>7
  <2> QED BY <2>4, <2>5
<1>27. d.deleting <=> \E u \in Tasks \ {t} : request[u] = [account |-> a, kind |-> "delete"]
  BY <1>4 DEF LeftBy
<1>28. DeletingTellsTheTruth'
  <2> SUFFICES ASSUME NEW b \in Accounts
               PROVE  entry'[b].deleting <=>
                        \E u \in Tasks : request'[u] = [account |-> b, kind |-> "delete"]
    BY DEF DeletingTellsTheTruth
  <2>1. [account |-> b, kind |-> "delete"] # None
    BY NoneIsNoValue DEF Request, Kinds
  <2>2. (\E u \in Tasks : request'[u] = [account |-> b, kind |-> "delete"])
        <=> \E u \in Tasks \ {t} : request[u] = [account |-> b, kind |-> "delete"]
    BY <2>1, <1>8
  <2>3. CASE b = a
    BY <2>2, <2>3, <1>7, <1>27
  <2>4. CASE b # a
    <3>1. request[t] # [account |-> b, kind |-> "delete"]
      BY <2>4
    <3>2. entry[b].deleting <=>
             \E u \in Tasks : request[u] = [account |-> b, kind |-> "delete"]
      BY DEF IInv, DeletingTellsTheTruth
    <3> QED BY <2>2, <2>4, <3>1, <3>2, <1>7
  <2> QED BY <2>3, <2>4
<1>29. a \in retained
  <2>1. old.active = t \/ t \in Range(old.queue)
    BY DEF IInv, InFlightIsInLine, old
  <2>2. CASE old.active = t
    BY <2>2, NoneIsNoValue DEF IInv, RetainedWhileActive, old
  <2>3. CASE t \in Range(old.queue)
    BY <2>3 DEF IInv, RetainedWhileActive, EmptyEntry, Range, old
  <2> QED BY <2>1, <2>2, <2>3
<1>30. RetainedWhileActive'
  <2>1. CASE d.active # None
    <3>1. retained' = retained
      BY <2>1, <1>1 DEF IsIdle
    <3> QED BY <2>1, <3>1, <1>7, <1>29 DEF IInv, RetainedWhileActive
  <2>2. CASE d.active = None
    <3>1. d.queue = <<>>
      BY <2>2, <1>12
    <3>2. ~d.deleting
      <4> SUFFICES ASSUME NEW u \in Tasks \ {t},
                          request[u] = [account |-> a, kind |-> "delete"]
                   PROVE  FALSE
        BY <1>27, <1>4 DEF Entry
      <4>1. request[u] # None /\ request[u].account = a
        BY NoneIsNoValue DEF Request, Kinds
      <4>2. old.active = u \/ u \in Range(old.queue)
        BY <4>1 DEF IInv, IdleTasks, InFlightIsInLine, old
      <4>3. d.active = u \/ u \in Range(d.queue)
        BY <4>2, <1>10
      <4> QED BY <4>3, <2>2, <3>1, NoneIsNoValue DEF Range
    <3>3. d = EmptyEntry
      BY <2>2, <3>1, <3>2, <1>4 DEF Entry, EmptyEntry
    <3>4. retained' = retained \ {a}
      BY <2>2, <3>1, <3>2, <1>1 DEF IsIdle
    <3> QED BY <3>3, <3>4, <1>7, <2>2 DEF IInv, RetainedWhileActive
  <2> QED BY <2>1, <2>2
<1> QED BY <1>20, <1>21, <1>22, <1>23, <1>24, <1>25, <1>26, <1>28, <1>30 DEF IInv
-----------------------------------------------------------------------------
(* One lemma per action.                                                   *)

LEMMA WithdrawStep ==
    ASSUME IInv, NEW t \in Tasks, Withdraw(t)
    PROVE  IInv'
<1> DEFINE a == request[t].account
           e == entry[a]
           e1 == WithdrawnEntry(t, e)
<1>1. InFlight(t) /\ pc[t] = "cancelled"
  BY DEF Withdraw, InFlight
<1>2. request[t] \in Request /\ a \in Accounts
  BY <1>1 DEF IInv, IdleTasks, TypeOK, Request
<1>3. e \in Entry /\ e.queue \in Seq(Tasks) /\ IsInjective(e.queue)
  BY <1>2 DEF IInv, TypeOK, QueuedOnce, Entry
<1>4. e.active = t \/ t \in Range(e.queue)
  BY <1>1 DEF IInv, InFlightIsInLine
<1>5. a \in retained
  <2>1. e.active # None
    BY <1>2, <1>4, NoneIsNoValue DEF IInv, RetainedWhileActive, EmptyEntry, Range
  <2> QED BY <1>2, <2>1 DEF IInv, RetainedWhileActive
<1>6. e.deleting <=> \E u \in Tasks : request[u] = [account |-> a, kind |-> "delete"]
  BY <1>2 DEF IInv, DeletingTellsTheTruth
<1>7. ASSUME NEW u \in Tasks, request[t] = [account |-> a, kind |-> "delete"],
             request[u] = [account |-> a, kind |-> "delete"]
      PROVE  u = t
  BY <1>2, <1>7, OneDeletion
<1>8. e1.deleting <=> \E u \in Tasks \ {t} : request[u] = [account |-> a, kind |-> "delete"]
  <2>1. CASE request[t].kind = "delete"
    <3>1. request[t] = [account |-> a, kind |-> "delete"]
      BY <2>1, <1>2 DEF Request
    <3>2. e1.deleting = FALSE
      BY <2>1, <1>3 DEF WithdrawnEntry, Entry
    <3> QED BY <3>1, <3>2, <1>7
  <2>2. CASE request[t].kind # "delete"
    <3>1. e1.deleting = e.deleting
      BY <2>2, <1>3 DEF WithdrawnEntry, Entry
    <3>2. request[t] # [account |-> a, kind |-> "delete"]
      BY <2>2
    <3> QED BY <3>1, <3>2, <1>6
  <2> QED BY <2>1, <2>2
<1>9. CASE e.active = t
  <2>1. t \in granted /\ t \notin Range(e.queue)
    BY <1>2, <1>9 DEF IInv, ActiveIsGranted, QueuedIsWaiting
  <2>2. e1 \in Entry /\ e1.active = None /\ e1.queue = e.queue
    BY <2>1, <1>9, <1>3 DEF WithdrawnEntry, Entry
  <2>3. LeftBy(t, a, e1)
    BY <2>1, <2>2, <1>3, <1>8, <1>9, NoneIsNoValue DEF LeftBy
  <2> QED BY <2>3, <1>1, <1>2, <1>5, SettleStep DEF Withdraw
<1>10. CASE e.active # t
  <2> DEFINE q == e.queue
             w == Without(q, t)
  <2>0. q \in Seq(Tasks) /\ IsInjective(q)
    BY <1>3
  <2> HIDE DEF q
  <2>1. /\ w \in Seq(Tasks) /\ IsInjective(w) /\ Range(w) = Range(q) \ {t}
        /\ \A i \in 1 .. (Len(w) - 1) : \E j \in 1 .. (Len(q) - 1) : w[i] = q[j]
        /\ Len(w) <= Len(q)
    BY <2>0, WithoutQueue, SMTT(30)
  <2> HIDE DEF w
  <2>2. e1 \in Entry /\ e1.active = e.active /\ e1.queue = w
    BY <2>1, <1>10, <1>3 DEF WithdrawnEntry, Entry, w, q
  <2>3. LeftBy(t, a, e1)
    BY <2>1, <2>2, <1>8, <1>10 DEF LeftBy, q
  <2> QED BY <2>3, <1>1, <1>2, <1>5, SettleStep DEF Withdraw
<1> QED BY <1>9, <1>10

LEMMA ReleaseStep ==
    ASSUME IInv, NEW t \in Tasks, NEW s \in BOOLEAN, Release(t, s)
    PROVE  IInv'
<1> DEFINE a == request[t].account
           e == entry[a]
           e1 == ReleasedEntry(t, e, s)
<1>1. InFlight(t) /\ pc[t] = "body"
  BY DEF Release, InFlight
<1>2. request[t] \in Request /\ a \in Accounts
  BY <1>1 DEF IInv, IdleTasks, TypeOK, Request
<1>3. e \in Entry /\ e.queue \in Seq(Tasks) /\ IsInjective(e.queue)
  BY <1>2 DEF IInv, TypeOK, QueuedOnce, Entry
<1>4. e.active = t /\ t \in granted /\ t \notin Range(e.queue)
  BY <1>1, <1>2 DEF IInv, InFlightIsInLine, ActiveIsGranted, QueuedIsWaiting
<1>5. a \in retained
  BY <1>2, <1>4, NoneIsNoValue DEF IInv, RetainedWhileActive
<1>6. e.deleting <=> \E u \in Tasks : request[u] = [account |-> a, kind |-> "delete"]
  BY <1>2 DEF IInv, DeletingTellsTheTruth
<1>7. CASE request[t].kind = "delete"
  <2>1. request[t] = [account |-> a, kind |-> "delete"]
    BY <1>2, <1>7 DEF Request
  <2>2. e.queue = <<>>
    BY <2>1, <1>2, <1>4 DEF IInv, DeleteIsLast
  <2>3. e1 \in Entry /\ e1.active = None /\ e1.queue = e.queue /\ e1.deleting = FALSE
    BY <2>2, <1>3, <1>7 DEF ReleasedEntry, Entry
  <2>4. ~ \E u \in Tasks \ {t} : request[u] = [account |-> a, kind |-> "delete"]
    BY <2>1, <1>2, OneDeletion
  <2>5. LeftBy(t, a, e1)
    BY <2>3, <2>4, <1>3, <1>4, NoneIsNoValue DEF LeftBy
  <2> QED BY <2>5, <1>1, <1>2, <1>4, <1>5, SettleStep DEF Release
<1>8. CASE request[t].kind # "delete"
  <2>1. e1 \in Entry /\ e1.active = None /\ e1.queue = e.queue /\ e1.deleting = e.deleting
    BY <1>3, <1>8 DEF ReleasedEntry, Entry
  <2>2. e1.deleting <=>
            \E u \in Tasks \ {t} : request[u] = [account |-> a, kind |-> "delete"]
    BY <2>1, <1>6, <1>8, SMTT(30)
  <2>3. LeftBy(t, a, e1)
    BY <2>1, <2>2, <1>3, <1>4, NoneIsNoValue DEF LeftBy
  <2> QED BY <2>3, <1>1, <1>2, <1>4, <1>5, SettleStep DEF Release
<1> QED BY <1>7, <1>8

LEMMA ResumeStep ==
    ASSUME IInv, NEW t \in Tasks, Resume(t) \/ Cancel(t)
    PROVE  IInv'
<1>1. /\ pc[t] = "waiting" /\ pc' = [pc EXCEPT ![t] = pc'[t]]
      /\ pc'[t] \in {"body", "cancelled"} /\ (pc'[t] = "body" => t \in granted)
      /\ UNCHANGED <<retained, entry, granted, request>>
  BY DEF Resume, Cancel, IInv, TypeOK
<1>2. TypeOK'
  BY <1>1 DEF IInv, TypeOK, Places
<1>3. \A u \in Tasks : InFlight(u)' = InFlight(u) /\ (u # t => pc'[u] = pc[u])
  BY <1>1 DEF IInv, TypeOK, InFlight
<1>4. IdleTasks' /\ ActiveIsGranted' /\ QueuedOnce'
  BY <1>1, <1>3 DEF IInv, IdleTasks, ActiveIsGranted, QueuedOnce
<1>5. QueuedIsWaiting'
  BY <1>1, <1>3 DEF IInv, QueuedIsWaiting
<1>6. InFlightIsInLine'
  <2>1. request[t].account \in Accounts
    BY <1>1 DEF IInv, IdleTasks, InFlight, TypeOK, Request
  <2>2. t \in granted => entry[request[t].account].active = t
    BY <1>1, <2>1 DEF IInv, InFlightIsInLine, QueuedIsWaiting, InFlight
  <2> QED BY <2>2, <1>1, <1>3 DEF IInv, InFlightIsInLine
<1>7. DeleteIsLast' /\ RetainedWhileActive' /\ DeletingTellsTheTruth'
  BY <1>1 DEF IInv, DeleteIsLast, RetainedWhileActive, DeletingTellsTheTruth
<1> QED BY <1>2, <1>4, <1>5, <1>6, <1>7 DEF IInv
\* A request that meets an idle account.
LEMMA AcquireNow ==
    ASSUME IInv, NEW t \in Tasks, NEW a \in Accounts, NEW k \in Kinds, NEW d \in Entry,
           pc[t] = "idle", entry[a] = EmptyEntry, d.active = t, d.queue = <<>>,
           d.deleting = (k = "delete"),
           retained' = retained \union {a},
           entry' = [entry EXCEPT ![a] = d],
           granted' = granted \union {t},
           request' = [request EXCEPT ![t] = [account |-> a, kind |-> k]],
           pc' = [pc EXCEPT ![t] = "body"]
    PROVE  IInv'
<1> DEFINE r == [account |-> a, kind |-> k]
<1>1. r \in Request /\ r # None
  BY NoneIsNoValue DEF Request
<1>2. /\ \A b \in Accounts : entry'[b] = IF b = a THEN d ELSE entry[b]
      /\ \A u \in Tasks : /\ request'[u] = IF u = t THEN r ELSE request[u]
                          /\ pc'[u] = IF u = t THEN "body" ELSE pc[u]
                          /\ InFlight(u)' <=> (u = t \/ InFlight(u))
  BY DEF IInv, TypeOK, InFlight
\* Nobody stood in the line, t least of all.
<1>3. \A u \in Tasks : InFlight(u) => u # t /\ request[u].account # a
  BY NoneIsNoValue DEF IInv, InFlightIsInLine, InFlight, EmptyEntry, Range
<1>4. TypeOK'
  BY <1>1 DEF IInv, TypeOK, Places
<1>5. IdleTasks'
  BY <1>1, <1>2 DEF IInv, IdleTasks
<1>6. ActiveIsGranted'
  BY <1>2, <1>3 DEF IInv, ActiveIsGranted
<1>7. QueuedIsWaiting'
  <2> SUFFICES ASSUME NEW b \in Accounts, NEW u \in Tasks, u \in Range(entry'[b].queue)
               PROVE  /\ pc'[u] \in {"waiting", "cancelled"} /\ request'[u].account = b
                      /\ u \notin granted'
    BY DEF QueuedIsWaiting
  <2>1. b # a
    BY <1>2 DEF Range
  <2>2. u \in Range(entry[b].queue)
    BY <2>1, <1>2
  <2>3. pc[u] \in {"waiting", "cancelled"} /\ request[u].account = b /\ u \notin granted
    BY <2>2 DEF IInv, QueuedIsWaiting
  <2> QED BY <2>3, <1>2
<1>8. QueuedOnce'
  BY <1>2 DEF IInv, QueuedOnce, IsInjective
<1>9. InFlightIsInLine'
  <2> SUFFICES ASSUME NEW u \in Tasks, InFlight(u)'
               PROVE  LET f == entry'[request'[u].account] IN
                      /\ f.active = u \/ u \in Range(f.queue)
                      /\ pc'[u] = "body" => f.active = u
    BY DEF InFlightIsInLine
  <2>1. CASE u = t
    BY <2>1, <1>2
  <2>2. CASE u # t
    <3>1. InFlight(u) /\ request[u].account # a /\ request[u].account \in Accounts
      BY <2>2, <1>2, <1>3 DEF IInv, IdleTasks, TypeOK, Request
    <3> QED BY <2>2, <3>1, <1>2 DEF IInv, InFlightIsInLine
  <2> QED BY <2>1, <2>2
<1>10. DeleteIsLast'
  BY <1>1, <1>2 DEF IInv, DeleteIsLast
<1>11. RetainedWhileActive'
  BY <1>2, NoneIsNoValue DEF IInv, RetainedWhileActive, TypeOK
<1>12. DeletingTellsTheTruth'
  <2> SUFFICES ASSUME NEW b \in Accounts
               PROVE  entry'[b].deleting <=>
                        \E u \in Tasks : request'[u] = [account |-> b, kind |-> "delete"]
    BY DEF DeletingTellsTheTruth
  <2>1. ~ \E u \in Tasks : request[u] = [account |-> a, kind |-> "delete"]
    BY DEF IInv, DeletingTellsTheTruth, EmptyEntry
  <2>2. request[t] = None
    BY DEF IInv, IdleTasks, InFlight
  <2>3. CASE b = a
    <3>1. entry'[a].deleting <=> k = "delete"
      BY <1>2
    <3>2. CASE k = "delete"
      <4>1. request'[t] = [account |-> a, kind |-> "delete"]
        BY <3>2, <1>2
      <4> QED BY <4>1, <3>1, <3>2, <2>3
    <3>3. CASE k # "delete"
      <4>1. r # [account |-> a, kind |-> "delete"]
        BY <3>3
      <4>2. \A u \in Tasks : request'[u] # [account |-> a, kind |-> "delete"]
        BY <4>1, <1>2, <2>1
      <4> QED BY <4>2, <3>1, <3>3, <2>3
    <3> QED BY <3>2, <3>3
  <2>4. CASE b # a
    <3>1. [account |-> b, kind |-> "delete"] # None
      BY NoneIsNoValue DEF Request, Kinds
    <3>2. entry[b].deleting <=>
             \E u \in Tasks : request[u] = [account |-> b, kind |-> "delete"]
      BY DEF IInv, DeletingTellsTheTruth
    <3> QED BY <2>2, <2>4, <3>1, <3>2, <1>2
  <2> QED BY <2>3, <2>4
<1> QED BY <1>4, <1>5, <1>6, <1>7, <1>8, <1>9, <1>10, <1>11, <1>12 DEF IInv

\* A request that has to wait: the account is active and no deletion stands in line.
LEMMA AcquireLater ==
    ASSUME IInv, NEW t \in Tasks, NEW a \in Accounts, NEW k \in Kinds, NEW d \in Entry,
           pc[t] = "idle", ~entry[a].deleting, entry[a].active # None,
           d.active = entry[a].active, d.queue # <<>>, IsInjective(d.queue),
           Range(d.queue) = Range(entry[a].queue) \union {t},
           \A i \in 1 .. (Len(d.queue) - 1) : d.queue[i] \in Range(entry[a].queue),
           d.deleting = (k = "delete"),
           retained' = retained \union {a},
           entry' = [entry EXCEPT ![a] = d],
           granted' = granted,
           request' = [request EXCEPT ![t] = [account |-> a, kind |-> k]],
           pc' = [pc EXCEPT ![t] = "waiting"]
    PROVE  IInv'
<1> DEFINE r == [account |-> a, kind |-> k]
<1>1. r \in Request /\ r # None
  BY NoneIsNoValue DEF Request
<1>2. /\ \A b \in Accounts : entry'[b] = IF b = a THEN d ELSE entry[b]
      /\ \A u \in Tasks : /\ request'[u] = IF u = t THEN r ELSE request[u]
                          /\ pc'[u] = IF u = t THEN "waiting" ELSE pc[u]
                          /\ InFlight(u)' <=> (u = t \/ InFlight(u))
  BY DEF IInv, TypeOK, InFlight
<1>3. /\ ~InFlight(t) /\ request[t] = None /\ t \notin granted
      /\ \A b \in Accounts : entry[b].active # t /\ t \notin Range(entry[b].queue)
  BY DEF IInv, IdleTasks, InFlight, ActiveIsGranted, QueuedIsWaiting
<1>4. TypeOK'
  BY <1>1 DEF IInv, TypeOK, Places
<1>5. IdleTasks'
  BY <1>1, <1>2 DEF IInv, IdleTasks
<1>6. ActiveIsGranted'
  BY <1>2, <1>3 DEF IInv, ActiveIsGranted
<1>7. QueuedIsWaiting'
  <2> SUFFICES ASSUME NEW b \in Accounts, NEW u \in Tasks, u \in Range(entry'[b].queue)
               PROVE  /\ pc'[u] \in {"waiting", "cancelled"} /\ request'[u].account = b
                      /\ u \notin granted'
    BY DEF QueuedIsWaiting
  <2>1. CASE u = t
    BY <2>1, <1>2, <1>3
  <2>2. CASE u # t
    <3>1. u \in Range(entry[b].queue)
      BY <2>2, <1>2
    <3>2. pc[u] \in {"waiting", "cancelled"} /\ request[u].account = b /\ u \notin granted
      BY <3>1 DEF IInv, QueuedIsWaiting
    <3> QED BY <2>2, <3>2, <1>2
  <2> QED BY <2>1, <2>2
<1>8. QueuedOnce'
  BY <1>2 DEF IInv, QueuedOnce
<1>9. InFlightIsInLine'
  <2> SUFFICES ASSUME NEW u \in Tasks, InFlight(u)'
               PROVE  LET f == entry'[request'[u].account] IN
                      /\ f.active = u \/ u \in Range(f.queue)
                      /\ pc'[u] = "body" => f.active = u
    BY DEF InFlightIsInLine
  <2>1. CASE u = t
    BY <2>1, <1>2
  <2>2. CASE u # t
    <3>1. InFlight(u) /\ request[u].account \in Accounts
      BY <2>2, <1>2 DEF IInv, IdleTasks, TypeOK, Request
    <3>2. LET f == entry[request[u].account] IN
          /\ f.active = u \/ u \in Range(f.queue)
          /\ pc[u] = "body" => f.active = u
      BY <3>1 DEF IInv, InFlightIsInLine
    <3> QED BY <2>2, <3>1, <3>2, <1>2
  <2> QED BY <2>1, <2>2
<1>10. \A u \in Tasks : request[u] # [account |-> a, kind |-> "delete"]
  BY DEF IInv, DeletingTellsTheTruth
<1>11. DeleteIsLast'
  <2> SUFFICES ASSUME NEW b \in Accounts, NEW u \in Tasks,
                      request'[u] = [account |-> b, kind |-> "delete"]
               PROVE  /\ entry'[b].active = u => entry'[b].queue = <<>>
                      /\ \A i \in 1 .. (Len(entry'[b].queue) - 1) : entry'[b].queue[i] # u
    BY DEF DeleteIsLast
  <2>1. CASE u = t
    BY <2>1, <1>2, <1>3
  <2>2. CASE u # t
    BY <2>2, <1>2, <1>10 DEF IInv, DeleteIsLast
  <2> QED BY <2>1, <2>2
<1>12. RetainedWhileActive'
  BY <1>2 DEF IInv, RetainedWhileActive, TypeOK
<1>13. DeletingTellsTheTruth'
  <2> SUFFICES ASSUME NEW b \in Accounts
               PROVE  entry'[b].deleting <=>
                        \E u \in Tasks : request'[u] = [account |-> b, kind |-> "delete"]
    BY DEF DeletingTellsTheTruth
  <2>1. CASE b = a
    <3>1. entry'[a].deleting <=> k = "delete"
      BY <1>2
    <3>2. CASE k = "delete"
      <4>1. request'[t] = [account |-> a, kind |-> "delete"]
        BY <3>2, <1>2
      <4> QED BY <4>1, <3>1, <3>2, <2>1
    <3>3. CASE k # "delete"
      <4>1. r # [account |-> a, kind |-> "delete"]
        BY <3>3
      <4>2. \A u \in Tasks : request'[u] # [account |-> a, kind |-> "delete"]
        BY <4>1, <1>2, <1>10
      <4> QED BY <4>2, <3>1, <3>3, <2>1
    <3> QED BY <3>2, <3>3
  <2>2. CASE b # a
    <3>1. [account |-> b, kind |-> "delete"] # None
      BY NoneIsNoValue DEF Request, Kinds
    <3>2. entry[b].deleting <=>
             \E u \in Tasks : request[u] = [account |-> b, kind |-> "delete"]
      BY DEF IInv, DeletingTellsTheTruth
    <3> QED BY <2>2, <3>1, <3>2, <1>2, <1>3
  <2> QED BY <2>1, <2>2
<1> QED BY <1>4, <1>5, <1>6, <1>7, <1>8, <1>9, <1>11, <1>12, <1>13 DEF IInv

\* A request is appended behind the others, so a deletion is the last of its line
\* when it joins, and stays so because nobody joins behind it.
LEMMA AcquireStep ==
    ASSUME IInv, NEW t \in Tasks, NEW a \in Accounts, NEW k \in Kinds, Acquire(t, a, k)
    PROVE  IInv'
<1> DEFINE old == entry[a]
           joined == [old EXCEPT !.queue = Append(@, t), !.deleting = @ \/ k = "delete"]
           d == Dispatch(joined)
           r == [account |-> a, kind |-> k]
<1>1. pc[t] = "idle" /\ ~old.deleting /\ request[t] = None /\ t \notin granted
  BY DEF Acquire, IInv, IdleTasks, InFlight
<1>2. /\ old \in Entry /\ old.queue \in Seq(Tasks) /\ IsInjective(old.queue)
      /\ r \in Request /\ r # None
  BY NoneIsNoValue DEF IInv, TypeOK, QueuedOnce, Entry, Request
<1>3. old.active # t /\ t \notin Range(old.queue)
  BY <1>1 DEF IInv, ActiveIsGranted, QueuedIsWaiting, InFlight
<1>4. /\ joined \in Entry /\ joined.active = old.active
      /\ joined.queue = Append(old.queue, t)
      /\ joined.deleting = (k = "delete")
  BY <1>1, <1>2, AppendProperties DEF Entry
<1>5. /\ joined.queue \in Seq(Tasks) /\ joined.queue # <<>> /\ IsInjective(joined.queue)
      /\ Range(joined.queue) = Range(old.queue) \union {t}
      /\ \A i \in 1 .. (Len(joined.queue) - 1) : joined.queue[i] \in Range(old.queue)
  BY <1>2, <1>3, <1>4, AppendQueue
<1>6. /\ retained' = retained \union {a}
      /\ entry' = [entry EXCEPT ![a] = d]
      /\ granted' = IF d.active = t THEN granted \union {t} ELSE granted
      /\ request' = [request EXCEPT ![t] = r]
      /\ pc' = [pc EXCEPT ![t] = IF d.active = t THEN "body" ELSE "waiting"]
  BY DEF Acquire, Enqueue
\* An idle account has an empty queue: the new request is granted at once.
<1>7. CASE old.active = None
  <2>1. old = EmptyEntry
    BY <1>7 DEF IInv, RetainedWhileActive
  <2>2. joined.queue = <<t>>
    BY <2>1, <1>4 DEF EmptyEntry
  <2>3. Head(joined.queue) = t /\ Tail(joined.queue) = <<>> /\ joined.queue # <<>>
    BY <2>2, SMTT(30)
  <2>4. d = [joined EXCEPT !.active = t, !.queue = <<>>]
    BY <2>3, <1>4, <1>7 DEF Dispatch
  <2>5. d.active = t /\ d.queue = <<>> /\ d.deleting = (k = "delete") /\ d \in Entry
    <3> DEFINE j == joined
    <3>1. j \in Entry /\ j.deleting = (k = "delete")
      BY <1>4
    <3> HIDE DEF j
    <3>2. d = [j EXCEPT !.active = t, !.queue = <<>>]
      BY <2>4 DEF j
    <3> HIDE DEF d
    <3>3. d = [queue |-> <<>>, active |-> t, deleting |-> j.deleting]
      BY <3>1, <3>2 DEF Entry
    <3>4. d \in Entry
      BY <3>1, <3>3 DEF Entry
    <3> QED BY <3>1, <3>3, <3>4
  <2> HIDE DEF d
  <2>6. granted' = granted \union {t} /\ pc' = [pc EXCEPT ![t] = "body"]
    BY <2>5, <1>6
  <2> QED BY <2>1, <2>5, <2>6, <1>1, <1>6, AcquireNow
<1>8. CASE old.active # None
  <2>1. d = joined
    BY <1>4, <1>8 DEF Dispatch
  <2>2. d.active # t
    BY <2>1, <1>3, <1>4
  <2> QED BY <2>1, <2>2, <1>1, <1>2, <1>3, <1>4, <1>5, <1>6, <1>8, AcquireLater
<1> QED BY <1>7, <1>8

LEMMA NextStep ==
    ASSUME IInv, [Next]_vars
    PROVE  IInv'
<1>1. CASE UNCHANGED vars
  BY <1>1 DEF vars, IInv, TypeOK, IdleTasks, InFlight, ActiveIsGranted, QueuedIsWaiting,
     QueuedOnce, InFlightIsInLine, DeleteIsLast, RetainedWhileActive, DeletingTellsTheTruth
<1>2. ASSUME NEW t \in Tasks, NEW a \in Accounts, NEW k \in Kinds, Acquire(t, a, k)
      PROVE  IInv'
  BY <1>2, AcquireStep
<1>3. ASSUME NEW t \in Tasks, Resume(t) \/ Cancel(t)
      PROVE  IInv'
  BY <1>3, ResumeStep
<1>4. ASSUME NEW t \in Tasks, Withdraw(t)
      PROVE  IInv'
  BY <1>4, WithdrawStep
<1>5. ASSUME NEW t \in Tasks, NEW s \in BOOLEAN, Release(t, s)
      PROVE  IInv'
  BY <1>5, ReleaseStep
<1> QED BY <1>1, <1>2, <1>3, <1>4, <1>5 DEF Next

LEMMA InitIInv == Init => IInv
<1> SUFFICES ASSUME Init PROVE IInv
  OBVIOUS
<1>1. EmptyEntry \in Entry
  BY DEF EmptyEntry, Entry
<1>2. TypeOK
  BY <1>1 DEF Init, TypeOK, Places
<1>3. IdleTasks /\ QueuedOnce /\ InFlightIsInLine
  BY DEF Init, IdleTasks, InFlight, QueuedOnce, InFlightIsInLine, EmptyEntry, IsInjective
<1>4. ActiveIsGranted /\ QueuedIsWaiting
  BY NoneIsNoValue DEF Init, ActiveIsGranted, QueuedIsWaiting, EmptyEntry, Range
<1>5. DeleteIsLast /\ DeletingTellsTheTruth
  BY NoneIsNoValue DEF Init, DeleteIsLast, DeletingTellsTheTruth, EmptyEntry, Request, Kinds
<1>6. RetainedWhileActive
  BY DEF Init, RetainedWhileActive, EmptyEntry
<1> QED BY <1>2, <1>3, <1>4, <1>5, <1>6 DEF IInv

-----------------------------------------------------------------------------
\* The inductive invariant holds in every reachable state.
THEOREM Invariance == Spec => []IInv
<1>1. Init => IInv
  BY InitIInv
<1>2. IInv /\ [Next]_vars => IInv'
  BY NextStep
<1> QED BY <1>1, <1>2, PTL DEF Spec

\* Every field of an entry and of a request keeps its type (account_operations.py:19-30).
THEOREM TypeCorrect == Spec => []TypeOK
<1>1. IInv => TypeOK
  BY DEF IInv
<1> QED BY <1>1, Invariance, PTL

\* No two tasks ever run a guarded body of one account, whatever is cancelled and
\* however many tasks and accounts there are (account_operations.py:34).
THEOREM MutualExclusionHolds == Spec => []MutualExclusion
<1>1. IInv => MutualExclusion
  <2> SUFFICES ASSUME IInv, NEW t \in Tasks, NEW u \in Tasks,
                      pc[t] = "body", pc[u] = "body", request[t].account = request[u].account
               PROVE  t = u
    BY DEF MutualExclusion
  <2>1. entry[request[t].account].active = t /\ entry[request[u].account].active = u
    BY DEF IInv, InFlightIsInLine, InFlight
  <2> QED BY <2>1
<1> QED BY <1>1, Invariance, PTL

\* No waiting caller is dropped by a finished deletion or by the removal of an entry
\* (account_operations.py:97-114, 129-132).
THEOREM NoWaiterDroppedHolds == Spec => []NoWaiterDropped
<1>1. IInv => NoWaiterDropped
  <2> SUFFICES ASSUME IInv, NEW t \in Tasks, pc[t] \in {"waiting", "cancelled"}
               PROVE  LET e == entry[request[t].account] IN
                      /\ request[t].account \in retained
                      /\ \/ e.active = t /\ t \in granted
                         \/ t \notin granted /\ \E i \in DOMAIN e.queue : e.queue[i] = t
    BY DEF NoWaiterDropped
  <2> DEFINE a == request[t].account
  <2>1. a \in Accounts
    BY DEF IInv, IdleTasks, InFlight, TypeOK, Request
  <2>2. entry[a].active = t \/ t \in Range(entry[a].queue)
    BY DEF IInv, InFlightIsInLine, InFlight
  <2>3. entry[a] # EmptyEntry
    BY <2>2, NoneIsNoValue DEF EmptyEntry, Range
  <2>4. a \in retained
    BY <2>1, <2>3 DEF IInv, RetainedWhileActive
  <2> QED BY <2>1, <2>2, <2>4 DEF IInv, ActiveIsGranted, QueuedIsWaiting, Range
<1> QED BY <1>1, Invariance, PTL

\* An account keeps an entry exactly while an operation on it is active.
THEOREM RetainedWhileActiveHolds == Spec => []RetainedWhileActive
<1>1. IInv => RetainedWhileActive
  BY DEF IInv
<1> QED BY <1>1, Invariance, PTL

\* Operations are turned away exactly while a deletion waits or runs.
THEOREM DeletingTellsTheTruthHolds == Spec => []DeletingTellsTheTruth
<1>1. IInv => DeletingTellsTheTruth
  BY DEF IInv
<1> QED BY <1>1, Invariance, PTL

-----------------------------------------------------------------------------
(* The gate implements AccountLine.  The line of an account is read off its *)
(* entry: dispatching moves a request from the queue to active and leaves   *)
(* it where it is in the line.                                              *)

MembersOf(e) == (IF e.active = None THEN <<>> ELSE <<e.active>>) \o e.queue

LineFrom(m, asked) == [i \in DOMAIN m |-> [task |-> m[i], kind |-> asked[m[i]].kind]]
LineOf(a) == LineFrom(Members(a), request)
InsideOf(a) == IF entry[a].active # None /\ pc[entry[a].active] = "body"
               THEN entry[a].active ELSE None

TheLine == [a \in Accounts |-> LineOf(a)]
TheInside == [a \in Accounts |-> InsideOf(a)]

Place == [task : Tasks, kind : Kinds]

LEMMA MembersPlaces ==
    ASSUME NEW e \in Entry
    PROVE  LET m == MembersOf(e) IN
           /\ m \in Seq(Tasks)
           /\ e.active = None => m = e.queue
           /\ e.active # None =>
                /\ Len(m) = Len(e.queue) + 1
                /\ m[1] = e.active
                /\ \A i \in 1 .. Len(e.queue) : m[i + 1] = e.queue[i]
<1>1. e.queue \in Seq(Tasks) /\ e.active \in Tasks \union {None} /\ Len(e.queue) \in Nat
  BY DEF Entry
<1>2. CASE e.active = None
  <2>1. <<>> \o e.queue = e.queue
    BY <1>1, ConcatEmptySeq
  <2> QED BY <1>1, <1>2, <2>1 DEF MembersOf
<1>3. CASE e.active # None
  <2> DEFINE h == <<e.active>>
             q == e.queue
  <2>1. h \in Seq(Tasks) /\ Len(h) = 1 /\ h[1] = e.active /\ q \in Seq(Tasks)
    BY <1>1, <1>3
  <2>2. MembersOf(e) = h \o q
    BY <1>3 DEF MembersOf
  <2> HIDE DEF h, q
  <2>3. /\ h \o q \in Seq(Tasks)
        /\ Len(h \o q) = Len(h) + Len(q)
        /\ \A i \in 1 .. (Len(h) + Len(q)) :
              (h \o q)[i] = IF i <= Len(h) THEN h[i] ELSE q[i - Len(h)]
    BY <2>1, ConcatProperties
  <2>4. Len(q) \in Nat
    BY <2>1
  <2>5. (h \o q)[1] = e.active
    BY <2>1, <2>3, <2>4
  <2>6. ASSUME NEW i \in 1 .. Len(q)
        PROVE  (h \o q)[i + 1] = q[i]
    <3>1. i + 1 \in 1 .. (Len(h) + Len(q)) /\ ~(i + 1 <= Len(h)) /\ i + 1 - Len(h) = i
      BY <2>1, <2>4
    <3> QED BY <3>1, <2>3
  <2>7. Len(h \o q) = Len(q) + 1
    BY <2>1, <2>3, <2>4
  <2> QED BY <1>3, <2>2, <2>3, <2>5, <2>6, <2>7 DEF q
<1> QED BY <1>2, <1>3

\* A dispatch leaves everybody at his place in the line.
LEMMA DispatchKeepsTheLine ==
    ASSUME NEW e \in Entry
    PROVE  Dispatch(e) \in Entry /\ MembersOf(Dispatch(e)) = MembersOf(e)
<1> DEFINE q == e.queue
           d == Dispatch(e)
<1>1. CASE e.active # None \/ q = <<>>
  BY <1>1 DEF Dispatch
<1>2. CASE e.active = None /\ q # <<>>
  <2>1. q \in Seq(Tasks)
    BY DEF Entry
  <2>2. /\ Head(q) \in Tasks /\ Tail(q) \in Seq(Tasks) /\ Len(Tail(q)) = Len(q) - 1
        /\ \A i \in 1 .. Len(Tail(q)) : Tail(q)[i] = q[i + 1]
    BY <1>2, <2>1, HeadTailProperties
  <2>3. d = [queue |-> Tail(q), active |-> Head(q), deleting |-> e.deleting]
    BY <1>2 DEF Dispatch, Entry
  <2>4. d \in Entry /\ d.active = Head(q) /\ d.queue = Tail(q) /\ d.active # None
    BY <2>2, <2>3, NoneIsNoValue DEF Entry
  <2> DEFINE w == Tail(q)
             m == MembersOf(d)
             n == MembersOf(e)
  <2>5. /\ m \in Seq(Tasks) /\ Len(m) = Len(w) + 1 /\ m[1] = Head(q)
        /\ \A i \in 1 .. Len(w) : m[i + 1] = w[i]
    BY <2>4, MembersPlaces
  <2>6. n = q
    BY <1>2, MembersPlaces
  <2>7. Len(q) \in Nat /\ Len(q) >= 1 /\ Head(q) = q[1]
    BY <1>2, <2>1
  <2> HIDE DEF m, n, q
  <2>8. Len(m) = Len(q)
    BY <2>2, <2>5, <2>7
  <2>9. ASSUME NEW i \in 1 .. Len(q)
        PROVE  m[i] = q[i]
    <3>1. CASE i = 1
      BY <3>1, <2>5, <2>7
    <3>2. CASE i # 1
      <4>1. i - 1 \in 1 .. Len(w) /\ (i - 1) + 1 = i
        BY <3>2, <2>2, <2>7
      <4>2. m[(i - 1) + 1] = w[i - 1] /\ w[i - 1] = q[(i - 1) + 1]
        BY <4>1, <2>2, <2>5
      <4> QED BY <4>1, <4>2
    <3> QED BY <3>1, <3>2
  <2>10. m = q
    BY <2>1, <2>5, <2>8, <2>9, SeqEqual
  <2> QED BY <2>4, <2>6, <2>10 DEF m, n
<1> QED BY <1>1, <1>2

\* Exactly the operations in flight on an account stand in its line, each once.
LEMMA WhoStandsInLine ==
    ASSUME IInv, NEW a \in Accounts
    PROVE  /\ Members(a) = MembersOf(entry[a])
           /\ Members(a) \in Seq(Tasks)
           /\ IsInjective(Members(a))
           /\ \A u \in Tasks : u \in Range(Members(a)) <=>
                                  InFlight(u) /\ request[u].account = a
           /\ \A u \in Range(Members(a)) : u \in Tasks /\ request[u] \in Request
<1> DEFINE e == entry[a]
           q == e.queue
           m == Members(a)
<1>1. m = MembersOf(e)
  BY DEF Members, MembersOf
<1>2. /\ e \in Entry /\ q \in Seq(Tasks) /\ IsInjective(q)
      /\ e.active \in Tasks \union {None}
  BY DEF IInv, TypeOK, QueuedOnce, Entry
<1>3. Len(q) \in Nat /\ DOMAIN q = 1 .. Len(q)
  BY <1>2
<1>4. /\ m \in Seq(Tasks)
      /\ e.active = None => m = q
      /\ e.active # None => /\ Len(m) = Len(q) + 1
                            /\ m[1] = e.active
                            /\ \A i \in 1 .. Len(q) : m[i + 1] = q[i]
  BY <1>1, <1>2, MembersPlaces
<1>5. \A u \in Range(q) : e.active # u
  BY <1>2, <1>3 DEF IInv, ActiveIsGranted, QueuedIsWaiting, Range
<1> HIDE DEF m, q
<1>6. \A u \in Tasks : u \in Range(m) <=> e.active = u \/ u \in Range(q)
  <2>1. CASE e.active = None
    BY <2>1, <1>4, NoneIsNoValue
  <2>2. CASE e.active # None
    <3>1. DOMAIN m = 1 .. (Len(q) + 1)
      BY <2>2, <1>4
    <3>2. ASSUME NEW u \in Tasks, u \in Range(m)
          PROVE  e.active = u \/ u \in Range(q)
      <4>1. PICK i \in 1 .. (Len(q) + 1) : m[i] = u
        BY <3>1, <3>2 DEF Range
      <4>2. CASE i = 1
        BY <4>1, <4>2, <2>2, <1>4
      <4>3. CASE i # 1
        <5>1. i - 1 \in 1 .. Len(q) /\ (i - 1) + 1 = i
          BY <4>3, <1>3
        <5>2. m[(i - 1) + 1] = q[i - 1]
          BY <5>1, <2>2, <1>4
        <5> QED BY <5>1, <5>2, <4>1, <1>3 DEF Range
      <4> QED BY <4>2, <4>3
    <3>3. ASSUME NEW u \in Tasks, e.active = u
          PROVE  u \in Range(m)
      <4>1. 1 \in DOMAIN m
        BY <3>1, <1>3
      <4> QED BY <4>1, <3>3, <2>2, <1>4 DEF Range
    <3>4. ASSUME NEW u \in Tasks, u \in Range(q)
          PROVE  u \in Range(m)
      <4>1. PICK i \in 1 .. Len(q) : q[i] = u
        BY <3>4, <1>3 DEF Range
      <4>2. i + 1 \in DOMAIN m
        BY <3>1, <1>3
      <4> QED BY <4>1, <4>2, <2>2, <1>4 DEF Range
    <3> QED BY <3>2, <3>3, <3>4
  <2> QED BY <2>1, <2>2
<1>7. IsInjective(m)
  <2>1. CASE e.active = None
    BY <2>1, <1>2, <1>4 DEF q
  <2>2. CASE e.active # None
    <3>1. DOMAIN m = 1 .. (Len(q) + 1)
      BY <2>2, <1>4
    <3> SUFFICES ASSUME NEW i \in 1 .. (Len(q) + 1), NEW j \in 1 .. (Len(q) + 1), m[i] = m[j]
                 PROVE  i = j
      BY <3>1 DEF IsInjective
    <3>2. ASSUME NEW k \in 1 .. (Len(q) + 1), k # 1
          PROVE  k - 1 \in DOMAIN q /\ m[k] = q[k - 1] /\ m[k] # e.active
      <4>1. k - 1 \in 1 .. Len(q) /\ (k - 1) + 1 = k
        BY <3>2, <1>3
      <4>2. m[(k - 1) + 1] = q[k - 1]
        BY <4>1, <2>2, <1>4
      <4>3. q[k - 1] \in Range(q)
        BY <4>1, <1>3 DEF Range
      <4> QED BY <4>1, <4>2, <4>3, <1>3, <1>5
    <3>3. CASE i = 1 \/ j = 1
      BY <3>2, <3>3, <2>2, <1>4
    <3>4. CASE i # 1 /\ j # 1
      <4>1. q[i - 1] = q[j - 1] /\ i - 1 \in DOMAIN q /\ j - 1 \in DOMAIN q
        BY <3>2, <3>4
      <4>2. IsInjective(q)
        BY <1>2 DEF q
      <4>3. i - 1 = j - 1
        BY <4>1, <4>2 DEF IsInjective
      <4> QED BY <4>3
    <3> QED BY <3>3, <3>4
  <2> QED BY <2>1, <2>2
<1>8. ASSUME NEW u \in Tasks
      PROVE  (e.active = u \/ u \in Range(q)) <=> InFlight(u) /\ request[u].account = a
  BY DEF IInv, ActiveIsGranted, QueuedIsWaiting, InFlightIsInLine, InFlight, q
<1>9. \A u \in Range(m) : u \in Tasks
  BY <1>4 DEF Range
<1>10. \A u \in Tasks : InFlight(u) => request[u] \in Request
  BY DEF IInv, IdleTasks, TypeOK
<1> QED BY <1>1, <1>4, <1>6, <1>7, <1>8, <1>9, <1>10 DEF m

LEMMA LinePlaces ==
    ASSUME NEW m \in Seq(Tasks), NEW asked, \A u \in Range(m) : asked[u] \in Request
    PROVE  LET f == LineFrom(m, asked) IN
           /\ f \in Seq(Place) /\ Len(f) = Len(m) /\ DOMAIN f = 1 .. Len(m)
           /\ \A i \in 1 .. Len(m) : f[i].task = m[i] /\ f[i].kind = asked[m[i]].kind
<1> DEFINE f == LineFrom(m, asked)
<1>1. DOMAIN m = 1 .. Len(m) /\ Len(m) \in Nat
  OBVIOUS
<1>2. f = [i \in 1 .. Len(m) |-> [task |-> m[i], kind |-> asked[m[i]].kind]]
  BY <1>1 DEF LineFrom
<1>3. \A i \in 1 .. Len(m) : m[i] \in Tasks /\ asked[m[i]].kind \in Kinds
  BY <1>1 DEF Range, Request
<1> HIDE DEF f
<1>4. f \in [1 .. Len(m) -> Place]
  BY <1>2, <1>3 DEF Place
<1>5. f \in Seq(Place) /\ Len(f) = Len(m) /\ DOMAIN f = 1 .. Len(m)
  BY <1>1, <1>4
<1>6. \A i \in 1 .. Len(m) : f[i].task = m[i] /\ f[i].kind = asked[m[i]].kind
  BY <1>2
<1> QED BY <1>5, <1>6 DEF f

\* A call on one account does not move the line of another.
LEMMA OtherLinesStay ==
    ASSUME IInv, NEW t \in Tasks, NEW a \in Accounts,
           InFlight(t) => request[t].account = a,
           \A u \in Tasks \ {t} : request'[u] = request[u] /\ pc'[u] = pc[u],
           NEW b \in Accounts, b # a, entry'[b] = entry[b]
    PROVE  LineOf(b)' = LineOf(b) /\ InsideOf(b)' = InsideOf(b)
<1>1. Members(b)' = Members(b)
  BY DEF Members
<1>2. /\ \A u \in Range(Members(b)) : u \in Tasks \ {t}
      /\ entry[b].active # None => entry[b].active \in Tasks \ {t}
  <2>1. /\ \A u \in Tasks : u \in Range(Members(b)) <=> InFlight(u) /\ request[u].account = b
        /\ \A u \in Range(Members(b)) : u \in Tasks
    BY WhoStandsInLine
  <2>2. entry[b].active \in Tasks \union {None}
    BY DEF IInv, TypeOK, Entry
  <2> QED BY <2>1, <2>2 DEF IInv, ActiveIsGranted
<1>3. \A i \in DOMAIN Members(b) : request'[Members(b)[i]] = request[Members(b)[i]]
  BY <1>2 DEF Range
<1>4. LineOf(b)' = LineOf(b)
  BY <1>1, <1>3 DEF LineOf, LineFrom
<1>5. InsideOf(b)' = InsideOf(b)
  BY <1>2 DEF InsideOf
<1> QED BY <1>4, <1>5

\* The steps of AccountLine, said of the line of one account.
LEMMA LineSteps ==
    ASSUME NEW a \in Accounts,
           \A b \in Accounts : b # a => LineOf(b)' = LineOf(b) /\ InsideOf(b)' = InsideOf(b)
    PROVE  /\ LineOf(a)' = LineOf(a) /\ InsideOf(a)' = InsideOf(a) => UNCHANGED Line!lineVars
           /\ /\ LineOf(a) # <<>> /\ InsideOf(a) = None
              /\ LineOf(a)' = LineOf(a) /\ InsideOf(a)' = Head(LineOf(a)).task
              => Line!Enter(a)
           /\ \A i \in DOMAIN LineOf(a) :
                /\ LineOf(a)' = RemoveAt(LineOf(a), i)
                /\ InsideOf(a)' = IF InsideOf(a) = LineOf(a)[i].task THEN None ELSE InsideOf(a)
                => Line!Leave(a, i)
           /\ \A t \in Tasks, k \in Kinds :
                /\ \A b \in Accounts : \A i \in DOMAIN LineOf(b) : LineOf(b)[i].task # t
                /\ \A i \in DOMAIN LineOf(a) : LineOf(a)[i].kind # "delete"
                /\ LineOf(a)' = Append(LineOf(a), [task |-> t, kind |-> k])
                /\ InsideOf(a)' = IF LineOf(a) = <<>> THEN t ELSE InsideOf(a)
                => Line!Join(a, t, k)
<1>1. /\ \A b \in Accounts : TheLine[b] = LineOf(b) /\ TheInside[b] = InsideOf(b)
      /\ TheLine' = [TheLine EXCEPT ![a] = LineOf(a)']
      /\ TheInside' = [TheInside EXCEPT ![a] = InsideOf(a)']
  BY DEF TheLine, TheInside
<1>2. ASSUME LineOf(a)' = LineOf(a), InsideOf(a)' = InsideOf(a)
      PROVE  UNCHANGED Line!lineVars
  <2>1. TheLine' = TheLine /\ TheInside' = TheInside
    BY <1>1, <1>2 DEF TheLine, TheInside
  <2> QED BY <2>1 DEF Line!lineVars, TheLine, TheInside, LineOf, LineFrom, InsideOf
<1>3. ASSUME LineOf(a) # <<>>, InsideOf(a) = None,
             LineOf(a)' = LineOf(a), InsideOf(a)' = Head(LineOf(a)).task
      PROVE  Line!Enter(a)
  <2>1. TheLine[a] # <<>> /\ TheInside[a] = None
    BY <1>1, <1>3
  <2>2. TheLine' = TheLine /\ TheInside' = [TheInside EXCEPT ![a] = Head(TheLine[a]).task]
    BY <1>1, <1>3 DEF TheLine
  <2> QED BY <2>1, <2>2 DEF Line!Enter, TheLine, TheInside, LineOf, LineFrom, InsideOf
<1>4. ASSUME NEW i \in DOMAIN LineOf(a), LineOf(a)' = RemoveAt(LineOf(a), i),
             InsideOf(a)' = IF InsideOf(a) = LineOf(a)[i].task THEN None ELSE InsideOf(a)
      PROVE  Line!Leave(a, i)
  <2>1. i \in DOMAIN TheLine[a] /\ TheLine' = [TheLine EXCEPT ![a] = RemoveAt(@, i)]
    BY <1>1, <1>4
  <2>2. TheInside' = IF TheInside[a] = TheLine[a][i].task
                     THEN [TheInside EXCEPT ![a] = None] ELSE TheInside
    BY <1>1, <1>4 DEF TheInside
  <2>3. Line!RemoveAt(TheLine[a], i) = RemoveAt(TheLine[a], i)
    BY DEF Line!RemoveAt, RemoveAt
  <2>4. TheLine' = [TheLine EXCEPT ![a] = Line!RemoveAt(@, i)]
    BY <2>1, <2>3
  <2> QED BY <2>1, <2>2, <2>4 DEF Line!Leave, TheLine, TheInside, LineOf, LineFrom, InsideOf
<1>5. ASSUME NEW t \in Tasks, NEW k \in Kinds,
             \A b \in Accounts : \A i \in DOMAIN LineOf(b) : LineOf(b)[i].task # t,
             \A i \in DOMAIN LineOf(a) : LineOf(a)[i].kind # "delete",
             LineOf(a)' = Append(LineOf(a), [task |-> t, kind |-> k]),
             InsideOf(a)' = IF LineOf(a) = <<>> THEN t ELSE InsideOf(a)
      PROVE  Line!Join(a, t, k)
  <2>1. ~ \E b \in Accounts : \E i \in DOMAIN TheLine[b] : TheLine[b][i].task = t
    BY <1>1, <1>5
  <2>2. \A i \in DOMAIN TheLine[a] : TheLine[a][i].kind # "delete"
    BY <1>1, <1>5
  <2>3. TheLine' = [TheLine EXCEPT ![a] = Append(@, [task |-> t, kind |-> k])]
    BY <1>1, <1>5
  <2>4. TheInside' = IF TheLine[a] = <<>> THEN [TheInside EXCEPT ![a] = t] ELSE TheInside
    BY <1>1, <1>5 DEF TheInside
  <2> QED BY <2>1, <2>2, <2>3, <2>4
          DEF Line!Join, Line!InLine, TheLine, TheInside, LineOf, LineFrom, InsideOf
<1> QED BY <1>2, <1>3, <1>4, <1>5

\* The locked block that ends a call takes the call out of its line, and nobody else.
LEMMA SettleLeaves ==
    ASSUME IInv, IInv', NEW t \in Tasks, NEW a \in Accounts, NEW e \in Entry,
           InFlight(t), request[t].account = a,
           NEW i \in 1 .. Len(Members(a)), Members(a)[i] = t,
           MembersOf(e) = RemoveAt(Members(a), i),
           e.active = entry[a].active \/ entry[a].active = t,
           Settle(a, e, t), Forget(t)
    PROVE  Line!LineNext
<1> DEFINE m == Members(a)
           w == RemoveAt(m, i)
           f == LineOf(a)
           g == RemoveAt(f, i)
<1>1. /\ entry' = [entry EXCEPT ![a] = Dispatch(e)]
      /\ \A u \in Tasks \ {t} : request'[u] = request[u] /\ pc'[u] = pc[u]
      /\ pc'[t] = "idle"
      /\ entry'[a] = Dispatch(e)
  BY DEF Settle, Forget, IInv, TypeOK
<1>2. /\ m \in Seq(Tasks) /\ IsInjective(m) /\ m[i] = t
      /\ \A u \in Range(m) : u \in Tasks /\ request[u] \in Request
  BY WhoStandsInLine
<1>3. /\ f \in Seq(Place) /\ Len(f) = Len(m) /\ DOMAIN f = 1 .. Len(m)
      /\ \A j \in 1 .. Len(m) : f[j].task = m[j] /\ f[j].kind = request[m[j]].kind
  BY <1>2, LinePlaces DEF LineOf
<1>4. Members(a)' = w
  <2>1. Members(a)' = MembersOf(entry'[a])
    BY DEF Members, MembersOf
  <2> QED BY <2>1, <1>1, DispatchKeepsTheLine
<1>5. Len(m) \in Nat /\ DOMAIN m = 1 .. Len(m) /\ i \in 1 .. Len(m)
  BY <1>2, SMTT(30)
<1> HIDE DEF m
<1>6. /\ w \in Seq(Tasks) /\ Len(w) = Len(m) - 1
      /\ \A j \in 1 .. (Len(m) - 1) : w[j] = IF j < i THEN m[j] ELSE m[j + 1]
  BY <1>2, <1>5, RemoveAtPlaces, ZenonT(30)
<1> HIDE DEF w
\* Those who stay have not been touched.
<1>7. /\ \A j \in 1 .. Len(w) : w[j] \in Tasks \ {t}
      /\ \A u \in Range(w) : request'[u] \in Request
  <2>1. ASSUME NEW j \in 1 .. Len(w)
        PROVE  w[j] \in Tasks \ {t} /\ request'[w[j]] \in Request
    <3> DEFINE k == IF j < i THEN j ELSE j + 1
    <3>1. k \in 1 .. Len(m) /\ k # i /\ w[j] = m[k]
      BY <1>5, <1>6
    <3> HIDE DEF k
    <3>2. m[k] # t
      BY <3>1, <1>2, <1>5 DEF IsInjective
    <3>3. m[k] \in Tasks \ {t} /\ request[m[k]] \in Request
      BY <3>1, <3>2, <1>2, <1>5 DEF Range
    <3> QED BY <3>1, <3>3, <1>1
  <2>2. DOMAIN w = 1 .. Len(w)
    BY <1>6
  <2> QED BY <2>1, <2>2 DEF Range
<1>8. /\ LineOf(a)' \in Seq(Place) /\ Len(LineOf(a)') = Len(w)
       /\ \A j \in 1 .. Len(w) : /\ LineOf(a)'[j].task = w[j]
                                 /\ LineOf(a)'[j].kind = request'[w[j]].kind
  <2>1. LineOf(a)' = LineFrom(w, request')
    BY <1>4 DEF LineOf
  <2> QED BY <2>1, <1>7, <1>6, LinePlaces, SMTT(30)
<1> HIDE DEF f
<1>9. /\ g \in Seq(Place) /\ Len(g) = Len(m) - 1
      /\ \A j \in 1 .. (Len(m) - 1) : g[j] = IF j < i THEN f[j] ELSE f[j + 1]
  <2>1. i \in 1 .. Len(f)
    BY <1>3, <1>5
  <2> QED BY <2>1, <1>3, RemoveAtPlaces, ZenonT(30)
<1> HIDE DEF w, g
<1>10. LineOf(a)' = g
  <2>1. ASSUME NEW j \in 1 .. Len(w)
        PROVE  LineOf(a)'[j] = g[j]
    <3>1. PICK k \in 1 .. Len(m) : w[j] = m[k] /\ g[j] = f[k]
      <4>1. j \in 1 .. (Len(m) - 1) /\ Len(m) \in Nat
        BY <1>5, <1>6
      <4>2. CASE j < i
        <5>1. j \in 1 .. Len(m) /\ w[j] = m[j] /\ g[j] = f[j]
          BY <4>1, <4>2, <1>6, <1>9
        <5> QED BY <5>1
      <4>3. CASE ~(j < i)
        <5>1. j + 1 \in 1 .. Len(m) /\ w[j] = m[j + 1] /\ g[j] = f[j + 1]
          BY <4>1, <4>3, <1>6, <1>9
        <5> QED BY <5>1
      <4> QED BY <4>2, <4>3
    <3>2. request'[w[j]] = request[w[j]]
      BY <1>1, <1>7
    <3>3. LineOf(a)'[j].task = f[k].task /\ LineOf(a)'[j].kind = f[k].kind
      BY <3>1, <3>2, <1>3, <1>8
    <3>4. 1 .. Len(w) = DOMAIN LineOf(a)' /\ 1 .. Len(m) = DOMAIN f
      BY <1>3, <1>8
    <3>5. LineOf(a)'[j] \in Place /\ f[k] \in Place
      BY <3>1, <3>4, <1>3, <1>8
    <3>6. \A x, y \in Place : x.task = y.task /\ x.kind = y.kind => x = y
      BY DEF Place
    <3> QED BY <3>1, <3>3, <3>5, <3>6
  <2>2. Len(LineOf(a)') = Len(g)
    BY <1>8, <1>6, <1>9
  <2> QED BY <2>1, <2>2, <1>8, <1>9, SeqEqual
<1>11. InsideOf(a)' = IF InsideOf(a) = t THEN None ELSE InsideOf(a)
  <2>1. entry[a].active \in Tasks \union {None} /\ entry[a].queue \in Seq(Tasks)
    BY DEF IInv, TypeOK, Entry
  <2>2. CASE entry[a].active = t
    <3>1. entry'[a].active # t
      <4>1. ~InFlight(t)'
        BY <1>1 DEF InFlight
      <4> QED BY <4>1 DEF IInv, ActiveIsGranted
    <3>2. ASSUME NEW u \in Tasks, entry'[a].active = u
          PROVE  pc'[u] # "body"
      <4>1. InFlight(u)' /\ request'[u].account = a /\ u # t
        BY <3>1, <3>2 DEF IInv, ActiveIsGranted
      <4>2. InFlight(u) /\ request[u].account = a /\ pc'[u] = pc[u]
        BY <4>1, <1>1 DEF InFlight
      <4> QED BY <4>1, <4>2, <2>2 DEF IInv, InFlightIsInLine
    <3>3. entry'[a].active \in Tasks \union {None}
      BY DEF IInv, TypeOK, Entry
    <3>4. InsideOf(a)' = None
      BY <3>2, <3>3 DEF InsideOf
    <3> QED BY <3>4, <2>2, NoneIsNoValue DEF InsideOf
  <2>3. CASE entry[a].active # t
    <3>1. entry[a].active # None
      <4>1. t \in Range(entry[a].queue)
        BY <2>3 DEF IInv, InFlightIsInLine
      <4>2. entry[a] # EmptyEntry
        BY <4>1 DEF EmptyEntry, Range
      <4> QED BY <4>2 DEF IInv, RetainedWhileActive
    <3>2. Dispatch(e) = e /\ e.active = entry[a].active
      BY <2>3, <3>1 DEF Dispatch
    <3>3. entry'[a].active = entry[a].active /\ entry[a].active \in Tasks \ {t}
      BY <3>1, <3>2, <2>1, <2>3, <1>1
    <3> QED BY <3>3, <1>1 DEF InsideOf
  <2> QED BY <2>2, <2>3
<1>12. \A b \in Accounts : b # a => LineOf(b)' = LineOf(b) /\ InsideOf(b)' = InsideOf(b)
  <2> SUFFICES ASSUME NEW b \in Accounts, b # a
               PROVE  LineOf(b)' = LineOf(b) /\ InsideOf(b)' = InsideOf(b)
    OBVIOUS
  <2>1. entry'[b] = entry[b]
    BY <1>1 DEF IInv, TypeOK
  <2> QED BY <2>1, <1>1, OtherLinesStay
<1>13. i \in DOMAIN f /\ f[i].task = t
  BY <1>2, <1>3, <1>5
<1>14. Line!Leave(a, i)
  BY <1>10, <1>11, <1>12, <1>13, LineSteps DEF f, g
<1>15. i \in DOMAIN TheLine[a]
  BY <1>13 DEF TheLine, f
<1> QED BY <1>14, <1>15 DEF Line!LineNext, TheLine, LineOf, LineFrom

LEMMA FirstTakenOut ==
    ASSUME NEW S, NEW m \in Seq(S), NEW q \in Seq(S), Len(m) = Len(q) + 1,
           \A j \in 1 .. Len(q) : m[j + 1] = q[j]
    PROVE  RemoveAt(m, 1) = q
<1> DEFINE w == RemoveAt(m, 1)
<1>1. Len(q) \in Nat /\ 1 \in 1 .. Len(m) /\ Len(m) - 1 = Len(q)
  OBVIOUS
<1>2. /\ w \in Seq(S) /\ Len(w) = Len(m) - 1
      /\ \A i \in 1 .. (Len(m) - 1) : w[i] = IF i < 1 THEN m[i] ELSE m[i + 1]
  BY <1>1, RemoveAtPlaces
<1> HIDE DEF w
<1>3. Len(w) = Len(q) /\ \A i \in 1 .. Len(w) : w[i] = q[i]
  BY <1>1, <1>2
<1>4. w = q
  BY <1>2, <1>3, SeqEqual
<1> QED BY <1>4 DEF w

LEMMA WithdrawLeaves ==
    ASSUME IInv, IInv', NEW t \in Tasks, Withdraw(t)
    PROVE  Line!LineNext
<1> DEFINE a == request[t].account
           old == entry[a]
           e == WithdrawnEntry(t, old)
           q == old.queue
           m == Members(a)
<1>1. InFlight(t) /\ pc[t] = "cancelled"
  BY DEF Withdraw, InFlight
<1>2. request[t] \in Request /\ a \in Accounts
  BY <1>1 DEF IInv, IdleTasks, TypeOK, Request
<1>3. /\ old \in Entry /\ q \in Seq(Tasks) /\ IsInjective(q)
      /\ old.active \in Tasks \union {None}
  BY <1>2 DEF IInv, TypeOK, QueuedOnce, Entry
<1>4. old.active # None
  <2>1. old.active = t \/ t \in Range(q)
    BY <1>1 DEF IInv, InFlightIsInLine
  <2> QED BY <1>2, <2>1, NoneIsNoValue DEF IInv, RetainedWhileActive, EmptyEntry, Range
<1>5. Settle(a, e, t) /\ Forget(t)
  BY <1>2, <1>4 DEF Withdraw, IInv, RetainedWhileActive
<1>6. m = MembersOf(old) /\ m \in Seq(Tasks)
  BY <1>2, WhoStandsInLine
<1>7. /\ Len(m) = Len(q) + 1 /\ m[1] = old.active
      /\ \A j \in 1 .. Len(q) : m[j + 1] = q[j]
  BY <1>3, <1>4, <1>6, MembersPlaces
<1>8. Len(q) \in Nat /\ DOMAIN q = 1 .. Len(q)
  BY <1>3
<1> HIDE DEF m
<1>9. CASE old.active = t
  <2>1. t \in granted
    BY <1>2, <1>9 DEF IInv, ActiveIsGranted
  <2>2. e \in Entry /\ e.active = None /\ e.queue = q
    BY <2>1, <1>9, <1>3 DEF WithdrawnEntry, Entry
  <2>3. 1 \in 1 .. Len(m) /\ m[1] = t
    BY <1>7, <1>8, <1>9
  <2>4. MembersOf(e) = q
    BY <2>2, MembersPlaces
  <2>5. RemoveAt(m, 1) = q
    BY <1>3, <1>6, <1>7, <2>3, FirstTakenOut
  <2> QED BY <2>2, <2>3, <2>4, <2>5, <1>1, <1>2, <1>5, <1>9, SettleLeaves DEF m
<1>10. CASE old.active # t
  <2> DEFINE w == Without(q, t)
  <2>1. t \in Range(q)
    BY <1>1, <1>2, <1>10 DEF IInv, InFlightIsInLine
  <2>2. PICK k \in 1 .. Len(q) : q[k] = t /\ w = RemoveAt(q, k)
    BY <2>1, <1>3, WithoutPlace
  <2>3. w \in Seq(Tasks)
    BY <1>3, WithoutQueue
  <2> HIDE DEF w
  <2>4. e \in Entry /\ e.active = old.active /\ e.queue = w
    BY <2>3, <1>10, <1>3 DEF WithdrawnEntry, Entry, w
  <2>5. k + 1 \in 1 .. Len(m) /\ m[k + 1] = t
    BY <2>2, <1>7, <1>8
  <2> DEFINE n == MembersOf(e)
             l == RemoveAt(m, k + 1)
  <2>6. /\ n \in Seq(Tasks) /\ Len(n) = Len(w) + 1 /\ n[1] = old.active
        /\ \A j \in 1 .. Len(w) : n[j + 1] = w[j]
    BY <2>4, <1>4, MembersPlaces
  <2>7. /\ Len(w) = Len(q) - 1
        /\ \A j \in 1 .. (Len(q) - 1) : w[j] = IF j < k THEN q[j] ELSE q[j + 1]
    BY <2>2, <1>3, RemoveAtPlaces
  <2>8. /\ l \in Seq(Tasks) /\ Len(l) = Len(m) - 1
        /\ \A j \in 1 .. (Len(m) - 1) : l[j] = IF j < k + 1 THEN m[j] ELSE m[j + 1]
    BY <2>5, <1>6, RemoveAtPlaces
  <2> HIDE DEF n, l, q
  <2>9. Len(n) = Len(l)
    BY <2>6, <2>7, <2>8, <1>7, <1>8
  <2>10. ASSUME NEW j \in 1 .. Len(n)
         PROVE  n[j] = l[j]
    <3>1. j \in 1 .. Len(q) /\ j \in 1 .. (Len(m) - 1)
      BY <2>6, <2>7, <1>7, <1>8
    <3>2. CASE j = 1
      BY <3>1, <3>2, <2>2, <2>6, <2>8, <1>7
    <3>3. CASE j # 1
      <4>1. j - 1 \in 1 .. Len(w) /\ j - 1 \in 1 .. (Len(q) - 1) /\ (j - 1) + 1 = j
        BY <3>1, <3>3, <2>7, <1>8
      <4>2. n[j] = IF j - 1 < k THEN q[j - 1] ELSE q[j]
        BY <4>1, <2>6, <2>7
      <4>3. l[j] = IF j < k + 1 THEN m[j] ELSE m[j + 1]
        BY <3>1, <2>8
      <4>4. m[(j - 1) + 1] = q[j - 1] /\ m[j + 1] = q[j]
        BY <4>1, <3>1, <1>7
      <4> QED BY <4>1, <4>2, <4>3, <4>4, <2>2
    <3> QED BY <3>2, <3>3
  <2>11. n = l
    BY <2>6, <2>8, <2>9, <2>10, SeqEqual
  <2> QED BY <2>4, <2>5, <2>11, <1>1, <1>2, <1>5, SettleLeaves DEF m, n, l
<1> QED BY <1>9, <1>10

LEMMA ReleaseLeaves ==
    ASSUME IInv, IInv', NEW t \in Tasks, NEW s \in BOOLEAN, Release(t, s)
    PROVE  Line!LineNext
<1> DEFINE a == request[t].account
           old == entry[a]
           e == ReleasedEntry(t, old, s)
           q == old.queue
           m == Members(a)
<1>1. InFlight(t) /\ pc[t] = "body"
  BY DEF Release, InFlight
<1>2. request[t] \in Request /\ a \in Accounts
  BY <1>1 DEF IInv, IdleTasks, TypeOK, Request
<1>3. old \in Entry /\ q \in Seq(Tasks) /\ old.active = t
  BY <1>1, <1>2 DEF IInv, TypeOK, Entry, InFlightIsInLine
<1>4. Settle(a, e, t) /\ Forget(t)
  BY <1>2, <1>3, NoneIsNoValue DEF Release, IInv, RetainedWhileActive
\* queue.clear() has nothing to clear.
<1>5. e \in Entry /\ e.active = None /\ e.queue = q
  <2>1. request[t].kind = "delete" => q = <<>>
    <3>1. request[t].kind = "delete" => request[t] = [account |-> a, kind |-> "delete"]
      BY <1>2 DEF Request
    <3> QED BY <3>1, <1>2, <1>3 DEF IInv, DeleteIsLast
  <2> QED BY <2>1, <1>3 DEF ReleasedEntry, Entry
<1>6. m = MembersOf(old) /\ m \in Seq(Tasks)
  BY <1>2, WhoStandsInLine
<1>7. /\ Len(m) = Len(q) + 1 /\ m[1] = t
      /\ \A j \in 1 .. Len(q) : m[j + 1] = q[j]
  BY <1>3, <1>6, NoneIsNoValue, MembersPlaces
<1>8. Len(q) \in Nat
  BY <1>3
<1> HIDE DEF m
<1>9. 1 \in 1 .. Len(m)
  BY <1>7, <1>8
<1>10. MembersOf(e) = RemoveAt(m, 1)
  <2>1. MembersOf(e) = q
    BY <1>5, MembersPlaces
  <2>2. RemoveAt(m, 1) = q
    BY <1>3, <1>6, <1>7, <1>9, FirstTakenOut
  <2> QED BY <2>1, <2>2
<1> QED BY <1>1, <1>2, <1>3, <1>4, <1>5, <1>7, <1>9, <1>10, SettleLeaves DEF m

LEMMA ResumeEnters ==
    ASSUME IInv, NEW t \in Tasks, NEW a, request[t].account = a, Resume(t)
    PROVE  Line!LineNext
<1> DEFINE f == LineOf(a)
           m == Members(a)
<1>1. /\ pc[t] = "waiting" /\ t \in granted /\ InFlight(t) /\ t # None
      /\ pc' = [pc EXCEPT ![t] = "body"]
      /\ entry' = entry /\ request' = request
  BY NoneIsNoValue DEF Resume, InFlight
<1>2. a \in Accounts
  BY <1>1 DEF IInv, IdleTasks, TypeOK, Request
<1>3. entry[a].active = t
  BY <1>1, <1>2 DEF IInv, InFlightIsInLine, QueuedIsWaiting
<1>4. pc'[t] = "body" /\ \A u \in Tasks \ {t} : pc'[u] = pc[u]
  BY <1>1 DEF IInv, TypeOK
<1>5. LineOf(a)' = f
  BY <1>1 DEF LineOf, LineFrom, Members
<1>6. InsideOf(a) = None /\ InsideOf(a)' = t
  BY <1>1, <1>3, <1>4 DEF InsideOf
<1>7. f # <<>> /\ Head(f).task = t
  <2>1. entry[a] \in Entry
    BY <1>2 DEF IInv, TypeOK
  <2>2. /\ m \in Seq(Tasks) /\ m = MembersOf(entry[a])
        /\ \A u \in Range(m) : request[u] \in Request
    BY <1>2, WhoStandsInLine
  <2>3. Len(m) = Len(entry[a].queue) + 1 /\ m[1] = t /\ Len(entry[a].queue) \in Nat
    BY <1>1, <1>3, <2>1, <2>2, MembersPlaces DEF Entry
  <2>4. /\ f \in Seq(Place) /\ Len(f) = Len(m)
        /\ \A i \in 1 .. Len(m) : f[i].task = m[i]
    BY <2>2, LinePlaces DEF LineOf
  <2> HIDE DEF f, m
  <2>5. 1 \in 1 .. Len(m) /\ Len(f) # 0
    BY <2>3, <2>4
  <2>6. f # <<>> /\ Head(f) = f[1]
    BY <2>4, <2>5
  <2> QED BY <2>3, <2>4, <2>5, <2>6
<1>8. \A b \in Accounts : b # a => LineOf(b)' = LineOf(b) /\ InsideOf(b)' = InsideOf(b)
  BY <1>1, <1>2, <1>4, OtherLinesStay
<1>9. Line!Enter(a)
  <2>1. LineOf(a) # <<>> /\ InsideOf(a)' = Head(LineOf(a)).task
    BY <1>6, <1>7
  <2>2. LineOf(a)' = LineOf(a)
    BY <1>5
  <2> QED BY <1>2, <1>6, <1>8, <2>1, <2>2, LineSteps
<1> QED BY <1>2, <1>9 DEF Line!LineNext

\* Nobody sees from the line that a waiting call has been cancelled.
LEMMA CancelStays ==
    ASSUME IInv, NEW t \in Tasks, Cancel(t)
    PROVE  UNCHANGED Line!lineVars
<1>1. /\ pc[t] = "waiting" /\ pc' = [pc EXCEPT ![t] = "cancelled"]
      /\ entry' = entry /\ request' = request
  BY DEF Cancel
<1>2. \A u : u \in Tasks => (pc'[u] = "body" <=> pc[u] = "body")
  BY <1>1 DEF IInv, TypeOK
<1>3. TheLine' = TheLine
  BY <1>1 DEF TheLine, LineOf, LineFrom, Members
<1>4. ASSUME NEW a \in Accounts
      PROVE  InsideOf(a)' = InsideOf(a)
  <2>1. entry[a].active \in Tasks \union {None}
    BY DEF IInv, TypeOK, Entry
  <2> QED BY <2>1, <1>1, <1>2 DEF InsideOf
<1>5. TheInside' = TheInside
  BY <1>4 DEF TheInside
<1> QED BY <1>3, <1>5 DEF Line!lineVars, TheLine, TheInside, LineOf, LineFrom, InsideOf

LEMMA AcquireJoins ==
    ASSUME IInv, IInv', NEW t \in Tasks, NEW a \in Accounts, NEW k \in Kinds, Acquire(t, a, k)
    PROVE  Line!LineNext
<1> DEFINE old == entry[a]
           q == old.queue
           r == [account |-> a, kind |-> k]
           e == [old EXCEPT !.queue = Append(@, t), !.deleting = @ \/ k = "delete"]
           d == Dispatch(e)
           m == Members(a)
           f == LineOf(a)
           n == Append(m, t)
<1>1. /\ ~InFlight(t) /\ ~old.deleting
      /\ entry' = [entry EXCEPT ![a] = d]
      /\ request' = [request EXCEPT ![t] = r]
      /\ pc' = [pc EXCEPT ![t] = IF d.active = t THEN "body" ELSE "waiting"]
  BY DEF Acquire, Enqueue, InFlight
<1>2. /\ entry'[a] = d /\ \A b \in Accounts : b # a => entry'[b] = entry[b]
      /\ request'[t] = r
      /\ pc'[t] = IF d.active = t THEN "body" ELSE "waiting"
      /\ \A u \in Tasks \ {t} : request'[u] = request[u] /\ pc'[u] = pc[u]
  BY <1>1 DEF IInv, TypeOK
<1>3. /\ old \in Entry /\ q \in Seq(Tasks) /\ old.active \in Tasks \union {None}
  BY DEF IInv, TypeOK, Entry
<1>4. e \in Entry /\ e.active = old.active /\ e.queue = Append(q, t)
  BY <1>1, <1>3, AppendProperties DEF Entry
<1>5. /\ m = MembersOf(old) /\ m \in Seq(Tasks) /\ t \notin Range(m)
      /\ \A u \in Range(m) : /\ u \in Tasks /\ request[u] \in Request
                             /\ InFlight(u) /\ request[u].account = a
  BY <1>1, WhoStandsInLine
<1>6. n \in Seq(Tasks) /\ Len(n) = Len(m) + 1
  BY <1>5, AppendProperties
<1>7. MembersOf(e) = n
  <2> DEFINE p == Append(q, t)
             l == MembersOf(e)
  <2>1. /\ p \in Seq(Tasks) /\ Len(p) = Len(q) + 1 /\ p[Len(q) + 1] = t
        /\ \A i \in 1 .. Len(q) : p[i] = q[i]
    BY <1>3, AppendProperties
  <2>2. l \in Seq(Tasks) /\ (e.active = None => l = p)
        /\ (e.active # None => /\ Len(l) = Len(p) + 1 /\ l[1] = e.active
                               /\ \A i \in 1 .. Len(p) : l[i + 1] = p[i])
    BY <1>4, MembersPlaces, ZenonT(60)
  <2>3. /\ old.active = None => m = q
        /\ old.active # None => /\ Len(m) = Len(q) + 1 /\ m[1] = old.active
                                /\ \A i \in 1 .. Len(q) : m[i + 1] = q[i]
    BY <1>3, <1>5, MembersPlaces
  <2>4. Len(q) \in Nat
    BY <1>3
  <2>5. n[Len(m) + 1] = t /\ \A i \in 1 .. Len(m) : n[i] = m[i]
    BY <1>5, AppendProperties
  <2>6. CASE old.active = None
    BY <2>6, <2>2, <2>3, <1>4
  <2>7. CASE old.active # None
    <3> HIDE DEF p, l, n, m, q, e
    <3>1. Len(l) = Len(n)
      BY <2>7, <2>1, <2>2, <2>3, <1>4, <1>6
    <3>2. ASSUME NEW i \in 1 .. Len(l)
          PROVE  l[i] = n[i]
      <4>1. i \in 1 .. (Len(q) + 2)
        BY <2>7, <2>1, <2>2, <1>4, <2>4
      <4>2. CASE i = 1
        BY <4>2, <2>2, <2>3, <2>4, <2>5, <2>7, <1>4
      <4>3. CASE i # 1
        <5>1. i - 1 \in 1 .. Len(p) /\ (i - 1) + 1 = i
          BY <4>1, <4>3, <2>1, <2>4
        <5>2. l[i] = p[i - 1]
          BY <5>1, <2>2, <2>7, <1>4
        <5>3. CASE i = Len(q) + 2
          BY <5>2, <5>3, <2>1, <2>3, <2>4, <2>5, <2>7
        <5>4. CASE i # Len(q) + 2
          <6>1. i - 1 \in 1 .. Len(q) /\ i \in 1 .. Len(m)
            BY <5>4, <4>1, <4>3, <2>3, <2>4, <2>7
          <6>2. p[i - 1] = q[i - 1] /\ m[(i - 1) + 1] = q[i - 1] /\ n[i] = m[i]
            BY <6>1, <2>1, <2>3, <2>5, <2>7
          <6> QED BY <6>2, <5>1, <5>2
        <5> QED BY <5>3, <5>4
      <4> QED BY <4>2, <4>3
    <3>3. l = n
      BY <3>1, <3>2, <2>2, <1>6, SeqEqual
    <3> QED BY <3>3 DEF l
  <2> QED BY <2>6, <2>7
<1>8. Members(a)' = n
  <2>1. Members(a)' = MembersOf(entry'[a])
    BY DEF Members, MembersOf
  <2> QED BY <2>1, <1>2, <1>4, <1>7, DispatchKeepsTheLine
<1>9. /\ f \in Seq(Place) /\ Len(f) = Len(m) /\ DOMAIN f = 1 .. Len(m)
      /\ \A i \in 1 .. Len(m) : f[i].task = m[i] /\ f[i].kind = request[m[i]].kind
  BY <1>5, LinePlaces DEF LineOf
<1>10. r \in Request /\ r.kind = k
  BY DEF Request
<1>11. /\ Len(m) \in Nat /\ DOMAIN m = 1 .. Len(m) /\ DOMAIN n = 1 .. (Len(m) + 1)
       /\ n[Len(m) + 1] = t /\ \A i \in 1 .. Len(m) : n[i] = m[i]
  BY <1>5, <1>6, AppendProperties
<1>12. \A i \in 1 .. Len(m) : m[i] \in Tasks \ {t} /\ request'[m[i]] = request[m[i]]
                              /\ request[m[i]] \in Request /\ request[m[i]].account = a
  BY <1>2, <1>5, <1>11 DEF Range
<1> HIDE DEF m, n, r
<1>13. \A u \in Range(n) : request'[u] \in Request
  <2>1. \A i \in 1 .. (Len(m) + 1) : i \in 1 .. Len(m) \/ i = Len(m) + 1
    BY <1>11
  <2> QED BY <2>1, <1>2, <1>10, <1>11, <1>12 DEF Range
<1> DEFINE g == LineFrom(n, request')
           h == Append(f, [task |-> t, kind |-> k])
<1>14. /\ g \in Seq(Place) /\ Len(g) = Len(n)
       /\ \A i \in 1 .. Len(n) : g[i].task = n[i] /\ g[i].kind = request'[n[i]].kind
  BY <1>6, <1>13, LinePlaces
<1>15. /\ h \in Seq(Place) /\ Len(h) = Len(m) + 1 /\ h[Len(m) + 1] = [task |-> t, kind |-> k]
       /\ \A i \in 1 .. Len(m) : h[i] = f[i]
  <2>1. [task |-> t, kind |-> k] \in Place
    BY DEF Place
  <2> HIDE DEF f
  <2> QED BY <2>1, <1>9, AppendProperties
<1>16. LineOf(a)' = h
  <2> HIDE DEF f, g, h
  <2>1. ASSUME NEW i \in 1 .. Len(g)
        PROVE  g[i] = h[i]
    <3>1. i \in 1 .. (Len(m) + 1) /\ i \in 1 .. Len(n)
      BY <1>6, <1>14
    <3>2. g[i].task = h[i].task /\ g[i].kind = h[i].kind
      <4>1. CASE i \in 1 .. Len(m)
        BY <4>1, <3>1, <1>9, <1>11, <1>12, <1>14, <1>15
      <4>2. CASE i = Len(m) + 1
        BY <4>2, <3>1, <1>2, <1>10, <1>11, <1>14, <1>15
      <4> QED BY <4>1, <4>2, <3>1, <1>11
    <3>3. DOMAIN g = 1 .. Len(n) /\ DOMAIN h = 1 .. (Len(m) + 1)
      BY <1>6, <1>11, <1>14, <1>15
    <3>4. g[i] \in Place /\ h[i] \in Place
      BY <3>1, <3>3, <1>14, <1>15
    <3>5. \A x, y \in Place : x.task = y.task /\ x.kind = y.kind => x = y
      BY DEF Place
    <3> QED BY <3>2, <3>4, <3>5
  <2>2. g = h
    BY <2>1, <1>6, <1>14, <1>15, SeqEqual
  <2>3. LineOf(a)' = g
    BY <1>8 DEF LineOf, g
  <2> QED BY <2>2, <2>3
<1>17. InsideOf(a)' = IF f = <<>> THEN t ELSE InsideOf(a)
  <2>1. f = <<>> <=> Len(m) = 0
    BY <1>9
  <2>2. /\ old.active = None => m = q
        /\ old.active # None => Len(m) = Len(q) + 1
    BY <1>3, <1>5, MembersPlaces
  <2>3. CASE old.active = None
    <3>1. q = <<>>
      BY <2>3 DEF IInv, RetainedWhileActive, EmptyEntry
    <3>2. f = <<>>
      BY <2>1, <2>2, <2>3, <3>1
    <3>3. e.queue # <<>> /\ Head(e.queue) = t
      BY <1>4, <3>1
    <3>4. d.active = t
      BY <3>3, <1>4, <2>3 DEF Dispatch, Entry
    <3> QED BY <3>2, <3>4, <1>2, NoneIsNoValue DEF InsideOf
  <2>4. CASE old.active # None
    <3>1. f # <<>>
      BY <2>1, <2>2, <2>4, <1>3
    <3>2. d.active = old.active
      BY <2>4, <1>4 DEF Dispatch
    <3>3. old.active \in Tasks \ {t}
      BY <2>4, <1>1, <1>3 DEF IInv, ActiveIsGranted
    <3> QED BY <3>1, <3>2, <3>3, <1>2 DEF InsideOf
  <2> QED BY <2>3, <2>4
<1>18. \A b \in Accounts : \A i \in DOMAIN LineOf(b) : LineOf(b)[i].task # t
  <2> SUFFICES ASSUME NEW b \in Accounts, NEW i \in DOMAIN LineOf(b)
               PROVE  LineOf(b)[i].task # t
    OBVIOUS
  <2>1. /\ Members(b) \in Seq(Tasks) /\ t \notin Range(Members(b))
        /\ \A u \in Range(Members(b)) : request[u] \in Request
    BY <1>1, WhoStandsInLine
  <2>2. /\ DOMAIN LineOf(b) = 1 .. Len(Members(b))
        /\ \A j \in 1 .. Len(Members(b)) : LineOf(b)[j].task = Members(b)[j]
    BY <2>1, LinePlaces DEF LineOf
  <2> QED BY <2>1, <2>2 DEF Range
<1>19. \A i \in DOMAIN f : f[i].kind # "delete"
  <2> SUFFICES ASSUME NEW i \in 1 .. Len(m), request[m[i]].kind = "delete"
               PROVE  FALSE
    BY <1>9
  <2>1. request[m[i]] = [account |-> a, kind |-> "delete"] /\ m[i] \in Tasks
    BY <1>12 DEF Request
  <2> QED BY <2>1, <1>1 DEF IInv, DeletingTellsTheTruth
<1>20. \A b \in Accounts : b # a => LineOf(b)' = LineOf(b) /\ InsideOf(b)' = InsideOf(b)
  BY <1>1, <1>2, OtherLinesStay
<1>21. Line!Join(a, t, k)
  BY <1>16, <1>17, <1>18, <1>19, <1>20, LineSteps
<1> QED BY <1>21 DEF Line!LineNext, Kinds

\* Every step of the gate is a step of the line, or one that the line does not show.
LEMMA GateSteps == IInv /\ IInv' /\ [Next]_vars => [Line!LineNext]_Line!lineVars
<1> SUFFICES ASSUME IInv, IInv', [Next]_vars
             PROVE  [Line!LineNext]_Line!lineVars
  OBVIOUS
<1>1. CASE UNCHANGED vars
  <2>1. TheLine' = TheLine /\ TheInside' = TheInside
    BY <1>1 DEF vars, TheLine, TheInside, LineOf, LineFrom, InsideOf, Members
  <2> QED BY <2>1 DEF Line!lineVars, TheLine, TheInside, LineOf, LineFrom, InsideOf
<1>2. ASSUME NEW t \in Tasks, NEW a \in Accounts, NEW k \in Kinds, Acquire(t, a, k)
      PROVE  Line!LineNext
  BY <1>2, AcquireJoins
<1>3. ASSUME NEW t \in Tasks, Resume(t)
      PROVE  Line!LineNext
  BY <1>3, ResumeEnters
<1>4. ASSUME NEW t \in Tasks, Cancel(t)
      PROVE  UNCHANGED Line!lineVars
  BY <1>4, CancelStays
<1>5. ASSUME NEW t \in Tasks, Withdraw(t)
      PROVE  Line!LineNext
  BY <1>5, WithdrawLeaves
<1>6. ASSUME NEW t \in Tasks, NEW s \in BOOLEAN, Release(t, s)
      PROVE  Line!LineNext
  BY <1>6, ReleaseLeaves
<1> QED BY <1>1, <1>2, <1>3, <1>4, <1>5, <1>6 DEF Next

LEMMA GateStartsEmpty == Init => Line!LineInit
<1> SUFFICES ASSUME Init PROVE Line!LineInit
  OBVIOUS
<1>1. ASSUME NEW a \in Accounts
      PROVE  LineOf(a) = <<>> /\ InsideOf(a) = None
  <2>1. entry[a].active = None /\ entry[a].queue = <<>>
    BY DEF Init, EmptyEntry
  <2>2. Members(a) = <<>> \o <<>>
    BY <2>1 DEF Members
  <2>3. <<>> \in Seq(Tasks)
    OBVIOUS
  <2>4. Members(a) = <<>>
    BY <2>2, <2>3, ConcatEmptySeq
  <2>5. LineFrom(<<>>, request) \in Seq(Place) /\ Len(LineFrom(<<>>, request)) = 0
    <3>1. \A u \in Range(<<>>) : request[u] \in Request
      BY DEF Range
    <3>2. Len(<<>>) = 0
      OBVIOUS
    <3> QED BY <2>3, <3>1, <3>2, LinePlaces, Zenon
  <2> QED BY <2>1, <2>4, <2>5 DEF LineOf, InsideOf
<1>2. TheLine = [a \in Accounts |-> <<>>] /\ TheInside = [a \in Accounts |-> None]
  BY <1>1 DEF TheLine, TheInside
<1> QED BY <1>2 DEF Line!LineInit, TheLine, TheInside, LineOf, LineFrom, InsideOf

\* The gate is a line: served in the order of arrival, closed behind a deletion, and
\* left only by the operation that ends or is cancelled (account_operations.py:52-132).
THEOREM GateServesInOrder == Spec => ServesInOrder
<1>1. Init => Line!LineInit
  BY GateStartsEmpty
<1>2. IInv /\ IInv' /\ [Next]_vars => [Line!LineNext]_Line!lineVars
  BY GateSteps
<1> QED BY <1>1, <1>2, Invariance, PTL DEF Spec, ServesInOrder, Line!LineSpec
=============================================================================
