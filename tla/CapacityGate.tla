---------------------------- MODULE CapacityGate ----------------------------
(***************************************************************************)
(* core/capacity.py: BrowserCapacityGate, the pool of leases that every    *)
(* browser operation takes before it opens a page.  As in AccountGate the  *)
(* asyncio.Lock is never held across another await, so a locked block is   *)
(* one action; "await shield(request.future)" is where tasks suspend.      *)
(*                                                                         *)
(* A task has at most one request or lease at a time, so the task stands   *)
(* for its _CapacityRequest, for the token and for the lease.              *)
(***************************************************************************)
EXTENDS Integers, FiniteSets, Deques

CONSTANTS Tasks,   \* the asyncio tasks that call acquire()
          Kinds,   \* the kinds of lease: "automation" and "interactive" in the code
          Limit,   \* [Kinds -> the number of leases of the kind]
          KindOf   \* [Tasks -> the kind of lease the task asks for]

ASSUME LimitsArePositive ==          \* __init__ raises ValueError otherwise
    /\ IsFiniteSet(Tasks)
    /\ Limit \in [Kinds -> Nat \ {0}]
    /\ KindOf \in [Tasks -> Kinds]

VARIABLES waiters,   \* [Kinds -> the queue of tasks], _waiters
          active,    \* the tasks whose request has a token, _active
          refused,   \* the tasks whose future holds BrowserCapacityClosedError
          closing,   \* _closing
          drained,   \* _drained.is_set()
          place      \* [Tasks -> where the task stands with regard to the gate]

gateVars == <<waiters, active, refused, closing, drained, place>>

\* outside:   no request and no lease
\* waiting:   suspended in acquire()
\* cancelled: task.cancel() landed on that await, its handler has not run yet
\* leased:    holds an unreleased BrowserCapacityLease
Places == {"outside", "waiting", "cancelled", "leased"}

GateInit == /\ waiters = [k \in Kinds |-> <<>>]
            /\ active = {}
            /\ refused = {}
            /\ closing = FALSE
            /\ drained = TRUE
            /\ place = [t \in Tasks |-> "outside"]

-----------------------------------------------------------------------------
Holders(k, on) == {t \in on : KindOf[t] = k}
Least(m, n) == IF m <= n THEN m ELSE n

\* How many waiters the loop of _dispatch_locked grants.
GrantsOffByOne(q, k, on) ==
    IF closing THEN 0 ELSE Least(Len(q), Limit[k] + 1 - Cardinality(Holders(k, on)))
Grants(q, k, on) ==
    IF closing \/ Limit[k] <= Cardinality(Holders(k, on)) THEN 0
    ELSE Least(Len(q), Limit[k] - Cardinality(Holders(k, on)))

\* _dispatch_locked(k) when the queue of k is q and the tasks in on have a token.
DispatchNone(k, q, on) ==
    /\ waiters' = [waiters EXCEPT ![k] = q]
    /\ active' = on
DispatchNewest(k, q, on) ==
    LET n == Grants(q, k, on) IN
    /\ waiters' = [waiters EXCEPT ![k] = SubSeq(q, 1, Len(q) - n)]
    /\ active' = on \union {q[i] : i \in (Len(q) - n + 1) .. Len(q)}
Dispatch(k, q, on) ==
    LET n == Grants(q, k, on) IN
    /\ waiters' = [waiters EXCEPT ![k] = SubSeq(q, n + 1, Len(q))]
    /\ active' = on \union {q[i] : i \in 1 .. n}

\* _set_drained_locked on the new state.
SetDrainedByWaiters == drained' = \A k \in Kinds : waiters'[k] = <<>>
SetDrained == drained' = (active' = {} /\ \A k \in Kinds : waiters'[k] = <<>>)

-----------------------------------------------------------------------------
\* acquire() up to the await; while closing it raises and changes nothing.  The
\* future of a request its own dispatch grants is done, so the await goes on.
Acquire(t) ==
    LET k == KindOf[t] IN
    /\ place[t] = "outside"
    /\ ~closing
    /\ Dispatch(k, Append(waiters[k], t), active)
    /\ drained' = FALSE
    /\ place' = [place EXCEPT ![t] = IF t \in active' THEN "leased" ELSE "waiting"]
    /\ UNCHANGED <<refused, closing>>

Resume(t) ==
    /\ place[t] = "waiting"
    /\ t \in active
    /\ place' = [place EXCEPT ![t] = "leased"]
    /\ UNCHANGED <<waiters, active, refused, closing, drained>>

Cancel(t) ==
    /\ place[t] = "waiting"
    /\ place' = [place EXCEPT ![t] = "cancelled"]
    /\ UNCHANGED <<waiters, active, refused, closing, drained>>

\* The "except BaseException" block of acquire(): the task was cancelled, or
\* begin_close put an exception into its future.
Leave(t) ==
    /\ refused' = refused \ {t}
    /\ place' = [place EXCEPT ![t] = "outside"]
    /\ UNCHANGED closing

WithdrawKeepsToken(t) ==
    /\ place[t] = "cancelled" \/ (place[t] = "waiting" /\ t \in refused)
    /\ Dispatch(KindOf[t], Without(waiters[KindOf[t]], t), active)
    /\ SetDrained
    /\ Leave(t)
Withdraw(t) ==
    /\ place[t] = "cancelled" \/ (place[t] = "waiting" /\ t \in refused)
    /\ IF t \in active
       THEN Dispatch(KindOf[t], waiters[KindOf[t]], active \ {t})
       ELSE Dispatch(KindOf[t], Without(waiters[KindOf[t]], t), active)
    /\ SetDrained
    /\ Leave(t)

\* lease.release(), the first time; _released makes every later call a no-op.
Release(t) ==
    /\ place[t] = "leased"
    /\ Dispatch(KindOf[t], waiters[KindOf[t]], active \ {t})
    /\ SetDrained
    /\ Leave(t)

\* _waiters.clear() in place of popping the requests.
BeginCloseClearsWaiters ==
    /\ ~closing
    /\ closing' = TRUE
    /\ waiters' = <<>>
    /\ drained' = (active = {})
    /\ UNCHANGED <<active, refused, place>>
\* begin_close(); a second call returns at once.
BeginClose ==
    /\ ~closing
    /\ closing' = TRUE
    /\ refused' = refused \union UNION {Range(waiters[k]) : k \in Kinds}
    /\ waiters' = [k \in Kinds |-> <<>>]
    /\ UNCHANGED active
    /\ SetDrained
    /\ UNCHANGED place

Next == \/ \E t \in Tasks : \/ Acquire(t)
                            \/ Resume(t)
                            \/ Cancel(t)
                            \/ Withdraw(t)
                            \/ Release(t)
        \/ BeginClose

Spec == GateInit /\ [][Next]_gateVars

\* The event loop runs every ready task, and the caller of acquire() releases its
\* lease when its browser operation ends.
Fairness == \A t \in Tasks : /\ WF_gateVars(Resume(t))
                             /\ WF_gateVars(Withdraw(t))
                             /\ WF_gateVars(Release(t))

FairSpec == Spec /\ Fairness

-----------------------------------------------------------------------------
GateTypeOK ==
    /\ waiters \in [Kinds -> Seq(Tasks)]
    /\ active \subseteq Tasks
    /\ refused \subseteq Tasks
    /\ closing \in BOOLEAN
    /\ drained \in BOOLEAN
    /\ place \in [Tasks -> Places]

\* Never more open browsers than the configured limit of the kind (capacity.py:53-60).
WithinLimits == \A k \in Kinds : Cardinality(Holders(k, active)) <= Limit[k]

\* A task waits only while every lease of its kind is out (capacity.py:133-144).
NoIdleCapacity == \A k \in Kinds :
    waiters[k] # <<>> => Cardinality(Holders(k, active)) = Limit[k] /\ ~closing

\* "Cancellation-safe" (capacity.py:50): a token belongs to a task that holds the
\* lease or is about to, so none is out for ever; and whoever is suspended in
\* acquire() has a token, a refusal, or one place in the queue of its kind.
TokensAreOwned ==
    /\ \A t \in active : place[t] # "outside"
    /\ \A t \in Tasks :
          /\ place[t] = "leased" => t \in active
          /\ place[t] \in {"waiting", "cancelled"} =>
                t \in active \union refused \union Range(waiters[KindOf[t]])

\* wait_drained() returns exactly when no lease is out and nobody waits for one.
DrainedTellsTheTruth ==
    drained <=> active = {} /\ \A k \in Kinds : waiters[k] = <<>>

\* "FIFO" (capacity.py:50): of two waiters of a kind the later one is never granted
\* before the earlier one.
OldestFirst == [][\A k \in Kinds : \A i, j \in DOMAIN waiters[k] :
                    i < j /\ waiters[k][j] \in active' => waiters[k][i] \in active']_gateVars

\* Every acquire() ends, with a lease or with an exception, and a closed gate drains.
EveryWaiterLeaves == \A t \in Tasks : place[t] = "waiting" ~> place[t] # "waiting"
ClosedGateDrains == closing ~> drained
=============================================================================
