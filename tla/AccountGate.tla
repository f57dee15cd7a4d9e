---------------------------- MODULE AccountGate ----------------------------
(***************************************************************************)
(* core/account_operations.py: AccountOperationGate.                       *)
(*                                                                         *)
(* The gate's asyncio.Lock is never held across another await, so every    *)
(* locked block runs without interleaving and is one action.  The awaits   *)
(* that do suspend are "await shield(request.future)" and the guarded      *)
(* body; task.cancel() can land on either of them, also between the grant  *)
(* and the moment the granted task runs again.                             *)
(***************************************************************************)
EXTENDS Naturals, Deques

CONSTANTS Tasks,     \* the asyncio tasks that call use() or delete()
          Accounts,  \* the account identifiers
          None       \* stands for Python's None

VARIABLES retained,  \* the keys of _entries
          entry,     \* [Accounts -> _AccountEntry]; EmptyEntry for the others
          granted,   \* the tasks whose request has granted = True, its future set
          request,   \* [Tasks -> the _OperationRequest in flight, or None]
          pc         \* [Tasks -> where the task stands]

vars == <<retained, entry, granted, request, pc>>

Kinds == {"use", "delete"}
Request == [account : Accounts, kind : Kinds]
Entry == [queue : Seq(Tasks), active : Tasks \union {None}, deleting : BOOLEAN]

ASSUME NoneIsNoValue == None \notin Tasks /\ None \notin Request

EmptyEntry == [queue |-> <<>>, active |-> None, deleting |-> FALSE]

\* idle:      no call in flight
\* waiting:   suspended in "await asyncio.shield(request.future)"
\* cancelled: task.cancel() landed on that await, its handler has not run yet
\* body:      inside "async with gate.use(...)" or "async with gate.delete(...)"
Places == {"idle", "waiting", "cancelled", "body"}

Init == /\ retained = {}
        /\ entry = [a \in Accounts |-> EmptyEntry]
        /\ granted = {}
        /\ request = [t \in Tasks |-> None]
        /\ pc = [t \in Tasks |-> "idle"]

-----------------------------------------------------------------------------
\* _dispatch_locked: promote the oldest request when nobody is active.  No future
\* is done while its request is queued (shield keeps cancellation away from it),
\* so the loop's "continue" is never taken.
DispatchAnyway(e) ==
    IF e.queue = <<>> THEN e
    ELSE [e EXCEPT !.active = Head(e.queue), !.queue = Tail(e.queue)]
DispatchNewest(e) ==
    IF e.active # None \/ e.queue = <<>> THEN e
    ELSE [e EXCEPT !.active = Last(e.queue), !.queue = Front(e.queue)]
Dispatch(e) ==
    IF e.active # None \/ e.queue = <<>> THEN e
    ELSE [e EXCEPT !.active = Head(e.queue), !.queue = Tail(e.queue)]

\* _cleanup_locked: the test under which the entry is popped from _entries.
IsIdle(e) == e.active = None /\ e.queue = <<>> /\ ~e.deleting

\* Request of t is finished with, and _dispatch_locked and _cleanup_locked run on
\* what it leaves of the entry of account a.
SettleWithoutDispatch(a, e, t) ==
    /\ entry' = [entry EXCEPT ![a] = e]
    /\ granted' = granted \ {t}
    /\ retained' = IF IsIdle(e) THEN retained \ {a} ELSE retained
SettleWithoutCleanup(a, e, t) ==
    LET d == Dispatch(e) IN
    /\ entry' = [entry EXCEPT ![a] = d]
    /\ granted' = (granted \union ({d.active} \ {None})) \ {t}
    /\ UNCHANGED retained
Settle(a, e, t) ==
    LET d == Dispatch(e) IN
    /\ entry' = [entry EXCEPT ![a] = d]
    /\ granted' = (granted \union ({d.active} \ {None})) \ {t}
    /\ retained' = IF IsIdle(d) THEN retained \ {a} ELSE retained

-----------------------------------------------------------------------------
\* _acquire up to the await.  The future of a request granted by its own dispatch
\* is already done, and awaiting it does not suspend.  A rejected request changes
\* nothing, so only the accepted one is a step.
Enqueue(t, a, k) ==
    LET old == entry[a]
        new == Dispatch([old EXCEPT !.queue = Append(@, t),
                                    !.deleting = @ \/ k = "delete"])
        now == new.active = t
    IN  /\ retained' = retained \union {a}
        /\ entry' = [entry EXCEPT ![a] = new]
        /\ granted' = IF now THEN granted \union {t} ELSE granted
        /\ request' = [request EXCEPT ![t] = [account |-> a, kind |-> k]]
        /\ pc' = [pc EXCEPT ![t] = IF now THEN "body" ELSE "waiting"]

AcquireAlways(t, a, k) == pc[t] = "idle" /\ Enqueue(t, a, k)
Acquire(t, a, k) ==
    /\ pc[t] = "idle"
    /\ ~entry[a].deleting
    /\ Enqueue(t, a, k)

\* The event loop resumes a task whose future was set by somebody's dispatch.
Resume(t) ==
    /\ pc[t] = "waiting"
    /\ t \in granted
    /\ pc' = [pc EXCEPT ![t] = "body"]
    /\ UNCHANGED <<retained, entry, granted, request>>

\* task.cancel() on a suspended task, whether or not its future is already set.
Cancel(t) ==
    /\ pc[t] = "waiting"
    /\ pc' = [pc EXCEPT ![t] = "cancelled"]
    /\ UNCHANGED <<retained, entry, granted, request>>

Forget(t) ==
    /\ request' = [request EXCEPT ![t] = None]
    /\ pc' = [pc EXCEPT ![t] = "idle"]

\* The entry as the cancellation handler leaves it before _dispatch_locked.
WithdrawnEntry(t, e) ==
    LET e1 == IF t \in granted /\ e.active = t
              THEN [e EXCEPT !.active = None]
              ELSE [e EXCEPT !.queue = Without(@, t)]
    IN  IF request[t].kind = "delete" THEN [e1 EXCEPT !.deleting = FALSE] ELSE e1

\* The "except BaseException" block of _acquire.
Withdraw(t) ==
    LET a == request[t].account IN
    /\ pc[t] = "cancelled"
    /\ IF a \in retained THEN Settle(a, WithdrawnEntry(t, entry[a]), t)
       ELSE granted' = granted \ {t} /\ UNCHANGED <<retained, entry>>
    /\ Forget(t)

\* The entry as _release leaves it before _dispatch_locked.
ReleasedEntry(t, e, succeeded) ==
    LET e1 == [e EXCEPT !.active = None]
    IN  IF request[t].kind # "delete" THEN e1
        ELSE IF succeeded THEN [e1 EXCEPT !.deleting = FALSE, !.queue = <<>>]
        ELSE [e1 EXCEPT !.deleting = FALSE]

\* The finally block of use() and delete(): the body returned, raised or was
\* cancelled; only a deletion that returned has succeeded.
Release(t, succeeded) ==
    LET a == request[t].account IN
    /\ pc[t] = "body"
    /\ succeeded => request[t].kind = "delete"
    /\ IF a \in retained /\ entry[a].active = t
       THEN Settle(a, ReleasedEntry(t, entry[a], succeeded), t)
       ELSE granted' = granted \ {t} /\ UNCHANGED <<retained, entry>>
    /\ Forget(t)

Next == \E t \in Tasks :
    \/ \E a \in Accounts, k \in Kinds : Acquire(t, a, k)
    \/ Resume(t)
    \/ Cancel(t)
    \/ Withdraw(t)
    \/ \E s \in BOOLEAN : Release(t, s)

Spec == Init /\ [][Next]_vars

\* The event loop runs every ready task; a guarded body ends (plugins bound their
\* requests and polls); cancellation and new requests are the environment's choice.
Fairness == \A t \in Tasks :
    /\ WF_vars(Resume(t))
    /\ WF_vars(Withdraw(t))
    /\ WF_vars(\E s \in BOOLEAN : Release(t, s))

FairSpec == Spec /\ Fairness
-----------------------------------------------------------------------------
TypeOK ==
    /\ retained \subseteq Accounts
    /\ entry \in [Accounts -> Entry]
    /\ granted \subseteq Tasks
    /\ request \in [Tasks -> Request \union {None}]
    /\ pc \in [Tasks -> Places]

Queued(t) == \E a \in Accounts : \E i \in DOMAIN entry[a].queue : entry[a].queue[i] = t

\* "Serialize account use/delete operations" (account_operations.py:34): no two
\* tasks run a guarded body of the same account.
MutualExclusion ==
    \A t, u \in Tasks :
        /\ pc[t] = "body" /\ pc[u] = "body" /\ t # u
        => request[t].account # request[u].account

\* Whoever is suspended in _acquire is still known to the gate: granted and active,
\* or queued on its account.  So the queue.clear() of a successful deletion, and a
\* cleanup that pops the entry, never drop a caller that would then wait for ever.
NoWaiterDropped ==
    \A t \in Tasks : pc[t] \in {"waiting", "cancelled"} =>
        LET e == entry[request[t].account] IN
        /\ request[t].account \in retained
        /\ \/ e.active = t /\ t \in granted
           \/ t \notin granted /\ \E i \in DOMAIN e.queue : e.queue[i] = t

\* "... without retaining idle locks" (account_operations.py:34): an account has an
\* entry exactly while an operation on it is active, so nobody waits for an idle
\* account and no entry outlives its last operation.
RetainedWhileActive ==
    \A a \in Accounts : /\ a \in retained <=> entry[a].active # None
                        /\ a \notin retained => entry[a] = EmptyEntry

\* New operations are turned away exactly while a deletion waits or runs.
DeletingTellsTheTruth ==
    \A a \in Accounts : entry[a].deleting <=>
        \E t \in Tasks : request[t] = [account |-> a, kind |-> "delete"]

-----------------------------------------------------------------------------
(* The line of AccountLine is the active request followed by the queue. *)
Members(a) == (IF entry[a].active = None THEN <<>> ELSE <<entry[a].active>>)
              \o entry[a].queue

Line == INSTANCE AccountLine WITH
    line <- [a \in Accounts |-> [i \in DOMAIN Members(a) |->
                [task |-> Members(a)[i], kind |-> request[Members(a)[i]].kind]]],
    inside <- [a \in Accounts |->
                IF entry[a].active # None /\ pc[entry[a].active] = "body"
                THEN entry[a].active ELSE None]

\* The gate serves each account in the order of arrival, lets nobody join behind a
\* deletion, and removes from the line only the operation that leaves.
ServesInOrder == Line!LineSpec

\* Whatever the cancellations around it, every caller of use() or delete() leaves
\* the await: it gets the account, or its own cancellation takes it out.
EveryWaiterLeaves == \A t \in Tasks : pc[t] = "waiting" ~> pc[t] # "waiting"
=============================================================================
