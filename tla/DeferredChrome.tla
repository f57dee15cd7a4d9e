--------------------------- MODULE DeferredChrome ---------------------------
(***************************************************************************)
(* core/browser_sessions.py: DeferredChromeBrowserSessionManager, which    *)
(* launches an ordinary Chrome for an interactive login and attaches to it *)
(* only afterwards.  A session is a registered record, a process, a        *)
(* profile directory and a lease, taken and given up one await at a time.  *)
(*                                                                         *)
(* A session goes by the name of the start() that makes it.  The capacity  *)
(* gate is reduced to its counter (CapacityGate has the rest).  Locks are  *)
(* asyncio locks: asked for and got in two steps.                          *)
(***************************************************************************)
EXTENDS Naturals, FiniteSets

CONSTANTS Starts,     \* the calls of start()
          Accounts,
          Calls,      \* the accounts start() may be called for: functions [Starts -> Accounts]
          Users,      \* the requests on a session
          Sweeper,    \* the task of BrowserSessionCleanupCoordinator
          Closer,     \* the task that runs close_all()
          Limit,      \* interactive leases
          Nothing

Procs == Starts \union Users \union {Sweeper, Closer}

ASSUME DeferredAssumption ==
    /\ Limit \in Nat \ {0} /\ Calls \subseteq [Starts -> Accounts]
    /\ Starts \intersect Users = {} /\ Sweeper # Closer
    /\ {Sweeper, Closer} \intersect (Starts \union Users) = {}
    /\ Nothing \notin Procs \union Accounts

VARIABLES sessions,  \* the keys of _native_sessions
          current,   \* [Accounts -> _account_sessions, Nothing where it has no key]
          alive,     \* the sessions whose Chrome runs
          profiles,  \* the sessions whose profile directory exists
          leased,    \* the sessions whose lease is out
          idle,      \* the sessions with last_activity older than the timeout
          closing,   \* begin_close() has been called
          manager,   \* the holder of _manager_lock, or Nothing
          oplock,    \* [Starts -> the holder of the session's operation_lock, or Nothing]
          todo,      \* what the holder of the manager lock has still to visit
          pc, on,    \* [Procs -> where the process stands, and with which session]
          accountOf, \* [Starts -> the account start() is called for]
          lost       \* the sessions whose close the stopped sweep has abandoned

resources == <<alive, profiles, leased>>
locks == <<manager, oplock, todo>>
fixed == <<accountOf, lost>>
deferredVars == <<sessions, current, resources, idle, closing, locks, pc, on, fixed>>

\* first, second, sweep, expire, close, shutdown: waiting for the manager lock
\* visiting, emptying: in a loop over todo, holding it
\* acquiring, launching, opening: start() waits for its lease, the process, the port
\* closing, keeping: _close_native_locked waits for the operation lock; keeping saves
\* saving, terminating, removing, releasing: its further awaits, or start()'s finally
\* tidying: rmtree for a Chrome that is gone    queueing, operating: the user operations
\* draining: close_all() waits for the leases
Over == {"out", "made", "failed", "stopped", "closed", "aborted"}
Waiting == {"first", "second", "sweep", "expire", "close", "shutdown"}
Winding == {"closing", "keeping", "saving", "terminating", "removing", "releasing"}
Stands == Over \union Waiting \union Winding
          \union {"visiting", "emptying", "acquiring", "launching", "opening", "tidying",
                  "queueing", "operating", "draining"}

DeferredInit ==
    /\ sessions = {} /\ alive = {} /\ profiles = {} /\ leased = {} /\ idle = {}
    /\ todo = {} /\ lost = {} /\ closing = FALSE /\ manager = Nothing
    /\ accountOf \in Calls
    /\ current = [a \in Accounts |-> Nothing]
    /\ oplock = [s \in Starts |-> Nothing]
    /\ pc = [p \in Procs |-> "out"] /\ on = [p \in Procs |-> Nothing]

-----------------------------------------------------------------------------
At(p, place) == pc[p] = place
Go(p, place, s) == pc' = [pc EXCEPT ![p] = place] /\ on' = [on EXCEPT ![p] = s]

\* What an exception makes of the call of p, and what start() still has to undo.
Abandon(p) ==
    IF p \in leased THEN Go(p, "terminating", p)
    ELSE Go(p, CASE p \in Starts -> "failed" [] p = Closer -> "aborted" [] OTHER -> "out", Nothing)

\* _close_native_locked up to its first await, p holding the manager lock.
Close(p, s, how) ==
    IF s \in sessions
    THEN /\ sessions' = sessions \ {s}
         /\ current' = [current EXCEPT ![accountOf[s]] = Nothing]
         /\ manager' = p /\ Go(p, how, s)
    ELSE /\ UNCHANGED <<sessions, current>>
         /\ manager' = Nothing /\ Abandon(p)

-----------------------------------------------------------------------------
(* _close_native_locked, from the operation lock on *)

CloseEnter(p) ==
    /\ pc[p] \in {"closing", "keeping"} /\ oplock[on[p]] = Nothing
    /\ oplock' = [oplock EXCEPT ![on[p]] = p]
    /\ Go(p, IF At(p, "keeping") THEN "saving" ELSE "terminating", on[p])
    /\ UNCHANGED <<sessions, current, resources, idle, closing, manager, todo, fixed>>

\* Attached and captured, or not: the session is shut down all the same.
Saved(p) == /\ At(p, "saving") /\ Go(p, "terminating", on[p])
            /\ UNCHANGED <<sessions, current, resources, idle, closing, locks, fixed>>

Terminate(p) ==
    /\ At(p, "terminating")
    /\ alive' = alive \ {on[p]} /\ Go(p, "removing", on[p])
    /\ UNCHANGED <<sessions, current, profiles, leased, idle, closing, locks, fixed>>

Remove(p) ==
    /\ At(p, "removing")
    /\ profiles' = profiles \ {on[p]} /\ Go(p, "releasing", on[p])
    /\ UNCHANGED <<sessions, current, alive, leased, idle, closing, locks, fixed>>

\* The call goes back to where it closed the session from.
Release(p) ==
    /\ At(p, "releasing")
    /\ leased' = leased \ {on[p]}
    /\ oplock' = [oplock EXCEPT ![on[p]] = IF @ = p THEN Nothing ELSE @]
    /\ CASE p \in Users -> Go(p, "out", Nothing) /\ manager' = Nothing
         [] on[p] = p   -> Go(p, "failed", Nothing) /\ UNCHANGED manager
         [] p = Closer  -> Go(p, "emptying", Nothing) /\ UNCHANGED manager
         [] OTHER       -> Go(p, "visiting", Nothing) /\ UNCHANGED manager
    /\ UNCHANGED <<sessions, current, alive, profiles, idle, closing, todo, fixed>>

-----------------------------------------------------------------------------
(* _cleanup_expired_native_locked: on the way into start(), twice, and in the sweep *)

Call(p) ==
    /\ At(p, "out")
    /\ \/ p \in Starts /\ Go(p, "first", Nothing)
       \/ p = Sweeper /\ Go(p, "sweep", Nothing)
    /\ UNCHANGED <<sessions, current, resources, idle, closing, locks, fixed>>

EnterUnchecked(p) ==
    /\ pc[p] \in {"first", "second", "sweep"} /\ manager = Nothing
    /\ manager' = p /\ todo' = sessions /\ Go(p, "visiting", Nothing)
    /\ UNCHANGED <<sessions, current, resources, idle, closing, oplock, fixed>>
\* A start() that has its lease looks at _closing first.
Enter(p) ==
    /\ pc[p] \in {"first", "second", "sweep"} /\ manager = Nothing
    /\ IF At(p, "second") /\ closing
       THEN Abandon(p) /\ UNCHANGED <<manager, todo>>
       ELSE manager' = p /\ todo' = sessions /\ Go(p, "visiting", Nothing)
    /\ UNCHANGED <<sessions, current, resources, idle, closing, oplock, fixed>>

\* The next expired session; one that was discarded meanwhile raises.
Visit(p, s) ==
    /\ At(p, "visiting") /\ s \in todo \intersect idle
    /\ todo' = todo \ {s}
    /\ Close(p, s, "closing")
    /\ UNCHANGED <<resources, idle, closing, oplock, fixed>>

VisitsDone(p) == At(p, "visiting") /\ todo \intersect idle = {}

SweepEnds ==
    /\ VisitsDone(Sweeper)
    /\ manager' = Nothing /\ Go(Sweeper, "out", Nothing)
    /\ UNCHANGED <<sessions, current, resources, idle, closing, oplock, todo, fixed>>

-----------------------------------------------------------------------------
(* start() *)

Replace(t) ==
    /\ t \in Starts /\ VisitsDone(t) /\ current[accountOf[t]] # Nothing
    /\ Close(t, current[accountOf[t]], "closing")
    /\ todo' = {}
    /\ UNCHANGED <<resources, idle, closing, oplock, fixed>>

AskForLease(t) ==
    /\ t \in Starts \ leased /\ VisitsDone(t) /\ current[accountOf[t]] = Nothing
    /\ manager' = Nothing /\ Go(t, "acquiring", Nothing)
    /\ UNCHANGED <<sessions, current, resources, idle, closing, oplock, todo, fixed>>

AcquireUnrefused(t) ==
    /\ At(t, "acquiring") /\ ~closing /\ Cardinality(leased) < Limit
    /\ leased' = leased \union {t} /\ Go(t, "second", Nothing)
    /\ UNCHANGED <<sessions, current, alive, profiles, idle, closing, locks, fixed>>
\* capacity.acquire(): a lease, or a refusal once the gate is closed.
Acquire(t) ==
    /\ At(t, "acquiring")
    /\ \/ closing /\ Go(t, "failed", Nothing) /\ UNCHANGED leased
       \/ /\ ~closing /\ Cardinality(leased) < Limit
          /\ leased' = leased \union {t} /\ Go(t, "second", Nothing)
    /\ UNCHANGED <<sessions, current, alive, profiles, idle, closing, locks, fixed>>

\* The executable may be missing; the directory is new.
Launch(t) ==
    /\ t \in leased /\ VisitsDone(t) /\ current[accountOf[t]] = Nothing
    /\ \/ profiles' = profiles \union {t} /\ Go(t, "launching", Nothing) /\ UNCHANGED manager
       \/ manager' = Nothing /\ Abandon(t) /\ UNCHANGED profiles
    /\ UNCHANGED <<sessions, current, alive, leased, idle, closing, oplock, todo, fixed>>

Spawn(t) ==
    /\ At(t, "launching")
    /\ \/ alive' = alive \union {t} /\ Go(t, "opening", Nothing) /\ UNCHANGED manager
       \/ manager' = Nothing /\ Abandon(t) /\ UNCHANGED alive
    /\ UNCHANGED <<sessions, current, profiles, leased, idle, closing, oplock, todo, fixed>>

PortOpens(t) ==
    /\ At(t, "opening") /\ t \in alive
    /\ sessions' = sessions \union {t}
    /\ current' = [current EXCEPT ![accountOf[t]] = t]
    /\ manager' = Nothing /\ Go(t, "made", Nothing)
    /\ UNCHANGED <<resources, idle, closing, oplock, todo, fixed>>

\* Chrome has exited, or eight seconds have passed.  The finally block runs without the
\* manager lock.
PortFails(t) ==
    /\ At(t, "opening")
    /\ manager' = Nothing /\ Abandon(t)
    /\ UNCHANGED <<sessions, current, resources, idle, closing, oplock, todo, fixed>>

-----------------------------------------------------------------------------
(* The requests on a session: _get_native, then the operation *)

\* get_info and focus change nothing here and may lead to close().
Get(u, s) ==
    /\ At(u, "out") /\ s \in (sessions \intersect alive) \ idle
    /\ \E next \in {"close", "queueing"} : Go(u, next, s)
    /\ UNCHANGED <<sessions, current, resources, idle, closing, locks, fixed>>

\* Expiry waits for the manager lock and does not look again.
GetExpired(u, s) ==
    /\ At(u, "out") /\ s \in sessions \intersect alive \intersect idle
    /\ Go(u, "expire", s)
    /\ UNCHANGED <<sessions, current, resources, idle, closing, locks, fixed>>

\* Chrome is gone: _discard_native, without the manager lock, then rmtree.
GetDead(u, s) ==
    /\ At(u, "out") /\ s \in sessions \ alive
    /\ sessions' = sessions \ {s}
    /\ current' = [current EXCEPT ![accountOf[s]] = IF @ = s THEN Nothing ELSE @]
    /\ leased' = leased \ {s}
    /\ Go(u, "tidying", s)
    /\ UNCHANGED <<alive, profiles, idle, closing, locks, fixed>>

Tidy(u) == /\ At(u, "tidying")
           /\ profiles' = profiles \ {on[u]} /\ Go(u, "out", Nothing)
           /\ UNCHANGED <<sessions, current, alive, leased, idle, closing, locks, fixed>>

\* mark_activity is over as soon as it has the lock, login_is_complete attaches first.
Operate(u) ==
    /\ At(u, "queueing") /\ oplock[on[u]] = Nothing
    /\ idle' = idle \ {on[u]}
    /\ \/ Go(u, "out", Nothing) /\ UNCHANGED oplock
       \/ Go(u, "operating", on[u]) /\ oplock' = [oplock EXCEPT ![on[u]] = u]
    /\ UNCHANGED <<sessions, current, resources, closing, manager, todo, fixed>>

\* The login was seen and the session is closed and saved next, or the request is over.
Operated(u) ==
    /\ At(u, "operating")
    /\ oplock' = [oplock EXCEPT ![on[u]] = Nothing]
    /\ Go(u, "out", Nothing) \/ Go(u, "close", on[u])
    /\ UNCHANGED <<sessions, current, resources, idle, closing, manager, todo, fixed>>

UserCloses(u) ==
    /\ pc[u] \in {"expire", "close"} /\ manager = Nothing
    /\ \E how \in IF At(u, "close") THEN {"closing", "keeping"} ELSE {"closing"} :
          Close(u, on[u], how)
    /\ UNCHANGED <<resources, idle, closing, oplock, todo, fixed>>

-----------------------------------------------------------------------------
(* The shutdown: browser_cleanup.stop(), then close_all() *)

\* The sweep is cancelled at whichever await it stands.  The thread of rmtree goes on; a
\* Chrome that was told to terminate may do so.
StopSweeper ==
    /\ ~At(Sweeper, "stopped")
    /\ LET s == on[Sweeper] IN
       /\ lost' = IF pc[Sweeper] \in Winding THEN lost \union {s} ELSE lost
       /\ oplock' = [t \in Starts |-> IF oplock[t] = Sweeper THEN Nothing ELSE oplock[t]]
       /\ alive' \in IF At(Sweeper, "terminating") THEN {alive, alive \ {s}} ELSE {alive}
       /\ profiles' = IF At(Sweeper, "removing") THEN profiles \ {s} ELSE profiles
    /\ manager' = IF manager = Sweeper THEN Nothing ELSE manager
    /\ Go(Sweeper, "stopped", Nothing)
    /\ UNCHANGED <<sessions, current, leased, idle, closing, todo, accountOf>>

BeginClose ==
    /\ At(Closer, "out") /\ At(Sweeper, "stopped")
    /\ closing' = TRUE /\ Go(Closer, "shutdown", Nothing)
    /\ UNCHANGED <<sessions, current, resources, idle, locks, fixed>>

CloseAll ==
    /\ At(Closer, "shutdown") /\ manager = Nothing
    /\ manager' = Closer /\ todo' = sessions /\ Go(Closer, "emptying", Nothing)
    /\ UNCHANGED <<sessions, current, resources, idle, closing, oplock, fixed>>

Empty(s) ==
    /\ At(Closer, "emptying") /\ s \in todo
    /\ todo' = todo \ {s}
    /\ Close(Closer, s, "closing")
    /\ UNCHANGED <<resources, idle, closing, oplock, fixed>>

\* super().close_all() finds no sessions of its own.
Emptied ==
    /\ At(Closer, "emptying") /\ todo = {}
    /\ manager' = Nothing /\ Go(Closer, "draining", Nothing)
    /\ UNCHANGED <<sessions, current, resources, idle, closing, oplock, todo, fixed>>

Drained ==
    /\ At(Closer, "draining") /\ manager = Nothing /\ leased = {}
    /\ Go(Closer, "closed", Nothing)
    /\ UNCHANGED <<sessions, current, resources, idle, closing, locks, fixed>>

-----------------------------------------------------------------------------
(* The user at the window, and the clock *)

ChromeExits(s) ==
    /\ s \in alive /\ alive' = alive \ {s}
    /\ UNCHANGED <<sessions, current, profiles, leased, idle, closing, locks, pc, on, fixed>>

GrowsIdle(s) ==
    /\ At(s, "made") /\ s \notin idle /\ idle' = idle \union {s}
    /\ UNCHANGED <<sessions, current, resources, closing, locks, pc, on, fixed>>

-----------------------------------------------------------------------------
\* The steps of a call once it is made.
Step(p) ==
    \/ CloseEnter(p) \/ Saved(p) \/ Terminate(p) \/ Remove(p) \/ Release(p)
    \/ Enter(p) \/ \E s \in Starts : Visit(p, s)
    \/ p = Sweeper /\ SweepEnds
    \/ p \in Starts /\ (Replace(p) \/ AskForLease(p) \/ Acquire(p) \/ Launch(p) \/ Spawn(p)
                        \/ PortOpens(p) \/ PortFails(p))
    \/ p \in Users /\ (Tidy(p) \/ Operate(p) \/ Operated(p) \/ UserCloses(p))
    \/ p = Closer /\ (CloseAll \/ (\E s \in Starts : Empty(s)) \/ Emptied \/ Drained)

DeferredNext ==
    \/ \E p \in Procs : Step(p) \/ Call(p)
    \/ \E u \in Users, s \in Starts : Get(u, s) \/ GetExpired(u, s) \/ GetDead(u, s)
    \/ StopSweeper \/ BeginClose
    \/ \E s \in Starts : ChromeExits(s) \/ GrowsIdle(s)

DeferredSpec == DeferredInit /\ [][DeferredNext]_deferredVars

\* A call that can go on does, and the locks serve in order of arrival.
FairDeferredSpec == DeferredSpec /\ \A p \in Procs : SF_deferredVars(Step(p))
-----------------------------------------------------------------------------
DeferredTypeOK ==
    /\ sessions \subseteq Starts /\ alive \subseteq Starts /\ profiles \subseteq Starts
    /\ leased \subseteq Starts /\ idle \subseteq Starts /\ todo \subseteq Starts
    /\ accountOf \in Calls
    /\ lost \subseteq Starts /\ closing \in BOOLEAN
    /\ current \in [Accounts -> Starts \union {Nothing}]
    /\ manager \in Procs \union {Nothing}
    /\ oplock \in [Starts -> Procs \union {Nothing}]
    /\ pc \in [Procs -> Stands] /\ on \in [Procs -> Starts \union {Nothing}]

\* Somebody is busy making s or getting rid of it.
InHand(s) == \/ pc[s] \in {"second", "visiting", "launching", "opening"} \union Winding
             \/ \E p \in Procs : on[p] = s /\ pc[p] \in Winding \union {"tidying"}

\* Nothing of a session is forgotten: a Chrome that runs, a profile directory (it holds
\* the login) and a lease belong to a registered session or to somebody who is about to
\* remove them, on every path out of _native_sessions; the one exception is a session
\* whose close the stopped sweep has abandoned.  A registered session has its profile,
\* its lease and its account's entry.  close_all() that has got past its sessions lets none
\* in, and when it returns nothing is left but a profile that a request still removes.
NothingForgotten ==
    /\ DeferredTypeOK
    /\ \A s \in alive \union profiles \union leased : s \in sessions \union lost \/ InHand(s)
    /\ sessions \subseteq profiles \intersect leased
    /\ \A s \in sessions : current[accountOf[s]] = s
    /\ pc[Closer] \in {"draining", "closed"} => sessions = {}
    /\ At(Closer, "closed") =>
          /\ alive = {}
          /\ \A s \in profiles : \E u \in Users : At(u, "tidying") /\ on[u] = s

\* No circle of waiting: every start() ends, unless it waits for a lease of a session
\* that a user has still to close; so does every request, every sweep, and close_all(),
\* if the sweep has not abandoned a session with its lease.
DeferredEnds ==
    /\ \A p \in Procs \ {Closer} :
          pc[p] \notin Over \union {"acquiring"} ~> pc[p] \in Over \union {"acquiring"}
    /\ \A t \in Starts : At(t, "acquiring") /\ closing ~> pc[t] \in Over
    /\ At(Closer, "shutdown") ~> pc[Closer] \in {"closed", "aborted"} \/ lost # {}
=============================================================================
