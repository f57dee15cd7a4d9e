------------------------ MODULE InteractiveSessions ------------------------
(***************************************************************************)
(* core/browser_sessions.py: the interactive sessions of                   *)
(* BrowserSessionManager (start, the user operations, close, expiry, the   *)
(* page events), the sweep of BrowserSessionCleanupCoordinator, and        *)
(* close_all() over open sessions.  The capacity gate is CapacityGate.     *)
(*                                                                         *)
(* Tasks are the calls of start(); each makes at most one session, which   *)
(* goes by the name of its call.  Asking for the manager lock or for the   *)
(* operation lock of a session and getting it are two steps; the init lock *)
(* of the browser is only taken under the manager lock here (automations   *)
(* are the subject of BrowserAutomation).                                  *)
(***************************************************************************)
EXTENDS CapacityGate

CONSTANTS Accounts,   \* the account identifiers
          AccountOf,  \* [Tasks -> the account start() is called for]
          Users,      \* the requests that operate on a session or close it
          Sweeper,    \* the task of BrowserSessionCleanupCoordinator
          Closer,     \* the task that runs close_all() at shutdown
          None

Procs == Tasks \union Users \union {Sweeper, Closer}

ASSUME NamesAreApart ==
    /\ AccountOf \in [Tasks -> Accounts]
    /\ Tasks \intersect Users = {} /\ Sweeper # Closer
    /\ {Sweeper, Closer} \intersect (Tasks \union Users) = {}
    /\ None \notin Procs \union Accounts

VARIABLES sessions,  \* the keys of _sessions
          current,   \* [Accounts -> _account_sessions, None where it has no key]
          open,      \* the sessions whose BrowserContext is open
          dead,      \* the sessions whose current page has been closed
          idle,      \* the sessions with last_activity older than the timeout
          manager,   \* the holder of _manager_lock, or None
          oplock,    \* [Tasks -> the holder of the session's operation_lock, or None]
          pc,        \* [Procs -> where the process stands]
          on,        \* [Procs -> the session it is busy with, or None]
          todo       \* what the holder of the manager lock has still to visit

sessVars == <<sessions, current, open, dead, idle, manager, oplock, pc, on, todo>>
vars == <<gateVars, sessVars>>

\* out:       not called                   done, closed, aborted, stopped: ended
\* Waiting for the manager lock:
\*   first, second: start(), before and after it takes its lease
\*   sweep, expire, close, shutdown: cleanup_expired(), _get(), close(), close_all()
\* acquiring: await capacity.acquire()
\* Holding the manager lock:
\*   visiting:  the loop of _cleanup_expired_locked   expiring: await operation_lock
\*   discarded: await context.close() of an expired session
\*   closing:   _close_locked, await operation_lock    saving: await the state's capture
\*   leaving:   await context.close() in _close_locked
\*   opening, reopening: start() from _ensure_browser() to page.goto()
\*   resetting: _reset_browser()   naming: await page.title()
\*   emptying:  the loop of close_all()
\* Not holding it: queueing (await operation_lock), operating (await the page's call),
\*   failing (await context.close() after a TargetClosedError), draining.
Waiting == {"first", "second", "sweep", "expire", "close", "shutdown"}
Managing == {"visiting", "expiring", "discarded", "closing", "saving", "reviving",
             "leaving", "opening", "reopening", "resetting", "naming", "emptying"}
Ended == {"out", "done", "closed", "aborted", "stopped"}
Stands == Waiting \union Managing \union Ended
          \union {"acquiring", "queueing", "operating", "failing", "draining"}

Init == /\ GateInit
        /\ sessions = {} /\ open = {} /\ dead = {} /\ idle = {} /\ todo = {}
        /\ current = [a \in Accounts |-> None]
        /\ manager = None
        /\ oplock = [s \in Tasks |-> None]
        /\ pc = [p \in Procs |-> "out"]
        /\ on = [p \in Procs |-> None]

-----------------------------------------------------------------------------
Goto(p, place2) == pc' = [pc EXCEPT ![p] = place2]
\* The call of p is over and has let the manager lock go.
Unlock(p, place2) == manager' = None /\ Goto(p, place2) /\ on' = [on EXCEPT ![p] = None]
Hold(p, s) == oplock' = [oplock EXCEPT ![s] = p]
LetGo(s) == oplock' = [oplock EXCEPT ![s] = None]

\* lease.release(): only the first call for a lease does anything.
ReleaseLease(s) == IF place[s] = "leased" THEN Release(s) ELSE UNCHANGED gateVars

\* The two pops of _close_locked.
Pop(s) == /\ sessions' = sessions \ {s}
          /\ current' = [current EXCEPT ![AccountOf[s]] = None]

DiscardAnyCurrent(s) == Pop(s) /\ ReleaseLease(s)
\* _discard_session: whoever discards second finds nothing left to do.
Discard(s) ==
    /\ sessions' = sessions \ {s}
    /\ current' = IF current[AccountOf[s]] = s
                  THEN [current EXCEPT ![AccountOf[s]] = None] ELSE current
    /\ ReleaseLease(s)

-----------------------------------------------------------------------------
(* _expire_session_locked and _cleanup_expired_locked; p holds the manager lock. *)

StartCall(t) == /\ pc[t] = "out"
                /\ Goto(t, "first")
                /\ UNCHANGED <<gateVars, sessions, current, open, dead, idle, manager,
                               oplock, on, todo>>

SweepCall == /\ pc[Sweeper] = "out"
             /\ Goto(Sweeper, "sweep")
             /\ UNCHANGED <<gateVars, sessions, current, open, dead, idle, manager,
                            oplock, on, todo>>

BeginVisitsUnchecked(p) ==
    /\ manager = None
    /\ pc[p] \in {"first", "second", "sweep"}
    /\ manager' = p
    /\ todo' = sessions
    /\ Goto(p, "visiting")
    /\ UNCHANGED <<gateVars, sessions, current, open, dead, idle, oplock, on>>
\* list(self._sessions), on the way into start() (twice) or into the sweep.
BeginVisits(p) ==
    /\ manager = None
    /\ pc[p] \in {"first", "sweep"} \/ (pc[p] = "second" /\ ~closing)
    /\ manager' = p
    /\ todo' = sessions
    /\ Goto(p, "visiting")
    /\ UNCHANGED <<gateVars, sessions, current, open, dead, idle, oplock, on>>

\* A session that is gone by the time it is visited is passed over.
Visit(p, s) ==
    /\ pc[p] = "visiting"
    /\ s \in todo
    /\ todo' = todo \ {s}
    /\ IF s \in sessions
       THEN Goto(p, "expiring") /\ on' = [on EXCEPT ![p] = s]
       ELSE UNCHANGED <<pc, on>>
    /\ UNCHANGED <<gateVars, sessions, current, open, dead, idle, manager, oplock>>

\* Where a visit leads back to: the loop, or _get(), which raises when the session
\* has expired or is gone and otherwise goes on to the operation.
EndVisit(p, expired) ==
    IF p \in Users
    THEN /\ manager' = None
         /\ IF expired \/ on[p] \notin sessions
            THEN Goto(p, "out") /\ on' = [on EXCEPT ![p] = None]
            ELSE Goto(p, "queueing") /\ UNCHANGED on
    ELSE Goto(p, "visiting") /\ on' = [on EXCEPT ![p] = None] /\ UNCHANGED manager

\* The recheck under the operation lock: it has been used meanwhile.
Spare(p) ==
    /\ pc[p] = "expiring" /\ oplock[on[p]] = None
    /\ on[p] \notin idle
    /\ EndVisit(p, FALSE)
    /\ UNCHANGED <<gateVars, sessions, current, open, dead, idle, oplock, todo>>

ExpireWithoutRecheck(p) ==
    /\ pc[p] = "expiring" /\ oplock[on[p]] = None
    /\ Hold(p, on[p])
    /\ Discard(on[p])
    /\ Goto(p, "discarded")
    /\ UNCHANGED <<open, dead, idle, manager, on, todo>>
Expire(p) ==
    /\ pc[p] = "expiring" /\ oplock[on[p]] = None
    /\ on[p] \in idle
    /\ Hold(p, on[p])
    /\ Discard(on[p])
    /\ Goto(p, "discarded")
    /\ UNCHANGED <<open, dead, idle, manager, on, todo>>

Expired(p) ==
    /\ pc[p] = "discarded"
    /\ open' = open \ {on[p]}
    /\ LetGo(on[p])
    /\ EndVisit(p, TRUE)
    /\ UNCHANGED <<gateVars, sessions, current, dead, idle, todo>>

SweepEnds ==
    /\ pc[Sweeper] = "visiting" /\ todo = {}
    /\ Unlock(Sweeper, "out")
    /\ UNCHANGED <<gateVars, sessions, current, open, dead, idle, oplock, todo>>

\* browser_cleanup.stop() cancels the sweep wherever it is suspended; both locks go,
\* and suppress(Exception) does not keep CancelledError in context.close().
SweepStopped ==
    /\ pc[Sweeper] \in Managing \union {"out", "sweep"}
    /\ Goto(Sweeper, "stopped")
    /\ manager' = IF manager = Sweeper THEN None ELSE manager
    /\ oplock' = [s \in Tasks |-> IF oplock[s] = Sweeper THEN None ELSE oplock[s]]
    /\ on' = [on EXCEPT ![Sweeper] = None]
    /\ UNCHANGED <<gateVars, sessions, current, open, dead, idle, todo>>

-----------------------------------------------------------------------------
(* _close_locked; p holds the manager lock and has popped the session.          *)

\* The operation lock is free; only a user's close() may want the state.
TakeForClose(p) ==
    /\ pc[p] = "closing" /\ oplock[on[p]] = None
    /\ Hold(p, on[p])
    /\ \/ Goto(p, "leaving")
       \/ p \in Users /\ Goto(p, "saving")
    /\ UNCHANGED <<gateVars, sessions, current, open, dead, idle, manager, on, todo>>

\* The state is captured, or the capture raised: the finally block runs either way.
Saved(p) ==
    /\ pc[p] = "saving"
    /\ Goto(p, "leaving")
    /\ UNCHANGED <<gateVars, sessions, current, open, dead, idle, manager, oplock, on, todo>>

\* What was captured is proved in a browser that _ensure_browser() gives; it resets one
\* that is lost since, with all the sessions of others, and launches another or raises.
CaptureLosesBrowser(u) ==
    /\ pc[u] = "saving"
    /\ todo' = sessions
    /\ Goto(u, "reviving")
    /\ UNCHANGED <<gateVars, sessions, current, open, dead, idle, manager, oplock, on>>

Revived(u) ==
    /\ pc[u] = "reviving" /\ todo = {}
    /\ open' = {}
    /\ Goto(u, "leaving")
    /\ UNCHANGED <<gateVars, sessions, current, dead, idle, manager, oplock, on, todo>>

\* Back in start() (whose account has no session now), in close() or in close_all().
EndClose(p) ==
    /\ on' = [on EXCEPT ![p] = None]
    /\ IF p \in Users THEN manager' = None /\ Goto(p, "out")
       ELSE /\ Goto(p, IF p = Closer THEN "emptying" ELSE "visiting")
            /\ UNCHANGED manager

ClosedKeepingLease(p) ==
    /\ pc[p] = "leaving"
    /\ open' = open \ {on[p]}
    /\ LetGo(on[p])
    /\ EndClose(p)
    /\ UNCHANGED <<gateVars, sessions, current, dead, idle, todo>>
Closed(p) ==
    /\ pc[p] = "leaving"
    /\ open' = open \ {on[p]}
    /\ LetGo(on[p])
    /\ ReleaseLease(on[p])
    /\ EndClose(p)
    /\ UNCHANGED <<sessions, current, dead, idle, todo>>

-----------------------------------------------------------------------------
(* start()                                                                    *)

\* The sweep of start() is done; the account's session is closed first.
Replace(t) ==
    LET s == current[AccountOf[t]] IN
    /\ pc[t] = "visiting" /\ todo = {}
    /\ s # None
    /\ Pop(s)
    /\ on' = [on EXCEPT ![t] = s]
    /\ Goto(t, "closing")
    /\ UNCHANGED <<gateVars, open, dead, idle, manager, oplock, todo>>

\* The first locked block ends, and capacity.acquire() is called at once.
AskForLease(t) ==
    /\ pc[t] = "visiting" /\ todo = {} /\ place[t] = "outside"
    /\ current[AccountOf[t]] = None
    /\ manager' = None
    /\ IF closing THEN Goto(t, "done") /\ UNCHANGED gateVars
       ELSE Acquire(t) /\ Goto(t, IF t \in active' THEN "second" ELSE "acquiring")
    /\ UNCHANGED <<sessions, current, open, dead, idle, oplock, on, todo>>

LeaseGranted(t) ==
    /\ pc[t] = "acquiring"
    /\ Resume(t)
    /\ Goto(t, "second")
    /\ UNCHANGED <<sessions, current, open, dead, idle, manager, oplock, on, todo>>

LeaseRefused(t) ==
    /\ pc[t] = "acquiring"
    /\ Withdraw(t)
    /\ Goto(t, "done")
    /\ UNCHANGED <<sessions, current, open, dead, idle, manager, oplock, on, todo>>

\* _closing is set when the second locked block begins.
TooLate(t) ==
    /\ pc[t] = "second" /\ closing /\ manager = None
    /\ Release(t)
    /\ Goto(t, "done")
    /\ UNCHANGED <<sessions, current, open, dead, idle, manager, oplock, on, todo>>

OpenPage(t) ==
    /\ pc[t] = "visiting" /\ todo = {} /\ place[t] = "leased"
    /\ current[AccountOf[t]] = None
    /\ Goto(t, "opening")
    /\ UNCHANGED <<gateVars, sessions, current, open, dead, idle, manager, oplock, on, todo>>

RegisterByAccount(t) ==
    /\ pc[t] \in {"opening", "reopening"}
    /\ open' = open \union {t}
    /\ sessions' = sessions \union {AccountOf[t]}
    /\ current' = [current EXCEPT ![AccountOf[t]] = t]
    /\ Goto(t, "naming")
    /\ UNCHANGED <<gateVars, dead, idle, manager, oplock, on, todo>>
\* The page is there: the session is registered and its lease is now its own.
Register(t) ==
    /\ pc[t] \in {"opening", "reopening"}
    /\ open' = open \union {t}
    /\ sessions' = sessions \union {t}
    /\ current' = [current EXCEPT ![AccountOf[t]] = t]
    /\ Goto(t, "naming")
    /\ UNCHANGED <<gateVars, dead, idle, manager, oplock, on, todo>>

\* start() returns, or raises because the page is gone already: the session stays.
Named(t) ==
    /\ pc[t] = "naming"
    /\ Unlock(t, "done")
    /\ UNCHANGED <<gateVars, sessions, current, open, dead, idle, oplock, todo>>

OpeningFails(t) ==
    /\ pc[t] \in {"opening", "reopening"}
    /\ Release(t)
    /\ Unlock(t, "done")
    /\ UNCHANGED <<sessions, current, open, dead, idle, oplock, todo>>

\* A TargetClosedError on the first attempt.  (The retry without the saved state is
\* not taken: the router starts every interactive session clean.)
OpeningLosesBrowser(t) ==
    /\ pc[t] = "opening"
    /\ todo' = sessions
    /\ Goto(t, "resetting")
    /\ UNCHANGED <<gateVars, sessions, current, open, dead, idle, manager, oplock, on>>

\* _reset_browser_resources: session by session, then the browser.
ResetSession(p, s) ==
    /\ pc[p] \in {"resetting", "reviving"}
    /\ s \in todo
    /\ todo' = todo \ {s}
    /\ Discard(s)
    /\ open' = open \ {s}
    /\ UNCHANGED <<dead, idle, manager, oplock, pc, on>>

ResetBrowser(p) ==
    /\ pc[p] = "resetting" /\ todo = {}
    /\ open' = {}
    /\ IF p = Closer THEN Unlock(p, "draining")
       ELSE Goto(p, "reopening") /\ UNCHANGED <<manager, on>>
    /\ UNCHANGED <<gateVars, sessions, current, dead, idle, oplock, todo>>

-----------------------------------------------------------------------------
(* The user operations and close(); an unknown session raises at once.         *)

\* _get: the page is closed.  The session is discarded under no lock at all, and its
\* context is left open.
GetGone(u, s) ==
    /\ pc[u] = "out" /\ s \in sessions
    /\ s \in dead
    /\ Discard(s)
    /\ UNCHANGED <<open, dead, idle, manager, oplock, pc, on, todo>>

\* _get: on to the manager lock if the session looks idle, else to the operation.
Get(u, s) ==
    /\ pc[u] = "out" /\ s \in sessions
    /\ s \notin dead
    /\ Goto(u, IF s \in idle THEN "expire" ELSE "queueing")
    /\ on' = [on EXCEPT ![u] = s]
    /\ UNCHANGED <<gateVars, sessions, current, open, dead, idle, manager, oplock, todo>>

GetLocked(u) ==
    /\ pc[u] = "expire" /\ manager = None
    /\ IF on[u] \in sessions THEN manager' = u /\ Goto(u, "expiring") /\ UNCHANGED on
       ELSE Unlock(u, "out")
    /\ UNCHANGED <<gateVars, sessions, current, open, dead, idle, oplock, todo>>

\* get_info() and screenshot() leave last_activity alone, the others refresh it.
Operate(u) ==
    /\ pc[u] = "queueing" /\ oplock[on[u]] = None
    /\ Hold(u, on[u])
    /\ idle' \in {idle, idle \ {on[u]}}
    /\ Goto(u, "operating")
    /\ UNCHANGED <<gateVars, sessions, current, open, dead, manager, on, todo>>

Operated(u) ==
    /\ pc[u] = "operating"
    /\ LetGo(on[u])
    /\ Goto(u, "out")
    /\ on' = [on EXCEPT ![u] = None]
    /\ UNCHANGED <<gateVars, sessions, current, open, dead, idle, manager, todo>>

\* _translate_target_closed: the page or its context went away.
TargetClosed(u) ==
    /\ pc[u] = "operating"
    /\ on[u] \in dead \/ on[u] \notin open
    /\ Discard(on[u])
    /\ Goto(u, "failing")
    /\ UNCHANGED <<open, dead, idle, manager, oplock, on, todo>>

FailedHoldingLock(u) ==
    /\ pc[u] = "failing"
    /\ open' = open \ {on[u]}
    /\ Goto(u, "out")
    /\ on' = [on EXCEPT ![u] = None]
    /\ UNCHANGED <<gateVars, sessions, current, dead, idle, manager, oplock, todo>>
Failed(u) ==
    /\ pc[u] = "failing"
    /\ open' = open \ {on[u]}
    /\ LetGo(on[u])
    /\ Goto(u, "out")
    /\ on' = [on EXCEPT ![u] = None]
    /\ UNCHANGED <<gateVars, sessions, current, dead, idle, manager, todo>>

CloseCall(u, s) ==
    /\ pc[u] = "out" /\ s \in sessions
    /\ Goto(u, "close")
    /\ on' = [on EXCEPT ![u] = s]
    /\ UNCHANGED <<gateVars, sessions, current, open, dead, idle, manager, oplock, todo>>

\* _close_locked raises BrowserSessionNotFoundError when the session is gone.
Close(u) ==
    /\ pc[u] = "close" /\ manager = None
    /\ IF on[u] \in sessions
       THEN Pop(on[u]) /\ manager' = u /\ Goto(u, "closing") /\ UNCHANGED on
       ELSE Unlock(u, "out") /\ UNCHANGED <<sessions, current>>
    /\ UNCHANGED <<gateVars, open, dead, idle, oplock, todo>>

-----------------------------------------------------------------------------
(* close_all(); the sweeper has been stopped before.                           *)

CloseAll ==
    /\ pc[Closer] = "out" /\ pc[Sweeper] = "stopped"
    /\ BeginClose
    /\ Goto(Closer, "shutdown")
    /\ UNCHANGED <<sessions, current, open, dead, idle, manager, oplock, on, todo>>

Snapshot ==
    /\ pc[Closer] = "shutdown" /\ manager = None
    /\ manager' = Closer
    /\ todo' = sessions
    /\ Goto(Closer, "emptying")
    /\ UNCHANGED <<gateVars, sessions, current, open, dead, idle, oplock, on>>

\* A session discarded since the snapshot makes _close_locked raise, which ends
\* close_all() with the browser and the other sessions as they are.
CloseNext(s) ==
    /\ pc[Closer] = "emptying" /\ s \in todo
    /\ todo' = todo \ {s}
    /\ IF s \in sessions
       THEN Pop(s) /\ Goto(Closer, "closing") /\ on' = [on EXCEPT ![Closer] = s]
            /\ UNCHANGED manager
       ELSE Unlock(Closer, "aborted") /\ UNCHANGED <<sessions, current>>
    /\ UNCHANGED <<gateVars, open, dead, idle, oplock>>

AllClosed ==
    /\ pc[Closer] = "emptying" /\ todo = {}
    /\ todo' = sessions
    /\ Goto(Closer, "resetting")
    /\ UNCHANGED <<gateVars, sessions, current, open, dead, idle, manager, oplock, on>>

AllDrained ==
    /\ pc[Closer] = "draining" /\ drained
    /\ Goto(Closer, "closed")
    /\ UNCHANGED <<gateVars, sessions, current, open, dead, idle, manager, oplock, on, todo>>

-----------------------------------------------------------------------------
(* The page and the clock.                                                     *)

\* No request for longer than the timeout.
GoIdle(s) ==
    /\ s \in sessions \ idle
    /\ idle' = idle \union {s}
    /\ UNCHANGED <<gateVars, sessions, current, open, dead, manager, oplock, pc, on, todo>>

\* The last page of the session is closed, by the site or by a crash.
PageGone(s) ==
    /\ s \in sessions \ dead
    /\ dead' = dead \union {s}
    /\ UNCHANGED <<gateVars, sessions, current, open, idle, manager, oplock, pc, on, todo>>

\* _activate_page and _restore_page_after_close: another page takes over.
PageSwitched(s) ==
    /\ s \in sessions \ dead
    /\ s \in idle
    /\ idle' = idle \ {s}
    /\ UNCHANGED <<gateVars, sessions, current, open, dead, manager, oplock, pc, on, todo>>

TakesManager(p) == \/ BeginVisits(p)
                   \/ p \in Tasks /\ TooLate(p)
                   \/ p \in Users /\ (GetLocked(p) \/ Close(p))
                   \/ p = Closer /\ Snapshot

TakesOpLock(p) == \/ Spare(p) \/ Expire(p) \/ TakeForClose(p)
                  \/ p \in Users /\ Operate(p)

\* What a process does without waiting for a lock.
Proceeds(p) ==
    \/ \E s \in Tasks : Visit(p, s) \/ ResetSession(p, s)
    \/ Expired(p) \/ Saved(p) \/ Closed(p) \/ ResetBrowser(p)
    \/ p \in Tasks /\ \/ Replace(p) \/ AskForLease(p) \/ LeaseGranted(p) \/ LeaseRefused(p)
                      \/ OpenPage(p) \/ Register(p) \/ OpeningFails(p)
                      \/ OpeningLosesBrowser(p) \/ Named(p)
    \/ p \in Users /\ \/ Operated(p) \/ TargetClosed(p) \/ Failed(p)
                      \/ CaptureLosesBrowser(p) \/ Revived(p)
    \/ p = Sweeper /\ SweepEnds
    \/ p = Closer /\ (AllClosed \/ AllDrained \/ \E s \in Tasks : CloseNext(s))

Calls == \/ \E t \in Tasks : StartCall(t)
         \/ \E u \in Users, s \in Tasks : GetGone(u, s) \/ Get(u, s) \/ CloseCall(u, s)
         \/ SweepCall \/ SweepStopped
         \/ CloseAll

World == \E s \in Tasks : GoIdle(s) \/ PageGone(s) \/ PageSwitched(s)

Step(p) == TakesManager(p) \/ TakesOpLock(p) \/ Proceeds(p)

SessNext == \/ \E p \in Procs : Step(p)
            \/ Calls
            \/ World

SessSpec == Init /\ [][SessNext]_vars

\* The event loop runs ready tasks, every call of Playwright carries a timeout, and an
\* asyncio.Lock serves those who ask for it in turn.  Nothing is assumed of requests,
\* of the clock, of the pages or of the start of the shutdown.
SessFairness == \A p \in Procs : SF_vars(Step(p))

SessFairSpec == SessSpec /\ SessFairness

-----------------------------------------------------------------------------
SessTypeOK ==
    /\ GateTypeOK
    /\ sessions \subseteq Tasks /\ open \subseteq Tasks /\ dead \subseteq Tasks
    /\ idle \subseteq Tasks /\ todo \subseteq Tasks
    /\ current \in [Accounts -> Tasks \union {None}]
    /\ manager \in Procs \union {None}
    /\ oplock \in [Tasks -> Procs \union {None}]
    /\ pc \in [Procs -> Stands]
    /\ on \in [Procs -> Tasks \union {None}]

\* An account has one interactive session at most, and _account_sessions names it: a
\* late discard of the session before it, under no lock, does not take its entry away
\* (browser_sessions.py:1019-1023), and start() leaves none behind (489-491, 501-503).
IndexAgrees ==
    /\ \A s \in sessions : current[AccountOf[s]] = s
    /\ \A a \in Accounts : current[a] # None => current[a] \in sessions

\* A lease that is out belongs to a start() under way, to a registered session, or to a
\* close that is about to release it: whoever takes a session out of _sessions releases
\* its lease, and no session is left without one.
NoLeaseForgotten ==
    /\ sessions \subseteq active
    /\ \A s \in active : \/ s \in sessions
                         \/ pc[s] \in {"second", "acquiring", "visiting", "expiring",
                                      "discarded", "closing", "leaving", "opening",
                                      "reopening", "resetting"}
                         \/ \E p \in Procs :
                               on[p] = s /\ pc[p] \in {"closing", "saving", "reviving", "leaving"}

\* A session in use is not taken away: it disappears only when it has been idle for the
\* timeout at that very moment, its page or context is gone, or somebody who holds the
\* manager lock closes it (the recheck of browser_sessions.py:862-865).
LeavesForAReason == [][\A s \in sessions \ sessions' :
    \/ s \in idle
    \/ s \in dead \/ s \notin open
    \/ \E p \in Procs : \/ manager' = p /\ pc'[p] = "closing" /\ on'[p] = s
                        \/ manager = p /\ pc[p] \in {"resetting", "reviving"}]_vars

\* close_all() that has got past its sessions leaves none behind and lets none in,
\* though starts were waiting for a lease or for the manager lock when it began.
ShutdownIsFinal == pc[Closer] \in {"draining", "closed"} =>
    /\ sessions = {} /\ open = {}
    /\ pc[Closer] = "closed" => active = {}

\* The manager lock and the operation locks are never waited for in a circle: every
\* request on a session and every sweep ends, and so does close_all().
OperationsEnd ==
    /\ \A p \in Users \union {Sweeper} : pc[p] \notin Ended ~> pc[p] \in Ended
    /\ pc[Closer] = "shutdown" ~> pc[Closer] \in {"closed", "aborted"}
=============================================================================
