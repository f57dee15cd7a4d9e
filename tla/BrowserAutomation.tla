------------------------- MODULE BrowserAutomation -------------------------
(***************************************************************************)
(* core/browser_sessions.py: BrowserSessionManager.automation(), the shared *)
(* browser it runs in (_ensure_browser, _reset_browser) and close_all().    *)
(* Every task of this module asks for an "automation" lease; the capacity   *)
(* gate is CapacityGate, step for step.                                     *)
(*                                                                         *)
(* An action runs from one suspension point to the next.  Taking a lock that *)
(* is free, and BrowserCapacityLease.release(), do not suspend.              *)
(***************************************************************************)
EXTENDS CapacityGate

CONSTANTS Closer,   \* the task that runs close_all() at shutdown
          None

ASSUME CloserIsNoTask == Closer \notin Tasks /\ None \notin Tasks /\ Closer # None

VARIABLES stage,       \* [Tasks -> where the task is suspended in automation()]
          browser,     \* _browser: "none", "up", or "lost" (no longer connected)
          initLock,    \* the holder of _browser_init_lock, or None
          stale,       \* the tasks in new_context() of a browser that is gone
          contexts,    \* the tasks whose BrowserContext is open
          registered,  \* the tasks with an entry in _automation_contexts
          closer,      \* where close_all() stands
          todo         \* the contexts close_all() has still to close

autoVars == <<stage, browser, initLock, stale, contexts, registered, closer, todo>>
vars == <<gateVars, autoVars>>

\* outside:   not in automation()         acquiring: await capacity.acquire()
\* ensuring:  await _browser_init_lock     launching: holds it, await the launch
\* opening:   await browser.new_context()  using:     the caller's body
\* leaving:   await context.close()        lost:      ended there, lease unreleased
\* The body may capture the login state, which asks for the browser once more:
\* capturing: await _browser_init_lock     relaunching: holds it, await the launch
Body == {"using", "capturing", "relaunching"}
Stages == {"outside", "acquiring", "ensuring", "launching", "opening",
           "leaving", "lost"} \union Body
CloserStages == {"idle", "contexts", "resetting", "draining", "closed"}

Init == /\ GateInit
        /\ stage = [t \in Tasks |-> "outside"]
        /\ browser = "none"
        /\ initLock = None
        /\ stale = {}
        /\ contexts = {}
        /\ registered = {}
        /\ closer = "idle"
        /\ todo = {}

-----------------------------------------------------------------------------
Goto(t, s) == stage' = [stage EXCEPT ![t] = s]

\* _ensure_browser() up to where it suspends: on the lock, on the launch, or (the
\* browser is connected) not before the caller's new_context().
EnsureBrowser(t, waits, launches, goesOn) ==
    IF initLock # None THEN Goto(t, waits) /\ UNCHANGED initLock
    ELSE IF browser = "up" THEN Goto(t, goesOn) /\ UNCHANGED initLock
    ELSE Goto(t, launches) /\ initLock' = t
ToBrowserUnlocked(t) ==
    /\ Goto(t, IF browser = "up" THEN "opening" ELSE "launching")
    /\ UNCHANGED initLock
ToBrowser(t) == EnsureBrowser(t, "ensuring", "launching", "opening")

\* The browser object that tasks hold is closed or has crashed, its pages with it.
BrowserGone ==
    /\ contexts' = {}
    /\ stale' = stale \union {t \in Tasks : stage[t] = "opening"}

Enter(t) ==
    /\ stage[t] = "outside"
    /\ Acquire(t)
    /\ IF t \in active' THEN ToBrowser(t) ELSE Goto(t, "acquiring") /\ UNCHANGED initLock
    /\ UNCHANGED <<browser, stale, contexts, registered, closer, todo>>

Granted(t) ==
    /\ stage[t] = "acquiring"
    /\ Resume(t)
    /\ ToBrowser(t)
    /\ UNCHANGED <<browser, stale, contexts, registered, closer, todo>>

CancelAcquire(t) == Cancel(t) /\ UNCHANGED autoVars

TurnedAway(t) ==
    /\ stage[t] = "acquiring"
    /\ Withdraw(t)
    /\ Goto(t, "outside")
    /\ UNCHANGED <<browser, initLock, stale, contexts, registered, closer, todo>>

\* capture_automation_state() proves that what it read can be restored, in a browser it
\* ensures, whether or not close_all() has begun.
Validate(t) == EnsureBrowser(t, "capturing", "relaunching", "using")

TakeInitLock(t) ==
    /\ initLock = None
    /\ \/ stage[t] = "ensuring" /\ ToBrowser(t)
       \/ stage[t] = "capturing" /\ Validate(t)
    /\ UNCHANGED <<gateVars, browser, stale, contexts, registered, closer, todo>>

\* A lost browser is reset first; either way the lock is held until the new one is up.
Launched(t) ==
    /\ stage[t] \in {"launching", "relaunching"}
    /\ browser' = "up"
    /\ initLock' = None
    /\ Goto(t, IF stage[t] = "launching" THEN "opening" ELSE "using")
    /\ UNCHANGED <<gateVars, stale, contexts, registered, closer, todo>>

\* automation() ends without a context: its finally block only releases the lease.
EndWithoutContext(t) ==
    /\ Release(t)
    /\ Goto(t, "outside")
    /\ stale' = stale \ {t}

\* The launch raised, or was cancelled, perhaps in the middle of resetting a lost
\* browser; the partial launch is stopped and no browser is recorded.
LaunchFails(t) ==
    /\ stage[t] = "launching"
    /\ browser' \in {browser, "none"}
    /\ initLock' = None
    /\ EndWithoutContext(t)
    /\ UNCHANGED <<contexts, registered, closer, todo>>

\* new_context() returned.  The check of _closing and the registration are one block.
OpenedUnchecked(t) ==
    /\ stage[t] = "opening" /\ t \notin stale
    /\ contexts' = contexts \union {t}
    /\ registered' = registered \union {t}
    /\ Goto(t, "using")
    /\ UNCHANGED <<gateVars, browser, initLock, stale, closer, todo>>
Opened(t) ==
    /\ stage[t] = "opening" /\ t \notin stale
    /\ contexts' = contexts \union {t}
    /\ registered' = IF closing THEN registered ELSE registered \union {t}
    /\ Goto(t, IF closing THEN "leaving" ELSE "using")
    /\ UNCHANGED <<gateVars, browser, initLock, stale, closer, todo>>

\* new_context() raised (always, when the browser is gone), or the saved state does
\* not parse, or the task was cancelled there or in front of the init lock.
OpenFails(t) ==
    /\ stage[t] \in {"ensuring", "opening"}
    /\ EndWithoutContext(t)
    /\ UNCHANGED <<browser, initLock, contexts, registered, closer, todo>>

\* The body captures the login state, as far as _ensure_browser() goes; when the browser
\* is connected nothing of this model changes.
Capture(t) ==
    /\ stage[t] = "using"
    /\ Validate(t)
    /\ UNCHANGED <<gateVars, browser, stale, contexts, registered, closer, todo>>

\* The launch raised, or the body was cancelled in it or in front of the lock; the body
\* has the exception.
CaptureFails(t) ==
    /\ \/ stage[t] = "capturing" /\ UNCHANGED <<browser, initLock>>
       \/ stage[t] = "relaunching" /\ browser' \in {browser, "none"} /\ initLock' = None
    /\ Goto(t, "using")
    /\ UNCHANGED <<gateVars, stale, contexts, registered, closer, todo>>

LeaveReleasingFirst(t) ==
    /\ stage[t] = "using"
    /\ Release(t)
    /\ Goto(t, "outside")
    /\ registered' = registered \ {t}
    /\ UNCHANGED <<browser, initLock, stale, contexts, closer, todo>>
\* The body returned, raised or was cancelled: the finally block up to its await.
BodyEnds(t) ==
    /\ stage[t] = "using"
    /\ registered' = registered \ {t}
    /\ Goto(t, "leaving")
    /\ UNCHANGED <<gateVars, browser, initLock, stale, contexts, closer, todo>>

LeaveWithoutRelease(t) ==
    /\ stage[t] = "leaving"
    /\ contexts' = contexts \ {t}
    /\ Goto(t, "outside")
    /\ UNCHANGED <<gateVars, browser, initLock, stale, registered, closer, todo>>
\* context.close() returned, or raised and was suppressed.
ContextClosed(t) ==
    /\ stage[t] = "leaving"
    /\ contexts' = contexts \ {t}
    /\ Release(t)
    /\ Goto(t, "outside")
    /\ UNCHANGED <<browser, initLock, stale, registered, closer, todo>>

\* The task is cancelled in the finally block, in "await context.close()":
\* suppress(Exception) lets CancelledError through, past lease.release().
CancelledWhileLeaving(t) ==
    /\ stage[t] = "leaving"
    /\ contexts' \in {contexts, contexts \ {t}}
    /\ Goto(t, "lost")
    /\ UNCHANGED <<gateVars, browser, initLock, stale, registered, closer, todo>>

\* The browser process crashes or is disconnected.
BrowserLost ==
    /\ browser = "up"
    /\ browser' = "lost"
    /\ BrowserGone
    /\ UNCHANGED <<gateVars, stage, initLock, registered, closer, todo>>

-----------------------------------------------------------------------------
(* close_all(), with no interactive session open.                           *)

CloseAll ==
    /\ closer = "idle"
    /\ BeginClose
    /\ todo' = registered
    /\ closer' = "contexts"
    /\ UNCHANGED <<stage, browser, initLock, stale, contexts, registered>>

CloseContext(t) ==
    /\ closer = "contexts" /\ t \in todo
    /\ contexts' = contexts \ {t}
    /\ todo' = todo \ {t}
    /\ UNCHANGED <<gateVars, stage, browser, initLock, stale, registered, closer>>

\* _reset_browser() has the init lock.
StartReset ==
    /\ closer = "contexts" /\ todo = {}
    /\ initLock = None
    /\ initLock' = Closer
    /\ closer' = "resetting"
    /\ UNCHANGED <<gateVars, stage, browser, stale, contexts, registered, todo>>

ResetForgetsState ==
    /\ closer = "resetting"
    /\ browser' = None
    /\ BrowserGone
    /\ initLock' = None
    /\ closer' = "draining"
    /\ UNCHANGED <<gateVars, stage, registered, todo>>
ResetDone ==
    /\ closer = "resetting"
    /\ browser' = "none"
    /\ BrowserGone
    /\ initLock' = None
    /\ closer' = "draining"
    /\ UNCHANGED <<gateVars, stage, registered, todo>>

AllDrainedAtOnce ==
    /\ closer = "draining"
    /\ closer' = "closed"
    /\ UNCHANGED <<gateVars, stage, browser, initLock, stale, contexts, registered, todo>>
\* wait_drained() returns.
AllDrained ==
    /\ closer = "draining" /\ drained
    /\ closer' = "closed"
    /\ UNCHANGED <<gateVars, stage, browser, initLock, stale, contexts, registered, todo>>

Step(t) == \/ Granted(t) \/ TurnedAway(t) \/ TakeInitLock(t)
           \/ Launched(t) \/ LaunchFails(t) \/ Opened(t) \/ OpenFails(t)
           \/ Capture(t) \/ CaptureFails(t) \/ BodyEnds(t) \/ ContextClosed(t)

CloserStep == StartReset \/ ResetDone \/ AllDrained \/ \E t \in Tasks : CloseContext(t)

AutoNext == \/ \E t \in Tasks : \/ Enter(t) \/ CancelAcquire(t) \/ Step(t)
                                \/ CancelledWhileLeaving(t)
            \/ BrowserLost
            \/ CloseAll
            \/ CloserStep

AutoSpec == Init /\ [][AutoNext]_vars

\* The event loop runs ready tasks; launches, new_context() and close() carry
\* Playwright's timeouts; plugins bound their requests and polls, capture once and lose
\* their page when close_all() closes its context.  Waiters of the init lock are served
\* in turn.
AutoFairness ==
    /\ \A t \in Tasks : /\ WF_vars(Granted(t) \/ TurnedAway(t))
                        /\ SF_vars(TakeInitLock(t))
                        /\ WF_vars(Launched(t) \/ LaunchFails(t))
                        /\ WF_vars(Opened(t) \/ (stage[t] = "opening" /\ OpenFails(t)))
                        /\ SF_vars(BodyEnds(t))
                        /\ WF_vars(ContextClosed(t))
    /\ SF_vars(StartReset)
    /\ WF_vars(ResetDone \/ AllDrained \/ \E t \in Tasks : CloseContext(t))

AutoFairSpec == AutoSpec /\ AutoFairness

-----------------------------------------------------------------------------
AutoTypeOK ==
    /\ GateTypeOK
    /\ stage \in [Tasks -> Stages]
    /\ browser \in {"none", "up", "lost"}
    /\ initLock \in Tasks \union {Closer, None}
    /\ stale \subseteq Tasks
    /\ contexts \subseteq Tasks
    /\ registered \subseteq Tasks
    /\ closer \in CloserStages
    /\ todo \subseteq Tasks

\* An open automation page is covered by a lease that is still out, so the limit on
\* leases is a limit on pages (browser_sessions.py:701-744).
LeaseCoversContext ==
    /\ \A t \in contexts : t \in active /\ stage[t] \in Body \union {"leaving", "lost"}
    /\ \A t \in registered : stage[t] \in Body

\* "concurrent automation cold start launches one browser" (test_browser_sessions.py:803):
\* one launch at a time, and never while a connected browser exists.
OneBrowser ==
    /\ \A t \in Tasks :
           stage[t] \in {"launching", "relaunching"} => initLock = t /\ browser # "up"
    /\ closer = "resetting" => initLock = Closer

\* close_all() takes its snapshot of _automation_contexts once: no automation slips in
\* behind it, so none is still running its body when the browser has been reset.
SnapshotIsComplete == closer \in {"resetting", "draining", "closed"} =>
    \A t \in registered : t \notin contexts

\* When close_all() has returned, no automation is under way, no page is open and no lease
\* is out.  It says nothing of the browser, which an automation that close_all() found
\* under way may have launched again since the reset.
ClosedIsQuiet == closer = "closed" =>
    /\ active = {} /\ contexts = {} /\ registered = {}
    /\ \A t \in Tasks :
           stage[t] \notin Body \union {"ensuring", "launching", "opening", "leaving"}

\* Shutdown ends, unless a task was cancelled while its finally block was closing the
\* context.
ShutdownCompletes ==
    closer = "contexts" ~> closer = "closed" \/ \E t \in Tasks : stage[t] = "lost"

\* Shutdown ends: close_all() drains the capacity gate whatever is cancelled
\* ("Cancellation-safe ... capacity leases", capacity.py:50).
ShutdownAlwaysCompletes == closer = "contexts" ~> closer = "closed"
=============================================================================
