---------------------- MODULE BrowserAutomationProofs ----------------------
(***************************************************************************)
(* Theorems about BrowserAutomation, for every finite set of automations   *)
(* and every positive limit.  Each action takes a step of the capacity     *)
(* gate or none, so the invariant GInv of the gate holds here as well; the *)
(* rest follows from how the stage of a task goes with its lease.          *)
(***************************************************************************)
EXTENDS BrowserAutomation, CapacityGateProofs

-----------------------------------------------------------------------------
(* The inductive invariant.                                                *)

\* Whoever is past acquire() holds a lease, whoever is in it has asked for one.
StageFollowsPlace == \A t \in Tasks :
    /\ place[t] = "outside" <=> stage[t] = "outside"
    /\ place[t] \in {"waiting", "cancelled"} <=> stage[t] = "acquiring"

\* A context is open only from new_context() to the end of its close(), and registered
\* exactly while the body runs.
ContextsFollowStage ==
    /\ \A t \in contexts : stage[t] \in Body \union {"leaving", "lost"}
    /\ \A t \in Tasks : t \in registered <=> stage[t] \in Body

\* What close_all() has done so far: the gate is closed, and a registered context that
\* is still open is one it will visit.
CloserFollowsGate ==
    /\ closer # "idle" <=> closing
    /\ closing => \A t \in registered : t \in contexts => t \in todo
    /\ closer \in {"resetting", "draining", "closed"} => todo = {}
    /\ closer = "closed" => active = {}

AInv == /\ GInv /\ AutoTypeOK /\ StageFollowsPlace /\ ContextsFollowStage
        /\ OneBrowser /\ CloserFollowsGate

-----------------------------------------------------------------------------
(* The steps of the gate.                                                  *)

\* Every action of the automations is a step of the gate or leaves it alone.
LEMMA AutoTakesGateSteps ==
    ASSUME [AutoNext]_vars
    PROVE  [Next]_gateVars
<1>1. CASE UNCHANGED vars
  BY <1>1 DEF vars
<1>2. ASSUME NEW t \in Tasks, Enter(t) \/ CancelAcquire(t) \/ Granted(t) \/ TurnedAway(t)
      PROVE  [Next]_gateVars
  BY <1>2 DEF Enter, CancelAcquire, Granted, TurnedAway, Next
<1>3. ASSUME NEW t \in Tasks, LaunchFails(t) \/ OpenFails(t) \/ ContextClosed(t)
      PROVE  [Next]_gateVars
  BY <1>3 DEF LaunchFails, OpenFails, ContextClosed, EndWithoutContext, Next
<1>4. ASSUME NEW t \in Tasks,
             \/ TakeInitLock(t) \/ Launched(t) \/ Opened(t) \/ Capture(t) \/ CaptureFails(t)
             \/ BodyEnds(t) \/ CancelledWhileLeaving(t) \/ CloseContext(t)
      PROVE  [Next]_gateVars
  BY <1>4 DEF TakeInitLock, Launched, Opened, Capture, CaptureFails, BodyEnds,
              CancelledWhileLeaving, CloseContext
<1>5. CASE BrowserLost \/ StartReset \/ ResetDone \/ AllDrained
  BY <1>5 DEF BrowserLost, StartReset, ResetDone, AllDrained
<1>6. CASE CloseAll
  BY <1>6 DEF CloseAll, Next
<1> QED BY <1>1, <1>2, <1>3, <1>4, <1>5, <1>6 DEF AutoNext, Step, CloserStep

\* Under the invariant exactly the tasks past acquire() hold a lease.
LEMMA PastAcquireIsLeased ==
    ASSUME AutoTypeOK, StageFollowsPlace, NEW t \in Tasks
    PROVE  stage[t] \notin {"outside", "acquiring"} <=> place[t] = "leased"
<1> QED BY DEF AutoTypeOK, GateTypeOK, StageFollowsPlace, Places

-----------------------------------------------------------------------------
(* One lemma per group of actions; GInv' is known of each.                 *)

\* _ensure_browser() leads to the init lock, to the launch with the lock, or past it.
LEMMA EnsureFacts ==
    ASSUME AutoTypeOK, NEW t \in Tasks, NEW waits \in Stages, NEW launches \in Stages,
           NEW goesOn \in Stages, EnsureBrowser(t, waits, launches, goesOn)
    PROVE  /\ stage' \in [Tasks -> Stages] /\ initLock' \in Tasks \union {Closer, None}
           /\ \A u \in Tasks \ {t} : stage'[u] = stage[u]
           /\ initLock # None => initLock' = initLock
           /\ \/ stage'[t] \in {waits, goesOn} /\ initLock' = initLock
              \/ stage'[t] = launches /\ initLock = None /\ initLock' = t /\ browser # "up"
<1> QED BY DEF EnsureBrowser, Goto, AutoTypeOK

\* automation() goes to the init lock, to the launch, or to new_context().
LEMMA ToBrowserFacts ==
    ASSUME AutoTypeOK, OneBrowser, NEW t \in Tasks, stage[t] # "launching", ToBrowser(t)
    PROVE  /\ stage' \in [Tasks -> Stages] /\ initLock' \in Tasks \union {Closer, None}
           /\ stage'[t] \in {"ensuring", "launching", "opening"}
           /\ \A u \in Tasks \ {t} : stage'[u] = stage[u]
           /\ initLock # None => initLock' = initLock
           /\ stage'[t] = "launching" => initLock = None /\ initLock' = t /\ browser # "up"
<1>1. {"ensuring", "launching", "opening"} \subseteq Stages
  BY DEF Stages
<1> QED BY <1>1, EnsureFacts DEF ToBrowser

\* A capture goes to the init lock, to the launch, or stays in the body.
LEMMA ValidateFacts ==
    ASSUME AutoTypeOK, NEW t \in Tasks, Validate(t)
    PROVE  /\ stage' \in [Tasks -> Stages] /\ initLock' \in Tasks \union {Closer, None}
           /\ stage'[t] \in Body
           /\ \A u \in Tasks \ {t} : stage'[u] = stage[u]
           /\ initLock # None => initLock' = initLock
           /\ stage'[t] = "relaunching" => initLock = None /\ initLock' = t /\ browser # "up"
<1>1. {"capturing", "relaunching", "using"} \subseteq Stages
  BY DEF Stages, Body
<1> QED BY <1>1, EnsureFacts DEF Validate, Body

\* The tasks in acquire(): they enter, are granted, cancelled or turned away.
LEMMA AcquiringStep ==
    ASSUME AInv, GInv', NEW t \in Tasks,
           Enter(t) \/ CancelAcquire(t) \/ Granted(t) \/ TurnedAway(t)
    PROVE  AInv'
<1>1. /\ GateTypeOK /\ GateTypeOK' /\ AutoTypeOK /\ OneBrowser
      /\ browser' = browser /\ stale' = stale /\ contexts' = contexts
      /\ registered' = registered /\ closer' = closer /\ todo' = todo
  BY DEF AInv, GInv, Enter, CancelAcquire, Granted, TurnedAway, autoVars
<1>2. /\ stage[t] \in {"outside", "acquiring"}
      /\ \A u \in Tasks \ {t} : place'[u] = place[u]
      /\ place'[t] = "outside" <=> stage'[t] = "outside"
      /\ place'[t] \in {"waiting", "cancelled"} <=> stage'[t] = "acquiring"
      /\ closing' = closing
  <2>1. CASE Enter(t)
    BY <2>1, <1>1, GateMoves, ToBrowserFacts DEF Enter, Goto, AutoTypeOK
  <2>2. CASE CancelAcquire(t)
    BY <2>2, <1>1, GateMoves DEF CancelAcquire, AInv, StageFollowsPlace, autoVars
  <2>3. CASE Granted(t)
    BY <2>3, <1>1, GateMoves, ToBrowserFacts DEF Granted
  <2>4. CASE TurnedAway(t)
    BY <2>4, <1>1, GateMoves DEF TurnedAway, Goto, AutoTypeOK
  <2> QED BY <2>1, <2>2, <2>3, <2>4
<1>3. /\ stage' \in [Tasks -> Stages] /\ initLock' \in Tasks \union {Closer, None}
      /\ \A u \in Tasks \ {t} : stage'[u] = stage[u]
      /\ stage'[t] \notin Body \union {"leaving", "lost"}
      /\ initLock # None => initLock' = initLock
      /\ stage'[t] = "launching" => initLock = None /\ initLock' = t /\ browser # "up"
  <2>1. CASE ToBrowser(t)
    BY <2>1, <1>1, <1>2, ToBrowserFacts DEF Body
  <2>2. CASE ~ToBrowser(t)
    BY <2>2, <1>1, <1>2
    DEF Body, Enter, CancelAcquire, Granted, TurnedAway, Goto, AutoTypeOK, Stages, autoVars
  <2> QED BY <2>1, <2>2
<1>4. AutoTypeOK'
  BY <1>1, <1>3 DEF AutoTypeOK
<1>5. StageFollowsPlace'
  BY <1>2, <1>3 DEF AInv, StageFollowsPlace
<1>6. ContextsFollowStage'
  BY <1>1, <1>2, <1>3 DEF AInv, ContextsFollowStage, AutoTypeOK, Body
<1>7. OneBrowser'
  BY <1>1, <1>3, CloserIsNoTask DEF OneBrowser, Body
<1>8. CloserFollowsGate'
  <2>1. closing => active' \subseteq active
    <3>1. Acquire(t) \/ Cancel(t) \/ Resume(t) \/ Withdraw(t)
      BY DEF Enter, CancelAcquire, Granted, TurnedAway
    <3> QED BY <3>1, ClosedGateGrantsNothing DEF AInv, Next
  <2>2. closer = "closed" => closing
    BY DEF AInv, CloserFollowsGate
  <2> QED BY <2>1, <2>2, <1>1, <1>2 DEF AInv, CloserFollowsGate
<1> QED BY <1>4, <1>5, <1>6, <1>7, <1>8 DEF AInv

\* From the init lock to the open page; the gate is not called.
LEMMA OpeningStep ==
    ASSUME AInv, GInv', NEW t \in Tasks,
           TakeInitLock(t) \/ Launched(t) \/ Opened(t) \/ Capture(t) \/ CaptureFails(t)
           \/ BodyEnds(t) \/ CancelledWhileLeaving(t)
    PROVE  AInv'
<1>1. /\ place' = place /\ active' = active /\ closing' = closing /\ gateVars' = gateVars
      /\ closer' = closer /\ todo' = todo /\ stale' = stale
  BY DEF TakeInitLock, Launched, Opened, Capture, CaptureFails, BodyEnds,
         CancelledWhileLeaving, gateVars
<1>2. /\ stage[t] \notin {"outside", "acquiring"} /\ stage'[t] \notin {"outside", "acquiring"}
      /\ stage' \in [Tasks -> Stages]
      /\ \A u \in Tasks \ {t} : stage'[u] = stage[u]
  <2>1. CASE TakeInitLock(t) \/ Capture(t)
    BY <2>1, ToBrowserFacts, ValidateFacts DEF TakeInitLock, Capture, AInv, Body
  <2>2. CASE ~(TakeInitLock(t) \/ Capture(t))
    BY <2>2 DEF Launched, Opened, CaptureFails, BodyEnds, CancelledWhileLeaving, Goto, AInv,
                AutoTypeOK, Stages, Body
  <2> QED BY <2>1, <2>2
<1>3. AutoTypeOK'
  <2>1. CASE TakeInitLock(t) \/ Capture(t)
    BY <2>1, <1>1, <1>2, ToBrowserFacts, ValidateFacts
    DEF TakeInitLock, Capture, AInv, GInv, AutoTypeOK
  <2>2. CASE ~(TakeInitLock(t) \/ Capture(t))
    BY <2>2, <1>1, <1>2
    DEF Launched, Opened, CaptureFails, BodyEnds, CancelledWhileLeaving, AInv, GInv, AutoTypeOK
  <2> QED BY <2>1, <2>2
<1>4. StageFollowsPlace'
  BY <1>1, <1>2 DEF AInv, StageFollowsPlace
<1>5. ContextsFollowStage'
  <2>1. CASE TakeInitLock(t) \/ Capture(t)
    <3>1. contexts' = contexts /\ registered' = registered
      BY <2>1 DEF TakeInitLock, Capture
    <3>2. stage[t] \in Body <=> stage'[t] \in Body
      BY <2>1, ToBrowserFacts, ValidateFacts DEF TakeInitLock, Capture, AInv, Body
    <3>3. stage[t] \notin {"leaving", "lost"}
      BY <2>1 DEF TakeInitLock, Capture
    <3> QED BY <1>2, <3>1, <3>2, <3>3 DEF AInv, ContextsFollowStage, AutoTypeOK
  <2>2. CASE ~(TakeInitLock(t) \/ Capture(t))
    BY <2>2, <1>2
    DEF Launched, Opened, CaptureFails, BodyEnds, CancelledWhileLeaving, Goto, AInv,
        ContextsFollowStage, AutoTypeOK, Body
  <2> QED BY <2>1, <2>2
<1>6. OneBrowser'
  <2>1. CASE TakeInitLock(t)
    BY <2>1, <1>1, <1>2, ToBrowserFacts, ValidateFacts, CloserIsNoTask
    DEF TakeInitLock, AInv, OneBrowser, Body
  <2>2. CASE Capture(t)
    BY <2>2, <1>1, <1>2, ValidateFacts, CloserIsNoTask DEF Capture, AInv, OneBrowser, Body
  <2>3. CASE Launched(t)
    BY <2>3, <1>1, <1>2, CloserIsNoTask DEF Launched, Goto, AInv, OneBrowser, AutoTypeOK
  <2>4. CASE CaptureFails(t)
    BY <2>4, <1>1, <1>2, CloserIsNoTask DEF CaptureFails, Goto, AInv, OneBrowser, AutoTypeOK
  <2>5. CASE Opened(t) \/ BodyEnds(t) \/ CancelledWhileLeaving(t)
    BY <2>5, <1>1, <1>2
    DEF Opened, BodyEnds, CancelledWhileLeaving, Goto, AInv, OneBrowser, AutoTypeOK
  <2> QED BY <2>1, <2>2, <2>3, <2>4, <2>5
<1>7. CloserFollowsGate'
  <2>1. closing => \A u \in registered' : u \in contexts' => u \in todo
    <3>1. CASE Opened(t)
      BY <3>1 DEF Opened, AInv, CloserFollowsGate, ContextsFollowStage, Body
    <3>2. CASE ~Opened(t)
      BY <3>2 DEF TakeInitLock, Launched, Capture, CaptureFails, BodyEnds,
                  CancelledWhileLeaving, AInv, CloserFollowsGate
    <3> QED BY <3>1, <3>2
  <2> QED BY <2>1, <1>1 DEF AInv, CloserFollowsGate
<1> QED BY <1>3, <1>4, <1>5, <1>6, <1>7 DEF AInv

\* The ends of automation(), which give the lease back.
LEMMA EndingStep ==
    ASSUME AInv, GInv', NEW t \in Tasks,
           LaunchFails(t) \/ OpenFails(t) \/ ContextClosed(t)
    PROVE  AInv'
<1>1. /\ Release(t) /\ stage' = [stage EXCEPT ![t] = "outside"]
      /\ registered' = registered /\ closer' = closer /\ todo' = todo
      /\ stage[t] \in {"launching", "ensuring", "opening", "leaving"}
  BY DEF LaunchFails, OpenFails, ContextClosed, EndWithoutContext, Goto
<1>2. /\ place'[t] = "outside" /\ closing' = closing
      /\ \A u \in Tasks \ {t} : place'[u] = place[u]
  BY <1>1, GateMoves DEF AInv, GInv
<1>3. /\ contexts' \subseteq contexts /\ t \notin contexts'
      /\ \/ initLock' = initLock /\ browser' = browser
         \/ stage[t] = "launching" /\ initLock' = None /\ browser' \in {browser, "none"}
  BY DEF LaunchFails, OpenFails, ContextClosed, AInv, ContextsFollowStage, Body
<1>4. AutoTypeOK'
  BY <1>1, <1>3
  DEF AInv, GInv, AutoTypeOK, Stages, LaunchFails, OpenFails, ContextClosed, EndWithoutContext
<1>5. StageFollowsPlace'
  BY <1>1, <1>2 DEF AInv, AutoTypeOK, StageFollowsPlace
<1>6. ContextsFollowStage'
  BY <1>1, <1>3 DEF AInv, AutoTypeOK, ContextsFollowStage, Body
<1>7. OneBrowser'
  BY <1>1, <1>3, CloserIsNoTask DEF AInv, AutoTypeOK, OneBrowser
<1>8. CloserFollowsGate'
  <2>1. closing => active' \subseteq active
    BY <1>1, ClosedGateGrantsNothing DEF AInv, Next
  <2> QED BY <2>1, <1>1, <1>2, <1>3 DEF AInv, CloserFollowsGate
<1> QED BY <1>4, <1>5, <1>6, <1>7, <1>8 DEF AInv

\* The loss of the browser, and the steps of close_all().
LEMMA ShutdownStep ==
    ASSUME AInv, GInv',
           \/ BrowserLost \/ CloseAll \/ StartReset \/ ResetDone \/ AllDrained
           \/ \E t \in Tasks : CloseContext(t)
    PROVE  AInv'
<1>1. /\ stage' = stage /\ place' = place /\ registered' = registered /\ active' = active
      /\ contexts' \subseteq contexts /\ browser' \in {browser, "none", "lost"}
      /\ initLock' \in {initLock, None, Closer}
  BY DEF BrowserLost, CloseAll, BeginClose, StartReset, ResetDone, AllDrained, CloseContext,
         gateVars, BrowserGone
<1>2. AutoTypeOK'
  BY <1>1 DEF AInv, GInv, AutoTypeOK, CloserStages, BrowserLost, CloseAll, StartReset,
              ResetDone, AllDrained, CloseContext, BrowserGone
<1>3. StageFollowsPlace' /\ ContextsFollowStage'
  BY <1>1 DEF AInv, StageFollowsPlace, ContextsFollowStage
<1>4. OneBrowser'
  BY <1>1, CloserIsNoTask
  DEF AInv, AutoTypeOK, OneBrowser, BrowserLost, CloseAll, StartReset, ResetDone, AllDrained,
      CloseContext
<1>5. CloserFollowsGate'
  <2>1. CASE BrowserLost \/ ResetDone
    BY <2>1 DEF BrowserLost, ResetDone, BrowserGone, gateVars, AInv, CloserFollowsGate
  <2>2. CASE CloseAll
    BY <2>2 DEF CloseAll, BeginClose, AInv, CloserFollowsGate
  <2>3. CASE StartReset
    BY <2>3 DEF StartReset, gateVars, AInv, CloserFollowsGate
  <2>4. CASE AllDrained
    BY <2>4 DEF AllDrained, gateVars, AInv, GInv, DrainedTellsTheTruth, CloserFollowsGate
  <2>5. ASSUME NEW t \in Tasks, CloseContext(t)
        PROVE  CloserFollowsGate'
    BY <2>5 DEF CloseContext, gateVars, AInv, CloserFollowsGate
  <2> QED BY <2>1, <2>2, <2>3, <2>4, <2>5
<1> QED BY <1>2, <1>3, <1>4, <1>5 DEF AInv

-----------------------------------------------------------------------------
(* The invariant of automation(), and what follows from it.                *)

LEMMA AutoInit == Init => AInv
<1> SUFFICES ASSUME Init PROVE AInv
  OBVIOUS
<1>1. GInv
  BY InitInvariant DEF Init
<1>2. AutoTypeOK
  BY <1>1 DEF Init, GInv, AutoTypeOK, Stages, CloserStages
<1>3. StageFollowsPlace /\ ContextsFollowStage /\ OneBrowser /\ CloserFollowsGate
  BY DEF Init, GateInit, StageFollowsPlace, ContextsFollowStage, OneBrowser, CloserFollowsGate,
         Body
<1> QED BY <1>1, <1>2, <1>3 DEF AInv

LEMMA AutoStep == AInv /\ [AutoNext]_vars => AInv'
<1> SUFFICES ASSUME AInv, [AutoNext]_vars PROVE AInv'
  OBVIOUS
<1>1. GInv'
  BY AutoTakesGateSteps, StepKeepsInvariant DEF AInv
<1>2. ASSUME NEW t \in Tasks, Enter(t) \/ CancelAcquire(t) \/ Granted(t) \/ TurnedAway(t)
      PROVE  AInv'
  BY <1>1, <1>2, AcquiringStep
<1>3. ASSUME NEW t \in Tasks,
             \/ TakeInitLock(t) \/ Launched(t) \/ Opened(t) \/ Capture(t) \/ CaptureFails(t)
             \/ BodyEnds(t) \/ CancelledWhileLeaving(t)
      PROVE  AInv'
  BY <1>1, <1>3, OpeningStep
<1>4. ASSUME NEW t \in Tasks, LaunchFails(t) \/ OpenFails(t) \/ ContextClosed(t)
      PROVE  AInv'
  BY <1>1, <1>4, EndingStep
<1>5. CASE \/ BrowserLost \/ CloseAll \/ StartReset \/ ResetDone \/ AllDrained
           \/ \E t \in Tasks : CloseContext(t)
  BY <1>1, <1>5, ShutdownStep
<1>6. CASE UNCHANGED vars
  BY <1>1, <1>6 DEF vars, gateVars, autoVars, AInv, GInv, AutoTypeOK, StageFollowsPlace,
                    ContextsFollowStage, OneBrowser, CloserFollowsGate
<1> QED BY <1>2, <1>3, <1>4, <1>5, <1>6 DEF AutoNext, Step, CloserStep

LEMMA AutoInvariant == AutoSpec => []AInv
<1> QED BY AutoInit, AutoStep, PTL DEF AutoSpec

\* automation() and close_all() use the gate as its callers may: what is proved of the
\* gate alone, its limits and its order among them, holds of the manager.
THEOREM AutomationUsesTheGate == AutoSpec => Spec
<1>1. Init => GateInit
  BY DEF Init
<1>2. [AutoNext]_vars => [Next]_gateVars
  BY AutoTakesGateSteps
<1> QED BY <1>1, <1>2, PTL DEF AutoSpec, Spec

\* The types of the manager's state, whatever the automations, kinds and limits.
THEOREM AutoTypeCorrect == AutoSpec => []AutoTypeOK
<1>1. AInv => AutoTypeOK
  BY DEF AInv
<1> QED BY <1>1, AutoInvariant, PTL

\* Crashes, cancellations and the shutdown included, no automation page is open without
\* a lease that is still out: the limit on leases bounds the open pages
\* (browser_sessions.py:701-744).
THEOREM PagesAreLeased == AutoSpec => []LeaseCoversContext
<1>1. AInv => LeaseCoversContext
  <2> SUFFICES ASSUME AInv PROVE LeaseCoversContext
    OBVIOUS
  <2>1. \A t \in registered : stage[t] \in Body
    BY DEF AInv, ContextsFollowStage, AutoTypeOK
  <2>2. ASSUME NEW t \in contexts
        PROVE  t \in active /\ stage[t] \in Body \union {"leaving", "lost"}
    <3>1. t \in Tasks /\ stage[t] \in Body \union {"leaving", "lost"}
      BY DEF AInv, ContextsFollowStage, AutoTypeOK
    <3>2. place[t] = "leased"
      BY <3>1, PastAcquireIsLeased DEF AInv, Body
    <3> QED BY <3>1, <3>2 DEF AInv, GInv, TokensAreOwned
  <2> QED BY <2>1, <2>2 DEF LeaseCoversContext
<1> QED BY <1>1, AutoInvariant, PTL

\* However many automations start cold, fail, or lose the browser at once, one of them
\* launches at a time, never beside a connected browser or a reset
\* (browser_sessions.py:461-486).
THEOREM OneBrowserAtATime == AutoSpec => []OneBrowser
<1>1. AInv => OneBrowser
  BY DEF AInv
<1> QED BY <1>1, AutoInvariant, PTL

\* The one snapshot of close_all() misses no automation: none is in its body with an open
\* page when the browser is reset, though registrations and ends went on meanwhile.
THEOREM SnapshotMissesNothing == AutoSpec => []SnapshotIsComplete
<1>1. AInv => SnapshotIsComplete
  BY DEF AInv, CloserFollowsGate, SnapshotIsComplete
<1> QED BY <1>1, AutoInvariant, PTL

\* Once close_all() has returned no automation is under way, no page of one is open and no
\* lease is out, however it met launches, captures and cancellations.  It says nothing of the
\* browser itself, which an open or a capture under way may launch again (browser_sessions.py:461, 956).
THEOREM NothingSurvivesClose == AutoSpec => []ClosedIsQuiet
<1>1. AInv => ClosedIsQuiet
  <2> SUFFICES ASSUME AInv, closer = "closed"
               PROVE  /\ active = {} /\ contexts = {} /\ registered = {}
                      /\ \A t \in Tasks :
                           stage[t] \notin Body \union {"ensuring", "launching", "opening",
                                                       "leaving"}
    BY DEF ClosedIsQuiet
  <2>1. active = {}
    BY DEF AInv, CloserFollowsGate
  <2>2. \A t \in Tasks : stage[t] \in {"outside", "acquiring"}
    BY <2>1, PastAcquireIsLeased DEF AInv, GInv, TokensAreOwned
  <2>3. contexts = {} /\ registered = {}
    BY <2>2 DEF AInv, AutoTypeOK, ContextsFollowStage, Body
  <2> QED BY <2>1, <2>2, <2>3 DEF Body
<1> QED BY <1>1, AutoInvariant, PTL
=============================================================================
