--------------------- MODULE InteractiveSessionsProofs ---------------------
(***************************************************************************)
(* Theorems about InteractiveSessions, for every finite set of starts, any *)
(* accounts, users and limits.  As in BrowserAutomationProofs each action  *)
(* takes a step of the capacity gate or none, so GInv is carried over.     *)
(***************************************************************************)
EXTENDS InteractiveSessions, CapacityGateProofs

-----------------------------------------------------------------------------
(* The inductive invariant.                                                *)

\* Where the processes of each sort can stand.
TaskStands == {"out", "first", "second", "acquiring", "visiting", "expiring", "discarded",
               "closing", "leaving", "opening", "reopening", "resetting", "naming", "done"}
UserStands == {"out", "expire", "expiring", "discarded", "queueing", "operating", "failing",
               "close", "closing", "saving", "reviving", "leaving"}
SweeperStands == {"out", "sweep", "visiting", "expiring", "discarded", "stopped"}
CloserStands == {"out", "shutdown", "emptying", "closing", "leaving", "resetting",
                 "draining", "closed", "aborted"}
StandsApart ==
    /\ \A t \in Tasks : pc[t] \in TaskStands
    /\ \A u \in Users : pc[u] \in UserStands
    /\ pc[Sweeper] \in SweeperStands
    /\ pc[Closer] \in CloserStands

\* The manager lock is held by exactly the process that stands inside its block.
LockIsHeld == \A p \in Procs : manager = p <=> pc[p] \in Managing

\* A process has a session in its hands exactly at these places.
Busy == {"expire", "expiring", "discarded", "close", "closing", "saving", "reviving",
         "leaving", "queueing", "operating", "failing"}
BusyWithOne == \A p \in Procs : on[p] # None <=> pc[p] \in Busy

\* Nobody has, or will visit, a session that start() has not registered.
Registered == {"naming", "done"}
KnownIsRegistered ==
    /\ \A s \in sessions \union todo : pc[s] \in Registered
    /\ \A p \in Procs : on[p] \in Tasks => pc[on[p]] \in Registered

\* Where a start() stands tells of its lease up to the registration.
LeaseFollowsStart == \A s \in Tasks :
    /\ pc[s] \in {"out", "first"} => place[s] = "outside"
    /\ pc[s] = "acquiring" <=> place[s] \in {"waiting", "cancelled"}
    /\ pc[s] \in {"second", "opening", "reopening", "resetting"} => place[s] = "leased"
    /\ s \in sessions => place[s] = "leased"

\* After it the lease is out only while the session is in _sessions or being closed.
Closes == {"closing", "saving", "reviving", "leaving"}
LeaseIsClaimed == \A s \in Tasks :
    pc[s] \in Registered /\ place[s] = "leased" =>
        s \in sessions \/ \E p \in Procs : on[p] = s /\ pc[p] \in Closes

\* What _close_locked has popped does not come back while it is being closed.
PoppedStaysPopped == \A p \in Procs : pc[p] \in Closes => on[p] \notin sessions

\* _account_sessions and _sessions name the same sessions, and the account of a page
\* that is being opened has none.
IndexIsExact ==
    /\ \A s \in sessions : current[AccountOf[s]] = s
    /\ \A a \in Accounts :
          current[a] # None => current[a] \in sessions /\ AccountOf[current[a]] = a
    /\ \A t \in Tasks :
          pc[t] \in {"opening", "reopening", "resetting"} => current[AccountOf[t]] = None

\* Once close_all() has had the manager lock no start() has a page under way, and none
\* that visits the sessions on its way in holds a lease.
Opening == {"opening", "reopening", "resetting"}
Under == {"visiting", "expiring", "discarded", "closing", "leaving"}
NoneSlipsIn ==
    /\ pc[Closer] # "out" => closing
    /\ pc[Closer] \notin {"out", "shutdown"} => \A t \in Tasks :
          pc[t] \notin Opening /\ (pc[t] \in Under => place[t] = "outside")

\* close_all() resets the browser with every session on its list.
ListIsComplete ==
    /\ pc[Closer] = "resetting" => sessions \subseteq todo
    /\ ShutdownIsFinal

SInv == /\ GInv /\ SessTypeOK /\ StandsApart /\ LockIsHeld /\ BusyWithOne
        /\ KnownIsRegistered /\ LeaseFollowsStart /\ LeaseIsClaimed /\ PoppedStaysPopped
        /\ IndexIsExact /\ NoneSlipsIn /\ ListIsComplete

\* A process belongs to one sort, and stands where its sort can.
USE NamesAreApart DEF Procs, StandsApart, TaskStands, UserStands, SweeperStands, CloserStands

-----------------------------------------------------------------------------
(* The steps of the gate.                                                  *)

\* The session in the hands of a process that is busy.
LEMMA BusyWithTask ==
    ASSUME SInv, NEW p \in Procs, pc[p] \in Busy
    PROVE  on[p] \in Tasks
<1> QED BY DEF SInv, SessTypeOK, BusyWithOne

\* lease.release() gives a lease back once, and is nothing to anybody else.
LEMMA ReleaseMoves ==
    ASSUME GateTypeOK, NEW s \in Tasks, ReleaseLease(s)
    PROVE  /\ closing' = closing
           /\ place[s] = "leased" => place'[s] = "outside"
           /\ place[s] # "leased" => place'[s] = place[s]
           /\ \A u \in Tasks \ {s} : place'[u] = place[u]
<1> QED BY DEF GateTypeOK, ReleaseLease, Release, Leave, gateVars

\* Every action of the sessions is a step of the gate or leaves it alone.
LEMMA SessionsTakeGateSteps ==
    ASSUME SInv, [SessNext]_vars
    PROVE  [Next]_gateVars
<1>1. ASSUME NEW s \in Tasks, ReleaseLease(s)
      PROVE  [Next]_gateVars
  BY <1>1 DEF ReleaseLease, Next
<1>2. ASSUME NEW p \in Procs, Expire(p) \/ TargetClosed(p) \/ Closed(p)
      PROVE  [Next]_gateVars
  <2>1. on[p] \in Tasks
    BY <1>2, BusyWithTask DEF Expire, TargetClosed, Closed, Busy
  <2> QED BY <1>1, <1>2, <2>1 DEF Expire, TargetClosed, Closed, Discard
<1>3. ASSUME NEW p \in Procs, TakesManager(p)
      PROVE  [Next]_gateVars
  BY <1>3 DEF TakesManager, BeginVisits, TooLate, GetLocked, Close, Snapshot, Next
<1>4. ASSUME NEW p \in Procs, TakesOpLock(p)
      PROVE  [Next]_gateVars
  BY <1>2, <1>4 DEF TakesOpLock, Spare, TakeForClose, Operate
<1>5. ASSUME NEW p \in Procs, NEW s \in Tasks,
             Visit(p, s) \/ ResetSession(p, s) \/ CloseNext(s)
      PROVE  [Next]_gateVars
  BY <1>1, <1>5 DEF Visit, ResetSession, Discard, CloseNext
<1>6. ASSUME NEW t \in Tasks,
             \/ Replace(t) \/ AskForLease(t) \/ LeaseGranted(t) \/ LeaseRefused(t)
             \/ OpenPage(t) \/ Register(t) \/ OpeningFails(t) \/ OpeningLosesBrowser(t)
             \/ Named(t)
      PROVE  [Next]_gateVars
  BY <1>6 DEF Replace, AskForLease, LeaseGranted, LeaseRefused, OpenPage, Register,
              OpeningFails, OpeningLosesBrowser, Named, Next
<1>7. ASSUME NEW p \in Procs, Proceeds(p)
      PROVE  [Next]_gateVars
  BY <1>2, <1>5, <1>6, <1>7
  DEF Proceeds, Expired, Saved, ResetBrowser, Operated, Failed, CaptureLosesBrowser, Revived,
      SweepEnds, AllClosed, AllDrained
<1>8. CASE Calls
  BY <1>1, <1>8 DEF Calls, StartCall, GetGone, Get, CloseCall, SweepCall, SweepStopped, CloseAll,
                    Discard, Next
<1>9. CASE World \/ UNCHANGED vars
  BY <1>9 DEF World, GoIdle, PageGone, PageSwitched, vars
<1> QED BY <1>3, <1>4, <1>7, <1>8, <1>9 DEF SessNext, Step

-----------------------------------------------------------------------------
(* The steps that leave the gate and the sessions alone: one lemma for     *)
(* each sort of process, with one step per part of the invariant.          *)

\* Claims on leases outlast a step that registers nothing and ends no close.
LEMMA ClaimsKept ==
    ASSUME SInv, place' = place, sessions' = sessions,
           \A s \in Tasks : pc'[s] \in Registered => pc[s] \in Registered,
           \A q \in Procs : pc[q] \in Closes => pc'[q] \in Closes /\ on'[q] = on[q]
    PROVE  LeaseIsClaimed'
<1> QED BY DEF SInv, LeaseIsClaimed

\* The visits of cleanup_expired() and of start(), a close, and the reset.
LEMMA VisitingStep ==
    ASSUME SInv, GInv',
           NEW p \in Procs,
           \/ BeginVisits(p) \/ (\E s \in Tasks : Visit(p, s)) \/ Spare(p) \/ Expired(p)
           \/ TakeForClose(p) \/ Saved(p) \/ ResetBrowser(p)
    PROVE  SInv'
<1> USE DEF SInv, SessTypeOK, BeginVisits, Visit, Spare, Expired, EndVisit, TakeForClose, Saved,
           ResetBrowser, Unlock, Hold, LetGo, Goto
<1>0. /\ gateVars' = gateVars /\ place' = place /\ closing' = closing
      /\ sessions' = sessions /\ current' = current
  BY DEF gateVars
<1>1. SessTypeOK'
  BY <1>0 DEF GInv, Stands, Waiting, Managing, Ended
<1>2. StandsApart'
  BY <1>0
<1>3. LockIsHeld' /\ BusyWithOne'
  <2>1. LockIsHeld'
    BY <1>0 DEF LockIsHeld, Managing
  <2>2. BusyWithOne'
    BY <1>0 DEF BusyWithOne, Busy
  <2> QED BY <2>1, <2>2
<1>4. KnownIsRegistered'
  BY <1>0 DEF KnownIsRegistered, Registered
<1>5. LeaseFollowsStart'
  BY <1>0 DEF LeaseFollowsStart
<1>6. LeaseIsClaimed'
  <2>1. \A s \in Tasks : pc'[s] \in Registered => pc[s] \in Registered
    BY DEF Registered
  <2>2. \A q \in Procs : pc[q] \in Closes => pc'[q] \in Closes /\ on'[q] = on[q]
    BY DEF Closes
  <2> QED BY <1>0, <2>1, <2>2, ClaimsKept
<1>7. PoppedStaysPopped'
  BY <1>0 DEF PoppedStaysPopped, Closes
<1>8. IndexIsExact'
  BY <1>0 DEF IndexIsExact
<1>9. NoneSlipsIn'
  BY <1>0 DEF LeaseFollowsStart, LockIsHeld, Managing, NoneSlipsIn, Opening, Under
<1>10. ListIsComplete'
  BY <1>0 DEF GInv, DrainedTellsTheTruth, ListIsComplete, ShutdownIsFinal, gateVars, LockIsHeld,
              Managing
<1> HIDE DEF SessTypeOK
<1> QED BY <1>1, <1>2, <1>3, <1>4, <1>5, <1>6, <1>7, <1>8, <1>9, <1>10

\* start() as it is called, opens its page, and returns.
LEMMA StartingStep ==
    ASSUME SInv, GInv',
           NEW t \in Tasks,
           StartCall(t) \/ OpenPage(t) \/ OpeningLosesBrowser(t) \/ Named(t)
    PROVE  SInv'
<1> USE DEF SInv, SessTypeOK, StartCall, OpenPage, OpeningLosesBrowser, Named, Unlock, Goto
<1>0. /\ gateVars' = gateVars /\ place' = place /\ closing' = closing
      /\ sessions' = sessions /\ current' = current
  BY DEF gateVars
<1>1. SessTypeOK'
  BY <1>0 DEF GInv, Stands, Waiting, Managing, Ended
<1>2. StandsApart'
  BY <1>0
<1>3. LockIsHeld' /\ BusyWithOne'
  <2>1. LockIsHeld'
    BY <1>0 DEF LockIsHeld, Managing
  <2>2. BusyWithOne'
    BY <1>0 DEF BusyWithOne, Busy
  <2> QED BY <2>1, <2>2
<1>4. KnownIsRegistered'
  BY <1>0 DEF KnownIsRegistered, Registered
<1>5. LeaseFollowsStart'
  BY <1>0 DEF LeaseFollowsStart
<1>6. LeaseIsClaimed'
  <2>1. \A s \in Tasks : pc'[s] \in Registered => pc[s] \in Registered
    BY DEF Registered
  <2>2. \A q \in Procs : pc[q] \in Closes => pc'[q] \in Closes /\ on'[q] = on[q]
    BY DEF Closes
  <2> QED BY <1>0, <2>1, <2>2, ClaimsKept
<1>7. PoppedStaysPopped'
  BY <1>0 DEF PoppedStaysPopped, Closes
<1>8. IndexIsExact'
  BY <1>0 DEF IndexIsExact
<1>9. NoneSlipsIn'
  BY <1>0 DEF LeaseFollowsStart, LockIsHeld, Managing, NoneSlipsIn, Opening, Under
<1>10. ListIsComplete'
  BY <1>0 DEF GInv, DrainedTellsTheTruth, ListIsComplete, ShutdownIsFinal, gateVars, LockIsHeld,
              Managing
<1> HIDE DEF SessTypeOK
<1> QED BY <1>1, <1>2, <1>3, <1>4, <1>5, <1>6, <1>7, <1>8, <1>9, <1>10

\* The requests on a session, but for those that find it gone.
LEMMA UserStep ==
    ASSUME SInv, GInv',
           NEW u \in Users,
           \/ GetLocked(u) \/ Operate(u) \/ Operated(u) \/ Failed(u)
           \/ CaptureLosesBrowser(u) \/ Revived(u)
           \/ \E s \in Tasks : Get(u, s) \/ CloseCall(u, s)
    PROVE  SInv'
<1> USE DEF SInv, SessTypeOK, GetLocked, Operate, Operated, Failed, CaptureLosesBrowser, Revived,
           Get, CloseCall, Unlock, Hold, LetGo, Goto
<1>0. /\ gateVars' = gateVars /\ place' = place /\ closing' = closing
      /\ sessions' = sessions /\ current' = current
  BY DEF gateVars
<1>1. SessTypeOK'
  BY <1>0 DEF GInv, Stands, Waiting, Managing, Ended
<1>2. StandsApart'
  BY <1>0
<1>3. LockIsHeld' /\ BusyWithOne'
  <2>1. LockIsHeld'
    BY <1>0 DEF LockIsHeld, Managing
  <2>2. BusyWithOne'
    BY <1>0 DEF BusyWithOne, Busy
  <2> QED BY <2>1, <2>2
<1>4. KnownIsRegistered'
  BY <1>0 DEF KnownIsRegistered, Registered
<1>5. LeaseFollowsStart'
  BY <1>0 DEF LeaseFollowsStart
<1>6. LeaseIsClaimed'
  <2>1. \A s \in Tasks : pc'[s] \in Registered => pc[s] \in Registered
    BY DEF Registered
  <2>2. \A q \in Procs : pc[q] \in Closes => pc'[q] \in Closes /\ on'[q] = on[q]
    BY DEF Closes
  <2> QED BY <1>0, <2>1, <2>2, ClaimsKept
<1>7. PoppedStaysPopped'
  BY <1>0 DEF PoppedStaysPopped, Closes
<1>8. IndexIsExact'
  BY <1>0 DEF IndexIsExact
<1>9. NoneSlipsIn'
  BY <1>0 DEF LeaseFollowsStart, LockIsHeld, Managing, NoneSlipsIn, Opening, Under
<1>10. ListIsComplete'
  BY <1>0 DEF GInv, DrainedTellsTheTruth, ListIsComplete, ShutdownIsFinal, gateVars, LockIsHeld,
              Managing
<1> HIDE DEF SessTypeOK
<1> QED BY <1>1, <1>2, <1>3, <1>4, <1>5, <1>6, <1>7, <1>8, <1>9, <1>10

\* The sweeper, close_all() between its closes, the clock and the pages.
LEMMA ServiceStep ==
    ASSUME SInv, GInv',
           \/ SweepCall \/ SweepEnds \/ SweepStopped \/ Snapshot \/ AllClosed \/ AllDrained
           \/ World
    PROVE  SInv'
<1> USE DEF SInv, SessTypeOK, SweepCall, SweepEnds, SweepStopped, Snapshot, AllClosed, AllDrained,
           World, GoIdle, PageGone, PageSwitched, Unlock, Goto
<1>0. /\ gateVars' = gateVars /\ place' = place /\ closing' = closing
      /\ sessions' = sessions /\ current' = current
  BY DEF gateVars
<1>1. SessTypeOK'
  BY <1>0 DEF GInv, Stands, Waiting, Managing, Ended
<1>2. StandsApart'
  BY <1>0
<1>3. LockIsHeld' /\ BusyWithOne'
  <2>1. LockIsHeld'
    BY <1>0 DEF LockIsHeld, Managing
  <2>2. BusyWithOne'
    BY <1>0 DEF BusyWithOne, Busy
  <2> QED BY <2>1, <2>2
<1>4. KnownIsRegistered'
  BY <1>0 DEF KnownIsRegistered, Registered
<1>5. LeaseFollowsStart'
  BY <1>0 DEF LeaseFollowsStart
<1>6. LeaseIsClaimed'
  <2>1. \A s \in Tasks : pc'[s] \in Registered => pc[s] \in Registered
    BY DEF Registered
  <2>2. \A q \in Procs : pc[q] \in Closes => pc'[q] \in Closes /\ on'[q] = on[q]
    BY DEF Closes
  <2> QED BY <1>0, <2>1, <2>2, ClaimsKept
<1>7. PoppedStaysPopped'
  BY <1>0 DEF PoppedStaysPopped, Closes
<1>8. IndexIsExact'
  BY <1>0 DEF IndexIsExact
<1>9. NoneSlipsIn'
  BY <1>0 DEF LeaseFollowsStart, LockIsHeld, Managing, NoneSlipsIn, Opening, Under
<1>10. ListIsComplete'
  BY <1>0 DEF GInv, DrainedTellsTheTruth, ListIsComplete, ShutdownIsFinal, gateVars, LockIsHeld,
              Managing
<1> HIDE DEF SessTypeOK
<1> QED BY <1>1, <1>2, <1>3, <1>4, <1>5, <1>6, <1>7, <1>8, <1>9, <1>10

-----------------------------------------------------------------------------
(* The steps that register a session or take one away.                     *)

\* _close_locked takes the session out of both maps; who has gone already, is not there.
LEMMA PopStep ==
    ASSUME SInv, GInv',
           \/ \E t \in Tasks : Replace(t)
           \/ \E u \in Users : Close(u)
           \/ \E s \in Tasks : CloseNext(s)
    PROVE  SInv'
<1> USE DEF SInv, SessTypeOK, Replace, Close, CloseNext, Pop, Unlock, Goto
<1>0. gateVars' = gateVars /\ place' = place /\ closing' = closing /\ GateTypeOK'
  BY DEF gateVars, GInv
<1>1. SessTypeOK'
  BY <1>0 DEF BusyWithOne, Busy, Stands, Waiting, Managing, Ended
<1>2. StandsApart'
  BY <1>0
<1>3. LockIsHeld'
  BY <1>0 DEF LockIsHeld, Managing
<1>4. BusyWithOne'
  BY <1>0 DEF BusyWithOne, Busy
<1>5. KnownIsRegistered'
  BY <1>0 DEF KnownIsRegistered, Registered, IndexIsExact
<1>6. LeaseFollowsStart'
  BY <1>0 DEF LeaseFollowsStart
<1>7. LeaseIsClaimed'
  BY <1>0 DEF BusyWithOne, Busy, LeaseIsClaimed, Closes, Registered
<1>8. PoppedStaysPopped'
  BY <1>0 DEF PoppedStaysPopped, Closes
<1>9. IndexIsExact'
  BY <1>0 DEF BusyWithOne, Busy, IndexIsExact
<1>10. NoneSlipsIn'
  BY <1>0 DEF LeaseFollowsStart, LockIsHeld, Managing, NoneSlipsIn, Opening, Under
<1>11. ListIsComplete'
  BY <1>0 DEF LockIsHeld, Managing, ListIsComplete, ShutdownIsFinal, gateVars
<1> HIDE DEF SessTypeOK
<1> QED BY <1>1, <1>2, <1>3, <1>4, <1>5, <1>6, <1>7, <1>8, <1>9, <1>10, <1>11

\* _discard_session and its callers, with no lock, an operation lock or the manager lock.
LEMMA DiscardStep ==
    ASSUME SInv, GInv',
           \/ \E p \in Procs : Expire(p)
           \/ \E p \in Procs, s \in Tasks : ResetSession(p, s)
           \/ \E u \in Users, s \in Tasks : GetGone(u, s)
           \/ \E u \in Users : TargetClosed(u)
    PROVE  SInv'
<1> USE DEF SInv, SessTypeOK, Expire, ResetSession, GetGone, TargetClosed, Discard, Hold, Goto
<1>0. /\ GateTypeOK /\ GateTypeOK' /\ todo' \subseteq todo /\ sessions' \subseteq sessions
      /\ open' \subseteq open
  BY DEF GInv
<1>1. SessTypeOK'
  BY <1>0 DEF BusyWithOne, Busy, Stands, Waiting, Managing, Ended
<1>2. StandsApart'
  BY <1>0
<1>3. LockIsHeld'
  BY <1>0 DEF LockIsHeld, Managing
<1>4. BusyWithOne'
  BY <1>0 DEF BusyWithOne, Busy
<1>5. KnownIsRegistered'
  BY <1>0 DEF KnownIsRegistered, Registered
<1>6. LeaseFollowsStart'
  BY ReleaseMoves, <1>0 DEF BusyWithOne, Busy, LeaseFollowsStart, KnownIsRegistered, Registered
<1>7. LeaseIsClaimed'
  BY ReleaseMoves, <1>0 DEF BusyWithOne, Busy, LeaseIsClaimed, Closes, Registered
<1>8. PoppedStaysPopped'
  BY <1>0 DEF PoppedStaysPopped, Closes
<1>9. IndexIsExact'
  BY <1>0 DEF BusyWithOne, Busy, IndexIsExact
<1>10. NoneSlipsIn'
  BY ReleaseMoves, <1>0 DEF BusyWithOne, Busy, NoneSlipsIn, Opening, Under
<1>11. ListIsComplete'
  <2>1. pc[Closer] \in {"draining", "closed"} => sessions' = {} /\ open' = {}
    BY <1>0 DEF ListIsComplete, ShutdownIsFinal
  <2>2. pc[Closer] = "closed" => active' = {}
    <3>1. pc[Closer] = "closed" => sessions = {} /\ active = {}
      BY SMTT(30) DEF ListIsComplete, ShutdownIsFinal
    <3>2. closing => active' \subseteq active
      BY ClosedGateGrantsNothing, SessionsTakeGateSteps
      DEF SessNext, Step, TakesOpLock, Proceeds, Calls
    <3> QED BY <3>1, <3>2 DEF NoneSlipsIn
  <2>3. pc'[Closer] = pc[Closer]
    OBVIOUS
  <2>4. pc[Closer] = "resetting" => sessions' \subseteq todo'
    BY <1>0 DEF ListIsComplete
  <2> QED BY <2>1, <2>2, <2>3, <2>4 DEF ListIsComplete, ShutdownIsFinal
<1> HIDE DEF SessTypeOK
<1> QED BY <1>1, <1>2, <1>3, <1>4, <1>5, <1>6, <1>7, <1>8, <1>9, <1>10, <1>11

\* The end of _close_locked: the page is closed, then the lease is released.
LEMMA ClosedStep ==
    ASSUME SInv, GInv',
           NEW p \in Procs, Closed(p)
    PROVE  SInv'
<1> USE DEF SInv, SessTypeOK, Closed, EndClose, LetGo, Goto
<1>0. /\ GateTypeOK /\ GateTypeOK' /\ on[p] \in Tasks /\ todo' = todo /\ sessions' = sessions
      /\ open' \subseteq open
  BY DEF GInv, BusyWithOne, Busy
<1>1. SessTypeOK'
  BY <1>0 DEF Stands, Waiting, Managing, Ended
<1>2. StandsApart'
  BY <1>0
<1>3. LockIsHeld'
  BY <1>0 DEF LockIsHeld, Managing
<1>4. BusyWithOne'
  BY <1>0 DEF BusyWithOne, Busy
<1>5. KnownIsRegistered'
  BY <1>0 DEF KnownIsRegistered, Registered
<1>6. LeaseFollowsStart'
  BY ReleaseMoves, <1>0 DEF LeaseFollowsStart, KnownIsRegistered, Registered, PoppedStaysPopped, Closes
<1>7. LeaseIsClaimed'
  BY ReleaseMoves, <1>0 DEF LeaseIsClaimed, Closes, Registered
<1>8. PoppedStaysPopped'
  BY <1>0 DEF PoppedStaysPopped, Closes
<1>9. IndexIsExact'
  BY <1>0 DEF IndexIsExact
<1>10. NoneSlipsIn'
  BY ReleaseMoves, <1>0 DEF NoneSlipsIn, Opening, Under
<1>11. ListIsComplete'
  <2>1. pc[Closer] \in {"draining", "closed"} => sessions' = {} /\ open' = {}
    BY <1>0 DEF ListIsComplete, ShutdownIsFinal
  <2>2. pc[Closer] = "closed" => active' = {}
    <3>1. pc[Closer] = "closed" => active = {}
      BY DEF ListIsComplete, ShutdownIsFinal
    <3>2. closing => active' \subseteq active
      BY ClosedGateGrantsNothing, SessionsTakeGateSteps DEF SessNext, Step, Proceeds
    <3> QED BY <3>1, <3>2 DEF NoneSlipsIn
  <2>3. pc'[Closer] = pc[Closer] \/ pc'[Closer] = "emptying"
    OBVIOUS
  <2>4. pc[Closer] = "resetting" => sessions' \subseteq todo'
    BY <1>0 DEF ListIsComplete
  <2> QED BY <2>1, <2>2, <2>3, <2>4 DEF ListIsComplete, ShutdownIsFinal
<1> HIDE DEF SessTypeOK
<1> QED BY <1>1, <1>2, <1>3, <1>4, <1>5, <1>6, <1>7, <1>8, <1>9, <1>10, <1>11

\* start() has its page and registers the session under the manager lock.
LEMMA RegisterStep ==
    ASSUME SInv, GInv',
           NEW t \in Tasks, Register(t)
    PROVE  SInv'
<1> USE DEF SInv, SessTypeOK, Register, Goto
<1>0. /\ gateVars' = gateVars /\ place' = place /\ closing' = closing /\ GateTypeOK'
      /\ pc[Closer] \in {"out", "shutdown"}
  BY DEF gateVars, GInv, NoneSlipsIn, Opening
<1>1. SessTypeOK'
  BY <1>0 DEF Stands, Waiting, Managing, Ended
<1>2. StandsApart'
  BY <1>0
<1>3. LockIsHeld'
  BY <1>0 DEF LockIsHeld, Managing
<1>4. BusyWithOne'
  BY <1>0 DEF BusyWithOne, Busy
<1>5. KnownIsRegistered'
  BY <1>0 DEF KnownIsRegistered, Registered
<1>6. LeaseFollowsStart'
  BY <1>0 DEF LeaseFollowsStart
<1>7. LeaseIsClaimed'
  BY <1>0 DEF LeaseIsClaimed, Closes, Registered
<1>8. PoppedStaysPopped'
  BY <1>0 DEF BusyWithOne, Busy, KnownIsRegistered, Registered, PoppedStaysPopped, Closes
<1>9. IndexIsExact'
  BY <1>0 DEF LockIsHeld, Managing, IndexIsExact
<1>10. NoneSlipsIn'
  BY <1>0 DEF NoneSlipsIn, Opening, Under
<1>11. ListIsComplete'
  BY <1>0 DEF ListIsComplete, ShutdownIsFinal
<1> HIDE DEF SessTypeOK
<1> QED BY <1>1, <1>2, <1>3, <1>4, <1>5, <1>6, <1>7, <1>8, <1>9, <1>10, <1>11

-----------------------------------------------------------------------------
(* The steps that call the gate.                                           *)

\* start() asks for its lease, gets it or not, and gives it back when the page fails.
LEMMA LeaseStep ==
    ASSUME SInv, GInv',
           NEW t \in Tasks,
           \/ AskForLease(t) \/ LeaseGranted(t) \/ LeaseRefused(t)
           \/ TooLate(t) \/ OpeningFails(t)
    PROVE  SInv'
<1> USE DEF SInv, SessTypeOK, AskForLease, LeaseGranted, LeaseRefused, TooLate, OpeningFails, Unlock, Goto
<1>0. /\ GateTypeOK /\ GateTypeOK' /\ sessions' = sessions /\ current' = current /\ open' = open
      /\ todo' = todo
  BY DEF GInv
<1>1. SessTypeOK'
  BY <1>0 DEF Stands, Waiting, Managing, Ended
<1>2. StandsApart'
  BY <1>0
<1>3. LockIsHeld'
  BY <1>0 DEF LockIsHeld, Managing
<1>4. BusyWithOne'
  BY <1>0 DEF BusyWithOne, Busy
<1>5. KnownIsRegistered'
  BY <1>0 DEF KnownIsRegistered, Registered
<1>6. LeaseFollowsStart'
  <2> SUFFICES ASSUME NEW s \in Tasks
               PROVE  /\ pc'[s] \in {"out", "first"} => place'[s] = "outside"
                      /\ pc'[s] = "acquiring" <=> place'[s] \in {"waiting", "cancelled"}
                      /\ pc'[s] \in {"second", "opening", "reopening", "resetting"} =>
                            place'[s] = "leased"
                      /\ s \in sessions => place'[s] = "leased"
    BY <1>0 DEF LeaseFollowsStart
  <2>1. CASE s = t
    <3>1. t \notin sessions
      BY DEF KnownIsRegistered, Registered
    <3>2. CASE AskForLease(t)
      BY <2>1, <3>1, <3>2, <1>0, GateMoves DEF gateVars
    <3>3. CASE ~AskForLease(t)
      BY <2>1, <3>1, <3>3, <1>0, GateMoves
    <3> QED BY <3>2, <3>3
  <2>2. CASE s # t
    <3>1. place'[s] = place[s] /\ pc'[s] = pc[s]
      BY <2>2, <1>0, GateMoves DEF gateVars
    <3> QED BY <3>1 DEF LeaseFollowsStart
  <2> QED BY <2>1, <2>2
<1>7. LeaseIsClaimed'
  <2> SUFFICES ASSUME NEW s \in Tasks, pc'[s] \in Registered, place'[s] = "leased"
               PROVE  s \in sessions \/ \E p \in Procs : on'[p] = s /\ pc'[p] \in Closes
    BY <1>0 DEF LeaseIsClaimed
  <2>1. s # t
    BY <1>0, GateMoves DEF Registered, gateVars, LeaseFollowsStart
  <2>2. place'[s] = place[s] /\ pc'[s] = pc[s]
    BY <2>1, <1>0, GateMoves DEF gateVars
  <2>3. s \in sessions \/ \E p \in Procs : on[p] = s /\ pc[p] \in Closes
    BY <2>2 DEF LeaseIsClaimed
  <2>4. \A p \in Procs : pc[p] \in Closes => on'[p] = on[p] /\ pc'[p] = pc[p]
    BY DEF Closes
  <2> QED BY <2>3, <2>4
<1>8. PoppedStaysPopped'
  BY <1>0 DEF PoppedStaysPopped, Closes
<1>9. IndexIsExact'
  BY <1>0 DEF IndexIsExact
<1>10. NoneSlipsIn'
  BY GateMoves, <1>0 DEF NoneSlipsIn, Opening, Under, gateVars
<1>11. ListIsComplete'
  <2>1. pc'[Closer] = pc[Closer]
    OBVIOUS
  <2>2. pc[Closer] = "closed" => active' = {}
    <3>1. pc[Closer] = "closed" => active = {}
      BY DEF ListIsComplete, ShutdownIsFinal
    <3>2. closing => active' \subseteq active
      BY ClosedGateGrantsNothing, SessionsTakeGateSteps
      DEF SessNext, Step, TakesManager, Proceeds
    <3> QED BY <3>1, <3>2 DEF NoneSlipsIn
  <2> QED BY <1>0, <2>1, <2>2 DEF ListIsComplete, ShutdownIsFinal
<1> HIDE DEF SessTypeOK
<1> QED BY <1>1, <1>2, <1>3, <1>4, <1>5, <1>6, <1>7, <1>8, <1>9, <1>10, <1>11

\* close_all() closes the gate and goes for the manager lock.
LEMMA CloseAllStep ==
    ASSUME SInv, GInv',
           CloseAll
    PROVE  SInv'
<1> USE DEF SInv, SessTypeOK, CloseAll, BeginClose, Goto
<1>0. GateTypeOK' /\ pc[Closer] = "out"
  BY DEF GInv
<1>1. SessTypeOK'
  BY <1>0 DEF Stands, Waiting, Managing, Ended
<1>2. StandsApart'
  BY <1>0
<1>3. LockIsHeld'
  BY <1>0 DEF LockIsHeld, Managing
<1>4. BusyWithOne'
  BY <1>0 DEF BusyWithOne, Busy
<1>5. KnownIsRegistered'
  BY <1>0 DEF KnownIsRegistered, Registered
<1>6. LeaseFollowsStart'
  BY <1>0 DEF LeaseFollowsStart
<1>7. LeaseIsClaimed'
  BY <1>0 DEF LeaseIsClaimed, Closes, Registered
<1>8. PoppedStaysPopped'
  BY <1>0 DEF PoppedStaysPopped, Closes
<1>9. IndexIsExact'
  BY <1>0 DEF IndexIsExact
<1>10. NoneSlipsIn'
  BY <1>0 DEF NoneSlipsIn
<1>11. ListIsComplete'
  BY <1>0 DEF ListIsComplete, ShutdownIsFinal
<1> HIDE DEF SessTypeOK
<1> QED BY <1>1, <1>2, <1>3, <1>4, <1>5, <1>6, <1>7, <1>8, <1>9, <1>10, <1>11

-----------------------------------------------------------------------------
(* The invariant of the interactive sessions, and what follows from it.    *)

LEMMA SessInit == Init => SInv
<1> SUFFICES ASSUME Init PROVE SInv
  OBVIOUS
<1>1. GInv /\ GateTypeOK
  BY InitInvariant DEF Init, GInv
<1>2. SessTypeOK /\ StandsApart /\ LockIsHeld /\ BusyWithOne
  BY <1>1 DEF Init, SessTypeOK, Stands, Ended, LockIsHeld, Managing, BusyWithOne, Busy
<1>3. KnownIsRegistered /\ LeaseFollowsStart /\ LeaseIsClaimed /\ PoppedStaysPopped
  BY DEF Init, GateInit, KnownIsRegistered, LeaseFollowsStart, LeaseIsClaimed,
         PoppedStaysPopped, Registered, Closes
<1>4. IndexIsExact /\ NoneSlipsIn /\ ListIsComplete
  BY DEF Init, IndexIsExact, NoneSlipsIn, ListIsComplete, ShutdownIsFinal
<1> QED BY <1>1, <1>2, <1>3, <1>4 DEF SInv

\* A state that differs in nothing has the same properties.
LEMMA SessStutter ==
    ASSUME SInv, GInv', UNCHANGED vars
    PROVE  SInv'
<1>1. UNCHANGED gateVars /\ UNCHANGED sessVars
  BY DEF vars
<1>2. SessTypeOK' /\ LockIsHeld' /\ BusyWithOne' /\ KnownIsRegistered' /\ StandsApart'
  BY <1>1 DEF SInv, GInv, sessVars, SessTypeOK, LockIsHeld, BusyWithOne, KnownIsRegistered
<1>3. LeaseFollowsStart' /\ LeaseIsClaimed' /\ PoppedStaysPopped' /\ IndexIsExact'
  BY <1>1 DEF SInv, gateVars, sessVars, LeaseFollowsStart, LeaseIsClaimed, PoppedStaysPopped,
              IndexIsExact
<1>4. NoneSlipsIn' /\ ListIsComplete'
  BY <1>1 DEF SInv, gateVars, sessVars, NoneSlipsIn, ListIsComplete, ShutdownIsFinal
<1> QED BY <1>2, <1>3, <1>4 DEF SInv

LEMMA SessStep == SInv /\ [SessNext]_vars => SInv'
<1> SUFFICES ASSUME SInv, [SessNext]_vars PROVE SInv'
  OBVIOUS
<1>1. GInv'
  BY SessionsTakeGateSteps, StepKeepsInvariant DEF SInv
<1>2. ASSUME NEW p \in Procs, TakesManager(p)
      PROVE  SInv'
  <2>1. CASE BeginVisits(p)
    BY <1>1, <2>1, VisitingStep
  <2>2. CASE p \in Tasks /\ TooLate(p)
    BY <1>1, <2>2, LeaseStep
  <2>3. CASE p \in Users /\ GetLocked(p)
    BY <1>1, <2>3, UserStep
  <2>4. CASE p \in Users /\ Close(p)
    BY <1>1, <2>4, PopStep
  <2>5. CASE Snapshot
    BY <1>1, <2>5, ServiceStep
  <2> QED BY <1>2, <2>1, <2>2, <2>3, <2>4, <2>5 DEF TakesManager
<1>3. ASSUME NEW p \in Procs, TakesOpLock(p)
      PROVE  SInv'
  <2>1. CASE Spare(p) \/ TakeForClose(p)
    BY <1>1, <2>1, VisitingStep
  <2>2. CASE Expire(p)
    BY <1>1, <2>2, DiscardStep
  <2>3. CASE p \in Users /\ Operate(p)
    BY <1>1, <2>3, UserStep
  <2> QED BY <1>3, <2>1, <2>2, <2>3 DEF TakesOpLock
<1>4. ASSUME NEW p \in Procs, Proceeds(p)
      PROVE  SInv'
  <2>1. CASE (\E s \in Tasks : Visit(p, s)) \/ Expired(p) \/ Saved(p) \/ ResetBrowser(p)
    BY <1>1, <2>1, VisitingStep
  <2>2. CASE \E s \in Tasks : ResetSession(p, s)
    BY <1>1, <2>2, DiscardStep
  <2>3. CASE Closed(p)
    BY <1>1, <2>3, ClosedStep
  <2>4. ASSUME p \in Tasks, OpenPage(p) \/ OpeningLosesBrowser(p) \/ Named(p)
        PROVE  SInv'
    BY <1>1, <2>4, StartingStep
  <2>5. ASSUME p \in Tasks,
               AskForLease(p) \/ LeaseGranted(p) \/ LeaseRefused(p) \/ OpeningFails(p)
        PROVE  SInv'
    BY <1>1, <2>5, LeaseStep
  <2>6. CASE p \in Tasks /\ Replace(p)
    BY <1>1, <2>6, PopStep
  <2>7. CASE p \in Tasks /\ Register(p)
    BY <1>1, <2>7, RegisterStep
  <2>8. CASE p \in Users /\ (\/ Operated(p) \/ Failed(p)
                           \/ CaptureLosesBrowser(p) \/ Revived(p))
    BY <1>1, <2>8, UserStep
  <2>9. CASE p \in Users /\ TargetClosed(p)
    BY <1>1, <2>9, DiscardStep
  <2>10. CASE SweepEnds \/ AllClosed \/ AllDrained
    BY <1>1, <2>10, ServiceStep
  <2>11. CASE \E s \in Tasks : CloseNext(s)
    BY <1>1, <2>11, PopStep
  <2> QED BY <1>4, <2>1, <2>2, <2>3, <2>4, <2>5, <2>6, <2>7, <2>8, <2>9, <2>10, <2>11
          DEF Proceeds
<1>5. CASE Calls
  <2>1. CASE \E t \in Tasks : StartCall(t)
    BY <1>1, <2>1, StartingStep
  <2>2. CASE \E u \in Users, s \in Tasks : GetGone(u, s)
    BY <1>1, <2>2, DiscardStep
  <2>3. CASE \E u \in Users, s \in Tasks : Get(u, s) \/ CloseCall(u, s)
    BY <1>1, <2>3, UserStep
  <2>4. CASE SweepCall \/ SweepStopped
    BY <1>1, <2>4, ServiceStep
  <2>5. CASE CloseAll
    BY <1>1, <2>5, CloseAllStep
  <2> QED BY <1>5, <2>1, <2>2, <2>3, <2>4, <2>5 DEF Calls
<1>6. CASE World
  BY <1>1, <1>6, ServiceStep
<1>7. CASE UNCHANGED vars
  BY <1>1, <1>7, SessStutter
<1> QED BY <1>2, <1>3, <1>4, <1>5, <1>6, <1>7 DEF SessNext, Step

LEMMA SessInvariant == SessSpec => []SInv
<1> QED BY SessInit, SessStep, PTL DEF SessSpec

\* The sessions use the gate as its callers may: its limits and its order hold of them.
THEOREM SessionsUseTheGate == SessSpec => Spec
<1>1. Init => GateInit
  BY DEF Init
<1>2. SInv /\ [SessNext]_vars => [Next]_gateVars
  BY SessionsTakeGateSteps
<1> QED BY <1>1, <1>2, SessInvariant, PTL DEF SessSpec, Spec

\* The types of the manager's state, for any starts, users and accounts.
THEOREM SessTypeCorrect == SessSpec => []SessTypeOK
<1>1. SInv => SessTypeOK
  BY DEF SInv
<1> QED BY <1>1, SessInvariant, PTL

\* However starts, closes, sweeps and late discards interleave, an account has at most
\* one session, and the two maps of the manager name the same ones
\* (browser_sessions.py:1019-1023).
THEOREM OneSessionPerAccount == SessSpec => []IndexAgrees
<1>1. SInv => IndexAgrees
  BY DEF SInv, IndexIsExact, IndexAgrees
<1> QED BY <1>1, SessInvariant, PTL

\* No lease is forgotten: one that is out belongs to a start() under way, to a session in
\* _sessions, or to a close that will release it.
THEOREM LeasesAreAccountedFor == SessSpec => []NoLeaseForgotten
<1>1. SInv => NoLeaseForgotten
  <2> SUFFICES ASSUME SInv PROVE NoLeaseForgotten
    OBVIOUS
  <2>1. sessions \subseteq active
    BY DEF SInv, SessTypeOK, LeaseFollowsStart, GInv, TokensAreOwned
  <2>2. ASSUME NEW s \in active, s \notin sessions
        PROVE  \/ pc[s] \in {"second", "acquiring", "visiting", "expiring", "discarded",
                             "closing", "leaving", "opening", "reopening", "resetting"}
               \/ \E p \in Procs :
                     on[p] = s /\ pc[p] \in {"closing", "saving", "reviving", "leaving"}
    <3>1. s \in Tasks /\ place[s] # "outside" /\ place[s] \in Places
      BY DEF SInv, GInv, GateTypeOK, TokensAreOwned
    <3>2. CASE pc[s] \in Registered
      <4>1. place[s] = "leased"
        BY <3>1, <3>2 DEF SInv, LeaseFollowsStart, Registered, Places
      <4> QED BY <2>2, <3>1, <3>2, <4>1 DEF SInv, LeaseIsClaimed, Closes
    <3>3. CASE pc[s] \notin Registered
      BY <3>1, <3>3 DEF SInv, LeaseFollowsStart, Registered
    <3> QED BY <3>2, <3>3
  <2> QED BY <2>1, <2>2 DEF NoLeaseForgotten
<1> QED BY <1>1, SessInvariant, PTL

\* close_all() that gets past its sessions leaves no session, page or lease behind, and
\* no start() slips in behind it.
THEOREM ShutdownLeavesNothing == SessSpec => []ShutdownIsFinal
<1>1. SInv => ShutdownIsFinal
  BY DEF SInv, ListIsComplete
<1> QED BY <1>1, SessInvariant, PTL

\* A session goes only when it is idle at that moment, its page or context is gone, or
\* the holder of the manager lock closes it (browser_sessions.py:862-865).
THEOREM SessionsLeaveForAReason == SessSpec => LeavesForAReason
<1>1. ASSUME SInv, [SessNext]_vars, NEW s \in sessions \ sessions'
      PROVE  \/ s \in idle
             \/ s \in dead \/ s \notin open
             \/ \E p \in Procs : \/ manager' = p /\ pc'[p] = "closing" /\ on'[p] = s
                                 \/ manager = p /\ pc[p] \in {"resetting", "reviving"}
  <2> USE <1>1
  <2>1. s \in Tasks /\ sessions' # sessions
    BY DEF SInv, SessTypeOK
  <2>2. \/ \E p \in Procs : Expire(p) \/ \E s2 \in Tasks : ResetSession(p, s2)
        \/ \E u \in Users : TargetClosed(u) \/ Close(u) \/ \E s2 \in Tasks : GetGone(u, s2)
        \/ \E t \in Tasks : Replace(t) \/ CloseNext(t)
    <3>1. ~UNCHANGED vars /\ ~World /\ (SessNext => ~Snapshot)
      BY <2>1 DEF vars, sessVars, World, GoIdle, PageGone, PageSwitched, Snapshot
    <3>2. ASSUME NEW p \in Procs, TakesManager(p)
          PROVE  p \in Users /\ Close(p)
      BY <2>1, <3>2 DEF TakesManager, BeginVisits, TooLate, GetLocked, Snapshot
    <3>3. ASSUME NEW p \in Procs, TakesOpLock(p)
          PROVE  Expire(p)
      BY <2>1, <3>3 DEF TakesOpLock, Spare, TakeForClose, Operate
    <3>4. ASSUME NEW t \in Tasks
          PROVE  /\ ~AskForLease(t) /\ ~LeaseGranted(t) /\ ~LeaseRefused(t) /\ ~OpenPage(t)
                 /\ ~OpeningFails(t) /\ ~OpeningLosesBrowser(t) /\ ~Named(t) /\ ~StartCall(t)
                 /\ ~Register(t)
      BY <1>1, <2>1 DEF AskForLease, LeaseGranted, LeaseRefused, OpenPage, OpeningFails,
                        OpeningLosesBrowser, Named, StartCall, Register
    <3>5. ASSUME NEW p \in Procs, Proceeds(p)
          PROVE  \/ \E s2 \in Tasks : ResetSession(p, s2)
                 \/ p \in Users /\ TargetClosed(p)
                 \/ \E t \in Tasks : Replace(t) \/ CloseNext(t)
      BY <2>1, <3>4, <3>5
      DEF Proceeds, Visit, Expired, Saved, Closed, ResetBrowser, Operated, Failed,
          CaptureLosesBrowser, Revived, SweepEnds, AllClosed, AllDrained
    <3>6. ASSUME Calls
          PROVE  \E u \in Users, s2 \in Tasks : GetGone(u, s2)
      BY <2>1, <3>4, <3>6 DEF Calls, Get, CloseCall, SweepCall, SweepStopped, CloseAll
    <3> QED BY <3>1, <3>2, <3>3, <3>5, <3>6 DEF SessNext, Step
  <2>3. ASSUME NEW p \in Procs, Expire(p)
        PROVE  s \in idle
    BY <2>3 DEF Expire, Discard
  <2>4. ASSUME NEW p \in Procs, NEW s2 \in Tasks, ResetSession(p, s2)
        PROVE  manager = p /\ pc[p] \in {"resetting", "reviving"}
    BY <2>4 DEF ResetSession, SInv, LockIsHeld, Managing
  <2>5. ASSUME NEW u \in Users, NEW s2 \in Tasks, TargetClosed(u) \/ GetGone(u, s2)
        PROVE  s \in dead \/ s \notin open
    BY <2>5 DEF TargetClosed, GetGone, Discard
  <2>6. ASSUME NEW u \in Users, Close(u)
        PROVE  manager' = u /\ pc'[u] = "closing" /\ on'[u] = s
    BY <2>1, <2>6 DEF Close, Pop, Goto, SInv, SessTypeOK
  <2>7. ASSUME NEW t \in Tasks, Replace(t)
        PROVE  manager' = t /\ pc'[t] = "closing" /\ on'[t] = s
    BY <2>1, <2>7 DEF Replace, Pop, Goto, SInv, SessTypeOK, LockIsHeld, Managing
  <2>8. ASSUME NEW t \in Tasks, CloseNext(t)
        PROVE  manager' = Closer /\ pc'[Closer] = "closing" /\ on'[Closer] = s
    BY <2>1, <2>8 DEF CloseNext, Pop, Goto, SInv, SessTypeOK, LockIsHeld, Managing
  <2>9. CASE \E p \in Procs : Expire(p) \/ \E s2 \in Tasks : ResetSession(p, s2)
    BY <2>3, <2>4, <2>9
  <2>10. CASE \E u \in Users : TargetClosed(u) \/ Close(u) \/ \E s2 \in Tasks : GetGone(u, s2)
    <3>1. PICK u \in Users : TargetClosed(u) \/ Close(u) \/ \E s2 \in Tasks : GetGone(u, s2)
      BY <2>10
    <3>2. CASE Close(u)
      <4>1. u \in Procs
        OBVIOUS
      <4> QED BY <2>6, <3>2, <4>1
    <3>3. CASE ~Close(u)
      <4>1. PICK s2 \in Tasks : TargetClosed(u) \/ GetGone(u, s2)
        BY <2>1, <3>1, <3>3
      <4> QED BY <2>5, <4>1
    <3> QED BY <3>2, <3>3
  <2>11. CASE \E t \in Tasks : Replace(t) \/ CloseNext(t)
    <3>1. PICK t \in Tasks : Replace(t) \/ CloseNext(t)
      BY <2>11
    <3>2. t \in Procs /\ Closer \in Procs
      OBVIOUS
    <3> QED BY <2>7, <2>8, <3>1, <3>2
  <2> QED BY <2>2, <2>9, <2>10, <2>11
<1>2. SInv /\ [SessNext]_vars =>
        [\A s \in sessions \ sessions' :
            \/ s \in idle
            \/ s \in dead \/ s \notin open
            \/ \E p \in Procs : \/ manager' = p /\ pc'[p] = "closing" /\ on'[p] = s
                                \/ manager = p /\ pc[p] \in {"resetting", "reviving"}]_vars
  BY <1>1
<1> QED BY <1>2, SessInvariant, PTL DEF SessSpec, LeavesForAReason
=============================================================================
