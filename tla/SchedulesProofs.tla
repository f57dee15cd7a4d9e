-------------------------- MODULE SchedulesProofs --------------------------
(***************************************************************************)
(* Proofs about the two services that act once a day, Schedules and        *)
(* Backups.                                                                *)
(*                                                                         *)
(* A schedule is claimed once a day.  Everything is counted in the ticks   *)
(* to the next daily time: the next run comes no later than that plus the  *)
(* random delay, and not before it once the run of the day was claimed.    *)
(* The heartbeat is counted in what is left of a job, or of the wait.      *)
(*                                                                         *)
(* A backup is claimed once a day, retention leaves an archive that was    *)
(* read back, and what is in effect is what is stored: by one invariant    *)
(* on who is at work at the run lock, and how far the work has come.       *)
(***************************************************************************)
EXTENDS Schedules, Backups, TLAPS

-----------------------------------------------------------------------------
(* SCHEDULES                                                               *)

\* Where the next run of a row stands between two of its daily times.
Timed(r, count, undisturbed) == LET w == WaitUntil(r.time) IN
    /\ r.next # Never => r.next <= w + r.jitter
    /\ r.next # Never /\ count = 1 => r.next >= w
    /\ undisturbed /\ count = 0 => r.next + Day <= w + r.jitter

AllTimed == \A a \in Accounts : row[a] # None => Timed(row[a], served[a], a \in calm)
AtMostOne == \A a \in Accounts : served[a] <= 1
Initialised ==
    up => \A a \in Accounts : row[a] # None /\ row[a].enabled => row[a].next # Never
CalmIsHealthy == \A a \in calm : Healthy(a)

SchInv == /\ SchedTypeOK /\ OwnRow
          /\ AllTimed /\ AtMostOne /\ Initialised /\ CalmIsHealthy

-----------------------------------------------------------------------------
(* The clock.                                                              *)

LEMMA Waits ==
    ASSUME clock \in 0 .. Day - 1, NEW time \in Times
    PROVE  /\ WaitUntil(time) \in 1 .. Day
           /\ (clock - time) % Day = Day - WaitUntil(time)
<1>1. Day \in Nat \ {0} /\ time \in 0 .. Day - 1
  BY TicksAreCounted
<1>2. CASE time > clock
  <2>1. (clock - time) % Day = clock - time + Day
    BY <1>1, <1>2
  <2> QED BY <1>1, <1>2, <2>1 DEF WaitUntil
<1>3. CASE time <= clock
  <2>1. clock - time \in 0 .. Day - 1
    BY <1>1, <1>3
  <2>2. (clock - time) % Day = clock - time
    BY <1>1, <2>1
  <2> QED BY <1>1, <1>3, <2>2 DEF WaitUntil
<1> QED BY <1>1, <1>2, <1>3

\* With every tick the daily time comes nearer, until it is there.
LEMMA OneTickLess ==
    ASSUME clock \in 0 .. Day - 1, clock' = (clock + 1) % Day, NEW time \in Times
    PROVE  /\ clock' \in 0 .. Day - 1
           /\ time = clock' => WaitUntil(time) = 1 /\ WaitUntil(time)' = Day
           /\ time # clock' => WaitUntil(time)' = WaitUntil(time) - 1
<1>1. Day \in Nat \ {0} /\ time \in 0 .. Day - 1
  BY TicksAreCounted
<1>2. clock' = IF clock + 1 = Day THEN 0 ELSE clock + 1
  BY <1>1
<1> QED BY <1>1, <1>2 DEF WaitUntil

\* What _next_run returns lies in the claims' future: at the daily time or after it.
LEMMA NextRunTimed ==
    ASSUME clock \in 0 .. Day - 1, NEW time \in Times, NEW jitter \in Jitters,
           NEW n \in NextRun(time, jitter)
    PROVE  /\ n \in 1 .. 2 * Day
           /\ WaitUntil(time) <= n /\ n <= WaitUntil(time) + jitter
<1>1. PICK j \in 0 .. jitter : n = WaitUntil(time) + j
  BY DEF NextRun
<1>2. jitter \in 0 .. Day /\ Day \in Nat
  BY TicksAreCounted
<1> QED BY <1>1, <1>2, Waits

LEMMA RowFields ==
    ASSUME NEW r \in Row
    PROVE  /\ r.enabled \in BOOLEAN /\ r.time \in Times /\ r.jitter \in Jitters
           /\ r.retries \in Retries /\ r.next \in Never .. 2 * Day
           /\ r.status \in {None, "ok", "failed"} /\ r # None
           /\ r.jitter \in 0 .. Day
BY TicksAreCounted, NoneIsNothing DEF Row

\* The daily run is what the invariant says, read with the clock.
LEMMA InvMeansDaily == SchInv => ScheduleInv
<1> SUFFICES ASSUME SchInv PROVE DailyRun
  BY DEF SchInv, ScheduleInv
<1> SUFFICES ASSUME NEW a \in Accounts
             PROVE  /\ served[a] <= 1
                    /\ Healthy(a) => row[a].next # Never
                    /\ a \in calm /\ row[a] # None
                          /\ (clock - row[a].time) % Day > row[a].jitter
                       => served[a] = 1
  BY DEF DailyRun
<1>1. served[a] <= 1 /\ served[a] \in Nat /\ (Healthy(a) => row[a].next # Never)
  BY DEF SchInv, AtMostOne, Initialised, SchedTypeOK, Healthy
<1>2. ASSUME a \in calm, row[a] # None, (clock - row[a].time) % Day > row[a].jitter,
             served[a] = 0
      PROVE  FALSE
  <2> DEFINE r == row[a]
  <2>1. r \in Row /\ clock \in 0 .. Day - 1
    BY <1>2 DEF SchInv, SchedTypeOK, Pick
  <2>2. r.next + Day <= WaitUntil(r.time) + r.jitter
    BY <1>2 DEF SchInv, AllTimed, Timed
  <2>3. r.next # Never
    BY <1>2, <1>1 DEF SchInv, CalmIsHealthy
  <2>4. r.next \in 0 .. 2 * Day /\ r.jitter \in 0 .. Day /\ r.time \in Times /\ Day \in Nat
    BY <2>1, <2>3, RowFields, TicksAreCounted DEF Never
  <2>5. (clock - r.time) % Day = Day - WaitUntil(r.time) /\ WaitUntil(r.time) \in 1 .. Day
    BY <2>1, <2>4, Waits
  <2> QED BY <2>2, <2>4, <2>5, <1>2
<1> QED BY <1>1, <1>2

-----------------------------------------------------------------------------
(* One lemma per action.                                                   *)

\* What every action has to show of the rows: that they stay on time.
LEMMA Typed ==
    ASSUME SchInv
    PROVE  /\ clock \in 0 .. Day - 1 /\ up \in BOOLEAN
           /\ account \in [Accounts -> {"enabled", "disabled", "gone"}]
           /\ row \in [Accounts -> Pick(Row)] /\ job \in [Jobs -> Pick(Job)]
           /\ calm \subseteq Accounts /\ served \in [Accounts -> Nat]
           /\ beat \in [Accounts -> Nat \union {Never}]
           /\ \A a \in Accounts : row[a] # None => row[a] \in Row
           /\ \A i \in Jobs : job[i] # None => job[i] \in Job
BY DEF SchInv, SchedTypeOK, Pick

\* A step that leaves the times of every row as they are.
RowsKept == \A a \in Accounts : row'[a] # None =>
    /\ row[a] # None
    /\ row'[a].enabled = row[a].enabled /\ row'[a].time = row[a].time
    /\ row'[a].jitter = row[a].jitter /\ row'[a].next = row[a].next

LEMMA KeptOnTime ==
    ASSUME SchInv, RowsKept, clock' = clock, served' = served, up' => up, calm' \subseteq calm
    PROVE  AllTimed' /\ AtMostOne' /\ Initialised'
<1>1. \A time : WaitUntil(time)' = WaitUntil(time)
  BY DEF WaitUntil
<1>2. AllTimed'
  <2> SUFFICES ASSUME NEW a \in Accounts, row'[a] # None
               PROVE  Timed(row'[a], served'[a], a \in calm')
    <3>1. \A r, n, c : Timed(r, n, c)' = Timed(r, n, c)
      BY <1>1 DEF Timed
    <3> QED BY <1>1 DEF AllTimed, Timed
  <2>1. Timed(row[a], served[a], a \in calm)
    BY DEF SchInv, AllTimed, RowsKept
  <2> QED BY <2>1 DEF Timed, RowsKept
<1>3. AtMostOne'
  BY DEF SchInv, AtMostOne
<1>4. Initialised'
  BY DEF SchInv, Initialised, RowsKept
<1> QED BY <1>2, <1>3, <1>4

LEMMA DisturbTyped ==
    ASSUME SchInv, NEW a \in Accounts, Disturb(a)
    PROVE  /\ calm' \subseteq calm /\ calm' \subseteq Accounts /\ a \notin calm'
           /\ beat' \in [Accounts -> Nat \union {Never}]
BY Typed DEF Disturb

LEMMA DownStep ==
    ASSUME SchInv, Down
    PROVE  SchInv'
<1>1. /\ SchedTypeOK' /\ OwnRow' /\ CalmIsHealthy'
  BY DEF SchInv, SchedTypeOK, OwnRow, CalmIsHealthy, Down, Pick
<1>2. RowsKept
  BY DEF RowsKept, Down
<1>3. clock' = clock /\ served' = served /\ (up' => up) /\ calm' \subseteq calm
  BY DEF Down
<1> QED BY <1>1, <1>2, <1>3, KeptOnTime DEF SchInv

LEMMA SetEnabledStep ==
    ASSUME SchInv, NEW a \in Accounts, NEW s \in {"enabled", "disabled"}, SetEnabled(a, s)
    PROVE  SchInv'
<1>1. calm' \subseteq calm /\ a \notin calm' /\ beat' \in [Accounts -> Nat \union {Never}]
  BY DisturbTyped DEF SetEnabled
<1>2. /\ account' = [account EXCEPT ![a] = s]
      /\ clock' = clock /\ served' = served /\ up' = up /\ row' = row /\ job' = job
  BY DEF SetEnabled
<1>3. SchedTypeOK' /\ OwnRow'
  BY <1>1, <1>2 DEF SchInv, SchedTypeOK, OwnRow
<1>4. CalmIsHealthy'
  BY <1>1, <1>2, Typed DEF SchInv, CalmIsHealthy, Healthy
<1>5. RowsKept
  BY <1>2 DEF RowsKept
<1> QED BY <1>1, <1>2, <1>3, <1>4, <1>5, KeptOnTime DEF SchInv

\* The row goes, and with it what its jobs could record on.
LEMMA RowGoes ==
    ASSUME SchInv, NEW a \in Accounts, clock' = clock, up' = up, served' = served,
           row' = [row EXCEPT ![a] = None], job' = Orphan(a), Disturb(a),
           account' \in [Accounts -> {"enabled", "disabled", "gone"}],
           \A b \in Accounts \ {a} : account'[b] = account[b]
    PROVE  SchInv'
<1>1. calm' \subseteq calm /\ a \notin calm' /\ beat' \in [Accounts -> Nat \union {Never}]
  BY DisturbTyped
<1>2. /\ row' \in [Accounts -> Pick(Row)] /\ row'[a] = None
      /\ \A b \in Accounts \ {a} : row'[b] = row[b]
  BY Typed DEF Pick
<1>3. \A i \in Jobs : /\ job'[i] \in Pick(Job)
                      /\ job'[i] # None =>
                           /\ job[i] # None /\ job'[i].account = job[i].account
                           /\ job'[i].row = (IF job[i].account = a THEN FALSE ELSE job[i].row)
  <2> SUFFICES ASSUME NEW i \in Jobs
               PROVE  /\ job'[i] \in Pick(Job)
                      /\ job'[i] # None =>
                           /\ job[i] # None /\ job'[i].account = job[i].account
                           /\ job'[i].row = (IF job[i].account = a THEN FALSE ELSE job[i].row)
    OBVIOUS
  <2>1. job'[i] = IF i \in JobsOf(a) THEN [job[i] EXCEPT !.row = FALSE] ELSE job[i]
    BY DEF Orphan
  <2>2. i \in JobsOf(a) <=> job[i] # None /\ job[i].account = a
    BY DEF JobsOf
  <2>3. job[i] \in Pick(Job)
    BY Typed
  <2>4. CASE i \in JobsOf(a)
    <3>1. job[i] \in Job
      BY <2>2, <2>3, <2>4 DEF Pick
    <3> QED BY <3>1, <2>1, <2>2, <2>4 DEF Job, Pick
  <2>5. CASE i \notin JobsOf(a)
    BY <2>1, <2>2, <2>3, <2>5
  <2> QED BY <2>4, <2>5
<1>4. job' \in [Jobs -> Pick(Job)]
  <2>1. job' = [i \in Jobs |-> job'[i]]
    BY DEF Orphan
  <2> QED BY <2>1, <1>3
<1>5. SchedTypeOK'
  BY <1>1, <1>2, <1>4 DEF SchInv, SchedTypeOK
<1>6. OwnRow'
  <2> SUFFICES ASSUME NEW i \in Jobs, job'[i] # None, job'[i].row
               PROVE  row'[job'[i].account] # None
    BY DEF OwnRow
  <2>1. job[i] # None /\ job'[i].account = job[i].account /\ job[i].account # a /\ job[i].row
    BY <1>3
  <2>2. job[i].account \in Accounts /\ row[job[i].account] # None
    BY <2>1, Typed DEF SchInv, OwnRow, Job
  <2> QED BY <2>1, <2>2, <1>2
<1>7. CalmIsHealthy'
  BY <1>1, <1>2, Typed DEF SchInv, CalmIsHealthy, Healthy
<1>8. RowsKept
  BY <1>2 DEF RowsKept
<1> QED BY <1>1, <1>5, <1>6, <1>7, <1>8, KeptOnTime DEF SchInv

LEMMA DeleteStep ==
    ASSUME SchInv, NEW a \in Accounts, DeleteSchedule(a) \/ DeleteAccount(a)
    PROVE  SchInv'
<1>1. /\ clock' = clock /\ up' = up /\ served' = served
      /\ row' = [row EXCEPT ![a] = None] /\ job' = Orphan(a) /\ Disturb(a)
  BY DEF DeleteSchedule, DeleteAccount
<1>2. /\ account' \in [Accounts -> {"enabled", "disabled", "gone"}]
      /\ \A b \in Accounts \ {a} : account'[b] = account[b]
  BY Typed DEF DeleteSchedule, DeleteAccount
<1> QED BY <1>1, <1>2, RowGoes

\* A job moves on or ends, and may leave a status on its row.
LEMMA JobMoves ==
    ASSUME SchInv, NEW i \in Jobs, job[i] # None,
           job' \in [Jobs -> Pick(Job)],
           \A k \in Jobs \ {i} : job'[k] = job[k],
           job'[i] # None => job'[i].account = job[i].account /\ job'[i].row = job[i].row,
           row' = row \/ \E status \in {"ok", "failed"} : Record(job[i], status),
           clock' = clock, up' = up, account' = account, served' = served,
           calm' \subseteq calm, beat' \in [Accounts -> Nat \union {Never}]
    PROVE  SchInv'
<1>1. /\ row' \in [Accounts -> Pick(Row)]
      /\ \A a \in Accounts :
            /\ row'[a] # None <=> row[a] # None
            /\ row[a] # None => /\ row'[a].enabled = row[a].enabled
                                /\ row'[a].time = row[a].time
                                /\ row'[a].jitter = row[a].jitter
                                /\ row'[a].next = row[a].next
  <2>1. CASE row' = row
    BY <2>1, Typed
  <2>2. CASE row' # row
    <3> DEFINE b == job[i].account
    <3>1. PICK status \in {"ok", "failed"} : Record(job[i], status)
      BY <2>2
    <3>2. job[i].row /\ row' = [row EXCEPT ![b].status = status]
      BY <2>2, <3>1 DEF Record
    <3>3. b \in Accounts /\ row[b] # None
      BY <3>2, Typed DEF SchInv, OwnRow, Job
    <3>4. row[b] \in Row
      BY <3>3, Typed
    <3> DEFINE new == [row[b] EXCEPT !.status = status]
    <3>5. /\ new \in Row /\ new.enabled = row[b].enabled /\ new.time = row[b].time
          /\ new.jitter = row[b].jitter /\ new.next = row[b].next
      BY <3>4 DEF Row
    <3>6. row' = [row EXCEPT ![b] = new]
      BY <3>2
    <3>7. new # None
      BY <3>5, NoneIsNothing
    <3> HIDE DEF new, b
    <3>8. row' \in [Accounts -> Pick(Row)]
      BY <3>3, <3>5, <3>6, Typed DEF Pick
    <3>9. row'[b] = new /\ \A a \in Accounts \ {b} : row'[a] = row[a]
      BY <3>3, <3>6, Typed
    <3> QED BY <3>3, <3>5, <3>7, <3>8, <3>9
  <2> QED BY <2>1, <2>2
<1>2. SchedTypeOK'
  BY <1>1, Typed DEF SchedTypeOK
<1>3. OwnRow'
  <2> SUFFICES ASSUME NEW k \in Jobs, job'[k] # None, job'[k].row
               PROVE  row'[job'[k].account] # None
    BY DEF OwnRow
  <2>1. job[k] # None /\ job'[k].account = job[k].account /\ job[k].row
    OBVIOUS
  <2>2. job[k].account \in Accounts /\ row[job[k].account] # None
    BY <2>1, Typed DEF SchInv, OwnRow, Job
  <2> QED BY <2>1, <2>2, <1>1
<1>4. CalmIsHealthy'
  BY <1>1, Typed DEF SchInv, CalmIsHealthy, Healthy
<1>5. RowsKept
  BY <1>1 DEF RowsKept
<1> QED BY <1>2, <1>3, <1>4, <1>5, KeptOnTime DEF SchInv

LEMMA CrashStep ==
    ASSUME SchInv, NEW i \in Jobs, job[i] # None, Crash(i)
    PROVE  SchInv'
<1>1. /\ job' = [job EXCEPT ![i] = None] /\ Record(job[i], "failed")
      /\ clock' = clock /\ up' = up /\ account' = account /\ served' = served
      /\ Disturb(job[i].account)
  BY DEF Crash
<1>2. job' \in [Jobs -> Pick(Job)] /\ job'[i] = None /\ \A k \in Jobs \ {i} : job'[k] = job[k]
  BY <1>1, Typed DEF Pick
<1>3. job[i].account \in Accounts
  BY Typed DEF Job
<1>4. calm' \subseteq calm /\ beat' \in [Accounts -> Nat \union {Never}]
  BY <1>1, <1>3, DisturbTyped
<1> QED BY <1>1, <1>2, <1>4, JobMoves

LEMMA JobStep ==
    ASSUME SchInv, NEW i \in Jobs, Step(i)
    PROVE  SchInv'
<1>1. job[i] # None
  BY DEF Step, Begin, Raises, Ended, Woken, Notified
<1>2. /\ job[i] \in Job /\ job \in [Jobs -> Pick(Job)]
      /\ beat \in [Accounts -> Nat \union {Never}] /\ job[i].account \in Accounts
      /\ job[i].attempt \in Nat \ {0}
  BY <1>1, Typed DEF Job
<1>3. CASE Begin(i)
  <2>1. CASE account[job[i].account] = "enabled"
    <3> DEFINE new == [job[i] EXCEPT !.stage = "running", !.wake = Work]
    <3>1. /\ job' = [job EXCEPT ![i] = new]
          /\ UNCHANGED <<clock, up, account, row, calm, served, beat>>
      BY <1>3, <2>1 DEF Begin
    <3>2. new \in Job /\ new.account = job[i].account /\ new.row = job[i].row
      BY <1>2, TicksAreCounted DEF Job, Stages
    <3> HIDE DEF new
    <3>3. /\ job' \in [Jobs -> Pick(Job)] /\ job'[i] = new
          /\ \A k \in Jobs \ {i} : job'[k] = job[k]
      BY <3>1, <3>2, <1>2 DEF Pick
    <3> QED BY <3>1, <3>2, <3>3, <1>1, <1>2, JobMoves
  <2>2. CASE account[job[i].account] # "enabled"
    BY <1>1, <1>3, <2>2, CrashStep DEF Begin
  <2> QED BY <2>1, <2>2
<1>4. CASE Raises(i)
  BY <1>1, <1>4, CrashStep DEF Raises
<1>5. ASSUME NEW v \in {"ok", "failed"}, Ended(i, v)
      PROVE  SchInv'
  <2>1. PICK new \in Job :
            /\ job' = [job EXCEPT ![i] = new]
            /\ new.account = job[i].account /\ new.row = job[i].row
            /\ row' = row \/ Record(job[i], v)
    <3>1. CASE v = "failed" /\ job[i].attempt <= job[i].retries
      <4> DEFINE x == [job[i] EXCEPT !.stage = "sleeping", !.wake = Delay]
      <4>1. job' = [job EXCEPT ![i] = x] /\ row' = row
        BY <3>1, <1>5 DEF Ended
      <4>2. x \in Job /\ x.account = job[i].account /\ x.row = job[i].row
        BY <1>2, TicksAreCounted DEF Job, Stages
      <4> QED BY <4>1, <4>2
    <3>2. CASE ~(v = "failed" /\ job[i].attempt <= job[i].retries)
      <4> DEFINE x == [job[i] EXCEPT !.stage = "notifying"]
      <4>1. job' = [job EXCEPT ![i] = x] /\ Record(job[i], v)
        BY <3>2, <1>5 DEF Ended
      <4>2. x \in Job /\ x.account = job[i].account /\ x.row = job[i].row
        BY <1>2 DEF Job, Stages
      <4> QED BY <4>1, <4>2
    <3> QED BY <3>1, <3>2
  <2>2. /\ job' \in [Jobs -> Pick(Job)] /\ job'[i] = new
        /\ \A k \in Jobs \ {i} : job'[k] = job[k]
    BY <2>1, <1>2 DEF Pick
  <2>3. UNCHANGED <<clock, up, account, calm, served, beat>>
    BY <1>5 DEF Ended
  <2> QED BY <2>1, <2>2, <2>3, <1>1, <1>2, JobMoves
<1>6. CASE Woken(i)
  <2> DEFINE new == [job[i] EXCEPT !.stage = "queued", !.attempt = @ + 1]
  <2>1. /\ job' = [job EXCEPT ![i] = new]
        /\ UNCHANGED <<clock, up, account, row, calm, served, beat>>
    BY <1>6 DEF Woken
  <2>2. new \in Job /\ new.account = job[i].account /\ new.row = job[i].row
    <3>1. job[i].attempt + 1 \in Nat \ {0}
      BY <1>2
    <3> QED BY <3>1, <1>2 DEF Job, Stages
  <2> HIDE DEF new
  <2>3. /\ job' \in [Jobs -> Pick(Job)] /\ job'[i] = new
        /\ \A k \in Jobs \ {i} : job'[k] = job[k]
    BY <2>1, <2>2, <1>2 DEF Pick
  <2> QED BY <2>1, <2>2, <2>3, <1>1, <1>2, JobMoves
<1>7. ASSUME NEW d \in BOOLEAN, Notified(i, d)
      PROVE  SchInv'
  <2>1. /\ job' = [job EXCEPT ![i] = None]
        /\ UNCHANGED <<clock, up, account, row, served>>
    BY <1>7 DEF Notified
  <2>2. job' \in [Jobs -> Pick(Job)] /\ job'[i] = None /\ \A k \in Jobs \ {i} : job'[k] = job[k]
    BY <2>1, <1>2 DEF Pick
  <2>3. calm' \subseteq calm /\ beat' \in [Accounts -> Nat \union {Never}]
    <3>1. CASE Disturb(job[i].account)
      BY <3>1, <1>2, DisturbTyped
    <3>2. CASE ~Disturb(job[i].account)
      BY <3>2, <1>2, <1>7 DEF Notified
    <3> QED BY <3>1, <3>2
  <2> QED BY <2>1, <2>2, <2>3, <1>1, JobMoves
<1> QED BY <1>3, <1>4, <1>5, <1>6, <1>7 DEF Step

\* A row that gets its next run is on time, unless its account was to be served today.
LEMMA Renewed ==
    ASSUME clock \in 0 .. Day - 1, NEW r \in Row, NEW n \in NextRun(r.time, r.jitter),
           NEW count \in Nat
    PROVE  LET new == [r EXCEPT !.next = n] IN
           /\ new \in Row /\ new.next # Never
           /\ new.enabled = r.enabled /\ new.time = r.time
           /\ Timed(new, count, FALSE)
           /\ count = 1 => Timed(new, count, TRUE)
<1> DEFINE new == [r EXCEPT !.next = n]
<1>1. r.time \in Times /\ r.jitter \in Jitters
  BY RowFields
<1>2. n \in 1 .. 2 * Day /\ WaitUntil(r.time) <= n /\ n <= WaitUntil(r.time) + r.jitter
  BY <1>1, NextRunTimed
<1>3. /\ new.next = n /\ new.enabled = r.enabled
      /\ new.time = r.time /\ new.jitter = r.jitter
  BY DEF Row
<1>4. Day \in Nat /\ n \in Never .. 2 * Day /\ n # Never
  BY <1>2, TicksAreCounted DEF Never
<1>5. new \in Row
  BY <1>4 DEF Row
<1> HIDE DEF new
<1>6. Timed(new, count, FALSE) /\ (count = 1 => Timed(new, count, TRUE))
  BY <1>2, <1>3 DEF Timed
<1> QED BY <1>3, <1>4, <1>5, <1>6 DEF new

LEMMA UpsertStep ==
    ASSUME SchInv, NEW a \in Accounts, NEW e \in BOOLEAN, NEW t \in Times, NEW j \in Jitters,
           NEW n \in Retries, Upsert(a, e, t, j, n)
    PROVE  SchInv'
<1>1. /\ clock' = clock /\ up' = up /\ account' = account /\ job' = job
      /\ served' = [served EXCEPT ![a] = 0] /\ Disturb(a)
  BY DEF Upsert
<1>2. PICK next \in IF e THEN NextRun(t, j) ELSE {Never} :
        row' = [row EXCEPT ![a] =
                  [enabled |-> e, time |-> t, jitter |-> j, retries |-> n, next |-> next,
                   status |-> IF row[a] = None THEN None ELSE row[a].status]]
  BY DEF Upsert
<1>3. clock \in 0 .. Day - 1 /\ Day \in Nat
  BY Typed, TicksAreCounted
<1>4. /\ next \in Never .. 2 * Day
      /\ e => next # Never
      /\ next # Never => next <= WaitUntil(t) + j
  <2>1. CASE e
    <3>1. next \in 1 .. 2 * Day /\ next <= WaitUntil(t) + j
      BY <1>2, <1>3, <2>1, NextRunTimed
    <3> QED BY <3>1, <1>3 DEF Never
  <2>2. CASE ~e
    BY <2>2, <1>2, <1>3 DEF Never
  <2> QED BY <2>1, <2>2
<1> DEFINE status == IF row[a] = None THEN None ELSE row[a].status
           new == [enabled |-> e, time |-> t, jitter |-> j, retries |-> n, next |-> next,
                   status |-> status]
<1>5. status \in {None, "ok", "failed"}
  BY Typed DEF Row
<1>6. row' = [row EXCEPT ![a] = new]
  BY <1>2
<1> HIDE DEF status
<1>7. /\ new \in Row /\ new # None /\ new.enabled = e /\ new.time = t
      /\ new.jitter = j /\ new.next = next
  BY <1>4, <1>5, NoneIsNothing DEF Row
<1> HIDE DEF new
<1>8. /\ row' \in [Accounts -> Pick(Row)] /\ row'[a] = new
      /\ \A b \in Accounts \ {a} : row'[b] = row[b]
      /\ served' \in [Accounts -> Nat] /\ served'[a] = 0
      /\ \A b \in Accounts \ {a} : served'[b] = served[b]
  BY <1>1, <1>6, <1>7, Typed DEF Pick
<1>9. calm' \subseteq calm /\ a \notin calm' /\ beat' \in [Accounts -> Nat \union {Never}]
      /\ \A b \in Accounts \ {a} : b \in calm' <=> b \in calm
  BY <1>1, DisturbTyped DEF Disturb
<1>10. SchedTypeOK'
  BY <1>1, <1>8, <1>9, Typed DEF SchedTypeOK
<1>11. OwnRow'
  BY <1>1, <1>7, <1>8, Typed DEF SchInv, OwnRow, Job
<1>12. AllTimed'
  <2>1. \A r, c, u : Timed(r, c, u)' <=> Timed(r, c, u)
    BY <1>1 DEF Timed, WaitUntil
  <2> SUFFICES ASSUME NEW b \in Accounts, row'[b] # None
               PROVE  Timed(row'[b], served'[b], b \in calm')
    BY <1>1 DEF AllTimed, Timed, WaitUntil
  <2>2. CASE b = a
    BY <2>2, <1>4, <1>7, <1>8, <1>9 DEF Timed
  <2>3. CASE b # a
    <3>1. Timed(row[b], served[b], b \in calm)
      BY <2>3, <1>8 DEF SchInv, AllTimed
    <3> QED BY <2>3, <3>1, <1>8, <1>9 DEF Timed
  <2> QED BY <2>2, <2>3
<1>13. AtMostOne'
  BY <1>8 DEF SchInv, AtMostOne
<1>14. Initialised'
  BY <1>1, <1>4, <1>7, <1>8 DEF SchInv, Initialised
<1>15. CalmIsHealthy'
  BY <1>1, <1>8, <1>9, Typed DEF SchInv, CalmIsHealthy, Healthy
<1> QED BY <1>10, <1>11, <1>12, <1>13, <1>14, <1>15 DEF SchInv

LEMMA StartStep ==
    ASSUME SchInv, Start
    PROVE  SchInv'
<1> DEFINE Fresh == {a \in Accounts : row[a] # None /\ row[a].enabled /\ row[a].next = Never}
<1>1. /\ ~up /\ up' = TRUE
      /\ UNCHANGED <<clock, account, job, calm, served, beat>>
  BY DEF Start
<1>2. PICK n \in [Fresh -> 0 .. 2 * Day] :
        /\ \A a \in Fresh : n[a] \in NextRun(row[a].time, row[a].jitter)
        /\ row' = [a \in Accounts |->
                     IF a \in Fresh THEN [row[a] EXCEPT !.next = n[a]] ELSE row[a]]
  BY DEF Start
<1>3. calm = {}
  BY <1>1 DEF SchInv, CalmIsHealthy, Healthy
<1>4. clock \in 0 .. Day - 1
  BY Typed
<1>5. ASSUME NEW a \in Accounts
      PROVE  /\ row'[a] \in Pick(Row)
             /\ row'[a] # None <=> row[a] # None
             /\ row'[a] # None /\ row'[a].enabled => row'[a].next # Never
             /\ row'[a] # None => Timed(row'[a], served[a], FALSE)
  <2>1. CASE a \in Fresh
    <3>1. row[a] \in Row /\ served[a] \in Nat /\ n[a] \in NextRun(row[a].time, row[a].jitter)
      BY <2>1, <1>2, Typed
    <3> DEFINE new == [row[a] EXCEPT !.next = n[a]]
    <3>2. new \in Row /\ new.next # Never /\ Timed(new, served[a], FALSE)
      BY <3>1, <1>4, Renewed
    <3>3. row'[a] = new
      BY <2>1, <1>2
    <3> HIDE DEF new
    <3> QED BY <2>1, <3>2, <3>3, NoneIsNothing DEF Pick
  <2>2. CASE a \notin Fresh
    <3>1. row'[a] = row[a]
      BY <2>2, <1>2
    <3>2. row[a] # None => Timed(row[a], served[a], FALSE)
      BY <1>3 DEF SchInv, AllTimed, Timed
    <3> QED BY <2>2, <3>1, <3>2, Typed
  <2> QED BY <2>1, <2>2
<1>6. row' \in [Accounts -> Pick(Row)]
  <2>1. row' = [a \in Accounts |-> row'[a]]
    BY <1>2
  <2> QED BY <2>1, <1>5
<1>7. SchedTypeOK'
  BY <1>1, <1>6, Typed DEF SchedTypeOK
<1>8. OwnRow'
  BY <1>1, <1>5, Typed DEF SchInv, OwnRow, Job
<1>9. AllTimed'
  BY <1>1, <1>3, <1>5 DEF AllTimed, Timed, WaitUntil
<1>10. AtMostOne' /\ Initialised' /\ CalmIsHealthy'
  BY <1>1, <1>3, <1>5 DEF SchInv, AtMostOne, Initialised, CalmIsHealthy
<1> QED BY <1>7, <1>8, <1>9, <1>10 DEF SchInv

\* A due schedule has not been claimed since its daily time, and is moved past the next.
LEMMA ClaimStep ==
    ASSUME SchInv, Claim
    PROVE  SchInv'
<1> DEFINE All == {a \in Accounts : Due(a)}
<1>1. /\ UNCHANGED <<clock, up, account, calm, beat>>
      /\ served' = [a \in Accounts |-> IF a \in All THEN served[a] + 1 ELSE served[a]]
  BY DEF Claim
<1>2. PICK n \in [All -> 0 .. 2 * Day], i \in Injection(All, Jobs) :
         /\ \A a \in All : n[a] \in NextRun(row[a].time, row[a].jitter) /\ job[i[a]] = None
         /\ row' = [a \in Accounts |->
                      IF a \in All THEN [row[a] EXCEPT !.next = n[a]] ELSE row[a]]
         /\ job' = [k \in Jobs |->
                      IF \E a \in All : i[a] = k
                      THEN LET a == CHOOSE b \in All : i[b] = k IN
                           [account |-> a, row |-> TRUE, retries |-> row[a].retries, attempt |-> 1,
                            stage |-> "queued", wake |-> 0]
                      ELSE job[k]]
  BY DEF Claim
<1>3. clock \in 0 .. Day - 1
  BY Typed
<1>4. ASSUME NEW a \in All
      PROVE  row[a] # None /\ row[a] \in Row /\ served[a] = 0
  <2>1. row[a] # None /\ row[a].next = 0
    BY DEF Due, Healthy
  <2>2. row[a] \in Row /\ row[a].time \in Times
    BY <2>1, Typed, RowFields
  <2>3. served[a] # 1
    <3>1. WaitUntil(row[a].time) \in 1 .. Day
      BY <2>2, <1>3, Waits
    <3>2. served[a] = 1 => row[a].next >= WaitUntil(row[a].time)
      BY <2>1 DEF SchInv, AllTimed, Timed, Never
    <3> QED BY <2>1, <3>1, <3>2, TicksAreCounted
  <2>4. served[a] \in Nat /\ served[a] <= 1
    BY Typed DEF SchInv, AtMostOne
  <2> QED BY <2>1, <2>2, <2>3, <2>4
<1>5. ASSUME NEW a \in Accounts
      PROVE  /\ row'[a] \in Pick(Row)
             /\ row'[a] # None <=> row[a] # None
             /\ row[a] # None => row'[a].enabled = row[a].enabled
             /\ row[a] # None /\ row[a].next # Never => row'[a].next # Never
             /\ row'[a] # None => Timed(row'[a], served'[a], a \in calm)
             /\ served'[a] \in Nat /\ served'[a] <= 1
  <2>1. CASE a \in All
    <3>1. row[a] \in Row /\ row[a] # None /\ n[a] \in NextRun(row[a].time, row[a].jitter)
      BY <2>1, <1>2, <1>4
    <3>2. served'[a] = 1
      BY <2>1, <1>1, <1>4
    <3> DEFINE new == [row[a] EXCEPT !.next = n[a]]
    <3>3. /\ new \in Row /\ new.next # Never /\ new.enabled = row[a].enabled
          /\ Timed(new, 1, TRUE)
      BY <3>1, <1>3, Renewed
    <3>4. row'[a] = new
      BY <2>1, <1>2
    <3> HIDE DEF new, All
    <3>5. Timed(row'[a], served'[a], a \in calm)
      BY <3>2, <3>3, <3>4 DEF Timed
    <3> QED BY <3>1, <3>2, <3>3, <3>4, <3>5, NoneIsNothing DEF Pick
  <2>2. CASE a \notin All
    <3>1. row'[a] = row[a] /\ served'[a] = served[a]
      BY <2>2, <1>1, <1>2
    <3>2. row[a] # None => Timed(row[a], served[a], a \in calm)
      BY DEF SchInv, AllTimed
    <3>3. served[a] \in Nat /\ served[a] <= 1
      BY Typed DEF SchInv, AtMostOne
    <3> QED BY <3>1, <3>2, <3>3, Typed
  <2> QED BY <2>1, <2>2
<1>6. ASSUME NEW k \in Jobs
      PROVE  /\ job'[k] \in Pick(Job)
             /\ job'[k] # None /\ job'[k].row => row[job'[k].account] # None
                                                 /\ job'[k].account \in Accounts
  <2>1. CASE \E a \in All : i[a] = k
    <3> DEFINE a == CHOOSE b \in All : i[b] = k
               new == [account |-> a, row |-> TRUE, retries |-> row[a].retries, attempt |-> 1,
                       stage |-> "queued", wake |-> 0]
    <3>1. a \in All
      BY <2>1
    <3>2. job'[k] = new
      BY <2>1, <1>2
    <3> HIDE DEF a
    <3>3. a \in Accounts /\ row[a] # None /\ row[a].retries \in Retries
      BY <3>1, <1>4, RowFields
    <3>4. new \in Job /\ new.account = a
      BY <3>3 DEF Job, Stages
    <3> QED BY <3>2, <3>3, <3>4 DEF Pick
  <2>2. CASE ~ \E a \in All : i[a] = k
    <3>1. job'[k] = job[k]
      BY <2>2, <1>2
    <3> QED BY <3>1, Typed DEF SchInv, OwnRow, Job
  <2> QED BY <2>1, <2>2
<1>7. row' \in [Accounts -> Pick(Row)] /\ job' \in [Jobs -> Pick(Job)]
  <2>1. row' = [a \in Accounts |-> row'[a]] /\ job' = [k \in Jobs |-> job'[k]]
    BY <1>2
  <2> QED BY <2>1, <1>5, <1>6
<1>8. served' \in [Accounts -> Nat]
  <2>1. served' = [a \in Accounts |-> served'[a]]
    BY <1>1
  <2> QED BY <2>1, <1>5
<1>9. SchedTypeOK'
  BY <1>1, <1>7, <1>8, Typed DEF SchedTypeOK
<1>10. OwnRow'
  BY <1>5, <1>6 DEF OwnRow
<1>11. AllTimed' /\ AtMostOne'
  BY <1>1, <1>5 DEF AllTimed, Timed, WaitUntil, AtMostOne
<1>12. Initialised'
  BY <1>1, <1>5 DEF SchInv, Initialised
<1>13. CalmIsHealthy'
  BY <1>1, <1>5, Typed DEF SchInv, CalmIsHealthy, Healthy
<1> QED BY <1>9, <1>10, <1>11, <1>12, <1>13 DEF SchInv

LEMMA TickStep ==
    ASSUME SchInv, Tick
    PROVE  SchInv'
<1> DEFINE Chime == {a \in Accounts : row[a] # None /\ row[a].time = clock'}
<1>1. /\ \A a \in Accounts : ~Due(a)
      /\ clock' = (clock + 1) % Day
      /\ row' = [a \in Accounts |->
                   IF row[a] = None THEN None ELSE [row[a] EXCEPT !.next = Less(@)]]
      /\ job' = [i \in Jobs |->
                   IF job[i] = None THEN None ELSE [job[i] EXCEPT !.wake = Less(@)]]
      /\ calm' = calm \union {a \in Chime : Healthy(a)}
      /\ served' = [a \in Accounts |-> IF a \in Chime THEN 0 ELSE served[a]]
      /\ beat' = [a \in Accounts |-> IF beat[a] = Never THEN Never ELSE beat[a] + 1]
      /\ up' = up /\ account' = account
  BY DEF Tick
<1>2. clock \in 0 .. Day - 1 /\ Day \in Nat \ {0}
  BY Typed, TicksAreCounted
<1>3. clock' \in 0 .. Day - 1
  BY <1>1, <1>2
<1>4. ASSUME NEW a \in Accounts, row[a] # None
      PROVE  /\ row[a] \in Row /\ row'[a] \in Row
             /\ row'[a].next = Less(row[a].next)
             /\ row'[a].enabled = row[a].enabled /\ row'[a].time = row[a].time
             /\ row'[a].jitter = row[a].jitter
  <2>1. row[a] \in Row /\ row'[a] = [row[a] EXCEPT !.next = Less(@)]
    BY <1>1, <1>4, Typed
  <2>2. Less(row[a].next) \in Never .. 2 * Day
    BY <2>1, <1>2, RowFields DEF Less, Never
  <2> QED BY <2>1, <2>2 DEF Row
<1>5. ASSUME NEW i \in Jobs, job[i] # None
      PROVE  /\ job'[i] \in Job
             /\ job'[i].account = job[i].account /\ job'[i].row = job[i].row
  <2>1. job[i] \in Job /\ job'[i] = [job[i] EXCEPT !.wake = Less(@)]
    BY <1>1, <1>5, Typed
  <2>2. Less(job[i].wake) \in Nat
    <3>1. job[i].wake \in Nat
      BY <2>1 DEF Job
    <3> QED BY <3>1 DEF Less
  <2> QED BY <2>1, <2>2 DEF Job
<1>6. row' \in [Accounts -> Pick(Row)] /\ job' \in [Jobs -> Pick(Job)]
  <2>1. /\ \A a \in Accounts : row'[a] \in Pick(Row)
        /\ \A i \in Jobs : job'[i] \in Pick(Job)
    BY <1>1, <1>4, <1>5 DEF Pick
  <2>2. row' = [a \in Accounts |-> row'[a]] /\ job' = [i \in Jobs |-> job'[i]]
    BY <1>1
  <2> QED BY <2>1, <2>2
<1>7. served' \in [Accounts -> Nat] /\ beat' \in [Accounts -> Nat \union {Never}]
  BY <1>1, Typed
<1>8. SchedTypeOK'
  BY <1>1, <1>3, <1>6, <1>7, Typed DEF SchedTypeOK
<1>9. OwnRow'
  <2> SUFFICES ASSUME NEW i \in Jobs, job'[i] # None, job'[i].row
               PROVE  row'[job'[i].account] # None
    BY DEF OwnRow
  <2>1. job[i] # None
    BY <1>1
  <2>2. job[i].account \in Accounts /\ row[job[i].account] # None
    BY <2>1, <1>5, Typed DEF SchInv, OwnRow, Job
  <2> QED BY <2>1, <2>2, <1>4, <1>5, NoneIsNothing
<1>10. AllTimed'
  <2> SUFFICES ASSUME NEW a \in Accounts, row'[a] # None
               PROVE  Timed(row[a], served[a], a \in calm)'
    BY DEF AllTimed
  <2>1. row[a] # None
    BY <1>1
  <2>2. PICK time \in Times, j \in 0 .. Day, next \in Never .. 2 * Day :
            time = row[a].time /\ j = row[a].jitter /\ next = row[a].next
    BY <2>1, <1>4, RowFields
  <2>3. row'[a].time = time /\ row'[a].jitter = j /\ row'[a].next = Less(next)
    BY <2>1, <2>2, <1>4
  <2> DEFINE w == WaitUntil(time)
             v == WaitUntil(time)'
             soon == Less(next)
             rings == time = clock'
  <2>4. /\ next # Never => next <= w + j
        /\ next # Never /\ served[a] = 1 => next >= w
        /\ a \in calm /\ served[a] = 0 => next + Day <= w + j
    BY <2>1, <2>2 DEF SchInv, AllTimed, Timed
  <2>5. /\ w \in 1 .. Day
        /\ rings => w = 1 /\ v = Day
        /\ ~rings => v = w - 1
    BY <1>1, <1>2, Waits, OneTickLess
  <2>6. served'[a] = IF rings THEN 0 ELSE served[a]
    BY <2>1, <2>2, <1>1
  <2>7. a \in calm' => next > 0 /\ (a \in calm \/ rings)
    <3> SUFFICES ASSUME a \in calm'
                 PROVE  next > 0 /\ (a \in calm \/ rings)
      OBVIOUS
    <3>1. Healthy(a) /\ (a \in calm \/ rings)
      BY <2>2, <1>1 DEF SchInv, CalmIsHealthy
    <3>2. next # 0 /\ next # Never
      BY <3>1, <2>1, <2>2, <1>1 DEF Due, SchInv, Initialised, Healthy
    <3> QED BY <3>1, <3>2, <1>2 DEF Never
  <2> HIDE DEF w, v, rings
  <2>8. /\ soon # Never => soon <= v + j
        /\ soon # Never /\ served'[a] = 1 => soon >= v
        /\ a \in calm' /\ served'[a] = 0 => soon + Day <= v + j
    <3>1. CASE rings
      BY <3>1, <2>4, <2>5, <2>6, <2>7, <1>2 DEF Less, Never
    <3>2. CASE ~rings
      BY <3>2, <2>4, <2>5, <2>6, <2>7, <1>2 DEF Less, Never
    <3> QED BY <3>1, <3>2
  <2> QED BY <2>3, <2>8 DEF Timed, WaitUntil, v
<1>11. AtMostOne'
  BY <1>1, Typed DEF SchInv, AtMostOne
<1>12. Initialised'
  <2> SUFFICES ASSUME up, NEW a \in Accounts, row'[a] # None, row'[a].enabled
               PROVE  row'[a].next # Never
    BY <1>1 DEF Initialised
  <2>1. row[a] # None
    BY <1>1
  <2>2. row[a].next # Never /\ row[a].next \in Never .. 2 * Day
    BY <2>1, <1>4, RowFields DEF SchInv, Initialised
  <2> QED BY <2>1, <2>2, <1>2, <1>4 DEF Less, Never
<1>13. CalmIsHealthy'
  <2> SUFFICES ASSUME NEW a \in calm'
               PROVE  Healthy(a)'
    BY DEF CalmIsHealthy
  <2>1. Healthy(a) /\ a \in Accounts
    BY <1>1, Typed DEF SchInv, CalmIsHealthy
  <2> QED BY <2>1, <1>1, <1>4, NoneIsNothing DEF Healthy
<1> QED BY <1>8, <1>9, <1>10, <1>11, <1>12, <1>13 DEF SchInv

LEMMA SchedulesStart == Init => SchInv
<1> SUFFICES ASSUME Init PROVE SchInv
  OBVIOUS
<1> DEFINE Given == {[enabled |-> TRUE, time |-> t, jitter |-> j, retries |-> n,
                      next |-> Never, status |-> None] : t \in Times, j \in Jitters, n \in Retries}
<1>1. ASSUME NEW r \in Given
      PROVE  r \in Row /\ r.next = Never
  <2>1. PICK t \in Times, j \in Jitters, n \in Retries :
            r = [enabled |-> TRUE, time |-> t, jitter |-> j, retries |-> n,
                 next |-> Never, status |-> None]
    OBVIOUS
  <2>2. Never \in Never .. 2 * Day
    BY TicksAreCounted DEF Never
  <2> QED BY <2>1, <2>2 DEF Row
<1>2. row \in [Accounts -> Pick(Given)]
  BY DEF Init
<1> HIDE DEF Given
<1>3. \A a \in Accounts : row[a] \in Pick(Row) /\ (row[a] # None => row[a].next = Never)
  BY <1>1, <1>2 DEF Pick
<1>4. row \in [Accounts -> Pick(Row)]
  BY <1>2, <1>3
<1>5. 0 \in 0 .. Day - 1
  BY TicksAreCounted
<1>6. SchedTypeOK
  BY <1>4, <1>5 DEF Init, SchedTypeOK, Pick
<1>7. OwnRow /\ AtMostOne /\ Initialised /\ CalmIsHealthy
  BY DEF Init, OwnRow, AtMostOne, Initialised, CalmIsHealthy
<1>8. AllTimed
  BY <1>3 DEF Init, AllTimed, Timed
<1> QED BY <1>6, <1>7, <1>8 DEF SchInv

LEMMA SchedulesMove == SchInv /\ [Next]_vars => SchInv'
<1> SUFFICES ASSUME SchInv, [Next]_vars PROVE SchInv'
  OBVIOUS
<1>1. CASE UNCHANGED vars
  <2>1. SchedTypeOK' /\ OwnRow' /\ CalmIsHealthy' /\ RowsKept
    BY <1>1 DEF vars, SchInv, SchedTypeOK, OwnRow, CalmIsHealthy, Healthy, RowsKept
  <2>2. clock' = clock /\ served' = served /\ (up' => up) /\ calm' \subseteq calm
    BY <1>1 DEF vars
  <2> QED BY <2>1, <2>2, KeptOnTime DEF SchInv
<1>2. CASE Start
  BY <1>2, StartStep
<1>3. CASE Down
  BY <1>3, DownStep
<1>4. ASSUME NEW a \in Accounts, Edit(a)
      PROVE  SchInv'
  BY <1>4, UpsertStep, DeleteStep, SetEnabledStep DEF Edit
<1>5. CASE Claim
  BY <1>5, ClaimStep
<1>6. ASSUME NEW i \in Jobs, Step(i)
      PROVE  SchInv'
  BY <1>6, JobStep
<1>7. CASE Tick
  BY <1>7, TickStep
<1> QED BY <1>1, <1>2, <1>3, <1>4, <1>5, <1>6, <1>7 DEF Next

-----------------------------------------------------------------------------
\* A schedule is claimed at most once between two of its daily times, and exactly once,
\* within its random delay, when it was left alone; its jobs record on no other row
\* (schedules.py:120-168).
THEOREM SchedulesRunDaily == Spec => []ScheduleInv
<1>1. Init => SchInv
  BY SchedulesStart
<1>2. SchInv /\ [Next]_vars => SchInv'
  BY SchedulesMove
<1>3. SchInv => ScheduleInv
  BY InvMeansDaily
<1> QED BY <1>1, <1>2, <1>3, PTL DEF Spec

-----------------------------------------------------------------------------
(* The heartbeat: how far the pushes of an account are apart.             *)

\* How long a job takes from here, if it meets no other at the account gate.
More(j) == (j.retries + 1 - j.attempt) * (Delay + Work)
Left(j) == CASE j.stage = "queued"    -> More(j) + Work
             [] j.stage = "running"   -> More(j) + j.wake
             [] j.stage = "sleeping"  -> More(j) + j.wake - Delay
             [] j.stage = "notifying" -> 0

\* A job has attempts left while it is on its way, and keeps within its retry window.
OnTime(j) == /\ j.attempt <= j.retries + 1
             /\ j.stage = "sleeping" => j.attempt <= j.retries
             /\ Left(j) <= Window(j)
JobsOnTime == \A i \in Jobs : job[i] # None => OnTime(job[i])

\* Between its jobs an account waits for the next run; a job that is alone makes it wait
\* for what is left of that job.
BeatsAt(a) == beat[a] # Never =>
    /\ Healthy(a)
    /\ JobsOf(a) = {} => beat[a] + row[a].next <= Day + row[a].jitter
    /\ \A i \in Jobs : JobsOf(a) = {i} => beat[a] + Left(job[i]) <= Longest(row[a])
BeatInv == JobsOnTime /\ \A a \in Accounts : BeatsAt(a)

\* The heartbeat of the accounts whose jobs do not overlap.
HeartbeatAlone == \A a \in Accounts :
    beat[a] # Never /\ row[a] # None /\ (\A i, k \in JobsOf(a) : i = k)
    => beat[a] <= Longest(row[a])

\* The limits of the schemas give retry windows within a day (schemas.py:112-114).
WindowsEnd == \A n \in Retries : n * Delay + (n + 1) * Work <= Day

\* What a job may look like, and how its time counts.
LEMMA Counting ==
    ASSUME NEW j \in Job, OnTime(j)
    PROVE  /\ j.attempt \in Nat \ {0} /\ j.retries \in Nat /\ j.wake \in Nat
           /\ j.retries \in Retries /\ j.stage \in Stages
           /\ Delay \in Nat /\ Work \in Nat /\ Day \in Nat
           /\ More(j) \in Nat /\ Left(j) \in Nat /\ Window(j) \in Nat
           /\ j.attempt <= j.retries => More(j) >= Delay + Work
<1>1. /\ j.attempt \in Nat \ {0} /\ j.retries \in Nat /\ j.wake \in Nat
      /\ j.retries \in Retries /\ j.stage \in Stages
      /\ Delay \in Nat /\ Work \in Nat /\ Day \in Nat
  BY TicksAreCounted DEF Job
<1>2. \A x, y \in Nat : x * y \in Nat /\ (x + 1) * y >= y
  <2>1. \A x, y \in Nat : x * y \in Nat /\ (x + 1) * y = x * y + y
    OBVIOUS
  <2> QED BY <2>1
<1>3. More(j) \in Nat
  <2>1. j.retries + 1 - j.attempt \in Nat /\ Delay + Work \in Nat
    BY <1>1 DEF OnTime
  <2> QED BY <1>2, <2>1 DEF More
<1>4. j.attempt <= j.retries => More(j) >= Delay + Work
  <2> SUFFICES ASSUME j.attempt <= j.retries PROVE More(j) >= Delay + Work
    OBVIOUS
  <2>1. j.retries - j.attempt \in Nat /\ Delay + Work \in Nat
        /\ j.retries + 1 - j.attempt = j.retries - j.attempt + 1
    BY <1>1
  <2> QED BY <1>2, <2>1 DEF More
<1>5. Left(j) \in Nat
  BY <1>1, <1>3, <1>4 DEF Left, Stages, OnTime
<1>6. Window(j) \in Nat
  <2>1. j.retries * Delay \in Nat /\ (j.retries + 1) * Work \in Nat
    BY <1>1, <1>2
  <2> QED BY <2>1 DEF Window
<1> QED BY <1>1, <1>3, <1>4, <1>5, <1>6

LEMMA JobTyped == ASSUME SchInv, JobsOnTime, NEW i \in Jobs, job[i] # None
               PROVE  job[i] \in Job /\ OnTime(job[i]) /\ Left(job[i]) \in Nat
BY Typed, Counting DEF JobsOnTime

\* A new job has its whole window before it.
LEMMA FreshJob ==
    ASSUME NEW j \in Job, j.attempt = 1, j.stage = "queued"
    PROVE  OnTime(j) /\ Left(j) = Window(j)
<1>1. j.retries \in Nat /\ Delay \in Nat /\ Work \in Nat
  BY TicksAreCounted DEF Job
<1>2. j.retries * (Delay + Work) + Work = j.retries * Delay + (j.retries + 1) * Work
  <2>1. \A r, d, w \in Nat : r * (d + w) + w = r * d + (r + 1) * w
    OBVIOUS
  <2> QED BY <1>1, <2>1
<1>3. j.retries + 1 - j.attempt = j.retries
  BY <1>1
<1>4. Left(j) = Window(j)
  BY <1>2, <1>3 DEF Left, More, Window
<1>5. Window(j) \in Int
  <2>1. \A r, d, w \in Nat : r * d + (r + 1) * w \in Int
    OBVIOUS
  <2> QED BY <1>1, <2>1 DEF Window
<1> QED BY <1>1, <1>4, <1>5 DEF OnTime

\* A step of a job takes nothing from the time it has left.
GoesOn(j, new) == /\ new \in Job /\ new.account = j.account /\ new.retries = j.retries
                  /\ OnTime(new) /\ Left(new) <= Left(j)

LEMMA StepGoesOn ==
    ASSUME SchInv, JobsOnTime, NEW i \in Jobs, job[i] # None, NEW new, new # None,
           job' = [job EXCEPT ![i] = new],
           \/ Begin(i)
           \/ \E v \in {"ok", "failed"} : Ended(i, v)
           \/ Woken(i)
    PROVE  GoesOn(job[i], new)
<1> DEFINE j == job[i]
<1>1. j \in Job /\ OnTime(j) /\ job'[i] = new
  BY Typed DEF JobsOnTime
<1>0. \A x : job' = [job EXCEPT ![i] = x] => new = x
  BY <1>1, Typed
<1>2. /\ j.attempt \in Nat \ {0} /\ j.retries \in Nat /\ j.wake \in Nat
      /\ Delay \in Nat /\ Work \in Nat /\ More(j) \in Nat /\ Left(j) \in Nat
      /\ Window(j) \in Nat
      /\ j.attempt <= j.retries => More(j) >= Delay + Work
  BY <1>1, Counting
<1>3. \A x \in Job : x.retries = j.retries => Window(x) = Window(j)
  BY DEF Window
<1>4. CASE Begin(i)
  <2>1. j.stage = "queued" /\ new = [j EXCEPT !.stage = "running", !.wake = Work]
    <3>1. job' # [job EXCEPT ![i] = None]
      BY <1>0
    <3>2. job' = [job EXCEPT ![i] = [j EXCEPT !.stage = "running", !.wake = Work]]
      BY <1>4, <3>1 DEF Begin, Crash
    <3> QED BY <1>0, <1>4, <3>2 DEF Begin
  <2>2. /\ new \in Job /\ new.account = j.account /\ new.retries = j.retries
        /\ new.attempt = j.attempt /\ new.stage = "running" /\ new.wake = Work
    BY <1>1, <1>2, <2>1 DEF Job, Stages
  <2>3. More(new) = More(j)
    BY <2>2 DEF More
  <2> HIDE DEF j
  <2>4. Left(new) = Left(j)
    BY <2>1, <2>2, <2>3 DEF Left
  <2>5. Window(new) = Window(j)
    BY <1>3, <2>2
  <2>6. new.attempt <= new.retries + 1 /\ new.stage # "sleeping" /\ Left(j) <= Window(j)
    BY <1>1, <2>2 DEF OnTime
  <2> QED BY <1>2, <2>2, <2>4, <2>5, <2>6 DEF GoesOn, OnTime, j
<1>5. ASSUME NEW v \in {"ok", "failed"}, Ended(i, v) PROVE GoesOn(j, new)
  <2>1. CASE v = "failed" /\ j.attempt <= j.retries
    <3>1. j.stage = "running" /\ new = [j EXCEPT !.stage = "sleeping", !.wake = Delay]
      <4>1. job' = [job EXCEPT ![i] = [j EXCEPT !.stage = "sleeping", !.wake = Delay]]
        BY <1>5, <2>1 DEF Ended
      <4> QED BY <1>0, <1>5, <4>1 DEF Ended
    <3>2. /\ new \in Job /\ new.account = j.account /\ new.retries = j.retries
          /\ new.attempt = j.attempt /\ new.stage = "sleeping" /\ new.wake = Delay
      BY <1>1, <1>2, <3>1 DEF Job, Stages
    <3>3. More(new) = More(j)
      BY <3>2 DEF More
    <3> HIDE DEF j
    <3>4. Left(new) = More(j) /\ Left(j) = More(j) + j.wake
      BY <1>2, <3>1, <3>2, <3>3 DEF Left
    <3>5. Left(new) <= Left(j)
      BY <1>2, <3>4
    <3> QED BY <1>1, <1>2, <1>3, <2>1, <3>2, <3>4, <3>5 DEF GoesOn, OnTime
  <2>2. CASE ~(v = "failed" /\ j.attempt <= j.retries)
    <3>1. j.stage = "running" /\ new = [j EXCEPT !.stage = "notifying"]
      <4>1. job' = [job EXCEPT ![i] = [j EXCEPT !.stage = "notifying"]]
        BY <1>5, <2>2 DEF Ended
      <4> QED BY <1>0, <1>5, <4>1 DEF Ended
    <3>2. /\ new \in Job /\ new.account = j.account /\ new.retries = j.retries
          /\ new.attempt = j.attempt /\ new.stage = "notifying"
      BY <1>1, <1>2, <3>1 DEF Job, Stages
    <3> HIDE DEF j
    <3>3. Left(new) = 0
      BY <3>2 DEF Left
    <3> QED BY <1>1, <1>2, <1>3, <3>2, <3>3 DEF GoesOn, OnTime
  <2> QED BY <2>1, <2>2
<1>6. CASE Woken(i)
  <2>1. /\ j.stage = "sleeping" /\ j.wake = 0
        /\ new = [j EXCEPT !.stage = "queued", !.attempt = @ + 1]
    <3>1. job' = [job EXCEPT ![i] = [j EXCEPT !.stage = "queued", !.attempt = @ + 1]]
      BY <1>6 DEF Woken
    <3> QED BY <1>0, <1>6, <3>1 DEF Woken
  <2>2. j.attempt + 1 \in Nat \ {0} /\ j.attempt <= j.retries
    BY <1>1, <1>2, <2>1 DEF OnTime
  <2>3. /\ new \in Job /\ new.account = j.account /\ new.retries = j.retries
        /\ new.attempt = j.attempt + 1 /\ new.stage = "queued"
    BY <1>1, <1>2, <2>1, <2>2 DEF Job, Stages
  <2> HIDE DEF j
  <2>4. More(new) + Delay + Work = More(j)
    <3>1. \A x, y \in Nat : (x + 1) * y = x * y + y
      OBVIOUS
    <3>2. /\ j.retries - j.attempt \in Nat /\ Delay + Work \in Nat
          /\ j.retries + 1 - j.attempt = j.retries - j.attempt + 1
          /\ new.retries + 1 - new.attempt = j.retries - j.attempt
      BY <1>2, <2>2, <2>3
    <3>3. More(new) = (j.retries - j.attempt) * (Delay + Work)
      BY <3>2 DEF More
    <3>4. More(j) = (j.retries - j.attempt) * (Delay + Work) + (Delay + Work)
      BY <3>1, <3>2 DEF More
    <3>5. (j.retries - j.attempt) * (Delay + Work) \in Nat
      <4>1. \A x, y \in Nat : x * y \in Nat
        OBVIOUS
      <4> QED BY <3>2, <4>1
    <3> QED BY <3>3, <3>4, <3>5, <1>2
  <2>5. Left(new) = More(new) + Work /\ Left(j) = More(j) - Delay
    BY <1>2, <2>1, <2>3 DEF Left
  <2>6. More(new) \in Int
    <3>1. \A x, y \in Int : x * y \in Int
      OBVIOUS
    <3>2. new.retries + 1 - new.attempt \in Int /\ Delay + Work \in Int
      BY <1>2, <2>3
    <3> QED BY <3>1, <3>2 DEF More
  <2>7. Left(new) = Left(j)
    BY <1>2, <2>4, <2>5, <2>6
  <2>8. new.attempt <= new.retries + 1 /\ new.stage # "sleeping"
    BY <1>2, <2>2, <2>3
  <2>9. Left(new) <= Window(new)
    <3>1. Window(new) = Window(j)
      BY <1>3, <2>3
    <3>2. Left(j) <= Window(j)
      BY <1>1 DEF OnTime
    <3> QED BY <2>7, <3>1, <3>2
  <2> QED BY <1>2, <2>3, <2>7, <2>8, <2>9 DEF GoesOn, OnTime, j
<1> QED BY <1>4, <1>5, <1>6

\* The next run comes within a day and its delay.
LEMMA NextIsNear ==
    ASSUME SchInv, NEW a \in Accounts, Healthy(a)
    PROVE  /\ row[a].next \in 0 .. Day + row[a].jitter
           /\ Longest(row[a]) \in Nat /\ Longest(row[a]) >= Day + row[a].jitter
           /\ Longest(row[a]) = Day + row[a].jitter + Window(row[a])
           /\ row[a].jitter \in Nat /\ Day \in Nat
<1> DEFINE r == row[a]
<1>1. r # None /\ r \in Row /\ r.next # Never /\ clock \in 0 .. Day - 1
  BY Typed DEF Healthy, SchInv, Initialised
<1>2. /\ r.next \in Never .. 2 * Day /\ r.jitter \in 0 .. Day /\ r.time \in Times
      /\ r.retries \in Nat /\ Day \in Nat /\ Delay \in Nat /\ Work \in Nat
  BY <1>1, RowFields, TicksAreCounted
<1>3. r.next <= WaitUntil(r.time) + r.jitter /\ WaitUntil(r.time) \in 1 .. Day
  BY <1>1, <1>2, Waits DEF SchInv, AllTimed, Timed
<1>4. Window(r) \in Nat
  <2>1. \A x, d, w \in Nat : x * d + (x + 1) * w \in Nat
    OBVIOUS
  <2> QED BY <1>2, <2>1 DEF Window
<1> HIDE DEF r
<1>5. r.next \in 0 .. Day + r.jitter
  BY <1>1, <1>2, <1>3 DEF Never
<1>6. Longest(r) = Day + r.jitter + Window(r)
  BY DEF Longest
<1> QED BY <1>2, <1>4, <1>5, <1>6 DEF r

\* An account whose row stays, and whose jobs have no more before them than they had.
LEMMA BeatKept ==
    ASSUME SchInv, SchInv', BeatInv, NEW a \in Accounts,
           beat'[a] = beat[a], Healthy(a)', row'[a].jitter = row[a].jitter,
           row'[a].next = row[a].next, row'[a].retries = row[a].retries,
           JobsOf(a)' = JobsOf(a),
           \A i \in JobsOf(a) : Left(job'[i]) \in Int /\ Left(job'[i]) <= Left(job[i])
    PROVE  BeatsAt(a)'
<1> SUFFICES ASSUME beat'[a] # Never
             PROVE  BeatsAt(a)'
  BY DEF BeatsAt
<1>1. BeatsAt(a) /\ beat[a] # Never /\ Healthy(a)
  BY DEF BeatInv, BeatsAt
<1>2. Longest(row'[a]) = Longest(row[a])
  BY DEF Longest, Window
<1>3. Longest(row[a]) \in Nat /\ beat[a] \in Nat
  BY <1>1, NextIsNear, Typed
<1>4. ASSUME NEW i \in Jobs, JobsOf(a) = {i}
      PROVE  beat[a] + Left(job'[i]) <= Longest(row[a])
  <2>1. job[i] # None
    BY <1>4 DEF JobsOf
  <2>2. Left(job[i]) \in Nat
    BY <2>1, JobTyped DEF BeatInv
  <2>3. beat[a] + Left(job[i]) <= Longest(row[a])
    BY <1>1, <1>4 DEF BeatsAt
  <2>4. Left(job'[i]) \in Int /\ Left(job'[i]) <= Left(job[i])
    BY <1>4
  <2> QED BY <1>3, <2>2, <2>3, <2>4
<1>5. JobsOf(a)' = {} => beat[a] + row[a].next <= Day + row[a].jitter
  BY <1>1 DEF BeatsAt
<1> QED BY <1>1, <1>2, <1>4, <1>5 DEF BeatsAt

\* A job ends: with a push, or with no more to say of its account.
LEMMA JobEnds ==
    ASSUME WindowsEnd, SchInv, SchInv', BeatInv, NEW i \in Jobs, job[i] # None,
           job' = [job EXCEPT ![i] = None],
           up' = up, account' = account,
           \A b \in Accounts : /\ row'[b] # None <=> row[b] # None
                               /\ row[b] # None => /\ row'[b].enabled = row[b].enabled
                                                   /\ row'[b].jitter = row[b].jitter
                                                   /\ row'[b].retries = row[b].retries
                                                   /\ row'[b].next = row[b].next,
           \A b \in Accounts : b # job[i].account => beat'[b] = beat[b],
           LET a == job[i].account IN
              beat'[a] = Never \/ (beat'[a] = 0 /\ Healthy(a))
    PROVE  BeatInv'
<1>0. job[i] \in Job /\ job \in [Jobs -> Pick(Job)]
  BY Typed
<1>1. PICK a \in Accounts : a = job[i].account
  BY <1>0 DEF Job
<1>2. job'[i] = None /\ \A k \in Jobs \ {i} : job'[k] = job[k]
  BY <1>0
<1>3. JobsOnTime'
  <2> SUFFICES ASSUME NEW k \in Jobs, job'[k] # None
               PROVE  OnTime(job'[k])
    BY DEF JobsOnTime, OnTime, Left, More, Window
  <2>1. k # i /\ job'[k] = job[k]
    BY <1>2
  <2> QED BY <2>1 DEF BeatInv, JobsOnTime
<1>4. \A b \in Accounts : Healthy(b) => Healthy(b)'
  BY DEF Healthy
<1>5. ASSUME NEW b \in Accounts, b # a
      PROVE  BeatsAt(b)'
  <2>1. CASE beat[b] = Never
    BY <2>1, <1>1, <1>5 DEF BeatsAt
  <2>2. CASE beat[b] # Never
    <3>1. Healthy(b) /\ Healthy(b)' /\ row[b] # None
      BY <1>4, <2>2 DEF BeatInv, BeatsAt, Healthy
    <3>2. JobsOf(b)' = JobsOf(b)
      BY <1>1, <1>2, <1>5 DEF JobsOf
    <3>3. \A k \in JobsOf(b) : Left(job'[k]) \in Int /\ Left(job'[k]) <= Left(job[k])
      <4> SUFFICES ASSUME NEW k \in JobsOf(b)
                   PROVE  Left(job'[k]) \in Int /\ Left(job'[k]) <= Left(job[k])
        OBVIOUS
      <4>1. k \in Jobs /\ job[k] # None /\ k # i /\ job'[k] = job[k]
        BY <1>1, <1>2, <1>5 DEF JobsOf
      <4>2. Left(job[k]) \in Nat
        BY <4>1, JobTyped DEF BeatInv
      <4> QED BY <4>1, <4>2
    <3> QED BY <1>1, <1>5, <3>1, <3>2, <3>3, BeatKept
  <2> QED BY <2>1, <2>2
<1>6. BeatsAt(a)'
  <2> SUFFICES ASSUME beat'[a] # Never
               PROVE  BeatsAt(a)'
    BY DEF BeatsAt
  <2>1. beat'[a] = 0 /\ Healthy(a)'
    BY <1>1, <1>4
  <2>2. /\ row'[a].next \in 0 .. Day + row'[a].jitter
        /\ Longest(row'[a]) \in Nat /\ Longest(row'[a]) >= Day + row'[a].jitter
        /\ row'[a].jitter \in Nat /\ Day \in Nat
    <3>1. Healthy(a) /\ row[a] # None
      BY <2>1, <1>1 DEF Healthy
    <3>2. Longest(row'[a]) = Longest(row[a])
      BY <1>1, <3>1 DEF Longest, Window
    <3> QED BY <1>1, <3>1, <3>2, NextIsNear
  <2>3. ASSUME NEW k \in Jobs, JobsOf(a)' = {k}
        PROVE  Left(job'[k]) <= Longest(row'[a])
    <3>1. job'[k] # None /\ job'[k] = job[k] /\ job[k] # None
      BY <1>2, <2>3 DEF JobsOf
    <3>2. /\ job[k] \in Job /\ Left(job[k]) \in Nat /\ Window(job[k]) \in Nat
          /\ job[k].retries \in Retries /\ OnTime(job[k])
      BY <3>1, JobTyped, Counting DEF BeatInv
    <3>3. Window(job[k]) <= Day
      BY <3>2 DEF WindowsEnd, Window
    <3>4. Left(job[k]) <= Window(job[k])
      BY <3>2 DEF OnTime
    <3> QED BY <2>2, <3>1, <3>2, <3>3, <3>4
  <2>4. \A k \in Jobs : JobsOf(a)' = {k} => Left(job'[k]) \in Nat
    <3> SUFFICES ASSUME NEW k \in Jobs, JobsOf(a)' = {k}
                 PROVE  Left(job'[k]) \in Nat
      OBVIOUS
    <3>1. job'[k] = job[k] /\ job[k] # None
      BY <1>2 DEF JobsOf
    <3> QED BY <3>1, JobTyped DEF BeatInv
  <2>5. JobsOf(a)' = {} => beat'[a] + row'[a].next <= Day + row'[a].jitter
    BY <2>1, <2>2
  <2>6. \A k \in Jobs : JobsOf(a)' = {k} => beat'[a] + Left(job'[k]) <= Longest(row'[a])
    BY <2>1, <2>3, <2>4
  <2> QED BY <2>1, <2>5, <2>6 DEF BeatsAt, Left, More, Longest, Window
<1>7. \A b \in Accounts : BeatsAt(b)'
  BY <1>5, <1>6
<1> QED BY <1>3, <1>7 DEF BeatInv

\* Where the accounts that are disturbed are left out, rows and jobs go on as they were.
LEMMA Undisturbed ==
    ASSUME SchInv, SchInv', BeatInv,
           \A i \in Jobs : job'[i] # None =>
              job[i] # None /\ GoesOn(job[i], job'[i]),
           \A b \in Accounts : beat'[b] # Never =>
              /\ beat'[b] = beat[b] /\ Healthy(b)' /\ row'[b].jitter = row[b].jitter
              /\ row'[b].next = row[b].next /\ row'[b].retries = row[b].retries
              /\ \A i \in JobsOf(b) : job'[i] # None
    PROVE  BeatInv'
<1>1. JobsOnTime'
  BY DEF JobsOnTime, GoesOn, OnTime, Left, More, Window
<1>2. ASSUME NEW b \in Accounts
      PROVE  BeatsAt(b)'
  <2>1. CASE beat'[b] = Never
    BY <2>1 DEF BeatsAt
  <2>2. CASE beat'[b] # Never
    <3>1. JobsOf(b)' = JobsOf(b)
      BY <2>2 DEF JobsOf, GoesOn
    <3>2. \A i \in JobsOf(b) : Left(job'[i]) \in Int /\ Left(job'[i]) <= Left(job[i])
      <4> SUFFICES ASSUME NEW i \in JobsOf(b)
                   PROVE  Left(job'[i]) \in Int /\ Left(job'[i]) <= Left(job[i])
        OBVIOUS
      <4>1. i \in Jobs /\ job'[i] # None /\ GoesOn(job[i], job'[i])
        BY <2>2 DEF JobsOf
      <4> QED BY <4>1, Counting DEF GoesOn
    <3> QED BY <2>2, <3>1, <3>2, BeatKept
  <2> QED BY <2>1, <2>2
<1> QED BY <1>1, <1>2 DEF BeatInv

LEMMA SameJob ==
    ASSUME SchInv, BeatInv, NEW i \in Jobs, job[i] # None, job'[i] = job[i]
    PROVE  GoesOn(job[i], job'[i])
<1>1. job[i] \in Job /\ OnTime(job[i]) /\ Left(job[i]) \in Nat
  BY JobTyped DEF BeatInv
<1> QED BY <1>1 DEF GoesOn

\* A job whose row is deleted only records no more.
LEMMA OrphanGoesOn ==
    ASSUME SchInv, BeatInv, NEW i \in Jobs, job[i] # None,
           job'[i] = [job[i] EXCEPT !.row = FALSE]
    PROVE  job'[i] # None /\ GoesOn(job[i], job'[i])
<1>1. job[i] \in Job /\ OnTime(job[i]) /\ Left(job[i]) \in Nat
  BY JobTyped DEF BeatInv
<1>2. /\ job'[i] \in Job /\ job'[i].account = job[i].account
      /\ job'[i].retries = job[i].retries /\ job'[i].attempt = job[i].attempt
      /\ job'[i].stage = job[i].stage /\ job'[i].wake = job[i].wake
  BY <1>1 DEF Job
<1>3. PICK new : new = job'[i]
  OBVIOUS
<1>4. Left(new) = Left(job[i]) /\ Window(new) = Window(job[i])
  BY <1>2, <1>3 DEF Left, More, Window
<1>5. OnTime(new) /\ Left(new) <= Left(job[i])
  BY <1>1, <1>2, <1>3, <1>4 DEF OnTime
<1>6. new # None
  BY <1>2, <1>3, NoneIsNothing
<1> QED BY <1>2, <1>3, <1>5, <1>6 DEF GoesOn

LEMMA BeatHealthy ==
    ASSUME SchInv, BeatInv, NEW b \in Accounts, beat[b] # Never
    PROVE  Healthy(b) /\ row[b] # None
BY DEF BeatInv, BeatsAt, Healthy

LEMMA EditBeat == ASSUME SchInv, SchInv', BeatInv, NEW a \in Accounts, Edit(a) PROVE BeatInv'
<1>1. /\ beat' = [beat EXCEPT ![a] = Never] /\ up' = up
      /\ \A b \in Accounts \ {a} : account'[b] = account[b] /\ row'[b] = row[b]
      /\ job' = job \/ job' = Orphan(a)
  BY Typed DEF Edit, Upsert, DeleteSchedule, SetEnabled, DeleteAccount, Disturb
<1>2. beat'[a] = Never /\ \A b \in Accounts \ {a} : beat'[b] = beat[b]
  BY <1>1, Typed
<1>3. \A i \in Jobs : job[i] = None => job'[i] = None
  BY <1>1 DEF Orphan, JobsOf
<1>4. \A i \in Jobs : job[i] # None => job'[i] # None /\ GoesOn(job[i], job'[i])
  <2> SUFFICES ASSUME NEW i \in Jobs, job[i] # None
               PROVE  job'[i] # None /\ GoesOn(job[i], job'[i])
    OBVIOUS
  <2>1. job'[i] = job[i] \/ job'[i] = [job[i] EXCEPT !.row = FALSE]
    BY <1>1 DEF Orphan
  <2> QED BY <2>1, SameJob, OrphanGoesOn
<1>5. \A b \in Accounts : beat'[b] # Never =>
              /\ beat'[b] = beat[b] /\ Healthy(b)' /\ row'[b] = row[b]
              /\ \A i \in JobsOf(b) : job'[i] # None
  <2> SUFFICES ASSUME NEW b \in Accounts, beat'[b] # Never
               PROVE  /\ beat'[b] = beat[b] /\ Healthy(b)' /\ row'[b] = row[b]
                      /\ \A i \in JobsOf(b) : job'[i] # None
    OBVIOUS
  <2>1. b # a /\ beat[b] # Never /\ beat'[b] = beat[b]
    BY <1>2
  <2>2. Healthy(b)
    BY <2>1, BeatHealthy
  <2> QED BY <1>1, <1>4, <2>1, <2>2 DEF Healthy, JobsOf
<1> QED BY <1>3, <1>4, <1>5, Undisturbed

LEMMA RestBeat ==
    ASSUME SchInv, SchInv', BeatInv, Start \/ Down \/ UNCHANGED vars
    PROVE  BeatInv'
<1>1. CASE Start \/ Down
  <2>1. \A b \in Accounts : beat'[b] = Never
    BY <1>1, BeatHealthy DEF Start, Down, Healthy
  <2>2. \A i \in Jobs : job'[i] # None => job[i] # None /\ GoesOn(job[i], job'[i])
    BY <1>1, SameJob DEF Start, Down
  <2> QED BY <2>1, <2>2, Undisturbed
<1>2. CASE UNCHANGED vars
  <2>1. \A i \in Jobs : job'[i] # None => job[i] # None /\ GoesOn(job[i], job'[i])
    BY <1>2, SameJob DEF vars
  <2>2. \A b \in Accounts : beat'[b] # Never => Healthy(b)'
    BY <1>2, BeatHealthy DEF vars, Healthy
  <2> QED BY <1>2, <2>1, <2>2, Undisturbed DEF vars, JobsOf
<1> QED BY <1>1, <1>2

\* A claimed schedule gets its job when it is due, a day and a delay after its last push.
LEMMA ClaimBeat == ASSUME SchInv, SchInv', BeatInv, Claim PROVE BeatInv'
<1> DEFINE All == {a \in Accounts : Due(a)}
<1>1. UNCHANGED <<clock, up, account, calm, beat>>
  BY DEF Claim
<1>2. PICK n \in [All -> 0 .. 2 * Day], i \in Injection(All, Jobs) :
         /\ \A a \in All : n[a] \in NextRun(row[a].time, row[a].jitter) /\ job[i[a]] = None
         /\ row' = [a \in Accounts |->
                      IF a \in All THEN [row[a] EXCEPT !.next = n[a]] ELSE row[a]]
         /\ job' = [k \in Jobs |->
                      IF \E a \in All : i[a] = k
                      THEN LET a == CHOOSE b \in All : i[b] = k IN
                           [account |-> a, row |-> TRUE, retries |-> row[a].retries, attempt |-> 1,
                            stage |-> "queued", wake |-> 0]
                      ELSE job[k]]
  BY DEF Claim
<1>3. ASSUME NEW a \in Accounts
      PROVE  /\ a \notin All => row'[a] = row[a]
             /\ a \in All => /\ row[a].next = 0 /\ row'[a].jitter = row[a].jitter
                             /\ row'[a].retries = row[a].retries
                             /\ row'[a].enabled = row[a].enabled /\ row'[a] # None
  <2>1. CASE a \in All
    <3>1. row[a] # None /\ row[a].next = 0
      BY <2>1 DEF Due, Healthy
    <3>2. row[a] \in Row /\ row'[a] = [row[a] EXCEPT !.next = n[a]]
      BY <2>1, <3>1, <1>2, Typed
    <3>3. n[a] \in Never .. 2 * Day
      BY <2>1, <1>2, TicksAreCounted DEF Never
    <3>4. row'[a] \in Row
      BY <3>2, <3>3 DEF Row
    <3> QED BY <2>1, <3>1, <3>2, <3>4, NoneIsNothing DEF Row
  <2>2. CASE a \notin All
    BY <2>2, <1>2
  <2> QED BY <2>1, <2>2
\* A slot is new, and its job stands at the beginning of its window; or as it was.
<1>4. ASSUME NEW k \in Jobs, job'[k] # job[k]
      PROVE  /\ job[k] = None /\ job'[k] \in Job /\ job'[k].account \in All
             /\ job'[k].retries = row[job'[k].account].retries
             /\ job'[k].attempt = 1 /\ job'[k].stage = "queued"
  <2>1. \E a \in All : i[a] = k
    BY <1>2, <1>4
  <2> DEFINE a == CHOOSE b \in All : i[b] = k
  <2>2. a \in All /\ i[a] = k
    BY <2>1
  <2>3. job[k] = None
    BY <1>2, <2>2
  <2>4. job'[k] = [account |-> a, row |-> TRUE, retries |-> row[a].retries, attempt |-> 1,
                   stage |-> "queued", wake |-> 0]
    BY <1>2, <2>1
  <2> HIDE DEF a
  <2>5. job'[k] # None
    BY <1>4, <2>3
  <2>6. job'[k] \in Job
    BY <2>5 DEF SchInv, SchedTypeOK, Pick
  <2> QED BY <2>2, <2>3, <2>4, <2>6
<1> HIDE DEF All
<1>5. ASSUME NEW k \in Jobs, job'[k] # job[k]
      PROVE  OnTime(job'[k]) /\ Left(job'[k]) = Window(job'[k])
  BY <1>4, <1>5, FreshJob
<1>6. JobsOnTime'
  <2> SUFFICES ASSUME NEW k \in Jobs, job'[k] # None
               PROVE  OnTime(job'[k])
    BY DEF JobsOnTime, OnTime, Left, More, Window
  <2> QED BY <1>5 DEF BeatInv, JobsOnTime
<1>7. ASSUME NEW a \in Accounts, beat[a] # Never
      PROVE  BeatsAt(a)'
  <2>1. Healthy(a) /\ row[a] # None /\ beat'[a] = beat[a] /\ beat[a] \in Nat
    BY <1>1, <1>7, BeatHealthy, Typed
  <2>2. Healthy(a)'
    BY <2>1, <1>1, <1>3 DEF Healthy
  <2>3. CASE a \notin All
    <3>1. JobsOf(a)' = JobsOf(a)
      BY <2>3, <1>4 DEF JobsOf
    <3>2. \A k \in JobsOf(a) : Left(job'[k]) \in Int /\ Left(job'[k]) <= Left(job[k])
      <4> SUFFICES ASSUME NEW k \in JobsOf(a)
                   PROVE  Left(job'[k]) \in Int /\ Left(job'[k]) <= Left(job[k])
        OBVIOUS
      <4>1. k \in Jobs /\ job[k] # None /\ job'[k] = job[k]
        BY <1>4 DEF JobsOf
      <4>2. Left(job[k]) \in Nat
        BY <4>1, JobTyped DEF BeatInv
      <4> QED BY <4>1, <4>2
    <3> QED BY <2>1, <2>2, <2>3, <3>1, <3>2, <1>3, BeatKept
  <2>4. CASE a \in All
    <3>1. Longest(row'[a]) = Longest(row[a])
      BY <2>4, <1>3 DEF Longest, Window
    <3>2. JobsOf(a)' = {} => beat'[a] + row'[a].next <= Day + row'[a].jitter
      <4>1. \E k \in Jobs : k \in JobsOf(a)'
        <5>1. i[a] \in Jobs /\ job[i[a]] = None
          BY <2>4, <1>2 DEF Injection
        <5>2. \A b \in All : i[b] = i[a] => b = a
          BY <2>4, <1>2 DEF Injection, IsInjective
        <5>3. (CHOOSE b \in All : i[b] = i[a]) = a
          BY <2>4, <5>2
        <5>4. job'[i[a]].account = a /\ job'[i[a]] # None
          <6>1. job'[i[a]] = [account |-> a, row |-> TRUE, retries |-> row[a].retries,
                              attempt |-> 1, stage |-> "queued", wake |-> 0]
            BY <2>4, <1>2, <5>1, <5>3
          <6>2. job'[i[a]] \in Job
            <7>1. row[a].retries \in Retries
              BY <2>1, Typed, RowFields
            <7> QED BY <6>1, <7>1 DEF Job, Stages
          <6>3. job'[i[a]].account = a
            BY <6>1
          <6>4. job'[i[a]] # None
            BY <6>2, NoneIsNothing
          <6> QED BY <6>3, <6>4
        <5> QED BY <5>1, <5>4 DEF JobsOf
      <4> QED BY <4>1
    <3>3. ASSUME NEW k \in Jobs, JobsOf(a)' = {k}
          PROVE  beat'[a] + Left(job'[k]) <= Longest(row'[a])
      <4>1. job'[k] # None /\ job'[k].account = a
        BY <3>3 DEF JobsOf
      <4>2. CASE job'[k] = job[k]
        <5>1. JobsOf(a) = {k}
          <6>1. \A m \in Jobs : job[m] # None => job'[m] = job[m]
            BY <1>4
          <6> QED BY <3>3, <4>1, <4>2, <6>1 DEF JobsOf
        <5>2. beat[a] + Left(job[k]) <= Longest(row[a])
          BY <1>7, <5>1 DEF BeatInv, BeatsAt
        <5> QED BY <2>1, <3>1, <4>2, <5>2
      <4>3. CASE job'[k] # job[k]
        <5>1. job[k] = None
          BY <4>3, <1>4
        <5>2. JobsOf(a) = {}
          <6>1. \A m \in Jobs : job[m] # None => job'[m] = job[m]
            BY <1>4
          <6> QED BY <3>3, <5>1, <6>1 DEF JobsOf
        <5>3. beat[a] + row[a].next <= Day + row[a].jitter /\ row[a].next = 0
          BY <1>3, <1>7, <2>4, <5>2 DEF BeatInv, BeatsAt
        <5>4. Left(job'[k]) = Window(row[a])
          <6>1. Left(job'[k]) = Window(job'[k]) /\ job'[k].retries = row[a].retries
            BY <4>1, <4>3, <1>4, <1>5
          <6> QED BY <6>1 DEF Window
        <5>5. /\ Longest(row[a]) = Day + row[a].jitter + Window(row[a])
              /\ Longest(row[a]) \in Nat /\ row[a].jitter \in Nat /\ Day \in Nat
          BY <2>1, NextIsNear
        <5>6. Window(row[a]) \in Int
          <6>1. row[a].retries \in Nat /\ Delay \in Nat /\ Work \in Nat
            BY <2>1, Typed, RowFields, TicksAreCounted
          <6>2. \A x, d, w \in Nat : x * d + (x + 1) * w \in Int
            OBVIOUS
          <6> QED BY <6>1, <6>2 DEF Window
        <5> QED BY <2>1, <3>1, <5>3, <5>4, <5>5, <5>6
      <4> QED BY <4>2, <4>3
    <3> QED BY <2>2, <3>2, <3>3 DEF BeatsAt, Left, More, Longest, Window
  <2> QED BY <2>3, <2>4
<1>8. \A a \in Accounts : BeatsAt(a)'
  BY <1>1, <1>7 DEF BeatsAt
<1> QED BY <1>6, <1>8 DEF BeatInv

\* The clock moves for all alike: what a job has left, or the wait, and the time since.
LEMMA TickBeat == ASSUME SchInv, SchInv', BeatInv, Tick PROVE BeatInv'
<1>1. /\ \A a \in Accounts : ~Due(a)
      /\ \A i \in Jobs : job[i] # None => ~Urgent(i)
      /\ row' = [a \in Accounts |->
                   IF row[a] = None THEN None ELSE [row[a] EXCEPT !.next = Less(@)]]
      /\ job' = [i \in Jobs |->
                   IF job[i] = None THEN None ELSE [job[i] EXCEPT !.wake = Less(@)]]
      /\ beat' = [a \in Accounts |-> IF beat[a] = Never THEN Never ELSE beat[a] + 1]
      /\ up' = up /\ account' = account
  BY DEF Tick
<1>2. ASSUME NEW i \in Jobs, job[i] # None
      PROVE  /\ job'[i] # None /\ GoesOn(job[i], job'[i])
             /\ ~Running(job[i].account) \/ job[i].stage # "queued"
                => Left(job'[i]) = Left(job[i]) - 1
  <2> DEFINE j == job[i]
             w == Less(j.wake)
  <2>1. j \in Job /\ OnTime(j) /\ Left(j) \in Nat /\ job'[i] = [j EXCEPT !.wake = w]
    BY <1>1, <1>2, JobTyped DEF BeatInv
  <2>2. j.wake \in Nat /\ More(j) \in Nat /\ Work \in Nat /\ Delay \in Nat
    BY <2>1, Counting
  <2>3. /\ w \in Nat /\ w <= j.wake /\ (j.wake # 0 => w = j.wake - 1)
    BY <2>2 DEF Less
  <2> HIDE DEF w
  <2>4. PICK new : new = job'[i]
    OBVIOUS
  <2>5. /\ new \in Job /\ new.account = j.account /\ new.retries = j.retries
        /\ new.attempt = j.attempt /\ new.stage = j.stage /\ new.wake = w
    BY <2>1, <2>3, <2>4 DEF Job
  <2>6. More(new) = More(j) /\ Window(new) = Window(j)
    BY <2>5 DEF More, Window
  <2>7. ~Urgent(i) /\ j.stage \in Stages
    BY <1>1, <1>2, <2>1 DEF Job
  <2>8. /\ j.stage # "notifying"
        /\ j.stage = "queued" => Running(j.account)
        /\ j.stage \in {"running", "sleeping"} => j.wake # 0
    BY <2>7 DEF Urgent
  <2> HIDE DEF j
  <2>9. Left(new) <= Left(j) /\ (j.stage # "queued" => Left(new) = Left(j) - 1)
    <3>1. CASE j.stage = "queued"
      <4>1. Left(new) = Left(j)
        BY <3>1, <2>5, <2>6 DEF Left
      <4> QED BY <2>1, <3>1, <4>1
    <3>2. CASE j.stage = "running"
      BY <3>2, <2>2, <2>3, <2>5, <2>6, <2>8 DEF Left
    <3>3. CASE j.stage = "sleeping"
      BY <3>3, <2>2, <2>3, <2>5, <2>6, <2>8 DEF Left
    <3> QED BY <2>7, <2>8, <3>1, <3>2, <3>3 DEF Stages
  <2>10. OnTime(new)
    <3>1. Left(new) \in Int /\ Window(j) \in Int
      <4>1. Window(j) \in Nat
        BY <2>1, Counting
      <4>2. Left(new) \in Int
        BY <2>2, <2>3, <2>5, <2>6, <2>7 DEF Left, Stages
      <4> QED BY <4>1, <4>2
    <3> QED BY <2>1, <2>5, <2>6, <2>9, <3>1 DEF OnTime
  <2>11. GoesOn(j, new) /\ new # None
    BY <2>5, <2>9, <2>10, NoneIsNothing DEF GoesOn
  <2> QED BY <2>4, <2>8, <2>9, <2>11 DEF j
<1>3. JobsOnTime'
  <2> SUFFICES ASSUME NEW i \in Jobs, job'[i] # None
               PROVE  OnTime(job'[i])
    BY DEF JobsOnTime, OnTime, Left, More, Window
  <2> QED BY <1>1, <1>2 DEF GoesOn
<1>4. ASSUME NEW a \in Accounts, beat[a] # Never
      PROVE  BeatsAt(a)'
  <2>1. /\ Healthy(a) /\ row[a] # None /\ beat'[a] = beat[a] + 1 /\ beat[a] \in Nat
        /\ row[a] \in Row
    BY <1>1, <1>4, BeatHealthy, Typed
  <2>2. /\ row[a].next \in 0 .. Day + row[a].jitter /\ Longest(row[a]) \in Nat
        /\ row[a].jitter \in Nat /\ Day \in Nat
    BY <2>1, NextIsNear
  <2>3. row[a].next # 0
    BY <2>1, <1>1 DEF Due
  <2>4. Less(row[a].next) = row[a].next - 1 /\ row[a].next - 1 \in Never .. 2 * Day
    <3>1. row[a].next \in Never .. 2 * Day
      BY <2>1, RowFields
    <3> QED BY <2>2, <2>3, <3>1 DEF Less, Never
  <2>5. /\ row'[a].next = row[a].next - 1 /\ row'[a].jitter = row[a].jitter
        /\ row'[a].retries = row[a].retries /\ row'[a].enabled = row[a].enabled
        /\ row'[a] # None
    <3>1. row'[a] = [row[a] EXCEPT !.next = row[a].next - 1]
      BY <2>1, <2>4, <1>1
    <3>2. row'[a] \in Row
      BY <2>1, <2>4, <3>1 DEF Row
    <3> QED BY <2>1, <3>1, <3>2, NoneIsNothing DEF Row
  <2>6. Healthy(a)'
    BY <2>1, <2>5, <1>1 DEF Healthy
  <2>7. JobsOf(a)' = JobsOf(a)
    <3>1. \A i \in Jobs : job'[i] # None <=> job[i] # None
      BY <1>1, <1>2
    <3> QED BY <1>2, <3>1 DEF JobsOf, GoesOn
  <2>8. Longest(row'[a]) = Longest(row[a])
    BY <2>5 DEF Longest, Window
  <2>9. JobsOf(a)' = {} => beat'[a] + row'[a].next <= Day + row'[a].jitter
    <3>1. JobsOf(a) = {} => beat[a] + row[a].next <= Day + row[a].jitter
      BY <1>4 DEF BeatInv, BeatsAt
    <3> QED BY <2>1, <2>2, <2>5, <2>7, <3>1
  <2>10. ASSUME NEW i \in Jobs, JobsOf(a)' = {i}
         PROVE  beat'[a] + Left(job'[i]) <= Longest(row'[a])
    <3>1. JobsOf(a) = {i} /\ job[i] # None /\ job[i].account = a
      BY <2>7, <2>10 DEF JobsOf
    <3>2. beat[a] + Left(job[i]) <= Longest(row[a])
      BY <1>4, <3>1 DEF BeatInv, BeatsAt
    <3>3. job[i].stage # "queued" \/ ~Running(job[i].account)
      BY <3>1 DEF Running
    <3>4. Left(job'[i]) = Left(job[i]) - 1 /\ Left(job[i]) \in Nat
      BY <3>1, <3>3, <1>2, JobTyped DEF BeatInv
    <3> QED BY <2>1, <2>2, <2>8, <3>2, <3>4
  <2> QED BY <2>6, <2>9, <2>10 DEF BeatsAt, Left, More, Longest, Window
<1>5. \A a \in Accounts : BeatsAt(a)'
  BY <1>1, <1>4 DEF BeatsAt
<1> QED BY <1>3, <1>5 DEF BeatInv

LEMMA JobBeat ==
    ASSUME WindowsEnd, SchInv, SchInv', BeatInv, NEW i \in Jobs, Step(i)
    PROVE  BeatInv'
<1>1. job[i] # None /\ job[i] \in Job /\ job \in [Jobs -> Pick(Job)] /\ job[i].account \in Accounts
  <2>1. job[i] # None
    BY DEF Step, Begin, Raises, Ended, Woken, Notified
  <2> QED BY <2>1, Typed DEF Job
\* The row that gets a status stays as it is otherwise.
<1>2. ASSUME NEW status \in {"ok", "failed"}, row' = row \/ Record(job[i], status)
      PROVE  \A b \in Accounts : /\ row'[b] # None <=> row[b] # None
                                 /\ row[b] # None => /\ row'[b].enabled = row[b].enabled
                                                     /\ row'[b].jitter = row[b].jitter
                                                     /\ row'[b].retries = row[b].retries
                                                     /\ row'[b].next = row[b].next
  <2>1. CASE row' = row
    BY <2>1
  <2>2. CASE row' # row
    <3> SUFFICES ASSUME NEW b \in Accounts
                 PROVE  /\ row'[b] # None <=> row[b] # None
                        /\ row[b] # None => /\ row'[b].enabled = row[b].enabled
                                            /\ row'[b].jitter = row[b].jitter
                                            /\ row'[b].retries = row[b].retries
                                            /\ row'[b].next = row[b].next
      OBVIOUS
    <3>1. job[i].row /\ row' = [row EXCEPT ![job[i].account].status = status]
      BY <2>2, <1>2 DEF Record
    <3>2. row[job[i].account] # None
      BY <3>1, <1>1 DEF SchInv, OwnRow
    <3>3. row[job[i].account] \in Row
      BY <3>2, <1>1, Typed
    <3>4. b # job[i].account => row'[b] = row[b]
      BY <3>1, Typed
    <3>5. b = job[i].account => row'[b] = [row[b] EXCEPT !.status = status]
      BY <3>1, Typed
    <3>6. b = job[i].account => row'[b] \in Row
      BY <3>3, <3>5 DEF Row
    <3> QED BY <3>2, <3>3, <3>4, <3>5, <3>6, NoneIsNothing DEF Row
  <2> QED BY <2>1, <2>2
<1>3. ASSUME Crash(i) PROVE BeatInv'
  <2>1. /\ job' = [job EXCEPT ![i] = None] /\ up' = up /\ account' = account
        /\ Record(job[i], "failed") /\ beat' = [beat EXCEPT ![job[i].account] = Never]
    BY <1>3 DEF Crash, Disturb
  <2>2. /\ beat'[job[i].account] = Never
        /\ \A b \in Accounts : b # job[i].account => beat'[b] = beat[b]
    BY <2>1, <1>1, Typed
  <2> QED BY <1>1, <1>2, <2>1, <2>2, JobEnds
<1>4. ASSUME NEW d \in BOOLEAN, Notified(i, d) PROVE BeatInv'
  <2>1. job' = [job EXCEPT ![i] = None] /\ UNCHANGED <<clock, up, account, row, served>>
    BY <1>4 DEF Notified
  <2>2. LET a == job[i].account IN
           \/ beat' = [beat EXCEPT ![a] = 0] /\ Healthy(a)
           \/ beat' = [beat EXCEPT ![a] = Never]
    BY <1>4 DEF Notified, Disturb
  <2>3. LET a == job[i].account IN
        /\ beat'[a] = Never \/ (beat'[a] = 0 /\ Healthy(a))
        /\ \A b \in Accounts : b # a => beat'[b] = beat[b]
    BY <2>2, <1>1, Typed
  <2> QED BY <1>1, <2>1, <2>3, JobEnds
<1>5. ASSUME ~Crash(i),
             Begin(i) \/ (\E v \in {"ok", "failed"} : Ended(i, v)) \/ Woken(i)
      PROVE  BeatInv'
  <2>1. PICK new : job' = [job EXCEPT ![i] = new] /\ new # None
    <3> DEFINE j == job[i]
    <3>1. /\ [j EXCEPT !.stage = "running", !.wake = Work] \in Job
          /\ [j EXCEPT !.stage = "sleeping", !.wake = Delay] \in Job
          /\ [j EXCEPT !.stage = "notifying"] \in Job
      BY <1>1, TicksAreCounted DEF Job, Stages
    <3>2. [j EXCEPT !.stage = "queued", !.attempt = @ + 1] \in Job
      <4>1. j.attempt + 1 \in Nat \ {0}
        BY <1>1 DEF Job
      <4> QED BY <1>1, <4>1 DEF Job, Stages
    <3>3. CASE Begin(i)
      BY <1>5, <3>1, <3>3, NoneIsNothing DEF Begin
    <3>4. ASSUME NEW v \in {"ok", "failed"}, Ended(i, v)
          PROVE  \E new : job' = [job EXCEPT ![i] = new] /\ new # None
      BY <3>1, <3>4, NoneIsNothing DEF Ended
    <3>5. CASE Woken(i)
      <4> DEFINE x == [j EXCEPT !.stage = "queued", !.attempt = @ + 1]
      <4>1. job' = [job EXCEPT ![i] = x]
        BY <3>5 DEF Woken
      <4>2. x # None
        BY <3>2, NoneIsNothing
      <4> QED BY <4>1, <4>2
    <3> QED BY <1>5, <3>3, <3>4, <3>5
  <2>2. UNCHANGED <<up, account, beat>>
    BY <1>5 DEF Begin, Ended, Woken
  <2>3. \E status \in {"ok", "failed"} : row' = row \/ Record(job[i], status)
    BY <1>5 DEF Begin, Ended, Woken
  <2>4. GoesOn(job[i], new) /\ job'[i] = new /\ \A k \in Jobs \ {i} : job'[k] = job[k]
    BY <1>1, <1>5, <2>1, StepGoesOn DEF BeatInv
  <2>5. \A k \in Jobs : job'[k] # None => job[k] # None /\ GoesOn(job[k], job'[k])
    BY <1>1, <2>4, SameJob
  <2>6. ASSUME NEW b \in Accounts, beat'[b] # Never
        PROVE  /\ beat'[b] = beat[b] /\ Healthy(b)' /\ row'[b].jitter = row[b].jitter
               /\ row'[b].next = row[b].next /\ row'[b].retries = row[b].retries
               /\ \A k \in JobsOf(b) : job'[k] # None
    <3>1. Healthy(b) /\ row[b] # None /\ beat'[b] = beat[b]
      BY <2>2, <2>6, BeatHealthy
    <3>2. /\ row'[b] # None /\ row'[b].enabled = row[b].enabled
          /\ row'[b].jitter = row[b].jitter /\ row'[b].retries = row[b].retries
          /\ row'[b].next = row[b].next
      BY <1>2, <2>3, <3>1
    <3>3. Healthy(b)'
      BY <2>2, <3>1, <3>2 DEF Healthy
    <3>4. \A k \in JobsOf(b) : job'[k] # None
      BY <2>1, <2>4 DEF JobsOf
    <3> QED BY <3>1, <3>2, <3>3, <3>4
  <2> QED BY <2>5, <2>6, Undisturbed
<1>6. Begin(i) \/ Crash(i) \/ (\E v \in {"ok", "failed"} : Ended(i, v))
         \/ Woken(i) \/ \E d \in BOOLEAN : Notified(i, d)
  BY DEF Step, Raises
<1> QED BY <1>3, <1>4, <1>5, <1>6

\* While nobody edits, no push is lost and no attempt raises, the pushes of an account
\* whose jobs do not overlap are no further apart than a day, its random delay and its
\* retry window, as long as retry windows end within a day (README.md:193).
THEOREM HeartbeatHoldsAlone ==
    ASSUME WindowsEnd
    PROVE  Spec => []HeartbeatAlone
<1>1. Init => BeatInv
  BY DEF Init, BeatInv, JobsOnTime, BeatsAt
<1>2. SchInv /\ BeatInv /\ [Next]_vars => BeatInv'
  <2> SUFFICES ASSUME SchInv, BeatInv, [Next]_vars PROVE BeatInv'
    OBVIOUS
  <2>1. SchInv'
    BY SchedulesMove
  <2>2. CASE Start \/ Down \/ UNCHANGED vars
    BY <2>1, <2>2, RestBeat
  <2>3. CASE \E a \in Accounts : Edit(a)
    BY <2>1, <2>3, EditBeat
  <2>4. CASE Claim
    BY <2>1, <2>4, ClaimBeat
  <2>5. CASE \E i \in Jobs : Step(i)
    BY <2>1, <2>5, JobBeat
  <2>6. CASE Tick
    BY <2>1, <2>6, TickBeat
  <2> QED BY <2>2, <2>3, <2>4, <2>5, <2>6 DEF Next
<1>3. SchInv /\ BeatInv => HeartbeatAlone
  <2> SUFFICES ASSUME SchInv, BeatInv, NEW a \in Accounts, beat[a] # Never, row[a] # None,
                      \A i, k \in JobsOf(a) : i = k
               PROVE  beat[a] <= Longest(row[a])
    BY DEF HeartbeatAlone
  <2>1. Healthy(a) /\ beat[a] \in Nat /\ BeatsAt(a)
    BY BeatHealthy, Typed DEF BeatInv
  <2>2. /\ row[a].next \in 0 .. Day + row[a].jitter
        /\ Longest(row[a]) \in Nat /\ Longest(row[a]) >= Day + row[a].jitter
        /\ row[a].jitter \in Nat /\ Day \in Nat
    BY <2>1, NextIsNear
  <2>3. CASE JobsOf(a) = {}
    <3>1. beat[a] + row[a].next <= Day + row[a].jitter
      BY <2>1, <2>3 DEF BeatsAt
    <3> QED BY <2>1, <2>2, <3>1
  <2>4. CASE JobsOf(a) # {}
    <3>1. PICK i \in Jobs : JobsOf(a) = {i} /\ job[i] # None
      BY <2>4 DEF JobsOf
    <3>2. beat[a] + Left(job[i]) <= Longest(row[a])
      BY <2>1, <3>1 DEF BeatsAt
    <3>3. Left(job[i]) \in Nat
      BY <3>1, JobTyped DEF BeatInv
    <3> QED BY <2>1, <2>2, <3>2, <3>3
  <2> QED BY <2>3, <2>4
<1>4. Spec => []SchInv
  BY SchedulesStart, SchedulesMove, PTL DEF Spec
<1> QED BY <1>1, <1>2, <1>3, <1>4, PTL DEF Spec

-----------------------------------------------------------------------------
(* BACKUPS                                                                 *)

\* The tasks stand in line once each, and only the first of them is at work, in its own
\* stages; nobody is in line while the service is down.
OneAtWork ==
    /\ \A i, j \in DOMAIN line : line[i] = line[j] => i = j
    /\ \A t \in Tasks : ~At(t, "idle") <=> \E i \in DOMAIN line : line[i] = t
    /\ \A t \in Tasks : stage[t] \notin {"idle", "waiting"} => Holds(t)
    /\ stage[Saver] \in {"idle", "waiting", "config", "password", "apply"}
    /\ \A t \in Tasks \ {Saver} :
          stage[t] \in {"idle", "waiting", "creating", "inspecting", "pruning"}
    /\ ~running => line = <<>>
    /\ orphan # "none" => ~running

\* Backups are only begun with a password, which is never taken away again.
Protected ==
    (\E t \in Tasks \ {Saver} : ~At(t, "idle")) \/ orphan # "none" => settings.password # Unset

\* Between two rounds of retention the newest archive is one that was read back.
CheckedBeforePruned ==
    /\ \A t \in Tasks : At(t, "inspecting") => files # <<>>
    /\ (\E t \in Tasks : At(t, "pruning")) \/ orphan = "pruning" =>
          files # <<>> /\ files[Len(files)].good
    /\ secured => \E i \in DOMAIN files : files[i].good

\* What is stored and what is in effect, commit by commit.
StoredAs(s) == Effective(stored, Environment) = s
\* Without a save that raised half-way, all the settings; and always the password.
InEffect == /\ Effective(stored, Environment).password = settings.password
            /\ ~partly => StoredAs(settings)
CommitsFollow ==
    /\ want # Unset <=> ~At(Saver, "idle")
    /\ running /\ ~Saving => InEffect
    /\ At(Saver, "config") => InEffect
    /\ At(Saver, "password") =>
          StoredAs([enabled |-> want.config.enabled, keep |-> want.config.keep,
                  password |-> settings.password])
    /\ At(Saver, "apply") =>
          StoredAs([enabled |-> want.config.enabled, keep |-> want.config.keep,
                  password |-> NewPassword])

ClaimedOnce == claims \in {0, 1} /\ (claims = 1 => stored.date = "today")

BackupInv == /\ BackupTypeOK /\ OneAtWork /\ Protected /\ CheckedBeforePruned
             /\ CommitsFollow /\ ClaimedOnce

TaskStages == {"idle", "waiting", "creating", "inspecting", "pruning",
               "config", "password", "apply"}
LineType == line \in Seq(Tasks) /\ stage \in [Tasks -> TaskStages]

LEMMA Queued ==
    ASSUME LineType, OneAtWork, NEW t \in Tasks, running, At(t, "idle"), Queue(t),
           UNCHANGED <<running, orphan>>
    PROVE  LineType' /\ OneAtWork'
<1>1. /\ line' \in Seq(Tasks) /\ Len(line') = Len(line) + 1
      /\ DOMAIN line = 1 .. Len(line) /\ DOMAIN line' = 1 .. Len(line) + 1
      /\ \A i \in 1 .. Len(line) : line'[i] = line[i]
      /\ line'[Len(line) + 1] = t
  BY DEF LineType, Queue
<1>2. stage' = [stage EXCEPT ![t] = "waiting"] /\ stage \in [Tasks -> TaskStages]
  BY DEF LineType, Queue
<1>3. \A i \in DOMAIN line : line[i] # t
  BY DEF OneAtWork, At
<1>4. LineType'
  BY <1>1, <1>2 DEF LineType, TaskStages
<1>5. \A i, j \in DOMAIN line' : line'[i] = line'[j] => i = j
  BY <1>1, <1>3 DEF OneAtWork
<1>6. \A u \in Tasks : ~At(u, "idle")' <=> \E i \in DOMAIN line' : line'[i] = u
  <2>1. \A u \in Tasks : (\E i \in DOMAIN line' : line'[i] = u)
                            <=> u = t \/ \E i \in DOMAIN line : line[i] = u
    BY <1>1
  <2>2. \A u \in Tasks : ~At(u, "idle")' <=> u = t \/ ~At(u, "idle")
    BY <1>2 DEF At
  <2> QED BY <2>1, <2>2 DEF OneAtWork
<1>7. \A u \in Tasks : stage'[u] \notin {"idle", "waiting"} => Holds(u)'
  BY <1>1, <1>2 DEF OneAtWork, Holds, LineType
<1> QED BY <1>2, <1>4, <1>5, <1>6, <1>7 DEF OneAtWork

LEMMA Released ==
    ASSUME LineType, OneAtWork, NEW t \in Tasks, stage[t] \notin {"idle", "waiting"}, Release(t),
           UNCHANGED <<running, orphan>>
    PROVE  LineType' /\ OneAtWork'
<1>1. line # <<>> /\ line[1] = t
  BY DEF OneAtWork, Holds
<1>2. /\ line' \in Seq(Tasks) /\ Len(line) > 0
      /\ DOMAIN line = 1 .. Len(line) /\ DOMAIN line' = 1 .. Len(line) - 1
      /\ \A i \in 1 .. Len(line) - 1 : line'[i] = line[i + 1]
  BY <1>1 DEF LineType, Release
<1>3. stage' = [stage EXCEPT ![t] = "idle"] /\ stage \in [Tasks -> TaskStages]
  BY DEF LineType, Release
<1>4. LineType'
  BY <1>2, <1>3 DEF LineType, TaskStages
<1>5. \A i, j \in DOMAIN line' : line'[i] = line'[j] => i = j
  <2> SUFFICES ASSUME NEW i \in DOMAIN line', NEW j \in DOMAIN line', line'[i] = line'[j]
               PROVE  i = j
    OBVIOUS
  <2>1. i \in Nat /\ j \in Nat /\ i + 1 \in DOMAIN line /\ j + 1 \in DOMAIN line
    BY <1>2
  <2>2. line[i + 1] = line[j + 1]
    BY <1>2
  <2> QED BY <2>1, <2>2 DEF OneAtWork
<1>6. \A u \in Tasks : ~At(u, "idle")' <=> \E i \in DOMAIN line' : line'[i] = u
  <2> SUFFICES ASSUME NEW u \in Tasks
               PROVE  ~At(u, "idle")' <=> \E i \in DOMAIN line' : line'[i] = u
    OBVIOUS
  <2>1. CASE u = t
    <3>1. \A i \in DOMAIN line' : line'[i] # t
      BY <1>1, <1>2 DEF OneAtWork
    <3> QED BY <2>1, <3>1, <1>3 DEF At
  <2>2. CASE u # t
    <3>1. ~At(u, "idle")' <=> \E i \in DOMAIN line : line[i] = u
      BY <2>2, <1>3 DEF OneAtWork, At
    <3>2. (\E i \in DOMAIN line : line[i] = u) => \E i \in DOMAIN line' : line'[i] = u
      <4> SUFFICES ASSUME NEW i \in DOMAIN line, line[i] = u
                   PROVE  \E k \in DOMAIN line' : line'[k] = u
        OBVIOUS
      <4>1. i \in Nat /\ i # 1 /\ i - 1 \in 1 .. Len(line) - 1
        BY <1>1, <1>2, <2>2
      <4> QED BY <4>1, <1>2
    <3> QED BY <3>1, <3>2, <1>2
  <2> QED BY <2>1, <2>2
<1>7. \A u \in Tasks : stage'[u] \notin {"idle", "waiting"} => Holds(u)'
  BY <1>1, <1>3 DEF OneAtWork, Holds
<1> QED BY <1>2, <1>3, <1>4, <1>5, <1>6, <1>7 DEF OneAtWork

\* The first in line enters the next stage.
LEMMA Advanced ==
    ASSUME LineType, OneAtWork, NEW t \in Tasks, ~At(t, "idle"), Holds(t), NEW place \in TaskStages,
           place \in IF t = Saver THEN {"config", "password", "apply"}
                                  ELSE {"creating", "inspecting", "pruning"},
           Go(t, place), UNCHANGED <<line, running, orphan>>
    PROVE  LineType' /\ OneAtWork'
<1>1. stage' = [stage EXCEPT ![t] = place] /\ stage \in [Tasks -> TaskStages] /\ line' = line
  BY DEF LineType, Go
<1>2. LineType'
  BY <1>1 DEF LineType
<1>3. \A u \in Tasks : ~At(u, "idle")' <=> \E i \in DOMAIN line' : line'[i] = u
  BY <1>1 DEF OneAtWork, At
<1>4. \A u \in Tasks : stage'[u] \notin {"idle", "waiting"} => Holds(u)'
  BY <1>1 DEF OneAtWork, Holds
<1> QED BY <1>1, <1>2, <1>3, <1>4 DEF OneAtWork, TaskStages

\* With the process the line goes.
LEMMA AllGone ==
    ASSUME LineType, line' = <<>>, stage' = [t \in Tasks |-> "idle"], running' = FALSE
    PROVE  LineType' /\ OneAtWork'
<1>1. DOMAIN line' = {} /\ line' \in Seq(Tasks) /\ stage' \in [Tasks -> TaskStages]
  BY DEF TaskStages
<1> QED BY <1>1, TasksDiffer DEF LineType, OneAtWork, At, Holds, TaskStages, Tasks

LEMMA OthersIdle ==
    ASSUME OneAtWork, NEW t \in Tasks, stage[t] \notin {"idle", "waiting"}
    PROVE  /\ \A u \in Tasks \ {t} : stage[u] \in {"idle", "waiting"}
           /\ running /\ orphan = "none"
  BY DEF OneAtWork, Holds

-----------------------------------------------------------------------------
\* The settings are what they are stored as.
LEMMA SecretFacts ==
    /\ Environment \in [enabled : BOOLEAN, keep : Keeps, password : Secret]
    /\ \A t \in Tasks : t = Poller \/ t = Saver \/ t \in Requests
    /\ Saver \in Tasks /\ Poller \in Tasks \ {Saver} /\ Requests \subseteq Tasks \ {Saver}
    /\ \A c \in Config, p \in Secret : c # Unset /\ [config |-> c, password |-> p] # Unset
  BY KeepAtLeastOne, TasksDiffer, UnsetIsNoSetting DEF Environment, Secret, Tasks, Config

\* The invariant, but for the lines of tasks, in one piece of each sort.
LEMMA BackupInitInv == BackupInit => BackupInv
<1> SUFFICES ASSUME BackupInit PROVE BackupInv
  OBVIOUS
<1> USE SecretFacts DEF BackupInit
<1>1. BackupTypeOK
  <2>1. stored \in [config : Config \union {Unset}, password : Secret,
                   date : {"never", "before", "today"}]
    BY DEF Secret
  <2>2. line \in Seq(Tasks) /\ files \in Seq([password : Passwords, good : BOOLEAN])
    OBVIOUS
  <2> QED BY <2>1, <2>2 DEF BackupTypeOK
<1>2. OneAtWork
  BY DEF OneAtWork, At, Holds
<1>3. Protected /\ CheckedBeforePruned /\ ClaimedOnce
  BY DEF Protected, CheckedBeforePruned, ClaimedOnce, At
<1>4. CommitsFollow
  BY DEF CommitsFollow, At, Saving, InEffect, StoredAs, Effective
<1> QED BY <1>1, <1>2, <1>3, <1>4 DEF BackupInv

LEMMA PollInv == ASSUME BackupInv, Poll PROVE BackupInv'
<1> USE SecretFacts DEF BackupInv, Poll
<1>1. LineType' /\ OneAtWork'
  BY Queued DEF BackupTypeOK, LineType, TaskStages
<1>2. BackupTypeOK'
  <2>1. stored' \in [config : Config \union {Unset}, password : Secret,
                    date : {"never", "before", "today"}] /\ claims' \in Nat
    BY DEF BackupTypeOK
  <2> QED BY <1>1, <2>1 DEF BackupTypeOK, LineType, TaskStages
<1>3. Protected'
  BY DEF Protected
<1>4. CheckedBeforePruned'
  BY DEF CheckedBeforePruned, BackupTypeOK, Queue, At
<1>5. CommitsFollow'
  BY DEF CommitsFollow, BackupTypeOK, Queue, At, Saving, InEffect, StoredAs, Effective, NewPassword
<1>6. ClaimedOnce'
  BY DEF ClaimedOnce, BackupTypeOK
<1> QED BY <1>1, <1>2, <1>3, <1>4, <1>5, <1>6

LEMMA RunNowInv == ASSUME BackupInv, NEW r \in Requests, RunNow(r) PROVE BackupInv'
<1> USE SecretFacts DEF BackupInv, RunNow, settingsVars
<1>1. LineType' /\ OneAtWork'
  BY Queued DEF BackupTypeOK, LineType, TaskStages
<1>2. BackupTypeOK'
  BY <1>1 DEF BackupTypeOK, LineType, TaskStages
<1>3. Protected'
  BY DEF Protected
<1>4. CheckedBeforePruned'
  BY DEF CheckedBeforePruned, BackupTypeOK, Queue, At
<1>5. CommitsFollow'
  BY DEF CommitsFollow, BackupTypeOK, Queue, At, Saving, InEffect, StoredAs, Effective, NewPassword
<1>6. ClaimedOnce'
  BY DEF ClaimedOnce
<1> QED BY <1>1, <1>2, <1>3, <1>4, <1>5, <1>6

LEMMA EnterInv == ASSUME BackupInv, NEW t \in Tasks, Enter(t) PROVE BackupInv'
<1> USE SecretFacts DEF BackupInv, Enter, settingsVars
<1> DEFINE place == IF t = Saver THEN "config" ELSE "creating"
<1>1. LineType' /\ OneAtWork'
  <2>1. place \in TaskStages /\ ~At(t, "idle") /\ Go(t, place)
    BY DEF TaskStages, At
  <2> QED BY <2>1, Advanced DEF BackupTypeOK, LineType, TaskStages
<1>2. BackupTypeOK'
  BY <1>1 DEF BackupTypeOK, LineType, TaskStages
<1>3. Protected'
  BY DEF Protected, BackupTypeOK, Go, At
<1>4. CheckedBeforePruned'
  BY DEF CheckedBeforePruned, BackupTypeOK, Go, At
<1>5. CommitsFollow'
  <2>1. stage' = [stage EXCEPT ![t] = place] /\ stage \in [Tasks -> TaskStages]
    BY DEF Go, BackupTypeOK, TaskStages
  <2>2. InEffect' <=> InEffect
    BY DEF InEffect, StoredAs, Effective
  <2>3. CASE t = Saver
    <3>1. running
      BY DEF OneAtWork, Holds
    <3> QED BY <2>1, <2>2, <2>3, <3>1 DEF CommitsFollow, At, Saving
  <2>4. CASE t # Saver
    BY <2>1, <2>2, <2>4 DEF CommitsFollow, At, Saving, InEffect, StoredAs, Effective, NewPassword
  <2> QED BY <2>3, <2>4
<1>6. ClaimedOnce'
  BY DEF ClaimedOnce
<1> QED BY <1>1, <1>2, <1>3, <1>4, <1>5, <1>6

LEMMA Element ==
    ASSUME NEW S, NEW q \in Seq(S), NEW i \in DOMAIN q
    PROVE  q[i] \in S /\ q # <<>>
  OBVIOUS

\* One more archive, as the task at work and the thread left behind write it.
LEMMA Written ==
    ASSUME BackupTypeOK, CheckedBeforePruned, settings.password # Unset,
           NEW good \in BOOLEAN, Write(good)
    PROVE  /\ files' \in Seq([password : Passwords, good : BOOLEAN]) /\ files' # <<>>
           /\ secured => \E i \in DOMAIN files' : files'[i].good
<1> DEFINE new == [password |-> settings.password, good |-> good]
<1>1. new \in [password : Passwords, good : BOOLEAN]
  BY DEF BackupTypeOK, Secret
<1>2. /\ files' = Append(files, new) /\ files' \in Seq([password : Passwords, good : BOOLEAN])
      /\ \A i \in DOMAIN files : i \in DOMAIN files' /\ files'[i] = files[i]
  BY <1>1 DEF BackupTypeOK, Write
<1>3. files' # <<>>
  BY <1>1, <1>2 DEF BackupTypeOK
<1>4. secured => \E i \in DOMAIN files' : files'[i].good
  BY <1>2 DEF CheckedBeforePruned
<1> QED BY <1>2, <1>3, <1>4

\* One archive less: the newest is still there, for at least one is kept.
LEMMA Pruned ==
    ASSUME BackupTypeOK, files # <<>>, files[Len(files)].good, Surplus, files' = Tail(files)
    PROVE  /\ files' \in Seq([password : Passwords, good : BOOLEAN])
           /\ files' # <<>> /\ files'[Len(files')].good
           /\ \E i \in DOMAIN files' : files'[i].good
<1>1. settings.keep \in Nat \ {0}
  BY KeepAtLeastOne DEF BackupTypeOK
<1>2. Len(files) \in Nat /\ Len(files) > 1
  BY <1>1 DEF Surplus, BackupTypeOK
<1>3. /\ files' \in Seq([password : Passwords, good : BOOLEAN])
      /\ Len(files') = Len(files) - 1 /\ DOMAIN files' = 1 .. Len(files) - 1
      /\ files'[Len(files')] = files[Len(files)]
  BY <1>2 DEF BackupTypeOK
<1>4. Len(files') \in DOMAIN files'
  BY <1>2, <1>3
<1>5. files' # <<>>
  BY <1>3, <1>4, Element
<1>6. files'[Len(files')].good
  BY <1>3
<1> QED BY <1>3, <1>4, <1>5, <1>6

LEMMA CreateInv == ASSUME BackupInv, NEW t \in Tasks, Create(t) PROVE BackupInv'
<1> USE SecretFacts DEF BackupInv, Create, settingsVars
<1>1. t # Saver /\ stage[t] = "creating" /\ Holds(t)
  BY DEF OneAtWork, At
<1>2. LineType' /\ OneAtWork'
  <2>1. "inspecting" \in TaskStages /\ ~At(t, "idle") /\ Go(t, "inspecting")
    BY <1>1 DEF TaskStages, At
  <2> QED BY <2>1, <1>1, Advanced DEF BackupTypeOK, LineType, TaskStages
<1>3. settings.password # Unset
  BY <1>1 DEF Protected, At
<1>4. /\ files' \in Seq([password : Passwords, good : BOOLEAN]) /\ files' # <<>>
      /\ secured => \E i \in DOMAIN files' : files'[i].good
  BY <1>3, Written
<1>5. BackupTypeOK'
  BY <1>2, <1>4 DEF BackupTypeOK, LineType, TaskStages
<1>6. Protected'
  BY <1>1 DEF Protected, BackupTypeOK, Go, At
<1>7. CheckedBeforePruned'
  <2>1. \A u \in Tasks : ~At(u, "pruning")'
    BY <1>1, OthersIdle DEF BackupTypeOK, Go, At
  <2> QED BY <1>1, <1>4, <2>1, OthersIdle DEF CheckedBeforePruned
<1>8. CommitsFollow'
  BY <1>1 DEF CommitsFollow, BackupTypeOK, Go, At, Saving, InEffect, StoredAs, Effective, NewPassword
<1>9. ClaimedOnce'
  BY DEF ClaimedOnce
<1> QED BY <1>2, <1>5, <1>6, <1>7, <1>8, <1>9

LEMMA InspectInv == ASSUME BackupInv, NEW t \in Tasks, Inspect(t) PROVE BackupInv'
<1> USE SecretFacts DEF BackupInv, Inspect, settingsVars
<1>1. t # Saver /\ stage[t] = "inspecting" /\ Holds(t)
  BY DEF OneAtWork, At
<1>2. LineType' /\ OneAtWork'
  <2>1. "pruning" \in TaskStages /\ ~At(t, "idle") /\ Go(t, "pruning")
    BY <1>1 DEF TaskStages, At
  <2> QED BY <2>1, <1>1, Advanced DEF BackupTypeOK, LineType, TaskStages
<1>3. files # <<>> /\ files[Len(files)].good
  BY <1>1 DEF CheckedBeforePruned, Opens, Reads, At
<1>4. BackupTypeOK'
  BY <1>2 DEF BackupTypeOK, LineType, TaskStages
<1>5. Protected'
  BY <1>1 DEF Protected, BackupTypeOK, Go, At
<1>6. CheckedBeforePruned'
  <2>1. Len(files) \in DOMAIN files
    BY <1>3 DEF BackupTypeOK
  <2>2. \A u \in Tasks : At(u, "inspecting")' => At(u, "inspecting")
    BY DEF BackupTypeOK, Go, At
  <2> QED BY <1>3, <2>1, <2>2 DEF CheckedBeforePruned
<1>7. CommitsFollow'
  BY <1>1 DEF CommitsFollow, BackupTypeOK, Go, At, Saving, InEffect, StoredAs, Effective, NewPassword
<1>8. ClaimedOnce'
  BY DEF ClaimedOnce
<1> QED BY <1>2, <1>4, <1>5, <1>6, <1>7, <1>8

LEMMA PruneInv == ASSUME BackupInv, NEW t \in Tasks, Prune(t) PROVE BackupInv'
<1> USE SecretFacts DEF BackupInv, Prune, settingsVars
<1>1. files # <<>> /\ files[Len(files)].good
  BY DEF CheckedBeforePruned
<1>2. /\ files' \in Seq([password : Passwords, good : BOOLEAN])
      /\ files' # <<>> /\ files'[Len(files')].good
      /\ \E i \in DOMAIN files' : files'[i].good
  BY <1>1, Pruned
<1>3. BackupTypeOK'
  BY <1>2 DEF BackupTypeOK
<1>4. OneAtWork' /\ Protected' /\ ClaimedOnce'
  BY DEF OneAtWork, Protected, ClaimedOnce, At, Holds
<1>5. CheckedBeforePruned'
  BY <1>2 DEF CheckedBeforePruned
<1>6. CommitsFollow'
  BY DEF CommitsFollow, Saving, InEffect, StoredAs, Effective, NewPassword, At
<1> QED BY <1>3, <1>4, <1>5, <1>6

LEMMA FinishInv == ASSUME BackupInv, NEW t \in Tasks, Finish(t) PROVE BackupInv'
<1> USE SecretFacts DEF BackupInv, Finish, settingsVars
<1>1. t # Saver /\ stage[t] \notin {"idle", "waiting"}
  BY DEF OneAtWork, At
<1>2. LineType' /\ OneAtWork'
  BY <1>1, Released DEF BackupTypeOK, LineType, TaskStages
<1>3. BackupTypeOK'
  BY <1>2 DEF BackupTypeOK, LineType, TaskStages
<1>4. Protected'
  BY <1>1 DEF Protected, BackupTypeOK, Release, At
<1>5. CheckedBeforePruned'
  BY DEF CheckedBeforePruned, BackupTypeOK, Release, At
<1>6. CommitsFollow'
  BY <1>1 DEF CommitsFollow, BackupTypeOK, Release, At, Saving, InEffect, StoredAs, Effective, NewPassword
<1>7. ClaimedOnce'
  BY DEF ClaimedOnce
<1> QED BY <1>2, <1>3, <1>4, <1>5, <1>6, <1>7

LEMMA SaveInv ==
    ASSUME BackupInv, NEW c \in Config, NEW p \in Secret, Save(c, p)
    PROVE  BackupInv'
<1> USE SecretFacts DEF BackupInv, Save
<1>1. LineType' /\ OneAtWork'
  BY Queued DEF BackupTypeOK, LineType, TaskStages
<1>2. BackupTypeOK'
  <2>1. want' \in [config : Config, password : Secret]
    OBVIOUS
  <2> QED BY <1>1, <2>1 DEF BackupTypeOK, LineType, TaskStages
<1>3. stage' = [stage EXCEPT ![Saver] = "waiting"] /\ stage \in [Tasks -> TaskStages]
  BY DEF Queue, BackupTypeOK, TaskStages
<1>4. Protected'
  BY <1>3 DEF Protected, At
<1>5. CheckedBeforePruned'
  BY <1>3 DEF CheckedBeforePruned, At
<1>6. CommitsFollow'
  <2>1. InEffect' <=> InEffect
    BY DEF InEffect, StoredAs, Effective
  <2> QED BY <1>3, <2>1 DEF CommitsFollow, At, Saving
<1>7. ClaimedOnce'
  BY DEF ClaimedOnce
<1> QED BY <1>1, <1>2, <1>4, <1>5, <1>6, <1>7

\* What the saver works on is a record, while it works.
LEMMA Wanted ==
    ASSUME BackupInv, ~At(Saver, "idle")
    PROVE  /\ want \in [config : Config, password : Secret] /\ want # Unset
           /\ NewPassword \in Secret /\ running /\ orphan = "none"
           /\ settings.password # Unset => NewPassword # Unset
  BY SecretFacts DEF BackupInv, CommitsFollow, OneAtWork, BackupTypeOK, NewPassword, At, Secret

LEMMA StoreConfigInv == ASSUME BackupInv, StoreConfig PROVE BackupInv'
<1> USE SecretFacts DEF BackupInv, StoreConfig
<1> DEFINE refused == want.config.enabled /\ NewPassword = Unset
<1>0. ~At(Saver, "idle") /\ ~At(Saver, "waiting") /\ Holds(Saver)
  BY DEF At, OneAtWork
<1>1. /\ want \in [config : Config, password : Secret] /\ want # Unset
      /\ NewPassword \in Secret /\ running /\ orphan = "none"
  BY <1>0, Wanted
<1>2. LineType' /\ OneAtWork'
  <2>1. CASE refused
    BY <2>1, <1>0, Released DEF BackupTypeOK, LineType, TaskStages, At
  <2>2. CASE ~refused
    <3>1. "password" \in TaskStages /\ Go(Saver, "password") /\ line' = line
      BY <2>2 DEF TaskStages
    <3> QED BY <3>1, <1>0, Advanced DEF BackupTypeOK, LineType, TaskStages
  <2> QED BY <2>1, <2>2
<1>3. BackupTypeOK'
  <2>1. stored' \in [config : Config \union {Unset}, password : Secret,
                     date : {"never", "before", "today"}]
    BY <1>1 DEF BackupTypeOK
  <2>2. want' \in {Unset} \union [config : Config, password : Secret]
    BY <1>1
  <2> QED BY <1>2, <2>1, <2>2 DEF BackupTypeOK, LineType, TaskStages
<1>4. /\ stage \in [Tasks -> TaskStages]
      /\ stage' = [stage EXCEPT ![Saver] = IF refused THEN "idle" ELSE "password"]
  BY DEF Go, Release, BackupTypeOK, TaskStages
<1>5. Protected'
  BY <1>4 DEF Protected, At
<1>6. CheckedBeforePruned'
  BY <1>4 DEF CheckedBeforePruned, At
<1>7. CommitsFollow'
  <2>0. InEffect
    BY DEF CommitsFollow
  <2>1. CASE refused
    BY <2>0, <2>1, <1>4 DEF CommitsFollow, At, Saving, InEffect, StoredAs
  <2>2. CASE ~refused
    <3>1. stored' = [stored EXCEPT !.config = want.config] /\ want' = want
      BY <2>2
    <3>2. stored'.config = want.config /\ stored'.password = stored.password
          /\ want.config # Unset
      BY <3>1, <1>1 DEF BackupTypeOK
    <3>3. StoredAs([enabled |-> want.config.enabled, keep |-> want.config.keep,
                  password |-> settings.password])'
      BY <2>0, <3>1, <3>2 DEF InEffect, StoredAs, Effective
    <3> QED BY <2>2, <3>1, <3>3, <1>1, <1>4 DEF CommitsFollow, At, Saving
  <2> QED BY <2>1, <2>2
<1>8. ClaimedOnce'
  BY DEF ClaimedOnce, BackupTypeOK
<1> QED BY <1>2, <1>3, <1>5, <1>6, <1>7, <1>8

LEMMA StorePasswordInv == ASSUME BackupInv, StorePassword PROVE BackupInv'
<1> USE SecretFacts DEF BackupInv, StorePassword
<1>0. ~At(Saver, "idle") /\ ~At(Saver, "waiting") /\ Holds(Saver)
  BY DEF At, OneAtWork
<1>1. /\ want \in [config : Config, password : Secret] /\ want # Unset
      /\ NewPassword \in Secret /\ running /\ orphan = "none"
  BY <1>0, Wanted
<1>2. LineType' /\ OneAtWork'
  <2>1. "apply" \in TaskStages
    BY DEF TaskStages
  <2> QED BY <2>1, <1>0, Advanced DEF BackupTypeOK, LineType, TaskStages
<1>3. BackupTypeOK'
  <2>1. stored' \in [config : Config \union {Unset}, password : Secret,
                     date : {"never", "before", "today"}]
    BY <1>1 DEF BackupTypeOK
  <2> QED BY <1>2, <2>1 DEF BackupTypeOK, LineType, TaskStages
<1>4. stage \in [Tasks -> TaskStages] /\ stage' = [stage EXCEPT ![Saver] = "apply"]
  BY DEF Go, BackupTypeOK, TaskStages
<1>5. Protected' /\ CheckedBeforePruned'
  BY <1>4 DEF Protected, CheckedBeforePruned, At
<1>6. CommitsFollow'
  <2>1. StoredAs([enabled |-> want.config.enabled, keep |-> want.config.keep,
                password |-> settings.password])
    BY DEF CommitsFollow
  <2>2. /\ stored'.config = stored.config
        /\ stored'.password = IF want.password = Unset THEN stored.password ELSE want.password
    BY DEF BackupTypeOK
  <2>3. Effective(stored, Environment)'.password = NewPassword
    BY <2>1, <2>2 DEF InEffect, StoredAs, Effective, NewPassword
  <2>4. StoredAs([enabled |-> want.config.enabled, keep |-> want.config.keep,
                password |-> NewPassword])'
    BY <2>1, <2>2, <2>3 DEF InEffect, StoredAs, Effective, NewPassword
  <2> QED BY <2>4, <1>1, <1>4 DEF CommitsFollow, At, Saving
<1>7. ClaimedOnce'
  BY DEF ClaimedOnce, BackupTypeOK
<1> QED BY <1>2, <1>3, <1>5, <1>6, <1>7

LEMMA ApplyInv == ASSUME BackupInv, Apply PROVE BackupInv'
<1> USE SecretFacts DEF BackupInv, Apply, TakeEffect
<1>0. ~At(Saver, "idle") /\ ~At(Saver, "waiting")
  BY DEF At
<1>1. /\ want \in [config : Config, password : Secret] /\ want # Unset
      /\ NewPassword \in Secret /\ running /\ orphan = "none"
      /\ settings.password # Unset => NewPassword # Unset
  BY <1>0, Wanted
<1>2. LineType' /\ OneAtWork'
  BY <1>0, Released DEF BackupTypeOK, LineType, TaskStages, At
<1>3. BackupTypeOK'
  <2>1. stored' \in [config : Config \union {Unset}, password : Secret,
                     date : {"never", "before", "today"}]
    BY DEF BackupTypeOK
  <2>2. settings' \in [enabled : BOOLEAN, keep : Keeps, password : Secret]
    BY <1>1 DEF Config
  <2> QED BY <1>2, <2>1, <2>2 DEF BackupTypeOK, LineType, TaskStages
<1>4. stage \in [Tasks -> TaskStages] /\ stage' = [stage EXCEPT ![Saver] = "idle"]
  BY DEF Release, BackupTypeOK, TaskStages
<1>5. Protected'
  BY <1>1, <1>4 DEF Protected, At
<1>6. CheckedBeforePruned'
  BY <1>4 DEF CheckedBeforePruned, At
<1>7. CommitsFollow'
  <2>1. Effective(stored, Environment) = settings'
    BY DEF CommitsFollow, StoredAs
  <2>2. stored'.config = stored.config /\ stored'.password = stored.password
    BY DEF BackupTypeOK
  <2>3. InEffect'
    BY <2>1, <2>2 DEF InEffect, StoredAs, Effective
  <2> QED BY <2>3, <1>4 DEF CommitsFollow, At, Saving
<1>8. ClaimedOnce'
  BY DEF ClaimedOnce
<1> QED BY <1>2, <1>3, <1>5, <1>6, <1>7, <1>8

\* A commit of the saver raises.
LEMMA CommitRaisesInv == ASSUME BackupInv, CommitRaises PROVE BackupInv'
<1> USE SecretFacts DEF BackupInv, CommitRaises, TakeEffect
<1>0. ~At(Saver, "idle") /\ ~At(Saver, "waiting")
  BY DEF At
<1>1. /\ want \in [config : Config, password : Secret] /\ want # Unset
      /\ NewPassword \in Secret /\ running /\ orphan = "none"
      /\ settings.password # Unset => NewPassword # Unset
  BY <1>0, Wanted
<1>2. LineType' /\ OneAtWork'
  BY <1>0, Released DEF BackupTypeOK, LineType, TaskStages, At
<1>3. BackupTypeOK'
  <2>1. settings' \in [enabled : BOOLEAN, keep : Keeps, password : Secret]
    BY <1>1 DEF Config, BackupTypeOK
  <2>2. partly' \in BOOLEAN /\ due' \in BOOLEAN
    BY DEF BackupTypeOK
  <2> QED BY <1>2, <2>1, <2>2 DEF BackupTypeOK, LineType, TaskStages
<1>4. stage \in [Tasks -> TaskStages] /\ stage' = [stage EXCEPT ![Saver] = "idle"]
  BY DEF Release, BackupTypeOK, TaskStages
<1>5. Protected'
  BY <1>1, <1>4 DEF Protected, At
<1>6. CheckedBeforePruned'
  BY <1>4 DEF CheckedBeforePruned, At
<1>7. CommitsFollow'
  <2>1. CASE At(Saver, "config")
    <3>1. InEffect'
      BY <2>1 DEF CommitsFollow, InEffect, StoredAs, Effective, At
    <3> QED BY <3>1, <1>4 DEF CommitsFollow, At, Saving
  <2>2. CASE At(Saver, "password")
    <3>1. InEffect'
      BY <2>2 DEF CommitsFollow, InEffect, StoredAs, At
    <3> QED BY <3>1, <1>4 DEF CommitsFollow, At, Saving
  <2>3. CASE At(Saver, "apply")
    <3>1. Effective(stored, Environment) = settings'
      BY <2>3 DEF CommitsFollow, StoredAs, At
    <3>2. InEffect'
      BY <3>1 DEF InEffect, StoredAs, Effective
    <3> QED BY <3>2, <1>4 DEF CommitsFollow, At, Saving
  <2> QED BY <2>1, <2>2, <2>3
<1>8. ClaimedOnce'
  BY DEF ClaimedOnce
<1> QED BY <1>2, <1>3, <1>5, <1>6, <1>7, <1>8

LEMMA InitializeInv == ASSUME BackupInv, Initialize PROVE BackupInv'
<1> USE SecretFacts DEF BackupInv, Initialize
<1>1. \A t \in Tasks : At(t, "idle")
  BY DEF OneAtWork
<1>2. Effective(stored, Environment) \in [enabled : BOOLEAN, keep : Keeps, password : Secret]
  <2>1. stored.password \in Secret /\ stored.config \in Config \union {Unset}
    BY DEF BackupTypeOK
  <2> QED BY <2>1 DEF Effective, Config
<1>3. BackupTypeOK'
  BY <1>2 DEF BackupTypeOK
<1>4. OneAtWork'
  BY <1>1 DEF OneAtWork, At, Holds
<1>5. Protected' /\ ClaimedOnce' /\ CheckedBeforePruned'
  BY <1>1 DEF Protected, ClaimedOnce, CheckedBeforePruned, At
<1>6. CommitsFollow'
  BY <1>1 DEF CommitsFollow, Saving, InEffect, StoredAs, Effective, NewPassword, At
<1> QED BY <1>3, <1>4, <1>5, <1>6

LEMMA StopInv == ASSUME BackupInv, Stop PROVE BackupInv'
<1> USE SecretFacts DEF BackupInv, Stop, settingsVars
<1>1. LineType' /\ OneAtWork'
  BY AllGone DEF BackupTypeOK, LineType, TaskStages
<1>2. BackupTypeOK'
  BY <1>1 DEF BackupTypeOK, LineType, TaskStages
<1>3. \A t \in Tasks : At(t, "idle")'
  BY DEF At
<1>4. Protected'
  BY <1>3 DEF Protected, At
<1>5. CheckedBeforePruned'
  BY <1>3 DEF CheckedBeforePruned, At
<1>6. CommitsFollow'
  BY <1>3 DEF CommitsFollow, Saving, At
<1>7. ClaimedOnce'
  BY DEF ClaimedOnce
<1> QED BY <1>1, <1>2, <1>4, <1>5, <1>6, <1>7

LEMMA KillInv == ASSUME BackupInv, Kill PROVE BackupInv'
<1> USE SecretFacts DEF BackupInv, Kill
<1>1. LineType' /\ OneAtWork'
  BY AllGone DEF BackupTypeOK, LineType, TaskStages
<1>2. BackupTypeOK'
  BY <1>1 DEF BackupTypeOK, LineType, TaskStages
<1>3. \A t \in Tasks : At(t, "idle")'
  BY DEF At
<1>4. Protected' /\ CheckedBeforePruned' /\ ClaimedOnce'
  BY <1>3 DEF Protected, CheckedBeforePruned, ClaimedOnce, At
<1>5. CommitsFollow'
  BY <1>3 DEF CommitsFollow, Saving, At
<1> QED BY <1>1, <1>2, <1>4, <1>5

LEMMA OrphanWorksInv == ASSUME BackupInv, OrphanWorks PROVE BackupInv'
<1> USE SecretFacts DEF BackupInv, OrphanWorks, settingsVars
<1>0. \A t \in Tasks : At(t, "idle")
  BY DEF OneAtWork, At
<1>1. /\ files' \in Seq([password : Passwords, good : BOOLEAN])
      /\ secured => \E i \in DOMAIN files' : files'[i].good
      /\ orphan' = "pruning" => files' # <<>> /\ files'[Len(files')].good
  <2>1. CASE orphan = "creating"
    BY <2>1, Written DEF Protected
  <2>2. CASE orphan = "pruning"
    <3>1. files # <<>> /\ files[Len(files)].good
      BY <2>2 DEF CheckedBeforePruned
    <3>2. CASE Surplus
      BY <2>2, <3>1, <3>2, Pruned
    <3>3. CASE ~Surplus
      BY <2>2, <3>1, <3>3 DEF CheckedBeforePruned, BackupTypeOK
    <3> QED BY <3>2, <3>3
  <2> QED BY <2>1, <2>2
<1>2. BackupTypeOK' /\ OneAtWork'
  BY <1>1 DEF BackupTypeOK, OneAtWork, At, Holds
<1>3. Protected' /\ ClaimedOnce'
  BY DEF Protected, ClaimedOnce, At
<1>4. CheckedBeforePruned'
  BY <1>0, <1>1 DEF CheckedBeforePruned, At
<1>5. CommitsFollow'
  BY DEF CommitsFollow, Saving, InEffect, StoredAs, Effective, NewPassword, At
<1> QED BY <1>2, <1>3, <1>4, <1>5

\* The daily time comes, or midnight.
LEMMA TimePassesInv == ASSUME BackupInv, DailyTime \/ Midnight PROVE BackupInv'
<1> USE SecretFacts DEF BackupInv, DailyTime, Midnight, settingsVars
<1>1. /\ stored' \in [config : Config \union {Unset}, password : Secret,
                      date : {"never", "before", "today"}]
      /\ stored'.config = stored.config /\ stored'.password = stored.password
  BY DEF BackupTypeOK
<1>2. BackupTypeOK'
  <2>1. CASE DailyTime
    BY <1>1, <2>1 DEF BackupTypeOK
  <2>2. CASE Midnight
    BY <1>1, <2>2 DEF BackupTypeOK
  <2> QED BY <2>1, <2>2
<1>3. OneAtWork'
  BY DEF OneAtWork, At, Holds
<1>4. Protected' /\ CheckedBeforePruned' /\ ClaimedOnce'
  BY DEF Protected, CheckedBeforePruned, ClaimedOnce, At
<1>5. CommitsFollow'
  BY <1>1 DEF CommitsFollow, Saving, InEffect, StoredAs, Effective, NewPassword, At
<1> QED BY <1>2, <1>3, <1>4, <1>5

LEMMA BackupNextInv == BackupInv /\ [BackupNext]_backupVars => BackupInv'
<1> SUFFICES ASSUME BackupInv, [BackupNext]_backupVars PROVE BackupInv'
  OBVIOUS
<1>1. CASE Poll \/ \E r \in Requests : RunNow(r)
  BY <1>1, PollInv, RunNowInv
<1>2. CASE StoreConfig \/ StorePassword \/ Apply \/ CommitRaises
  BY <1>2, StoreConfigInv, StorePasswordInv, ApplyInv, CommitRaisesInv
<1>3. CASE \E t \in Tasks : Enter(t) \/ Create(t) \/ Inspect(t) \/ Prune(t) \/ Finish(t)
  BY <1>3, EnterInv, CreateInv, InspectInv, PruneInv, FinishInv
<1>4. CASE \E c \in Config, p \in Passwords \union {Unset} : Save(c, p)
  BY <1>4, SaveInv DEF Secret
<1>5. CASE Initialize \/ Stop \/ OrphanWorks \/ Kill \/ DailyTime \/ Midnight
  BY <1>5, InitializeInv, StopInv, OrphanWorksInv, KillInv, TimePassesInv
<1>6. CASE UNCHANGED backupVars
  <2> USE <1>6 DEF backupVars, BackupInv
  <2>1. BackupTypeOK' /\ OneAtWork'
    BY DEF BackupTypeOK, OneAtWork, At, Holds
  <2>2. Protected' /\ CheckedBeforePruned' /\ ClaimedOnce'
    BY DEF Protected, CheckedBeforePruned, ClaimedOnce, At
  <2>3. CommitsFollow'
    BY DEF CommitsFollow, Saving, InEffect, StoredAs, Effective, NewPassword, At
  <2> QED BY <2>1, <2>2, <2>3
<1> QED BY <1>1, <1>2, <1>3, <1>4, <1>5, <1>6 DEF BackupNext

\* One holder of the run lock at a time, a new archive is checked before older ones are
\* removed, a claim names the day of the last claim, and what is committed follows what is
\* stored (BackupService and BackupCoordinator).
THEOREM BackupsStayConsistent == BackupSpec => []BackupInv
  BY BackupInitInv, BackupNextInv, PTL DEF BackupSpec

\* Retention, failed and interrupted backups, changed passwords and a thread that
\* outlives its task never leave only archives nobody has checked.  The password in effect
\* is the one stored, and so is the rest but after a save that raised in the commit of a
\* new password (BackupService.create_now, _prune, update_settings, initialize;
\* stop() of the coordinator).
THEOREM ArchivesStaySafe == BackupSpec => []ArchivesSafe
<1>1. BackupInv => ArchivesSafe
  <2> SUFFICES ASSUME BackupInv PROVE ArchivesSafe
    OBVIOUS
  <2>1. want = Unset => ~Saving
    BY DEF BackupInv, CommitsFollow, Saving, At
  <2> QED BY <2>1 DEF BackupInv, ArchivesSafe, CheckedBeforePruned, CommitsFollow, InEffect, StoredAs
<1> QED BY <1>1, BackupsStayConsistent, PTL

\* Between two changes of the settings the backup of a day is claimed at most once
\* (BackupService.run_if_due).
THEOREM OneBackupPerDay == BackupSpec => []OncePerDay
<1>1. BackupInv => OncePerDay
  BY DEF BackupInv, ClaimedOnce, OncePerDay
<1> QED BY <1>1, BackupsStayConsistent, PTL
=============================================================================
