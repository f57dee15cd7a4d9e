----------------------------- MODULE Schedules -----------------------------
(***************************************************************************)
(* core/services/schedules.py: ScheduleService and ScheduleCoordinator,    *)
(* with the executor (run_account) and the notifier (notify_final_result)  *)
(* that web/app.py gives them.                                             *)
(*                                                                         *)
(* Time is relative: the clock shows the tick of the day, and next_run_at  *)
(* and the deadlines are counted from now.  A job that can go on does so   *)
(* before the clock moves (the poll interval and the push time out within  *)
(* one tick).  A day has the same length all year.                         *)
(***************************************************************************)
EXTENDS Integers, FiniteSets, Functions

CONSTANTS Accounts,  \* the account identifiers
          Jobs,      \* the asyncio tasks the coordinator may have at once
          Day,       \* ticks of a day
          Times,     \* the daily times a user may choose, within 0 .. Day - 1
          Jitters,   \* the random delays a user may choose
          Retries,   \* the numbers of retries a user may choose
          Delay,     \* ticks between two attempts
          Work,      \* the longest attempt, the wait at the account gate included
          None       \* no row, no job, no status

ASSUME TicksAreCounted ==
    /\ Day \in Nat \ {0} /\ Delay \in Nat \ {0} /\ Work \in Nat
    /\ Times \subseteq 0 .. Day - 1
    /\ Jitters \subseteq 0 .. Day  \* at most 180 minutes in the code
    /\ Retries \subseteq Nat

VARIABLES clock,    \* the tick of the day
          up,       \* the service runs: initialize() has run, the poll loop is alive
          account,  \* [Accounts -> "enabled", "disabled" or "gone"]
          row,      \* [Accounts -> its row of the table "schedules", or None]
          job,      \* [Jobs -> a job of the coordinator, or None]
          calm,     \* the accounts left alone since their last HH:MM
          served,   \* [Accounts -> claims since the last HH:MM of the row]
          beat      \* [Accounts -> ticks since the last push, or Never]

vars == <<clock, up, account, row, job, calm, served, beat>>

Never == -1

Window(r) == r.retries * Delay + (r.retries + 1) * Work
Longest(r) == Day + r.jitter + Window(r)

Pick(S) == {None} \union S
Stages == {"queued", "running", "sleeping", "notifying"}

Row == [enabled : BOOLEAN, time : Times, jitter : Jitters, retries : Retries,
        next : Never .. 2 * Day, status : {None, "ok", "failed"}]
Job == [account : Accounts, row : BOOLEAN, retries : Retries, attempt : Nat \ {0},
        stage : Stages, wake : Nat]

ASSUME NoneIsNothing == None \notin Row /\ None \notin Job

\* Ticks from now to the next HH:MM: local_run <= local_now means tomorrow.
WaitUntilTomorrowLate(time) == IF time >= clock THEN time - clock ELSE Day + time - clock
WaitUntil(time) == IF time > clock THEN time - clock ELSE Day + time - clock

\* _next_run: the outcomes of the random jitter.
NextRun(time, jitter) == {WaitUntil(time) + j : j \in 0 .. jitter}

JobsOf(a) == {i \in Jobs : job[i] # None /\ job[i].account = a}
Running(a) == \E i \in JobsOf(a) : job[i].stage = "running"
Healthy(a) == up /\ account[a] = "enabled" /\ row[a] # None /\ row[a].enabled

\* A database with active schedules that were never initialised is a legal start.
Init == /\ clock = 0
        /\ up = FALSE
        /\ account = [a \in Accounts |-> "enabled"]
        /\ row \in [Accounts -> Pick({[enabled |-> TRUE, time |-> t, jitter |-> j,
                       retries |-> n, next |-> Never, status |-> None] :
                         t \in Times, j \in Jitters, n \in Retries})]
        /\ job = [i \in Jobs |-> None]
        /\ calm = {}
        /\ served = [a \in Accounts |-> 0]
        /\ beat = [a \in Accounts |-> Never]

\* What the statements about undisturbed accounts no longer cover.
Disturb(a) == calm' = calm \ {a} /\ beat' = [beat EXCEPT ![a] = Never]

-----------------------------------------------------------------------------
\* lifespan: scheduler.start() initialises what has no next run, then polls.
Start ==
    /\ ~up
    /\ up' = TRUE
    /\ LET Fresh == {a \in Accounts : row[a] # None /\ row[a].enabled /\ row[a].next = Never}
       IN  \E n \in [Fresh -> 0 .. 2 * Day] :
             /\ \A a \in Fresh : n[a] \in NextRun(row[a].time, row[a].jitter)
             /\ row' = [a \in Accounts |->
                          IF a \in Fresh THEN [row[a] EXCEPT !.next = n[a]] ELSE row[a]]
    /\ UNCHANGED <<clock, account, job, calm, served, beat>>

\* stop() cancels the loop and every job; a crash has the same outcome, since a job
\* exists in memory only.
Down ==
    /\ up
    /\ up' = FALSE
    /\ job' = [i \in Jobs |-> None]
    /\ calm' = {}
    /\ beat' = [a \in Accounts |-> Never]
    /\ UNCHANGED <<clock, account, row, served>>

\* PUT /schedule: upsert.  (No more edits than Jobs has room for.)
Upsert(a, enabled, t, j, n) ==
    /\ up /\ account[a] # "gone"
    /\ Cardinality(JobsOf(a)) < 2
    /\ \E next \in IF enabled THEN NextRun(t, j) ELSE {Never} :
         row' = [row EXCEPT ![a] =
                   [enabled |-> enabled, time |-> t, jitter |-> j, retries |-> n, next |-> next,
                    status |-> IF row[a] = None THEN None ELSE row[a].status]]
    /\ served' = [served EXCEPT ![a] = 0]
    /\ Disturb(a)
    /\ UNCHANGED <<clock, up, account, job>>

\* The jobs of a deleted row keep its id, which record_status no longer finds.
Orphan(a) == [i \in Jobs |-> IF i \in JobsOf(a) THEN [job[i] EXCEPT !.row = FALSE] ELSE job[i]]

\* DELETE /schedule: delete_for_account.
DeleteSchedule(a) ==
    /\ up /\ row[a] # None
    /\ row' = [row EXCEPT ![a] = None]
    /\ job' = Orphan(a)
    /\ Disturb(a)
    /\ UNCHANGED <<clock, up, account, served>>

\* PATCH /accounts: the schedule of a disabled account keeps its next run.
SetEnabled(a, state) ==
    /\ up /\ account[a] \notin {"gone", state}
    /\ account' = [account EXCEPT ![a] = state]
    /\ Disturb(a)
    /\ UNCHANGED <<clock, up, row, job, served>>

\* POST /accounts/{id}/delete waits at the gate; the row goes with the account.
DeleteAccount(a) ==
    /\ up /\ account[a] # "gone" /\ ~Running(a)
    /\ account' = [account EXCEPT ![a] = "gone"]
    /\ row' = [row EXCEPT ![a] = None]
    /\ job' = Orphan(a)
    /\ Disturb(a)
    /\ UNCHANGED <<clock, up, served>>

-----------------------------------------------------------------------------
Due(a) == /\ Healthy(a)
          /\ row[a].next = 0

\* poll_once: claim_due moves every due schedule on before a job exists for it.
Claim ==
    LET All == {a \in Accounts : Due(a)} IN
    /\ All # {}
    /\ \E n \in [All -> 0 .. 2 * Day], i \in Injection(All, Jobs) :
         /\ \A a \in All : n[a] \in NextRun(row[a].time, row[a].jitter) /\ job[i[a]] = None
         /\ row' = [a \in Accounts |->
                      IF a \in All THEN [row[a] EXCEPT !.next = n[a]] ELSE row[a]]
         /\ job' = [k \in Jobs |->
                      IF \E a \in All : i[a] = k
                      THEN LET a == CHOOSE b \in All : i[b] = k IN
                           [account |-> a, row |-> TRUE, retries |-> row[a].retries, attempt |-> 1,
                            stage |-> "queued", wake |-> 0]
                      ELSE job[k]]
    /\ served' = [a \in Accounts |-> IF a \in All THEN served[a] + 1 ELSE served[a]]
    /\ UNCHANGED <<clock, up, account, calm, beat>>

\* The row named by the job gets the status, if it is still there.
Record(j, status) ==
    row' = IF j.row THEN [row EXCEPT ![j.account].status = status] ELSE row

\* _execute's "except Exception": the status is recorded and nothing is pushed.
Crash(i) ==
    /\ Record(job[i], "failed")
    /\ job' = [job EXCEPT ![i] = None]
    /\ Disturb(job[i].account)
    /\ UNCHANGED <<clock, up, account, served>>

\* run_account: one operation at a time inside the gate; an account that is gone or
\* disabled by then is an exception.
Begin(i) ==
    /\ job[i] # None /\ job[i].stage = "queued"
    /\ ~Running(job[i].account)
    /\ IF account[job[i].account] = "enabled"
       THEN /\ job' = [job EXCEPT ![i].stage = "running", ![i].wake = Work]
            /\ UNCHANGED <<clock, up, account, row, calm, served, beat>>
       ELSE Crash(i)

\* An attempt raises (no browser, an undecryptable secret, no such plugin).
Raises(i) == job[i] # None /\ job[i].stage = "running" /\ Crash(i)

\* An attempt returns: a failure with attempts left sleeps, any other result is final.
EndedOneMore(i, v) ==
    /\ job[i] # None /\ job[i].stage = "running"
    /\ IF v = "failed" /\ job[i].attempt <= job[i].retries + 1
       THEN /\ job' = [job EXCEPT ![i].stage = "sleeping", ![i].wake = Delay]
            /\ UNCHANGED row
       ELSE /\ job' = [job EXCEPT ![i].stage = "notifying"]
            /\ Record(job[i], v)
    /\ UNCHANGED <<clock, up, account, calm, served, beat>>
Ended(i, v) ==
    /\ job[i] # None /\ job[i].stage = "running"
    /\ IF v = "failed" /\ job[i].attempt <= job[i].retries
       THEN /\ job' = [job EXCEPT ![i].stage = "sleeping", ![i].wake = Delay]
            /\ UNCHANGED row
       ELSE /\ job' = [job EXCEPT ![i].stage = "notifying"]
            /\ Record(job[i], v)
    /\ UNCHANGED <<clock, up, account, calm, served, beat>>

WokenWithoutCounting(i) ==
    /\ job[i] # None /\ job[i].stage = "sleeping" /\ job[i].wake = 0
    /\ job' = [job EXCEPT ![i].stage = "queued"]
    /\ UNCHANGED <<clock, up, account, row, calm, served, beat>>
Woken(i) ==
    /\ job[i] # None /\ job[i].stage = "sleeping" /\ job[i].wake = 0
    /\ job' = [job EXCEPT ![i].stage = "queued", ![i].attempt = @ + 1]
    /\ UNCHANGED <<clock, up, account, row, calm, served, beat>>

\* notify_final_result raises for an account that is gone, and the push may be lost;
\* either way the job ends.
Notified(i, delivered) ==
    LET a == job[i].account IN
    /\ job[i] # None /\ job[i].stage = "notifying"
    /\ delivered => account[a] # "gone"
    /\ job' = [job EXCEPT ![i] = None]
    /\ IF delivered /\ Healthy(a)
       THEN beat' = [beat EXCEPT ![a] = 0] /\ UNCHANGED calm
       ELSE Disturb(a)
    /\ UNCHANGED <<clock, up, account, row, served>>

Step(i) == \/ Begin(i)
           \/ Raises(i)
           \/ \E v \in {"ok", "failed"} : Ended(i, v)
           \/ Woken(i)
           \/ \E d \in BOOLEAN : Notified(i, d)

-----------------------------------------------------------------------------
\* Nothing waits for the processor: the clock may move.
Urgent(i) == \/ job[i].stage = "notifying"
             \/ job[i].stage = "queued" /\ ~Running(job[i].account)
             \/ job[i].stage \in {"running", "sleeping"} /\ job[i].wake = 0

Less(n) == IF n > 0 THEN n - 1 ELSE n

Tick ==
    /\ \A a \in Accounts : ~Due(a)
    /\ \A i \in Jobs : job[i] # None => ~Urgent(i)
    /\ clock' = (clock + 1) % Day
    /\ row' = [a \in Accounts |->
                 IF row[a] = None THEN None ELSE [row[a] EXCEPT !.next = Less(@)]]
    /\ job' = [i \in Jobs |->
                 IF job[i] = None THEN None
                 ELSE [job[i] EXCEPT !.wake = Less(@)]]
    /\ LET Chime == {a \in Accounts : row[a] # None /\ row[a].time = clock'}
       IN  /\ calm' = calm \union {a \in Chime : Healthy(a)}
           /\ served' = [a \in Accounts |-> IF a \in Chime THEN 0 ELSE served[a]]
    /\ beat' = [a \in Accounts |-> IF beat[a] = Never THEN Never ELSE beat[a] + 1]
    /\ UNCHANGED <<up, account>>

Edit(a) == \/ \E e \in BOOLEAN, t \in Times, j \in Jitters, n \in Retries : Upsert(a, e, t, j, n)
           \/ DeleteSchedule(a)
           \/ \E s \in {"enabled", "disabled"} : SetEnabled(a, s)
           \/ DeleteAccount(a)

Next == \/ Start
        \/ Down
        \/ \E a \in Accounts : Edit(a)
        \/ Claim
        \/ \E i \in Jobs : Step(i)
        \/ Tick

Spec == Init /\ [][Next]_vars

\* Time passes, the loop polls and the event loop runs every task.  SF, for an account
\* may be disabled and enabled again for ever, and a job may wait at the gate.
FairSpec == /\ Spec
            /\ SF_vars(Tick)
            /\ SF_vars(Claim)
            /\ \A i \in Jobs : SF_vars(Step(i))
-----------------------------------------------------------------------------
SchedTypeOK ==
    /\ clock \in 0 .. Day - 1
    /\ up \in BOOLEAN
    /\ account \in [Accounts -> {"enabled", "disabled", "gone"}]
    /\ row \in [Accounts -> Pick(Row)]
    /\ job \in [Jobs -> Pick(Job)]
    /\ calm \subseteq Accounts
    /\ served \in [Accounts -> Nat]
    /\ beat \in [Accounts -> Nat \union {Never}]

\* The daily run: between two of its daily times a schedule is claimed at most once,
\* whatever stops, late starts, pauses and claims after midnight come in between; and
\* exactly once, no later than its jitter, when it was left alone since the daily time.
DailyRun == \A a \in Accounts :
    /\ served[a] <= 1
    /\ Healthy(a) => row[a].next # Never
    /\ a \in calm /\ row[a] # None /\ (clock - row[a].time) % Day > row[a].jitter
       => served[a] = 1

\* A job never records on a row made after its own was deleted.
OwnRow == \A i \in Jobs : job[i] # None /\ job[i].row => row[job[i].account] # None

ScheduleInv == SchedTypeOK /\ DailyRun /\ OwnRow

\* "The heartbeat interval should exceed 24 hours + the longest random delay + the
\* longest retry window" (README.md:193): while nobody edits, no push is lost and no
\* attempt raises, two pushes of an account are no further apart than that.  (Retry
\* window: the attempts' own time included.)
HeartbeatHolds == \A a \in Accounts :
    beat[a] # Never /\ row[a] # None => beat[a] <= Longest(row[a])

\* Every claimed job comes to an end, whatever its attempts return.
JobsEnd == \A i \in Jobs : job[i] # None ~> job[i] = None
=============================================================================
