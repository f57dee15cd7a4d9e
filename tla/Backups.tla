------------------------------ MODULE Backups ------------------------------
(***************************************************************************)
(* core/services/backups.py: BackupService and BackupCoordinator, with the *)
(* archives of core/backup.py and the routes of web/routers/backups.py.    *)
(*                                                                         *)
(* A backup is made, read back and retention applied in threads, one task  *)
(* at a time (the run lock, first come first served); everything between   *)
(* two awaits is one action, except that the process may be killed between *)
(* two commits.  The clock never goes back, so that archive names sort by  *)
(* age.  Days are told apart only as far as "today" or before.             *)
(***************************************************************************)
EXTENDS Naturals, Sequences

CONSTANTS Poller,     \* the coordinator's task
          Requests,   \* POST /backups/run
          Saver,      \* PUT /backups/settings
          Passwords,  \* backup passwords
          Keeps,      \* retention counts
          MaxFiles,   \* archives in the directory at once (bound)
          Unset       \* no password, no setting

ASSUME KeepAtLeastOne == Keeps # {} /\ Keeps \subseteq Nat \ {0}  \* 1 .. 365 in the code
ASSUME TasksDiffer == {Poller, Saver} \intersect Requests = {} /\ Poller # Saver
ASSUME UnsetIsNoSetting ==
    LET configs == [enabled : BOOLEAN, keep : Keeps] IN
    Unset \notin Passwords \union configs
                 \union [config : configs, password : Passwords \union {Unset}]

VARIABLES running,   \* the service runs
          due,       \* today's daily time is past
          settings,  \* in memory: [enabled, keep, password]
          stored,    \* in the database: [config, password, date]
          line,      \* the tasks at the run lock; the head holds it
          stage,     \* [task -> where it stands]
          want,      \* the settings being saved, or Unset
          partly,    \* a save has stored its configuration, then raised (history)
          orphan,    \* the thread that outlives the task stop() has cancelled
          files,     \* the archives of the service, oldest first: [password, good]
          secured,   \* some archive has been read back
          claims     \* scheduled backups claimed today, since the last saved settings

settingsVars == <<settings, stored, want, partly>>
backupVars == <<running, due, settings, stored, line, stage, want, partly, orphan, files,
               secured, claims>>

Tasks == Requests \union {Poller, Saver}
Config == [enabled : BOOLEAN, keep : Keeps]

\* Without stored settings those of the environment hold.
Effective(s, env) ==
    LET c == IF s.config = Unset THEN env ELSE s.config
    IN  [enabled |-> c.enabled, keep |-> c.keep,
         password |-> IF s.password = Unset THEN env.password ELSE s.password]

Environment == [enabled |-> FALSE, keep |-> CHOOSE k \in Keeps : TRUE, password |-> Unset]

BackupInit ==
    /\ running = FALSE /\ due = FALSE
    /\ settings = Environment
    /\ stored = [config |-> Unset, password |-> Unset, date |-> "never"]
    /\ line = <<>> /\ stage = [t \in Tasks |-> "idle"]
    /\ want = Unset /\ partly = FALSE /\ orphan = "none"
    /\ files = <<>> /\ secured = FALSE /\ claims = 0

-----------------------------------------------------------------------------
(* The archives *)

\* create_backup and _atomic_write: the archive appears whole, under a new name; it may
\* still be one that cannot be read back.
Write(good) == /\ Len(files) < MaxFiles
               /\ files' = Append(files, [password |-> settings.password, good |-> good])

\* _read_bundle: decrypt, and compare the parts with the manifest.
Reads(file, password) == file.good /\ file.password = password

\* inspect_backup: then check the database and its key, which create_backup has checked
\* before it wrote them.
Opens(file, password) == Reads(file, password)

\* One round of _prune: all but the newest "keep" archives go, oldest first.
Surplus == Len(files) > settings.keep

-----------------------------------------------------------------------------
(* The run lock *)

Holds(t) == line # <<>> /\ Head(line) = t
Queue(t) == line' = Append(line, t) /\ stage' = [stage EXCEPT ![t] = "waiting"]
Release(t) == line' = Tail(line) /\ stage' = [stage EXCEPT ![t] = "idle"]
At(t, s) == stage[t] = s
Go(t, s) == stage' = [stage EXCEPT ![t] = s]

\* Between the commits of update_settings there is no await: no task runs, though the
\* process may be killed.
Saving == stage[Saver] \in {"config", "password", "apply"}

-----------------------------------------------------------------------------
(* run_if_due and create_now *)

\* The date is claimed before the backup is made, and before the lock.
PollWithoutClaiming ==
    /\ running /\ At(Poller, "idle") /\ ~Saving
    /\ settings.enabled /\ settings.password # Unset /\ due
    /\ stored.date # "today"
    /\ claims' = claims + 1
    /\ Queue(Poller)
    /\ UNCHANGED <<running, due, settingsVars, orphan, files, secured>>
Poll ==
    /\ running /\ At(Poller, "idle") /\ ~Saving
    /\ settings.enabled /\ settings.password # Unset /\ due
    /\ stored.date # "today"
    /\ stored' = [stored EXCEPT !.date = "today"]
    /\ claims' = claims + 1
    /\ Queue(Poller)
    /\ UNCHANGED <<running, due, settings, want, partly, orphan, files, secured>>

RunNow(r) ==
    /\ running /\ At(r, "idle") /\ settings.password # Unset /\ ~Saving
    /\ Queue(r)
    /\ UNCHANGED <<running, due, settingsVars, orphan, files, secured, claims>>

EnterUnlocked(t) ==
    /\ At(t, "waiting")
    /\ Go(t, IF t = Saver THEN "config" ELSE "creating")
    /\ UNCHANGED <<running, due, settingsVars, line, orphan, files, secured, claims>>
Enter(t) ==
    /\ Holds(t) /\ At(t, "waiting")
    /\ Go(t, IF t = Saver THEN "config" ELSE "creating")
    /\ UNCHANGED <<running, due, settingsVars, line, orphan, files, secured, claims>>

Create(t) ==
    /\ At(t, "creating") /\ \E good \in BOOLEAN : Write(good)
    /\ Go(t, "inspecting")
    /\ UNCHANGED <<running, due, settingsVars, line, orphan, secured, claims>>

\* The archive just made is the newest one.
Inspect(t) ==
    /\ At(t, "inspecting") /\ Opens(files[Len(files)], settings.password)
    /\ Go(t, "pruning")
    /\ secured' = TRUE
    /\ UNCHANGED <<running, due, settingsVars, line, orphan, files, claims>>

Prune(t) ==
    /\ At(t, "pruning") /\ Surplus
    /\ files' = Tail(files)
    /\ UNCHANGED <<running, due, settingsVars, line, stage, orphan, secured, claims>>

\* The backup is complete, or one of its steps has raised: the attempt is not repeated.
Finish(t) ==
    /\ \/ At(t, "pruning") /\ ~Surplus
       \/ t # Saver /\ stage[t] \notin {"idle", "waiting"}
    /\ Release(t)
    /\ UNCHANGED <<running, due, settingsVars, orphan, files, secured, claims>>

-----------------------------------------------------------------------------
(* update_settings *)

Save(c, p) ==
    /\ running /\ At(Saver, "idle") /\ want = Unset
    /\ want' = [config |-> c, password |-> p]
    /\ Queue(Saver)
    /\ UNCHANGED <<running, due, settings, stored, partly, orphan, files, secured, claims>>

NewPassword == IF want.password = Unset THEN settings.password ELSE want.password

\* Enabling needs a password; the configuration is committed first.
StoreConfig ==
    /\ At(Saver, "config")
    /\ IF want.config.enabled /\ NewPassword = Unset
       THEN /\ Release(Saver) /\ want' = Unset /\ UNCHANGED stored
       ELSE /\ stored' = [stored EXCEPT !.config = want.config]
            /\ Go(Saver, "password") /\ UNCHANGED <<line, want>>
    /\ UNCHANGED <<running, due, settings, partly, orphan, files, secured, claims>>

StorePassword ==
    /\ At(Saver, "password")
    /\ stored' = [stored EXCEPT !.password = IF want.password = Unset THEN @ ELSE want.password]
    /\ Go(Saver, "apply")
    /\ UNCHANGED <<running, due, settings, want, partly, line, orphan, files, secured, claims>>

\* The settings take effect; the new daily time may be before or after now.
TakeEffect ==
    /\ settings' = [enabled |-> want.config.enabled, keep |-> want.config.keep,
                    password |-> NewPassword]
    /\ partly' = FALSE
    /\ due' \in BOOLEAN

\* Last, today's claim is forgotten.
Apply ==
    /\ At(Saver, "apply")
    /\ TakeEffect
    /\ stored' = [stored EXCEPT !.date = "never"]
    /\ want' = Unset /\ claims' = 0
    /\ Release(Saver)
    /\ UNCHANGED <<running, orphan, files, secured>>

\* A commit raises: what was stored before it stays, and only the commit of the claim
\* comes after the settings have taken effect.
CommitRaises ==
    /\ \/ At(Saver, "config") /\ UNCHANGED <<settings, partly, due>>
       \/ /\ At(Saver, "password") /\ want.password # Unset
          /\ partly' = TRUE
          /\ UNCHANGED <<settings, due>>
       \/ At(Saver, "apply") /\ TakeEffect
    /\ want' = Unset
    /\ Release(Saver)
    /\ UNCHANGED <<running, stored, orphan, files, secured, claims>>

-----------------------------------------------------------------------------
(* The process and the clock *)

\* initialize: the stored settings override those of the environment.
Initialize ==
    /\ ~running /\ orphan = "none"
    /\ running' = TRUE
    /\ settings' = Effective(stored, Environment) /\ partly' = FALSE
    /\ UNCHANGED <<due, stored, line, stage, want, orphan, files, secured, claims>>

\* stop() cancels the coordinator once the requests are answered; its thread goes on.
Stop ==
    /\ running /\ \A t \in Tasks \ {Poller} : At(t, "idle")
    /\ running' = FALSE /\ line' = <<>>
    /\ stage' = [t \in Tasks |-> "idle"]
    /\ orphan' = IF stage[Poller] \in {"creating", "pruning"} THEN stage[Poller] ELSE "none"
    /\ UNCHANGED <<due, settingsVars, files, secured, claims>>

OrphanWorks ==
    /\ \/ /\ orphan = "creating" /\ (\E good \in BOOLEAN : Write(good)) /\ orphan' = "none"
       \/ /\ orphan = "pruning" /\ Surplus /\ files' = Tail(files) /\ UNCHANGED orphan
       \/ /\ orphan = "pruning" /\ ~Surplus /\ orphan' = "none" /\ UNCHANGED files
    /\ UNCHANGED <<running, due, settingsVars, line, stage, secured, claims>>

Kill ==
    /\ running \/ orphan # "none"
    /\ running' = FALSE /\ orphan' = "none" /\ line' = <<>> /\ want' = Unset
    /\ stage' = [t \in Tasks |-> "idle"]
    /\ UNCHANGED <<due, settings, stored, partly, files, secured, claims>>

DailyTime == /\ ~due /\ due' = TRUE
             /\ UNCHANGED <<running, settingsVars, line, stage, orphan, files, secured, claims>>
Midnight == /\ due /\ due' = FALSE
            /\ stored' = [stored EXCEPT !.date = IF @ = "today" THEN "before" ELSE @]
            /\ claims' = 0
            /\ UNCHANGED <<running, settings, want, partly, line, stage, orphan, files, secured>>

BackupNext ==
    \/ Poll \/ StoreConfig \/ StorePassword \/ Apply \/ CommitRaises
    \/ \E r \in Requests : RunNow(r)
    \/ \E t \in Tasks : Enter(t) \/ Create(t) \/ Inspect(t) \/ Prune(t) \/ Finish(t)
    \/ \E c \in Config, p \in Passwords \union {Unset} : Save(c, p)
    \/ Initialize \/ Stop \/ OrphanWorks \/ Kill \/ DailyTime \/ Midnight

BackupSpec == BackupInit /\ [][BackupNext]_backupVars
-----------------------------------------------------------------------------
Secret == Passwords \union {Unset}
BackupTypeOK ==
    /\ running \in BOOLEAN /\ due \in BOOLEAN /\ secured \in BOOLEAN /\ partly \in BOOLEAN
    /\ claims \in Nat
    /\ settings \in [enabled : BOOLEAN, keep : Keeps, password : Secret]
    /\ stored \in [config : Config \union {Unset}, password : Secret,
                   date : {"never", "before", "today"}]
    /\ line \in Seq(Tasks)
    /\ stage \in [Tasks -> {"idle", "waiting", "creating", "inspecting", "pruning",
                            "config", "password", "apply"}]
    /\ want \in {Unset} \union [config : Config, password : Secret]
    /\ orphan \in {"none", "creating", "pruning"}
    /\ files \in Seq([password : Passwords, good : BOOLEAN])

\* Once an archive was read back there is always one that can be: retention, failed and
\* interrupted backups, changed passwords and a thread that outlives its task never
\* leave only archives nobody has checked (create_now inspects before it prunes).  While
\* no one saves them, the settings in effect are those stored, whatever commit the process
\* was killed after or a save raised in: but for the rest of the configuration when the
\* commit of the password has raised, which stays stored and not in effect until the next
\* save or start.
ArchivesSafe ==
    /\ BackupTypeOK
    /\ secured => \E i \in DOMAIN files : files[i].good
    /\ running /\ want = Unset =>
          /\ settings.password = Effective(stored, Environment).password
          /\ ~partly => settings = Effective(stored, Environment)

\* Between two changes of the settings the backup of a day is claimed at most once, over
\* failures, waiting at the lock and restarts.
OncePerDay == claims <= 1
=============================================================================
