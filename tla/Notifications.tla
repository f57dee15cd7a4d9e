--------------------------- MODULE Notifications ---------------------------
(***************************************************************************)
(* core/services/notifications.py: NotificationChannelService, with its    *)
(* router, the delivery of a final result (web/app.py), the migration of   *)
(* the notification secrets that older versions kept per account, and what *)
(* users do to these secrets through the vault (web/routers/accounts.py).  *)
(*                                                                         *)
(* The migration runs before the service answers requests, or from the     *)
(* command line while it is stopped: it meets no request, but the process  *)
(* may be killed between any two of its transactions.                      *)
(***************************************************************************)
EXTENDS Naturals, FiniteSets, SequencesExt

CONSTANTS Accounts,  \* the account identifiers
          Channels,  \* the identifiers channels may get, each once (bound)
          Types,     \* the channel types
          Single,    \* the types whose legacy configuration is one secret: Kuma
          Configs,   \* valid configurations, as they are after validation
          Invalid,   \* what a secret may hold instead: the vault does not validate
          Legacy,    \* the legacy secrets there may be: see LegacyConfig
          Senders,   \* the tasks that deliver a result
          Idle       \* no migration, no delivery

VARIABLES up,        \* the service answers requests
          gone,      \* the deleted accounts
          table,     \* the channels in order of creation: [id, type, config]
          used,      \* the identifiers given so far
          links,     \* the pairs <<account, channel>> of the assignments
          legacy,    \* the notification secrets in the vault
          marker,    \* "no", "complete", or "inherited" from an older version
          migration, \* the running migration: [todo, stage], or Idle
          late,      \* the legacy secrets users wrote since the marker was completed
          owed,      \* the legacy configurations, as users last left them
          made,      \* the channels the migration made, until a user changes them
          sending    \* [Senders -> the delivery in flight, or Idle]

chanVars == <<table, used, links>>
migVars == <<legacy, marker, migration, late>>
notifyVars == <<up, gone, table, used, links, legacy, marker, migration, late, owed, made,
                sending>>

\* A configuration among an account's secrets; a NapCat one is whole with four names.
LegacyConfig == [account : Accounts, type : Types, config : Configs \union {Invalid},
                 whole : BOOLEAN]

ASSUME LegacyIsConfig == /\ Legacy \subseteq LegacyConfig /\ IsFiniteSet(Legacy)
                         /\ \A l \in Legacy : l.type \in Single => l.whole

SameSecrets(l, m) == l.account = m.account /\ l.type = m.type

Exists(id) == \E i \in DOMAIN table : table[i].id = id
Matches(l) == {table[i].id : i \in {k \in DOMAIN table :
                 table[k].type = l.type /\ table[k].config = l.config}}

NotifyInit ==
    /\ up = FALSE /\ gone = {}
    /\ table = <<>> /\ used = {} /\ links = {}
    /\ legacy \in SUBSET Legacy
    /\ \A l, m \in legacy : SameSecrets(l, m) => l = m
    /\ marker \in {"no", "inherited"}
    /\ migration = Idle /\ late = {}
    /\ owed = legacy /\ made = {}
    /\ sending = [s \in Senders |-> Idle]

-----------------------------------------------------------------------------
(* The tables *)

Insert(id, type, config) ==
    /\ id \notin used
    /\ table' = Append(table, [id |-> id, type |-> type, config |-> config])
    /\ used' = used \union {id}

\* create: the same configuration may be entered twice.
Create(id, type, config) ==
    /\ up /\ Insert(id, type, config)
    /\ UNCHANGED <<up, gone, links, migVars, owed, made, sending>>

\* What a user does to a channel or an assignment is no loss of the migration.
Settled(accounts) == owed' = {l \in owed : l.account \notin accounts \/ l \in legacy}
LinkedTo(id) == {a \in Accounts : <<a, id>> \in links}

\* update: the type stays.
Update(id, config) ==
    /\ up /\ Exists(id)
    /\ table' = [i \in DOMAIN table |->
                   IF table[i].id = id THEN [table[i] EXCEPT !.config = config] ELSE table[i]]
    /\ Settled(LinkedTo(id))
    /\ made' = made \ {id}
    /\ UNCHANGED <<up, gone, used, links, migVars, sending>>

\* delete: the assignments go with the channel (ON DELETE CASCADE).
DeleteChannel(id) ==
    /\ up
    /\ \E i \in DOMAIN table : table[i].id = id /\ table' = RemoveAt(table, i)
    /\ links' = {l \in links : l[2] # id}
    /\ Settled(LinkedTo(id))
    /\ UNCHANGED <<up, gone, used, migVars, made, sending>>

\* The replacement of the assignments of an account, in one transaction.
Link(a, ids) == links' = {l \in links : l[1] # a} \union {<<a, id>> : id \in ids}

\* assign: an unknown account or channel changes nothing.
Assign(a, ids) ==
    /\ up /\ a \notin gone /\ \A id \in ids : Exists(id)
    /\ Link(a, ids)
    /\ Settled({a})
    /\ UNCHANGED <<up, gone, table, used, migVars, made, sending>>

DeleteAccount(a) ==
    /\ up /\ a \notin gone
    /\ gone' = gone \union {a}
    /\ links' = {l \in links : l[1] # a}
    /\ legacy' = {l \in legacy : l.account # a}
    /\ owed' = {l \in owed : l.account # a} /\ late' = {l \in late : l.account # a}
    /\ UNCHANGED <<up, table, used, marker, migration, made, sending>>

-----------------------------------------------------------------------------
(* The vault: one secret of a legacy configuration is written or deleted *)

\* What an account holds of the configuration becomes something else, or nothing.
Rewrite(l, others) ==
    LET Written(before) == {m \in before : ~(m \in legacy /\ SameSecrets(l, m))} \union others
    IN  /\ legacy' = Written(legacy) /\ owed' = Written(owed)
        /\ late' = IF marker = "complete" THEN Written(late) ELSE late
        /\ UNCHANGED <<up, gone, chanVars, marker, migration, made, sending>>

\* set: whatever the marker says, and without a look at the value.  One name more may
\* make a NapCat configuration whole, and does not take a whole one apart.
PutSecret(l) ==
    /\ up /\ l.account \notin gone
    /\ l.whole => l.type \in Single \/ \E m \in legacy : SameSecrets(l, m)
    /\ ~l.whole => \A m \in legacy : SameSecrets(l, m) => ~m.whole
    /\ Rewrite(l, {l})

\* delete: one name less leaves nothing, or a NapCat configuration that is not whole.
DropSecret(l) ==
    /\ up /\ l \in legacy
    /\ \/ (l.whole => l.type \in Single) /\ Rewrite(l, {})
       \/ \E m \in Legacy : SameSecrets(l, m) /\ ~m.whole /\ Rewrite(l, {m})

-----------------------------------------------------------------------------
(* migrate_legacy *)

Whole == {l \in legacy : l.whole}

\* The migration goes through the accounts and their types in an order of its own.
StartMigration == \E todo \in SetToSeqs(Whole) : migration' = [todo |-> todo, stage |-> "create"]

\* lifespan: nothing to do once the marker is there; otherwise migrate before serving.
Start ==
    /\ ~up /\ migration = Idle
    /\ IF marker # "no" THEN up' = TRUE /\ UNCHANGED migration
       ELSE StartMigration /\ UNCHANGED up
    /\ UNCHANGED <<gone, chanVars, legacy, marker, late, owed, made, sending>>

\* repair-legacy-notifications, with the service stopped: force = True.
Repair ==
    /\ ~up /\ migration = Idle
    /\ marker' = "no" /\ late' = {}
    /\ StartMigration
    /\ UNCHANGED <<up, gone, chanVars, legacy, owed, made, sending>>

Item == Head(migration.todo)
AtItem(stage) == migration # Idle /\ migration.todo # <<>> /\ migration.stage = stage
GoTo(stage) == migration' = [migration EXCEPT !.stage = stage]

\* _find_matching, and create only when nothing matches; a configuration that is not
\* valid raises instead (Down).
MigrateCreate ==
    /\ AtItem("create") /\ Item.config # Invalid /\ GoTo("assign")
    /\ IF Matches(Item) # {} THEN UNCHANGED <<table, used, made>>
       ELSE \E id \in Channels : Insert(id, Item.type, Item.config) /\ made' = made \union {id}
    /\ UNCHANGED <<up, gone, links, legacy, marker, late, owed, sending>>

\* The first channel that matches, in order of creation.
IsMatch(l, id) == \E i \in DOMAIN table :
    table[i].id = id /\ id \in Matches(l) /\ \A k \in 1 .. i - 1 : table[k].id \notin Matches(l)

\* assign(account, [*assigned, channel]), unless it is assigned already.
AssignOnlyToNew ==
    /\ AtItem("assign") /\ GoTo("delete")
    /\ \E id \in Channels : /\ IsMatch(Item, id)
                            /\ links' = IF id \in {l[2] : l \in links} THEN links
                                        ELSE links \union {<<Item.account, id>>}
    /\ UNCHANGED <<up, gone, table, used, legacy, marker, late, owed, made, sending>>
MigrateAssign ==
    /\ AtItem("assign") /\ GoTo("delete")
    /\ \E id \in Channels : /\ IsMatch(Item, id)
                            /\ links' = links \union {<<Item.account, id>>}
    /\ UNCHANGED <<up, gone, table, used, legacy, marker, late, owed, made, sending>>

\* delete_many: the secrets of the configuration, all or none.
MigrateDelete ==
    /\ AtItem("delete")
    /\ legacy' = legacy \ {Item}
    /\ migration' = [todo |-> Tail(migration.todo), stage |-> "create"]
    /\ UNCHANGED <<up, gone, chanVars, marker, late, owed, made, sending>>

\* _mark_legacy_migration_complete; the service starts, or the command is done.
Mark ==
    /\ migration # Idle /\ migration.todo = <<>>
    /\ migration' = Idle
    /\ marker' = "complete" /\ late' = {}
    /\ up' \in BOOLEAN
    /\ UNCHANGED <<gone, chanVars, legacy, owed, made, sending>>

\* The process ends, in the middle of a migration or of a delivery; also when a step of
\* the migration raises, which the start and the command do not survive.
Down ==
    /\ up \/ migration # Idle
    /\ up' = FALSE /\ migration' = Idle
    /\ sending' = [s \in Senders |-> Idle]
    /\ UNCHANGED <<gone, chanVars, legacy, marker, late, owed, made>>

Migrate == MigrateCreate \/ MigrateAssign \/ MigrateDelete \/ Mark

-----------------------------------------------------------------------------
(* send_result *)

\* assigned_to_account: the channels of the account, oldest first.
OldestFirst(rows) == \A i, j \in DOMAIN rows : i < j => rows[i] < rows[j]
Assigned(a) == LET mine == {i \in DOMAIN table : <<a, table[i].id>> \in links}
               IN  {[i \in DOMAIN rows |-> table[rows[i]].id] :
                      rows \in {order \in SetToSeqs(mine) : OldestFirst(order)}}

\* The channels assigned to the account.
AssignedSet(a) == {id \in used : <<a, id>> \in links}

\* notify_final_result reads the account and lists its channels once; "due" remembers
\* which they were.
Send(s, a) ==
    /\ up /\ sending[s] = Idle /\ a \notin gone
    /\ \E ids \in Assigned(a) :
          sending' = [sending EXCEPT ![s] = [stage |-> "next", account |-> a, listed |-> ids,
                                             due |-> AssignedSet(a), done |-> <<>>]]
    /\ UNCHANGED <<up, gone, chanVars, migVars, owed, made>>

Position(s) == Len(sending[s].done) + 1
Current(s) == sending[s].listed[Position(s)]
AtEnd(s) == sending[s].stage = "next" /\ Position(s) \notin DOMAIN sending[s].listed

\* _load of the next channel: one deleted since the list was read raises, as does one
\* whose configuration cannot be decrypted, parsed or, for NapCat, validated; the rest of
\* the list is given up then.
LoadAnew(s) ==
    /\ sending[s] # Idle /\ sending[s].stage = "next"
    /\ Position(s) \in DOMAIN sending[s].listed
    /\ \E ids \in Assigned(sending[s].account) :
          sending' = [sending EXCEPT
            ![s].listed = ids,
            ![s].stage = IF Position(s) \in DOMAIN ids THEN "pushing" ELSE "next"]
    /\ UNCHANGED <<up, gone, chanVars, migVars, owed, made>>
Load(s) ==
    /\ sending[s] # Idle /\ sending[s].stage = "next"
    /\ Position(s) \in DOMAIN sending[s].listed
    /\ \E stage \in IF Exists(Current(s)) THEN {"pushing", "unreadable"} ELSE {"missing"} :
          sending' = [sending EXCEPT ![s].stage = stage]
    /\ UNCHANGED <<up, gone, chanVars, migVars, owed, made>>

\* _send_uptime, _send_napcat: a push that fails is a delivery like one that succeeds.
Pushed(s) ==
    /\ sending[s] # Idle /\ sending[s].stage = "pushing"
    /\ sending' = [sending EXCEPT
         ![s].stage = "next",
         ![s].done = Append(@, Current(s))]
    /\ UNCHANGED <<up, gone, chanVars, migVars, owed, made>>

\* The deliveries are noted in the execution record, or the caller sees the exception.
Finish(s) ==
    /\ sending[s] # Idle
    /\ sending[s].stage \in {"missing", "unreadable"} \/ AtEnd(s)
    /\ sending' = [sending EXCEPT ![s] = Idle]
    /\ UNCHANGED <<up, gone, chanVars, migVars, owed, made>>

Deliver(s) == \/ \E a \in Accounts : Send(s, a)
              \/ Load(s)
              \/ Pushed(s)
              \/ Finish(s)

Edit == \/ \E id \in Channels, t \in Types, c \in Configs : Create(id, t, c)
        \/ \E id \in Channels, c \in Configs : Update(id, c)
        \/ \E id \in Channels : DeleteChannel(id)
        \/ \E a \in Accounts, ids \in SUBSET Channels : Assign(a, ids)
        \/ \E a \in Accounts : DeleteAccount(a)
        \/ \E l \in Legacy : PutSecret(l) \/ DropSecret(l)

NotifyNext == Edit \/ Start \/ Repair \/ Migrate \/ Down \/ \E s \in Senders : Deliver(s)

NotifySpec == NotifyInit /\ [][NotifyNext]_notifyVars
-----------------------------------------------------------------------------
Delivery == [stage : {"next", "pushing", "missing", "unreadable"}, account : Accounts,
             listed : Seq(Channels), due : SUBSET Channels, done : Seq(Channels)]
NotifyTypeOK ==
    /\ up \in BOOLEAN /\ made \subseteq used /\ gone \subseteq Accounts /\ used \subseteq Channels
    /\ table \in Seq([id : used, type : Types, config : Configs])
    /\ links \subseteq (Accounts \ gone) \X {table[i].id : i \in DOMAIN table}
    /\ legacy \subseteq Legacy /\ owed \subseteq Legacy /\ late \subseteq Legacy
    /\ marker \in {"no", "complete", "inherited"}
    /\ migration \in {Idle} \union [todo : Seq(Legacy), stage : {"create", "assign", "delete"}]
    /\ sending \in [Senders -> {Idle} \union Delivery]

\* Wherever the migration is interrupted, raises, is run again or forced, the legacy
\* configurations, as users last left them, are at every moment among the account's secrets
\* or in a channel assigned to it; the marker "complete" leaves nothing whole behind but
\* what users wrote after it was set (a failed run writes none, README.md:252); and no two
\* channels come of one configuration (README.md:238, notifications.py:271-355).
MigrationSafe ==
    /\ NotifyTypeOK
    /\ \A l \in owed : \/ l \in legacy
                       \/ \E id \in Matches(l) : <<l.account, id>> \in links
    /\ marker = "complete" => Whole \subseteq late
    /\ \A i, j \in DOMAIN table : table[i].id \in made /\ table[j].id \in made /\ i # j =>
         <<table[i].type, table[i].config>> # <<table[j].type, table[j].config>>

\* Whatever users change between two pushes of a delivery, it tries only channels that were
\* assigned to the account when the result was sent, each at most once; if it gets to its
\* end, it has tried all of them, whether or not a push failed; and if it breaks off for a
\* missing channel, an untried one of them is gone.  What stands behind a missing or an
\* unreadable channel gets nothing, and nothing is claimed of it (notifications.py:251).
Tried(d) == {d.done[i] : i \in DOMAIN d.done}
DeliveriesAreIsolated == \A s \in Senders : sending[s] # Idle =>
    LET d == sending[s] IN
    /\ Tried(d) \subseteq d.due
    /\ IsInjective(d.done)
    /\ AtEnd(s) => Tried(d) = d.due
    /\ d.stage = "missing" => \E id \in d.due \ Tried(d) : ~Exists(id)
=============================================================================
