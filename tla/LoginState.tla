---------------------------- MODULE LoginState ----------------------------
(***************************************************************************)
(* The life of the stored browser login of one account, from web/app.py    *)
(* (run_account), the browser and account routers, the VikACG plugin's API *)
(* flow and the VikACG token import.  Runs and the deletion of the account *)
(* pass the account gate, which is here what AccountLine promises; logging *)
(* in by hand, importing tokens and editing secrets do not.                *)
(*                                                                         *)
(* The site issues numbered token pairs.  A refresh token may be replaced  *)
(* when it is used (rotation), and then only its successor is accepted.    *)
(* An access token may be accepted or have expired at any request.         *)
(***************************************************************************)
EXTENDS Naturals, Sequences

CONSTANTS Runs,     \* the executions of the account, by hand or by schedule
          Deleter,  \* the task that deletes the account
          acct,     \* the account
          Issues,   \* how many token pairs the site issues (bound)
          None      \* no secret, no task, no session

VARIABLES line, inside,  \* the account gate: see AccountLine
          account,       \* "enabled", "disabled" or "gone"
          vault,         \* the secret "browser_state", or None
          records,       \* the account has execution records
          run,           \* [Runs -> stage and what the run has in its hands]
          session,       \* the interactive login: [open, state]
          import,        \* the token import, or None
          issued,        \* the number of pairs issued
          fresh,         \* the refresh tokens the site accepts
          excused        \* the stored login was lost for a reason listed below

gateVars == <<line, inside>>
siteVars == <<issued, fresh>>
vars == <<line, inside, account, vault, records, run, session, import, issued, fresh, excused>>

Gate == INSTANCE AccountLine WITH Tasks <- Runs \union {Deleter}, Accounts <- {acct}

\* A storage state as the VikACG plugin reads it: its token pair, or no login (0).
State == [token : 0 .. Issues, refresh : 0 .. Issues]
Blank == [token |-> 0, refresh |-> 0]
NoRun == [stage |-> "idle", read |-> Blank, browser |-> Blank, pair |-> Blank,
          verified |-> FALSE, raced |-> FALSE]
NoSession == [stage |-> "none", state |-> Blank]
Import == [stage : {"validating", "valid"}, read : State, force : BOOLEAN, pair : State]

ASSUME TokensAreNumbered == Issues \in Nat \ {0}
ASSUME NamesAreApart == /\ Deleter \notin Runs
                        /\ None \notin Runs \union {Deleter} \union State \union Import

\* The vault is written by hand: the runs that have read it before know nothing of it.
WriteByHand(state) ==
    /\ vault' = state
    /\ run' = [r \in Runs |-> IF run[r].stage \in {"idle", "asking"} THEN run[r]
                              ELSE [run[r] EXCEPT !.raced = TRUE]]

Init == /\ Gate!LineInit
        /\ account = "enabled" /\ records = FALSE
        /\ run = [r \in Runs |-> NoRun]
        /\ session = NoSession /\ import = None
        /\ \/ vault = None /\ issued = 0 /\ fresh = {}
           \/ /\ vault = [token |-> 1, refresh |-> 1]
              /\ issued = 1 /\ fresh = {1}
        /\ excused = FALSE

-----------------------------------------------------------------------------
(* The site *)

Issue == issued + 1

\* The site ends every login of the user.
Revoke == /\ fresh # {} /\ fresh' = {} /\ excused' = TRUE
          /\ UNCHANGED <<gateVars, account, vault, records, run, session, import, issued>>

\* refreshToken: a new access token, and perhaps a new refresh token.
Answered(old, new) ==
    /\ old.refresh \in fresh /\ issued < Issues
    /\ \/ /\ new = [token |-> Issue, refresh |-> Issue]
          /\ fresh' = (fresh \ {old.refresh}) \union {Issue}
       \/ /\ new = [token |-> Issue, refresh |-> old.refresh]
          /\ UNCHANGED fresh
    /\ issued' = Issue

-----------------------------------------------------------------------------
(* run_account *)

Leave(t) == \E i \in DOMAIN line[acct] : line[acct][i].task = t /\ Gate!Leave(acct, i)

Ask(r) ==
    /\ run[r].stage = "idle" /\ Gate!Join(acct, r, "use")
    /\ run' = [run EXCEPT ![r].stage = "asking"]
    /\ UNCHANGED <<account, vault, records, session, import, siteVars, excused>>

Grant == /\ Gate!Enter(acct)
         /\ UNCHANGED <<account, vault, records, run, session, import, siteVars, excused>>

\* The run took a new refresh token from the site and the vault never gets it.
Wasted(r) == run[r].pair.refresh # run[r].read.refresh

\* run_account raises or is cancelled: the account is gone or disabled, no browser,
\* a failed record, a failed capture, the service stops.
Abandon(r) ==
    /\ run[r].stage # "idle" /\ Leave(r)
    /\ excused' = (excused \/ Wasted(r))
    /\ run' = [run EXCEPT ![r] = NoRun]
    /\ UNCHANGED <<account, vault, records, session, import, siteVars>>

\* Inside the gate the account is looked up and its secret read in one go.  Without a
\* stored login the plugin answers at once that a login is needed.
Read(r) ==
    /\ inside[acct] = r /\ run[r].stage = "asking" /\ account = "enabled"
    /\ run' = [run EXCEPT ![r] = IF vault = None THEN [NoRun EXCEPT !.stage = "answered"]
                                 ELSE [NoRun EXCEPT !.stage = "mission", !.read = vault,
                                                    !.browser = vault, !.pair = vault]]
    /\ UNCHANGED <<gateVars, account, vault, records, session, import, siteVars, excused>>

At(r, stage) == run[r].stage = stage
Go(r, stage) == run' = [run EXCEPT ![r].stage = stage]
Answer(r, verified) == run' = [run EXCEPT ![r].stage = "answered", ![r].verified = verified]

\* The first mission request: signed (or signed already), refused, or another failure.
\* Without a token in the restored state the page flow finds nobody logged in.
Mission(r) ==
    /\ At(r, "mission")
    /\ \/ run[r].pair.token # 0 /\ Answer(r, TRUE)
       \/ run[r].pair.token # 0 /\ Go(r, "refreshing")
       \/ Answer(r, FALSE)
    /\ UNCHANGED <<gateVars, account, vault, records, session, import, siteVars, excused>>

\* The refresh request: answered, refused, or failed with the answer lost.
Refresh(r) ==
    /\ At(r, "refreshing")
    /\ \/ \E new \in State, heard \in BOOLEAN :
            /\ Answered(run[r].pair, new)
            /\ run' = [run EXCEPT ![r].pair = new,
                                  ![r].stage = IF heard THEN "again" ELSE "answered"]
       \/ Answer(r, FALSE) /\ UNCHANGED siteVars
    /\ UNCHANGED <<gateVars, account, vault, records, session, import, excused>>

\* write_storage_value puts the new pair into the browser's storage, or fails and the
\* run goes on; then the mission request with the new token.
MissionAgain(r) ==
    /\ At(r, "again")
    /\ \E kept, verified \in BOOLEAN :
        /\ run' = [run EXCEPT ![r].browser = IF kept THEN run[r].pair ELSE @,
                              ![r].stage = "answered", ![r].verified = verified]
    /\ UNCHANGED <<gateVars, account, vault, records, session, import, siteVars, excused>>

\* ExecutionService._record: the record refers to the account (foreign key).
Record(r) ==
    /\ At(r, "answered") /\ account # "gone"
    /\ records' = TRUE
    /\ Go(r, "recorded")
    /\ UNCHANGED <<gateVars, account, vault, session, import, siteVars, excused>>

\* A verified run stores what the browser holds by then; the vault needs the account.
Storing(r, state) ==
    /\ At(r, "recorded") /\ Leave(r)
    /\ account # "gone"
    /\ IF run[r].verified
       THEN /\ vault' = state
            /\ excused' = (\/ excused
                           \/ /\ run[r].browser.refresh \notin fresh
                              /\ \/ run[r].raced  \* over a login saved by hand
                                 \/ Wasted(r) /\ run[r].browser # run[r].pair)
       ELSE /\ excused' = (excused \/ Wasted(r))
            /\ UNCHANGED vault
    /\ run' = [run EXCEPT ![r] = NoRun]
    /\ UNCHANGED <<account, records, session, import, siteVars>>

StoreAsRead(r) == Storing(r, run[r].read)
Store(r) == Storing(r, run[r].browser)

Run(r) == \/ Ask(r) \/ Read(r) \/ Mission(r) \/ Refresh(r) \/ MissionAgain(r)
          \/ Record(r) \/ Store(r) \/ Abandon(r)

-----------------------------------------------------------------------------
(* Logging in by hand: start and close_browser_session *)

\* Every interactive login starts from a clean state, whatever is stored.
OpenSession ==
    /\ account # "gone" /\ session.stage = "none"
    /\ session' = [stage |-> "open", state |-> Blank]
    /\ UNCHANGED <<gateVars, account, vault, records, run, import, siteVars, excused>>

UserLogsIn ==
    /\ session.stage = "open" /\ issued < Issues
    /\ session' = [session EXCEPT !.state = [token |-> Issue, refresh |-> Issue]]
    /\ issued' = Issue /\ fresh' = fresh \union {Issue}
    /\ UNCHANGED <<gateVars, account, vault, records, run, import, excused>>

\* The login is checked before the session is closed; a user may save without it.
CheckLogin(force) ==
    /\ session.stage = "open" /\ account # "gone"
    /\ session.state # Blank \/ force
    /\ session' = [session EXCEPT !.stage = "closing"]
    /\ UNCHANGED <<gateVars, account, vault, records, run, import, siteVars, excused>>

\* The session is closed by then: with the account gone its state goes nowhere.
SaveLogin ==
    /\ session.stage = "closing"
    /\ session' = NoSession
    /\ IF account = "gone" THEN UNCHANGED <<vault, run, excused>>
       ELSE WriteByHand(session.state) /\ excused' = (session.state.refresh \notin fresh)
    /\ UNCHANGED <<gateVars, account, records, import, siteVars>>

\* Closed without saving, or expired.
DropSession ==
    /\ session.stage # "none" /\ session' = NoSession
    /\ UNCHANGED <<gateVars, account, vault, records, run, import, siteVars, excused>>

-----------------------------------------------------------------------------
(* import_vikacg_state *)

\* The user pastes the pair of a login of another browser, or one half of it, which is
\* merged into the state stored now.
ReadSkeleton(t, r) ==
    /\ import = None /\ account # "gone" /\ vault \notin {None, Blank}
    /\ t \/ r
    /\ issued < Issues
    /\ issued' = Issue /\ fresh' = fresh \union {Issue}
    /\ import' = [stage |-> "validating", read |-> vault, force |-> r /\ ~t,
                  pair |-> [token   |-> IF t THEN Issue ELSE vault.token,
                            refresh |-> IF r THEN Issue ELSE vault.refresh]]
    /\ UNCHANGED <<gateVars, account, vault, records, run, session, excused>>

\* validate_imported_session: the token is accepted, or else the refresh token is used.
Validate ==
    /\ import # None /\ import.stage = "validating"
    /\ \/ /\ ~import.force
          /\ import' = [import EXCEPT !.stage = "valid"]
          /\ UNCHANGED siteVars
       \/ \E new \in State : /\ Answered(import.pair, new)
                             /\ import' = [import EXCEPT !.stage = "valid", !.pair = new]
    /\ UNCHANGED <<gateVars, account, vault, records, run, session, excused>>

\* The validation fails or the capture does; a stored refresh token may be used up.
ImportFails ==
    /\ import # None /\ import' = None
    /\ excused' = (\/ excused
                   \/ vault # None /\ vault.refresh = import.read.refresh /\ vault.refresh \notin fresh)
    /\ UNCHANGED <<gateVars, account, vault, records, run, session, siteVars>>

SaveImport ==
    /\ import # None /\ import.stage = "valid" /\ account # "gone"
    /\ WriteByHand(import.pair) /\ import' = None
    /\ excused' = (/\ import.pair.refresh \notin fresh
                   /\ excused \/ vault # import.read)
    /\ UNCHANGED <<gateVars, account, records, session, siteVars>>

-----------------------------------------------------------------------------
(* The account *)

\* set_secret writes "browser_state" itself: a state from another browser, with a login of
\* its own or with none.
PutLogin ==
    /\ account # "gone" /\ issued < Issues
    /\ WriteByHand([token |-> Issue, refresh |-> Issue]) /\ excused' = FALSE
    /\ issued' = Issue /\ fresh' = fresh \union {Issue}
    /\ UNCHANGED <<gateVars, account, records, session, import>>
PutBlank ==
    /\ account # "gone" /\ WriteByHand(Blank)
    /\ UNCHANGED <<gateVars, account, records, session, import, siteVars, excused>>

DeleteSecret ==
    /\ vault # None /\ WriteByHand(None)
    /\ UNCHANGED <<gateVars, account, records, session, import, siteVars, excused>>

SetEnabled(state) ==
    /\ account \notin {"gone", state} /\ account' = state
    /\ UNCHANGED <<gateVars, vault, records, run, session, import, siteVars, excused>>

AskToDelete ==
    /\ account # "gone" /\ Gate!Join(acct, Deleter, "delete")
    /\ UNCHANGED <<account, vault, records, run, session, import, siteVars, excused>>

\* The secrets and the records go with the account (ON DELETE CASCADE).
Deleting == /\ account' = "gone" /\ vault' = None /\ records' = FALSE
            /\ Leave(Deleter)
            /\ UNCHANGED <<run, session, import, siteVars, excused>>
DeleteAtOnce == Deleting
Delete == inside[acct] = Deleter /\ Deleting

\* A label that does not match, or a cancelled request.
NotDeleted == /\ Leave(Deleter)
              /\ UNCHANGED <<account, vault, records, run, session, import, siteVars, excused>>

ByHand == \/ OpenSession \/ UserLogsIn \/ SaveLogin \/ DropSession
          \/ \E f \in BOOLEAN : CheckLogin(f)
          \/ \E t, r \in BOOLEAN : ReadSkeleton(t, r)
          \/ Validate \/ ImportFails \/ SaveImport
          \/ PutLogin \/ PutBlank \/ DeleteSecret \/ AskToDelete \/ Delete \/ NotDeleted
          \/ \E s \in {"enabled", "disabled"} : SetEnabled(s)

Next == \/ \E r \in Runs : Run(r)
        \/ Grant
        \/ ByHand
        \/ Revoke

Spec == Init /\ [][Next]_vars
-----------------------------------------------------------------------------
Stages == {"idle", "asking", "mission", "refreshing", "again", "answered", "recorded"}
LoginTypeOK ==
    /\ account \in {"enabled", "disabled", "gone"}
    /\ vault \in {None} \union State
    /\ records \in BOOLEAN /\ excused \in BOOLEAN
    /\ run \in [Runs -> [stage : Stages, read : State, browser : State, pair : State,
                         verified : BOOLEAN, raced : BOOLEAN]]
    /\ session \in [stage : {"none", "open", "closing"}, state : State]
    /\ import \in {None} \union Import
    /\ issued \in 0 .. Issues /\ fresh \subseteq 1 .. issued

\* Nothing outlives a deleted account: no secret and no record of it is left or written
\* later, and no run that has looked the account up works on after the deletion.
AccountDataInv ==
    /\ LoginTypeOK
    /\ account = "gone" =>
        /\ vault = None /\ ~records
        /\ \A r \in Runs : run[r].stage \in {"idle", "asking"}

\* A run or an import holds the successor of a refresh token it has used.
InFlight == \/ \E r \in Runs : run[r].pair.refresh # run[r].read.refresh
            \/ import # None /\ import.pair.refresh # import.read.refresh

\* The stored login stays one the site accepts, through expired tokens, rotations,
\* runs by hand and by schedule, unless the site ended it, a run or import that used
\* the refresh token failed before it stored the successor, or a write by hand (a
\* login, an import) and a run or import overlapped: only hand writes race with runs,
\* runs never with each other.
LoginSurvives ==
    vault \notin {None, Blank} /\ ~excused /\ ~InFlight => vault.refresh \in fresh
=============================================================================
