------------------------- MODULE LoginStateProofs -------------------------
(***************************************************************************)
(* Proofs about the two components whose state is in the vault: LoginState *)
(* and, in the second part, Notifications.                                 *)
(*                                                                         *)
(* LoginState: the login stored for an account goes on being one that the  *)
(* site accepts.  The argument follows the newest refresh token: it is in  *)
(* the vault, or in the hands of the one run inside the gate, or in the    *)
(* hands of the token import, and nobody else has it.                      *)
(*                                                                         *)
(* Notifications: the migration of the old secrets loses nothing, because  *)
(* it deletes one only when its channel is assigned, and a delivery stays  *)
(* apart from other deliveries and from users, because it goes along a     *)
(* list of its own.                                                        *)
(***************************************************************************)
EXTENDS LoginState, Notifications, DequeProofs, FiniteSetTheorems

Members == Runs \union {Deleter}
Operation == [task : Members, kind : {"use", "delete"}]

Past(r) == run[r].stage \notin {"idle", "asking"}

LineTypeOK == /\ line \in [{acct} -> Seq(Operation)]
              /\ inside \in [{acct} -> Members \union {None}]

\* Whoever is inside stands in the line, so that an empty line lets the next one in.
InsideStandsInLine ==
    inside[acct] # None => \E i \in DOMAIN line[acct] : line[acct][i].task = inside[acct]

\* A run that has read the vault is inside the gate, hence it is the only one.
AlonePast == \A r \in Runs : Past(r) => inside[acct] = r

\* What a run has in its hands at each of its stages.
InHand ==
    \A r \in Runs :
        /\ ~Past(r) => run[r] = [NoRun EXCEPT !.stage = run[r].stage]
        /\ At(r, "mission") \/ At(r, "refreshing") => run[r].pair = run[r].read
        /\ run[r].browser \in {run[r].read, run[r].pair}
        /\ run[r].pair # run[r].read => run[r].read # Blank
        /\ run[r].verified => At(r, "answered") \/ At(r, "recorded")

\* Unless somebody wrote by hand, the vault is as the run that may store has read it.
VaultAsRead ==
    \A r \in Runs :
        /\ \/ At(r, "mission") \/ At(r, "refreshing") \/ At(r, "again")
           \/ run[r].verified
        /\ ~run[r].raced
        => vault = run[r].read

\* No refresh token is held before the site issues it.
Held(state) == state.refresh <= issued
AllIssued ==
    /\ vault # None => Held(vault)
    /\ Held(session.state)
    /\ import # None => Held(import.read) /\ Held(import.pair) /\ import.read # Blank
    /\ \A r \in Runs : Held(run[r].read) /\ Held(run[r].pair)

\* The import has a refresh token of its own, from the user or from the site.
Imported == import # None /\ import.pair.refresh # import.read.refresh

\* Nobody else has it, so it is accepted until every older one is gone.
ImportIsPrivate ==
    Imported => LET n == import.pair.refresh IN
        /\ n > import.read.refresh
        /\ vault # None => vault.refresh # n
        /\ session.state.refresh # n
        /\ \A r \in Runs : run[r].read.refresh # n /\ run[r].pair.refresh # n
        /\ n \in fresh \/ \A f \in fresh : f > n

\* Nobody else has the successor that a run got from the site.
RunIsPrivate ==
    \A r \in Runs : Wasted(r) => LET n == run[r].pair.refresh IN
        /\ n > run[r].read.refresh
        /\ vault # None => vault.refresh # n
        /\ session.state.refresh # n
        /\ import # None => import.read.refresh # n /\ import.pair.refresh # n
        /\ run[r].raced \/ excused \/ n \in fresh

\* The stored login is accepted, or somebody holds its successor.
SuccessorIsHeld ==
    vault \notin {None, Blank} /\ ~excused =>
        \/ vault.refresh \in fresh
        \/ \E r \in Runs : Wasted(r)
        \/ Imported /\ vault.refresh = import.read.refresh /\ import.pair.refresh \in fresh

Gated == LineTypeOK /\ InsideStandsInLine
Private == AllIssued /\ ImportIsPrivate /\ RunIsPrivate /\ SuccessorIsHeld
LInv == Gated /\ AccountDataInv /\ AlonePast /\ InHand /\ VaultAsRead /\ Private

-----------------------------------------------------------------------------
(* The gate *)

\* A request joins the line behind the operation that is inside.
LEMMA JoinKeepsGate ==
    ASSUME Gated, NEW t \in Members, NEW k \in {"use", "delete"}, Gate!Join(acct, t, k)
    PROVE  /\ Gated'
           /\ inside[acct] # None => inside'[acct] = inside[acct]
<1> DEFINE op == [task |-> t, kind |-> k]
<1>1. line[acct] \in Seq(Operation) /\ op \in Operation /\ Len(line[acct]) \in Nat
  BY DEF Gated, LineTypeOK, Operation
<1>2. /\ line' = [line EXCEPT ![acct] = Append(line[acct], op)]
      /\ inside' = IF line[acct] = <<>> THEN [inside EXCEPT ![acct] = t] ELSE inside
  BY DEF Gate!Join
<1>3. /\ Append(line[acct], op) \in Seq(Operation)
      /\ DOMAIN Append(line[acct], op) = 1 .. (Len(line[acct]) + 1)
      /\ \A i \in 1 .. Len(line[acct]) : Append(line[acct], op)[i] = line[acct][i]
      /\ Append(line[acct], op)[Len(line[acct]) + 1] = op
  BY <1>1, AppendProperties
<1>4. LineTypeOK'
  BY <1>1, <1>2, <1>3 DEF Gated, LineTypeOK
<1>5. line'[acct] = Append(line[acct], op)
  BY <1>2 DEF Gated, LineTypeOK
<1>6. CASE line[acct] = <<>>
  <2>1. inside[acct] = None
    BY <1>6 DEF Gated, InsideStandsInLine
  <2>2. inside'[acct] = t /\ op.task = t
    BY <1>2, <1>6 DEF Gated, LineTypeOK
  <2>3. Len(line[acct]) + 1 \in DOMAIN line'[acct] /\ line'[acct][Len(line[acct]) + 1].task = t
    BY <1>1, <1>3, <1>5, <2>2
  <2> QED BY <1>4, <2>1, <2>2, <2>3 DEF Gated, InsideStandsInLine
<1>7. CASE line[acct] # <<>>
  <2>1. inside' = inside
    BY <1>2, <1>7
  <2>2. ASSUME inside[acct] # None
        PROVE  \E i \in DOMAIN line'[acct] : line'[acct][i].task = inside[acct]
    <3>1. PICK i \in DOMAIN line[acct] : line[acct][i].task = inside[acct]
      BY <2>2 DEF Gated, InsideStandsInLine
    <3>2. i \in 1 .. Len(line[acct])
      BY <1>1, <3>1
    <3> QED BY <1>1, <1>3, <1>5, <3>1, <3>2
  <2> QED BY <1>4, <2>1, <2>2 DEF Gated, InsideStandsInLine
<1> QED BY <1>6, <1>7

\* Only the operation that leaves goes from the line, and from the inside.
LEMMA LeaveKeepsGate ==
    ASSUME Gated, NEW t \in Members, Leave(t)
    PROVE  /\ Gated'
           /\ inside'[acct] = IF inside[acct] = t THEN None ELSE inside[acct]
<1>1. PICK i \in DOMAIN line[acct] : line[acct][i].task = t /\ Gate!Leave(acct, i)
  BY DEF Leave
<1> DEFINE q == line[acct]
           w == RemoveAt(q, i)
<1>2. q \in Seq(Operation) /\ Len(q) \in Nat /\ i \in 1 .. Len(q)
  BY DEF Gated, LineTypeOK
<1>3. /\ line' = [line EXCEPT ![acct] = w]
      /\ inside' = IF inside[acct] = t THEN [inside EXCEPT ![acct] = None] ELSE inside
  BY <1>1 DEF Gate!Leave, Gate!RemoveAt, RemoveAt
<1>4. /\ w \in Seq(Operation) /\ Len(w) = Len(q) - 1 /\ DOMAIN w = 1 .. (Len(q) - 1)
      /\ \A j \in 1 .. (Len(q) - 1) : w[j] = IF j < i THEN q[j] ELSE q[j + 1]
  <2> HIDE DEF q
  <2> QED BY <1>2, RemoveAtPlaces
<1> HIDE DEF w
<1>5. LineTypeOK' /\ line'[acct] = w
  BY <1>3, <1>4 DEF Gated, LineTypeOK
<1>6. inside'[acct] = IF inside[acct] = t THEN None ELSE inside[acct]
  BY <1>3 DEF Gated, LineTypeOK
<1>7. ASSUME inside'[acct] # None
      PROVE  \E j \in DOMAIN w : w[j].task = inside'[acct]
  <2>1. inside[acct] # t /\ inside'[acct] = inside[acct]
    BY <1>6, <1>7
  <2>2. PICK j \in DOMAIN q : q[j].task = inside[acct]
    BY <1>7, <2>1 DEF Gated, InsideStandsInLine
  <2>3. j \in 1 .. Len(q) /\ j # i
    BY <1>1, <1>2, <2>1, <2>2
  <2> HIDE DEF q
  <2>4. CASE j < i
    <3>1. j \in 1 .. (Len(q) - 1) /\ w[j] = q[j]
      BY <1>2, <1>4, <2>3, <2>4
    <3> QED BY <1>4, <2>1, <2>2, <3>1
  <2>5. CASE j > i
    <3>1. j - 1 \in 1 .. (Len(q) - 1) /\ ~(j - 1 < i) /\ (j - 1) + 1 = j
      BY <1>2, <2>3, <2>5
    <3>2. w[j - 1] = q[j]
      BY <1>4, <3>1
    <3> QED BY <1>4, <2>1, <2>2, <3>1, <3>2
  <2> QED BY <1>2, <2>3, <2>4, <2>5
<1> QED BY <1>5, <1>6, <1>7 DEF Gated, InsideStandsInLine

\* The one at the head of the line goes in when nobody is inside.
LEMMA EnterKeepsGate ==
    ASSUME Gated, Gate!Enter(acct)
    PROVE  Gated' /\ inside[acct] = None
<1>1. line[acct] \in Seq(Operation) /\ line[acct] # <<>>
  BY DEF Gated, LineTypeOK, Gate!Enter
<1>2. Head(line[acct]) = line[acct][1] /\ 1 \in DOMAIN line[acct] /\ line[acct][1] \in Operation
  BY <1>1
<1>3. inside' = [inside EXCEPT ![acct] = line[acct][1].task] /\ line' = line
  BY <1>2 DEF Gate!Enter
<1>4. inside'[acct] = line[acct][1].task /\ line[acct][1].task \in Members
  BY <1>2, <1>3 DEF Gated, LineTypeOK, Operation
<1> QED BY <1>2, <1>3, <1>4 DEF Gated, LineTypeOK, InsideStandsInLine, Gate!Enter

-----------------------------------------------------------------------------
(* The run inside the gate *)

RunState == [stage : Stages, read : State, browser : State, pair : State,
             verified : BOOLEAN, raced : BOOLEAN]
SiteTypeOK == /\ issued \in 0 .. Issues /\ fresh \subseteq 1 .. issued
              /\ records \in BOOLEAN /\ excused \in BOOLEAN

\* Stages at which a run takes the vault to be as it has read it.
Trusting(x) == x.stage \in {"mission", "refreshing", "again"} \/ x.verified

\* A run before its turn has nothing in its hands.
Bare(x) == /\ x.read = Blank /\ x.browser = Blank /\ x.pair = Blank
           /\ ~x.verified /\ ~x.raced

LEMMA NoRunIsBare ==
    /\ NoRun \in RunState /\ Bare(NoRun) /\ NoRun.stage = "idle"
    /\ \A s \in Stages : LET x == [NoRun EXCEPT !.stage = s] IN
            x \in RunState /\ Bare(x) /\ x.stage = s
<1>1. Blank \in State
  BY TokensAreNumbered DEF Blank, State
<1> QED BY <1>1 DEF NoRun, RunState, Bare, Stages

\* The other runs wait for their turn, and the account is there.
LEMMA OnlyOneIsPast ==
    ASSUME LInv, NEW r \in Runs, Past(r)
    PROVE  /\ run[r] \in RunState /\ inside[acct] = r /\ account # "gone"
           /\ \A q \in Runs : q # r => ~Past(q) /\ ~Wasted(q) /\ ~Trusting(run[q])
           /\ \A q \in Runs : run[q] \in RunState
<1>1. \A q \in Runs : run[q] \in RunState
  BY DEF LInv, AccountDataInv, LoginTypeOK, RunState
<1>2. account # "gone" /\ inside[acct] = r
  BY DEF LInv, AccountDataInv, AlonePast, Past
<1>3. ASSUME NEW q \in Runs, q # r
      PROVE  ~Past(q) /\ ~Wasted(q) /\ ~Trusting(run[q])
  <2>1. ~Past(q)
    BY <1>2, <1>3 DEF LInv, AlonePast
  <2>2. run[q] = [NoRun EXCEPT !.stage = run[q].stage] /\ run[q].stage \in Stages
    BY <1>1, <2>1 DEF LInv, InHand, RunState
  <2>3. Bare(run[q])
    BY <2>2, NoRunIsBare
  <2> QED BY <2>1, <2>3 DEF Past, Bare, Wasted, Trusting
<1> QED BY <1>1, <1>2, <1>3

\* A run goes on with what it has read: nothing but the tokens may have moved.
LEMMA RunGoesOn ==
    ASSUME LInv, NEW r \in Runs, Past(r), NEW x \in RunState,
           run' = [run EXCEPT ![r] = x], UNCHANGED <<line, inside, account, vault, session, import>>,
           SiteTypeOK',
           x.stage \notin {"idle", "asking"}, x.read = run[r].read, x.raced = run[r].raced,
           x.browser \in {x.read, x.pair}, x.pair # x.read => x.read # Blank,
           x.stage \in {"mission", "refreshing"} => x.pair = x.read,
           x.verified => x.stage \in {"answered", "recorded"},
           Trusting(x) => Trusting(run[r])
    PROVE  Gated' /\ AccountDataInv' /\ AlonePast' /\ InHand' /\ VaultAsRead'
<1>1. /\ account # "gone" /\ inside[acct] = r
      /\ \A q \in Runs : q # r => ~Past(q) /\ ~Trusting(run[q])
  BY OnlyOneIsPast
<1>2. run \in [Runs -> RunState]
  BY DEF LInv, AccountDataInv, LoginTypeOK, RunState
<1>3. /\ run' \in [Runs -> RunState] /\ run'[r] = x
      /\ \A q \in Runs : q # r => run'[q] = run[q]
  BY <1>2
<1>4. Gated'
  BY DEF LInv, Gated, LineTypeOK, InsideStandsInLine
<1>5. AccountDataInv'
  BY <1>1, <1>3 DEF LInv, AccountDataInv, LoginTypeOK, RunState, SiteTypeOK
<1>6. AlonePast'
  BY <1>1, <1>3 DEF AlonePast, Past
<1>7. InHand'
  BY <1>3 DEF LInv, InHand, Past, At
<1>8. VaultAsRead'
  BY <1>1, <1>3 DEF LInv, VaultAsRead, Trusting, At
<1> QED BY <1>4, <1>5, <1>6, <1>7, <1>8

\* The tokens stay where they are.
LEMMA TokensStay ==
    ASSUME LInv, run' \in [Runs -> RunState],
           \A r \in Runs : /\ run'[r].read = run[r].read /\ run'[r].pair = run[r].pair
                           /\ run[r].raced => run'[r].raced,
           UNCHANGED <<vault, session, import, issued, fresh, excused>>
    PROVE  Private'
<1>1. AllIssued'
  BY DEF LInv, Private, AllIssued, Held
<1>2. ImportIsPrivate'
  BY DEF LInv, Private, ImportIsPrivate, Imported
<1>3. RunIsPrivate'
  BY DEF LInv, Private, RunIsPrivate, Wasted
<1>4. SuccessorIsHeld'
  BY DEF LInv, Private, SuccessorIsHeld, Wasted, Imported
<1> QED BY <1>1, <1>2, <1>3, <1>4 DEF Private

LEMMA MissionStep == ASSUME LInv, NEW r \in Runs, Mission(r) PROVE LInv'
<1>1. run[r] \in RunState /\ SiteTypeOK
  BY DEF LInv, AccountDataInv, LoginTypeOK, RunState, SiteTypeOK
<1>2. run[r].stage = "mission" /\ Past(r) /\ run[r].pair = run[r].read /\ ~run[r].verified
  BY <1>1 DEF Mission, At, Past, LInv, InHand
<1>3. PICK s \in {"answered", "refreshing"}, v \in BOOLEAN :
        /\ run' = [run EXCEPT ![r] = [run[r] EXCEPT !.stage = s, !.verified = v]]
        /\ v => s = "answered"
  <2>1. ASSUME NEW v \in BOOLEAN, Answer(r, v)
        PROVE  run' = [run EXCEPT ![r] = [run[r] EXCEPT !.stage = "answered", !.verified = v]]
    BY <2>1 DEF Answer, LInv, AccountDataInv, LoginTypeOK
  <2>2. ASSUME Go(r, "refreshing")
        PROVE  run' = [run EXCEPT ![r] = [run[r] EXCEPT !.stage = "refreshing", !.verified = FALSE]]
    BY <2>2, <1>1, <1>2 DEF Go, RunState
  <2> QED BY <2>1, <2>2 DEF Mission
<1> DEFINE x == [run[r] EXCEPT !.stage = s, !.verified = v]
<1>4. /\ x \in RunState /\ x.stage = s /\ x.verified = v
      /\ x.read = run[r].read /\ x.pair = run[r].pair /\ x.browser = run[r].browser
      /\ x.raced = run[r].raced
  BY <1>1 DEF RunState, Stages
<1> HIDE DEF x
<1>5. run' = [run EXCEPT ![r] = x]
  BY <1>3 DEF x
<1>6. Gated' /\ AccountDataInv' /\ AlonePast' /\ InHand' /\ VaultAsRead'
  <2>1. /\ x.browser \in {x.read, x.pair} /\ Trusting(run[r])
        /\ x.pair # x.read => x.read # Blank
    BY <1>2, <1>4 DEF LInv, InHand, Trusting
  <2>2. SiteTypeOK' /\ UNCHANGED <<line, inside, account, vault, session, import>>
    BY <1>1 DEF Mission, SiteTypeOK, gateVars, siteVars
  <2>3. /\ x.stage \notin {"idle", "asking"}
        /\ x.stage \in {"mission", "refreshing"} => x.pair = x.read
        /\ x.verified => x.stage \in {"answered", "recorded"}
    BY <1>2, <1>3, <1>4
  <2> QED BY <1>2, <1>4, <1>5, <2>1, <2>2, <2>3, RunGoesOn
<1>7. Private'
  <2>1. run \in [Runs -> RunState]
    BY DEF LInv, AccountDataInv, LoginTypeOK, RunState
  <2>2. /\ run' \in [Runs -> RunState]
        /\ \A q \in Runs : /\ run'[q].read = run[q].read /\ run'[q].pair = run[q].pair
                           /\ run[q].raced => run'[q].raced
    BY <2>1, <1>4, <1>5
  <2> QED BY <2>2, TokensStay DEF Mission, siteVars
<1> QED BY <1>6, <1>7 DEF LInv

LEMMA MissionAgainStep == ASSUME LInv, NEW r \in Runs, MissionAgain(r) PROVE LInv'
<1>1. run[r] \in RunState /\ SiteTypeOK /\ run \in [Runs -> RunState]
  BY DEF LInv, AccountDataInv, LoginTypeOK, RunState, SiteTypeOK
<1>2. run[r].stage = "again" /\ Past(r)
  BY <1>1 DEF MissionAgain, At, Past
<1>3. PICK kept \in BOOLEAN, v \in BOOLEAN :
        run' = [run EXCEPT ![r] = [run[r] EXCEPT !.browser = IF kept THEN run[r].pair ELSE run[r].browser,
                                                 !.stage = "answered", !.verified = v]]
  BY <1>1, ZenonT(60) DEF MissionAgain
<1> DEFINE x == [run[r] EXCEPT !.browser = IF kept THEN run[r].pair ELSE run[r].browser,
                               !.stage = "answered", !.verified = v]
<1>4. /\ x \in RunState /\ x.stage = "answered"
      /\ x.read = run[r].read /\ x.pair = run[r].pair /\ x.raced = run[r].raced
      /\ x.browser \in {run[r].pair, run[r].browser}
  BY <1>1 DEF RunState, Stages
<1>5. run' = [run EXCEPT ![r] = x]
  BY <1>3
<1> HIDE DEF x
<1>6. Gated' /\ AccountDataInv' /\ AlonePast' /\ InHand' /\ VaultAsRead'
  <2>1. /\ x.browser \in {x.read, x.pair} /\ Trusting(run[r])
        /\ x.pair # x.read => x.read # Blank
    BY <1>2, <1>4 DEF LInv, InHand, Trusting
  <2>2. SiteTypeOK' /\ UNCHANGED <<line, inside, account, vault, session, import>>
    BY <1>1 DEF MissionAgain, SiteTypeOK, gateVars, siteVars
  <2> QED BY <1>2, <1>4, <1>5, <2>1, <2>2, RunGoesOn
<1>7. Private'
  <2>1. /\ run' \in [Runs -> RunState]
        /\ \A q \in Runs : /\ run'[q].read = run[q].read /\ run'[q].pair = run[q].pair
                           /\ run[q].raced => run'[q].raced
    BY <1>1, <1>4, <1>5
  <2> QED BY <2>1, TokensStay DEF MissionAgain, siteVars
<1> QED BY <1>6, <1>7 DEF LInv

LEMMA RecordStep == ASSUME LInv, NEW r \in Runs, Record(r) PROVE LInv'
<1>1. run[r] \in RunState /\ SiteTypeOK /\ run \in [Runs -> RunState]
  BY DEF LInv, AccountDataInv, LoginTypeOK, RunState, SiteTypeOK
<1>2. run[r].stage = "answered" /\ Past(r)
  BY <1>1 DEF Record, At, Past
<1> DEFINE x == [run[r] EXCEPT !.stage = "recorded"]
<1>3. /\ x \in RunState /\ x.stage = "recorded" /\ x.verified = run[r].verified
      /\ x.read = run[r].read /\ x.pair = run[r].pair /\ x.browser = run[r].browser
      /\ x.raced = run[r].raced
  BY <1>1 DEF RunState, Stages
<1>4. run' = [run EXCEPT ![r] = x]
  BY <1>1 DEF Record, Go
<1> HIDE DEF x
<1>5. Gated' /\ AccountDataInv' /\ AlonePast' /\ InHand' /\ VaultAsRead'
  <2>1. /\ x.browser \in {x.read, x.pair} /\ (Trusting(x) => Trusting(run[r]))
        /\ x.pair # x.read => x.read # Blank
    BY <1>3 DEF LInv, InHand, Trusting
  <2>2. SiteTypeOK' /\ UNCHANGED <<line, inside, account, vault, session, import>>
    BY <1>1 DEF Record, SiteTypeOK, gateVars, siteVars
  <2> QED BY <1>2, <1>3, <1>4, <2>1, <2>2, RunGoesOn
<1>6. Private'
  <2>1. /\ run' \in [Runs -> RunState]
        /\ \A q \in Runs : /\ run'[q].read = run[q].read /\ run'[q].pair = run[q].pair
                           /\ run[q].raced => run'[q].raced
    BY <1>1, <1>3, <1>4
  <2> QED BY <2>1, TokensStay DEF Record, siteVars
<1> QED BY <1>5, <1>6 DEF LInv

\* The site replaces the token in the hands of the run: if it was the one of the vault,
\* the run has its successor now.
LEMMA SuccessorForRun ==
    ASSUME LInv, NEW r \in Runs, Past(r), run[r].pair = run[r].read,
           NEW new \in State, Answered(run[r].pair, new), NEW x \in RunState,
           run' = [run EXCEPT ![r] = x], x.pair = new, x.read = run[r].read,
           UNCHANGED <<vault, records, session, import, excused>>
    PROVE  Private' /\ SiteTypeOK'
<1> DEFINE old == run[r].pair.refresh
<1>1. /\ run \in [Runs -> RunState]
      /\ issued \in 0 .. Issues /\ fresh \subseteq 1 .. issued
  BY DEF LInv, AccountDataInv, LoginTypeOK, RunState
<1>2. /\ run'[r] = x /\ \A q \in Runs : q # r => run'[q] = run[q]
      /\ \A q \in Runs : q # r => ~Wasted(q)
  BY <1>1, OnlyOneIsPast
<1>3. /\ issued < Issues /\ issued' = issued + 1 /\ old \in fresh
      /\ fresh' \subseteq fresh \union {issued + 1} /\ fresh \subseteq fresh' \union {old}
      /\ \/ new.refresh = issued + 1 /\ issued + 1 \in fresh'
         \/ new.refresh = old /\ fresh' = fresh
  BY DEF Answered, Issue
<1> HIDE DEF old
<1>4. SiteTypeOK'
  <2>1. issued' \in 0 .. Issues /\ fresh' \subseteq 1 .. issued'
    BY <1>1, <1>3, TokensAreNumbered
  <2> QED BY <2>1 DEF SiteTypeOK, LInv, AccountDataInv, LoginTypeOK
<1>5. /\ old <= issued /\ old \in Nat
      /\ vault # None => vault.refresh <= issued /\ vault.refresh \in Nat
      /\ session.state.refresh <= issued /\ session.state.refresh \in Nat
      /\ import # None => /\ import.read.refresh <= issued /\ import.pair.refresh <= issued
                          /\ import.read.refresh \in Nat /\ import.pair.refresh \in Nat
      /\ run[r].read.refresh = old
  BY <1>1, <1>3, TokensAreNumbered
     DEF LInv, Private, AllIssued, Held, AccountDataInv, LoginTypeOK, State, Import, old
<1>6. AllIssued'
  <2>1. \A q \in Runs : /\ run[q].read.refresh \in Nat /\ run[q].pair.refresh \in Nat
                        /\ run[q].read.refresh <= issued /\ run[q].pair.refresh <= issued
    BY <1>1, TokensAreNumbered DEF LInv, Private, AllIssued, Held, RunState, State
  <2> QED BY <1>1, <1>2, <1>3, <1>5, <2>1 DEF AllIssued, Held, LInv, Private
<1>7. ImportIsPrivate'
  <2> SUFFICES ASSUME Imported PROVE ImportIsPrivate'
    BY DEF ImportIsPrivate, Imported
  <2> DEFINE n == import.pair.refresh
  <2>1. /\ n > import.read.refresh /\ n \in Nat /\ n <= issued
        /\ vault # None => vault.refresh # n
        /\ session.state.refresh # n
        /\ \A q \in Runs : run[q].read.refresh # n /\ run[q].pair.refresh # n
        /\ n \in fresh \/ \A f \in fresh : f > n
    BY <1>5 DEF LInv, Private, ImportIsPrivate, Imported
  <2> HIDE DEF n
  <2>2. n \in fresh' \/ \A f \in fresh' : f > n
    BY <1>1, <1>3, <2>1 DEF old
  <2>3. \A q \in Runs : run'[q].read.refresh # n /\ run'[q].pair.refresh # n
    BY <1>1, <1>2, <1>3, <2>1 DEF old
  <2> QED BY <2>1, <2>2, <2>3 DEF ImportIsPrivate, Imported, n
<1>8. RunIsPrivate'
  <2>1. ASSUME Wasted(r)'
        PROVE  new.refresh = issued + 1 /\ issued + 1 \in fresh'
    BY <1>2, <1>3, <1>5, <2>1 DEF Wasted
  <2>2. \A q \in Runs : Wasted(q)' => q = r
    BY <1>2 DEF Wasted
  <2> QED BY <1>1, <1>2, <1>5, <2>1, <2>2 DEF RunIsPrivate
<1>9. SuccessorIsHeld'
  <2> SUFFICES ASSUME vault \notin {None, Blank}, ~excused, ~Wasted(r)'
               PROVE  \/ vault.refresh \in fresh'
                      \/ Imported /\ vault.refresh = import.read.refresh /\ import.pair.refresh \in fresh'
    BY DEF SuccessorIsHeld, Imported
  <2>1. fresh' = fresh
    BY <1>1, <1>2, <1>3, <1>5 DEF Wasted
  <2>2. \A q \in Runs : ~Wasted(q)
    BY <1>2 DEF Wasted
  <2> QED BY <2>1, <2>2 DEF LInv, Private, SuccessorIsHeld
<1> QED BY <1>4, <1>6, <1>7, <1>8, <1>9 DEF Private

LEMMA RefreshStep == ASSUME LInv, NEW r \in Runs, Refresh(r) PROVE LInv'
<1>1. run[r] \in RunState /\ SiteTypeOK /\ run \in [Runs -> RunState]
  BY DEF LInv, AccountDataInv, LoginTypeOK, RunState, SiteTypeOK
<1>2. run[r].stage = "refreshing" /\ Past(r) /\ run[r].pair = run[r].read /\ ~run[r].verified
  BY <1>1 DEF Refresh, At, Past, LInv, InHand
<1>3. Trusting(run[r]) /\ run[r].browser = run[r].read
  BY <1>2 DEF LInv, InHand, Trusting
<1>4. UNCHANGED <<line, inside, account, vault, records, session, import, excused>>
  BY DEF Refresh, gateVars
<1>5. CASE Answer(r, FALSE) /\ UNCHANGED siteVars
  <2> DEFINE x == [run[r] EXCEPT !.stage = "answered", !.verified = FALSE]
  <2>1. /\ x \in RunState /\ x.stage = "answered" /\ ~x.verified
        /\ x.read = run[r].read /\ x.pair = run[r].pair /\ x.browser = run[r].browser
        /\ x.raced = run[r].raced
    BY <1>1 DEF RunState, Stages
  <2>2. run' = [run EXCEPT ![r] = x]
    BY <1>1, <1>5 DEF Answer
  <2> HIDE DEF x
  <2>3. SiteTypeOK'
    BY <1>1, <1>4, <1>5 DEF SiteTypeOK, siteVars
  <2>4. Gated' /\ AccountDataInv' /\ AlonePast' /\ InHand' /\ VaultAsRead'
    BY <1>2, <1>3, <1>4, <2>1, <2>2, <2>3, RunGoesOn
  <2>5. /\ run' \in [Runs -> RunState]
        /\ \A q \in Runs : /\ run'[q].read = run[q].read /\ run'[q].pair = run[q].pair
                           /\ run[q].raced => run'[q].raced
    BY <1>1, <2>1, <2>2
  <2>6. Private'
    BY <1>4, <1>5, <2>5, TokensStay DEF siteVars
  <2> QED BY <2>4, <2>6 DEF LInv
<1>6. ASSUME NEW new \in State, NEW heard \in BOOLEAN, Answered(run[r].pair, new),
             run' = [run EXCEPT ![r].pair = new,
                                ![r].stage = IF heard THEN "again" ELSE "answered"]
      PROVE  LInv'
  <2> DEFINE x == [run[r] EXCEPT !.pair = new, !.stage = IF heard THEN "again" ELSE "answered"]
  <2>1. /\ x \in RunState /\ x.stage \in {"again", "answered"} /\ x.verified = run[r].verified
        /\ x.read = run[r].read /\ x.pair = new /\ x.browser = run[r].browser
        /\ x.raced = run[r].raced
    BY <1>1 DEF RunState, Stages
  <2>2. run' = [run EXCEPT ![r] = x]
    BY <1>1, <1>6
  <2> HIDE DEF x
  <2>3. Private' /\ SiteTypeOK'
    BY <1>2, <1>4, <1>6, <2>1, <2>2, SuccessorForRun
  <2>4. x.read # Blank
    <3>1. x.read.refresh \in 1 .. issued
      BY <1>2, <1>6, <2>1 DEF Answered, LInv, AccountDataInv, LoginTypeOK
    <3> QED BY <3>1 DEF Blank
  <2>5. Gated' /\ AccountDataInv' /\ AlonePast' /\ InHand' /\ VaultAsRead'
    BY <1>2, <1>3, <1>4, <2>1, <2>2, <2>3, <2>4, RunGoesOn
  <2> QED BY <2>3, <2>5 DEF LInv
<1> QED BY <1>5, <1>6 DEF Refresh

\* Inside the gate a run reads the vault, when nobody else has anything in his hands.
LEMMA ReadStep == ASSUME LInv, NEW r \in Runs, Read(r) PROVE LInv'
<1>1. run \in [Runs -> RunState] /\ run[r].stage = "asking" /\ inside[acct] = r
  BY DEF LInv, AccountDataInv, LoginTypeOK, RunState, Read
<1>2. /\ account = "enabled"
      /\ UNCHANGED <<line, inside, account, vault, records, session, import, issued, fresh, excused>>
  BY DEF Read, gateVars, siteVars
<1>3. vault \in {None} \union State /\ Blank \in State /\ Blank.refresh = 0
  BY TokensAreNumbered DEF LInv, AccountDataInv, LoginTypeOK, Blank, State
<1>4. PICK x \in RunState :
        /\ run' = [run EXCEPT ![r] = x]
        /\ x.stage \in {"answered", "mission"} /\ ~x.verified /\ x.pair = x.read /\ x.browser = x.read
        /\ \/ x.read = Blank /\ x.stage = "answered"
           \/ vault # None /\ x.read = vault
  <2>1. CASE vault = None
    <3> DEFINE x == [NoRun EXCEPT !.stage = "answered"]
    <3>1. /\ x \in RunState /\ x.stage = "answered" /\ ~x.verified
          /\ x.read = Blank /\ x.pair = Blank /\ x.browser = Blank
      BY <1>3 DEF NoRun, RunState, Stages
    <3>2. run' = [run EXCEPT ![r] = x]
      BY <2>1 DEF Read
    <3> HIDE DEF x
    <3> QED BY <3>1, <3>2
  <2>2. CASE vault # None
    <3> DEFINE x == [NoRun EXCEPT !.stage = "mission", !.read = vault,
                                  !.browser = vault, !.pair = vault]
    <3>1. /\ x \in RunState /\ x.stage = "mission" /\ ~x.verified
          /\ x.read = vault /\ x.pair = vault /\ x.browser = vault
      BY <1>3, <2>2 DEF NoRun, RunState, Stages
    <3>2. run' = [run EXCEPT ![r] = x]
      BY <2>2 DEF Read
    <3> HIDE DEF x
    <3> QED BY <2>2, <3>1, <3>2
  <2> QED BY <2>1, <2>2
<1>5. /\ run' \in [Runs -> RunState] /\ run'[r] = x
      /\ \A q \in Runs : q # r => run'[q] = run[q]
  BY <1>1, <1>4
<1>6. Gated'
  BY <1>2 DEF LInv, Gated, LineTypeOK, InsideStandsInLine
<1>7. AccountDataInv'
  BY <1>2, <1>5 DEF LInv, AccountDataInv, LoginTypeOK, RunState
<1>8. AlonePast'
  BY <1>1, <1>2, <1>5 DEF LInv, AlonePast, Past
<1>9. InHand'
  BY <1>4, <1>5 DEF LInv, InHand, Past, At
<1>10. VaultAsRead'
  BY <1>2, <1>4, <1>5 DEF LInv, VaultAsRead, At
<1>11. AllIssued'
  <2>1. issued \in Nat
    BY TokensAreNumbered DEF LInv, AccountDataInv, LoginTypeOK
  <2> QED BY <1>2, <1>3, <1>4, <1>5, <2>1 DEF LInv, Private, AllIssued, Held
<1>12. ImportIsPrivate'
  <2> SUFFICES ASSUME Imported PROVE ImportIsPrivate'
    BY <1>2 DEF ImportIsPrivate, Imported
  <2>1. import.read.refresh \in Nat /\ import.pair.refresh \in Nat
    BY TokensAreNumbered DEF LInv, AccountDataInv, LoginTypeOK, Imported, Import, State
  <2>2. import.pair.refresh # 0 /\ (vault # None => vault.refresh # import.pair.refresh)
    BY <2>1 DEF LInv, Private, ImportIsPrivate
  <2>3. x.read.refresh # import.pair.refresh
    BY <1>3, <1>4, <2>2
  <2> QED BY <1>2, <1>4, <1>5, <2>3 DEF LInv, Private, ImportIsPrivate, Imported
<1>13. RunIsPrivate'
  BY <1>2, <1>4, <1>5 DEF LInv, Private, RunIsPrivate, Wasted
<1>14. SuccessorIsHeld'
  <2>1. ~Wasted(r)
    <3>1. Bare(run[r])
      BY <1>1, NoRunIsBare DEF LInv, InHand, Past, RunState
    <3> QED BY <3>1 DEF Bare, Wasted
  <2> QED BY <1>2, <1>5, <2>1 DEF LInv, Private, SuccessorIsHeld, Wasted, Imported
<1> QED BY <1>6, <1>7, <1>8, <1>9, <1>10, <1>11, <1>12, <1>13, <1>14 DEF LInv, Private

\* A run leaves the gate and drops what it has; it may have written the vault.
LEMMA RunEnds ==
    ASSUME LInv, NEW r \in Runs, Leave(r), run' = [run EXCEPT ![r] = NoRun],
           vault' = vault \/ (Past(r) /\ vault' \in State), excused' \in BOOLEAN,
           UNCHANGED <<account, records, session, import, siteVars>>
    PROVE  /\ Gated' /\ AccountDataInv' /\ AlonePast' /\ InHand' /\ VaultAsRead'
           /\ run' \in [Runs -> RunState] /\ ~Wasted(r)'
           /\ \A q \in Runs : q # r => run'[q] = run[q]
<1>1. run \in [Runs -> RunState]
  BY DEF LInv, AccountDataInv, LoginTypeOK, RunState
<1>2. NoRun \in RunState /\ Bare(NoRun) /\ NoRun.stage = "idle"
  BY NoRunIsBare
<1>3. /\ run' \in [Runs -> RunState] /\ run'[r] = NoRun
      /\ \A q \in Runs : q # r => run'[q] = run[q]
  BY <1>1, <1>2
<1>4. Gated' /\ inside'[acct] = IF inside[acct] = r THEN None ELSE inside[acct]
  BY LeaveKeepsGate DEF LInv, Members
<1>5. AccountDataInv'
  BY <1>2, <1>3 DEF LInv, AccountDataInv, LoginTypeOK, RunState, siteVars, Past
<1>6. AlonePast'
  BY <1>2, <1>3, <1>4 DEF LInv, AlonePast, Past
<1>7. InHand'
  BY <1>2, <1>3 DEF LInv, InHand, Past, At, Bare, NoRun
<1>8. VaultAsRead'
  <2>1. ASSUME NEW q \in Runs, q # r, Trusting(run[q])
        PROVE  vault' = vault
    BY <2>1, OnlyOneIsPast
  <2> QED BY <1>2, <1>3, <2>1 DEF LInv, VaultAsRead, At, Trusting, Bare
<1>9. ~Wasted(r)'
  BY <1>2, <1>3 DEF Wasted, Bare
<1> QED BY <1>3, <1>4, <1>5, <1>6, <1>7, <1>8, <1>9

\* A run that ends without storing: the vault is as it was, and only a successor that
\* the run had is lost.
LEMMA RunDrops ==
    ASSUME LInv, NEW r \in Runs, Leave(r), run' = [run EXCEPT ![r] = NoRun],
           excused' = (excused \/ Wasted(r)),
           UNCHANGED <<account, vault, records, session, import, siteVars>>
    PROVE  LInv'
<1>1. excused' \in BOOLEAN
  BY DEF LInv, AccountDataInv, LoginTypeOK
<1>2. /\ Gated' /\ AccountDataInv' /\ AlonePast' /\ InHand' /\ VaultAsRead'
      /\ run' \in [Runs -> RunState] /\ ~Wasted(r)'
      /\ \A q \in Runs : q # r => run'[q] = run[q]
      /\ run'[r] = NoRun
  <2>1. run'[r] = NoRun
    BY DEF LInv, AccountDataInv, LoginTypeOK
  <2> QED BY <1>1, <2>1, RunEnds
<1>3. NoRun.read.refresh = 0 /\ NoRun.pair.refresh = 0 /\ issued \in Nat
  BY TokensAreNumbered DEF NoRun, Blank, LInv, AccountDataInv, LoginTypeOK
<1>4. AllIssued'
  BY <1>2, <1>3 DEF LInv, Private, AllIssued, Held, siteVars
<1>5. ImportIsPrivate'
  <2>1. Imported => import.pair.refresh # 0
    BY TokensAreNumbered
       DEF LInv, AccountDataInv, LoginTypeOK, Import, State, Private, ImportIsPrivate, Imported
  <2> QED BY <1>2, <1>3, <2>1 DEF LInv, Private, ImportIsPrivate, Imported, siteVars
<1>6. RunIsPrivate'
  BY <1>2 DEF LInv, Private, RunIsPrivate, Wasted, siteVars
<1>7. SuccessorIsHeld'
  BY <1>2 DEF LInv, Private, SuccessorIsHeld, Wasted, Imported, siteVars
<1> QED BY <1>2, <1>4, <1>5, <1>6, <1>7 DEF LInv, Private

LEMMA AbandonStep == ASSUME LInv, NEW r \in Runs, Abandon(r) PROVE LInv'
BY RunDrops DEF Abandon

\* A verified run stores what its browser holds.
LEMMA StoreStep == ASSUME LInv, NEW r \in Runs, Store(r) PROVE LInv'
<1>1. CASE ~run[r].verified
  BY <1>1, RunDrops DEF Store, Storing
<1>2. CASE run[r].verified
  <2>1. /\ Leave(r) /\ run' = [run EXCEPT ![r] = NoRun] /\ vault' = run[r].browser
        /\ UNCHANGED <<account, records, session, import, siteVars>>
        /\ Past(r)
        /\ excused' = (\/ excused
                       \/ /\ run[r].browser.refresh \notin fresh
                          /\ \/ run[r].raced
                             \/ Wasted(r) /\ run[r].browser # run[r].pair)
    BY <1>2 DEF Store, Storing, At, Past
  <2>2. run[r] \in RunState /\ excused' \in BOOLEAN
    BY <2>1 DEF LInv, AccountDataInv, LoginTypeOK, RunState
  <2>3. /\ Gated' /\ AccountDataInv' /\ AlonePast' /\ InHand' /\ VaultAsRead'
        /\ run' \in [Runs -> RunState] /\ ~Wasted(r)'
        /\ \A q \in Runs : q # r => run'[q] = run[q]
        /\ run'[r] = NoRun
    <3>1. run'[r] = NoRun
      BY <2>1 DEF LInv, AccountDataInv, LoginTypeOK
    <3>2. vault' \in State
      BY <2>1, <2>2 DEF RunState
    <3> QED BY <2>1, <2>2, <3>1, <3>2, RunEnds
  <2>4. NoRun.read.refresh = 0 /\ NoRun.pair.refresh = 0 /\ issued \in Nat
    BY TokensAreNumbered DEF NoRun, Blank, LInv, AccountDataInv, LoginTypeOK
  <2>5. run[r].browser \in {run[r].read, run[r].pair} /\ \A q \in Runs : q # r => ~Wasted(q)
    BY <2>1, OnlyOneIsPast DEF LInv, InHand
  <2>6. \A q \in Runs : ~Wasted(q)'
    BY <2>3, <2>5 DEF Wasted
  <2>7. AllIssued'
    BY <2>1, <2>3, <2>4, <2>5 DEF LInv, Private, AllIssued, Held, siteVars
  <2>8. ImportIsPrivate'
    <3>1. Imported => import.pair.refresh # 0
      BY TokensAreNumbered
         DEF LInv, AccountDataInv, LoginTypeOK, Import, State, Private, ImportIsPrivate, Imported
    <3> QED BY <2>1, <2>3, <2>4, <2>5, <3>1 DEF LInv, Private, ImportIsPrivate, Imported, siteVars
  <2>9. RunIsPrivate'
    BY <2>6 DEF RunIsPrivate
  <2>10. ASSUME vault' \notin {None, Blank}, ~excused', vault'.refresh \notin fresh
         PROVE  Imported /\ vault'.refresh = import.read.refresh /\ import.pair.refresh \in fresh
    <3>1. ~excused /\ ~run[r].raced /\ (Wasted(r) => run[r].browser = run[r].pair)
      BY <2>1, <2>10
    <3>2. ~Wasted(r)
      BY <2>1, <2>10, <3>1 DEF LInv, Private, RunIsPrivate
    <3>3. vault = run[r].read
      BY <1>2, <3>1 DEF LInv, VaultAsRead
    <3>4. vault'.refresh = vault.refresh
      BY <2>1, <2>5, <3>2, <3>3 DEF Wasted
    <3>5. vault # None /\ \A q \in Runs : ~Wasted(q)
      BY <2>2, <2>5, <3>2, <3>3, NamesAreApart DEF RunState
    <3>6. CASE vault = Blank
      <4>1. run[r].pair = run[r].read
        BY <3>3, <3>6 DEF LInv, InHand
      <4> QED BY <2>1, <2>5, <2>10, <3>3, <3>6, <4>1
    <3> QED BY <2>10, <3>1, <3>4, <3>5, <3>6 DEF LInv, Private, SuccessorIsHeld
  <2>11. SuccessorIsHeld'
    BY <2>1, <2>10 DEF SuccessorIsHeld, Imported, siteVars
  <2> QED BY <2>3, <2>7, <2>8, <2>9, <2>11 DEF LInv, Private
<1> QED BY <1>1, <1>2

-----------------------------------------------------------------------------
(* The gate, the site and the account *)

\* Nobody moves inside the gate.
LEMMA RunsRest ==
    ASSUME LInv, UNCHANGED <<run, vault>>,
           Gated', inside[acct] # None => inside'[acct] = inside[acct]
    PROVE  AlonePast' /\ InHand' /\ VaultAsRead'
<1>1. AlonePast'
  BY NamesAreApart DEF LInv, AlonePast, Past
<1>2. InHand'
  BY DEF LInv, InHand, Past, At
<1>3. VaultAsRead'
  BY DEF LInv, VaultAsRead, At
<1> QED BY <1>1, <1>2, <1>3

LEMMA GateUntouched == LInv /\ UNCHANGED gateVars => Gated' /\ inside'[acct] = inside[acct]
BY DEF LInv, Gated, LineTypeOK, InsideStandsInLine, gateVars

\* Tokens, account and vault stay where they are while the line moves.
LEMMA LineMoves ==
    ASSUME LInv, UNCHANGED <<account, vault, records, run, session, import, siteVars, excused>>,
           Gated', inside[acct] # None => inside'[acct] = inside[acct]
    PROVE  LInv'
<1>1. AlonePast' /\ InHand' /\ VaultAsRead'
  BY RunsRest
<1>2. AccountDataInv'
  BY DEF LInv, AccountDataInv, LoginTypeOK, siteVars
<1>3. Private'
  <2>1. run \in [Runs -> RunState]
    BY DEF LInv, AccountDataInv, LoginTypeOK, RunState
  <2> QED BY <2>1, TokensStay DEF siteVars
<1> QED BY <1>1, <1>2, <1>3 DEF LInv

LEMMA GrantStep == ASSUME LInv, Grant PROVE LInv'
BY EnterKeepsGate, LineMoves DEF Grant, LInv

LEMMA AskToDeleteStep == ASSUME LInv, AskToDelete PROVE LInv'
BY JoinKeepsGate, LineMoves DEF AskToDelete, LInv, Members

\* The deletion was not inside when it left, or it was and no run is past its wait.
LEMMA NotDeletedStep == ASSUME LInv, NotDeleted PROVE LInv'
<1>1. /\ Gated' /\ inside'[acct] = IF inside[acct] = Deleter THEN None ELSE inside[acct]
      /\ UNCHANGED <<account, vault, records, run, session, import, siteVars, excused>>
  BY LeaveKeepsGate DEF NotDeleted, LInv, Members
<1>2. AlonePast'
  BY <1>1, NamesAreApart DEF LInv, AlonePast, Past
<1>3. InHand' /\ VaultAsRead'
  BY <1>1 DEF LInv, InHand, VaultAsRead, Past, At
<1>4. AccountDataInv'
  BY <1>1 DEF LInv, AccountDataInv, LoginTypeOK, siteVars
<1>5. Private'
  <2>1. run \in [Runs -> RunState]
    BY DEF LInv, AccountDataInv, LoginTypeOK, RunState
  <2> QED BY <1>1, <2>1, TokensStay DEF siteVars
<1> QED BY <1>1, <1>2, <1>3, <1>4, <1>5 DEF LInv

\* The deletion is inside: no run has anything in its hands.
LEMMA DeleteStep == ASSUME LInv, Delete PROVE LInv'
<1>1. /\ Gated' /\ inside[acct] = Deleter
      /\ account' = "gone" /\ vault' = None /\ records' = FALSE
      /\ UNCHANGED <<run, session, import, siteVars, excused>>
  BY LeaveKeepsGate DEF Delete, Deleting, LInv, Members
<1>2. run \in [Runs -> RunState] /\ \A r \in Runs : ~Past(r) /\ Bare(run[r])
  <2>1. run \in [Runs -> RunState] /\ \A r \in Runs : ~Past(r)
    BY <1>1, NamesAreApart DEF LInv, AlonePast, AccountDataInv, LoginTypeOK, RunState
  <2>2. ASSUME NEW r \in Runs
        PROVE  Bare(run[r])
    <3>1. run[r] = [NoRun EXCEPT !.stage = run[r].stage] /\ run[r].stage \in Stages
      BY <2>1 DEF LInv, InHand, RunState
    <3> QED BY <3>1, NoRunIsBare
  <2> QED BY <2>1, <2>2
<1>3. AlonePast' /\ InHand'
  BY <1>1, <1>2 DEF LInv, AlonePast, InHand, Past, At
<1>4. VaultAsRead'
  BY <1>1, <1>2 DEF VaultAsRead, Past, At, Bare
<1>5. AccountDataInv'
  BY <1>1, <1>2 DEF LInv, AccountDataInv, LoginTypeOK, siteVars, Past
<1>6. Private'
  BY <1>1 DEF LInv, Private, AllIssued, Held, ImportIsPrivate, RunIsPrivate, SuccessorIsHeld,
              Imported, Wasted, siteVars
<1> QED BY <1>1, <1>3, <1>4, <1>5, <1>6 DEF LInv

LEMMA AskStep == ASSUME LInv, NEW r \in Runs, Ask(r) PROVE LInv'
<1>1. /\ Gated' /\ (inside[acct] # None => inside'[acct] = inside[acct])
      /\ UNCHANGED <<account, vault, records, session, import, siteVars, excused>>
      /\ run[r].stage = "idle" /\ run' = [run EXCEPT ![r].stage = "asking"]
  BY JoinKeepsGate DEF Ask, LInv, Members
<1>2. run \in [Runs -> RunState] /\ ~Past(r)
  BY <1>1 DEF LInv, AccountDataInv, LoginTypeOK, RunState, Past
<1> DEFINE x == [NoRun EXCEPT !.stage = "asking"]
<1>3. x \in RunState /\ Bare(x) /\ x.stage = "asking"
  BY NoRunIsBare DEF Stages
<1>4. run' = [run EXCEPT ![r] = x] /\ Bare(run[r])
  <2>1. run[r] = [NoRun EXCEPT !.stage = run[r].stage] /\ run[r].stage \in Stages
    BY <1>2 DEF LInv, InHand, RunState
  <2>2. Bare(run[r])
    BY <2>1, NoRunIsBare
  <2>3. [run[r] EXCEPT !.stage = "asking"] = x
    BY <2>1 DEF NoRun
  <2> QED BY <1>1, <1>2, <2>2, <2>3
<1> HIDE DEF x
<1>5. /\ run' \in [Runs -> RunState] /\ run'[r] = x
      /\ \A q \in Runs : q # r => run'[q] = run[q]
  BY <1>2, <1>3, <1>4
<1>6. AlonePast'
  BY <1>1, <1>3, <1>5, NamesAreApart DEF LInv, AlonePast, Past
<1>7. InHand'
  <2>1. x = [NoRun EXCEPT !.stage = x.stage]
    BY <1>3 DEF x
  <2> DEFINE Hand(y) == /\ y.stage \in {"idle", "asking"} => y = [NoRun EXCEPT !.stage = y.stage]
                        /\ y.stage \in {"mission", "refreshing"} => y.pair = y.read
                        /\ y.browser \in {y.read, y.pair}
                        /\ y.pair # y.read => y.read # Blank
                        /\ y.verified => y.stage \in {"answered", "recorded"}
  <2>2. Hand(x)
    BY <1>3, <2>1 DEF Bare
  <2>3. \A q \in Runs : Hand(run[q])
    BY DEF LInv, InHand, Past, At
  <2>4. \A q \in Runs : Hand(run'[q])
    <3> HIDE DEF Hand
    <3> QED BY <1>5, <2>2, <2>3
  <2> QED BY <2>4 DEF InHand, Past, At
<1>8. VaultAsRead'
  BY <1>1, <1>3, <1>5 DEF LInv, VaultAsRead, At, Bare
<1>9. AccountDataInv'
  BY <1>1, <1>3, <1>5 DEF LInv, AccountDataInv, LoginTypeOK, RunState, siteVars
<1>10. Private'
  BY <1>1, <1>3, <1>4, <1>5, TokensStay DEF Bare, siteVars
<1> QED BY <1>1, <1>6, <1>7, <1>8, <1>9, <1>10 DEF LInv

LEMMA SetEnabledStep == ASSUME LInv, NEW s \in {"enabled", "disabled"}, SetEnabled(s) PROVE LInv'
<1>1. /\ Gated' /\ inside'[acct] = inside[acct]
      /\ UNCHANGED <<vault, records, run, session, import, siteVars, excused>>
  BY GateUntouched DEF SetEnabled
<1>2. AlonePast' /\ InHand' /\ VaultAsRead'
  BY <1>1, RunsRest
<1>3. AccountDataInv'
  BY <1>1 DEF SetEnabled, LInv, AccountDataInv, LoginTypeOK, siteVars
<1>4. Private'
  <2>1. run \in [Runs -> RunState]
    BY DEF LInv, AccountDataInv, LoginTypeOK, RunState
  <2> QED BY <1>1, <2>1, TokensStay DEF siteVars
<1> QED BY <1>1, <1>2, <1>3, <1>4 DEF LInv

LEMMA RevokeStep == ASSUME LInv, Revoke PROVE LInv'
<1>1. /\ Gated' /\ inside'[acct] = inside[acct]
      /\ UNCHANGED <<account, vault, records, run, session, import, issued>>
      /\ fresh' = {} /\ excused' = TRUE
  BY GateUntouched DEF Revoke
<1>2. AlonePast' /\ InHand' /\ VaultAsRead'
  BY <1>1, RunsRest
<1>3. AccountDataInv'
  BY <1>1 DEF LInv, AccountDataInv, LoginTypeOK
<1>4. Private'
  BY <1>1 DEF LInv, Private, AllIssued, Held, ImportIsPrivate, RunIsPrivate, SuccessorIsHeld,
              Imported, Wasted
<1> QED BY <1>1, <1>2, <1>3, <1>4 DEF LInv

-----------------------------------------------------------------------------
(* Writing by hand *)

\* The runs that have read the vault before are overtaken; nothing else of them changes.
LEMMA RunsOvertaken ==
    ASSUME LInv, NEW state, WriteByHand(state), UNCHANGED gateVars
    PROVE  /\ vault' = state /\ run' \in [Runs -> RunState]
           /\ \A r \in Runs : /\ run'[r].read = run[r].read /\ run'[r].pair = run[r].pair
                              /\ run'[r].stage = run[r].stage
                              /\ Past(r) => run'[r].raced
                              /\ Wasted(r) => run'[r].raced
           /\ Gated' /\ AlonePast' /\ InHand' /\ VaultAsRead'
<1>1. run \in [Runs -> RunState]
  BY DEF LInv, AccountDataInv, LoginTypeOK, RunState
<1>2. ASSUME NEW r \in Runs
      PROVE  /\ run'[r] = IF Past(r) THEN [run[r] EXCEPT !.raced = TRUE] ELSE run[r]
             /\ run'[r] \in RunState
  BY <1>1 DEF WriteByHand, Past, RunState
<1>3. run' \in [Runs -> RunState] /\ vault' = state
  BY <1>2 DEF WriteByHand
<1>4. ASSUME NEW r \in Runs
      PROVE  /\ run'[r].read = run[r].read /\ run'[r].pair = run[r].pair
             /\ run'[r].browser = run[r].browser /\ run'[r].verified = run[r].verified
             /\ run'[r].stage = run[r].stage
             /\ Past(r) => run'[r].raced
             /\ ~Past(r) => run'[r] = run[r] /\ Bare(run[r])
  <2>1. ~Past(r) => Bare(run[r])
    <3>1. ~Past(r) => run[r] = [NoRun EXCEPT !.stage = run[r].stage] /\ run[r].stage \in Stages
      BY <1>1 DEF LInv, InHand, RunState
    <3> QED BY <3>1, NoRunIsBare
  <2>2. run[r] \in RunState
    BY <1>1
  <2> QED BY <1>2, <2>1, <2>2 DEF RunState
<1>5. Gated' /\ inside'[acct] = inside[acct]
  BY GateUntouched
<1>6. AlonePast'
  BY <1>4, <1>5 DEF LInv, AlonePast, Past
<1>7. InHand'
  BY <1>4 DEF LInv, InHand, Past, At
<1>8. VaultAsRead'
  BY <1>4 DEF VaultAsRead, Past, At, Bare
<1> QED BY <1>3, <1>4, <1>5, <1>6, <1>7, <1>8 DEF Wasted, Bare

\* Nothing of the vault and of the runs is touched.
LEMMA ByTheSide ==
    ASSUME LInv, UNCHANGED <<gateVars, account, vault, records, run>>,
           session' \in [stage : {"none", "open", "closing"}, state : State],
           import' \in {None} \union Import, SiteTypeOK'
    PROVE  Gated' /\ AccountDataInv' /\ AlonePast' /\ InHand' /\ VaultAsRead'
<1>1. Gated' /\ inside'[acct] = inside[acct]
  BY GateUntouched
<1>2. AlonePast' /\ InHand' /\ VaultAsRead'
  BY <1>1, RunsRest
<1>3. AccountDataInv'
  BY DEF LInv, AccountDataInv, LoginTypeOK, SiteTypeOK
<1> QED BY <1>1, <1>2, <1>3

\* What is known of the numbers of the tokens that are held.
LEMMA TokensHeld ==
    ASSUME LInv
    PROVE  /\ issued \in Nat /\ SiteTypeOK /\ fresh \subseteq 1 .. issued
           /\ run \in [Runs -> RunState] /\ session.state \in State
           /\ session.stage \in {"none", "open", "closing"}
           /\ vault # None => vault \in State /\ vault.refresh \in 0 .. issued
           /\ session.state.refresh \in 0 .. issued
           /\ import # None => /\ import \in Import
                               /\ import.read.refresh \in 0 .. issued
                               /\ import.pair.refresh \in 0 .. issued
           /\ \A r \in Runs : /\ run[r].read.refresh \in 0 .. issued
                              /\ run[r].pair.refresh \in 0 .. issued
           /\ Imported => import.pair.refresh # 0
           /\ \A r \in Runs : Wasted(r) => run[r].pair.refresh # 0
<1>1. /\ issued \in Nat /\ SiteTypeOK /\ fresh \subseteq 1 .. issued
      /\ run \in [Runs -> RunState] /\ session.state \in State
      /\ session.stage \in {"none", "open", "closing"}
      /\ vault # None => vault \in State
      /\ import # None => import \in Import
  BY TokensAreNumbered DEF LInv, AccountDataInv, LoginTypeOK, SiteTypeOK, RunState
<1>2. \A s \in State : s.refresh \in Nat
  BY TokensAreNumbered DEF State
<1>3. \A s \in State : Held(s) => s.refresh \in 0 .. issued
  BY <1>1, <1>2 DEF Held
<1>4. import # None => import.read \in State /\ import.pair \in State
  BY <1>1 DEF Import
<1>5. \A r \in Runs : run[r].read \in State /\ run[r].pair \in State
  BY <1>1 DEF RunState
<1>6. /\ vault # None => vault.refresh \in 0 .. issued
      /\ session.state.refresh \in 0 .. issued
      /\ import # None => /\ import.read.refresh \in 0 .. issued
                          /\ import.pair.refresh \in 0 .. issued
      /\ \A r \in Runs : /\ run[r].read.refresh \in 0 .. issued
                         /\ run[r].pair.refresh \in 0 .. issued
  BY <1>1, <1>3, <1>4, <1>5 DEF LInv, Private, AllIssued
<1>7. Imported => import.pair.refresh # 0
  BY <1>6 DEF LInv, Private, ImportIsPrivate, Imported
<1>8. \A r \in Runs : Wasted(r) => run[r].pair.refresh # 0
  BY <1>6 DEF LInv, Private, RunIsPrivate
<1> QED BY <1>1, <1>6, <1>7, <1>8

\* An empty session is opened, checked, or closed without a word.
LEMMA SessionStep ==
    ASSUME LInv, OpenSession \/ DropSession \/ \E f \in BOOLEAN : CheckLogin(f)
    PROVE  LInv'
<1>1. Blank \in State /\ Blank.refresh = 0
  BY TokensAreNumbered DEF Blank, State
<1>2. session \in [stage : {"none", "open", "closing"}, state : State]
  BY DEF LInv, AccountDataInv, LoginTypeOK
<1>3. /\ session' \in [stage : {"none", "open", "closing"}, state : State]
      /\ session'.state \in {Blank, session.state}
      /\ UNCHANGED <<gateVars, account, vault, records, run, import, siteVars, excused>>
  <2>1. CASE OpenSession
    BY <1>1, <2>1 DEF OpenSession
  <2>2. CASE DropSession
    BY <1>1, <2>2 DEF DropSession, NoSession
  <2>3. CASE \E f \in BOOLEAN : CheckLogin(f)
    BY <1>2, <2>3 DEF CheckLogin
  <2> QED BY <2>1, <2>2, <2>3
<1>4. SiteTypeOK' /\ import' \in {None} \union Import
  BY <1>3, TokensHeld DEF SiteTypeOK, siteVars, LInv, AccountDataInv, LoginTypeOK
<1>5. Gated' /\ AccountDataInv' /\ AlonePast' /\ InHand' /\ VaultAsRead'
  BY <1>3, <1>4, ByTheSide
<1>6. session'.state.refresh = 0 \/ session'.state = session.state
  BY <1>1, <1>3
<1>7. AllIssued'
  BY <1>3, <1>6, TokensHeld DEF LInv, Private, AllIssued, Held, siteVars
<1>8. ImportIsPrivate'
  BY <1>3, <1>6, TokensHeld DEF LInv, Private, ImportIsPrivate, Imported, siteVars
<1>9. RunIsPrivate'
  BY <1>3, <1>6, TokensHeld DEF LInv, Private, RunIsPrivate, Wasted, siteVars
<1>10. SuccessorIsHeld'
  BY <1>3 DEF LInv, Private, SuccessorIsHeld, Wasted, Imported, siteVars
<1> QED BY <1>5, <1>7, <1>8, <1>9, <1>10 DEF LInv, Private

\* The user logs in: a new pair, which nobody else has.
LEMMA UserLogsInStep == ASSUME LInv, UserLogsIn PROVE LInv'
<1> DEFINE n == issued + 1
<1>1. /\ issued < Issues /\ issued' = n
      /\ fresh' = fresh \union {n}
      /\ session' = [session EXCEPT !.state = [token |-> n, refresh |-> n]]
      /\ UNCHANGED <<gateVars, account, vault, records, run, import, excused>>
  BY DEF UserLogsIn, Issue
<1>2. session \in [stage : {"none", "open", "closing"}, state : State]
  BY DEF LInv, AccountDataInv, LoginTypeOK
<1>3. /\ session' \in [stage : {"none", "open", "closing"}, state : State]
      /\ session'.state.refresh = n
  <2>1. [token |-> n, refresh |-> n] \in State
    BY <1>1, TokensAreNumbered, TokensHeld DEF State
  <2> QED BY <1>1, <1>2, <2>1
<1>4. SiteTypeOK'
  BY <1>1, TokensAreNumbered, TokensHeld DEF SiteTypeOK
<1>5. Gated' /\ AccountDataInv' /\ AlonePast' /\ InHand' /\ VaultAsRead'
  <2>1. import' \in {None} \union Import
    BY <1>1 DEF LInv, AccountDataInv, LoginTypeOK
  <2> QED BY <1>1, <1>3, <1>4, <2>1, ByTheSide
<1>6. AllIssued'
  BY <1>1, <1>3, TokensHeld DEF LInv, Private, AllIssued, Held
<1>7. ImportIsPrivate'
  BY <1>1, <1>3, TokensHeld DEF LInv, Private, ImportIsPrivate, Imported
<1>8. RunIsPrivate'
  BY <1>1, <1>3, TokensHeld DEF LInv, Private, RunIsPrivate, Wasted
<1>9. SuccessorIsHeld'
  BY <1>1 DEF LInv, Private, SuccessorIsHeld, Wasted, Imported
<1> QED BY <1>5, <1>6, <1>7, <1>8, <1>9 DEF LInv, Private

\* Saving a session overtakes the runs; its token is private to it, or was stored before.
LEMMA SaveLoginStep == ASSUME LInv, SaveLogin PROVE LInv'
<1>1. /\ session' = NoSession /\ NoSession.state = Blank /\ Blank.refresh = 0 /\ Blank \in State
      /\ NoSession \in [stage : {"none", "open", "closing"}, state : State]
      /\ UNCHANGED <<gateVars, account, records, import, siteVars>>
  BY TokensAreNumbered DEF SaveLogin, NoSession, Blank, State
<1>2. CASE account = "gone"
  <2>1. UNCHANGED <<vault, run, excused>>
    BY <1>2 DEF SaveLogin
  <2>2. SiteTypeOK' /\ import' \in {None} \union Import
    BY <1>1, <2>1, TokensHeld DEF SiteTypeOK, siteVars, LInv, AccountDataInv, LoginTypeOK
  <2>3. Gated' /\ AccountDataInv' /\ AlonePast' /\ InHand' /\ VaultAsRead'
    BY <1>1, <2>1, <2>2, ByTheSide
  <2>4. session'.state.refresh = 0
    BY <1>1
  <2>5. Private'
    <3>1. AllIssued'
      BY <1>1, <2>1, <2>4, TokensHeld DEF LInv, Private, AllIssued, Held, siteVars
    <3>2. ImportIsPrivate'
      BY <1>1, <2>1, <2>4, TokensHeld DEF LInv, Private, ImportIsPrivate, Imported, siteVars
    <3>3. RunIsPrivate'
      BY <1>1, <2>1, <2>4, TokensHeld DEF LInv, Private, RunIsPrivate, Wasted, siteVars
    <3>4. SuccessorIsHeld'
      BY <1>1, <2>1 DEF LInv, Private, SuccessorIsHeld, Wasted, Imported, siteVars
    <3> QED BY <3>1, <3>2, <3>3, <3>4 DEF Private
  <2> QED BY <2>3, <2>5 DEF LInv
<1>3. CASE account # "gone"
  <2>1. WriteByHand(session.state) /\ excused' = (session.state.refresh \notin fresh)
    BY <1>3 DEF SaveLogin
  <2>2. /\ vault' = session.state /\ run' \in [Runs -> RunState]
        /\ \A r \in Runs : /\ run'[r].read = run[r].read /\ run'[r].pair = run[r].pair
                           /\ run'[r].stage = run[r].stage
                           /\ Wasted(r) => run'[r].raced
        /\ Gated' /\ AlonePast' /\ InHand' /\ VaultAsRead'
    BY <1>1, <2>1, RunsOvertaken
  <2>3. AccountDataInv'
    BY <1>1, <1>3, <2>1, <2>2, TokensHeld
       DEF LInv, AccountDataInv, LoginTypeOK, RunState, siteVars
  <2>4. session'.state.refresh = 0
    BY <1>1
  <2>5. AllIssued'
    BY <1>1, <2>2, <2>4, TokensHeld DEF LInv, Private, AllIssued, Held, siteVars
  <2>6. ImportIsPrivate'
    BY <1>1, <2>2, <2>4, TokensHeld DEF LInv, Private, ImportIsPrivate, Imported, siteVars
  <2>7. RunIsPrivate'
    BY <1>1, <2>2, <2>4, TokensHeld DEF LInv, Private, RunIsPrivate, Wasted, siteVars
  <2>8. SuccessorIsHeld'
    BY <1>1, <2>1, <2>2 DEF SuccessorIsHeld, siteVars
  <2> QED BY <2>2, <2>3, <2>5, <2>6, <2>7, <2>8 DEF LInv, Private
<1> QED BY <1>2, <1>3

\* A new login is written into the vault: nobody else has its tokens.
LEMMA PutLoginStep == ASSUME LInv, PutLogin PROVE LInv'
<1> DEFINE n == issued + 1
           new == [token |-> n, refresh |-> n]
<1>1. /\ WriteByHand(new) /\ ~excused' /\ excused' \in BOOLEAN /\ account # "gone"
      /\ issued < Issues /\ issued' = n
      /\ fresh' = fresh \union {n}
      /\ UNCHANGED <<gateVars, account, records, session, import>>
  BY DEF PutLogin, Issue
<1>2. new \in State /\ new.refresh = n
  BY <1>1, TokensAreNumbered, TokensHeld DEF State
<1> HIDE DEF new
<1>3. /\ vault' = new /\ run' \in [Runs -> RunState]
      /\ \A r \in Runs : /\ run'[r].read = run[r].read /\ run'[r].pair = run[r].pair
                         /\ run'[r].stage = run[r].stage
                         /\ Wasted(r) => run'[r].raced
      /\ Gated' /\ AlonePast' /\ InHand' /\ VaultAsRead'
  BY <1>1, RunsOvertaken
<1>4. SiteTypeOK'
  BY <1>1, TokensAreNumbered, TokensHeld DEF SiteTypeOK
<1>5. AccountDataInv'
  BY <1>1, <1>2, <1>3, <1>4
     DEF LInv, AccountDataInv, LoginTypeOK, RunState, SiteTypeOK
<1>6. AllIssued'
  BY <1>1, <1>2, <1>3, TokensHeld DEF LInv, Private, AllIssued, Held
<1>7. ImportIsPrivate'
  BY <1>1, <1>2, <1>3, TokensHeld DEF LInv, Private, ImportIsPrivate, Imported
<1>8. RunIsPrivate'
  BY <1>1, <1>2, <1>3, TokensHeld DEF LInv, Private, RunIsPrivate, Wasted
<1>9. SuccessorIsHeld'
  BY <1>1, <1>2, <1>3 DEF SuccessorIsHeld
<1> QED BY <1>3, <1>5, <1>6, <1>7, <1>8, <1>9 DEF LInv, Private

\* The login is taken from the vault.
LEMMA NoLoginStep == ASSUME LInv, PutBlank \/ DeleteSecret PROVE LInv'
<1>1. /\ UNCHANGED <<gateVars, account, records, session, import, siteVars, excused>>
      /\ WriteByHand(None) \/ (WriteByHand(Blank) /\ account # "gone")
  BY DEF PutBlank, DeleteSecret
<1>2. Blank \in State /\ Blank.refresh = 0
  BY TokensAreNumbered DEF Blank, State
<1>3. /\ vault' = None \/ (vault' = Blank /\ account # "gone")
      /\ run' \in [Runs -> RunState]
      /\ \A r \in Runs : /\ run'[r].read = run[r].read /\ run'[r].pair = run[r].pair
                         /\ run'[r].stage = run[r].stage
                         /\ Wasted(r) => run'[r].raced
      /\ Gated' /\ AlonePast' /\ InHand' /\ VaultAsRead'
  BY <1>1, RunsOvertaken
<1>4. AccountDataInv'
  BY <1>1, <1>2, <1>3, TokensHeld DEF LInv, AccountDataInv, LoginTypeOK, RunState, siteVars
<1>5. AllIssued'
  BY <1>1, <1>2, <1>3, TokensHeld DEF LInv, Private, AllIssued, Held, siteVars
<1>6. ImportIsPrivate'
  BY <1>1, <1>2, <1>3, TokensHeld DEF LInv, Private, ImportIsPrivate, Imported, siteVars
<1>7. RunIsPrivate'
  BY <1>1, <1>2, <1>3, TokensHeld DEF LInv, Private, RunIsPrivate, Wasted, siteVars
<1>8. SuccessorIsHeld'
  BY <1>3 DEF SuccessorIsHeld
<1> QED BY <1>3, <1>4, <1>5, <1>6, <1>7, <1>8 DEF LInv, Private

-----------------------------------------------------------------------------
(* The token import *)

\* A login that the user brings has a refresh token of its own; half of one keeps that
\* of the vault.
LEMMA ReadSkeletonStep ==
    ASSUME LInv, NEW t \in BOOLEAN, NEW r \in BOOLEAN, ReadSkeleton(t, r)
    PROVE  LInv'
<1> DEFINE n == issued + 1
           got == [stage |-> "validating", read |-> vault, force |-> r /\ ~t,
                   pair |-> [token   |-> IF t THEN n ELSE vault.token,
                             refresh |-> IF r THEN n ELSE vault.refresh]]
<1>1. /\ import = None /\ vault \notin {None, Blank} /\ issued < Issues /\ issued' = n
      /\ fresh' = fresh \union {n} /\ import' = got
      /\ UNCHANGED <<gateVars, account, vault, records, run, session, excused>>
  BY DEF ReadSkeleton, Issue
<1>2. got \in Import /\ got.read = vault
      /\ got.pair.refresh = IF r THEN n ELSE vault.refresh
  BY <1>1, TokensAreNumbered, TokensHeld DEF Import, State
<1>3. import' # None
  BY <1>1, <1>2, NamesAreApart
<1> HIDE DEF got
<1>4. SiteTypeOK'
  BY <1>1, TokensAreNumbered, TokensHeld DEF SiteTypeOK
<1>5. Gated' /\ AccountDataInv' /\ AlonePast' /\ InHand' /\ VaultAsRead'
  <2>1. session' \in [stage : {"none", "open", "closing"}, state : State]
    BY <1>1 DEF LInv, AccountDataInv, LoginTypeOK
  <2> QED BY <1>1, <1>2, <1>4, <2>1, ByTheSide
<1>6. AllIssued'
  BY <1>1, <1>2, TokensHeld DEF LInv, Private, AllIssued, Held
<1>7. ImportIsPrivate'
  BY <1>1, <1>2, <1>3, TokensHeld DEF ImportIsPrivate, Imported
<1>8. RunIsPrivate'
  <2>1. \A q \in Runs : Wasted(q) => vault.refresh # run[q].pair.refresh
    BY <1>1 DEF LInv, Private, RunIsPrivate
  <2> QED BY <1>1, <1>2, <2>1, TokensHeld DEF LInv, Private, RunIsPrivate, Wasted
<1>9. SuccessorIsHeld'
  BY <1>1 DEF LInv, Private, SuccessorIsHeld, Wasted, Imported
<1> QED BY <1>5, <1>6, <1>7, <1>8, <1>9 DEF LInv, Private

\* The site replaces the token in the hands of the import.
LEMMA ValidateStep == ASSUME LInv, Validate PROVE LInv'
<1>1. /\ import # None /\ import \in Import
      /\ UNCHANGED <<gateVars, account, vault, records, run, session, excused>>
  BY TokensHeld DEF Validate
<1>2. session' \in [stage : {"none", "open", "closing"}, state : State]
  BY <1>1 DEF LInv, AccountDataInv, LoginTypeOK
<1>3. CASE import' = [import EXCEPT !.stage = "valid"] /\ UNCHANGED siteVars
  <2>1. /\ import' \in Import /\ import' # None
        /\ import'.read = import.read /\ import'.pair = import.pair
    BY <1>1, <1>3, NamesAreApart DEF Import
  <2>2. SiteTypeOK'
    BY <1>1, <1>3, TokensHeld DEF SiteTypeOK, siteVars
  <2>3. Gated' /\ AccountDataInv' /\ AlonePast' /\ InHand' /\ VaultAsRead'
    BY <1>1, <1>2, <2>1, <2>2, ByTheSide
  <2>4. Private'
    BY <1>1, <1>3, <2>1 DEF LInv, Private, AllIssued, Held, ImportIsPrivate, RunIsPrivate,
                            SuccessorIsHeld, Imported, Wasted, siteVars
  <2> QED BY <2>3, <2>4 DEF LInv
<1>4. ASSUME NEW new \in State, Answered(import.pair, new),
             import' = [import EXCEPT !.stage = "valid", !.pair = new]
      PROVE  LInv'
  <2> DEFINE old == import.pair.refresh
             n == issued + 1
  <2>1. /\ import' \in Import /\ import' # None
        /\ import'.read = import.read /\ import'.pair = new
    BY <1>1, <1>4, NamesAreApart DEF Import
  <2>2. /\ issued < Issues /\ issued' = n /\ old \in fresh
        /\ fresh' \subseteq fresh \union {n} /\ fresh \subseteq fresh' \union {old}
        /\ \/ new.refresh = n /\ n \in fresh'
           \/ new.refresh = old /\ fresh' = fresh
    BY <1>4 DEF Answered, Issue
  <2>3. /\ issued \in Nat /\ fresh \subseteq 1 .. issued
        /\ old \in 0 .. issued /\ import.read.refresh \in 0 .. issued
    BY <1>1, TokensHeld DEF SiteTypeOK
  <2> HIDE DEF old
  <2>4. SiteTypeOK'
    <3>1. issued' \in 0 .. Issues /\ fresh' \subseteq 1 .. issued'
      BY <2>2, <2>3, TokensAreNumbered
    <3> QED BY <1>1, <3>1, TokensHeld DEF SiteTypeOK
  <2>5. Gated' /\ AccountDataInv' /\ AlonePast' /\ InHand' /\ VaultAsRead'
    BY <1>1, <1>2, <2>1, <2>4, ByTheSide
  <2>6. AllIssued'
    BY <1>1, <2>1, <2>2, <2>3, TokensHeld DEF LInv, Private, AllIssued, Held
  <2>7. ASSUME Imported, new.refresh = old, fresh' = fresh
        PROVE  ImportIsPrivate'
    BY <1>1, <2>1, <2>7 DEF LInv, Private, ImportIsPrivate, Imported, old
  <2>8. ASSUME new.refresh = n, n \in fresh'
        PROVE  ImportIsPrivate'
    BY <1>1, <2>1, <2>2, <2>3, <2>8, TokensHeld DEF ImportIsPrivate, Imported
  <2>9. ASSUME ~Imported, new.refresh = old
        PROVE  ImportIsPrivate'
    BY <1>1, <2>1, <2>9 DEF ImportIsPrivate, Imported, old
  <2>10. ImportIsPrivate'
    BY <2>2, <2>7, <2>8, <2>9
  <2>11. RunIsPrivate'
    <3>1. ASSUME NEW r \in Runs, Wasted(r)
          PROVE  LET m == run[r].pair.refresh IN
                 /\ m # new.refresh /\ m # old
                 /\ run[r].raced \/ excused \/ m \in fresh'
      <4>1. /\ run[r].pair.refresh # old /\ run[r].pair.refresh <= issued
            /\ run[r].pair.refresh \in Nat
            /\ run[r].raced \/ excused \/ run[r].pair.refresh \in fresh
        BY <1>1, <3>1, TokensHeld DEF LInv, Private, RunIsPrivate, old
      <4>2. run[r].pair.refresh # new.refresh
        BY <2>2, <2>3, <4>1
      <4> QED BY <2>2, <4>1, <4>2
    <3> QED BY <1>1, <2>1, <3>1 DEF LInv, Private, RunIsPrivate, Wasted
  <2>12. SuccessorIsHeld'
    <3> SUFFICES ASSUME vault \notin {None, Blank}, ~excused, \A r \in Runs : ~Wasted(r),
                        vault.refresh \notin fresh'
                 PROVE  /\ new.refresh # import.read.refresh
                        /\ vault.refresh = import.read.refresh /\ new.refresh \in fresh'
      BY <1>1, <2>1 DEF SuccessorIsHeld, Wasted, Imported
    <3>1. \/ vault.refresh \in fresh
          \/ Imported /\ vault.refresh = import.read.refresh /\ old \in fresh
      BY <2>2 DEF LInv, Private, SuccessorIsHeld, old
    <3>2. CASE vault.refresh \in fresh
      <4>1. vault.refresh = old /\ new.refresh = n /\ n \in fresh'
        BY <2>2, <3>2
      <4>2. ~Imported
        BY <4>1 DEF LInv, Private, ImportIsPrivate, old
      <4>3. vault.refresh = import.read.refresh
        BY <1>1, <4>1, <4>2 DEF Imported, old
      <4> QED BY <2>3, <4>1, <4>3
    <3>3. CASE Imported /\ vault.refresh = import.read.refresh /\ old \in fresh
      <4>1. new.refresh # import.read.refresh
        BY <2>2, <2>3, <3>3 DEF Imported, old
      <4>2. new.refresh \in fresh'
        BY <2>2
      <4> QED BY <3>3, <4>1, <4>2
    <3> QED BY <3>1, <3>2, <3>3
  <2> QED BY <2>5, <2>6, <2>10, <2>11, <2>12 DEF LInv, Private
<1> QED BY <1>3, <1>4 DEF Validate

LEMMA ImportFailsStep == ASSUME LInv, ImportFails PROVE LInv'
<1>1. /\ import # None /\ import' = None
      /\ UNCHANGED <<gateVars, account, vault, records, run, session, siteVars>>
      /\ excused' = (\/ excused
                     \/ /\ vault # None /\ vault.refresh = import.read.refresh
                        /\ vault.refresh \notin fresh)
  BY DEF ImportFails
<1>2. excused' \in BOOLEAN
  BY <1>1, TokensHeld DEF SiteTypeOK
<1>3. Gated' /\ AccountDataInv' /\ AlonePast' /\ InHand' /\ VaultAsRead'
  <2>1. session' \in [stage : {"none", "open", "closing"}, state : State] /\ SiteTypeOK'
    BY <1>1, <1>2, TokensHeld DEF SiteTypeOK, siteVars, LInv, AccountDataInv, LoginTypeOK
  <2> QED BY <1>1, <2>1, ByTheSide
<1>4. AllIssued'
  BY <1>1 DEF LInv, Private, AllIssued, Held, siteVars
<1>5. ImportIsPrivate'
  BY <1>1 DEF ImportIsPrivate, Imported
<1>6. RunIsPrivate'
  BY <1>1 DEF LInv, Private, RunIsPrivate, Wasted, siteVars
<1>7. SuccessorIsHeld'
  BY <1>1 DEF LInv, Private, SuccessorIsHeld, Wasted, Imported, siteVars
<1> QED BY <1>3, <1>4, <1>5, <1>6, <1>7 DEF LInv, Private

\* The import stores what it has, over whatever the vault holds by then.
LEMMA SaveImportStep == ASSUME LInv, SaveImport PROVE LInv'
<1>1. /\ import # None /\ import \in Import /\ account # "gone" /\ import' = None
      /\ WriteByHand(import.pair)
      /\ excused' = (/\ import.pair.refresh \notin fresh
                     /\ excused \/ vault # import.read)
      /\ UNCHANGED <<gateVars, account, records, session, siteVars>>
  BY TokensHeld DEF SaveImport
<1>2. import.pair \in State /\ import.read # Blank /\ import.read \in State
  BY <1>1 DEF Import, LInv, Private, AllIssued
<1>3. /\ vault' = import.pair /\ run' \in [Runs -> RunState]
      /\ \A r \in Runs : /\ run'[r].read = run[r].read /\ run'[r].pair = run[r].pair
                         /\ run'[r].stage = run[r].stage
                         /\ Wasted(r) => run'[r].raced
      /\ Gated' /\ AlonePast' /\ InHand' /\ VaultAsRead'
  BY <1>1, RunsOvertaken
<1>4. AccountDataInv'
  <2>1. excused' \in BOOLEAN
    BY <1>1
  <2> QED BY <1>1, <1>2, <1>3, <2>1, TokensHeld
         DEF LInv, AccountDataInv, LoginTypeOK, RunState, siteVars
<1>5. AllIssued'
  BY <1>1, <1>3 DEF LInv, Private, AllIssued, Held, siteVars
<1>6. ImportIsPrivate'
  BY <1>1 DEF ImportIsPrivate, Imported
<1>7. RunIsPrivate'
  BY <1>1, <1>3 DEF LInv, Private, RunIsPrivate, Wasted, siteVars
<1>8. SuccessorIsHeld'
  <2> SUFFICES ASSUME ~excused', import.pair.refresh \notin fresh
               PROVE  \E r \in Runs : Wasted(r)
    BY <1>1, <1>3 DEF SuccessorIsHeld, Wasted, siteVars
  <2>1. ~excused /\ vault = import.read
    BY <1>1
  <2>2. \/ vault.refresh \in fresh
        \/ \E r \in Runs : Wasted(r)
    BY <1>2, <2>1, NamesAreApart DEF LInv, Private, SuccessorIsHeld
  <2>3. ASSUME vault.refresh \in fresh
        PROVE  FALSE
    <3>1. import.pair.refresh # import.read.refresh
      BY <2>1, <2>3
    <3>2. import.pair.refresh > import.read.refresh /\ \A f \in fresh : f > import.pair.refresh
      BY <1>1, <3>1 DEF LInv, Private, ImportIsPrivate, Imported
    <3>3. /\ import.read.refresh > import.pair.refresh
          /\ import.read.refresh \in Nat /\ import.pair.refresh \in Nat
      BY <1>1, <2>1, <2>3, <3>2, TokensHeld
    <3> QED BY <3>2, <3>3
  <2> QED BY <2>2, <2>3
<1> QED BY <1>3, <1>4, <1>5, <1>6, <1>7, <1>8 DEF LInv, Private

-----------------------------------------------------------------------------
(* The inductive invariant *)

LEMMA LoginInit == Init => LInv
<1> SUFFICES ASSUME Init PROVE LInv
  OBVIOUS
<1>1. /\ line = [a \in {acct} |-> <<>>] /\ inside = [a \in {acct} |-> None]
      /\ account = "enabled" /\ records = FALSE /\ excused = FALSE
      /\ run = [r \in Runs |-> NoRun] /\ session = NoSession /\ import = None
  BY DEF Init, Gate!LineInit
<1>2. Blank \in State /\ Blank.refresh = 0 /\ Blank # None
  BY TokensAreNumbered, NamesAreApart DEF Blank, State
<1>3. /\ vault \in {None} \union State /\ issued \in 0 .. Issues
      /\ fresh \subseteq 1 .. issued
      /\ vault # None => vault.refresh <= issued /\ vault.refresh \in fresh
      /\ 0 <= issued
  <2>1. CASE vault = None /\ issued = 0 /\ fresh = {}
    BY <2>1, TokensAreNumbered
  <2>2. CASE /\ vault = [token |-> 1, refresh |-> 1]
             /\ issued = 1 /\ fresh = {1}
    BY <2>2, TokensAreNumbered DEF State
  <2> QED BY <2>1, <2>2 DEF Init
<1>4. \A r \in Runs : run[r] = NoRun /\ NoRun \in RunState /\ NoRun.stage = "idle" /\ Bare(NoRun)
  BY <1>1, NoRunIsBare
<1>5. Gated
  BY <1>1 DEF Gated, LineTypeOK, InsideStandsInLine
<1>6. AccountDataInv
  <2>1. NoSession \in [stage : {"none", "open", "closing"}, state : State]
    BY <1>2 DEF NoSession
  <2>2. run \in [Runs -> RunState]
    BY <1>1, <1>4
  <2> QED BY <1>1, <1>3, <1>4, <2>1, <2>2 DEF AccountDataInv, LoginTypeOK, RunState
<1>7. AlonePast
  BY <1>4 DEF AlonePast, Past
<1>8. InHand
  BY <1>4 DEF InHand, Past, At, Bare, NoRun
<1>9. VaultAsRead
  BY <1>4 DEF VaultAsRead, At, Bare
<1>10. Private
  <2>1. AllIssued
    BY <1>1, <1>2, <1>3, <1>4 DEF AllIssued, Held, Bare, NoSession
  <2>2. ImportIsPrivate /\ RunIsPrivate
    BY <1>1, <1>4 DEF ImportIsPrivate, RunIsPrivate, Imported, Wasted, Bare
  <2>3. SuccessorIsHeld
    BY <1>3 DEF SuccessorIsHeld
  <2> QED BY <2>1, <2>2, <2>3 DEF Private
<1> QED BY <1>5, <1>6, <1>7, <1>8, <1>9, <1>10 DEF LInv

LEMMA LoginStutter == LInv /\ UNCHANGED vars => LInv'
<1> SUFFICES ASSUME LInv, UNCHANGED vars PROVE LInv'
  OBVIOUS
<1>1. UNCHANGED <<line, inside, account, vault, records, run, session, import, issued, fresh, excused>>
  BY DEF vars
<1>2. Gated' /\ inside'[acct] = inside[acct]
  BY <1>1, GateUntouched DEF gateVars
<1> QED BY <1>1, <1>2, LineMoves DEF siteVars

LEMMA LoginStep == LInv /\ [Next]_vars => LInv'
<1> SUFFICES ASSUME LInv, Next PROVE LInv'
  BY LoginStutter
<1>1. ASSUME NEW r \in Runs, Run(r)
      PROVE  LInv'
  BY <1>1, AskStep, ReadStep, MissionStep, RefreshStep, MissionAgainStep, RecordStep,
     StoreStep, AbandonStep DEF Run
<1>2. CASE ByHand
  <2>1. CASE OpenSession \/ DropSession \/ \E f \in BOOLEAN : CheckLogin(f)
    BY <2>1, SessionStep
  <2>2. CASE UserLogsIn \/ SaveLogin
    BY <2>2, UserLogsInStep, SaveLoginStep
  <2>3. CASE \E t, r \in BOOLEAN : ReadSkeleton(t, r)
    BY <2>3, ReadSkeletonStep
  <2>4. CASE Validate \/ ImportFails \/ SaveImport
    BY <2>4, ValidateStep, ImportFailsStep, SaveImportStep
  <2>5. CASE \/ PutLogin \/ PutBlank \/ DeleteSecret
             \/ AskToDelete \/ Delete \/ NotDeleted
    BY <2>5, PutLoginStep, NoLoginStep, AskToDeleteStep, DeleteStep, NotDeletedStep
  <2>6. CASE \E s \in {"enabled", "disabled"} : SetEnabled(s)
    BY <2>6, SetEnabledStep
  <2> QED BY <1>2, <2>1, <2>2, <2>3, <2>4, <2>5, <2>6 DEF ByHand
<1>3. CASE Grant
  BY <1>3, GrantStep
<1>4. CASE Revoke
  BY <1>4, RevokeStep
<1> QED BY <1>1, <1>2, <1>3, <1>4 DEF Next

LEMMA LoginInvariant == Spec => []LInv
BY LoginInit, LoginStep, PTL DEF Spec

\* A deleted account leaves nothing behind, however runs, logins and imports are cut off.
THEOREM DeletionIsComplete == Spec => []AccountDataInv
<1>1. LInv => AccountDataInv
  BY DEF LInv
<1> QED BY <1>1, LoginInvariant, PTL

\* With nobody holding a successor, the stored login is one that the site accepts, for
\* any number of runs and of tokens.
THEOREM StoredLoginSurvives == Spec => []LoginSurvives
<1>1. LInv => LoginSurvives
  <2> SUFFICES ASSUME LInv, vault \notin {None, Blank}, ~excused, ~InFlight
               PROVE  vault.refresh \in fresh
    BY DEF LoginSurvives
  <2>1. ~Imported /\ \A r \in Runs : ~Wasted(r)
    BY DEF InFlight, Imported, Wasted
  <2> QED BY <2>1 DEF LInv, Private, SuccessorIsHeld
<1> QED BY <1>1, LoginInvariant, PTL
-----------------------------------------------------------------------------
(* NOTIFICATIONS *)

\* The rows have identifiers of their own.
RowsDiffer == \A i, j \in DOMAIN table : table[i].id = table[j].id => i = j

\* A configuration is assigned where somebody has it.
HasChannel(l) == \E id \in Matches(l) : <<l.account, id>> \in links

\* The migration is alone, has all that is whole before it, and deletes a secret only when
\* its channel is assigned.
MigratesInOrder ==
    /\ up => migration = Idle
    /\ \A l \in legacy : l.account \notin gone
    /\ migration # Idle =>
          /\ \A l \in Whole : \E i \in DOMAIN migration.todo : migration.todo[i] = l
          /\ \A i \in DOMAIN migration.todo : migration.todo[i].account \notin gone
    /\ AtItem("delete") => HasChannel(Item)

NothingLost == /\ \A l \in owed : l \in legacy \/ HasChannel(l)
               /\ marker = "complete" => Whole \subseteq late

MadeOnce == \A i, j \in DOMAIN table : table[i].id \in made /\ table[j].id \in made /\ i # j =>
               table[i].type # table[j].type \/ table[i].config # table[j].config

\* The list of a delivery names the channels that were assigned, each once, and they are
\* tried in turn; it breaks off as missing only where there is none any more.
DeliveryInOrder(d) ==
    /\ \A i, j \in DOMAIN d.listed : d.listed[i] = d.listed[j] => i = j
    /\ \A i \in DOMAIN d.listed : d.listed[i] \in used
    /\ d.due = {d.listed[i] : i \in DOMAIN d.listed}
    /\ Len(d.done) <= Len(d.listed)
    /\ \A i \in DOMAIN d.done : d.done[i] = d.listed[i]
    /\ d.stage # "next" => Len(d.done) + 1 \in DOMAIN d.listed
    /\ d.stage = "missing" => ~Exists(d.listed[Len(d.done) + 1])
ListsInOrder == \A s \in Senders : sending[s] # Idle => DeliveryInOrder(sending[s])

NotifyInv == /\ NotifyTypeOK /\ RowsDiffer /\ MigratesInOrder
             /\ NothingLost /\ MadeOnce /\ ListsInOrder

-----------------------------------------------------------------------------
LEMMA SequenceFacts ==
    ASSUME NEW S, NEW q \in Seq(S)
    PROVE  /\ Len(q) \in Nat /\ DOMAIN q = 1 .. Len(q)
           /\ \A i \in DOMAIN q : q[i] \in S
           /\ \A T : (\A i \in DOMAIN q : q[i] \in T) => q \in Seq(T)
<1>1. Len(q) \in Nat /\ DOMAIN q = 1 .. Len(q) /\ q \in [1 .. Len(q) -> S]
  OBVIOUS
<1>2. ASSUME NEW T, \A i \in DOMAIN q : q[i] \in T PROVE q \in Seq(T)
  <2>1. q \in [1 .. Len(q) -> T]
    BY <1>1, <1>2
  <2> QED BY <1>1, <2>1
<1> QED BY <1>1, <1>2

\* What the type of the table says of its rows.
LEMMA RowsTyped ==
    ASSUME NotifyTypeOK
    PROVE  /\ DOMAIN table = 1 .. Len(table) /\ Len(table) \in Nat
           /\ \A i \in DOMAIN table : table[i].id \in used
<1> DEFINE R == [id : used, type : Types, config : Configs]
<1>1. table \in Seq(R)
  BY DEF NotifyTypeOK
<1>2. /\ DOMAIN table = 1 .. Len(table) /\ Len(table) \in Nat
      /\ \A i \in DOMAIN table : table[i] \in R
  <2> HIDE DEF R
  <2> QED BY <1>1, SequenceFacts
<1> QED BY <1>2

\* A new row stands behind the others, under an identifier of its own.
Grows(id, row) ==
    /\ id \notin used /\ used' = used \union {id} /\ used' \subseteq Channels
    /\ table' \in Seq([id : used', type : Types, config : Configs]) /\ RowsDiffer'
    /\ DOMAIN table \subseteq DOMAIN table' /\ \A i \in DOMAIN table : table'[i] = table[i]
    /\ \A i \in DOMAIN table' : i \in DOMAIN table \/ table'[i] = row
    /\ \E i \in DOMAIN table' : table'[i] = row

LEMMA Inserted ==
    ASSUME NotifyTypeOK, RowsDiffer,
           NEW id \in Channels, NEW type \in Types, NEW config \in Configs,
           Insert(id, type, config)
    PROVE  Grows(id, [id |-> id, type |-> type, config |-> config])
<1> DEFINE new == [id |-> id, type |-> type, config |-> config]
<1>1. /\ table' = Append(table, new) /\ used' = used \union {id} /\ id \notin used
      /\ used \subseteq Channels
      /\ table \in Seq([id : used, type : Types, config : Configs])
  BY DEF Insert, NotifyTypeOK
<1>2. /\ DOMAIN table = 1 .. Len(table) /\ Len(table) \in Nat
      /\ \A i \in DOMAIN table : table[i] \in [id : used, type : Types, config : Configs]
  BY <1>1, SequenceFacts
<1>3. /\ table' \in Seq([id : used', type : Types, config : Configs])
      /\ Len(table') = Len(table) + 1 /\ DOMAIN table' = 1 .. Len(table) + 1
      /\ \A i \in DOMAIN table : table'[i] = table[i]
      /\ table'[Len(table) + 1] = new
  <2>1. table \in Seq([id : used', type : Types, config : Configs])
    <3>1. \A i \in DOMAIN table : table[i] \in [id : used', type : Types, config : Configs]
      BY <1>1, <1>2
    <3> QED BY <1>1, <3>1, SequenceFacts
  <2>2. new \in [id : used', type : Types, config : Configs]
    BY <1>1
  <2> QED BY <1>1, <1>2, <2>1, <2>2
<1>4. RowsDiffer'
  <2> SUFFICES ASSUME NEW i \in DOMAIN table', NEW j \in DOMAIN table', table'[i].id = table'[j].id
               PROVE  i = j
    BY DEF RowsDiffer
  <2>1. \A k \in DOMAIN table : table'[k].id # id
    BY <1>1, <1>2, <1>3
  <2>2. \A k \in DOMAIN table' : k \in DOMAIN table \/ k = Len(table) + 1
    BY <1>2, <1>3
  <2>3. table'[Len(table) + 1].id = id
    BY <1>3
  <2> QED BY <1>3, <2>1, <2>2, <2>3 DEF RowsDiffer
<1> QED BY <1>1, <1>2, <1>3, <1>4 DEF Grows

\* Deliveries go on as they were, where no channel comes back.
LEMMA ListsKept ==
    ASSUME ListsInOrder, UNCHANGED sending, used \subseteq used',
           \A id \in used : Exists(id)' => Exists(id)
    PROVE  ListsInOrder'
<1> SUFFICES ASSUME NEW s \in Senders, sending[s] # Idle
             PROVE  DeliveryInOrder(sending[s])'
  BY DEF ListsInOrder
<1> QED BY DEF ListsInOrder, DeliveryInOrder

\* A configuration keeps its channel, where rows and assignments stay.
LEMMA ChannelKept ==
    ASSUME NEW l, HasChannel(l),
           \A i \in DOMAIN table : <<l.account, table[i].id>> \in links =>
              /\ \E k \in DOMAIN table' : table'[k] = table[i]
              /\ <<l.account, table[i].id>> \in links'
    PROVE  HasChannel(l)'
<1>1. PICK i \in DOMAIN table : /\ table[i].type = l.type /\ table[i].config = l.config
                                /\ <<l.account, table[i].id>> \in links
  BY DEF HasChannel, Matches
<1>2. PICK k \in DOMAIN table' : table'[k] = table[i]
  BY <1>1
<1>3. table'[k].id \in Matches(l)'
  BY <1>1, <1>2 DEF Matches
<1> QED BY <1>1, <1>2, <1>3 DEF HasChannel

LEMMA ChannelsRest ==
    ASSUME UNCHANGED <<table, links>>, NEW l, HasChannel(l)
    PROVE  HasChannel(l)'
BY DEF HasChannel, Matches

LEMMA CreateInv ==
    ASSUME NotifyInv, NEW id \in Channels, NEW t \in Types, NEW c \in Configs, Create(id, t, c)
    PROVE  NotifyInv'
<1> USE DEF NotifyInv, Create, migVars
<1>1. Grows(id, [id |-> id, type |-> t, config |-> c])
  BY Inserted
<1> USE DEF Grows
<1>2. NotifyTypeOK'
  <2>1. links \subseteq (Accounts \ gone) \X {table'[i].id : i \in DOMAIN table'}
    BY <1>1 DEF NotifyTypeOK
  <2> QED BY <1>1, <2>1 DEF NotifyTypeOK
<1>3. \A l : HasChannel(l) => HasChannel(l)'
  BY <1>1, ChannelKept
<1>4. MigratesInOrder' /\ NothingLost'
  BY <1>3 DEF MigratesInOrder, NothingLost, AtItem, Whole, Item
<1>5. MadeOnce'
  <2>1. id \notin made
    BY <1>1 DEF NotifyTypeOK
  <2> QED BY <1>1, <2>1 DEF MadeOnce
<1>6. ListsInOrder'
  <2>1. \A x \in used : Exists(x)' => Exists(x)
    BY <1>1 DEF Exists
  <2> QED BY <1>1, <2>1, ListsKept
<1> QED BY <1>1, <1>2, <1>4, <1>5, <1>6

LEMMA UpdateInv ==
    ASSUME NotifyInv, NEW id \in Channels, NEW c \in Configs, Update(id, c)
    PROVE  NotifyInv'
<1> USE DEF NotifyInv, Update, migVars
<1>1. /\ table \in Seq([id : used, type : Types, config : Configs])
      /\ Len(table) \in Nat /\ DOMAIN table = 1 .. Len(table)
      /\ \A i \in DOMAIN table : table[i] \in [id : used, type : Types, config : Configs]
  BY SequenceFacts DEF NotifyTypeOK
<1>2. /\ DOMAIN table' = DOMAIN table
      /\ \A i \in DOMAIN table : /\ table'[i] \in [id : used, type : Types, config : Configs]
                                 /\ table'[i].id = table[i].id
                                 /\ table[i].id # id => table'[i] = table[i]
  BY <1>1
<1>3. table' \in Seq([id : used, type : Types, config : Configs])
  <2>1. table' \in [1 .. Len(table) -> [id : used, type : Types, config : Configs]]
    BY <1>1, <1>2
  <2> QED BY <1>1, <2>1
<1>4. NotifyTypeOK'
  <2>1. {table'[i].id : i \in DOMAIN table'} = {table[i].id : i \in DOMAIN table}
    BY <1>2
  <2>2. owed' \subseteq Legacy /\ made' \subseteq used
    BY DEF NotifyTypeOK, Settled
  <2> QED BY <1>3, <2>1, <2>2 DEF NotifyTypeOK
<1>5. RowsDiffer'
  BY <1>2 DEF RowsDiffer
<1>6. MigratesInOrder'
  BY DEF MigratesInOrder, AtItem, Whole
<1>7. NothingLost'
  <2>1. ASSUME NEW l, l.account \notin LinkedTo(id), HasChannel(l)
        PROVE  HasChannel(l)'
    <3>1. \A i \in DOMAIN table : <<l.account, table[i].id>> \in links => table[i].id # id
      BY <2>1 DEF LinkedTo, NotifyTypeOK
    <3> QED BY <1>2, <2>1, <3>1, ChannelKept
  <2> QED BY <2>1 DEF NothingLost, Settled, Whole
<1>8. MadeOnce'
  BY <1>2 DEF MadeOnce
<1>9. ListsInOrder'
  <2>1. \A x \in used : Exists(x)' => Exists(x)
    BY <1>2 DEF Exists
  <2> QED BY <2>1, ListsKept
<1> QED BY <1>4, <1>5, <1>6, <1>7, <1>8, <1>9

LEMMA DeleteChannelInv ==
    ASSUME NotifyInv, NEW id \in Channels, DeleteChannel(id)
    PROVE  NotifyInv'
<1> USE DEF NotifyInv, DeleteChannel, migVars
<1>1. /\ table \in Seq([id : used, type : Types, config : Configs])
      /\ Len(table) \in Nat /\ DOMAIN table = 1 .. Len(table)
  BY SequenceFacts DEF NotifyTypeOK
<1>2. PICK k \in 1 .. Len(table) : table[k].id = id /\ table' = RemoveAt(table, k)
  BY <1>1
<1>3. /\ table' \in Seq([id : used, type : Types, config : Configs])
      /\ DOMAIN table' = 1 .. Len(table) - 1
      /\ \A i \in 1 .. Len(table) - 1 : table'[i] = IF i < k THEN table[i] ELSE table[i + 1]
  BY <1>1, <1>2, RemoveAtPlaces
<1>4. \A i \in DOMAIN table' : \E j \in DOMAIN table : j # k /\ table'[i] = table[j]
  <2> SUFFICES ASSUME NEW i \in 1 .. Len(table) - 1
               PROVE  \E j \in 1 .. Len(table) : j # k /\ table'[i] = table[j]
    BY <1>1, <1>3
  <2>1. CASE i < k
    <3>1. i \in 1 .. Len(table) /\ table'[i] = table[i]
      BY <2>1, <1>1, <1>3
    <3> QED BY <2>1, <3>1
  <2>2. CASE ~(i < k)
    <3>1. i + 1 \in 1 .. Len(table) /\ i + 1 # k /\ table'[i] = table[i + 1]
      BY <2>2, <1>1, <1>3
    <3> QED BY <3>1
  <2> QED BY <2>1, <2>2
<1>5. \A j \in DOMAIN table : j # k => \E i \in DOMAIN table' : table'[i] = table[j]
  <2> SUFFICES ASSUME NEW j \in 1 .. Len(table), j # k
               PROVE  \E i \in 1 .. Len(table) - 1 : table'[i] = table[j]
    BY <1>1, <1>3
  <2>1. CASE j < k
    <3>1. j \in 1 .. Len(table) - 1 /\ table'[j] = table[j]
      BY <2>1, <1>1, <1>3
    <3> QED BY <3>1
  <2>2. CASE j > k
    <3>1. j - 1 \in 1 .. Len(table) - 1 /\ ~(j - 1 < k) /\ j - 1 + 1 = j
      BY <2>2, <1>1
    <3>2. table'[j - 1] = table[j]
      BY <3>1, <1>3
    <3> QED BY <3>1, <3>2
  <2> QED BY <2>1, <2>2, <1>1
<1>6. \A j \in DOMAIN table : table[j].id # id <=> j # k
  BY <1>1, <1>2 DEF RowsDiffer
<1>7. NotifyTypeOK'
  <2>1. links' \subseteq (Accounts \ gone) \X {table'[i].id : i \in DOMAIN table'}
    <3> SUFFICES ASSUME NEW a \in Accounts \ gone, NEW j \in DOMAIN table, table[j].id # id
                 PROVE  \E i \in DOMAIN table' : table'[i].id = table[j].id
      BY DEF NotifyTypeOK
    <3> QED BY <1>5, <1>6
  <2>2. owed' \subseteq Legacy
    BY DEF NotifyTypeOK, Settled
  <2> QED BY <1>3, <2>1, <2>2 DEF NotifyTypeOK
<1>8. RowsDiffer'
  <2> SUFFICES ASSUME NEW i \in DOMAIN table', NEW j \in DOMAIN table', table'[i].id = table'[j].id
               PROVE  i = j
    BY DEF RowsDiffer
  <2> DEFINE at(x) == IF x < k THEN x ELSE x + 1
  <2>1. at(i) \in DOMAIN table /\ at(j) \in DOMAIN table
    BY <1>1, <1>3
  <2>2. table[at(i)].id = table[at(j)].id
    BY <1>3
  <2>3. at(i) = at(j)
    BY <2>1, <2>2 DEF RowsDiffer
  <2> QED BY <2>3, <1>1, <1>3
<1>9. MigratesInOrder'
  BY DEF MigratesInOrder, AtItem, Whole
<1>10. NothingLost'
  <2>1. ASSUME NEW l, l.account \notin LinkedTo(id), HasChannel(l)
        PROVE  HasChannel(l)'
    <3>1. \A i \in DOMAIN table : <<l.account, table[i].id>> \in links =>
             table[i].id # id /\ <<l.account, table[i].id>> \in links'
      BY <2>1 DEF LinkedTo, NotifyTypeOK
    <3> QED BY <1>5, <1>6, <2>1, <3>1, ChannelKept
  <2> QED BY <2>1 DEF NothingLost, Settled, Whole
<1>11. MadeOnce'
  <2> SUFFICES ASSUME NEW i \in DOMAIN table', NEW j \in DOMAIN table', i # j,
                      table'[i].id \in made, table'[j].id \in made
               PROVE  table'[i].type # table'[j].type \/ table'[i].config # table'[j].config
    BY DEF MadeOnce
  <2>1. PICK x \in DOMAIN table : table'[i] = table[x]
    BY <1>4
  <2>2. PICK y \in DOMAIN table : table'[j] = table[y]
    BY <1>4
  <2>3. x # y
    BY <2>1, <2>2, <1>8 DEF RowsDiffer
  <2> QED BY <2>1, <2>2, <2>3 DEF MadeOnce
<1>12. ListsInOrder'
  <2>1. \A x \in used : Exists(x)' => Exists(x)
    BY <1>4 DEF Exists
  <2> QED BY <2>1, ListsKept
<1> QED BY <1>7, <1>8, <1>9, <1>10, <1>11, <1>12

\* The assignments of an account change, or the account goes with what it has.
LEMMA AccountInv ==
    ASSUME NotifyInv, NEW a \in Accounts,
           (\E ids \in SUBSET Channels : Assign(a, ids)) \/ DeleteAccount(a)
    PROVE  NotifyInv'
<1> USE DEF NotifyInv, migVars
<1>1. /\ up /\ a \notin gone /\ UNCHANGED <<up, table, used, marker, migration, made, sending>>
      /\ \A l : l.account # a /\ HasChannel(l) => HasChannel(l)'
  <2>1. \A l \in links : l[1] # a => l \in links'
    BY DEF Assign, Link, DeleteAccount
  <2>2. up /\ a \notin gone /\ UNCHANGED <<up, table, used, marker, migration, made, sending>>
    BY DEF Assign, DeleteAccount
  <2> QED BY <2>1, <2>2, ChannelKept
<1>2. NotifyTypeOK'
  <2>1. CASE DeleteAccount(a)
    BY <2>1 DEF NotifyTypeOK, DeleteAccount
  <2>2. CASE \E ids \in SUBSET Channels : Assign(a, ids)
    <3>1. PICK ids \in SUBSET Channels : Assign(a, ids)
      BY <2>2
    <3>2. links' \subseteq (Accounts \ gone) \X {table[i].id : i \in DOMAIN table}
      BY <3>1 DEF NotifyTypeOK, Assign, Link, Exists
    <3> QED BY <3>1, <3>2 DEF NotifyTypeOK, Assign, Settled
  <2> QED BY <2>1, <2>2
<1>3. RowsDiffer' /\ MadeOnce'
  BY <1>1 DEF RowsDiffer, MadeOnce
<1>4. MigratesInOrder'
  <2>1. \A l \in legacy' : l \in legacy /\ l.account \notin gone'
    BY DEF MigratesInOrder, Assign, DeleteAccount
  <2> QED BY <1>1, <2>1 DEF MigratesInOrder, AtItem
<1>5. NothingLost'
  <2>1. legacy' \subseteq legacy /\ \A l \in legacy : l.account # a => l \in legacy'
    BY DEF Assign, DeleteAccount
  <2>2. \A l \in owed' : l \in owed /\ (l.account # a \/ l \in legacy')
    BY DEF Assign, Settled, DeleteAccount
  <2>3. \A l \in legacy' : l \in late => l \in late'
    BY DEF Assign, DeleteAccount
  <2> QED BY <1>1, <2>1, <2>2, <2>3 DEF NothingLost, Whole
<1>6. ListsInOrder'
  <2>1. \A x \in used : Exists(x)' => Exists(x)
    BY <1>1 DEF Exists
  <2> QED BY <1>1, <2>1, ListsKept
<1> QED BY <1>2, <1>3, <1>4, <1>5, <1>6

\* Another content for the secrets of one configuration.
LEMMA RewriteInv ==
    ASSUME NotifyInv, up, NEW l, NEW others, others \subseteq Legacy,
           \A m \in others : m.account \notin gone, Rewrite(l, others)
    PROVE  NotifyInv'
<1> USE DEF NotifyInv, chanVars
<1>1. /\ \A m \in legacy' : m \in others \/ (m \in legacy /\ ~SameSecrets(l, m))
      /\ \A m \in owed' : m \in legacy' \/ (m \in owed /\ m \notin legacy)
      /\ \A m \in legacy' : marker = "complete" /\ (m \in legacy => m \in late) => m \in late'
      /\ owed' \subseteq Legacy /\ late' \subseteq Legacy /\ legacy' \subseteq Legacy
      /\ UNCHANGED <<up, gone, table, used, links, marker, migration, made, sending>>
  <2> DEFINE Written(before) == {m \in before : ~(m \in legacy /\ SameSecrets(l, m))} \union others
  <2>1. /\ legacy' = Written(legacy) /\ owed' = Written(owed)
        /\ late' = IF marker = "complete" THEN Written(late) ELSE late
        /\ UNCHANGED <<up, gone, table, used, links, marker, migration, made, sending>>
    BY DEF Rewrite
  <2>2. owed \subseteq Legacy /\ late \subseteq Legacy /\ legacy \subseteq Legacy
    BY DEF NotifyTypeOK
  <2> DEFINE rewritten(m) == m \in legacy /\ SameSecrets(l, m)
  <2>3. \A m : /\ m \in legacy' <=> m \in others \/ (m \in legacy /\ ~rewritten(m))
               /\ m \in owed' <=> m \in others \/ (m \in owed /\ ~rewritten(m))
    <3>1. legacy' = Written(legacy) /\ owed' = Written(owed)
      BY <2>1
    <3> QED BY <3>1
  <2>4. \A m : m \in late' <=> IF marker = "complete"
                              THEN m \in others \/ (m \in late /\ ~rewritten(m))
                              ELSE m \in late
    <3>1. CASE marker = "complete"
      BY <2>1, <3>1
    <3>2. CASE marker # "complete"
      BY <2>1, <3>2
    <3> QED BY <3>1, <3>2
  <2> HIDE DEF Written
  <2>5. /\ \A m \in legacy' : m \in others \/ (m \in legacy /\ ~SameSecrets(l, m))
        /\ \A m \in owed' : m \in legacy' \/ (m \in owed /\ m \notin legacy)
        /\ \A m \in legacy' : marker = "complete" /\ (m \in legacy => m \in late) => m \in late'
    BY <2>3, <2>4
  <2>6. owed' \subseteq Legacy /\ late' \subseteq Legacy /\ legacy' \subseteq Legacy
    BY <2>2, <2>3, <2>4
  <2> QED BY <2>1, <2>5, <2>6
<1>2. NotifyTypeOK'
  BY <1>1 DEF NotifyTypeOK
<1>3. MigratesInOrder'
  BY <1>1 DEF MigratesInOrder, AtItem
<1>4. NothingLost'
  <2>1. \A m : HasChannel(m) => HasChannel(m)'
    BY <1>1, ChannelsRest
  <2>2. marker = "complete" => Whole' \subseteq late'
    BY <1>1 DEF NothingLost, Whole
  <2> QED BY <1>1, <2>1, <2>2 DEF NothingLost
<1>5. RowsDiffer' /\ MadeOnce'
  BY <1>1 DEF RowsDiffer, MadeOnce
<1>6. ListsInOrder'
  <2>1. \A id \in used : Exists(id)' => Exists(id)
    BY <1>1 DEF Exists
  <2> QED BY <1>1, <2>1, ListsKept
<1> QED BY <1>2, <1>3, <1>4, <1>5, <1>6

LEMMA VaultInv ==
    ASSUME NotifyInv, NEW l \in Legacy, PutSecret(l) \/ DropSecret(l)
    PROVE  NotifyInv'
<1>1. CASE PutSecret(l)
  BY <1>1, RewriteInv DEF PutSecret
<1>2. CASE DropSecret(l)
  <2>1. up /\ l \in legacy /\ l.account \notin gone
    BY <1>2 DEF DropSecret, NotifyInv, MigratesInOrder
  <2>2. CASE Rewrite(l, {})
    BY <2>1, <2>2, RewriteInv
  <2>3. CASE \E m \in Legacy : SameSecrets(l, m) /\ ~m.whole /\ Rewrite(l, {m})
    BY <2>1, <2>3, RewriteInv DEF SameSecrets
  <2> QED BY <1>2, <2>2, <2>3 DEF DropSecret
<1> QED BY <1>1, <1>2

-----------------------------------------------------------------------------
\* What the migration takes on is all that is whole, in some order.
LEMMA TodoIsAll ==
    ASSUME NotifyTypeOK, NEW todo \in SetToSeqs(Whole)
    PROVE  /\ todo \in Seq(Legacy)
           /\ \A i \in DOMAIN todo : todo[i] \in Whole
           /\ \A l \in Whole : \E i \in DOMAIN todo : todo[i] = l
<1> DEFINE places == 1 .. Cardinality(Whole)
<1>1. Whole \subseteq Legacy
  BY DEF Whole, NotifyTypeOK
<1>2. IsFiniteSet(Whole)
  BY <1>1, LegacyIsConfig, FS_Subset
<1>3. Cardinality(Whole) \in Nat
  BY <1>2, FS_CardinalityType
<1>4. Cardinality(places) = Cardinality(Whole)
  <2>1. Cardinality(places) =
          IF 1 > Cardinality(Whole) THEN 0 ELSE Cardinality(Whole) - 1 + 1
    BY <1>3, FS_Interval
  <2> HIDE DEF places
  <2> QED BY <1>3, <2>1
<1>5. /\ todo \in [places -> Whole]
      /\ \A i, j \in places : i # j => todo[i] # todo[j]
  BY DEF SetToSeqs
<1>6. todo \in Injection(places, Whole)
  <2>1. IsInjective(todo)
    BY <1>5 DEF IsInjective
  <2> QED BY <1>5, <2>1 DEF Injection
<1>7. todo \in Surjection(places, Whole)
  BY <1>2, <1>4, <1>6, FS_Injection
<1>8. todo \in Seq(Legacy)
  <2>1. todo \in [1 .. Cardinality(Whole) -> Legacy]
    BY <1>1, <1>5
  <2> QED BY <1>3, <2>1
<1> QED BY <1>5, <1>7, <1>8 DEF Surjection

\* Where tables, users and deliveries rest, only the course of the migration is in question.
LEMMA TablesRest ==
    ASSUME NotifyInv, UNCHANGED <<gone, table, used, links, owed, made, sending>>,
           up' \in BOOLEAN, legacy' \subseteq Legacy, late' \subseteq Legacy,
           marker' \in {"no", "complete", "inherited"},
           migration' \in {Idle} \union
                             [todo : Seq(Legacy), stage : {"create", "assign", "delete"}],
           MigratesInOrder', NothingLost'
    PROVE  NotifyInv'
<1> USE DEF NotifyInv
<1>1. NotifyTypeOK'
  BY DEF NotifyTypeOK
<1>2. RowsDiffer' /\ MadeOnce'
  BY DEF RowsDiffer, MadeOnce
<1>3. ListsInOrder'
  <2>1. \A x \in used : Exists(x)' => Exists(x)
    BY DEF Exists
  <2> QED BY <2>1, ListsKept
<1> QED BY <1>1, <1>2, <1>3

LEMMA BeginInv == ASSUME NotifyInv, Start \/ Repair PROVE NotifyInv'
<1> USE DEF NotifyInv, chanVars
<1>1. /\ ~up /\ migration = Idle
      /\ UNCHANGED <<gone, table, used, links, legacy, owed, made, sending>>
      /\ late' \in {{}, late} /\ (marker' # "no" => late' = late)
      /\ \/ StartMigration /\ up' = up /\ marker' \in {"no", marker} /\ (marker' = "no")
         \/ up' = TRUE /\ UNCHANGED migration /\ marker' = marker
  BY DEF Start, Repair, NotifyTypeOK
<1>2. NothingLost'
  BY <1>1, ChannelsRest DEF NothingLost, Whole
<1>3. CASE UNCHANGED migration /\ up' = TRUE /\ marker' = marker
  <2>1. MigratesInOrder'
    BY <1>1, <1>3 DEF MigratesInOrder, AtItem
  <2> QED BY <1>1, <1>2, <1>3, <2>1, TablesRest DEF NotifyTypeOK
<1>4. CASE StartMigration /\ up' = up /\ marker' = "no"
  <2>1. PICK todo \in SetToSeqs(Whole) : migration' = [todo |-> todo, stage |-> "create"]
    BY <1>4 DEF StartMigration
  <2>2. /\ todo \in Seq(Legacy) /\ \A i \in DOMAIN todo : todo[i] \in Whole
        /\ \A l \in Whole : \E i \in DOMAIN todo : todo[i] = l
    BY TodoIsAll
  <2>3. MigratesInOrder'
    <3>1. ~AtItem("delete")'
      BY <2>1 DEF AtItem
    <3>2. migration'.todo = todo
      BY <2>1
    <3>3. \A i \in DOMAIN todo : todo[i].account \notin gone
      BY <2>2 DEF Whole, MigratesInOrder
    <3> QED BY <1>1, <1>4, <2>2, <3>1, <3>2, <3>3 DEF MigratesInOrder, Whole
  <2>4. migration' \in [todo : Seq(Legacy), stage : {"create", "assign", "delete"}]
    BY <2>1, <2>2
  <2> QED BY <1>1, <1>2, <1>4, <2>3, <2>4, TablesRest DEF NotifyTypeOK
<1> QED BY <1>1, <1>3, <1>4

\* The item the migration is at.
LEMMA ItemType ==
    ASSUME NotifyTypeOK, NEW stage, AtItem(stage)
    PROVE  /\ migration \in [todo : Seq(Legacy), stage : {"create", "assign", "delete"}]
           /\ migration.todo \in Seq(Legacy) /\ migration.todo # <<>>
           /\ 1 \in DOMAIN migration.todo /\ Item = migration.todo[1]
           /\ Item \in Legacy /\ Item \in LegacyConfig
<1>1. /\ migration \in [todo : Seq(Legacy), stage : {"create", "assign", "delete"}]
      /\ migration.todo \in Seq(Legacy) /\ migration.todo # <<>>
  BY DEF AtItem, NotifyTypeOK
<1>2. Item \in Legacy
  BY <1>1, HeadTailProperties DEF Item
<1>3. 1 \in DOMAIN migration.todo /\ Item = migration.todo[1]
  <2>1. DOMAIN migration.todo = 1 .. Len(migration.todo) /\ Len(migration.todo) \in Nat
    BY <1>1
  <2>2. Len(migration.todo) # 0
    BY <1>1
  <2> QED BY <1>1, <2>1, <2>2 DEF Item
<1> QED BY <1>1, <1>2, <1>3, LegacyIsConfig

LEMMA MigrateCreateInv == ASSUME NotifyInv, MigrateCreate PROVE NotifyInv'
<1> USE DEF NotifyInv
<1>1. /\ AtItem("create") /\ migration' = [migration EXCEPT !.stage = "assign"]
      /\ UNCHANGED <<up, gone, links, legacy, marker, late, owed, sending>>
  BY DEF MigrateCreate, GoTo
<1>2. /\ migration \in [todo : Seq(Legacy), stage : {"create", "assign", "delete"}]
      /\ Item \in LegacyConfig /\ migration # Idle /\ Item.config # Invalid
  BY <1>1, ItemType DEF AtItem, MigrateCreate
<1>3. /\ migration' \in [todo : Seq(Legacy), stage : {"create", "assign", "delete"}]
      /\ migration'.todo = migration.todo /\ migration'.stage = "assign"
  BY <1>1, <1>2
<1>4. MigratesInOrder'
  BY <1>1, <1>2, <1>3 DEF MigratesInOrder, AtItem, Whole
<1>5. CASE UNCHANGED <<table, used, made>>
  <2>1. NothingLost'
    BY <1>1, <1>5, ChannelsRest DEF NothingLost, Whole
  <2> QED BY <1>1, <1>3, <1>4, <1>5, <2>1, TablesRest DEF NotifyTypeOK
<1>6. ASSUME Matches(Item) = {},
             NEW id \in Channels, Insert(id, Item.type, Item.config), made' = made \union {id}
      PROVE  NotifyInv'
  <2> DEFINE row == [id |-> id, type |-> Item.type, config |-> Item.config]
  <2>1. Item.type \in Types /\ Item.config \in Configs
    BY <1>2 DEF LegacyConfig
  <2>2. Grows(id, row)
    BY <1>6, <2>1, Inserted
  <2> USE DEF Grows
  <2>3. NotifyTypeOK'
    <3> HIDE DEF row
    <3>1. links' \subseteq (Accounts \ gone) \X {table'[i].id : i \in DOMAIN table'}
      <4>1. \A j \in DOMAIN table : \E i \in DOMAIN table' : table'[i].id = table[j].id
        BY <2>2
      <4> QED BY <1>1, <4>1 DEF NotifyTypeOK
    <3>2. made' \subseteq used'
      BY <1>6, <2>2 DEF NotifyTypeOK
    <3> QED BY <1>1, <1>3, <2>2, <3>1, <3>2 DEF NotifyTypeOK
  <2>4. NothingLost'
    <3>1. \A l : HasChannel(l) => HasChannel(l)'
      BY <1>1, <2>2, ChannelKept
    <3> QED BY <1>1, <3>1 DEF NothingLost, Whole
  <2>5. MadeOnce'
    <3>1. \A i \in DOMAIN table : table[i].type # Item.type \/ table[i].config # Item.config
      BY <1>6 DEF Matches
    <3>2. \A i \in DOMAIN table : table[i].id # id
      <4>1. \A i \in DOMAIN table : table[i].id \in used
        BY RowsTyped
      <4> QED BY <4>1, <2>2
    <3> SUFFICES ASSUME NEW i \in DOMAIN table', NEW j \in DOMAIN table', i # j,
                        table'[i].id \in made', table'[j].id \in made'
                 PROVE  table'[i].type # table'[j].type \/ table'[i].config # table'[j].config
      BY DEF MadeOnce
    <3>3. \A k \in DOMAIN table' : k \notin DOMAIN table => table'[k] = row
      BY <2>2
    <3>4. \A k \in DOMAIN table : table'[k] = table[k]
      BY <2>2
    <3>5. row.id = id /\ row.type = Item.type /\ row.config = Item.config
      OBVIOUS
    <3>6. i \in DOMAIN table \/ j \in DOMAIN table
      BY <3>3, <2>2 DEF RowsDiffer
    <3> HIDE DEF row
    <3>7. CASE i \in DOMAIN table /\ j \in DOMAIN table
      BY <3>2, <3>4, <3>7, <1>6 DEF MadeOnce
    <3>8. CASE i \notin DOMAIN table
      BY <3>1, <3>3, <3>4, <3>5, <3>6, <3>8
    <3>9. CASE j \notin DOMAIN table
      BY <3>1, <3>3, <3>4, <3>5, <3>6, <3>9
    <3> QED BY <3>7, <3>8, <3>9
  <2>6. ListsInOrder'
    <3>1. \A x \in used : Exists(x)' => Exists(x)
      BY <2>2 DEF Exists
    <3> QED BY <1>1, <2>2, <3>1, ListsKept
  <2> QED BY <1>4, <2>2, <2>3, <2>4, <2>5, <2>6
<1> QED BY <1>5, <1>6 DEF MigrateCreate

LEMMA MigrateAssignInv == ASSUME NotifyInv, MigrateAssign PROVE NotifyInv'
<1> USE DEF NotifyInv
<1>1. /\ AtItem("assign") /\ migration' = [migration EXCEPT !.stage = "delete"]
      /\ UNCHANGED <<up, gone, table, used, legacy, marker, late, owed, made, sending>>
  BY DEF MigrateAssign, GoTo
<1>2. PICK id \in Channels : IsMatch(Item, id) /\ links' = links \union {<<Item.account, id>>}
  BY DEF MigrateAssign
<1>3. /\ migration \in [todo : Seq(Legacy), stage : {"create", "assign", "delete"}]
      /\ Item \in LegacyConfig /\ migration # Idle
      /\ 1 \in DOMAIN migration.todo /\ Item = migration.todo[1]
  BY <1>1, ItemType DEF AtItem
<1>4. /\ migration' \in [todo : Seq(Legacy), stage : {"create", "assign", "delete"}]
      /\ migration'.todo = migration.todo
  BY <1>1, <1>3
<1>5. Item' = Item
  BY <1>4 DEF Item
<1>6. id \in Matches(Item) /\ id \in {table[i].id : i \in DOMAIN table}
  BY <1>2 DEF IsMatch
<1>7. HasChannel(Item)'
  <2>1. id \in Matches(Item)'
    BY <1>1, <1>5, <1>6 DEF Matches
  <2> QED BY <1>2, <1>5, <2>1 DEF HasChannel
<1>8. \A l : HasChannel(l) => HasChannel(l)'
  BY <1>1, <1>2, ChannelKept
<1>9. MigratesInOrder'
  BY <1>1, <1>3, <1>4, <1>7 DEF MigratesInOrder, AtItem, Whole
<1>10. NothingLost'
  BY <1>1, <1>8 DEF NothingLost, Whole
<1>11. NotifyTypeOK'
  <2>1. Item.account \in Accounts \ gone
    BY <1>3 DEF LegacyConfig, MigratesInOrder
  <2>2. links' \subseteq (Accounts \ gone) \X {table[i].id : i \in DOMAIN table}
    BY <1>2, <1>6, <2>1 DEF NotifyTypeOK
  <2> QED BY <1>1, <1>4, <2>2 DEF NotifyTypeOK
<1>12. RowsDiffer' /\ MadeOnce'
  BY <1>1 DEF RowsDiffer, MadeOnce
<1>13. ListsInOrder'
  <2>1. \A x \in used : Exists(x)' => Exists(x)
    BY <1>1 DEF Exists
  <2> QED BY <1>1, <2>1, ListsKept
<1> QED BY <1>9, <1>10, <1>11, <1>12, <1>13

LEMMA MigrateDeleteInv == ASSUME NotifyInv, MigrateDelete PROVE NotifyInv'
<1> USE DEF NotifyInv, chanVars
<1>1. /\ AtItem("delete") /\ legacy' = legacy \ {Item}
      /\ migration' = [todo |-> Tail(migration.todo), stage |-> "create"]
      /\ UNCHANGED <<up, gone, table, used, links, marker, late, owed, made, sending>>
  BY DEF MigrateDelete
<1> DEFINE todo == migration.todo
           rest == Tail(migration.todo)
<1>2. /\ todo \in Seq(Legacy) /\ todo # <<>> /\ Item = todo[1] /\ migration # Idle
  BY <1>1, ItemType DEF AtItem
<1>3. /\ rest \in Seq(Legacy) /\ Len(rest) = Len(todo) - 1
      /\ \A i \in 1 .. Len(rest) : rest[i] = todo[i + 1]
      /\ Len(todo) \in Nat
  BY <1>2, HeadTailProperties
<1>4. migration'.todo = rest /\ migration'.stage = "create"
  BY <1>1
<1>5. migration' \in [todo : Seq(Legacy), stage : {"create", "assign", "delete"}]
  BY <1>1, <1>3
<1>6. /\ DOMAIN rest = 1 .. Len(rest) /\ DOMAIN todo = 1 .. Len(todo)
  BY <1>2, <1>3
<1> HIDE DEF todo, rest
<1>7. MigratesInOrder'
  <2>1. ASSUME NEW l \in Whole'
        PROVE  \E i \in DOMAIN rest : rest[i] = l
    <3>1. l \in Whole /\ l # Item
      BY <1>1 DEF Whole
    <3>2. PICK i \in DOMAIN todo : todo[i] = l
      BY <1>2, <3>1 DEF MigratesInOrder, todo
    <3>3. i \in Nat /\ i # 1 /\ i \in 1 .. Len(todo)
      BY <1>2, <1>6, <3>1, <3>2
    <3>4. i - 1 \in 1 .. Len(rest) /\ i - 1 + 1 = i
      BY <1>3, <3>3
    <3>5. rest[i - 1] = l
      BY <1>3, <3>2, <3>4
    <3> QED BY <1>6, <3>4, <3>5
  <2>2. ASSUME NEW i \in DOMAIN rest
        PROVE  rest[i].account \notin gone
    <3>1. i + 1 \in DOMAIN todo /\ rest[i] = todo[i + 1]
      BY <1>3, <1>6, <2>2
    <3> QED BY <1>2, <3>1 DEF MigratesInOrder, todo
  <2>3. ~AtItem("delete")'
    BY <1>4 DEF AtItem
  <2>4. ~up
    BY <1>2 DEF MigratesInOrder
  <2> QED BY <1>1, <1>4, <2>1, <2>2, <2>3, <2>4 DEF MigratesInOrder
<1>8. NothingLost'
  <2>1. \A l : HasChannel(l) => HasChannel(l)'
    BY <1>1, ChannelsRest
  <2>2. HasChannel(Item)
    BY <1>1 DEF MigratesInOrder
  <2>3. \A l \in owed : l \in legacy' \/ HasChannel(l)'
    BY <1>1, <2>1, <2>2 DEF NothingLost
  <2>4. marker = "complete" => Whole' \subseteq late
    BY <1>1 DEF NothingLost, Whole
  <2> QED BY <1>1, <2>3, <2>4 DEF NothingLost
<1> QED BY <1>1, <1>5, <1>7, <1>8, TablesRest DEF NotifyTypeOK

LEMMA MarkInv == ASSUME NotifyInv, Mark PROVE NotifyInv'
<1> USE DEF NotifyInv, chanVars
<1>1. /\ migration # Idle /\ migration.todo = <<>> /\ migration' = Idle
      /\ marker' = "complete" /\ late' = {} /\ up' \in BOOLEAN
      /\ UNCHANGED <<gone, table, used, links, legacy, owed, made, sending>>
  BY DEF Mark
<1>2. Whole = {}
  BY <1>1 DEF MigratesInOrder
<1>3. MigratesInOrder'
  BY <1>1 DEF MigratesInOrder, AtItem
<1>4. NothingLost'
  BY <1>1, <1>2, ChannelsRest DEF NothingLost, Whole
<1> QED BY <1>1, <1>3, <1>4, TablesRest DEF NotifyTypeOK

LEMMA DownInv == ASSUME NotifyInv, Down PROVE NotifyInv'
<1> USE DEF NotifyInv, chanVars
<1>1. /\ up' = FALSE /\ migration' = Idle /\ sending' = [s \in Senders |-> Idle]
      /\ UNCHANGED <<gone, table, used, links, legacy, marker, late, owed, made>>
  BY DEF Down
<1>2. NotifyTypeOK'
  BY <1>1 DEF NotifyTypeOK
<1>3. MigratesInOrder'
  BY <1>1 DEF MigratesInOrder, AtItem
<1>4. NothingLost'
  BY <1>1, ChannelsRest DEF NothingLost, Whole
<1>5. RowsDiffer' /\ MadeOnce'
  BY <1>1 DEF RowsDiffer, MadeOnce
<1>6. ListsInOrder'
  BY <1>1 DEF ListsInOrder
<1> QED BY <1>2, <1>3, <1>4, <1>5, <1>6

-----------------------------------------------------------------------------
\* A step of one delivery leaves the rest as it is.
LEMMA DeliveryStep ==
    ASSUME NotifyInv, NEW s \in Senders,
           UNCHANGED <<up, gone, table, used, links, legacy, marker, migration, late, owed, made>>,
           NEW d \in {Idle} \union Delivery, d # Idle => DeliveryInOrder(d),
           sending' = [sending EXCEPT ![s] = d]
    PROVE  NotifyInv'
<1> USE DEF NotifyInv
<1>1. sending' \in [Senders -> {Idle} \union Delivery]
  BY DEF NotifyTypeOK
<1>2. NotifyTypeOK'
  BY <1>1 DEF NotifyTypeOK
<1>3. MigratesInOrder' /\ NothingLost'
  BY ChannelsRest DEF MigratesInOrder, NothingLost, AtItem, Whole, Item
<1>4. RowsDiffer' /\ MadeOnce'
  BY DEF RowsDiffer, MadeOnce
<1>5. ListsInOrder'
  <2> SUFFICES ASSUME NEW t \in Senders, sending'[t] # Idle
               PROVE  DeliveryInOrder(sending[t])'
    BY DEF ListsInOrder
  <2>1. sending'[t] = IF t = s THEN d ELSE sending[t]
    BY DEF NotifyTypeOK
  <2>2. DeliveryInOrder(sending'[t])
    BY <2>1 DEF ListsInOrder
  <2> QED BY <2>2 DEF DeliveryInOrder, Exists
<1> QED BY <1>2, <1>3, <1>4, <1>5

\* The list of an account's channels names those assigned to it, each once.
LEMMA AssignedOnce ==
    ASSUME NotifyInv, NEW a, NEW ids \in Assigned(a)
    PROVE  /\ ids \in Seq(Channels)
           /\ \A i, j \in DOMAIN ids : ids[i] = ids[j] => i = j
           /\ \A i \in DOMAIN ids : ids[i] \in used
           /\ AssignedSet(a) = {ids[i] : i \in DOMAIN ids}
<1> USE DEF NotifyInv
<1> DEFINE mine == {i \in DOMAIN table : <<a, table[i].id>> \in links}
           places == 1 .. Cardinality(mine)
<1>1. PICK rows \in SetToSeqs(mine) : ids = [i \in DOMAIN rows |-> table[rows[i]].id]
  BY DEF Assigned
<1>2. /\ DOMAIN table = 1 .. Len(table) /\ Len(table) \in Nat
      /\ \A i \in DOMAIN table : table[i].id \in used
  BY RowsTyped
<1>3. IsFiniteSet(mine) /\ Cardinality(mine) \in Nat
  <2>1. IsFiniteSet(1 .. Len(table))
    BY <1>2, FS_Interval
  <2>2. mine \subseteq 1 .. Len(table)
    BY <1>2
  <2>3. IsFiniteSet(mine)
    BY <2>1, <2>2, FS_Subset
  <2> QED BY <2>3, FS_CardinalityType
<1>4. /\ rows \in [places -> mine]
      /\ \A i, j \in places : i # j => rows[i] # rows[j]
  BY <1>1 DEF SetToSeqs
<1>5. \A i \in mine : i \in DOMAIN table /\ <<a, table[i].id>> \in links
  OBVIOUS
<1>6. \A i \in DOMAIN table : <<a, table[i].id>> \in links => i \in mine
  OBVIOUS
<1> HIDE DEF mine
<1>7. \A i \in mine : \E k \in places : rows[k] = i
  <2>1. Cardinality(places) = Cardinality(mine)
    <3>1. Cardinality(places) = IF 1 > Cardinality(mine) THEN 0 ELSE Cardinality(mine) - 1 + 1
      BY <1>3, FS_Interval
    <3> HIDE DEF places
    <3> QED BY <1>3, <3>1
  <2>2. IsInjective(rows)
    BY <1>4 DEF IsInjective
  <2>3. rows \in Injection(places, mine)
    BY <1>4, <2>2 DEF Injection
  <2>4. rows \in Surjection(places, mine)
    BY <1>3, <2>1, <2>3, FS_Injection
  <2> QED BY <2>4 DEF Surjection
<1>8. /\ DOMAIN ids = places
      /\ \A i \in DOMAIN ids : ids[i] = table[rows[i]].id /\ rows[i] \in mine
  BY <1>1, <1>4
<1>9. \A i \in DOMAIN ids : ids[i] \in used /\ ids[i] \in Channels /\ <<a, ids[i]>> \in links
  BY <1>2, <1>5, <1>8 DEF NotifyTypeOK
<1>10. \A i, j \in DOMAIN ids : ids[i] = ids[j] => i = j
  <2> SUFFICES ASSUME NEW i \in places, NEW j \in places, ids[i] = ids[j] PROVE i = j
    BY <1>8
  <2>1. rows[i] = rows[j]
    <3>1. rows[i] \in DOMAIN table /\ rows[j] \in DOMAIN table
      BY <1>5, <1>8
    <3>2. table[rows[i]].id = table[rows[j]].id
      BY <1>8
    <3> QED BY <3>1, <3>2 DEF RowsDiffer
  <2> QED BY <1>4, <2>1
<1>11. ids \in Seq(Channels)
  <2>1. ids \in [1 .. Cardinality(mine) -> Channels]
    BY <1>1, <1>8, <1>9
  <2> QED BY <1>3, <2>1
<1>12. ASSUME NEW id, <<a, id>> \in links PROVE \E k \in DOMAIN ids : ids[k] = id
  <2>1. PICK i \in DOMAIN table : table[i].id = id
    BY <1>12 DEF NotifyTypeOK
  <2>2. i \in mine
    BY <1>6, <1>12, <2>1
  <2>3. PICK k \in places : rows[k] = i
    BY <1>7, <2>2
  <2> QED BY <1>8, <2>1, <2>3
<1>13. AssignedSet(a) = {ids[i] : i \in DOMAIN ids}
  BY <1>9, <1>12 DEF AssignedSet
<1> QED BY <1>9, <1>10, <1>11, <1>13

LEMMA SendInv ==
    ASSUME NotifyInv, NEW s \in Senders, NEW a \in Accounts, Send(s, a) PROVE NotifyInv'
<1> USE DEF chanVars, migVars
<1> DEFINE new(ids) == [stage |-> "next", account |-> a, listed |-> ids,
                        due |-> AssignedSet(a), done |-> <<>>]
<1>1. PICK ids \in Assigned(a) : sending' = [sending EXCEPT ![s] = new(ids)]
  BY DEF Send
<1> DEFINE d == new(ids)
<1>2. /\ ids \in Seq(Channels)
      /\ \A i, j \in DOMAIN ids : ids[i] = ids[j] => i = j
      /\ \A i \in DOMAIN ids : ids[i] \in used
      /\ AssignedSet(a) = {ids[i] : i \in DOMAIN ids}
  BY AssignedOnce
<1>3. AssignedSet(a) \subseteq Channels
  BY DEF AssignedSet, NotifyInv, NotifyTypeOK
<1>4. d \in Delivery
  BY <1>2, <1>3 DEF Delivery
<1>5. DeliveryInOrder(d)
  <2>1. Len(ids) \in Nat /\ Len(d.done) = 0 /\ DOMAIN d.done = {}
    BY <1>2
  <2>2. d.stage = "next" /\ d.listed = ids /\ d.due = AssignedSet(a)
    OBVIOUS
  <2> HIDE DEF d
  <2> QED BY <1>2, <2>1, <2>2 DEF DeliveryInOrder
<1>6. UNCHANGED <<up, gone, table, used, links, legacy, marker, migration, late, owed, made>>
  BY DEF Send
<1> HIDE DEF d
<1> QED BY <1>1, <1>4, <1>5, <1>6, DeliveryStep DEF d

LEMMA LoadInv == ASSUME NotifyInv, NEW s \in Senders, Load(s) PROVE NotifyInv'
<1> USE DEF chanVars, migVars
<1> DEFINE now == sending[s]
           at(stage) == [now EXCEPT !.stage = stage]
<1>1. /\ now \in Delivery /\ DeliveryInOrder(now) /\ Position(s) \in DOMAIN now.listed
  BY DEF Load, NotifyInv, NotifyTypeOK, ListsInOrder
<1>2. PICK stage \in {"pushing", "unreadable", "missing"} :
         /\ stage = "missing" => ~Exists(Current(s))
         /\ sending' = [sending EXCEPT ![s] = at(stage)]
  BY DEF Load, NotifyInv, NotifyTypeOK
<1> DEFINE d == at(stage)
<1>3. /\ d \in Delivery /\ d.stage = stage
      /\ d.listed = now.listed /\ d.done = now.done /\ d.due = now.due
  BY <1>1 DEF Delivery
<1>4. Position(s) = Len(now.done) + 1 /\ Current(s) = now.listed[Position(s)]
  BY DEF Position, Current
<1>5. UNCHANGED <<up, gone, table, used, links, legacy, marker, migration, late, owed, made>>
  BY DEF Load
<1> HIDE DEF d, now
<1>6. DeliveryInOrder(d)
  BY <1>1, <1>2, <1>3, <1>4 DEF DeliveryInOrder
<1>7. sending' = [sending EXCEPT ![s] = d]
  BY <1>2 DEF d
<1> QED BY <1>3, <1>5, <1>6, <1>7, DeliveryStep

LEMMA PushedInv == ASSUME NotifyInv, NEW s \in Senders, Pushed(s) PROVE NotifyInv'
<1> USE DEF chanVars, migVars
<1> DEFINE now == sending[s]
           d == [now EXCEPT !.stage = "next", !.done = Append(@, Current(s))]
<1>1. now \in Delivery /\ DeliveryInOrder(now) /\ now.stage = "pushing"
  BY DEF Pushed, NotifyInv, NotifyTypeOK, ListsInOrder
<1>2. sending' = [sending EXCEPT ![s] = d]
  BY DEF Pushed, NotifyInv, NotifyTypeOK
<1>3. /\ now.done \in Seq(Channels) /\ Len(now.done) \in Nat /\ now.listed \in Seq(Channels)
      /\ DOMAIN now.done = 1 .. Len(now.done)
      /\ DOMAIN now.listed = 1 .. Len(now.listed) /\ Len(now.listed) \in Nat
  BY <1>1 DEF Delivery
<1>4. /\ Current(s) = now.listed[Len(now.done) + 1]
      /\ Len(now.done) + 1 \in DOMAIN now.listed /\ Current(s) \in Channels
  BY <1>1, <1>3 DEF Current, Position, DeliveryInOrder
<1> DEFINE longer == Append(now.done, Current(s))
<1>5. /\ longer \in Seq(Channels) /\ Len(longer) = Len(now.done) + 1
      /\ DOMAIN longer = 1 .. Len(now.done) + 1
      /\ \A i \in 1 .. Len(now.done) : longer[i] = now.done[i]
      /\ longer[Len(now.done) + 1] = Current(s)
  <2> HIDE DEF now
  <2> QED BY <1>3, <1>4, AppendProperties
<1>6. d.stage = "next" /\ d.listed = now.listed /\ d.done = longer /\ d.due = now.due
  BY <1>1 DEF Delivery
<1>7. d \in Delivery
  BY <1>1, <1>5 DEF Delivery
<1>8. UNCHANGED <<up, gone, table, used, links, legacy, marker, migration, late, owed, made>>
  BY DEF Pushed
<1> HIDE DEF d, now, longer
<1>9. Len(now.done) + 1 <= Len(now.listed)
  BY <1>3, <1>4
<1>10. \A i \in DOMAIN longer : longer[i] = now.listed[i]
  <2> TAKE i \in DOMAIN longer
  <2>1. CASE i = Len(now.done) + 1
    BY <2>1, <1>4, <1>5
  <2>2. CASE i # Len(now.done) + 1
    <3>1. i \in 1 .. Len(now.done)
      BY <2>2, <1>3, <1>5
    <3> QED BY <3>1, <1>1, <1>3, <1>5 DEF DeliveryInOrder
  <2> QED BY <2>1, <2>2
<1>11. DeliveryInOrder(d)
  BY <1>1, <1>5, <1>6, <1>9, <1>10 DEF DeliveryInOrder
<1> QED BY <1>2, <1>7, <1>8, <1>11, DeliveryStep

LEMMA FinishInv == ASSUME NotifyInv, NEW s \in Senders, Finish(s) PROVE NotifyInv'
<1>1. /\ sending' = [sending EXCEPT ![s] = Idle]
      /\ UNCHANGED <<up, gone, table, used, links, legacy, marker, migration, late, owed, made>>
  BY DEF Finish, chanVars, migVars
<1> QED BY <1>1, DeliveryStep

-----------------------------------------------------------------------------
LEMMA NotifyInitInv == NotifyInit => NotifyInv
<1> SUFFICES ASSUME NotifyInit PROVE NotifyInv
  OBVIOUS
<1> USE DEF NotifyInit
<1>1. NotifyTypeOK
  <2>1. table \in Seq([id : used, type : Types, config : Configs])
    OBVIOUS
  <2>2. links \subseteq (Accounts \ gone) \X {table[i].id : i \in DOMAIN table}
    OBVIOUS
  <2>3. sending \in [Senders -> {Idle} \union Delivery]
    OBVIOUS
  <2> QED BY <2>1, <2>2, <2>3 DEF NotifyTypeOK
<1>2. RowsDiffer /\ MadeOnce
  BY DEF RowsDiffer, MadeOnce
<1>3. MigratesInOrder
  BY DEF MigratesInOrder, AtItem
<1>4. NothingLost /\ ListsInOrder
  BY DEF NothingLost, ListsInOrder
<1> QED BY <1>1, <1>2, <1>3, <1>4 DEF NotifyInv

LEMMA NotifyStutter == NotifyInv /\ UNCHANGED notifyVars => NotifyInv'
<1> SUFFICES ASSUME NotifyInv, UNCHANGED notifyVars PROVE NotifyInv'
  OBVIOUS
<1> USE DEF NotifyInv, notifyVars
<1>1. NotifyTypeOK'
  BY DEF NotifyTypeOK
<1>2. MigratesInOrder' /\ NothingLost'
  BY ChannelsRest DEF MigratesInOrder, NothingLost, AtItem, Whole, Item
<1>3. RowsDiffer' /\ MadeOnce'
  BY DEF RowsDiffer, MadeOnce
<1>4. ListsInOrder'
  <2>1. \A x \in used : Exists(x)' => Exists(x)
    BY DEF Exists
  <2> QED BY <2>1, ListsKept
<1> QED BY <1>1, <1>2, <1>3, <1>4

LEMMA NotifyStep == NotifyInv /\ [NotifyNext]_notifyVars => NotifyInv'
<1> SUFFICES ASSUME NotifyInv, [NotifyNext]_notifyVars PROVE NotifyInv'
  OBVIOUS
<1>1. CASE Edit
  BY <1>1, CreateInv, UpdateInv, DeleteChannelInv, AccountInv, VaultInv DEF Edit
<1>2. CASE Start \/ Repair
  BY <1>2, BeginInv
<1>3. CASE Migrate
  BY <1>3, MigrateCreateInv, MigrateAssignInv, MigrateDeleteInv, MarkInv DEF Migrate
<1>4. CASE Down
  BY <1>4, DownInv
<1>5. CASE \E s \in Senders : Deliver(s)
  BY <1>5, SendInv, LoadInv, PushedInv, FinishInv DEF Deliver
<1>6. CASE UNCHANGED notifyVars
  BY <1>6, NotifyStutter
<1> QED BY <1>1, <1>2, <1>3, <1>4, <1>5, <1>6 DEF NotifyNext

\* The channels, the migration and the deliveries keep together what belongs together:
\* rows have identifiers of their own, an old configuration is at every moment a secret or
\* a channel of its account, and a delivery goes along the list of the channels that were assigned when the result was
\* sent (notifications.py:96-355).
THEOREM ChannelsStayConsistent == NotifySpec => []NotifyInv
BY NotifyInitInv, NotifyStep, PTL DEF NotifySpec

\* However often the migration is interrupted, raises, is repeated or forced, and whatever
\* users write into the vault in between, no legacy configuration is lost or migrated twice,
\* and a complete marker leaves behind only what users wrote later (notifications.py:271-355).
THEOREM MigrationLosesNothing == NotifySpec => []MigrationSafe
<1>1. NotifyInv => MigrationSafe
  <2> SUFFICES ASSUME NotifyInv PROVE MigrationSafe
    OBVIOUS
  <2>1. NotifyTypeOK /\ NothingLost /\ MadeOnce
    BY DEF NotifyInv
  <2>2. \A i, j \in DOMAIN table : table[i].id \in made /\ table[j].id \in made /\ i # j =>
          <<table[i].type, table[i].config>> # <<table[j].type, table[j].config>>
    BY <2>1 DEF MadeOnce
  <2> QED BY <2>1, <2>2 DEF MigrationSafe, NothingLost, HasChannel
<1> QED BY <1>1, ChannelsStayConsistent, PTL

\* Whatever users do meanwhile, a delivery tries each channel that was assigned when the
\* result was sent at most once and no other, all of them if it gets to its end, and breaks
\* off for a missing one only when one of them is gone (web/app.py, notifications.py:198-268).
THEOREM DeliveriesStayApart == NotifySpec => []DeliveriesAreIsolated
<1>1. ASSUME NotifyInv, NEW s \in Senders, sending[s] # Idle
      PROVE  LET d == sending[s] IN
             /\ Tried(d) \subseteq d.due
             /\ IsInjective(d.done)
             /\ AtEnd(s) => Tried(d) = d.due
             /\ d.stage = "missing" => \E id \in d.due \ Tried(d) : ~Exists(id)
  <2> DEFINE d == sending[s]
  <2>1. d \in Delivery /\ DeliveryInOrder(d)
    BY <1>1 DEF NotifyInv, NotifyTypeOK, ListsInOrder
  <2>2. /\ DOMAIN d.done = 1 .. Len(d.done) /\ Len(d.done) \in Nat
        /\ DOMAIN d.listed = 1 .. Len(d.listed) /\ Len(d.listed) \in Nat
    BY <2>1 DEF Delivery
  <2>3. AtEnd(s) => Len(d.done) = Len(d.listed)
    <3> SUFFICES ASSUME Len(d.done) + 1 \notin DOMAIN d.listed PROVE Len(d.done) = Len(d.listed)
      BY DEF AtEnd, Position
    <3> HIDE DEF d
    <3> QED BY <2>1, <2>2 DEF DeliveryInOrder
  <2> HIDE DEF d
  <2>4. DOMAIN d.done \subseteq DOMAIN d.listed
    BY <2>1, <2>2 DEF DeliveryInOrder
  <2>5. Tried(d) \subseteq d.due /\ IsInjective(d.done)
    BY <2>1, <2>4 DEF Tried, DeliveryInOrder, IsInjective
  <2>6. Len(d.done) = Len(d.listed) => Tried(d) = d.due
    BY <2>1, <2>2 DEF Tried, DeliveryInOrder
  <2>7. ASSUME d.stage = "missing" PROVE \E id \in d.due \ Tried(d) : ~Exists(id)
    <3> DEFINE next == Len(d.done) + 1
    <3>1. next \in DOMAIN d.listed /\ ~Exists(d.listed[next]) /\ next \notin DOMAIN d.done
      BY <2>1, <2>2, <2>7 DEF DeliveryInOrder
    <3>2. d.listed[next] \notin Tried(d)
      BY <2>1, <2>4, <3>1 DEF DeliveryInOrder, Tried
    <3> QED BY <2>1, <3>1, <3>2 DEF DeliveryInOrder
  <2> QED BY <2>3, <2>5, <2>6, <2>7 DEF d
<1>2. NotifyInv => DeliveriesAreIsolated
  BY <1>1 DEF DeliveriesAreIsolated
<1> QED BY <1>2, ChannelsStayConsistent, PTL
=============================================================================
