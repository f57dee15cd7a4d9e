--------------------------- MODULE Administration ---------------------------
(***************************************************************************)
(* The administrator's login: core/login_limiter.py, core/auth.py,         *)
(* web/routers/auth.py and the middleware of web/app.py.                   *)
(*                                                                         *)
(* Every handler here runs without an await, as one action.  Time passes   *)
(* in ticks; an attempt is represented by its age, a session by the ticks  *)
(* it has left.  Passwords are right or wrong, signatures are taken as     *)
(* unforgeable; the setting that disables authentication is off.           *)
(***************************************************************************)
EXTENDS Naturals, Sequences, FiniteSets

CONSTANTS Clients,      \* peer addresses, with the cookie of one browser each
          MaxAttempts,  \* max_attempts
          MaxClients,   \* max_clients
          Window,       \* window_seconds, in ticks
          Lifetime,     \* session_hours, in ticks
          Databases,    \* the databases the service may find when it starts
          None

ASSUME LimiterAssumption ==
    /\ MaxAttempts \in Nat \ {0} /\ MaxClients \in Nat \ {0}
    /\ Window \in Nat \ {0} /\ Lifetime \in Nat \ {0}
    /\ IsFiniteSet(Clients)

Session == [ver : Databases, left : 0 .. Lifetime]
ASSUME NoneIsNoSession == None \notin Session

VARIABLES db,          \* the database in use: its auth version is its name
          configured,  \* the databases with an administrator password
          attempts,    \* _attempts: [Clients -> ages, oldest first; <<>> where absent]
          cookie,      \* [Clients -> the session cookie, [ver, left], or None]
          failures,    \* history: the ages of the failed checks of the last window
          proved       \* history: [Clients -> [Databases -> ticks since the client proved its
                       \* password to the database, up to Lifetime]]

vars == <<db, configured, attempts, cookie, failures, proved>>

Init == /\ db \in Databases /\ configured = {}
        /\ attempts = [c \in Clients |-> <<>>]
        /\ cookie = [c \in Clients |-> None]
        /\ failures = [c \in Clients |-> <<>>]
        /\ proved = [c \in Clients |-> [d \in Databases |-> Lifetime]]

-----------------------------------------------------------------------------
(* LoginAttemptLimiter *)

\* popleft() for as long as the oldest attempt has reached the limit.
Popped(ages, limit) ==
    LET n == CHOOSE n \in 0 .. Len(ages) : /\ \A i \in 1 .. n : ages[i] >= limit
                                           /\ n < Len(ages) => ages[n + 1] < limit
    IN  SubSeq(ages, n + 1, Len(ages))

PrunedEarly(a) == [c \in Clients |-> Popped(a[c], Window - 1)]
\* An attempt counts until it is as old as the window.
Pruned(a) == [c \in Clients |-> Popped(a[c], Window)]

Tracked(a) == {c \in Clients : a[c] # <<>>}
Full(a) == Cardinality(Tracked(a)) >= MaxClients

\* is_limited: a new client is refused when the table is full; none is evicted for it.
Limited(c) == LET a == Pruned(attempts)
              IN  IF c \in Tracked(a) THEN Len(a[c]) >= MaxAttempts ELSE Full(a)

RecordFailure(c) == LET a == Pruned(attempts)
                    IN  attempts' = IF c \in Tracked(a) \/ ~Full(a)
                                    THEN [a EXCEPT ![c] = Append(@, 0)] ELSE a

-----------------------------------------------------------------------------
(* AdminAuthService *)

IssueSession(c) == /\ cookie' = [cookie EXCEPT ![c] = [ver |-> db, left |-> Lifetime]]
                   /\ proved' = [proved EXCEPT ![c][db] = 0]

VerifiedForAnyDatabase(session) == session # None /\ session.left > 0 /\ db \in configured
\* verify_session: not expired, and issued under the password of this database.
Verified(session) ==
    session # None /\ session.left > 0 /\ session.ver = db /\ db \in configured

-----------------------------------------------------------------------------
(* The handlers of routers/auth.py *)

Setup(c) ==
    /\ db \notin configured
    /\ configured' = configured \union {db}
    /\ IssueSession(c)
    /\ UNCHANGED <<db, attempts, failures>>

LoginRefused(c) ==
    /\ db \in configured /\ Limited(c)
    /\ attempts' = Pruned(attempts)
    /\ UNCHANGED <<db, configured, cookie, failures, proved>>

LoginFails(c) ==
    /\ db \in configured /\ ~Limited(c)
    /\ RecordFailure(c)
    /\ failures' = [failures EXCEPT ![c] = Append(@, 0)]
    /\ UNCHANGED <<db, configured, cookie, proved>>

LoginSucceeds(c) ==
    /\ db \in configured /\ ~Limited(c)
    /\ attempts' = [Pruned(attempts) EXCEPT ![c] = <<>>]
    /\ failures' = [failures EXCEPT ![c] = <<>>]
    /\ IssueSession(c)
    /\ UNCHANGED <<db, configured>>

\* Not a public path: the middleware asks for a session and its CSRF token.  The token
\* itself stays good until it expires; only the browser's copy goes.
Logout(c) ==
    /\ Verified(cookie[c])
    /\ cookie' = [cookie EXCEPT ![c] = None]
    /\ UNCHANGED <<db, configured, attempts, failures, proved>>

-----------------------------------------------------------------------------
(* The clock and the process *)

Older(ages, limit) == [i \in DOMAIN ages |-> IF ages[i] < limit THEN ages[i] + 1 ELSE limit]
Tick ==
    /\ attempts' = [c \in Clients |-> Older(attempts[c], Window)]
    /\ failures' = [c \in Clients |-> Popped(Older(failures[c], Window), Window)]
    /\ cookie' = [c \in Clients |-> IF cookie[c] = None \/ cookie[c].left = 0 THEN cookie[c]
                                    ELSE [cookie[c] EXCEPT !.left = @ - 1]]
    /\ proved' = [c \in Clients |-> [d \in Databases |->
                    IF proved[c][d] < Lifetime THEN proved[c][d] + 1 ELSE Lifetime]]
    /\ UNCHANGED <<db, configured>>

\* The table of attempts is in memory.  The operator may put another database in place,
\* a new one or an older one, under the same master key.
Restart ==
    /\ db' \in Databases
    /\ attempts' = [c \in Clients |-> <<>>]
    /\ failures' = [c \in Clients |-> <<>>]
    /\ UNCHANGED <<configured, cookie, proved>>

Next == \/ \E c \in Clients : \/ Setup(c) \/ LoginRefused(c) \/ LoginFails(c)
                              \/ LoginSucceeds(c) \/ Logout(c)
        \/ Tick \/ Restart

Spec == Init /\ [][Next]_vars
-----------------------------------------------------------------------------
AdminTypeOK ==
    /\ db \in Databases /\ configured \subseteq Databases
    /\ attempts \in [Clients -> Seq(0 .. Window)]
    /\ \A c \in Clients : Len(attempts[c]) <= MaxAttempts
    /\ cookie \in [Clients -> {None} \union Session]
    /\ failures \in [Clients -> Seq(0 .. Window - 1)]
    /\ proved \in [Clients -> [Databases -> 0 .. Lifetime]]

\* In no window of time are more than max_attempts wrong passwords of a client checked
\* (unless it gave the right one in between), nor those of more than max_clients
\* clients; and whoever has used up its attempts stays refused until the first of them
\* is a window old, whatever the others do.
LimiterHolds ==
    /\ AdminTypeOK
    /\ Cardinality(Tracked(failures)) <= MaxClients
    /\ \A c \in Clients : /\ Len(failures[c]) <= MaxAttempts
                          /\ Len(failures[c]) = MaxAttempts => Limited(c)
                          /\ Limited(c) => Len(failures[c]) = MaxAttempts \/ Full(failures)

\* A browser is let in only for as long as a session lasts after it has proved, to the
\* database now in use, that it has the password: no expired session and none of another
\* database is accepted, over restarts of the service.
SessionsAreEarned == \A c \in Clients : Verified(cookie[c]) => proved[c][db] < Lifetime
=============================================================================
