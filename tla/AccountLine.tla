---------------------------- MODULE AccountLine ----------------------------
(***************************************************************************)
(* What AccountOperationGate promises to the routers and the scheduler:    *)
(* for every account there is one line of operations.  An operation joins  *)
(* at the end unless a deletion already stands in the line, only the head  *)
(* of the line may run, and nobody but the operation itself makes it leave. *)
(* Nothing is said of how the gate keeps the line.                         *)
(***************************************************************************)
EXTENDS Naturals, Sequences, SequencesExt

CONSTANTS Tasks,     \* the asyncio tasks that call use() or delete()
          Accounts,  \* the account identifiers
          None       \* no task

VARIABLES line,      \* [Accounts -> Seq of [task, kind]], oldest request first
          inside     \* [Accounts -> the task running the guarded body, or None]

lineVars == <<line, inside>>

InLine(t) == \E a \in Accounts : \E i \in DOMAIN line[a] : line[a][i].task = t

LineInit == /\ line = [a \in Accounts |-> <<>>]
            /\ inside = [a \in Accounts |-> None]

\* An operation that meets an empty line runs at once.
Join(a, t, k) ==
    /\ ~InLine(t)
    /\ \A i \in DOMAIN line[a] : line[a][i].kind # "delete"
    /\ line' = [line EXCEPT ![a] = Append(@, [task |-> t, kind |-> k])]
    /\ inside' = IF line[a] = <<>> THEN [inside EXCEPT ![a] = t] ELSE inside

Enter(a) ==
    /\ line[a] # <<>>
    /\ inside[a] = None
    /\ inside' = [inside EXCEPT ![a] = Head(line[a]).task]
    /\ UNCHANGED line

\* The i-th operation leaves: the running head when its body ends, any other
\* because its task was cancelled.
Leave(a, i) ==
    /\ i \in DOMAIN line[a]
    /\ line' = [line EXCEPT ![a] = RemoveAt(@, i)]
    /\ inside' = IF inside[a] = line[a][i].task
                 THEN [inside EXCEPT ![a] = None] ELSE inside

LineNext == \E a \in Accounts :
    \/ \E t \in Tasks, k \in {"use", "delete"} : Join(a, t, k)
    \/ Enter(a)
    \/ \E i \in DOMAIN line[a] : Leave(a, i)

LineSpec == LineInit /\ [][LineNext]_lineVars
=============================================================================
