------------------------------- MODULE Deques -------------------------------
(* The collections.deque operation of both gates that Sequences does not have. *)
EXTENDS Naturals, Sequences, SequencesExt

\* Marked where it stands, and skipped by nobody.
MarkedRemoved(q, t) == [i \in DOMAIN q |-> IF q[i] = t THEN "removed" ELSE q[i]]
\* deque.remove under suppress(ValueError): the first t goes, if there is one.
Without(q, t) ==
    IF \E i \in DOMAIN q : q[i] = t
    THEN RemoveAt(q, CHOOSE i \in DOMAIN q : q[i] = t /\ \A j \in 1 .. (i - 1) : q[j] # t)
    ELSE q
=============================================================================
