---------------------------- MODULE CanonicalLog ----------------------------
(***************************************************************************)
(* What the finalizer promises to the readers of canonical evidence: a log *)
(* of windows that grows by one window at a time, each the successor of    *)
(* the last, whose records take the next positions of one global sequence. *)
(* Nothing committed is ever changed.                                      *)
(***************************************************************************)
EXTENDS Integers

VARIABLE log  \* window -> entry; an entry's first and last position are 0 if it is empty

Init == log = <<>>

\* Position a is the next one after every position of the log.
NextPosition(a) ==
    /\ \A v \in DOMAIN log : log[v].last < a
    /\ a = 1 \/ \E v \in DOMAIN log : log[v].last + 1 = a

Commit(w) ==
    /\ w \notin DOMAIN log
    /\ DOMAIN log = {} \/ (w - 1) \in DOMAIN log
    /\ DOMAIN log' = DOMAIN log \cup {w}
    /\ \A v \in DOMAIN log : log'[v] = log[v]
    /\ \/ log'[w].first = 0 /\ log'[w].last = 0
       \/ NextPosition(log'[w].first) /\ log'[w].first <= log'[w].last

Spec == Init /\ [][\E w \in DOMAIN log' : Commit(w)]_log
=============================================================================
