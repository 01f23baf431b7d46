----------------------------- MODULE BookPoller -----------------------------
(***************************************************************************)
(* The Polymarket snapshot splice: a REST poll dressed as a connection     *)
(* (polymarket/snapshots.py).  The books are fetched by a task of its own, *)
(* batch after batch, into a deque; the capture loop takes one book per    *)
(* recv and cancels a recv that takes longer than loop_wake_seconds.  A    *)
(* failed fetch ends the task, and through recv the connection.            *)
(***************************************************************************)
EXTENDS Integers, Sequences, SequencesExt, FiniteSets

CONSTANTS
    Batches,     \* the target assets, cut into batches: a sequence of sequences
    MaxFailures  \* bound on failed requests

VARIABLES
    conn,      \* "closed", "open"
    task,      \* "none", "fetching", "pausing", "failed"
    batch,     \* the batch being fetched
    pending,   \* books fetched and not yet taken
    waiting,   \* the capture loop is inside recv
    recorded,  \* the book recorded last
    failures

bpvars == <<conn, task, batch, pending, waiting, recorded, failures>>

Assets == UNION {Range(Batches[i]) : i \in DOMAIN Batches}
None == "none"

(* open_connection and send_subscription: a new transport, a new task *)
Open ==
    /\ conn = "closed"
    /\ conn' = "open" /\ task' = "fetching" /\ batch' = 1 /\ pending' = <<>> /\ waiting' = FALSE
    /\ UNCHANGED <<recorded, failures>>

(* _poll: a batch arrives and the next is asked for; after the last the    *)
(* task sleeps.                                                            *)
FetchDone ==
    /\ conn = "open" /\ task = "fetching"
    /\ pending' = pending \o Batches[batch]
    /\ IF batch < Len(Batches) THEN batch' = batch + 1 /\ UNCHANGED task
       ELSE batch' = 1 /\ task' = "pausing"
    /\ UNCHANGED <<conn, waiting, recorded, failures>>

FetchFails ==
    /\ conn = "open" /\ task = "fetching"
    /\ failures < MaxFailures
    /\ failures' = failures + 1
    /\ task' = "failed"
    /\ UNCHANGED <<conn, batch, pending, waiting, recorded>>

(* _run: the next cycle.  poll_seconds is far longer than taking the books *)
(* of a cycle, so the deque is empty by then.                              *)
Cycle ==
    /\ conn = "open" /\ task = "pausing" /\ pending = <<>>
    /\ task' = "fetching"
    /\ UNCHANGED <<conn, batch, pending, waiting, recorded, failures>>

(* The capture loop enters recv ... *)
Enter ==
    /\ conn = "open" /\ ~waiting
    /\ waiting' = TRUE
    /\ UNCHANGED <<conn, task, batch, pending, recorded, failures>>

(* ... which looks at the task before it looks at the deque: a failure     *)
(* ends the connection with whatever was fetched.                          *)
RecvFails ==
    /\ conn = "open" /\ waiting /\ task = "failed"
    /\ conn' = "closed" /\ task' = "none" /\ pending' = <<>> /\ batch' = 1 /\ waiting' = FALSE
    /\ UNCHANGED <<recorded, failures>>

RecvBook ==
    /\ conn = "open" /\ waiting /\ task # "failed" /\ pending # <<>>
    /\ recorded' = Head(pending)
    /\ pending' = Tail(pending)
    /\ waiting' = FALSE
    /\ UNCHANGED <<conn, task, batch, failures>>

(* The wake-up of the loop cancels a recv that has nothing; the fetch in   *)
(* flight is not touched.                                                  *)
\* mutant: the fetch runs inside recv and is cancelled with it
CancelledFetch == batch' = 1
FetchUntouched == UNCHANGED batch
RecvCancelled ==
    /\ conn = "open" /\ waiting /\ task # "failed" /\ pending = <<>>
    /\ waiting' = FALSE
    /\ FetchUntouched
    /\ UNCHANGED <<conn, task, pending, recorded, failures>>

Init ==
    /\ conn = "closed" /\ task = "none" /\ batch = 1 /\ pending = <<>>
    /\ waiting = FALSE /\ recorded = None /\ failures = 0

Next == Open \/ FetchDone \/ FetchFails \/ Cycle \/ Enter \/ RecvFails \/ RecvBook \/ RecvCancelled

(* The event loop runs both tasks; a request is answered or times out. *)
Fairness ==
    /\ WF_bpvars(Open) /\ WF_bpvars(FetchDone) /\ WF_bpvars(Cycle) /\ WF_bpvars(Enter)
    /\ WF_bpvars(RecvFails) /\ WF_bpvars(RecvBook)

Spec == Init /\ [][Next]_bpvars /\ Fairness

(* Every asset is recorded again and again, although the loop cancels recv *)
(* about once a second and a cycle takes longer than that.                 *)
EveryBookKeepsComing == \A a \in Assets : []<>(recorded = a)
=============================================================================
