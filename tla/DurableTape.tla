---------------------------- MODULE DurableTape ----------------------------
(***************************************************************************)
(* What a capture lane promises to everyone downstream: one tape of        *)
(* records, numbered 1, 2, 3, ... without a gap or a repetition over the   *)
(* whole life of the lane, that only ever grows at its end.  docs and      *)
(* comments state it as "delivery_index is dense across the splice's whole *)
(* lifetime" and "a seal is a commit marker".                              *)
(***************************************************************************)
EXTENDS Naturals, Sequences

VARIABLE tape

Init == tape = <<>>

\* One seal commits zero or more further records.
Commit ==
    /\ Len(tape') >= Len(tape)
    /\ SubSeq(tape', 1, Len(tape)) = tape
    /\ \A i \in (Len(tape) + 1)..Len(tape') : tape'[i].idx = i

Spec == Init /\ [][Commit]_tape
=============================================================================
