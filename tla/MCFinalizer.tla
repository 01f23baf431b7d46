---------------------------- MODULE MCFinalizer ----------------------------
(* Finalizer instantiated for TLC.                                         *)
EXTENDS Finalizer, TLC

\* Processes differ only by name.
ProcSymmetry == Permutations(Procs)
=============================================================================
