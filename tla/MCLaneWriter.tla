---------------------------- MODULE MCLaneWriter ----------------------------
(* LaneWriter instantiated for TLC, and its refinement of DurableTape.     *)
EXTENDS LaneWriter

Tape == INSTANCE DurableTape WITH tape <- SealedTape

\* The sealed segments implement the lane's promise: a dense, append-only tape,
\* across rotations, shutdowns, kills, power losses and recoveries
\* (BaseSplice._emit, SegmentWriter.seal, resume_state).
ImplementsDurableTape == Tape!Spec
=============================================================================
