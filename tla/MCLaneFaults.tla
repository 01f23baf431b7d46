---------------------------- MODULE MCLaneFaults ----------------------------
(* The lane under kills and power losses, or the lane whose writes,        *)
(* fsyncs, renames and opens fail: the two kinds of trouble together are   *)
(* too many states, so a behaviour has one of them, chosen at its start.   *)
(* A third window, a kill before the power loss and a second frame are     *)
(* taken one at a time for the same reason.                                *)
EXTENDS LaneWriter

\* A lane that is to meet failing calls has its kills spent from the start.
SpentKills == MaxKills + 1

MCInit ==
    /\ NeverRun /\ outages = 0 /\ faults = 0
    /\ \/ /\ frames = MaxFrames - 1
          /\ \/ now = MaxTime - 2 /\ kills = MaxKills
             \/ now = MaxTime - 1 /\ kills = 0
       \/ /\ kills = SpentKills
          /\ \/ now = MaxTime - 1 /\ frames = MaxFrames - 1
             \/ now = MaxTime /\ frames = 0

MCSpec == MCInit /\ [][Next]_vars

\* One kind of trouble in a behaviour.
OneKind == IF kills = SpentKills THEN UNCHANGED outages ELSE UNCHANGED faults
=============================================================================
