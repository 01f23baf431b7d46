----------------------------- MODULE MCArchive -----------------------------
(* The retention of raw segments and, for what happens in the end, of      *)
(* canonical windows: each lives in its own directory and under its own    *)
(* keys, and no step of one touches the other.                             *)
EXTENDS RawRetention, Sequences, TLC

VARIABLES
    part,  \* the component that moves; the others stay in their initial states
    cMem, cDisk, gen, body, store, aged, cApc, aw, cAtodo, cHalted, cRpc, rw, qpc, qw, qsaw,
    verdict, spc, sw, dest, excused, cTrouble

Canonical == INSTANCE CanonicalRetention WITH
    MaxWindows <- 1, MaxTrouble <- 1, OrderedDirs <- FALSE, mem <- cMem, disk <- cDisk,
    apc <- cApc, atodo <- cAtodo, halted <- cHalted, rpc <- cRpc, trouble <- cTrouble

CanonicalVars == <<cMem, cDisk, gen, body, store, aged, cApc, aw, cAtodo, cHalted, cRpc, rw,
                   qpc, qw, qsaw, verdict, spc, sw, dest, excused, cTrouble>>

MCInit ==
    /\ part \in {"raw", "canonical"}
    /\ Init /\ Canonical!Init

MCNext ==
    /\ UNCHANGED part
    /\ \/ part = "raw" /\ Next /\ UNCHANGED CanonicalVars
       \/ part = "canonical" /\ Canonical!Next /\ UNCHANGED vars

allVars == <<part, vars, CanonicalVars>>

\* The services run in loops, and time passes.
MCFairSpec ==
    /\ MCInit /\ [][MCNext]_allVars
    /\ WF_vars(part = "raw" /\ Archiver)
    /\ WF_vars(part = "raw" /\ Reaper)
    /\ WF_CanonicalVars(part = "canonical" /\ Canonical!Finalizer)
    /\ WF_CanonicalVars(part = "canonical" /\ Canonical!Archiver)
    /\ WF_CanonicalVars(part = "canonical" /\ Canonical!Reaper)
    /\ WF_CanonicalVars(part = "canonical" /\ Canonical!Reader)
    /\ \A w \in Canonical!Windows : WF_CanonicalVars(part = "canonical" /\ Canonical!WindowAges(w))

-----------------------------------------------------------------------------
\* A reader that meets a window in the middle of its deletion accepts it later.
ReaderRecovers == Canonical!ReaderRecovers

\* A committed segment and a committed window are archived and reaped in the end,
\* but for the cases each component names.
ReapedInTheEnd ==
    /\ EventuallyReaped
    /\ Canonical!EventuallyReaped
=============================================================================
