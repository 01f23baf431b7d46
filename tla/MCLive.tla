------------------------------- MODULE MCLive -------------------------------
(* What must happen in the end, in five processes that do not meet: a      *)
(* supervised replay attempt, the lane writer, the finalizer, the          *)
(* targeter's command and archive sweep, and the order-book poller of a    *)
(* splice.                                                                 *)
EXTENDS ReplayAttempt

ASSUME AttemptConstants == AttemptAssumption

VARIABLES
    part,  \* the component that moves; the others stay in their initial states
    now, back, phase, tail, run, next, pending, queue, timer, wpc, batch, drained, target,
    unwritten, fatal, cur, prevVis, files, frames, kills, outages, faults,
    fNow, spool, fKills, lease, pc, t, view, behind, cursor, limit, seq, edge, evidence,
    provenance, synced, receipts, mark,
    rLease, proc, rFiles, complete, old, remote, gen, pointer, ledger, reaper, rFaults,
    conn, task, pBatch, pPending, waiting, recorded, failures

Lane == INSTANCE LaneWriter WITH
    Period <- 1, Capacity <- 1, WriterBatch <- 2, MaxTime <- 2, MaxFrames <- 2,
    MaxRuns <- 1, MaxKills <- 0, MaxOutages <- 0, MaxBackSteps <- 0, OrderedDirs <- TRUE,
    Faults <- {}, MaxFaults <- 0
Fin == INSTANCE Finalizer WITH
    Procs <- {"p"}, NoProc <- "none", Lanes <- {"a"}, Expected <- {"a"}, Period <- 1,
    Deadline <- 1, MaxSynth <- 3, MaxTime <- 3, MaxSegments <- 2, MaxRecords <- 1,
    MaxFaults <- 0, MaxSkips <- 0, MaxKills <- 1, now <- fNow, kills <- fKills
Runs == INSTANCE TargeterRuns WITH
    Procs <- {"p1", "p2"}, LastRun <- 1, LastVenue <- 1, MaxFaults <- 2, lease <- rLease,
    files <- rFiles, faults <- rFaults
Poller == INSTANCE BookPoller WITH
    Batches <- <<<<"a">>, <<"b">>>>, MaxFailures <- 2, batch <- pBatch, pending <- pPending

LaneVars == <<now, back, phase, tail, run, next, pending, queue, timer, wpc, batch, drained,
              target, unwritten, fatal, cur, prevVis, files, frames, kills, outages, faults>>
FinVars == <<fNow, spool, fKills, lease, pc, t, view, behind, cursor, limit, seq, edge,
             evidence, provenance, synced, receipts, mark>>
RunsVars == <<rLease, proc, rFiles, complete, old, remote, gen, pointer, ledger, reaper,
              rFaults>>
PollerVars == <<conn, task, pBatch, pPending, waiting, recorded, failures>>

OtherVars == <<LaneVars, FinVars, RunsVars, PollerVars>>

MCInit ==
    /\ part \in {"attempt", "lane", "finalizer", "runs", "poller"}
    /\ Init /\ Lane!Init /\ Fin!Init /\ Runs!RunsInit /\ Poller!Init

MCNext ==
    /\ UNCHANGED part
    /\ \/ part = "attempt" /\ Next /\ UNCHANGED OtherVars
       \/ part = "lane" /\ Lane!Next /\ UNCHANGED <<vars, FinVars, RunsVars, PollerVars>>
       \/ part = "finalizer" /\ Fin!Next /\ UNCHANGED <<vars, LaneVars, RunsVars, PollerVars>>
       \/ part = "runs" /\ Runs!RunsNext /\ UNCHANGED <<vars, LaneVars, FinVars, PollerVars>>
       \/ part = "poller" /\ Poller!Next /\ UNCHANGED <<vars, LaneVars, FinVars, RunsVars>>

mcvars == <<part, vars, OtherVars>>

\* The supervisor polls, ends what it terminates, is started again, and its deadlines
\* pass; no participant of an attempt is assumed to move.  A writer's event loop and thread run what is ready, the host starts a stopped
\* process again, the operator clears a dead lease, cron goes on, a task of the
\* splice runs when it is ready, and time passes.
MCFairSpec ==
    /\ MCInit /\ [][MCNext]_mcvars
    /\ WF_vars(part = "attempt" /\ Steady)
    /\ WF_vars(part = "attempt" /\ OutOfBudget)
    /\ SF_vars(part = "attempt" /\ Deadline)
    /\ \A p \in Participants :
         /\ WF_vars(part = "attempt" /\ Terminate(p))
         /\ WF_vars(part = "attempt" /\ Orphaned(p))
    /\ WF_LaneVars(part = "lane" /\ Lane!PutCompletes) /\ WF_LaneVars(part = "lane" /\ Lane!RotateTimer)
    /\ WF_LaneVars(part = "lane" /\ Lane!DrainTake) /\ WF_LaneVars(part = "lane" /\ Lane!WriterFailureSeen)
    /\ WF_LaneVars(part = "lane" /\ Lane!EmitClosing) /\ WF_LaneVars(part = "lane" /\ Lane!SpoolSync)
    /\ WF_LaneVars(part = "lane" /\ Lane!CloseStart) /\ WF_LaneVars(part = "lane" /\ Lane!CloseDrain)
    /\ WF_LaneVars(part = "lane" /\ Lane!Writer) /\ WF_LaneVars(part = "lane" /\ Lane!Recover)
    /\ WF_LaneVars(part = "lane" /\ Lane!Tick)
    /\ WF_FinVars(part = "finalizer" /\ Fin!Step("p")) /\ WF_FinVars(part = "finalizer" /\ Fin!Start("p"))
    /\ WF_FinVars(part = "finalizer" /\ Fin!ClearLease) /\ WF_FinVars(part = "finalizer" /\ Fin!Tick)
    /\ WF_RunsVars(part = "runs" /\ Runs!ProcessStep("p1"))
    /\ WF_RunsVars(part = "runs" /\ Runs!ProcessStep("p2"))
    /\ WF_RunsVars(part = "runs" /\ Runs!StartSweep(Runs!FreeProcess))
    /\ WF_RunsVars(part = "runs" /\ Runs!ReaperStep)
    /\ WF_PollerVars(part = "poller" /\ Poller!Open) /\ WF_PollerVars(part = "poller" /\ Poller!FetchDone)
    /\ WF_PollerVars(part = "poller" /\ Poller!Cycle) /\ WF_PollerVars(part = "poller" /\ Poller!Enter)
    /\ WF_PollerVars(part = "poller" /\ Poller!RecvFails) /\ WF_PollerVars(part = "poller" /\ Poller!RecvBook)

-----------------------------------------------------------------------------
\* A started run ends, in success or failure, whatever its participants do.
EveryRunEnds == part = "attempt" => RunEnds

\* The timer keeps a quiet lane sealing: a segment whose window has ended is sealed
\* as long as the timer has a boundary to come (LaneWriter._rotate_forever).
EndedWindowIsSealed == part = "lane" => Lane!EndedWindowIsSealed

\* Shutdown ends, with a full queue and a busy writer thread too (LaneWriter.close).
StopEnds == part = "lane" => Lane!StopEnds

\* Once a window is committed, every window whose deadline has passed is, the empty
\* ones included, though the finalizer is killed (sweep_once, tile_absent_windows).
EndedWindowIsCommitted == part = "finalizer" => Fin!EndedWindowIsCommitted

\* "safe to retry": a committed run is archived in the end, unless a kill left a
\* temporary in its directory (TargetRunArchiver.consider, archive_run).
InterruptedRunIsArchived == part = "runs" => Runs!InterruptedRunIsArchived

\* Every asset is recorded again and again, although the loop cancels recv about
\* once a second and a cycle takes longer than that (ClobBookPoller.recv).
EveryBookKeepsComing == part = "poller" => Poller!EveryBookKeepsComing
=============================================================================
