---------------------------- MODULE TargeterRuns ----------------------------
(***************************************************************************)
(* The life of a targeter run on disk: the one-shot command discovers,     *)
(* archives and publishes under a lease (targeter/v2/run.py, lease.py,     *)
(* run_archive.py, publication.py), the archive sweep takes up the runs    *)
(* that died before their receipt (run_archiver.py), and the reaper, which *)
(* takes no lease, deletes what the archive holds (run_reaper.py).         *)
(*                                                                         *)
(* The catalogues and rule files of a run are one file, "artifact"; the    *)
(* compressed report and its metadata are "report".  A kill inside a       *)
(* write leaves its temporary behind, "leftover".                          *)
(***************************************************************************)
EXTENDS Naturals, FiniteSets, FiniteSetsExt

CONSTANTS
    Procs,          \* command processes (the targeter and the archive sweep)
    LastRun,        \* runs are 1..LastRun, in the order of their ids
    LastVenue,      \* the supported venues are 1..LastVenue, in their order
    MaxFaults       \* kills, failed calls and lost objects

\* There is a process, and "none" is the name of none.
RunsAssumption ==
    /\ Procs # {} /\ "none" \notin Procs
    /\ LastRun \in Nat /\ LastVenue \in Nat /\ MaxFaults \in Nat

TargetRuns == 1..LastRun
TargetVenues == 1..LastVenue
Manifest == LastVenue + 1
Archived == {"artifact", "report", "manifest"}

VARIABLES
    lease,          \* the process that holds .targeter-v2.lock, or "none"
    proc,           \* what each process does: pc, the run, whether it is its own, the runs left to sweep, the pointer read
    files,          \* the files of each run directory
    complete,       \* input_complete of each report
    old,            \* the runs past the 18 hours of both floors
    remote,         \* the objects of each run in the archive
    gen,            \* the files of each generation directory
    pointer,        \* current.json: the run it names, 0 when there is none
    ledger,         \* the generations whose assets coverage.json has seen
    reaper,         \* the reaper's sweep
    faults

trvars == <<lease, proc, files, complete, old, remote, gen, pointer, ledger, reaper, faults>>

Idle == [pc |-> "idle", run |-> 0, own |-> FALSE, todo |-> {}, base |-> 0]
ReaperResting == [pc |-> "idle", run |-> 0, todo |-> {}, pointer |-> 0]
Started == {r \in TargetRuns : complete[r] # "none"}

-----------------------------------------------------------------------------
(* Predicates of the code *)

\* _report_files: the metadata file, written last, commits the report.
ReportIsCommitted(r) == "report" \in files[r]

\* _artifact_inventory: what the report says the run consists of.
ArtifactInventory == {"artifact"}

\* _source_files: every file the report names, and nothing else.
SourceFilesAreExact(r) == ArtifactInventory \subseteq files[r] /\ "leftover" \notin files[r]

\* read_run_report
RunIsReadable(r) == ReportIsCommitted(r) /\ SourceFilesAreExact(r)

\* verify_run_archive: every object the receipt names is in the store.
ArchiveVerifies(r) == Archived \subseteq remote[r]

\* validate_local_run: the receipt's files are here, unchanged.
LocalRunIsWhole(r) == Archived \subseteq files[r]

\* _verify_generation_manifest and load_targets.
GenerationIsWhole(r) == TargetVenues \cup {Manifest} \subseteq gen[r]

-----------------------------------------------------------------------------
RunsInit ==
    /\ lease = "none"
    /\ proc = [p \in Procs |-> Idle]
    /\ files = [r \in TargetRuns |-> {}]
    /\ complete = [r \in TargetRuns |-> "none"]
    /\ old = {}
    /\ remote = [r \in TargetRuns |-> {}]
    /\ gen = [r \in TargetRuns |-> {}]
    /\ pointer = 0 /\ ledger = {}
    /\ reaper = ReaperResting
    /\ faults = 0

GoOn(p, pc) == proc' = [proc EXCEPT ![p].pc = pc]

\* The end of a command or of one process: the lease is given back.
Release(p) == lease' = "none" /\ proc' = [proc EXCEPT ![p] = Idle]

Acquire(p) == lease = "none"

-----------------------------------------------------------------------------
(* The command: discovery *)

\* run_shadow: the committed generation is read, then the venues.
RunShadow(p) ==
    /\ proc[p].pc = "idle" /\ Acquire(p)
    /\ \E r \in TargetRuns, c \in {"complete", "incomplete"} :
        /\ r = Cardinality(Started) + 1
        /\ complete' = [complete EXCEPT ![r] = c]
        /\ proc' = [proc EXCEPT ![p] = [Idle EXCEPT !.pc = "artifact", !.own = TRUE, !.run = r, !.base = pointer]]
    /\ lease' = p
    /\ UNCHANGED <<files, old, remote, gen, pointer, ledger, reaper, faults>>

WriteArtifacts(p) ==
    /\ proc[p].pc = "artifact"
    /\ files' = [files EXCEPT ![proc[p].run] = @ \cup {"artifact"}]
    /\ GoOn(p, "report")
    /\ UNCHANGED <<lease, complete, old, remote, gen, pointer, ledger, reaper, faults>>

\* The report is the commit marker of the run.  A shadow command ends here.
WriteReport(p) ==
    /\ proc[p].pc = "report"
    /\ files' = [files EXCEPT ![proc[p].run] = @ \cup {"report"}]
    /\ (GoOn(p, "manifest") /\ UNCHANGED lease) \/ Release(p)
    /\ UNCHANGED <<complete, old, remote, gen, pointer, ledger, reaper, faults>>

-----------------------------------------------------------------------------
(* Archival, by the command for its own run and by the sweep for any other *)

\* The sweep visits the runs in order.
StartSweep(p) ==
    /\ proc[p].pc = "idle" /\ Acquire(p)
    /\ \E r \in Started : "receipt" \notin files[r]
    /\ lease' = p
    /\ proc' = [proc EXCEPT ![p] = [Idle EXCEPT !.pc = "sweep", !.todo = Started]]
    /\ UNCHANGED <<files, complete, old, remote, gen, pointer, ledger, reaper, faults>>

\* Mutant: a run without a receipt is taken for one in progress.
OnlyNewRuns(r) == remote[r] = {} /\ "manifest" \notin files[r] /\ RunIsReadable(r)

\* consider: a run without a receipt whose files are all there.
IsUnarchived(r) == "receipt" \notin files[r] /\ RunIsReadable(r)

\* Receipted, pending and unreadable runs are passed over; the others archived.
Consider(p) ==
    /\ proc[p].pc = "sweep" /\ proc[p].todo # {}
    /\ LET r == Min(proc[p].todo)
           archive == IsUnarchived(r)
       IN proc' = [proc EXCEPT ![p].todo = @ \ {r},
                               ![p].run = IF archive THEN r ELSE 0,
                               ![p].pc = IF archive THEN "manifest" ELSE "sweep"]
    /\ UNCHANGED <<lease, files, complete, old, remote, gen, pointer, ledger, reaper, faults>>

EndSweep(p) ==
    /\ proc[p].pc = "sweep" /\ proc[p].todo = {}
    /\ Release(p)
    /\ UNCHANGED <<files, complete, old, remote, gen, pointer, ledger, reaper, faults>>

BuildRunManifest(p) ==
    /\ proc[p].pc = "manifest"
    /\ RunIsReadable(proc[p].run)
    /\ files' = [files EXCEPT ![proc[p].run] = @ \cup {"manifest"}]
    /\ GoOn(p, "put")
    /\ UNCHANGED <<lease, complete, old, remote, gen, pointer, ledger, reaper, faults>>

\* publish_files: in the order of names, the manifest, which commits, last.
NextPut(r) ==
    IF "artifact" \notin remote[r] THEN "artifact" ELSE IF "report" \notin remote[r] THEN "report" ELSE "manifest"

PutObject(p) ==
    /\ proc[p].pc = "put"
    /\ ~ArchiveVerifies(proc[p].run)
    /\ remote' = [remote EXCEPT ![proc[p].run] = @ \cup {NextPut(proc[p].run)}]
    /\ UNCHANGED <<lease, proc, files, complete, old, gen, pointer, ledger, reaper, faults>>

\* archive_run ends: the archive verifies, the receipt is written.  The command
\* goes on to publish a complete run; the sweep goes on to the next one.
WriteReceipt(p) ==
    /\ proc[p].pc = "put"
    /\ ArchiveVerifies(proc[p].run)
    /\ files' = [files EXCEPT ![proc[p].run] = @ \cup {"receipt"}]
    /\ IF ~proc[p].own THEN GoOn(p, "sweep") /\ UNCHANGED lease
       ELSE \/ complete[proc[p].run] = "complete" /\ GoOn(p, "publish") /\ UNCHANGED lease
            \/ Release(p)       \* an incomplete run, or --mode archive
    /\ UNCHANGED <<complete, old, remote, gen, pointer, ledger, reaper, faults>>

-----------------------------------------------------------------------------
(* Publication: publish_run *)

\* verify_continuity_base: the report was selected against the generation that
\* is still committed.
BaseIsCommitted(p) == proc[p].base = pointer

BeginPublish(p) ==
    /\ proc[p].pc = "publish"
    /\ ArchiveVerifies(proc[p].run) /\ LocalRunIsWhole(proc[p].run)
    /\ BaseIsCommitted(p)
    /\ GoOn(p, "targets")
    /\ UNCHANGED <<lease, files, complete, old, remote, gen, pointer, ledger, reaper, faults>>

AllTargets(r) == TargetVenues \subseteq gen[r]

\* The target file of one venue and its metadata snapshot, both durable.
WriteTargets(p) ==
    /\ proc[p].pc = "targets"
    /\ ~AllTargets(proc[p].run)
    /\ gen' = [gen EXCEPT ![proc[p].run] = @ \cup {Cardinality(@) + 1}]
    /\ UNCHANGED <<lease, proc, files, complete, old, remote, pointer, ledger, reaper, faults>>

WriteGenerationManifest(p) ==
    /\ proc[p].pc = "targets"
    /\ AllTargets(proc[p].run)
    /\ gen' = [gen EXCEPT ![proc[p].run] = @ \cup {Manifest}]
    /\ GoOn(p, "pointer")
    /\ UNCHANGED <<lease, files, complete, old, remote, pointer, ledger, reaper, faults>>

WritePointer(p) ==
    /\ proc[p].pc = "pointer"
    /\ pointer' = proc[p].run
    /\ GoOn(p, "ledger")
    /\ UNCHANGED <<lease, files, complete, old, remote, gen, ledger, reaper, faults>>

\* record_coverage: after the pointer, the sightings of the generation.
RecordCoverage(p) ==
    /\ proc[p].pc = "ledger"
    /\ ledger' = ledger \cup {proc[p].run}
    /\ Release(p)
    /\ UNCHANGED <<files, complete, old, remote, gen, pointer, reaper, faults>>

-----------------------------------------------------------------------------
(* The reaper *)

\* The pointer is read once.
StartReap ==
    /\ reaper.pc = "idle"
    /\ reaper' = [pc |-> "sweep", run |-> 0, todo |-> {r \in Started : files[r] # {"receipt"}},
                  pointer |-> pointer]
    /\ \E r \in Started : files[r] # {"receipt"}
    /\ UNCHANGED <<lease, proc, files, complete, old, remote, gen, pointer, ledger, faults>>

\* _inventory: nothing but what the receipt names and the receipt itself.
Inventory(r) == "leftover" \notin files[r]

\* A pointer that cannot be read retains every run.
NotPublished(r) == reaper.pointer # 0 /\ r # reaper.pointer

\* Mutant: the receipt is enough, the archive is not looked at again.
ReceiptIsEnough(r) == TRUE

ArchiveIsThere(r) == ArchiveVerifies(r)

\* consider: every gate, in the order of the code.
MayReap(r) ==
    /\ "receipt" \in files[r]
    /\ Inventory(r)
    /\ files[r] # {"receipt"}
    /\ NotPublished(r)
    /\ r \in old
    /\ ArchiveIsThere(r)

ConsiderReap ==
    /\ reaper.pc = "sweep" /\ reaper.todo # {}
    /\ LET r == Min(reaper.todo)
       IN reaper' = [reaper EXCEPT !.todo = @ \ {r},
                                   !.run = IF MayReap(r) THEN r ELSE 0,
                                   !.pc = IF MayReap(r) THEN "delete" ELSE "sweep"]
    /\ UNCHANGED <<lease, proc, files, complete, old, remote, gen, pointer, ledger, faults>>

\* _deletion_order: the report first, the manifest last.
NextDeletion(r) ==
    CASE "report" \in files[r] -> "report"
      [] "report" \notin files[r] /\ "artifact" \in files[r] -> "artifact"
      [] OTHER -> "manifest"

DeleteOne ==
    /\ reaper.pc = "delete"
    /\ files[reaper.run] # {"receipt"}
    /\ files' = [files EXCEPT ![reaper.run] = @ \ {NextDeletion(reaper.run)}]
    /\ UNCHANGED <<lease, proc, complete, old, remote, gen, pointer, ledger, reaper, faults>>

Reaped ==
    /\ reaper.pc = "delete" /\ files[reaper.run] = {"receipt"}
    /\ reaper' = [reaper EXCEPT !.pc = "sweep", !.run = 0]
    /\ UNCHANGED <<lease, proc, files, complete, old, remote, gen, pointer, ledger, faults>>

EndReap ==
    /\ reaper.pc = "sweep" /\ reaper.todo = {}
    /\ reaper' = ReaperResting
    /\ UNCHANGED <<lease, proc, files, complete, old, remote, gen, pointer, ledger, faults>>

-----------------------------------------------------------------------------
(* Faults and time *)

\* An error of the store or the disk ends the command; the sweep notes it and
\* goes on to the next run.
CallFails(p) ==
    /\ proc[p].pc \notin {"idle", "sweep"}
    /\ faults < MaxFaults /\ faults' = faults + 1
    /\ IF ~proc[p].own THEN proc' = [proc EXCEPT ![p].pc = "sweep", ![p].run = 0] /\ UNCHANGED lease
       ELSE Release(p)
    /\ UNCHANGED <<files, complete, old, remote, gen, pointer, ledger, reaper>>

\* The checks of an archive or a publication that fail without a fault.
CheckFails(p) ==
    /\ \/ proc[p].pc = "manifest" /\ ~RunIsReadable(proc[p].run)
       \/ proc[p].pc = "publish" /\ (~ArchiveVerifies(proc[p].run) \/ ~BaseIsCommitted(p))
    /\ IF ~proc[p].own THEN proc' = [proc EXCEPT ![p].pc = "sweep", ![p].run = 0] /\ UNCHANGED lease
       ELSE Release(p)
    /\ UNCHANGED <<files, complete, old, remote, gen, pointer, ledger, reaper, faults>>

\* A kill releases the lease; one inside a write leaves its temporary.
KillProcess(p) ==
    /\ proc[p].pc # "idle"
    /\ faults < MaxFaults /\ faults' = faults + 1
    /\ \/ UNCHANGED files
       \/ /\ proc[p].pc \in {"artifact", "report", "manifest", "put"}
          /\ files' = [files EXCEPT ![proc[p].run] = @ \cup {"leftover"}]
    /\ Release(p)
    /\ UNCHANGED <<complete, old, remote, gen, pointer, ledger, reaper>>

KillReaper ==
    /\ reaper.pc # "idle"
    /\ faults < MaxFaults /\ faults' = faults + 1
    /\ reaper' = ReaperResting
    /\ UNCHANGED <<lease, proc, files, complete, old, remote, gen, pointer, ledger>>

\* An object is lost from the store, but not in the moment between the reaper's
\* verification and its deletions.
LoseObject ==
    /\ faults < MaxFaults /\ faults' = faults + 1
    /\ \E r \in TargetRuns : \E o \in remote[r] :
        /\ r # reaper.run
        /\ remote' = [remote EXCEPT ![r] = @ \ {o}]
    /\ UNCHANGED <<lease, proc, files, complete, old, gen, pointer, ledger, reaper>>

\* Commands and reaps are shorter than the 18 hours of the floors: a run does not
\* grow old while it is being made, nor while a reap that began before it was
\* published goes on.
GrowOld ==
    /\ \E r \in Started \ old :
        /\ 1..(r - 1) \subseteq old
        /\ r # pointer \/ reaper.pc = "idle" \/ r = reaper.pointer
        /\ \A p \in Procs : proc[p].run # r \/ ~proc[p].own
        /\ old' = old \cup {r}
    /\ UNCHANGED <<lease, proc, files, complete, remote, gen, pointer, ledger, reaper, faults>>

\* What a process that holds the lease does next.
ProcessStep(p) ==
    \/ WriteArtifacts(p) \/ WriteReport(p)
    \/ Consider(p) \/ EndSweep(p)
    \/ BuildRunManifest(p) \/ PutObject(p) \/ WriteReceipt(p)
    \/ BeginPublish(p) \/ WriteTargets(p) \/ WriteGenerationManifest(p)
    \/ WritePointer(p) \/ RecordCoverage(p) \/ CheckFails(p)

ReaperStep == StartReap \/ ConsiderReap \/ DeleteOne \/ Reaped \/ EndReap

\* Cron starts a command in a process of its own; processes differ only by name.
FreeProcess == CHOOSE p \in Procs : proc[p] = Idle \/ \A q \in Procs : proc[q] # Idle

RunsNext ==
    \/ RunShadow(FreeProcess) \/ StartSweep(FreeProcess)
    \/ \E p \in Procs : ProcessStep(p) \/ CallFails(p) \/ KillProcess(p)
    \/ ReaperStep \/ KillReaper
    \/ LoseObject \/ GrowOld

\* Cron starts sweeps and reaps for ever; a started process goes on unless killed.
Fairness ==
    /\ \A p \in Procs : WF_trvars(ProcessStep(p))
    /\ WF_trvars(StartSweep(FreeProcess))
    /\ WF_trvars(ReaperStep)

RunsSpec == RunsInit /\ [][RunsNext]_trvars /\ Fairness

-----------------------------------------------------------------------------
(* Properties *)

\* What the splices are told to watch can be loaded and audited at any moment:
\* the pointer names a generation with every venue's target file and manifest,
\* made of a complete run whose local files are all there (audit_current_publication);
\* and the coverage ledger claims only generations that were committed.
PublishedRunIsWhole ==
    pointer # 0 =>
        /\ GenerationIsWhole(pointer)
        /\ complete[pointer] = "complete"
        /\ LocalRunIsWhole(pointer) /\ "receipt" \in files[pointer]
        /\ \A r \in ledger : GenerationIsWhole(r) /\ r <= pointer

\* A generation replaces the one it was selected against: no generation that was
\* committed in between is forgotten (verify_continuity_base under the lease).
ReplacesItsBase ==
    \A p \in Procs : (proc[p].pc = "pointer" /\ pointer' # pointer /\ pointer' = proc[p].run)
        => proc[p].base = pointer

\* A local artifact is deleted only when the archive holds all of the run, also
\* when the deletion was interrupted before (TargetRunReaper._delete).
DeletedOnlyWhenArchived ==
    \A r \in TargetRuns : ~(files[r] \subseteq files'[r]) => ArchiveVerifies(r) /\ "receipt" \in files[r]

\* The three at every step: what the splices are told to watch can be loaded and
\* audited at any moment, a generation replaces the one it was selected against, and
\* a local artifact is deleted only when the archive holds all of its run, through
\* kills of command, sweep and reaper (publish_run, audit_current_publication,
\* TargetRunReaper).
RunsAreKept ==
    [][PublishedRunIsWhole' /\ ReplacesItsBase /\ DeletedOnlyWhenArchived]_trvars

\* "safe to retry": a committed run is archived in the end, unless a kill left a
\* temporary in its directory, which no later sweep passes.
InterruptedRunIsArchived ==
    \A r \in TargetRuns :
        (RunIsReadable(r)) ~> ("receipt" \in files[r] \/ "leftover" \in files[r])
=============================================================================
