---------------------------- MODULE TargetsProofs ----------------------------
(***************************************************************************)
(* Proofs about TargeterRuns, GamestateFetch and SpliceConnection.  The    *)
(* first: what the splices are told to watch is whole at every step, a     *)
(* generation replaces the one it was selected against, and nothing is     *)
(* deleted that the archive does not hold.  The second: a game the ledger  *)
(* calls complete can be read, and one that is archived whole is not       *)
(* fetched again.  The third: a connection follows the targets file, asks  *)
(* for books that went quiet, records evidence of every loss, and survives *)
(* the refusal of a command of the poller and of nothing else.             *)
(***************************************************************************)
EXTENDS TargeterRuns, GamestateFetch, SpliceConnection, FiniteSetTheorems, WellFoundedInduction, TLAPS

-----------------------------------------------------------------------------
(* The life of a run: the inductive invariant                              *)

FileNames == Archived \cup {"receipt", "leftover"}
ProcPcs == {"idle", "artifact", "report", "sweep", "manifest", "put", "publish", "targets",
            "pointer", "ledger"}
ProcType == [pc : ProcPcs, run : 0..LastRun, own : BOOLEAN, todo : SUBSET TargetRuns, base : 0..LastRun]
ReaperType == [pc : {"idle", "sweep", "delete"}, run : 0..LastRun, todo : SUBSET TargetRuns,
               pointer : 0..LastRun]

RunsTypeOK ==
    /\ lease \in Procs \cup {"none"} /\ proc \in [Procs -> ProcType]
    /\ files \in [TargetRuns -> SUBSET FileNames]
    /\ complete \in [TargetRuns -> {"none", "complete", "incomplete"}]
    /\ old \in SUBSET TargetRuns /\ remote \in [TargetRuns -> SUBSET Archived]
    /\ gen \in [TargetRuns -> SUBSET (1..Manifest)]
    /\ pointer \in 0..LastRun /\ ledger \in SUBSET TargetRuns
    /\ reaper \in ReaperType /\ faults \in Nat

\* Whoever does anything holds the lease.
LeaseInv == \A p \in Procs : proc[p].pc # "idle" => lease = p

\* Run ids are given in order, and only a run that was started grows old.
StartedInv == (\E n \in 0..LastRun : Started = 1..n) /\ old \subseteq Started

\* What a process that is at x relies on.
Relies(x) ==
    /\ x.pc \in {"artifact", "report", "publish", "targets", "pointer", "ledger"} => x.own
    /\ x.own => /\ x.pc # "idle" /\ x.run \in Started /\ x.run \notin old
                /\ \A r \in Started : r <= x.run
    /\ x.pc \notin {"idle", "sweep"} => x.run \in Started
    /\ x.todo \subseteq Started
    /\ x.pc \in {"publish", "targets", "pointer", "ledger"} =>
         complete[x.run] = "complete" /\ "receipt" \in files[x.run]
    /\ x.pc = "sweep" => ~x.own
    /\ x.pc \in {"targets", "pointer", "ledger"} => LocalRunIsWhole(x.run)
    /\ x.pc \in {"targets", "pointer"} => x.base = pointer
    /\ x.pc \in {"pointer", "ledger"} => GenerationIsWhole(x.run)
    /\ x.pc = "ledger" => pointer = x.run

ProcInv == \A p \in Procs : Relies(proc[p])

\* The published run is whole.
PointerInv ==
    pointer # 0 =>
        /\ pointer \in Started /\ GenerationIsWhole(pointer) /\ complete[pointer] = "complete"
        /\ LocalRunIsWhole(pointer) /\ "receipt" \in files[pointer]

LedgerInv == \A r \in ledger : GenerationIsWhole(r) /\ r <= pointer

\* What the reaper deletes is archived, old, and not what is published.
ReaperInv ==
    /\ reaper.pc = "delete" =>
         /\ reaper.run \in old /\ reaper.run # pointer
         /\ ArchiveVerifies(reaper.run) /\ "receipt" \in files[reaper.run]
    /\ reaper.pc # "idle" => pointer = reaper.pointer \/ pointer \notin old

RunsInv == RunsTypeOK /\ LeaseInv /\ StartedInv /\ ProcInv /\ PointerInv /\ LedgerInv /\ ReaperInv

-----------------------------------------------------------------------------
(* Facts about the operators                                               *)

\* The sweeps visit the least run of what is left (consider).
LEMMA LeastRun ==
  ASSUME NEW S \in SUBSET Nat, S # {}
  PROVE  Min(S) \in S
<1>1. \E x \in S : \A y \in S : ~ (<<y, x>> \in OpToRel(<, Nat))
  BY NatLessThanWellFounded, WFMin, Zenon
<1>2. PICK x \in S : \A y \in S : ~ (<<y, x>> \in OpToRel(<, Nat))
  BY <1>1
<1>3. \A y \in S : x <= y
  <2> SUFFICES ASSUME NEW y \in S PROVE x <= y
    OBVIOUS
  <2>1. ~(y < x)
    BY <1>2 DEF OpToRel
  <2> QED BY <2>1
<1> QED BY <1>3 DEF Min

\* Run ids are numbers, in order.
LEMMA RunFacts ==
  ASSUME RunsAssumption
  PROVE  /\ TargetRuns \subseteq Nat /\ 0..LastRun \subseteq Nat /\ TargetRuns \subseteq 0..LastRun
         /\ Started \subseteq TargetRuns /\ 0 \notin TargetRuns
         /\ LastRun \in Nat /\ LastVenue \in Nat
BY DEF RunsAssumption, TargetRuns, Started

\* A generation without all its venues has room for another (write_targets).
LEMMA NextTarget ==
  ASSUME RunsAssumption, NEW G \in SUBSET (1..Manifest), ~(TargetVenues \subseteq G)
  PROVE  Cardinality(G) + 1 \in 1..Manifest
<1>1. LastVenue \in Nat
  BY DEF RunsAssumption
<1>2. PICK v \in TargetVenues : v \notin G
  OBVIOUS
<1> DEFINE M == 1..Manifest
<1>3. v \in M /\ IsFiniteSet(M) /\ Cardinality(M) = LastVenue + 1
  BY <1>1, FS_Interval DEF Manifest, TargetVenues
<1>g. G \subseteq M
  OBVIOUS
<1> HIDE DEF M
<1>r. /\ IsFiniteSet(M \ {v})
      /\ Cardinality(M \ {v}) = IF v \in M THEN Cardinality(M) - 1 ELSE Cardinality(M)
  BY <1>3, FS_RemoveElement, Zenon
<1>4. IsFiniteSet(M \ {v}) /\ Cardinality(M \ {v}) = LastVenue
  BY <1>1, <1>3, <1>r
<1>5. G \in SUBSET (M \ {v})
  BY <1>2, <1>g
<1>6. IsFiniteSet(G) /\ Cardinality(G) <= LastVenue
  BY <1>4, <1>5, FS_Subset, Zenon
<1>7. Cardinality(G) \in Nat
  BY <1>6, FS_CardinalityType
<1> QED BY <1>1, <1>6, <1>7 DEF Manifest

\* The process that cron starts exists.
LEMMA FreeFacts ==
  ASSUME RunsAssumption
  PROVE  FreeProcess \in Procs
<1>1. \E p \in Procs : proc[p] = Idle \/ \A q \in Procs : proc[q] # Idle
  BY DEF RunsAssumption
<1> QED BY <1>1 DEF FreeProcess

\* Under the lease of one process every other is idle.
LEMMA OthersIdle ==
  ASSUME LeaseInv, NEW p \in Procs, proc[p].pc # "idle"
  PROVE  lease = p /\ \A q \in Procs \ {p} : proc[q].pc = "idle"
BY DEF LeaseInv

LEMMA NobodyRuns ==
  ASSUME RunsAssumption, LeaseInv, lease = "none", NEW p \in Procs
  PROVE  proc[p].pc = "idle"
BY DEF LeaseInv, RunsAssumption

\* The records of the processes.
LEMMA IdleFacts ==
  ASSUME RunsAssumption
  PROVE  Idle \in ProcType /\ Idle.pc = "idle" /\ ~Idle.own /\ Idle.todo = {}
BY RunFacts DEF Idle, ProcType, ProcPcs, RunsAssumption

-----------------------------------------------------------------------------
(* What a step carries over                                                *)

\* Files, objects and targets are only added.
Grows ==
    /\ UNCHANGED <<complete, old, pointer, ledger, reaper>>
    /\ \A r \in TargetRuns : files[r] \subseteq files'[r] /\ remote[r] \subseteq remote'[r]
                              /\ gen[r] \subseteq gen'[r]

LEMMA GrowthKeeps ==
  ASSUME RunsAssumption, RunsInv, Grows
  PROVE  StartedInv' /\ PointerInv' /\ LedgerInv' /\ ReaperInv' /\ DeletedOnlyWhenArchived
<1>1. Started' = Started
  BY DEF Grows, Started
<1>2. StartedInv'
  BY <1>1 DEF RunsInv, StartedInv, Grows
<1>3. PointerInv'
  BY <1>1, RunFacts DEF RunsInv, PointerInv, Grows, GenerationIsWhole, LocalRunIsWhole
<1>4. LedgerInv'
  BY DEF RunsInv, RunsTypeOK, LedgerInv, Grows, GenerationIsWhole
<1>5. ReaperInv'
  BY DEF RunsInv, RunsTypeOK, ReaperInv, Grows, ArchiveVerifies
<1>6. DeletedOnlyWhenArchived
  BY DEF Grows, DeletedOnlyWhenArchived
<1> QED BY <1>2, <1>3, <1>4, <1>5, <1>6

\* What a process relies on stays true while things grow.
LEMMA GrowthRelies ==
  ASSUME RunsAssumption, Grows, NEW x \in ProcType, Relies(x)
  PROVE  Relies(x)'
<1>1. Started' = Started /\ Started \subseteq TargetRuns
  BY RunFacts DEF Grows, Started
<1> QED BY <1>1 DEF Relies, Grows, GenerationIsWhole, LocalRunIsWhole, ProcType

\* An idle process relies on nothing but the runs it was to sweep.
LEMMA IdleRelies ==
  ASSUME NEW x \in ProcType, x.pc = "idle", Relies(x), Started \subseteq Started'
  PROVE  Relies(x)'
BY DEF Relies

\* A step of the process with the lease: the process goes on as y, or ends.
LEMMA HolderStep ==
  ASSUME RunsAssumption, RunsInv, Started' = Started, NEW p \in Procs, proc[p].pc # "idle",
         NEW y \in ProcType, proc' = [proc EXCEPT ![p] = y], Relies(y)',
         \/ lease' = lease
         \/ lease' = "none" /\ y.pc = "idle"
  PROVE  LeaseInv' /\ ProcInv' /\ proc' \in [Procs -> ProcType] /\ lease' \in Procs \cup {"none"}
<1>1. proc \in [Procs -> ProcType] /\ LeaseInv /\ ProcInv
  BY DEF RunsInv, RunsTypeOK
<1>2. lease = p /\ \A q \in Procs \ {p} : proc[q].pc = "idle"
  BY <1>1, OthersIdle
<1>3. proc'[p] = y /\ \A q \in Procs \ {p} : proc'[q] = proc[q]
  BY <1>1
<1>4. LeaseInv'
  BY <1>2, <1>3 DEF LeaseInv
<1>5. ASSUME NEW q \in Procs PROVE Relies(proc[q])'
  <2>1. CASE q = p
    BY <2>1, <1>3 DEF Relies
  <2>2. CASE q # p
    <3>1. PICK x \in ProcType : x = proc[q]
      BY <1>1
    <3>2. Relies(x) /\ x.pc = "idle"
      BY <3>1, <2>2, <1>1, <1>2 DEF ProcInv
    <3>3. Relies(x)'
      BY <3>2, IdleRelies
    <3>4. proc'[q] = x
      BY <3>1, <2>2, <1>3
    <3> QED BY <3>3, <3>4 DEF Relies
  <2> QED BY <2>1, <2>2
<1>6. ProcInv'
  BY <1>5 DEF ProcInv
<1> QED BY <1>1, <1>2, <1>4, <1>6

LEMMA GrowStep ==
  ASSUME RunsAssumption, RunsInv, Grows, NEW p \in Procs, proc[p].pc # "idle",
         NEW y \in ProcType, proc' = [proc EXCEPT ![p] = y], Relies(y)',
         \/ lease' = lease
         \/ lease' = "none" /\ y.pc = "idle",
         files' \in [TargetRuns -> SUBSET FileNames], remote' \in [TargetRuns -> SUBSET Archived],
         gen' \in [TargetRuns -> SUBSET (1..Manifest)], faults' \in Nat
  PROVE  RunsInv' /\ DeletedOnlyWhenArchived
<1>1. Started' = Started
  BY DEF Grows, Started
<1>2. LeaseInv' /\ ProcInv' /\ proc' \in [Procs -> ProcType] /\ lease' \in Procs \cup {"none"}
  BY <1>1, HolderStep
<1>3. RunsTypeOK'
  BY <1>2 DEF RunsInv, RunsTypeOK, Grows
<1> QED BY <1>2, <1>3, GrowthKeeps DEF RunsInv

\* The process at p goes on at c with the same run.
LEMMA GoOnFacts ==
  ASSUME RunsTypeOK, NEW p \in Procs, NEW c \in ProcPcs, GoOn(p, c)
  PROVE  \E y \in ProcType :
            /\ proc' = [proc EXCEPT ![p] = y] /\ y.pc = c
            /\ y.run = proc[p].run /\ y.own = proc[p].own
            /\ y.todo = proc[p].todo /\ y.base = proc[p].base
<1>1. PICK x \in ProcType : x = proc[p]
  BY DEF RunsTypeOK
<1> DEFINE y == [x EXCEPT !.pc = c]
<1>2. y \in ProcType /\ y.pc = c /\ y.run = x.run /\ y.own = x.own /\ y.todo = x.todo /\ y.base = x.base
  BY DEF ProcType
<1>3. proc' = [proc EXCEPT ![p] = y]
  BY <1>1 DEF GoOn
<1> QED BY <1>1, <1>2, <1>3

\* The sweep notes a failure and goes on to the next run.
LEMMA SweepGoesOn ==
  ASSUME RunsAssumption, RunsInv, NEW p \in Procs, ~proc[p].own, Grows,
         proc' = [proc EXCEPT ![p].pc = "sweep", ![p].run = 0]
  PROVE  \E y \in ProcType : proc' = [proc EXCEPT ![p] = y] /\ Relies(y)'
<1>1. PICK x \in ProcType : x = proc[p]
  BY DEF RunsInv, RunsTypeOK
<1>2. Relies(x) /\ ~x.own
  BY <1>1 DEF RunsInv, ProcInv
<1> DEFINE y == [x EXCEPT !.pc = "sweep", !.run = 0]
<1>z. 0 \in 0..LastRun /\ "sweep" \in ProcPcs
  BY DEF ProcPcs, RunsAssumption
<1>3. y \in ProcType /\ y.pc = "sweep" /\ ~y.own /\ y.todo = x.todo
  BY <1>2, <1>z DEF ProcType
<1>4. proc' = [proc EXCEPT ![p] = y]
  BY <1>1
<1>5. Started' = Started
  BY DEF Grows, Started
<1> HIDE DEF y
<1>6. Relies(y)'
  BY <1>2, <1>3, <1>5 DEF Relies
<1> QED BY <1>3, <1>4, <1>6

LEMMA IdleReliesOnNothing ==
  ASSUME RunsAssumption
  PROVE  Relies(Idle)'
BY IdleFacts DEF Relies

\* A command ends and gives the lease back.
LEMMA ReleaseStep ==
  ASSUME RunsAssumption, RunsInv, Grows, NEW p \in Procs, proc[p].pc # "idle", Release(p),
         files' \in [TargetRuns -> SUBSET FileNames], remote' \in [TargetRuns -> SUBSET Archived],
         gen' \in [TargetRuns -> SUBSET (1..Manifest)], faults' \in Nat
  PROVE  RunsInv' /\ DeletedOnlyWhenArchived
<1>1. PICK y \in ProcType : y = Idle
  BY IdleFacts
<1>2. y.pc = "idle" /\ proc' = [proc EXCEPT ![p] = y] /\ lease' = "none"
  BY <1>1, IdleFacts DEF Release
<1>3. Relies(y)'
  BY <1>1, IdleReliesOnNothing
<1> QED BY <1>2, <1>3, GrowStep

\* A command fails, or a sweep goes on to the next run.
LEMMA FailureStep ==
  ASSUME RunsAssumption, RunsInv, NEW p \in Procs, proc[p].pc # "idle",
         UNCHANGED <<files, complete, old, remote, gen, pointer, ledger, reaper>>, faults' \in Nat,
         IF ~proc[p].own THEN proc' = [proc EXCEPT ![p].pc = "sweep", ![p].run = 0] /\ UNCHANGED lease
         ELSE Release(p)
  PROVE  RunsInv' /\ DeletedOnlyWhenArchived
<1>1. Grows
  BY DEF Grows
<1>2. /\ files' \in [TargetRuns -> SUBSET FileNames] /\ remote' \in [TargetRuns -> SUBSET Archived]
      /\ gen' \in [TargetRuns -> SUBSET (1..Manifest)]
  BY DEF RunsInv, RunsTypeOK
<1>3. CASE ~proc[p].own
  <2>1. PICK y \in ProcType : proc' = [proc EXCEPT ![p] = y] /\ Relies(y)'
    BY <1>1, <1>3, SweepGoesOn
  <2>2. lease' = lease
    BY <1>3
  <2> QED BY <1>1, <1>2, <2>1, <2>2, GrowStep
<1>4. CASE proc[p].own
  BY <1>1, <1>2, <1>4, ReleaseStep
<1> QED BY <1>3, <1>4

-----------------------------------------------------------------------------
(* The command and the sweep                                               *)

LEMMA FileStep ==
  ASSUME RunsInv, NEW r \in TargetRuns, NEW f \in FileNames, files' = [files EXCEPT ![r] = @ \cup {f}]
  PROVE  /\ files' \in [TargetRuns -> SUBSET FileNames]
         /\ \A q \in TargetRuns : files[q] \subseteq files'[q]
         /\ f \in files'[r]
<1>1. files \in [TargetRuns -> SUBSET FileNames]
  BY DEF RunsInv, RunsTypeOK
<1> QED BY <1>1

\* The step of the holder of the lease that adds one file to its run.
LEMMA FileGrows ==
  ASSUME RunsAssumption, RunsInv, NEW p \in Procs, proc[p].pc \notin {"idle", "sweep"}, NEW f \in FileNames,
         files' = [files EXCEPT ![proc[p].run] = @ \cup {f}],
         UNCHANGED <<complete, old, remote, gen, pointer, ledger, reaper>>
  PROVE  /\ Grows /\ files' \in [TargetRuns -> SUBSET FileNames] /\ f \in files'[proc[p].run]
         /\ remote' \in [TargetRuns -> SUBSET Archived] /\ gen' \in [TargetRuns -> SUBSET (1..Manifest)]
<1>1. PICK r \in TargetRuns : r = proc[p].run
  BY RunFacts DEF RunsInv, ProcInv, Relies
<1>2. files' = [files EXCEPT ![r] = @ \cup {f}]
  BY <1>1
<1>3. /\ files' \in [TargetRuns -> SUBSET FileNames]
      /\ \A q \in TargetRuns : files[q] \subseteq files'[q]
      /\ f \in files'[r]
  BY <1>2, FileStep
<1> QED BY <1>1, <1>3 DEF Grows, RunsInv, RunsTypeOK

LEMMA ArtifactStep ==
  ASSUME RunsAssumption, RunsInv, NEW p \in Procs, WriteArtifacts(p)
  PROVE  RunsInv' /\ DeletedOnlyWhenArchived
<1>1. /\ Grows /\ files' \in [TargetRuns -> SUBSET FileNames]
      /\ remote' \in [TargetRuns -> SUBSET Archived] /\ gen' \in [TargetRuns -> SUBSET (1..Manifest)]
  BY FileGrows DEF WriteArtifacts, FileNames, Archived
<1>2. PICK y \in ProcType :
            /\ proc' = [proc EXCEPT ![p] = y] /\ y.pc = "report"
            /\ y.run = proc[p].run /\ y.own = proc[p].own
            /\ y.todo = proc[p].todo /\ y.base = proc[p].base
  BY GoOnFacts DEF WriteArtifacts, RunsInv, ProcPcs
<1>3. PICK x \in ProcType : x = proc[p]
  BY DEF RunsInv, RunsTypeOK
<1>4. Relies(x)' /\ x.pc = "artifact"
  BY <1>1, <1>3, GrowthRelies DEF RunsInv, ProcInv, WriteArtifacts
<1>5. Relies(y)'
  BY <1>2, <1>3, <1>4 DEF Relies
<1>6. lease' = lease /\ faults' \in Nat /\ proc[p].pc # "idle"
  BY DEF WriteArtifacts, RunsInv, RunsTypeOK
<1> QED BY <1>1, <1>2, <1>5, <1>6, GrowStep

LEMMA ReportStep ==
  ASSUME RunsAssumption, RunsInv, NEW p \in Procs, WriteReport(p)
  PROVE  RunsInv' /\ DeletedOnlyWhenArchived
<1>1. /\ Grows /\ files' \in [TargetRuns -> SUBSET FileNames]
      /\ remote' \in [TargetRuns -> SUBSET Archived] /\ gen' \in [TargetRuns -> SUBSET (1..Manifest)]
  BY FileGrows DEF WriteReport, FileNames, Archived
<1>2. faults' \in Nat /\ proc[p].pc # "idle"
  BY DEF WriteReport, RunsInv, RunsTypeOK
<1>3. CASE GoOn(p, "manifest") /\ UNCHANGED lease
  <2>1. PICK y \in ProcType :
            /\ proc' = [proc EXCEPT ![p] = y] /\ y.pc = "manifest"
            /\ y.run = proc[p].run /\ y.own = proc[p].own
            /\ y.todo = proc[p].todo /\ y.base = proc[p].base
    BY <1>3, GoOnFacts DEF RunsInv, ProcPcs
  <2>2. PICK x \in ProcType : x = proc[p]
    BY DEF RunsInv, RunsTypeOK
  <2>3. Relies(x)' /\ x.pc = "report"
    BY <1>1, <2>2, GrowthRelies DEF RunsInv, ProcInv, WriteReport
  <2>4. Relies(y)'
    BY <2>1, <2>2, <2>3 DEF Relies
  <2>5. lease' = lease
    BY <1>3
  <2> QED BY <1>1, <1>2, <2>1, <2>4, <2>5, GrowStep
<1>4. CASE Release(p)
  BY <1>1, <1>2, <1>4, ReleaseStep
<1> QED BY <1>3, <1>4 DEF WriteReport

LEMMA ManifestStep ==
  ASSUME RunsAssumption, RunsInv, NEW p \in Procs, BuildRunManifest(p)
  PROVE  RunsInv' /\ DeletedOnlyWhenArchived
<1>1. /\ Grows /\ files' \in [TargetRuns -> SUBSET FileNames]
      /\ remote' \in [TargetRuns -> SUBSET Archived] /\ gen' \in [TargetRuns -> SUBSET (1..Manifest)]
  BY FileGrows DEF BuildRunManifest, FileNames, Archived
<1>2. PICK y \in ProcType :
            /\ proc' = [proc EXCEPT ![p] = y] /\ y.pc = "put"
            /\ y.run = proc[p].run /\ y.own = proc[p].own
            /\ y.todo = proc[p].todo /\ y.base = proc[p].base
  BY GoOnFacts DEF BuildRunManifest, RunsInv, ProcPcs
<1>3. PICK x \in ProcType : x = proc[p]
  BY DEF RunsInv, RunsTypeOK
<1>4. Relies(x)' /\ x.pc = "manifest"
  BY <1>1, <1>3, GrowthRelies DEF RunsInv, ProcInv, BuildRunManifest
<1>5. Relies(y)'
  BY <1>2, <1>3, <1>4 DEF Relies
<1>6. lease' = lease /\ faults' \in Nat /\ proc[p].pc # "idle"
  BY DEF BuildRunManifest, RunsInv, RunsTypeOK
<1> QED BY <1>1, <1>2, <1>5, <1>6, GrowStep

LEMMA PutStep ==
  ASSUME RunsAssumption, RunsInv, NEW p \in Procs, PutObject(p)
  PROVE  RunsInv' /\ DeletedOnlyWhenArchived
<1>1. PICK x \in ProcType : x = proc[p]
  BY DEF RunsInv, RunsTypeOK
<1>2. Relies(x) /\ x.pc = "put" /\ x.run \in TargetRuns
  BY <1>1, RunFacts DEF RunsInv, ProcInv, PutObject, Relies
<1>3. PICK o \in Archived : o = NextPut(x.run)
  BY DEF NextPut, Archived
<1>4. remote' = [remote EXCEPT ![x.run] = @ \cup {o}]
  BY <1>1, <1>3 DEF PutObject
<1>5. remote \in [TargetRuns -> SUBSET Archived]
  BY DEF RunsInv, RunsTypeOK
<1>6. remote' \in [TargetRuns -> SUBSET Archived] /\ \A r \in TargetRuns : remote[r] \subseteq remote'[r]
  BY <1>2, <1>4, <1>5
<1>7. Grows
  BY <1>6 DEF Grows, PutObject
<1>8. Relies(x)'
  BY <1>2, <1>7, GrowthRelies
<1>9. /\ proc' = [proc EXCEPT ![p] = x] /\ lease' = lease /\ faults' \in Nat /\ proc[p].pc # "idle"
      /\ files' \in [TargetRuns -> SUBSET FileNames] /\ gen' \in [TargetRuns -> SUBSET (1..Manifest)]
  BY <1>1 DEF PutObject, RunsInv, RunsTypeOK
<1> QED BY <1>6, <1>7, <1>8, <1>9, GrowStep

LEMMA ReceiptStep ==
  ASSUME RunsAssumption, RunsInv, NEW p \in Procs, WriteReceipt(p)
  PROVE  RunsInv' /\ DeletedOnlyWhenArchived
<1>1. /\ Grows /\ files' \in [TargetRuns -> SUBSET FileNames] /\ "receipt" \in files'[proc[p].run]
      /\ remote' \in [TargetRuns -> SUBSET Archived] /\ gen' \in [TargetRuns -> SUBSET (1..Manifest)]
  BY FileGrows DEF WriteReceipt, FileNames
<1>2. faults' \in Nat /\ proc[p].pc # "idle"
  BY DEF WriteReceipt, RunsInv, RunsTypeOK
<1>3. PICK x \in ProcType : x = proc[p]
  BY DEF RunsInv, RunsTypeOK
<1>4. Relies(x)' /\ x.pc = "put"
  BY <1>1, <1>3, GrowthRelies DEF RunsInv, ProcInv, WriteReceipt
<1>5. CASE ~proc[p].own /\ GoOn(p, "sweep") /\ UNCHANGED lease
  <2>1. PICK y \in ProcType :
            /\ proc' = [proc EXCEPT ![p] = y] /\ y.pc = "sweep"
            /\ y.run = proc[p].run /\ y.own = proc[p].own
            /\ y.todo = proc[p].todo /\ y.base = proc[p].base
    BY <1>5, GoOnFacts DEF RunsInv, ProcPcs
  <2>2. Relies(y)' /\ lease' = lease
    BY <2>1, <1>3, <1>4, <1>5 DEF Relies
  <2> QED BY <1>1, <1>2, <2>1, <2>2, GrowStep
<1>6. CASE proc[p].own /\ complete[proc[p].run] = "complete" /\ GoOn(p, "publish") /\ UNCHANGED lease
  <2>1. PICK y \in ProcType :
            /\ proc' = [proc EXCEPT ![p] = y] /\ y.pc = "publish"
            /\ y.run = proc[p].run /\ y.own = proc[p].own
            /\ y.todo = proc[p].todo /\ y.base = proc[p].base
    BY <1>6, GoOnFacts DEF RunsInv, ProcPcs
  <2>2. complete'[y.run] = "complete" /\ "receipt" \in files'[y.run] /\ y.own /\ lease' = lease
    BY <1>1, <1>6, <2>1 DEF WriteReceipt
  <2>3. Relies(y)'
    BY <2>1, <2>2, <1>3, <1>4 DEF Relies
  <2> QED BY <1>1, <1>2, <2>1, <2>2, <2>3, GrowStep
<1>7. CASE Release(p)
  BY <1>1, <1>2, <1>7, ReleaseStep
<1> QED BY <1>5, <1>6, <1>7 DEF WriteReceipt

\* A run passed over, or taken up for archival.
LEMMA ConsiderStep ==
  ASSUME RunsAssumption, RunsInv, NEW p \in Procs, Consider(p)
  PROVE  RunsInv' /\ DeletedOnlyWhenArchived
<1>1. PICK x \in ProcType : x = proc[p]
  BY DEF RunsInv, RunsTypeOK
<1>2. Relies(x) /\ x.pc = "sweep" /\ x.todo # {} /\ x.todo \in SUBSET TargetRuns
  BY <1>1 DEF RunsInv, ProcInv, Consider, ProcType
<1>3. PICK r \in x.todo : r = Min(x.todo)
  BY <1>2, RunFacts, LeastRun
<1>4. PICK archiveIt \in BOOLEAN : archiveIt = IsUnarchived(r)
  BY DEF IsUnarchived, RunIsReadable, ReportIsCommitted, SourceFilesAreExact
<1> DEFINE y == [x EXCEPT !.todo = @ \ {r}, !.run = IF archiveIt THEN r ELSE 0,
                          !.pc = IF archiveIt THEN "manifest" ELSE "sweep"]
<1>f. proc' = [proc EXCEPT ![p].todo = @ \ {r}, ![p].run = IF archiveIt THEN r ELSE 0,
                           ![p].pc = IF archiveIt THEN "manifest" ELSE "sweep"]
  BY <1>1, <1>3, <1>4 DEF Consider
<1>5. proc' = [proc EXCEPT ![p] = y]
  BY <1>1, <1>f DEF RunsInv, RunsTypeOK
<1>6. r \in Started /\ r \in 0..LastRun /\ 0 \in 0..LastRun
  BY <1>2, <1>4, RunFacts DEF Relies, RunsAssumption
<1>7. y \in ProcType
  BY <1>2, <1>6 DEF ProcType, ProcPcs
<1>8. /\ y.pc \in {"manifest", "sweep"} /\ y.todo \subseteq x.todo /\ y.own = x.own
      /\ (y.pc = "manifest" => y.run = r)
  BY DEF ProcType
<1>9. Grows /\ Started' = Started /\ lease' = lease /\ faults' \in Nat
  BY DEF Grows, Consider, Started, RunsInv, RunsTypeOK
<1>10. /\ files' \in [TargetRuns -> SUBSET FileNames] /\ remote' \in [TargetRuns -> SUBSET Archived]
       /\ gen' \in [TargetRuns -> SUBSET (1..Manifest)]
  BY DEF RunsInv, RunsTypeOK, Consider
<1> HIDE DEF y
<1>11. PICK w \in ProcType : w = y
  BY <1>7
<1>12. ~w.own /\ w.todo \subseteq Started' /\ w.pc \in {"manifest", "sweep"}
       /\ (w.pc = "manifest" => w.run \in Started')
  BY <1>2, <1>6, <1>8, <1>9, <1>11 DEF Relies
<1>13. Relies(w)'
  BY <1>12 DEF Relies
<1>14. proc[p].pc # "idle" /\ proc' = [proc EXCEPT ![p] = w]
  BY <1>1, <1>2, <1>5, <1>11
<1> QED BY <1>9, <1>10, <1>13, <1>14, GrowStep

LEMMA EndSweepStep ==
  ASSUME RunsAssumption, RunsInv, NEW p \in Procs, EndSweep(p)
  PROVE  RunsInv' /\ DeletedOnlyWhenArchived
<1>1. Grows /\ faults' \in Nat /\ proc[p].pc # "idle"
  BY DEF Grows, EndSweep, RunsInv, RunsTypeOK
<1>2. /\ files' \in [TargetRuns -> SUBSET FileNames] /\ remote' \in [TargetRuns -> SUBSET Archived]
      /\ gen' \in [TargetRuns -> SUBSET (1..Manifest)]
  BY DEF RunsInv, RunsTypeOK, EndSweep
<1> QED BY <1>1, <1>2, ReleaseStep DEF EndSweep

LEMMA BeginPublishStep ==
  ASSUME RunsAssumption, RunsInv, NEW p \in Procs, BeginPublish(p)
  PROVE  RunsInv' /\ DeletedOnlyWhenArchived
<1>1. Grows /\ faults' \in Nat /\ proc[p].pc # "idle" /\ lease' = lease
  BY DEF Grows, BeginPublish, RunsInv, RunsTypeOK
<1>2. /\ files' \in [TargetRuns -> SUBSET FileNames] /\ remote' \in [TargetRuns -> SUBSET Archived]
      /\ gen' \in [TargetRuns -> SUBSET (1..Manifest)]
  BY DEF RunsInv, RunsTypeOK, BeginPublish
<1>3. PICK y \in ProcType :
            /\ proc' = [proc EXCEPT ![p] = y] /\ y.pc = "targets"
            /\ y.run = proc[p].run /\ y.own = proc[p].own
            /\ y.todo = proc[p].todo /\ y.base = proc[p].base
  BY GoOnFacts DEF BeginPublish, RunsInv, ProcPcs
<1>4. PICK x \in ProcType : x = proc[p]
  BY DEF RunsInv, RunsTypeOK
<1>5. Relies(x)' /\ x.pc = "publish" /\ LocalRunIsWhole(x.run)' /\ x.base = pointer'
  BY <1>1, <1>4, GrowthRelies DEF RunsInv, ProcInv, BeginPublish, LocalRunIsWhole, BaseIsCommitted
<1>6. Relies(y)'
  BY <1>3, <1>4, <1>5 DEF Relies, LocalRunIsWhole
<1> QED BY <1>1, <1>2, <1>3, <1>6, GrowStep

\* One more file of the generation.
LEMMA GenGrows ==
  ASSUME RunsInv, NEW r \in TargetRuns, NEW f \in 1..Manifest, gen' = [gen EXCEPT ![r] = @ \cup {f}],
         UNCHANGED <<files, complete, old, remote, pointer, ledger, reaper>>
  PROVE  /\ Grows /\ gen' \in [TargetRuns -> SUBSET (1..Manifest)] /\ gen'[r] = gen[r] \cup {f}
         /\ files' \in [TargetRuns -> SUBSET FileNames] /\ remote' \in [TargetRuns -> SUBSET Archived]
<1>1. gen \in [TargetRuns -> SUBSET (1..Manifest)]
  BY DEF RunsInv, RunsTypeOK
<1>2. /\ gen' \in [TargetRuns -> SUBSET (1..Manifest)] /\ gen'[r] = gen[r] \cup {f}
      /\ \A q \in TargetRuns : gen[q] \subseteq gen'[q]
  BY <1>1
<1> QED BY <1>2 DEF Grows, RunsInv, RunsTypeOK

LEMMA WriteTargetsStep ==
  ASSUME RunsAssumption, RunsInv, NEW p \in Procs, WriteTargets(p)
  PROVE  RunsInv' /\ DeletedOnlyWhenArchived
<1>1. PICK x \in ProcType : x = proc[p]
  BY DEF RunsInv, RunsTypeOK
<1>2. Relies(x) /\ x.pc = "targets" /\ x.run \in TargetRuns
  BY <1>1, RunFacts DEF RunsInv, ProcInv, WriteTargets, Relies
<1>3. gen[x.run] \in SUBSET (1..Manifest) /\ ~(TargetVenues \subseteq gen[x.run])
  BY <1>1, <1>2 DEF RunsInv, RunsTypeOK, WriteTargets, AllTargets
<1>4. PICK f \in 1..Manifest : f = Cardinality(gen[x.run]) + 1
  BY <1>3, NextTarget
<1>5. gen' = [gen EXCEPT ![x.run] = @ \cup {f}]
  BY <1>1, <1>4 DEF WriteTargets
<1>6. /\ Grows /\ gen' \in [TargetRuns -> SUBSET (1..Manifest)]
      /\ files' \in [TargetRuns -> SUBSET FileNames] /\ remote' \in [TargetRuns -> SUBSET Archived]
  BY <1>2, <1>5, GenGrows DEF WriteTargets
<1>7. Relies(x)'
  BY <1>2, <1>6, GrowthRelies
<1>8. proc' = [proc EXCEPT ![p] = x] /\ lease' = lease /\ faults' \in Nat /\ proc[p].pc # "idle"
  BY <1>1 DEF WriteTargets, RunsInv, RunsTypeOK
<1> QED BY <1>6, <1>7, <1>8, GrowStep

LEMMA GenerationManifestStep ==
  ASSUME RunsAssumption, RunsInv, NEW p \in Procs, WriteGenerationManifest(p)
  PROVE  RunsInv' /\ DeletedOnlyWhenArchived
<1>1. PICK x \in ProcType : x = proc[p]
  BY DEF RunsInv, RunsTypeOK
<1>2. Relies(x) /\ x.pc = "targets" /\ x.run \in TargetRuns
  BY <1>1, RunFacts DEF RunsInv, ProcInv, WriteGenerationManifest, Relies
<1>3. Manifest \in 1..Manifest
  BY DEF Manifest, RunsAssumption
<1>4. gen' = [gen EXCEPT ![x.run] = @ \cup {Manifest}]
  BY <1>1 DEF WriteGenerationManifest
<1>5. /\ Grows /\ gen' \in [TargetRuns -> SUBSET (1..Manifest)] /\ gen'[x.run] = gen[x.run] \cup {Manifest}
      /\ files' \in [TargetRuns -> SUBSET FileNames] /\ remote' \in [TargetRuns -> SUBSET Archived]
  BY <1>2, <1>3, <1>4, GenGrows DEF WriteGenerationManifest
<1>6. GenerationIsWhole(x.run)'
  BY <1>1, <1>5 DEF GenerationIsWhole, WriteGenerationManifest, AllTargets
<1>7. PICK y \in ProcType :
            /\ proc' = [proc EXCEPT ![p] = y] /\ y.pc = "pointer"
            /\ y.run = proc[p].run /\ y.own = proc[p].own
            /\ y.todo = proc[p].todo /\ y.base = proc[p].base
  BY GoOnFacts DEF WriteGenerationManifest, RunsInv, ProcPcs
<1>8. Relies(x)'
  BY <1>2, <1>5, GrowthRelies
<1>9. Relies(y)'
  BY <1>1, <1>2, <1>6, <1>7, <1>8 DEF Relies
<1>10. lease' = lease /\ faults' \in Nat /\ proc[p].pc # "idle"
  BY DEF WriteGenerationManifest, RunsInv, RunsTypeOK
<1> QED BY <1>5, <1>7, <1>9, <1>10, GrowStep

LEMMA CheckFailsStep ==
  ASSUME RunsAssumption, RunsInv, NEW p \in Procs, CheckFails(p)
  PROVE  RunsInv' /\ DeletedOnlyWhenArchived
<1>1. faults' \in Nat /\ proc[p].pc # "idle"
  BY DEF CheckFails, RunsInv, RunsTypeOK
<1> QED BY <1>1, FailureStep DEF CheckFails

LEMMA CallFailsStep ==
  ASSUME RunsAssumption, RunsInv, NEW p \in Procs, CallFails(p)
  PROVE  RunsInv' /\ DeletedOnlyWhenArchived
<1>1. faults' \in Nat /\ proc[p].pc # "idle"
  BY DEF CallFails, RunsInv, RunsTypeOK
<1> QED BY <1>1, FailureStep DEF CallFails

\* A kill, which may leave the temporary of a write.
LEMMA KillStep ==
  ASSUME RunsAssumption, RunsInv, NEW p \in Procs, KillProcess(p)
  PROVE  RunsInv' /\ DeletedOnlyWhenArchived
<1>1. faults' \in Nat /\ proc[p].pc # "idle" /\ Release(p)
  BY DEF KillProcess, RunsInv, RunsTypeOK
<1>2. CASE UNCHANGED files
  <2>1. Grows
    BY <1>2 DEF Grows, KillProcess
  <2>2. /\ files' \in [TargetRuns -> SUBSET FileNames] /\ remote' \in [TargetRuns -> SUBSET Archived]
        /\ gen' \in [TargetRuns -> SUBSET (1..Manifest)]
    BY <1>2 DEF RunsInv, RunsTypeOK, KillProcess
  <2> QED BY <1>1, <2>1, <2>2, ReleaseStep
<1>3. CASE /\ proc[p].pc \in {"artifact", "report", "manifest", "put"}
           /\ files' = [files EXCEPT ![proc[p].run] = @ \cup {"leftover"}]
  <2>1. /\ Grows /\ files' \in [TargetRuns -> SUBSET FileNames]
        /\ remote' \in [TargetRuns -> SUBSET Archived] /\ gen' \in [TargetRuns -> SUBSET (1..Manifest)]
    BY <1>3, FileGrows DEF KillProcess, FileNames
  <2> QED BY <1>1, <2>1, ReleaseStep
<1> QED BY <1>2, <1>3 DEF KillProcess

\* The pointer goes from the base of the run to the run.
LEMMA PointerStep ==
  ASSUME RunsAssumption, RunsInv, NEW p \in Procs, WritePointer(p)
  PROVE  RunsInv' /\ DeletedOnlyWhenArchived
<1>1. PICK x \in ProcType : x = proc[p]
  BY DEF RunsInv, RunsTypeOK
<1>2. /\ Relies(x) /\ x.pc = "pointer" /\ x.own /\ x.run \in TargetRuns /\ x.run \in Started
      /\ x.run \notin old /\ x.run \in Nat /\ x.run # 0
  BY <1>1, RunFacts DEF RunsInv, ProcInv, WritePointer, Relies
<1>3. pointer' = x.run /\ UNCHANGED <<lease, files, complete, old, remote, gen, ledger, reaper, faults>>
  BY <1>1 DEF WritePointer
<1>4. Started' = Started
  BY <1>3 DEF Started
<1>5. PICK y \in ProcType :
            /\ proc' = [proc EXCEPT ![p] = y] /\ y.pc = "ledger"
            /\ y.run = proc[p].run /\ y.own = proc[p].own
            /\ y.todo = proc[p].todo /\ y.base = proc[p].base
  BY GoOnFacts DEF WritePointer, RunsInv, ProcPcs
<1>6. Relies(y)'
  BY <1>1, <1>2, <1>3, <1>4, <1>5 DEF Relies, GenerationIsWhole, LocalRunIsWhole
<1>7. LeaseInv' /\ ProcInv' /\ proc' \in [Procs -> ProcType] /\ lease' \in Procs \cup {"none"}
  BY <1>1, <1>2, <1>3, <1>4, <1>5, <1>6, HolderStep
<1>8. RunsTypeOK'
  BY <1>2, <1>3, <1>7, RunFacts DEF RunsInv, RunsTypeOK
<1>9. StartedInv'
  BY <1>3, <1>4 DEF RunsInv, StartedInv
<1>10. PointerInv'
  BY <1>2, <1>3, <1>4 DEF PointerInv, Relies, GenerationIsWhole, LocalRunIsWhole
<1>11. pointer \in Nat /\ pointer <= x.run
  BY <1>2, RunFacts DEF RunsInv, RunsTypeOK, PointerInv, Relies
<1>12. LedgerInv'
  <2> SUFFICES ASSUME NEW r \in ledger PROVE GenerationIsWhole(r)' /\ r <= x.run
    BY <1>3 DEF LedgerInv
  <2>1. r \in Nat /\ GenerationIsWhole(r) /\ r <= pointer
    BY RunFacts DEF RunsInv, RunsTypeOK, LedgerInv
  <2> QED BY <1>2, <1>3, <1>11, <2>1 DEF GenerationIsWhole
<1>13. ReaperInv'
  BY <1>2, <1>3 DEF RunsInv, ReaperInv, ArchiveVerifies
<1>14. DeletedOnlyWhenArchived
  BY <1>3 DEF DeletedOnlyWhenArchived
<1> QED BY <1>7, <1>8, <1>9, <1>10, <1>12, <1>13, <1>14 DEF RunsInv

LEMMA CoverageStep ==
  ASSUME RunsAssumption, RunsInv, NEW p \in Procs, RecordCoverage(p)
  PROVE  RunsInv' /\ DeletedOnlyWhenArchived
<1>1. PICK x \in ProcType : x = proc[p]
  BY DEF RunsInv, RunsTypeOK
<1>2. /\ x.pc = "ledger" /\ x.run \in TargetRuns /\ x.run \in Nat /\ GenerationIsWhole(x.run)
      /\ pointer = x.run
  BY <1>1, RunFacts DEF RunsInv, ProcInv, RecordCoverage, Relies
<1>3. ledger' = ledger \cup {x.run} /\ UNCHANGED <<files, complete, old, remote, gen, pointer, reaper, faults>>
  BY <1>1 DEF RecordCoverage
<1>4. Started' = Started
  BY <1>3 DEF Started
<1>5. PICK y \in ProcType : y = Idle
  BY IdleFacts
<1>6. y.pc = "idle" /\ proc' = [proc EXCEPT ![p] = y] /\ lease' = "none" /\ Relies(y)'
  BY <1>5, IdleFacts, IdleReliesOnNothing DEF Release, RecordCoverage
<1>7. LeaseInv' /\ ProcInv' /\ proc' \in [Procs -> ProcType] /\ lease' \in Procs \cup {"none"}
  BY <1>1, <1>2, <1>4, <1>6, HolderStep
<1>8. RunsTypeOK'
  BY <1>2, <1>3, <1>7 DEF RunsInv, RunsTypeOK
<1>9. StartedInv' /\ PointerInv' /\ ReaperInv'
  BY <1>3, <1>4 DEF RunsInv, StartedInv, PointerInv, ReaperInv, GenerationIsWhole, LocalRunIsWhole, ArchiveVerifies
<1>10. LedgerInv'
  BY <1>2, <1>3 DEF RunsInv, LedgerInv, GenerationIsWhole
<1>11. DeletedOnlyWhenArchived
  BY <1>3 DEF DeletedOnlyWhenArchived
<1> QED BY <1>7, <1>8, <1>9, <1>10, <1>11 DEF RunsInv

\* The process that starts when nobody holds the lease.
LEMMA StarterStep ==
  ASSUME RunsAssumption, RunsInv, lease = "none", NEW p \in Procs, NEW y \in ProcType,
         proc' = [proc EXCEPT ![p] = y], lease' = p, Relies(y)', Started \subseteq Started'
  PROVE  LeaseInv' /\ ProcInv' /\ proc' \in [Procs -> ProcType] /\ lease' \in Procs \cup {"none"}
<1>1. proc \in [Procs -> ProcType] /\ LeaseInv /\ ProcInv
  BY DEF RunsInv, RunsTypeOK
<1>2. \A q \in Procs : proc[q].pc = "idle"
  BY <1>1, NobodyRuns
<1>3. proc'[p] = y /\ \A q \in Procs \ {p} : proc'[q] = proc[q]
  BY <1>1
<1>4. LeaseInv'
  BY <1>2, <1>3 DEF LeaseInv
<1>5. ASSUME NEW q \in Procs PROVE Relies(proc[q])'
  <2>1. CASE q = p
    BY <2>1, <1>3 DEF Relies
  <2>2. CASE q # p
    <3>1. PICK x \in ProcType : x = proc[q]
      BY <1>1
    <3>2. Relies(x) /\ x.pc = "idle"
      BY <3>1, <1>1, <1>2 DEF ProcInv
    <3>3. Relies(x)'
      BY <3>2, IdleRelies
    <3>4. proc'[q] = x
      BY <3>1, <2>2, <1>3
    <3> QED BY <3>3, <3>4 DEF Relies
  <2> QED BY <2>1, <2>2
<1>6. ProcInv'
  BY <1>5 DEF ProcInv
<1> QED BY <1>1, <1>4, <1>6

LEMMA StartSweepStep ==
  ASSUME RunsAssumption, RunsInv, NEW p \in Procs, StartSweep(p)
  PROVE  RunsInv' /\ DeletedOnlyWhenArchived
<1> DEFINE z == [Idle EXCEPT !.pc = "sweep", !.todo = Started]
<1>1. z \in ProcType /\ z.pc = "sweep" /\ ~z.own /\ z.todo = Started
  <2>1. 0 \in 0..LastRun /\ Started \in SUBSET TargetRuns
    BY RunFacts DEF RunsAssumption
  <2> QED BY <2>1 DEF Idle, ProcType, ProcPcs
<1>2. proc' = [proc EXCEPT ![p] = z] /\ lease = "none" /\ lease' = p
  BY DEF StartSweep, Acquire
<1>3. Grows /\ Started' = Started /\ faults' = faults /\ UNCHANGED <<files, remote, gen>>
  BY DEF StartSweep, Grows, Started
<1>4. PICK y \in ProcType : y = z
  BY <1>1
<1>5. Relies(y)'
  BY <1>1, <1>3, <1>4 DEF Relies
<1>6. LeaseInv' /\ ProcInv' /\ proc' \in [Procs -> ProcType] /\ lease' \in Procs \cup {"none"}
  BY <1>2, <1>3, <1>4, <1>5, StarterStep
<1>7. RunsTypeOK'
  BY <1>3, <1>6 DEF RunsInv, RunsTypeOK, Grows
<1> QED BY <1>3, <1>6, <1>7, GrowthKeeps DEF RunsInv

\* A new run has the next id, and is younger than what is published or old.
LEMMA RunShadowStep ==
  ASSUME RunsAssumption, RunsInv, NEW p \in Procs, RunShadow(p)
  PROVE  RunsInv' /\ DeletedOnlyWhenArchived
<1>1. PICK r \in TargetRuns, c \in {"complete", "incomplete"} :
        /\ r = Cardinality(Started) + 1
        /\ complete' = [complete EXCEPT ![r] = c]
        /\ proc' = [proc EXCEPT ![p] = [Idle EXCEPT !.pc = "artifact", !.own = TRUE, !.run = r, !.base = pointer]]
  BY DEF RunShadow
<1>2. lease = "none" /\ lease' = p /\ UNCHANGED <<files, old, remote, gen, pointer, ledger, reaper, faults>>
  BY DEF RunShadow, Acquire
<1>3. PICK n \in 0..LastRun : Started = 1..n
  BY DEF RunsInv, StartedInv
<1>4. n \in Nat /\ r = n + 1
  <2>1. n \in Nat
    BY RunFacts
  <2>2. Cardinality(1..n) = n
    BY <2>1, FS_Interval
  <2> QED BY <1>1, <1>3, <2>1, <2>2
<1>5. complete \in [TargetRuns -> {"none", "complete", "incomplete"}]
  BY DEF RunsInv, RunsTypeOK
<1>6. /\ complete' \in [TargetRuns -> {"none", "complete", "incomplete"}] /\ complete'[r] = c
      /\ \A q \in TargetRuns \ {r} : complete'[q] = complete[q]
  BY <1>1, <1>5
<1>7. Started' = Started \cup {r}
  BY <1>6 DEF Started
<1>8. r \notin Started /\ (\A q \in Started : q <= r) /\ r \in 0..LastRun
  BY <1>1, <1>3, <1>4, RunFacts
<1> DEFINE z == [Idle EXCEPT !.pc = "artifact", !.own = TRUE, !.run = r, !.base = pointer]
<1>9. z \in ProcType /\ z.pc = "artifact" /\ z.own /\ z.run = r /\ z.todo = {}
  <2>1. pointer \in 0..LastRun
    BY DEF RunsInv, RunsTypeOK
  <2> QED BY <1>8, <2>1 DEF Idle, ProcType, ProcPcs
<1>10. PICK y \in ProcType : y = z
  BY <1>9
<1>11. r \notin old'
  BY <1>2, <1>8 DEF RunsInv, StartedInv
<1>12. Relies(y)'
  <2>1. y.pc = "artifact" /\ y.own /\ y.run = r /\ y.todo = {}
    BY <1>9, <1>10
  <2>2. r \in Nat /\ \A q \in Started' : q <= r
    BY <1>4, <1>7, <1>8
  <2> QED BY <1>7, <1>11, <2>1, <2>2 DEF Relies
<1>13. LeaseInv' /\ ProcInv' /\ proc' \in [Procs -> ProcType] /\ lease' \in Procs \cup {"none"}
  BY <1>1, <1>2, <1>7, <1>10, <1>12, StarterStep
<1>14. RunsTypeOK'
  BY <1>2, <1>6, <1>13 DEF RunsInv, RunsTypeOK
<1>15. StartedInv'
  <2>1. Started' = 1..r
    BY <1>3, <1>4, <1>7
  <2> QED BY <1>2, <1>7, <1>8, <2>1 DEF RunsInv, StartedInv
<1>16. PointerInv'
  BY <1>2, <1>6, <1>7, <1>8, RunFacts DEF RunsInv, PointerInv, GenerationIsWhole, LocalRunIsWhole
<1>17. LedgerInv' /\ ReaperInv'
  BY <1>2 DEF RunsInv, LedgerInv, ReaperInv, GenerationIsWhole, ArchiveVerifies
<1>18. DeletedOnlyWhenArchived
  BY <1>2 DEF DeletedOnlyWhenArchived
<1> QED BY <1>13, <1>14, <1>15, <1>16, <1>17, <1>18 DEF RunsInv

-----------------------------------------------------------------------------
(* The reaper, the store and time                                          *)

\* A step of the reaper itself.
LEMMA ReaperMoves ==
  ASSUME RunsAssumption, RunsInv, NEW y \in ReaperType, reaper' = y, faults' \in Nat, ReaperInv',
         UNCHANGED <<lease, proc, files, complete, old, remote, gen, pointer, ledger>>
  PROVE  RunsInv' /\ DeletedOnlyWhenArchived
<1>1. RunsTypeOK'
  BY DEF RunsInv, RunsTypeOK
<1>2. Started' = Started
  BY DEF Started
<1>3. LeaseInv' /\ StartedInv' /\ PointerInv' /\ LedgerInv'
  BY <1>2 DEF RunsInv, LeaseInv, StartedInv, PointerInv, LedgerInv, GenerationIsWhole, LocalRunIsWhole
<1>4. ProcInv'
  <2> SUFFICES ASSUME NEW q \in Procs PROVE Relies(proc[q])'
    BY DEF ProcInv
  <2>1. Relies(proc[q])
    BY DEF RunsInv, ProcInv
  <2> QED BY <1>2, <2>1 DEF Relies, GenerationIsWhole, LocalRunIsWhole
<1>5. DeletedOnlyWhenArchived
  BY DEF DeletedOnlyWhenArchived
<1> QED BY <1>1, <1>3, <1>4, <1>5 DEF RunsInv

LEMMA StartReapStep ==
  ASSUME RunsAssumption, RunsInv, StartReap
  PROVE  RunsInv' /\ DeletedOnlyWhenArchived
<1> DEFINE z == [pc |-> "sweep", run |-> 0, todo |-> {r \in Started : files[r] # {"receipt"}},
                 pointer |-> pointer]
<1>1. 0 \in 0..LastRun /\ pointer \in 0..LastRun /\ {r \in Started : files[r] # {"receipt"}} \in SUBSET TargetRuns
  BY RunFacts DEF RunsInv, RunsTypeOK, RunsAssumption
<1>2. z \in ReaperType /\ z.pc = "sweep" /\ z.pointer = pointer
  BY <1>1 DEF ReaperType
<1>3. PICK y \in ReaperType : y = z
  BY <1>2
<1>4. /\ reaper' = y /\ faults' \in Nat
      /\ UNCHANGED <<lease, proc, files, complete, old, remote, gen, pointer, ledger>>
  BY <1>3 DEF StartReap, RunsInv, RunsTypeOK
<1>5. ReaperInv'
  BY <1>2, <1>3, <1>4 DEF ReaperInv
<1> QED BY <1>4, <1>5, ReaperMoves

\* A run is taken for deletion: old, archived, and neither what is published nor
\* what was when the reap began.
LEMMA ConsiderReapStep ==
  ASSUME RunsAssumption, RunsInv, ConsiderReap
  PROVE  RunsInv' /\ DeletedOnlyWhenArchived
<1>1. PICK x \in ReaperType : x = reaper
  BY DEF RunsInv, RunsTypeOK
<1>2. x.pc = "sweep" /\ x.todo # {} /\ x.todo \in SUBSET TargetRuns
  BY <1>1 DEF ConsiderReap, ReaperType
<1>3. PICK r \in x.todo : r = Min(x.todo)
  BY <1>2, RunFacts, LeastRun
<1>4. PICK may \in BOOLEAN : may = MayReap(r)
  BY DEF MayReap, Inventory, NotPublished, ArchiveIsThere, ArchiveVerifies
<1> DEFINE z == [x EXCEPT !.todo = @ \ {r}, !.run = IF may THEN r ELSE 0,
                          !.pc = IF may THEN "delete" ELSE "sweep"]
<1>5. reaper' = z /\ UNCHANGED <<lease, proc, files, complete, old, remote, gen, pointer, ledger>>
  BY <1>1, <1>3, <1>4 DEF ConsiderReap
<1>6. r \in 0..LastRun /\ 0 \in 0..LastRun
  BY <1>2, <1>3, RunFacts DEF RunsAssumption
<1>7. z \in ReaperType
  BY <1>2, <1>6 DEF ReaperType
<1>8. /\ z.pc \in {"sweep", "delete"} /\ z.pointer = x.pointer
      /\ (z.pc = "delete" => may /\ z.run = r)
  BY DEF ReaperType
<1>9. PICK y \in ReaperType : y = z
  BY <1>7
<1> HIDE DEF z
<1>10. pointer = x.pointer \/ pointer \notin old
  BY <1>1, <1>2 DEF RunsInv, ReaperInv
<1>11. may => r \in old /\ r # pointer /\ ArchiveVerifies(r) /\ "receipt" \in files[r]
  BY <1>1, <1>4, <1>10 DEF MayReap, NotPublished, ArchiveIsThere
<1>12. reaper' = y /\ faults' \in Nat
  BY <1>5, <1>9 DEF ConsiderReap, RunsInv, RunsTypeOK
<1>13. ReaperInv'
  BY <1>5, <1>8, <1>9, <1>10, <1>11, <1>12 DEF ReaperInv, ArchiveVerifies
<1> QED BY <1>5, <1>12, <1>13, ReaperMoves

LEMMA ReapedStep ==
  ASSUME RunsAssumption, RunsInv, Reaped
  PROVE  RunsInv' /\ DeletedOnlyWhenArchived
<1>1. PICK x \in ReaperType : x = reaper
  BY DEF RunsInv, RunsTypeOK
<1> DEFINE z == [x EXCEPT !.pc = "sweep", !.run = 0]
<1>2. 0 \in 0..LastRun
  BY DEF RunsAssumption
<1>3. z \in ReaperType /\ z.pc = "sweep" /\ z.pointer = x.pointer
  BY <1>2 DEF ReaperType
<1>4. PICK y \in ReaperType : y = z
  BY <1>3
<1>5. /\ reaper' = y /\ faults' \in Nat /\ x.pc = "delete"
      /\ UNCHANGED <<lease, proc, files, complete, old, remote, gen, pointer, ledger>>
  BY <1>1, <1>4 DEF Reaped, RunsInv, RunsTypeOK
<1>6. ReaperInv'
  BY <1>1, <1>3, <1>4, <1>5 DEF RunsInv, ReaperInv
<1> QED BY <1>5, <1>6, ReaperMoves

LEMMA RestStep ==
  ASSUME RunsAssumption, RunsInv, EndReap \/ KillReaper
  PROVE  RunsInv' /\ DeletedOnlyWhenArchived
<1>1. ReaperResting \in ReaperType /\ ReaperResting.pc = "idle"
  BY DEF ReaperResting, ReaperType, RunsAssumption
<1>2. PICK y \in ReaperType : y = ReaperResting
  BY <1>1
<1>3. /\ reaper' = y /\ faults' \in Nat
      /\ UNCHANGED <<lease, proc, files, complete, old, remote, gen, pointer, ledger>>
  BY <1>2 DEF EndReap, KillReaper, RunsInv, RunsTypeOK
<1>4. ReaperInv'
  BY <1>1, <1>2, <1>3 DEF ReaperInv
<1> QED BY <1>3, <1>4, ReaperMoves

\* A deletion touches neither a receipt, nor a run in the making, nor the published run.
LEMMA DeleteStep ==
  ASSUME RunsAssumption, RunsInv, DeleteOne
  PROVE  RunsInv' /\ DeletedOnlyWhenArchived
<1>1. PICK d : d = reaper.run
  OBVIOUS
<1>2. /\ d \in old /\ d # pointer /\ ArchiveVerifies(d) /\ "receipt" \in files[d] /\ d \in TargetRuns
  BY <1>1 DEF RunsInv, RunsTypeOK, ReaperInv, DeleteOne
<1>3. PICK f \in Archived : f = NextDeletion(d)
  BY DEF NextDeletion, Archived
<1>4. /\ files' = [files EXCEPT ![d] = @ \ {f}]
      /\ UNCHANGED <<lease, proc, complete, old, remote, gen, pointer, ledger, reaper, faults>>
  BY <1>1, <1>3 DEF DeleteOne
<1>5. files \in [TargetRuns -> SUBSET FileNames] /\ f # "receipt"
  BY <1>3 DEF RunsInv, RunsTypeOK, Archived
<1>6. /\ files' \in [TargetRuns -> SUBSET FileNames]
      /\ \A r \in TargetRuns \ {d} : files'[r] = files[r]
      /\ \A r \in TargetRuns : "receipt" \in files[r] => "receipt" \in files'[r]
  BY <1>2, <1>4, <1>5
<1>7. RunsTypeOK'
  BY <1>4, <1>6 DEF RunsInv, RunsTypeOK
<1>8. Started' = Started
  BY <1>4 DEF Started
<1>9. LeaseInv' /\ StartedInv' /\ LedgerInv'
  BY <1>4, <1>8 DEF RunsInv, LeaseInv, StartedInv, LedgerInv, GenerationIsWhole
<1>10. PointerInv'
  BY <1>2, <1>4, <1>6, <1>8, RunFacts DEF RunsInv, PointerInv, GenerationIsWhole, LocalRunIsWhole
<1>11. ReaperInv'
  BY <1>1, <1>2, <1>4, <1>6 DEF RunsInv, ReaperInv, ArchiveVerifies
<1>12. ProcInv'
  <2> SUFFICES ASSUME NEW q \in Procs PROVE Relies(proc[q])'
    BY DEF ProcInv
  <2>1. PICK x \in ProcType : x = proc[q]
    BY DEF RunsInv, RunsTypeOK
  <2>2. Relies(x)
    BY <2>1 DEF RunsInv, ProcInv
  <2>3. x.pc \in {"publish", "targets", "pointer", "ledger"} => x.run \in TargetRuns \ {d}
    BY <1>2, <2>2, RunFacts DEF Relies
  <2>4. Relies(x)'
    BY <1>4, <1>6, <1>8, <2>2, <2>3 DEF Relies, GenerationIsWhole, LocalRunIsWhole
  <2> QED BY <1>4, <2>1, <2>4 DEF Relies
<1>13. DeletedOnlyWhenArchived
  BY <1>2, <1>6 DEF DeletedOnlyWhenArchived
<1> QED BY <1>7, <1>9, <1>10, <1>11, <1>12, <1>13 DEF RunsInv

LEMMA LoseStep ==
  ASSUME RunsAssumption, RunsInv, LoseObject
  PROVE  RunsInv' /\ DeletedOnlyWhenArchived
<1>1. PICK r \in TargetRuns : \E o \in remote[r] :
         r # reaper.run /\ remote' = [remote EXCEPT ![r] = @ \ {o}]
  BY DEF LoseObject
<1>2. /\ UNCHANGED <<lease, proc, files, complete, old, gen, pointer, ledger, reaper>> /\ faults' \in Nat
  BY DEF LoseObject, RunsInv, RunsTypeOK
<1>3. remote \in [TargetRuns -> SUBSET Archived]
  BY DEF RunsInv, RunsTypeOK
<1>4. remote' \in [TargetRuns -> SUBSET Archived] /\ \A q \in TargetRuns \ {r} : remote'[q] = remote[q]
  BY <1>1, <1>3
<1>5. RunsTypeOK'
  BY <1>2, <1>4 DEF RunsInv, RunsTypeOK
<1>6. Started' = Started
  BY <1>2 DEF Started
<1>7. LeaseInv' /\ StartedInv' /\ PointerInv' /\ LedgerInv'
  BY <1>2, <1>6 DEF RunsInv, LeaseInv, StartedInv, PointerInv, LedgerInv, GenerationIsWhole, LocalRunIsWhole
<1>8. ProcInv'
  <2> SUFFICES ASSUME NEW q \in Procs PROVE Relies(proc[q])'
    BY DEF ProcInv
  <2>1. Relies(proc[q])
    BY DEF RunsInv, ProcInv
  <2> QED BY <1>2, <1>6, <2>1 DEF Relies, GenerationIsWhole, LocalRunIsWhole
<1>9. ReaperInv'
  BY <1>1, <1>2, <1>4 DEF RunsInv, RunsTypeOK, ReaperInv, ArchiveVerifies
<1>10. DeletedOnlyWhenArchived
  BY <1>2 DEF DeletedOnlyWhenArchived
<1> QED BY <1>5, <1>7, <1>8, <1>9, <1>10 DEF RunsInv

LEMMA GrowOldStep ==
  ASSUME RunsAssumption, RunsInv, GrowOld
  PROVE  RunsInv' /\ DeletedOnlyWhenArchived
<1>1. PICK r \in Started \ old :
        /\ r # pointer \/ reaper.pc = "idle" \/ r = reaper.pointer
        /\ \A p \in Procs : proc[p].run # r \/ ~proc[p].own
        /\ old' = old \cup {r}
  BY DEF GrowOld
<1>2. UNCHANGED <<lease, proc, files, complete, remote, gen, pointer, ledger, reaper, faults>>
  BY DEF GrowOld
<1>3. Started' = Started /\ r \in TargetRuns
  BY <1>1, <1>2, RunFacts DEF Started
<1>4. RunsTypeOK'
  BY <1>1, <1>2, <1>3 DEF RunsInv, RunsTypeOK
<1>5. LeaseInv' /\ StartedInv' /\ PointerInv' /\ LedgerInv'
  BY <1>1, <1>2, <1>3
  DEF RunsInv, LeaseInv, StartedInv, PointerInv, LedgerInv, GenerationIsWhole, LocalRunIsWhole
<1>6. ProcInv'
  <2> SUFFICES ASSUME NEW q \in Procs PROVE Relies(proc[q])'
    BY DEF ProcInv
  <2>1. PICK x \in ProcType : x = proc[q]
    BY DEF RunsInv, RunsTypeOK
  <2>2. Relies(x) /\ (x.run # r \/ ~x.own)
    BY <1>1, <2>1 DEF RunsInv, ProcInv
  <2>3. Relies(x)'
    BY <1>1, <1>2, <1>3, <2>2 DEF Relies, GenerationIsWhole, LocalRunIsWhole
  <2> QED BY <1>2, <2>1, <2>3 DEF Relies
<1>7. ReaperInv'
  BY <1>1, <1>2 DEF RunsInv, ReaperInv, ArchiveVerifies
<1>8. DeletedOnlyWhenArchived
  BY <1>2 DEF DeletedOnlyWhenArchived
<1> QED BY <1>4, <1>5, <1>6, <1>7, <1>8 DEF RunsInv

-----------------------------------------------------------------------------
(* The theorems about runs                                                 *)

LEMMA InitIsInv ==
  ASSUME RunsAssumption, RunsInit
  PROVE  RunsInv
<1>1. Started = {}
  BY DEF RunsInit, Started
<1>2. Idle \in ProcType /\ Idle.pc = "idle" /\ ~Idle.own /\ Idle.todo = {}
  BY IdleFacts
<1>3. ReaperResting \in ReaperType /\ ReaperResting.pc = "idle"
  BY DEF ReaperResting, ReaperType, RunsAssumption
<1>4. 0 \in 0..LastRun
  BY DEF RunsAssumption
<1>5. RunsTypeOK
  BY <1>2, <1>3, <1>4 DEF RunsInit, RunsTypeOK
<1>6. LeaseInv /\ ProcInv
  BY <1>1, <1>2 DEF RunsInit, LeaseInv, ProcInv, Relies
<1>7. StartedInv
  <2>1. Started = 1..0
    BY <1>1
  <2> QED BY <1>4, <2>1 DEF StartedInv, RunsInit
<1>8. PointerInv /\ LedgerInv /\ ReaperInv
  BY <1>3 DEF RunsInit, PointerInv, LedgerInv, ReaperInv
<1> QED BY <1>5, <1>6, <1>7, <1>8 DEF RunsInv

LEMMA StepKeeps ==
  ASSUME RunsAssumption, RunsInv, RunsNext
  PROVE  RunsInv' /\ DeletedOnlyWhenArchived
<1>1. CASE RunShadow(FreeProcess)
  BY <1>1, FreeFacts, RunShadowStep
<1>2. CASE StartSweep(FreeProcess)
  BY <1>2, FreeFacts, StartSweepStep
<1>3. CASE \E p \in Procs : ProcessStep(p) \/ CallFails(p) \/ KillProcess(p)
  <2>1. PICK p \in Procs : ProcessStep(p) \/ CallFails(p) \/ KillProcess(p)
    BY <1>3
  <2>2. CASE ProcessStep(p)
    BY <2>2, ArtifactStep, ReportStep, ConsiderStep, EndSweepStep, ManifestStep, PutStep, ReceiptStep,
       BeginPublishStep, WriteTargetsStep, GenerationManifestStep, PointerStep, CoverageStep,
       CheckFailsStep
    DEF ProcessStep
  <2> QED BY <2>1, <2>2, CallFailsStep, KillStep
<1>4. CASE ReaperStep \/ KillReaper
  BY <1>4, StartReapStep, ConsiderReapStep, DeleteStep, ReapedStep, RestStep DEF ReaperStep
<1>5. CASE LoseObject \/ GrowOld
  BY <1>5, LoseStep, GrowOldStep
<1> QED BY <1>1, <1>2, <1>3, <1>4, <1>5 DEF RunsNext

LEMMA StutterKeeps ==
  ASSUME RunsInv, UNCHANGED trvars
  PROVE  RunsInv'
<1>1. UNCHANGED <<lease, proc, files, complete, old, remote, gen, pointer, ledger, reaper, faults>>
  BY DEF trvars
<1>2. Started' = Started
  BY <1>1 DEF Started
<1> QED BY <1>1, <1>2
  DEF RunsInv, RunsTypeOK, LeaseInv, StartedInv, ProcInv, Relies, PointerInv, LedgerInv, ReaperInv,
      GenerationIsWhole, LocalRunIsWhole, ArchiveVerifies

\* Who holds the lease, what each step of a command relies on, and that nothing the
\* reaper works on is in the making or published, through kills, failed calls and lost
\* objects (run_archive.py, publication.py, run_reaper.py).
THEOREM RunsInvariance ==
  ASSUME RunsAssumption
  PROVE  RunsSpec => []RunsInv
<1>1. RunsInit => RunsInv
  BY InitIsInv
<1>2. RunsInv /\ [RunsNext]_trvars => RunsInv'
  BY StepKeeps, StutterKeeps
<1> QED BY <1>1, <1>2, PTL DEF RunsSpec

\* What is published is whole after every step, a generation replaces the one it was
\* selected against, and a local file is deleted only when the archive holds the run,
\* for any number of processes, runs, venues and faults (publish_run,
\* audit_current_publication, TargetRunReaper._delete).
THEOREM RunsKept ==
  ASSUME RunsAssumption
  PROVE  RunsSpec => RunsAreKept
<1>1. RunsInv /\ RunsInv' /\ [RunsNext]_trvars
        => [PublishedRunIsWhole' /\ ReplacesItsBase /\ DeletedOnlyWhenArchived]_trvars
  <2> SUFFICES ASSUME RunsInv, RunsInv', RunsNext
               PROVE  PublishedRunIsWhole' /\ ReplacesItsBase /\ DeletedOnlyWhenArchived
    OBVIOUS
  <2>1. PublishedRunIsWhole'
    BY DEF RunsInv, PointerInv, LedgerInv, PublishedRunIsWhole
  <2>2. ReplacesItsBase
    BY DEF RunsInv, ProcInv, Relies, ReplacesItsBase
  <2>3. DeletedOnlyWhenArchived
    BY StepKeeps
  <2> QED BY <2>1, <2>2, <2>3
<1>2. RunsSpec => []RunsInv
  BY RunsInvariance
<1>3. RunsSpec => [][RunsNext]_trvars
  BY DEF RunsSpec
<1> QED BY <1>1, <1>2, <1>3, PTL DEF RunsAreKept

-----------------------------------------------------------------------------
(* Game fetches: the inductive invariant                                   *)

FetchPcs == {"idle", "next", "map", "probe", "fetched", "responses", "receipt", "record"}
Namespaces == {Keyed(e) : e \in Events} \cup {Legacy(e) : e \in Events}
Gots == UNION {[Urls(ns) -> Answers] : ns \in Namespaces}
Fetch == [ns : Namespaces, docs : Seq(Nat), got : Gots, receipt : BOOLEAN, timeline : BOOLEAN]
Ends == Retried \cup {"no_milestone", "complete", "complete_inconsistent", "timeline_failed", Nothing}
AttemptRow == [event : Events \cup {Nothing}, bundle : Bundles, hour : Nat, outcome : Ends]

\* The fields of a pull.
IsPull(p) ==
    p = [ns |-> p.ns, owner |-> p.owner, left |-> p.left, asked |-> p.asked, docs |-> p.docs,
         mapped |-> p.mapped, outcome |-> p.outcome, got |-> p.got]

FetchTypeOK ==
    /\ gpc \in FetchPcs /\ hour \in Nat /\ at \in Nat \ {0} /\ attempted \in Nat
    /\ archive \in Seq(Fetch) /\ attempts \in Seq(AttemptRow)
    /\ known \in [Bundles -> Events \cup {Nothing}]
    /\ edition \in Nat

\* What a pull at pc has: a namespace, of the event of its owner if it has one; the
\* documents and answers so far; and from the decision to fetch up to the receipt
\* nothing that is whole under its namespace.
PullAt(p, pc) ==
    /\ IsPull(p) /\ p.outcome \in Ends /\ p.docs \in Seq(Nat)
    /\ pc \notin {"idle", "next"} =>
         /\ p.ns \in Namespaces /\ p.owner \in Bundles \cup {Nothing}
         /\ p.owner # Nothing => \E e \in Events : p.ns = Keyed(e)
    /\ pc = "map" => p.got \in Seq(Nat)
    /\ pc \in {"fetched", "responses"} => p.got \in [Urls(p.ns) -> Answers] /\ ~ExistingComplete(p.ns)
    /\ pc \in {"responses", "receipt"} =>
         archive # <<>> /\ archive[Len(archive)].ns = p.ns
    /\ pc = "receipt" => archive[Len(archive)].receipt
    /\ p.outcome = "complete" => pc = "record" /\ ExistingComplete(p.ns)

PullInv == PullAt(pull, gpc)

\* What the ledger calls complete is whole in the archive.
AttemptsInv ==
    \A i \in DOMAIN attempts : attempts[i].outcome = "complete" =>
        \E e \in Events : attempts[i].event = e /\ ExistingComplete(Keyed(e))

FetchInv == FetchTypeOK /\ PullInv /\ AttemptsInv /\ ArchivedIsNotRefetched

-----------------------------------------------------------------------------
(* Facts about the operators of GamestateFetch                             *)

\* The newest row and the newest fetch exist.
LEMMA MaxFacts ==
  ASSUME NEW n \in Nat, NEW S \in SUBSET (1..n), S # {}
  PROVE  Max(S) \in S /\ \A y \in S : y <= Max(S)
<1> DEFINE T == {n - x : x \in S}
<1>0. \A x \in S : x \in Int /\ n - x \in Nat
  OBVIOUS
<1>1. T \in SUBSET Nat /\ T # {}
  BY <1>0
<1>2. \E t \in T : \A u \in T : ~ (<<u, t>> \in OpToRel(<, Nat))
  BY <1>1, NatLessThanWellFounded, WFMin, Zenon
<1>3. PICK t \in T : \A u \in T : ~ (<<u, t>> \in OpToRel(<, Nat))
  BY <1>2
<1>4. PICK x \in S : t = n - x
  OBVIOUS
<1>5. \A y \in S : x >= y
  <2> SUFFICES ASSUME NEW y \in S PROVE x >= y
    OBVIOUS
  <2>1. n - y \in T /\ n - y \in Nat /\ t \in Nat
    BY <1>1
  <2>2. ~(n - y < t)
    BY <1>3, <2>1 DEF OpToRel
  <2> QED BY <1>4, <2>2
<1>6. Max(S) \in S /\ \A y \in S : Max(S) >= y
  BY <1>5 DEF Max
<1>7. S \subseteq Int
  OBVIOUS
<1> QED BY <1>6, <1>7

LEMMA NamespaceFacts ==
  ASSUME NEW e \in Events
  PROVE  Keyed(e) \in Namespaces /\ Legacy(e) \in Namespaces /\ Keyed(e)[2] = e
BY DEF Namespaces, Keyed, Legacy

LEMMA BundleFacts ==
  ASSUME GamesAssumption
  PROVE  /\ \A i \in 1..Len(BundleOrder) : BundleOrder[i] \in Bundles
         /\ \A b \in Bundles : EventOf[b] \in Events /\ b # Nothing
         /\ Nothing \notin Events /\ Nothing # "complete"
<1>1. BundleOrder \in Seq(DOMAIN EventOf)
  BY DEF GamesAssumption
<1>2. DOMAIN BundleOrder = 1..Len(BundleOrder) /\ \A i \in 1..Len(BundleOrder) : BundleOrder[i] \in DOMAIN EventOf
  BY <1>1
<1>3. Bundles = {BundleOrder[i] : i \in 1..Len(BundleOrder)}
  BY <1>2 DEF Bundles, Range
<1> QED BY <1>2, <1>3 DEF GamesAssumption, Events

\* Fetches are only added, and gain their receipts.
Accrues ==
    \A i \in DOMAIN archive :
        /\ i \in DOMAIN archive' /\ archive'[i].ns = archive[i].ns
        /\ archive'[i].docs = archive[i].docs /\ archive'[i].got = archive[i].got
        /\ archive[i].receipt => archive'[i].receipt

LEMMA WholeStays ==
  ASSUME Accrues, NEW ns, ExistingComplete(ns)
  PROVE  ExistingComplete(ns)'
<1>1. PICK i \in DOMAIN archive : archive[i].ns = ns /\ archive[i].receipt /\ Sound(archive[i])
  BY DEF ExistingComplete, Receipted, Fetches
<1>2. i \in DOMAIN archive' /\ archive'[i].ns = ns /\ archive'[i].receipt
  BY <1>1 DEF Accrues
<1>3. Sound(archive'[i])
  BY <1>1, <1>2 DEF Accrues, Sound, Disqualified
<1> QED BY <1>2, <1>3 DEF ExistingComplete, Receipted, Fetches

LEMMA AttemptsStay ==
  ASSUME AttemptsInv, Accrues, UNCHANGED attempts
  PROVE  AttemptsInv'
<1> SUFFICES ASSUME NEW i \in DOMAIN attempts, attempts[i].outcome = "complete"
             PROVE  \E e \in Events : attempts[i].event = e /\ ExistingComplete(Keyed(e))'
  BY DEF AttemptsInv
<1>1. PICK e \in Events : attempts[i].event = e /\ ExistingComplete(Keyed(e))
  BY DEF AttemptsInv
<1> QED BY <1>1, WholeStays

\* A step that leaves the archive alone.
LEMMA ArchiveStays ==
  ASSUME UNCHANGED archive
  PROVE  /\ Accrues
         /\ \A ns : ExistingComplete(ns)' <=> ExistingComplete(ns)
         /\ ArchivedIsNotRefetched => ArchivedIsNotRefetched'
<1>1. Accrues
  BY DEF Accrues
<1>2. \A ns : ExistingComplete(ns)' <=> ExistingComplete(ns)
  BY DEF ExistingComplete, Receipted, Fetches
<1>3. ArchivedIsNotRefetched => ArchivedIsNotRefetched'
  BY DEF ArchivedIsNotRefetched, Fetches
<1> QED BY <1>1, <1>2, <1>3

\* The pull p at pc, when the archive stays.
LEMMA PullStays ==
  ASSUME UNCHANGED archive, NEW p, NEW pc, PullAt(p, pc)
  PROVE  PullAt(p, pc)'
<1>1. \A ns : ExistingComplete(ns)' <=> ExistingComplete(ns)
  BY ArchiveStays
<1> QED BY <1>1 DEF PullAt

\* A step that leaves the archive alone and goes on with the pull p at pc.
LEMMA MoveOn ==
  ASSUME FetchInv, UNCHANGED archive, FetchTypeOK', AttemptsInv',
         NEW p, NEW pc, pull' = p, gpc' = pc, PullAt(p, pc)
  PROVE  FetchInv'
<1>1. PullAt(p, pc)'
  BY PullStays
<1>2. PullInv'
  BY <1>1 DEF PullInv, PullAt
<1> QED BY <1>2, ArchiveStays DEF FetchInv

LEMMA NoPullIsIdle ==
  ASSUME GamesAssumption, NEW pc \in {"idle", "next"}
  PROVE  PullAt(NoPull, pc)
<1>1. IsPull(NoPull) /\ NoPull.outcome = Nothing /\ NoPull.docs = <<>>
  BY DEF IsPull, NoPull
<1>2. Nothing # "complete"
  BY BundleFacts
<1> QED BY <1>1, <1>2 DEF PullAt, Ends

-----------------------------------------------------------------------------
(* The steps that leave the archive alone                                  *)

\* The pull goes on, or is no longer there, and no row is written.
LEMMA QuietMove ==
  ASSUME GamesAssumption, FetchInv, UNCHANGED <<archive, attempts>>, FetchTypeOK',
         NEW p, NEW pc, pull' = p, gpc' = pc, PullAt(p, pc)
  PROVE  FetchInv'
<1>1. AttemptsInv'
  BY ArchiveStays, AttemptsStay DEF FetchInv
<1> QED BY <1>1, MoveOn

\* A pull between two bundles is as good as none.
LEMMA PassPull ==
  ASSUME PullInv, gpc \in {"idle", "next"}, NEW pc \in {"idle", "next"}
  PROVE  PullAt(pull, pc)
BY DEF PullInv, PullAt

LEMMA PassStep ==
  ASSUME GamesAssumption, FetchInv, StartPass \/ EndPass \/ SkipBundle
  PROVE  FetchInv'
<1>1. /\ gpc \in {"idle", "next"} /\ gpc' \in {"idle", "next"}
      /\ UNCHANGED <<pull, archive, attempts, known, edition>>
  BY DEF StartPass, EndPass, SkipBundle
<1>2. FetchTypeOK'
  BY <1>1 DEF StartPass, EndPass, SkipBundle, FetchInv, FetchTypeOK, FetchPcs
<1>3. PullAt(pull, gpc')
  BY <1>1, PassPull DEF FetchInv
<1>4. PICK p, pc : p = pull /\ pc = gpc'
  OBVIOUS
<1> QED BY <1>1, <1>2, <1>3, <1>4, QuietMove

\* A pull with some of its fields replaced.
LostWith(x, got, out) == [x EXCEPT !.got = got, !.outcome = out]

LEMMA LostChange ==
  ASSUME NEW x, IsPull(x), NEW got, NEW out, NEW y, y = LostWith(x, got, out)
  PROVE  /\ IsPull(y) /\ y.ns = x.ns /\ y.owner = x.owner
         /\ y.docs = x.docs /\ y.outcome = out /\ y.got = got
<1>1. PICK a, c, l, k, d, m, o, g :
        x = [ns |-> a, owner |-> c, left |-> l, asked |-> k, docs |-> d, mapped |-> m, outcome |-> o, got |-> g]
  BY DEF IsPull
<1>2. y = [[ns |-> a, owner |-> c, left |-> l, asked |-> k, docs |-> d, mapped |-> m, outcome |-> o, got |-> g]
             EXCEPT !.got = got, !.outcome = out]
  BY <1>1 DEF LostWith
<1> QED BY <1>1, <1>2 DEF IsPull

AskedWith(x, asked, got) == [x EXCEPT !.asked = asked, !.got = got]

LEMMA AskedChange ==
  ASSUME NEW x, IsPull(x), NEW asked, NEW got, NEW y, y = AskedWith(x, asked, got)
  PROVE  /\ IsPull(y) /\ y.ns = x.ns /\ y.owner = x.owner
         /\ y.docs = x.docs /\ y.outcome = x.outcome /\ y.got = got
<1>1. PICK a, c, l, k, d, m, o, g :
        x = [ns |-> a, owner |-> c, left |-> l, asked |-> k, docs |-> d, mapped |-> m, outcome |-> o, got |-> g]
  BY DEF IsPull
<1>2. y = [[ns |-> a, owner |-> c, left |-> l, asked |-> k, docs |-> d, mapped |-> m, outcome |-> o, got |-> g]
             EXCEPT !.asked = asked, !.got = got]
  BY <1>1 DEF AskedWith
<1> QED BY <1>1, <1>2 DEF IsPull

KeptWith(x, got, docs, mapped) == [x EXCEPT !.got = got, !.docs = docs, !.mapped = mapped]

LEMMA KeptChange ==
  ASSUME NEW x, IsPull(x), NEW got, NEW docs, NEW mapped, NEW y, y = KeptWith(x, got, docs, mapped)
  PROVE  /\ IsPull(y) /\ y.ns = x.ns /\ y.owner = x.owner
         /\ y.docs = docs /\ y.outcome = x.outcome /\ y.got = got
<1>1. PICK a, c, l, k, d, m, o, g :
        x = [ns |-> a, owner |-> c, left |-> l, asked |-> k, docs |-> d, mapped |-> m, outcome |-> o, got |-> g]
  BY DEF IsPull
<1>2. y = [[ns |-> a, owner |-> c, left |-> l, asked |-> k, docs |-> d, mapped |-> m, outcome |-> o, got |-> g]
             EXCEPT !.got = got, !.docs = docs, !.mapped = mapped]
  BY <1>1 DEF KeptWith
<1> QED BY <1>1, <1>2 DEF IsPull

LEMMA MappingFacts ==
  ASSUME GamesAssumption, NEW ns \in Namespaces, NEW o \in Bundles \cup {Nothing}, NEW bs,
         o # Nothing => \E e \in Events : ns = Keyed(e)
  PROVE  PullAt(Mapping(ns, o, bs), "map")
<1> DEFINE p == Mapping(ns, o, bs)
<1>0. PICK k, nil, none : k = SetToSeq(TickersOf[Head(bs)]) /\ nil = <<>> /\ none = {}
  OBVIOUS
<1>a. p = [[ns |-> Nothing, owner |-> Nothing, left |-> nil, asked |-> nil, docs |-> nil, mapped |-> none,
            outcome |-> Nothing, got |-> nil] EXCEPT !.ns = ns, !.owner = o, !.left = bs, !.asked = k]
  BY <1>0, Zenon DEF Mapping, NoPull
<1>1. /\ IsPull(p) /\ p.ns = ns /\ p.owner = o /\ p.outcome = Nothing /\ p.docs = nil /\ p.got = nil
  BY <1>a DEF IsPull
<1>2. Nothing # "complete"
  BY BundleFacts
<1> HIDE DEF p
<1>3. nil \in Seq(Nat)
  BY <1>0
<1>4. PullAt(p, "map")
  BY <1>1, <1>2, <1>3 DEF PullAt, Ends
<1> QED BY <1>4 DEF p

LEMMA StartBundleStep ==
  ASSUME GamesAssumption, FetchInv, StartBundle
  PROVE  FetchInv'
<1>1. PICK b \in Bundles : b = BundleOrder[at]
  <2>1. BundleOrder \in Seq(DOMAIN EventOf) /\ at \in Nat \ {0} /\ at <= Len(BundleOrder)
    BY DEF StartBundle, FetchInv, FetchTypeOK, GamesAssumption
  <2>2. at \in 1..Len(BundleOrder)
    BY <2>1
  <2> QED BY <2>2, BundleFacts
<1>2. PICK e \in Events : e = EventOf[b]
  BY BundleFacts
<1>3. /\ gpc = "next" /\ known' = [known EXCEPT ![b] = e]
      /\ \/ gpc' = "map" /\ pull' = Mapping(Keyed(e), b, <<b>>) /\ UNCHANGED at
         \/ at' = at + 1 /\ UNCHANGED <<gpc, pull>>
      /\ UNCHANGED <<hour, attempted, archive, attempts, edition, mishaps>>
  BY <1>1, <1>2 DEF StartBundle
<1>4. FetchTypeOK'
  BY <1>3 DEF FetchInv, FetchTypeOK, FetchPcs
<1>5. PullAt(pull', gpc')
  <2>1. CASE gpc' = "map" /\ pull' = Mapping(Keyed(e), b, <<b>>)
    <3>1. PullAt(Mapping(Keyed(e), b, <<b>>), "map")
      BY NamespaceFacts, MappingFacts
    <3> QED BY <2>1, <3>1
  <2>2. CASE UNCHANGED <<gpc, pull>>
    BY <2>2 DEF FetchInv, PullInv
  <2> QED BY <1>3, <2>1, <2>2
<1>6. PICK p, pc : p = pull' /\ pc = gpc'
  OBVIOUS
<1> QED BY <1>3, <1>4, <1>5, <1>6, QuietMove

LEMMA StartPullStep ==
  ASSUME GamesAssumption, FetchInv, StartPull
  PROVE  FetchInv'
<1>1. PICK e \in Events : pull' = Mapping(Legacy(e), Nothing, BundlesOf(e))
  BY DEF StartPull
<1>2. gpc' = "map" /\ UNCHANGED <<hour, at, attempted, archive, attempts, known, edition, mishaps>>
  BY DEF StartPull
<1>3. PullAt(Mapping(Legacy(e), Nothing, BundlesOf(e)), "map")
  BY NamespaceFacts, MappingFacts
<1>4. FetchTypeOK'
  BY <1>2 DEF FetchInv, FetchTypeOK, FetchPcs
<1>5. PICK p, pc : p = pull' /\ pc = gpc'
  OBVIOUS
<1> QED BY <1>1, <1>2, <1>3, <1>4, <1>5, QuietMove

\* What becomes of a pull when a bundle is mapped or given up.
LEMMA NextBundleFacts ==
  ASSUME NEW p, IsPull(p)
  PROVE  LET q == NextBundle(p)
         IN  /\ IsPull(q) /\ q.ns = p.ns /\ q.owner = p.owner /\ q.docs = p.docs
             /\ q.outcome = p.outcome /\ q.got = p.got
<1>1. PICK r : r = p
  OBVIOUS
<1>2. CASE Len(p.left) = 1
  BY <1>2 DEF NextBundle, IsPull
<1>3. CASE Len(p.left) # 1
  BY <1>3 DEF NextBundle, IsPull
<1> QED BY <1>2, <1>3

LEMMA MapFailsStep ==
  ASSUME GamesAssumption, FetchInv, MapFails
  PROVE  FetchInv'
<1>1. PICK reason \in {"fetch_failed", "no_milestone"} :
         pull' = NextBundle([pull EXCEPT !.got = <<>>, !.outcome = reason])
  BY DEF MapFails
<1>2. gpc = "map" /\ UNCHANGED <<hour, gpc, at, attempted, archive, attempts, known, edition>>
  BY DEF MapFails
<1>3. PICK x : x = pull
  OBVIOUS
<1>4. PullAt(x, "map")
  BY <1>2, <1>3 DEF FetchInv, PullInv
<1>a. PICK y : y = LostWith(x, <<>>, reason)
  OBVIOUS
<1>5. IsPull(x)
  BY <1>4 DEF PullAt
<1>6. /\ IsPull(y) /\ y.ns = x.ns /\ y.owner = x.owner /\ y.docs = x.docs
      /\ y.outcome = reason /\ y.got = <<>>
  BY <1>5, <1>a, LostChange
<1>7. PICK q : q = NextBundle(y)
  OBVIOUS
<1>8. /\ IsPull(q) /\ q.ns = x.ns /\ q.owner = x.owner /\ q.docs = x.docs
      /\ q.outcome = reason /\ q.got = <<>>
  BY <1>6, <1>7, NextBundleFacts
<1>9. PullAt(q, "map")
  BY <1>4, <1>8 DEF PullAt, Ends, Retried
<1>10. FetchTypeOK'
  BY <1>2 DEF FetchInv, FetchTypeOK
<1>11. pull' = q /\ gpc' = "map"
  BY <1>1, <1>2, <1>3, <1>a, <1>7 DEF LostWith
<1> QED BY <1>2, <1>9, <1>10, <1>11, QuietMove

LEMMA MapAnswerStep ==
  ASSUME GamesAssumption, FetchInv, MapAnswer
  PROVE  FetchInv'
<1>1. gpc = "map" /\ UNCHANGED <<hour, gpc, at, attempted, archive, attempts, known, edition>>
  BY DEF MapAnswer
<1>2. PICK x : x = pull
  OBVIOUS
<1>3. PullAt(x, "map")
  BY <1>1, <1>2 DEF FetchInv, PullInv
<1>4. IsPull(x) /\ x.got \in Seq(Nat) /\ x.docs \in Seq(Nat) /\ edition \in Nat
  BY <1>3 DEF PullAt, FetchInv, FetchTypeOK
<1>5. PICK g \in Seq(Nat) : g = Append(x.got, edition)
  <2>1. PICK h \in Seq(Nat), n \in Nat : h = x.got /\ n = edition
    BY <1>4
  <2>2. Append(h, n) \in Seq(Nat)
    OBVIOUS
  <2> QED BY <2>1, <2>2
<1>6. PICK k, y : k = Tail(x.asked) /\ y = AskedWith(x, k, g)
  OBVIOUS
<1>7. /\ IsPull(y) /\ y.ns = x.ns /\ y.owner = x.owner /\ y.docs = x.docs
      /\ y.outcome = x.outcome /\ y.got = g
  BY <1>4, <1>6, AskedChange
<1>8. PICK b, d, m : b = Head(x.left) /\ d = y.docs \o g /\ m = y.mapped \cup {b}
  OBVIOUS
<1>a. PICK lost, kept : /\ lost = LostWith(y, <<>>, "fetch_failed")
                        /\ kept = KeptWith(y, <<>>, d, m)
  OBVIOUS
<1>9. pull' = y \/ pull' = NextBundle(lost) \/ pull' = NextBundle(kept)
  <2>1. y = [pull EXCEPT !.asked = Tail(@), !.got = Append(@, edition)]
    BY <1>2, <1>5, <1>6 DEF AskedWith
  <2>2. \/ pull' = y
        \/ pull' = NextBundle([y EXCEPT !.got = <<>>, !.outcome = "fetch_failed"])
        \/ pull' = NextBundle([y EXCEPT !.got = <<>>, !.docs = @ \o y.got, !.mapped = @ \cup {b}])
    BY <1>2, <1>8, <2>1 DEF MapAnswer
  <2> QED BY <1>7, <1>8, <1>a, <2>2 DEF LostWith, KeptWith
<1>10. /\ IsPull(lost) /\ lost.ns = y.ns /\ lost.owner = y.owner /\ lost.docs = y.docs
       /\ lost.outcome = "fetch_failed" /\ lost.got = <<>>
  BY <1>7, <1>a, LostChange
<1>11. /\ IsPull(kept) /\ kept.ns = y.ns /\ kept.owner = y.owner /\ kept.docs = d
       /\ kept.outcome = y.outcome /\ kept.got = <<>>
  BY <1>7, <1>a, KeptChange
<1>12. d \in Seq(Nat)
  <2>1. PICK h \in Seq(Nat) : h = y.docs
    BY <1>4, <1>7
  <2>2. h \o g \in Seq(Nat)
    OBVIOUS
  <2> QED BY <1>8, <2>1, <2>2
<1>13. PICK q, lq, kq : q = pull' /\ lq = NextBundle(lost) /\ kq = NextBundle(kept)
  OBVIOUS
<1>b. /\ IsPull(lq) /\ lq.ns = lost.ns /\ lq.owner = lost.owner /\ lq.docs = lost.docs
      /\ lq.outcome = lost.outcome /\ lq.got = lost.got
  BY <1>10, <1>13, NextBundleFacts, Zenon
<1>c. /\ IsPull(kq) /\ kq.ns = kept.ns /\ kq.owner = kept.owner /\ kq.docs = kept.docs
      /\ kq.outcome = kept.outcome /\ kq.got = kept.got
  BY <1>11, <1>13, NextBundleFacts, Zenon
<1>14. /\ IsPull(q) /\ q.ns = x.ns /\ q.owner = x.owner /\ q.docs \in Seq(Nat)
       /\ q.outcome \in {x.outcome, "fetch_failed"} /\ q.got \in Seq(Nat)
  <2>1. CASE q = y
    BY <2>1, <1>4, <1>5, <1>7
  <2>2. CASE q = lq
    BY <2>2, <1>4, <1>7, <1>10, <1>b
  <2>3. CASE q = kq
    BY <2>3, <1>7, <1>11, <1>12, <1>c
  <2> QED BY <1>9, <1>13, <2>1, <2>2, <2>3
<1>15. PullAt(q, "map")
  BY <1>3, <1>14 DEF PullAt, Ends, Retried
<1>16. FetchTypeOK'
  BY <1>1 DEF FetchInv, FetchTypeOK
<1>17. pull' = q /\ gpc' = "map"
  BY <1>1, <1>13
<1> QED BY <1>1, <1>15, <1>16, <1>17, QuietMove

LEMMA MappedStep ==
  ASSUME GamesAssumption, FetchInv, Mapped
  PROVE  FetchInv'
<1>1. /\ gpc = "map" /\ gpc' \in {"record", "probe"}
      /\ UNCHANGED <<hour, at, attempted, pull, archive, attempts, known, edition, mishaps>>
  BY DEF Mapped
<1>2. PICK p, pc : p = pull /\ pc = gpc'
  OBVIOUS
<1>3. PullAt(p, pc)
  BY <1>1, <1>2 DEF FetchInv, PullInv, PullAt
<1>4. FetchTypeOK'
  BY <1>1 DEF FetchInv, FetchTypeOK, FetchPcs
<1> QED BY <1>1, <1>2, <1>3, <1>4, QuietMove

\* A pull whose verdict is known.
LEMMA VerdictFacts ==
  ASSUME FetchInv, gpc \in FetchPcs \ {"idle", "next"}, NEW o \in Ends,
         o = "complete" => ExistingComplete(pull.ns)
  PROVE  PullAt([pull EXCEPT !.outcome = o], "record")
<1>1. PICK x : x = pull
  OBVIOUS
<1>2. PullAt(x, gpc) /\ IsPull(x)
  BY <1>1 DEF FetchInv, PullInv, PullAt
<1> DEFINE y == [x EXCEPT !.outcome = o]
<1>3. IsPull(y) /\ y.ns = x.ns /\ y.owner = x.owner /\ y.docs = x.docs /\ y.outcome = o
  BY <1>2 DEF IsPull
<1> HIDE DEF y
<1>4. PullAt(y, "record")
  BY <1>1, <1>2, <1>3 DEF PullAt
<1> QED BY <1>1, <1>4 DEF y

LEMMA SkipStep ==
  ASSUME GamesAssumption, FetchInv, Skip
  PROVE  FetchInv'
<1>1. /\ gpc = "probe" /\ ExistingComplete(pull.ns) /\ gpc' = "record"
      /\ pull' = [pull EXCEPT !.outcome = "complete"]
      /\ UNCHANGED <<hour, at, attempted, archive, attempts, known, edition, mishaps>>
  BY DEF Skip
<1>2. "complete" \in Ends /\ gpc \in FetchPcs \ {"idle", "next"}
  BY <1>1 DEF Ends, FetchPcs
<1>3. PullAt([pull EXCEPT !.outcome = "complete"], "record")
  BY <1>1, <1>2, VerdictFacts
<1>4. FetchTypeOK'
  BY <1>1 DEF FetchInv, FetchTypeOK, FetchPcs
<1>5. PICK p, pc : p = pull' /\ pc = gpc'
  OBVIOUS
<1> QED BY <1>1, <1>3, <1>4, <1>5, QuietMove

LEMMA StoreFailsStep ==
  ASSUME GamesAssumption, FetchInv, StoreFails
  PROVE  FetchInv'
<1>1. PICK o \in {"timeline_failed", "fetch_failed"} :
        /\ gpc \in {"probe", "fetched", "responses", "receipt"} /\ gpc' = "record"
        /\ pull' = [pull EXCEPT !.outcome = o]
        /\ UNCHANGED <<hour, at, attempted, archive, attempts, known, edition>>
  BY DEF StoreFails
<1>2. o \in Ends /\ o # "complete" /\ gpc \in FetchPcs \ {"idle", "next"}
  BY <1>1 DEF Ends, FetchPcs, Retried
<1>3. PullAt([pull EXCEPT !.outcome = o], "record")
  BY <1>1, <1>2, VerdictFacts
<1>4. FetchTypeOK'
  BY <1>1 DEF FetchInv, FetchTypeOK, FetchPcs
<1>5. PICK p, pc : p = pull' /\ pc = gpc'
  OBVIOUS
<1> QED BY <1>1, <1>3, <1>4, <1>5, QuietMove

LEMMA FetchAllStep ==
  ASSUME GamesAssumption, FetchInv, FetchAll
  PROVE  FetchInv'
<1>1. PICK got \in [Urls(pull.ns) -> Answers] : pull' = [pull EXCEPT !.got = got]
  BY DEF FetchAll
<1>2. /\ gpc = "probe" /\ ~ExistingComplete(pull.ns) /\ gpc' = "fetched"
      /\ UNCHANGED <<hour, at, attempted, archive, attempts, known, edition>>
  BY DEF FetchAll
<1>3. PICK x : x = pull
  OBVIOUS
<1>4. PullAt(x, "probe") /\ IsPull(x)
  BY <1>2, <1>3 DEF FetchInv, PullInv, PullAt
<1>5. PICK y : y = [x EXCEPT !.got = got]
  OBVIOUS
<1>6. /\ IsPull(y) /\ y.ns = x.ns /\ y.owner = x.owner /\ y.docs = x.docs /\ y.outcome = x.outcome
      /\ y.got = got
  BY <1>4, <1>5 DEF IsPull
<1>7. PullAt(y, "fetched")
  BY <1>1, <1>2, <1>3, <1>4, <1>6 DEF PullAt
<1>8. FetchTypeOK'
  BY <1>2 DEF FetchInv, FetchTypeOK, FetchPcs
<1>9. pull' = y
  BY <1>1, <1>3, <1>5
<1> QED BY <1>2, <1>7, <1>8, <1>9, QuietMove

LEMMA EndPullStep ==
  ASSUME GamesAssumption, FetchInv, Report \/ KillPull
  PROVE  FetchInv'
<1>1. /\ gpc' = "idle" /\ pull' = NoPull
      /\ UNCHANGED <<hour, at, attempted, archive, attempts, known, edition>>
  BY DEF Report, KillPull
<1>2. PullAt(NoPull, "idle")
  BY NoPullIsIdle
<1>3. FetchTypeOK'
  BY <1>1 DEF FetchInv, FetchTypeOK, FetchPcs
<1>4. PICK p, pc : p = pull' /\ pc = gpc'
  OBVIOUS
<1> QED BY <1>1, <1>2, <1>3, <1>4, QuietMove

LEMMA EditStep ==
  ASSUME GamesAssumption, FetchInv, EditMilestone
  PROVE  FetchInv'
<1>1. edition' = edition + 1 /\ UNCHANGED <<hour, gpc, at, attempted, pull, archive, attempts, known>>
  BY DEF EditMilestone
<1>2. FetchTypeOK'
  BY <1>1 DEF FetchInv, FetchTypeOK
<1>3. PICK p, pc : p = pull /\ pc = gpc
  OBVIOUS
<1>4. PullAt(p, pc)
  BY <1>3 DEF FetchInv, PullInv
<1> QED BY <1>1, <1>2, <1>3, <1>4, QuietMove

LEMMA LoseLedgerStep ==
  ASSUME GamesAssumption, FetchInv, LoseLedger
  PROVE  FetchInv'
<1>1. /\ attempts' = <<>> /\ known' = [b \in Bundles |-> Nothing]
      /\ UNCHANGED <<hour, gpc, at, attempted, pull, archive, edition>>
  BY DEF LoseLedger
<1>2. FetchTypeOK'
  BY <1>1 DEF FetchInv, FetchTypeOK
<1>3. AttemptsInv'
  BY <1>1 DEF AttemptsInv
<1>4. PICK p, pc : p = pull /\ pc = gpc
  OBVIOUS
<1>5. PullAt(p, pc)
  BY <1>4 DEF FetchInv, PullInv
<1> QED BY <1>1, <1>2, <1>3, <1>4, <1>5, MoveOn

\* The row of an attempt: complete only when the archive is whole.
LEMMA RowStep ==
  ASSUME GamesAssumption, FetchInv, NEW e \in Events \cup {Nothing}, NEW b \in Bundles, NEW o \in Ends,
         o = "complete" => e \in Events /\ ExistingComplete(Keyed(e)),
         Row(e, b, o), UNCHANGED <<hour, archive, known, edition>>
  PROVE  FetchInv'
<1> DEFINE row == [event |-> e, bundle |-> b, hour |-> hour, outcome |-> o]
<1>1. /\ attempts' = Append(attempts, row) /\ attempted' = attempted + 1 /\ at' = at + 1
      /\ gpc' \in {"idle", "next"} /\ pull' = NoPull
  BY DEF Row, Append1
<1>2. row \in AttemptRow /\ row.event = e /\ row.outcome = o /\ attempts \in Seq(AttemptRow)
  BY DEF FetchInv, FetchTypeOK, AttemptRow
<1> HIDE DEF row
<1>3. /\ attempts' \in Seq(AttemptRow) /\ DOMAIN attempts' = DOMAIN attempts \cup {Len(attempts) + 1}
      /\ attempts'[Len(attempts) + 1] = row /\ \A i \in DOMAIN attempts : attempts'[i] = attempts[i]
  BY <1>1, <1>2
<1>4. FetchTypeOK'
  BY <1>1, <1>3 DEF FetchInv, FetchTypeOK, FetchPcs
<1>5. AttemptsInv'
  <2> SUFFICES ASSUME NEW i \in DOMAIN attempts', attempts'[i].outcome = "complete"
               PROVE  \E f \in Events : attempts'[i].event = f /\ ExistingComplete(Keyed(f))'
    BY DEF AttemptsInv
  <2>1. \E f \in Events : attempts'[i].event = f /\ ExistingComplete(Keyed(f))
    BY <1>2, <1>3 DEF FetchInv, AttemptsInv
  <2> QED BY <2>1, ArchiveStays
<1>6. PICK p, pc : p = pull' /\ pc = gpc'
  OBVIOUS
<1>7. PullAt(p, pc)
  BY <1>1, <1>6, NoPullIsIdle
<1> QED BY <1>4, <1>5, <1>6, <1>7, MoveOn

LEMMA ResolveFailsStep ==
  ASSUME GamesAssumption, FetchInv, ResolveFails
  PROVE  FetchInv'
<1>1. PICK b \in Bundles : b = BundleOrder[at]
  <2>1. BundleOrder \in Seq(DOMAIN EventOf) /\ at \in Nat \ {0} /\ at <= Len(BundleOrder)
    BY DEF ResolveFails, FetchInv, FetchTypeOK, GamesAssumption
  <2>2. at \in 1..Len(BundleOrder)
    BY <2>1
  <2> QED BY <2>2, BundleFacts
<1>2. Row(Nothing, b, "unavailable") /\ UNCHANGED <<hour, archive, known, edition>>
  BY <1>1 DEF ResolveFails
<1>3. "unavailable" \in Ends
  BY DEF Ends, Retried
<1> QED BY <1>2, <1>3, RowStep

LEMMA RecordStep ==
  ASSUME GamesAssumption, FetchInv, Record
  PROVE  FetchInv'
<1>1. PullAt(pull, "record") /\ pull.owner # Nothing
  BY DEF Record, FetchInv, PullInv
<1>2. PICK e \in Events : pull.ns = Keyed(e)
  BY <1>1 DEF PullAt
<1>3. pull.ns[2] = e
  BY <1>2, NamespaceFacts
<1>4. Row(e, pull.owner, pull.outcome) /\ UNCHANGED <<hour, archive, known, edition>>
  BY <1>3 DEF Record
<1>5. pull.owner \in Bundles /\ pull.outcome \in Ends /\ (pull.outcome = "complete" => ExistingComplete(Keyed(e)))
  BY <1>1, <1>2 DEF PullAt
<1> QED BY <1>4, <1>5, RowStep

-----------------------------------------------------------------------------
(* The steps that write to the archive                                     *)

LEMMA PutResponsesStep ==
  ASSUME GamesAssumption, FetchInv, PutResponses
  PROVE  FetchInv'
<1>1. /\ gpc = "fetched" /\ gpc' = "responses"
      /\ UNCHANGED <<hour, at, attempted, pull, attempts, known, edition>>
  BY DEF PutResponses
<1>2. PICK x : x = pull
  OBVIOUS
<1>3. PullAt(x, "fetched")
  BY <1>1, <1>2 DEF FetchInv, PullInv
<1>4. /\ x.ns \in Namespaces /\ x.docs \in Seq(Nat) /\ x.got \in Gots
      /\ x.got \in [Urls(x.ns) -> Answers] /\ ~ExistingComplete(x.ns)
  BY <1>3 DEF PullAt, Gots
<1>5. PICK f : f = [ns |-> x.ns, docs |-> x.docs, got |-> x.got, receipt |-> FALSE, timeline |-> FALSE]
  OBVIOUS
<1>6. f \in Fetch /\ f.ns = x.ns /\ f.receipt = FALSE
  BY <1>4, <1>5 DEF Fetch
<1>7. PICK n \in Nat : n = Len(archive)
  BY DEF FetchInv, FetchTypeOK
<1>8. /\ archive' \in Seq(Fetch) /\ DOMAIN archive' = 1..(n + 1) /\ DOMAIN archive = 1..n
      /\ Len(archive') = n + 1 /\ archive'[n + 1] = f /\ \A i \in 1..n : archive'[i] = archive[i]
  <2>1. archive' = Append(archive, f) /\ archive \in Seq(Fetch)
    BY <1>2, <1>5 DEF PutResponses, FetchInv, FetchTypeOK
  <2> QED BY <1>6, <1>7, <2>1
<1>9. FetchTypeOK'
  BY <1>1, <1>8 DEF FetchInv, FetchTypeOK, FetchPcs
<1>10. Accrues
  BY <1>8 DEF Accrues
<1>11. AttemptsInv'
  BY <1>1, <1>10, AttemptsStay DEF FetchInv
<1>12. ArchivedIsNotRefetched'
  <2> SUFFICES ASSUME NEW ns \in Namespaces, NEW i \in 1..(n + 1), NEW j \in 1..(n + 1),
                      archive'[i].ns = ns, archive'[j].ns = ns, Sound(archive'[i])
               PROVE  j <= i
    BY <1>8 DEF ArchivedIsNotRefetched, Fetches, Namespaces
  <2>1. i # n + 1
    BY <1>6, <1>8 DEF Sound
  <2>2. i \in 1..n /\ archive[i].ns = ns /\ Sound(archive[i]) /\ archive[i].receipt
    BY <1>8, <2>1 DEF Sound
  <2>3. CASE j = n + 1
    <3>1. ns = x.ns
      BY <1>6, <1>8, <2>3
    <3>2. ExistingComplete(ns)
      BY <1>8, <2>2 DEF ExistingComplete, Receipted, Fetches
    <3> QED BY <1>4, <3>1, <3>2
  <2>4. CASE j # n + 1
    <3>1. j \in 1..n /\ archive[j].ns = ns
      BY <1>8, <2>4
    <3> QED BY <1>8, <2>2, <3>1 DEF FetchInv, ArchivedIsNotRefetched, Fetches, Namespaces
  <2> QED BY <2>3, <2>4
<1>13. ~ExistingComplete(x.ns)'
  <2> SUFFICES ASSUME NEW i \in 1..(n + 1), archive'[i].ns = x.ns, archive'[i].receipt, Sound(archive'[i])
               PROVE  FALSE
    BY <1>8 DEF ExistingComplete, Receipted, Fetches
  <2>1. i \in 1..n /\ archive'[i] = archive[i]
    BY <1>6, <1>8
  <2> QED BY <1>4, <1>8, <2>1 DEF ExistingComplete, Receipted, Fetches
<1>14. archive' # <<>> /\ archive'[Len(archive')].ns = x.ns
  BY <1>6, <1>8
<1>15. PullInv'
  BY <1>1, <1>2, <1>3, <1>13, <1>14 DEF PullInv, PullAt
<1> QED BY <1>9, <1>11, <1>12, <1>15 DEF FetchInv

\* A fetch is written once more: its receipt or its timeline is added.
Finishes(n) ==
    /\ n \in DOMAIN archive /\ archive' \in Seq(Fetch) /\ DOMAIN archive' = DOMAIN archive
    /\ Len(archive') = Len(archive)
    /\ \A i \in DOMAIN archive : i # n => archive'[i] = archive[i]
    /\ archive'[n].ns = archive[n].ns /\ archive'[n].docs = archive[n].docs
    /\ archive'[n].got = archive[n].got
    /\ archive[n].receipt => archive'[n].receipt
    /\ archive'[n].receipt => archive[n].receipt \/ n = Len(archive)

LEMMA FinishFacts ==
  ASSUME FetchTypeOK, NEW n \in DOMAIN archive
  PROVE  /\ archive' = [archive EXCEPT ![n].receipt = TRUE] /\ n = Len(archive)
              => Finishes(n) /\ archive'[n].receipt
         /\ archive' = [archive EXCEPT ![n].timeline = TRUE]
              => Finishes(n) /\ archive'[n].receipt = archive[n].receipt
<1>1. archive \in Seq(Fetch)
  BY DEF FetchTypeOK
<1>2. PICK f \in Fetch : f = archive[n]
  BY <1>1
<1>3. PICK g : g = [f EXCEPT !.receipt = TRUE]
  OBVIOUS
<1>4. PICK h : h = [f EXCEPT !.timeline = TRUE]
  OBVIOUS
<1>a. g \in Fetch /\ g.ns = f.ns /\ g.docs = f.docs /\ g.got = f.got /\ g.receipt = TRUE
  BY <1>3 DEF Fetch
<1>b. h \in Fetch /\ h.ns = f.ns /\ h.docs = f.docs /\ h.got = f.got /\ h.receipt = f.receipt
  BY <1>4 DEF Fetch
<1>5. ASSUME NEW k \in Fetch, archive' = [archive EXCEPT ![n] = k]
      PROVE  /\ archive' \in Seq(Fetch) /\ DOMAIN archive' = DOMAIN archive /\ Len(archive') = Len(archive)
             /\ archive'[n] = k /\ \A i \in DOMAIN archive : i # n => archive'[i] = archive[i]
  BY <1>1, <1>5
<1>6. ASSUME archive' = [archive EXCEPT ![n].receipt = TRUE], n = Len(archive)
      PROVE  Finishes(n) /\ archive'[n].receipt
  <2>1. archive' = [archive EXCEPT ![n] = g]
    BY <1>2, <1>3, <1>6
  <2> QED BY <1>2, <1>a, <1>5, <1>6, <2>1 DEF Finishes
<1>7. ASSUME archive' = [archive EXCEPT ![n].timeline = TRUE]
      PROVE  Finishes(n) /\ archive'[n].receipt = archive[n].receipt
  <2>1. archive' = [archive EXCEPT ![n] = h]
    BY <1>2, <1>4, <1>7
  <2> QED BY <1>2, <1>b, <1>5, <2>1 DEF Finishes
<1> QED BY <1>6, <1>7

\* Such a write keeps what is whole whole, and makes nothing whole but the newest fetch.
LEMMA FinishKeeps ==
  ASSUME FetchInv, UNCHANGED <<attempts, known, edition, at, attempted, hour>>, gpc' \in FetchPcs,
         NEW n, Finishes(n)
  PROVE  FetchTypeOK' /\ AttemptsInv' /\ ArchivedIsNotRefetched' /\ Accrues
<1>1. FetchTypeOK'
  BY DEF FetchInv, FetchTypeOK, Finishes
<1>2. Accrues
  BY DEF Accrues, Finishes
<1>3. AttemptsInv'
  BY <1>2, AttemptsStay DEF FetchInv
<1>4. ArchivedIsNotRefetched'
  <2> SUFFICES ASSUME NEW ns \in Namespaces, NEW i \in DOMAIN archive, NEW j \in DOMAIN archive,
                      archive'[i].ns = ns, archive'[j].ns = ns, Sound(archive'[i])
               PROVE  j <= i
    BY DEF ArchivedIsNotRefetched, Fetches, Namespaces, Finishes
  <2>1. archive[i].ns = ns /\ archive[j].ns = ns
    BY DEF Finishes
  <2>2. archive'[i].receipt /\ archive'[i].docs = archive[i].docs /\ archive'[i].got = archive[i].got
    BY DEF Finishes, Sound
  <2>3. CASE archive[i].receipt
    <3>1. Sound(archive[i])
      BY <2>2, <2>3 DEF Sound, Disqualified
    <3> QED BY <2>1, <3>1 DEF FetchInv, ArchivedIsNotRefetched, Fetches, Namespaces
  <2>4. CASE ~archive[i].receipt
    <3>1. i = Len(archive)
      BY <2>2, <2>4 DEF Finishes
    <3>2. archive \in Seq(Fetch)
      BY DEF FetchInv, FetchTypeOK
    <3> QED BY <3>1, <3>2
  <2> QED BY <2>3, <2>4
<1> QED BY <1>1, <1>2, <1>3, <1>4

LEMMA PutReceiptStep ==
  ASSUME GamesAssumption, FetchInv, PutReceipt
  PROVE  FetchInv'
<1>1. /\ gpc = "responses" /\ gpc' = "receipt"
      /\ UNCHANGED <<hour, at, attempted, pull, attempts, known, edition>>
  BY DEF PutReceipt
<1>2. PullAt(pull, "responses")
  BY <1>1 DEF FetchInv, PullInv
<1>3. PICK n \in DOMAIN archive : n = Len(archive)
  <2>1. archive \in Seq(Fetch) /\ archive # <<>>
    BY <1>2 DEF PullAt, FetchInv, FetchTypeOK
  <2> QED BY <2>1
<1>4. Finishes(n) /\ archive'[n].receipt
  BY <1>3, FinishFacts DEF PutReceipt, FetchInv
<1>5. "receipt" \in FetchPcs
  BY DEF FetchPcs
<1>6. FetchTypeOK' /\ AttemptsInv' /\ ArchivedIsNotRefetched'
  BY <1>1, <1>4, <1>5, FinishKeeps
<1>7. archive' # <<>> /\ archive'[Len(archive')].ns = pull.ns /\ archive'[Len(archive')].receipt
  BY <1>2, <1>3, <1>4 DEF Finishes, PullAt
<1>8. PullInv'
  BY <1>1, <1>2, <1>7 DEF PullInv, PullAt
<1> QED BY <1>6, <1>8 DEF FetchInv

LEMMA PutTimelineStep ==
  ASSUME GamesAssumption, FetchInv, PutTimeline
  PROVE  FetchInv'
<1>1. /\ gpc = "receipt" /\ gpc' = "record"
      /\ UNCHANGED <<hour, at, attempted, attempts, known, edition>>
  BY DEF PutTimeline
<1>2. PICK x : x = pull
  OBVIOUS
<1>3. PullAt(x, "receipt") /\ IsPull(x)
  BY <1>1, <1>2 DEF FetchInv, PullInv, PullAt
<1>4. PICK n \in DOMAIN archive : n = Len(archive)
  <2>1. archive \in Seq(Fetch) /\ archive # <<>>
    BY <1>3 DEF PullAt, FetchInv, FetchTypeOK
  <2> QED BY <2>1
<1>5. archive[n].ns = x.ns /\ archive[n].receipt
  BY <1>3, <1>4 DEF PullAt
<1>6. Finishes(n)
  BY <1>4, FinishFacts DEF PutTimeline, FetchInv
<1>7. "record" \in FetchPcs
  BY DEF FetchPcs
<1>8. FetchTypeOK' /\ AttemptsInv' /\ ArchivedIsNotRefetched' /\ Accrues
  BY <1>1, <1>6, <1>7, FinishKeeps
<1>9. PICK o : o = Verdict(archive[n])
  OBVIOUS
<1>10. pull' = [x EXCEPT !.outcome = o]
  BY <1>2, <1>4, <1>9 DEF PutTimeline, Last
<1>11. o \in Ends /\ (o = "complete" => Sound(archive[n]))
  BY <1>5, <1>9 DEF Verdict, Ends, Retried, Sound
<1>12. o = "complete" => ExistingComplete(x.ns)'
  <2> HAVE o = "complete"
  <2>1. ExistingComplete(x.ns)
    BY <1>5, <1>11 DEF ExistingComplete, Receipted, Fetches
  <2> QED BY <1>8, <2>1, WholeStays
<1>13. PICK y : y = [x EXCEPT !.outcome = o]
  OBVIOUS
<1>14. IsPull(y) /\ y.ns = x.ns /\ y.owner = x.owner /\ y.docs = x.docs /\ y.outcome = o
  BY <1>3, <1>13 DEF IsPull
<1>15. PullAt(y, "record")'
  BY <1>3, <1>11, <1>12, <1>14 DEF PullAt
<1>16. PullInv'
  BY <1>1, <1>10, <1>13, <1>15 DEF PullInv, PullAt
<1> QED BY <1>8, <1>16 DEF FetchInv

LEMMA RegenerateStep ==
  ASSUME GamesAssumption, FetchInv, Regenerate
  PROVE  FetchInv'
<1>1. gpc = "idle" /\ UNCHANGED <<hour, gpc, at, attempted, pull, attempts, known, edition>>
  BY DEF Regenerate
<1>2. PICK n \in DOMAIN archive : archive' = [archive EXCEPT ![n].timeline = TRUE]
  BY DEF Regenerate
<1>3. Finishes(n)
  BY <1>2, FinishFacts DEF FetchInv
<1>4. "idle" \in FetchPcs
  BY DEF FetchPcs
<1>5. FetchTypeOK' /\ AttemptsInv' /\ ArchivedIsNotRefetched'
  BY <1>1, <1>3, <1>4, FinishKeeps
<1>6. PullInv'
  BY <1>1 DEF FetchInv, PullInv, PullAt
<1> QED BY <1>5, <1>6 DEF FetchInv

-----------------------------------------------------------------------------
(* The theorems about games                                                *)

LEMMA FetchStart ==
  ASSUME GamesAssumption, FetchInit
  PROVE  FetchInv
<1>1. FetchTypeOK
  BY DEF FetchInit, FetchTypeOK, FetchPcs
<1>2. PullInv
  BY NoPullIsIdle DEF FetchInit, PullInv
<1>3. AttemptsInv /\ ArchivedIsNotRefetched
  BY DEF FetchInit, AttemptsInv, ArchivedIsNotRefetched, Fetches
<1> QED BY <1>1, <1>2, <1>3 DEF FetchInv

LEMMA FetchStep ==
  ASSUME GamesAssumption, FetchInv, [FetchNext]_gvars
  PROVE  FetchInv'
<1>1. CASE UNCHANGED gvars
  <2>1. UNCHANGED <<hour, gpc, at, attempted, pull, archive, attempts, known, edition>>
    BY <1>1 DEF gvars
  <2>2. FetchTypeOK'
    BY <2>1 DEF FetchInv, FetchTypeOK
  <2>3. PICK p, pc : p = pull /\ pc = gpc
    OBVIOUS
  <2>4. PullAt(p, pc)
    BY <2>3 DEF FetchInv, PullInv
  <2> QED BY <2>1, <2>2, <2>3, <2>4, QuietMove
<1>2. CASE FetchNext
  BY <1>2, PassStep, StartBundleStep, ResolveFailsStep, MapAnswerStep, MapFailsStep, MappedStep, SkipStep,
     FetchAllStep, PutResponsesStep, PutReceiptStep, PutTimelineStep, StoreFailsStep, RecordStep,
     EndPullStep, StartPullStep, RegenerateStep, LoseLedgerStep, EditStep DEF FetchNext
<1> QED BY <1>1, <1>2

\* A pull fetches only what is not archived whole, what it has so far fits its step, and
\* an attempt the ledger calls complete is whole in the archive, through kills between
\* any two writes, failed stores, lost ledgers and pulls of the command line
\* (execute, run, archive_fetch).
THEOREM FetchInvariance ==
  ASSUME GamesAssumption
  PROVE  FetchSpec => []FetchInv
<1>1. FetchInit => FetchInv
  BY FetchStart
<1>2. FetchInv /\ [FetchNext]_gvars => FetchInv'
  BY FetchStep
<1> QED BY <1>1, <1>2, PTL DEF FetchSpec

\* The newest complete fetch of a game that is whole is the whole one.
LEMMA LatestIsWhole ==
  ASSUME FetchInv, NEW e \in Events, ExistingComplete(Keyed(e))
  PROVE  Receipted(Keyed(e)) # {} /\ ReadFetch(Latest(Keyed(e))) = "ok"
<1> DEFINE ns == Keyed(e)
           C == {i \in Receipted(ns) : Complete(archive[i].got)}
<1>1. PICK i \in Receipted(ns) : Sound(archive[i])
  BY DEF ExistingComplete
<1>2. i \in C
  BY <1>1 DEF Sound
<1>3. PICK n \in Nat : DOMAIN archive = 1..n
  BY DEF FetchInv, FetchTypeOK
<1>4. C \in SUBSET (1..n) /\ C # {}
  BY <1>2, <1>3 DEF Receipted, Fetches
<1>5. Max(C) \in C /\ \A j \in C : j <= Max(C)
  BY <1>3, <1>4, MaxFacts, Zenon
<1>6. Max(C) \in Fetches(ns) /\ i \in Fetches(ns)
  BY <1>1, <1>5 DEF Receipted
<1>7. Max(C) <= i
  BY <1>1, <1>6 DEF FetchInv, ArchivedIsNotRefetched
<1>8. Max(C) = i
  <2>1. PICK m \in 1..n : m = Max(C)
    BY <1>4, <1>5
  <2>2. i <= m /\ m <= i /\ i \in 1..n
    BY <1>2, <1>4, <1>5, <1>7, <2>1
  <2> QED BY <2>1, <2>2
<1>9. Latest(ns) = i
  BY <1>2, <1>8 DEF Latest
<1> QED BY <1>1, <1>9 DEF ReadFetch

LEMMA LedgerIsReadable ==
  ASSUME GamesAssumption, FetchInv
  PROVE  GamesAreKept
<1> SUFFICES ASSUME NEW b \in Bundles, Outcome(EventOf[b], b) = "complete"
             PROVE  ExistingComplete(Keyed(EventOf[b]))
  BY BundleFacts, LatestIsWhole DEF GamesAreKept, CompleteIsReadable, FetchInv
<1>1. PICK e \in Events : e = EventOf[b] /\ e # Nothing
  BY BundleFacts
<1>2. Rows(e, b) # {} /\ Newest(e, b).outcome = "complete"
  BY <1>1, BundleFacts DEF Outcome
<1>3. PICK n \in Nat : DOMAIN attempts = 1..n
  BY DEF FetchInv, FetchTypeOK
<1>4. Rows(e, b) \in SUBSET (1..n)
  BY <1>3 DEF Rows
<1>5. PICK r \in Rows(e, b) : r = Max(Rows(e, b))
  BY <1>2, <1>3, <1>4, MaxFacts, Zenon
<1>6. r \in DOMAIN attempts /\ attempts[r].event = e
  BY <1>1, <1>5 DEF Rows
<1>7. attempts[r].outcome = "complete"
  BY <1>2, <1>5 DEF Newest
<1> QED BY <1>1, <1>6, <1>7 DEF FetchInv, AttemptsInv

\* A game the ledger calls complete has, as the fetch the readers choose, a complete and
\* consistent one, and a game archived whole is not fetched again, for any bundles,
\* events and tickers and any number of mishaps (existing_complete, timeline.latest).
THEOREM GamesKept ==
  ASSUME GamesAssumption
  PROVE  FetchSpec => []GamesAreKept
<1>1. FetchInv => GamesAreKept
  BY LedgerIsReadable
<1> QED BY <1>1, FetchInvariance, PTL

-----------------------------------------------------------------------------
(* A connection: the inductive invariant                                   *)

Times == Nat \cup {Nil}
ConnType ==
    [targets : SUBSET Tickers, sid : BOOLEAN, since : Nat, snapshot : [Tickers -> Times],
     request : [Tickers -> Times], asked : SUBSET Nat, disabled : BOOLEAN, sweep : Nat \ {0},
     lastCheck : Nat, lastSweep : Nat, keys : [Streams -> Times], seen : [Tickers -> Nat]]
VenueType ==
    [subscribe : Nat, snapshots : SUBSET [id : Nat, markets : SUBSET Tickers], seq : [Streams -> Nat]]
FrameType ==
    [type : {"subscribed", "snapshot", "error", "delta", "trade"}, market : Tickers \cup {Nil},
     seq : Nat, skipped : BOOLEAN, id : Nat, code : {"rate", "other", Nil},
     answers : {"subscribe", "snapshot", Nil}]

SpliceTypeOK ==
    /\ now \in Nat /\ wake \in Int /\ attempt \in Nat /\ commands \in Nat
    /\ loop \in {"top", "turn", "recv", "sleep", "stopped"}
    /\ file \in [is : TargetFiles, since : Nat] /\ file.since <= now
    /\ wire = <<>> \/ (loop = "recv" /\ wire[1] \in FrameType /\ wire = <<wire[1]>>)

\* What the poller counts from is the last snapshot recorded on the connection.
SeenInv(c) == \A m \in Tickers : c.seen[m] = IF c.snapshot[m] = Nil THEN c.since ELSE c.snapshot[m]

\* The last sweep is less than a sweep ago, and asked for every book that was quiet then.
SweepInv(c, t, pc) ==
    /\ c.lastSweep <= t /\ (pc = "recv" => t - c.lastSweep < c.sweep)
    /\ ~c.disabled => \A m \in c.targets : c.lastSweep - c.seen[m] >= MaxAge =>
         c.request[m] # Nil /\ (c.request[m] = c.lastSweep \/ c.lastSweep - c.request[m] < Cooldown)

\* The last look at the targets is less than a poll ago, and found them as they are.
PollInv(c, t, pc, f) ==
    /\ c.lastCheck <= t
    /\ pc = "recv" => t - c.lastCheck < TargetPoll \/ c.lastCheck = t
    /\ f.since < c.lastCheck => f.is = Unreadable \/ c.targets = f.is

\* The subscription's command is older than every command of the poller.
IdsInv(c, v, n) ==
    /\ v.subscribe <= n
    /\ \A i \in c.asked : v.subscribe < i
    /\ \A q \in v.snapshots : q.id \in c.asked

\* What was recorded of a stream is what the venue sent, but for the message on the wire.
Fits(c, v, s, f) ==
    /\ f.seq = v.seq[s]
    /\ c.keys[s] # Nil => IF f.skipped THEN c.keys[s] < f.seq - 1 ELSE c.keys[s] = f.seq - 1
Comes(w, s) == w # <<>> /\ Numbered(w[1]) /\ StreamFor(w[1]) = s
KeysInv(c, v, w) ==
    \A s \in Streams : IF Comes(w, s) THEN Fits(c, v, s, w[1])
                                      ELSE c.keys[s] \in {Nil, v.seq[s]}

\* An error on the wire names a command of the poller exactly if it answers one.
WireInv(c, w) ==
    w # <<>> => /\ w[1].type = "snapshot" => w[1].market \in Tickers
                /\ w[1].type = "error" => (w[1].answers = "subscribe" <=> w[1].id \notin c.asked)

OpenInv(c, v, w, pc, t, f, n) ==
    /\ c \in ConnType /\ v \in VenueType
    /\ SeenInv(c) /\ SweepInv(c, t, pc) /\ PollInv(c, t, pc, f)
    /\ IdsInv(c, v, n) /\ KeysInv(c, v, w) /\ WireInv(c, w)

SpliceInv ==
    /\ SpliceTypeOK /\ LossIsProven
    /\ loop \in {"turn", "recv"} => OpenInv(conn, venue, wire, loop, now, file, commands)

-----------------------------------------------------------------------------
(* Facts about the operators of SpliceConnection                           *)

LEMMA DelayFacts ==
  ASSUME SpliceAssumption, NEW n \in Nat
  PROVE  Delay(n) \in Int
<1>1. n > 1 => 2 ^ (n - 1) \in Int
  OBVIOUS
<1>2. PICK p : p = 2 ^ (n - 1)
  OBVIOUS
<1> QED BY <1>1, <1>2 DEF Delay, Least, SpliceAssumption

LEMMA OpenedFacts ==
  ASSUME SpliceAssumption, now \in Nat, NEW ts \in SUBSET Tickers
  PROVE  LET c == Opened(ts)
         IN  /\ c \in ConnType /\ c.targets = ts /\ c.asked = {} /\ c.lastCheck = now
             /\ c.lastSweep = now /\ c.since = now
             /\ \A m \in Tickers : c.snapshot[m] = Nil /\ c.seen[m] = now
             /\ \A s \in Streams : c.keys[s] = Nil
BY DEF Opened, ConnType, Times, SpliceAssumption

\* What a turn leaves of the connection c.
Turned(d, c) ==
    /\ d \in ConnType /\ d.targets = c.targets /\ d.since = c.since /\ d.snapshot = c.snapshot
    /\ d.sweep = c.sweep /\ d.keys = c.keys /\ d.seen = c.seen
    /\ d.lastCheck = (IF CheckDue(c) THEN now ELSE c.lastCheck)
    /\ d.lastSweep = (IF SweepDue(c) THEN now ELSE c.lastSweep)

LEMMA SweptFacts ==
  ASSUME now \in Nat, NEW c \in ConnType
  PROVE  LET d == Swept(Checked(c))
         IN  Turned(d, c) /\ d.disabled = c.disabled /\ d.request = c.request /\ d.asked = c.asked
<1>1. PICK e : e = Checked(c)
  OBVIOUS
<1>2. /\ e \in ConnType /\ e.targets = c.targets /\ e.since = c.since /\ e.snapshot = c.snapshot
      /\ e.sweep = c.sweep /\ e.keys = c.keys /\ e.seen = c.seen
      /\ e.lastCheck = (IF CheckDue(c) THEN now ELSE c.lastCheck) /\ e.lastSweep = c.lastSweep
      /\ e.disabled = c.disabled /\ e.request = c.request /\ e.asked = c.asked
  BY <1>1 DEF Checked, ConnType
<1>3. PICK d : d = Swept(e)
  OBVIOUS
<1>4. /\ d \in ConnType /\ d.targets = e.targets /\ d.since = e.since /\ d.snapshot = e.snapshot
      /\ d.sweep = e.sweep /\ d.keys = e.keys /\ d.seen = e.seen
      /\ d.lastSweep = (IF SweepDue(e) THEN now ELSE e.lastSweep) /\ d.lastCheck = e.lastCheck
      /\ d.disabled = e.disabled /\ d.request = e.request /\ d.asked = e.asked
  BY <1>2, <1>3 DEF Swept, ConnType
<1>5. SweepDue(e) <=> SweepDue(c)
  BY <1>2 DEF SweepDue
<1> QED BY <1>1, <1>2, <1>3, <1>4, <1>5 DEF Turned

-----------------------------------------------------------------------------
(* The steps of the loop                                                   *)

\* No connection is left, or none was there.
LEMMA ClosedStep ==
  ASSUME SpliceInv, loop' \in {"top", "sleep", "stopped"}, wire' = <<>>, UNCHANGED <<file, commands>>,
         now' \in Nat, now' >= now, wake' \in Int, attempt' \in Nat, LossIsProven'
  PROVE  SpliceInv'
<1>1. SpliceTypeOK'
  BY DEF SpliceInv, SpliceTypeOK
<1> QED BY <1>1 DEF SpliceInv

LEMMA WaitStep ==
  ASSUME SpliceAssumption, SpliceInv, Fatal \/ AwaitTargets \/ ConnectFails \/ Sleep
  PROVE  SpliceInv'
<1>1. /\ loop \in {"top", "sleep"} /\ loop' \in {"top", "sleep", "stopped"}
      /\ UNCHANGED <<wire, file, commands, last>>
  BY DEF Fatal, AwaitTargets, ConnectFails, Sleep
<1>2. wire = <<>> /\ now \in Nat /\ wake \in Int /\ attempt \in Nat /\ TargetPoll \in Nat
  BY <1>1 DEF SpliceInv, SpliceTypeOK, SpliceAssumption
<1>3. attempt' \in Nat
  BY <1>2 DEF Fatal, AwaitTargets, ConnectFails, Sleep
<1>4. wake' \in Int
  <2>1. CASE ConnectFails
    BY <2>1, <1>2, DelayFacts DEF ConnectFails
  <2>2. CASE AwaitTargets
    BY <2>2, <1>2 DEF AwaitTargets
  <2> QED BY <2>1, <2>2, <1>2 DEF Fatal, Sleep
<1>5. now' \in Nat /\ now' >= now
  BY <1>2 DEF Fatal, AwaitTargets, ConnectFails, Sleep, Most
<1>6. LossIsProven'
  BY <1>1 DEF SpliceInv, LossIsProven
<1> QED BY <1>1, <1>2, <1>3, <1>4, <1>5, <1>6, ClosedStep

LEMMA CloseFacts ==
  ASSUME SpliceAssumption, SpliceInv, NEW clean \in BOOLEAN, Close(clean)
  PROVE  loop' = "sleep" /\ wire' = <<>> /\ wake' \in Int /\ attempt' \in Nat
<1>1. loop' = "sleep" /\ wire' = <<>> /\ attempt' \in Nat /\ now \in Nat
  BY DEF Close, SpliceInv, SpliceTypeOK
<1>2. Delay(attempt') \in Int
  BY <1>1, DelayFacts
<1>3. wake' = now + Delay(attempt')
  BY DEF Close
<1> QED BY <1>1, <1>2, <1>3

LEMMA EndStep ==
  ASSUME SpliceAssumption, SpliceInv, TimeLimit \/ Retarget \/ Lost \/ Cancel
  PROVE  SpliceInv'
<1>1. UNCHANGED <<now, file, commands, last>> /\ now \in Nat /\ wake \in Int /\ attempt \in Nat
  BY DEF TimeLimit, Retarget, Lost, Cancel, SpliceInv, SpliceTypeOK
<1>2. /\ loop' \in {"sleep", "stopped"} /\ wire' = <<>> /\ wake' \in Int /\ attempt' \in Nat
  <2>1. CASE Retarget \/ Lost
    BY <2>1, CloseFacts DEF Retarget, Lost
  <2>2. CASE TimeLimit \/ Cancel
    BY <2>2, <1>1 DEF TimeLimit, Cancel
  <2> QED BY <2>1, <2>2
<1>3. LossIsProven'
  BY <1>1 DEF SpliceInv, LossIsProven
<1>4. now' \in Nat /\ now' >= now
  BY <1>1
<1> QED BY <1>1, <1>2, <1>3, <1>4, ClosedStep

LEMMA ConnectStep ==
  ASSUME SpliceAssumption, SpliceInv, Connect
  PROVE  SpliceInv'
<1>1. /\ loop = "top" /\ loop' = "turn" /\ attempt' = attempt + 1 /\ commands' = commands + 1
      /\ UNCHANGED <<now, file, wake, wire, last>> /\ conn' = Opened(file.is)
      /\ venue' = [subscribe |-> commands + 1, snapshots |-> {}, seq |-> [s \in Streams |-> 0]]
  BY DEF Connect
<1>2. file.is \in SUBSET Tickers
  <2>1. file.is \in TargetFiles /\ file.is # Unreadable
    BY DEF Connect, SpliceInv, SpliceTypeOK
  <2>2. TargetFiles \subseteq (SUBSET Tickers) \cup {Unreadable}
    BY DEF SpliceAssumption
  <2> QED BY <2>1, <2>2
<1>3. now \in Nat /\ commands \in Nat /\ wire = <<>>
  BY <1>1 DEF SpliceInv, SpliceTypeOK
<1>4. PICK c : c = Opened(file.is)
  OBVIOUS
<1>5. /\ c \in ConnType /\ c.targets = file.is /\ c.asked = {} /\ c.lastCheck = now
      /\ c.lastSweep = now /\ c.since = now
      /\ \A m \in Tickers : c.snapshot[m] = Nil /\ c.seen[m] = now
      /\ \A s \in Streams : c.keys[s] = Nil
  BY <1>2, <1>3, <1>4, OpenedFacts, Zenon
<1>6. PICK v : v = [subscribe |-> commands + 1, snapshots |-> {}, seq |-> [s \in Streams |-> 0]]
  OBVIOUS
<1>7. v \in VenueType /\ v.subscribe = commands + 1 /\ v.snapshots = {}
  BY <1>3, <1>6 DEF VenueType
<1>8. SeenInv(c)
  BY <1>5 DEF SeenInv
<1>9. SweepInv(c, now, "turn")
  <2> SUFFICES ASSUME NEW m \in c.targets, c.lastSweep - c.seen[m] >= MaxAge PROVE FALSE
    BY <1>3, <1>5 DEF SweepInv
  <2> QED BY <1>2, <1>3, <1>5 DEF SpliceAssumption
<1>10. PollInv(c, now, "turn", file)
  BY <1>3, <1>5 DEF PollInv
<1>11. IdsInv(c, v, commands + 1)
  BY <1>3, <1>5, <1>7 DEF IdsInv
<1>12. KeysInv(c, v, <<>>) /\ WireInv(c, <<>>)
  BY <1>5 DEF KeysInv, WireInv, Comes
<1>13. OpenInv(c, v, <<>>, "turn", now, file, commands + 1)
  BY <1>5, <1>7, <1>8, <1>9, <1>10, <1>11, <1>12 DEF OpenInv
<1>14. SpliceTypeOK'
  BY <1>1, <1>3 DEF SpliceInv, SpliceTypeOK
<1>15. LossIsProven'
  BY <1>1 DEF SpliceInv, LossIsProven
<1> QED BY <1>1, <1>3, <1>4, <1>6, <1>13, <1>14, <1>15 DEF SpliceInv

\* A turn that ends with the connection d, the command id n and the venue v.
LEMMA TurnStep ==
  ASSUME SpliceAssumption, SpliceInv, NEW d, NEW n \in Nat, NEW sent, Turn(d, n, sent), n >= commands,
         Turned(d, conn),
         ~d.disabled => \A m \in d.targets : d.lastSweep - d.seen[m] >= MaxAge =>
            d.request[m] # Nil /\ (d.request[m] = d.lastSweep \/ d.lastSweep - d.request[m] < Cooldown),
         NEW v \in VenueType, venue' = v, v.subscribe = venue.subscribe, v.seq = venue.seq,
         IdsInv(d, v, n)
  PROVE  SpliceInv'
<1>1. /\ loop = "turn" /\ loop' = "recv" /\ conn' = d /\ commands' = n
      /\ UNCHANGED <<now, file, attempt, wake, wire, last>> /\ ~(CheckDue(conn) /\ Changed(conn))
  BY DEF Turn
<1>2. PICK c : c = conn
  OBVIOUS
<1>3. OpenInv(c, venue, wire, "turn", now, file, commands) /\ wire = <<>> /\ now \in Nat
  BY <1>1, <1>2 DEF SpliceInv, SpliceTypeOK
<1>4. c \in ConnType /\ d \in ConnType /\ Turned(d, c)
  BY <1>2, <1>3 DEF OpenInv, Turned
<1>5. SeenInv(d)
  BY <1>3, <1>4 DEF OpenInv, SeenInv, Turned
<1>6. SweepInv(d, now, "recv")
  <2>1. c.lastSweep <= now /\ c.lastSweep \in Nat /\ c.sweep \in Nat \ {0}
    BY <1>3, <1>4 DEF OpenInv, SweepInv, ConnType
  <2>2. d.lastSweep <= now /\ now - d.lastSweep < d.sweep
    BY <1>3, <1>4, <2>1 DEF Turned, SweepDue
  <2> QED BY <2>2 DEF SweepInv
<1>7. PollInv(d, now, "recv", file)
  <2>1. c.lastCheck <= now /\ c.lastCheck \in Nat /\ TargetPoll \in Nat
    BY <1>3, <1>4 DEF OpenInv, PollInv, ConnType, SpliceAssumption
  <2>2. CASE CheckDue(c)
    <3>1. file.is = Unreadable \/ d.targets = file.is
      BY <1>1, <1>2, <1>4, <2>2 DEF Changed, Turned
    <3> QED BY <1>3, <1>4, <2>2, <3>1 DEF Turned, PollInv
  <2>3. CASE ~CheckDue(c)
    <3>1. d.lastCheck = c.lastCheck /\ now - c.lastCheck < TargetPoll /\ d.targets = c.targets
      BY <1>3, <1>4, <2>1, <2>3 DEF Turned, CheckDue
    <3> QED BY <1>3, <2>1, <3>1 DEF OpenInv, PollInv
  <2> QED BY <2>2, <2>3
<1>8. KeysInv(d, v, <<>>) /\ WireInv(d, <<>>)
  BY <1>3, <1>4 DEF OpenInv, KeysInv, WireInv, Comes, Turned
<1>9. OpenInv(d, v, <<>>, "recv", now, file, n)
  BY <1>4, <1>5, <1>6, <1>7, <1>8 DEF OpenInv
<1>10. SpliceTypeOK'
  BY <1>1, <1>3 DEF SpliceInv, SpliceTypeOK
<1>11. LossIsProven'
  BY <1>1 DEF SpliceInv, LossIsProven
<1> QED BY <1>1, <1>3, <1>9, <1>10, <1>11 DEF SpliceInv

\* At a sweep a market is stale, or was asked for, or has been seen.
LEMMA StaleFacts ==
  ASSUME SpliceAssumption, now \in Nat, NEW c \in ConnType, SeenInv(c), NEW m \in c.targets,
         now - c.seen[m] >= MaxAge, m \notin Stale(c)
  PROVE  c.request[m] # Nil /\ now - c.request[m] < Cooldown
<1>1. m \in Tickers /\ c.since \in Nat /\ c.snapshot[m] \in Times /\ c.request[m] \in Times /\ c.seen[m] \in Nat
  BY DEF ConnType
<1>2. Age(c, m) = now - c.seen[m]
  BY <1>1 DEF SeenInv, Age
<1>3. ~(c.request[m] = Nil \/ now - c.request[m] >= Cooldown)
  BY <1>2 DEF Stale
<1>4. Cooldown \in Nat
  BY DEF SpliceAssumption
<1> QED BY <1>1, <1>3, <1>4 DEF Times

LEMMA QuietTurnStep ==
  ASSUME SpliceAssumption, SpliceInv, QuietTurn
  PROVE  SpliceInv'
<1>1. loop = "turn"
  BY DEF QuietTurn
<1>2. PICK c : c = conn
  OBVIOUS
<1>3. OpenInv(c, venue, wire, "turn", now, file, commands) /\ now \in Nat /\ commands \in Nat
  BY <1>1, <1>2 DEF SpliceInv, SpliceTypeOK
<1>4. c \in ConnType /\ venue \in VenueType /\ SeenInv(c) /\ IdsInv(c, venue, commands)
  BY <1>3 DEF OpenInv
<1>5. PICK e : e = Swept(Checked(c))
  OBVIOUS
<1>6. Turned(e, c) /\ e.disabled = c.disabled /\ e.request = c.request /\ e.asked = c.asked
  BY <1>3, <1>4, <1>5, SweptFacts, Zenon
<1>7. PICK d \in {e, [e EXCEPT !.disabled = TRUE]} :
        /\ Turn(d, commands, {})
        /\ ~d.disabled => ~Sweeps(c) \/ Stale(c) = {}
  <2>1. [e EXCEPT !.disabled = TRUE].disabled = TRUE
    BY <1>6 DEF Turned, ConnType
  <2> QED BY <1>2, <1>5, <2>1 DEF QuietTurn
<1>8. Turned(d, c) /\ d.request = c.request /\ d.asked = c.asked /\ (~d.disabled => ~c.disabled)
  <2>1. CASE d = e
    BY <1>6, <2>1
  <2>2. CASE d = [e EXCEPT !.disabled = TRUE]
    BY <1>6, <2>2 DEF Turned, ConnType
  <2> QED BY <1>7, <2>1, <2>2
<1>9. ASSUME ~d.disabled, NEW m \in d.targets, d.lastSweep - d.seen[m] >= MaxAge
      PROVE  d.request[m] # Nil /\ (d.request[m] = d.lastSweep \/ d.lastSweep - d.request[m] < Cooldown)
  <2>1. m \in c.targets /\ d.seen = c.seen /\ d.request = c.request /\ ~c.disabled
    BY <1>8, <1>9 DEF Turned
  <2>2. CASE SweepDue(c)
    <3>1. d.lastSweep = now
      BY <1>8, <2>2 DEF Turned
    <3>2. Stale(c) = {}
      BY <1>7, <1>9, <2>1, <2>2 DEF Sweeps
    <3>3. c.request[m] # Nil /\ now - c.request[m] < Cooldown
      BY <1>3, <1>4, <1>9, <2>1, <3>1, <3>2, StaleFacts
    <3> QED BY <2>1, <3>1, <3>3
  <2>3. CASE ~SweepDue(c)
    <3>1. d.lastSweep = c.lastSweep
      BY <1>8, <2>3 DEF Turned
    <3> QED BY <1>3, <1>9, <2>1, <3>1 DEF OpenInv, SweepInv
  <2> QED BY <2>2, <2>3
<1>10. IdsInv(d, venue, commands)
  BY <1>4, <1>8 DEF IdsInv
<1>11. venue' = venue
  BY <1>7 DEF Turn
<1>12. commands >= commands
  BY <1>3
<1> QED BY <1>2, <1>3, <1>4, <1>7, <1>8, <1>9, <1>10, <1>11, <1>12, TurnStep

LEMMA AskTurnStep ==
  ASSUME SpliceAssumption, SpliceInv, AskTurn
  PROVE  SpliceInv'
<1>1. loop = "turn" /\ Sweeps(conn) /\ Stale(conn) # {}
  BY DEF AskTurn
<1>2. PICK c : c = conn
  OBVIOUS
<1>3. OpenInv(c, venue, wire, "turn", now, file, commands) /\ now \in Nat /\ commands \in Nat
  BY <1>1, <1>2 DEF SpliceInv, SpliceTypeOK
<1>4. c \in ConnType /\ venue \in VenueType /\ SeenInv(c) /\ IdsInv(c, venue, commands)
  BY <1>3 DEF OpenInv
<1>5. PICK b : b = Swept(Checked(c))
  OBVIOUS
<1>6. Turned(b, c) /\ b.disabled = c.disabled /\ b.request = c.request /\ b.asked = c.asked
  BY <1>3, <1>4, <1>5, SweptFacts, Zenon
<1>7. PICK n \in Nat : n = commands + 1
  BY <1>3
<1>8. PICK e : e = [b EXCEPT !.asked = @ \cup {n}]
  OBVIOUS
<1>9. Turned(e, c) /\ e.disabled = c.disabled /\ e.request = c.request /\ e.asked = c.asked \cup {n}
  BY <1>4, <1>6, <1>7, <1>8 DEF Turned, ConnType
<1>10. e.lastSweep = now
  BY <1>1, <1>2, <1>9 DEF Turned, Sweeps
<1>11. PICK S \in SUBSET Tickers : S = Stale(c) /\ S # {}
  <2>1. c.targets \in SUBSET Tickers
    BY <1>4 DEF ConnType
  <2>2. Stale(c) \in SUBSET c.targets
    BY DEF Stale
  <2> QED BY <1>1, <1>2, <2>1, <2>2
<1>12. \/ Turn(Requested(e, S), n, S)
       \/ Turn([e EXCEPT !.disabled = TRUE], n, {})
  BY <1>2, <1>5, <1>7, <1>8, <1>11 DEF AskTurn
<1>13. CASE Turn(Requested(e, S), n, S)
  <2>1. PICK d : d = Requested(e, S)
    OBVIOUS
  <2>2. PICK r \in [Tickers -> Times] : r = [m \in Tickers |-> IF m \in S THEN now ELSE c.request[m]]
    BY <1>3, <1>4 DEF ConnType, Times
  <2>3. d = [e EXCEPT !.request = r]
    BY <1>9, <2>1, <2>2 DEF Requested
  <2>4. Turned(d, c) /\ d.disabled = c.disabled /\ d.asked = c.asked \cup {n} /\ d.request = r /\ d.lastSweep = now
    BY <1>9, <1>10, <2>2, <2>3 DEF Turned, ConnType
  <2>5. ASSUME ~d.disabled, NEW m \in d.targets, d.lastSweep - d.seen[m] >= MaxAge
        PROVE  d.request[m] # Nil /\ (d.request[m] = d.lastSweep \/ d.lastSweep - d.request[m] < Cooldown)
    <3>1. m \in c.targets /\ d.seen = c.seen /\ m \in Tickers
      BY <1>4, <2>4 DEF Turned, ConnType
    <3>2. CASE m \in S
      <4>1. r[m] = now /\ now # Nil
        BY <1>3, <2>2, <3>1, <3>2 DEF SpliceAssumption
      <4> QED BY <2>4, <4>1
    <3>3. CASE m \notin S
      <4>1. c.request[m] # Nil /\ now - c.request[m] < Cooldown
        BY <1>3, <1>4, <1>11, <2>4, <2>5, <3>1, <3>3, StaleFacts
      <4>2. r[m] = c.request[m]
        BY <2>2, <3>1, <3>3
      <4> QED BY <2>4, <4>1, <4>2
    <3> QED BY <3>2, <3>3
  <2>6. PICK v : v = [venue EXCEPT !.snapshots = @ \cup {[id |-> n, markets |-> S]}]
    OBVIOUS
  <2>7. /\ v \in VenueType /\ v.subscribe = venue.subscribe /\ v.seq = venue.seq
        /\ v.snapshots = venue.snapshots \cup {[id |-> n, markets |-> S]}
    BY <1>4, <2>6 DEF VenueType
  <2>8. venue' = v
    BY <1>11, <1>13, <2>6 DEF Turn
  <2>9. IdsInv(d, v, n)
    <3>1. venue.subscribe \in Nat /\ venue.subscribe <= commands
      BY <1>4 DEF VenueType, IdsInv
    <3>2. v.subscribe < n /\ v.subscribe <= n
      BY <1>3, <1>7, <2>7, <3>1
    <3> QED BY <1>4, <2>4, <2>7, <3>2 DEF IdsInv
  <2>10. n >= commands /\ Turn(d, n, S)
    BY <1>3, <1>7, <1>13, <2>1
  <2> QED BY <1>2, <2>4, <2>5, <2>7, <2>8, <2>9, <2>10, TurnStep
<1>14. CASE Turn([e EXCEPT !.disabled = TRUE], n, {})
  <2>1. PICK d : d = [e EXCEPT !.disabled = TRUE]
    OBVIOUS
  <2>2. Turned(d, c) /\ d.disabled /\ d.asked = c.asked \cup {n}
    BY <1>9, <2>1 DEF Turned, ConnType
  <2>3. venue' = venue
    BY <1>14 DEF Turn
  <2>4. IdsInv(d, venue, n)
    <3>1. venue.subscribe \in Nat /\ venue.subscribe <= commands
      BY <1>4 DEF VenueType, IdsInv
    <3>2. venue.subscribe < n /\ venue.subscribe <= n
      BY <1>3, <1>7, <3>1
    <3> QED BY <1>4, <2>2, <3>2 DEF IdsInv
  <2>5. n >= commands /\ Turn(d, n, {})
    BY <1>3, <1>7, <1>14, <2>1
  <2> QED BY <1>2, <1>4, <2>2, <2>3, <2>4, <2>5, TurnStep
<1> QED BY <1>12, <1>13, <1>14

LEMMA TimeoutStep ==
  ASSUME SpliceAssumption, SpliceInv, RecvTimeout
  PROVE  SpliceInv'
<1>1. /\ loop = "recv" /\ wire = <<>> /\ now' = now + 1 /\ loop' = "turn"
      /\ UNCHANGED <<file, attempt, wake, conn, commands, wire, venue, last>>
  BY DEF RecvTimeout
<1>2. OpenInv(conn, venue, <<>>, "recv", now, file, commands) /\ now \in Nat
  BY <1>1 DEF SpliceInv, SpliceTypeOK
<1>3. conn.lastSweep \in Nat /\ conn.lastCheck \in Nat
  BY <1>2 DEF OpenInv, ConnType
<1>4. OpenInv(conn, venue, <<>>, "turn", now + 1, file, commands)
  BY <1>2, <1>3 DEF OpenInv, SweepInv, PollInv
<1>5. SpliceTypeOK'
  BY <1>1, <1>2 DEF SpliceInv, SpliceTypeOK
<1>6. LossIsProven'
  BY <1>1 DEF SpliceInv, LossIsProven
<1> QED BY <1>1, <1>4, <1>5, <1>6 DEF SpliceInv

LEMMA EditFileStep ==
  ASSUME SpliceAssumption, SpliceInv, Edit
  PROVE  SpliceInv'
<1>1. PICK is \in TargetFiles : file' = [is |-> is, since |-> now]
  BY DEF Edit
<1>2. /\ loop \in {"recv", "sleep"}
      /\ UNCHANGED <<now, loop, attempt, wake, conn, commands, wire, venue, last>>
  BY DEF Edit
<1>3. now \in Nat
  BY DEF SpliceInv, SpliceTypeOK
<1>4. SpliceTypeOK'
  BY <1>1, <1>2, <1>3 DEF SpliceInv, SpliceTypeOK
<1>5. LossIsProven'
  BY <1>2 DEF SpliceInv, LossIsProven
<1>6. CASE loop = "recv"
  <2>1. OpenInv(conn, venue, wire, "recv", now, file, commands)
    BY <1>6 DEF SpliceInv
  <2>2. conn.lastCheck \in Nat /\ conn.lastCheck <= now
    BY <2>1 DEF OpenInv, ConnType, PollInv
  <2>3. file'.since = now
    BY <1>1
  <2>4. ~(file'.since < conn.lastCheck)
    BY <1>3, <2>2, <2>3
  <2>5. OpenInv(conn, venue, wire, "recv", now, file', commands)
    BY <2>1, <2>4 DEF OpenInv, PollInv
  <2> QED BY <1>2, <1>4, <1>5, <1>6, <2>5 DEF SpliceInv
<1> QED BY <1>2, <1>4, <1>5, <1>6 DEF SpliceInv

-----------------------------------------------------------------------------
(* Messages                                                                *)

\* What the ingester makes of the message on the wire.
LEMMA CauseFacts ==
  ASSUME SpliceAssumption, NEW c \in ConnType, NEW v \in VenueType, NEW f \in FrameType,
         KeysInv(c, v, <<f>>), Numbered(f)
  PROVE  /\ Cause(c, f) # "backwards" /\ (Cause(c, f) = "gap" => f.skipped)
         /\ (f.skipped => Cause(c, f) \in {"gap", "bootstrap"})
<1>1. PICK s \in Streams : s = StreamFor(f)
  BY DEF StreamFor, Streams
<1>2. PICK held \in Times : held = c.keys[s]
  BY DEF ConnType
<1>3. PICK q \in Nat : q = f.seq
  BY DEF FrameType
<1>4. Fits(c, v, s, f)
  BY <1>1 DEF KeysInv, Comes
<1>5. held # Nil => IF f.skipped THEN held < q - 1 ELSE held = q - 1
  BY <1>2, <1>3, <1>4 DEF Fits
<1>6. Cause(c, f) = IF held = Nil THEN "bootstrap"
                    ELSE IF q - 1 = held \/ q = held + 1 THEN "continuous"
                    ELSE IF q <= held THEN "backwards" ELSE "gap"
  BY <1>1, <1>2, <1>3 DEF Cause, PreviousLast
<1>7. CASE held = Nil
  BY <1>6, <1>7
<1>8. CASE held # Nil
  <2>1. held \in Nat
    BY <1>8 DEF Times
  <2>2. CASE f.skipped
    BY <1>3, <1>5, <1>6, <1>8, <2>1, <2>2
  <2>3. CASE ~f.skipped
    BY <1>3, <1>5, <1>6, <1>8, <2>1, <2>3
  <2> QED BY <2>2, <2>3
<1> QED BY <1>7, <1>8

\* What a message leaves of the connection c.
Heard(d, c, f) ==
    /\ d \in ConnType /\ d.targets = c.targets /\ d.since = c.since /\ d.request = c.request
    /\ d.asked = c.asked /\ d.lastCheck = c.lastCheck /\ d.lastSweep = c.lastSweep
    /\ (~d.disabled => ~c.disabled)
    /\ \A s \in Streams : d.keys[s] = IF Numbered(f) /\ StreamFor(f) = s
                                      THEN IF c.keys[s] = Nil THEN f.seq ELSE Most(c.keys[s], f.seq)
                                      ELSE c.keys[s]
    /\ \A m \in Tickers : IF f.type = "snapshot" /\ f.market = m
                          THEN d.seen[m] = now /\ d.snapshot[m] = now
                          ELSE d.seen[m] = c.seen[m] /\ d.snapshot[m] = c.snapshot[m]

LEMMA RecordedFacts ==
  ASSUME SpliceAssumption, now \in Nat, NEW c \in ConnType, NEW f \in FrameType, Numbered(f),
         f.type = "snapshot" => f.market \in Tickers
  PROVE  LET e == Recorded(c, f)
         IN  /\ e \in ConnType /\ e.targets = c.targets /\ e.since = c.since /\ e.request = c.request
             /\ e.asked = c.asked /\ e.lastCheck = c.lastCheck /\ e.lastSweep = c.lastSweep
             /\ e.disabled = c.disabled /\ e.snapshot = c.snapshot
             /\ \A s \in Streams : e.keys[s] = IF StreamFor(f) = s
                                               THEN IF c.keys[s] = Nil THEN f.seq ELSE Most(c.keys[s], f.seq)
                                               ELSE c.keys[s]
             /\ \A m \in Tickers : e.seen[m] = IF f.type = "snapshot" /\ f.market = m THEN now ELSE c.seen[m]
<1>1. PICK s \in Streams : s = StreamFor(f)
  BY DEF StreamFor, Streams
<1>2. PICK q \in Nat : q = f.seq
  BY DEF FrameType
<1>3. c.keys[s] \in Times /\ c.keys \in [Streams -> Times] /\ c.seen \in [Tickers -> Nat]
  BY DEF ConnType
<1>4. PICK k \in Nat : k = IF c.keys[s] = Nil THEN q ELSE Most(c.keys[s], q)
  BY <1>3 DEF Times, Most
<1>5. PICK ks \in [Streams -> Times] : ks = [c.keys EXCEPT ![s] = k]
  BY <1>3 DEF Times
<1>6. PICK sn \in [Tickers -> Nat] : sn = IF f.type = "snapshot" THEN [c.seen EXCEPT ![f.market] = now] ELSE c.seen
  BY <1>3
<1>7. PICK e : e = [c EXCEPT !.keys = ks, !.seen = sn]
  OBVIOUS
<1>8. e = Recorded(c, f)
  BY <1>1, <1>2, <1>4, <1>5, <1>6, <1>7 DEF Recorded
<1>9. /\ e \in ConnType /\ e.targets = c.targets /\ e.since = c.since /\ e.request = c.request
      /\ e.asked = c.asked /\ e.lastCheck = c.lastCheck /\ e.lastSweep = c.lastSweep
      /\ e.disabled = c.disabled /\ e.snapshot = c.snapshot /\ e.keys = ks /\ e.seen = sn
  BY <1>7 DEF ConnType
<1>10. \A z \in Streams : ks[z] = IF s = z THEN k ELSE c.keys[z]
  BY <1>3, <1>5
<1>11. \A m \in Tickers : sn[m] = IF f.type = "snapshot" /\ f.market = m THEN now ELSE c.seen[m]
  BY <1>3, <1>6
<1> QED BY <1>1, <1>2, <1>4, <1>8, <1>9, <1>10, <1>11

LEMMA HeardFacts ==
  ASSUME SpliceAssumption, now \in Nat, NEW c \in ConnType, NEW f \in FrameType,
         f.type = "snapshot" => f.market \in Tickers
  PROVE  Heard(AfterFrame(Recorded(c, f), f), c, f)
<1>1. f.type \in {"subscribed", "snapshot", "error", "delta", "trade"}
  BY DEF FrameType
<1>2. CASE f.type = "subscribed"
  <2>1. ~Numbered(f) /\ AfterFrame(Recorded(c, f), f) = [c EXCEPT !.sid = TRUE]
    BY <1>2 DEF Numbered, Recorded, AfterFrame
  <2>2. PICK d : d = [c EXCEPT !.sid = TRUE]
    OBVIOUS
  <2>3. Heard(d, c, f)
    BY <1>2, <2>1, <2>2 DEF Heard, ConnType
  <2> QED BY <2>1, <2>2, <2>3
<1>3. CASE f.type = "error"
  <2>1. ~Numbered(f) /\ AfterFrame(Recorded(c, f), f) = Rejected(c, f)
    BY <1>3 DEF Numbered, Recorded, AfterFrame
  <2>2. PICK d : d = Rejected(c, f)
    OBVIOUS
  <2>3. Heard(d, c, f)
    <3>1. CASE f.code = "rate"
      <4>1. PICK w \in Nat \ {0} : w = Most(c.sweep, Least(2 * c.sweep, MaxSweep))
        BY DEF ConnType, Most, Least, SpliceAssumption
      <4>2. d = [c EXCEPT !.sweep = w]
        BY <2>2, <3>1, <4>1 DEF Rejected
      <4> QED BY <1>3, <2>1, <4>1, <4>2 DEF Heard, ConnType
    <3>2. CASE f.code # "rate"
      <4>1. d = [c EXCEPT !.disabled = TRUE]
        BY <2>2, <3>2 DEF Rejected
      <4> QED BY <1>3, <2>1, <4>1 DEF Heard, ConnType
    <3> QED BY <3>1, <3>2
  <2> QED BY <2>1, <2>2, <2>3
<1>4. CASE f.type \in {"snapshot", "delta", "trade"}
  <2>1. Numbered(f)
    BY <1>4 DEF Numbered
  <2>2. PICK e : e = Recorded(c, f)
    OBVIOUS
  <2>3. /\ e \in ConnType /\ e.targets = c.targets /\ e.since = c.since /\ e.request = c.request
        /\ e.asked = c.asked /\ e.lastCheck = c.lastCheck /\ e.lastSweep = c.lastSweep
        /\ e.disabled = c.disabled /\ e.snapshot = c.snapshot
        /\ \A s \in Streams : e.keys[s] = IF StreamFor(f) = s
                                          THEN IF c.keys[s] = Nil THEN f.seq ELSE Most(c.keys[s], f.seq)
                                          ELSE c.keys[s]
        /\ \A m \in Tickers : e.seen[m] = IF f.type = "snapshot" /\ f.market = m THEN now ELSE c.seen[m]
    BY <2>1, <2>2, RecordedFacts, Zenon
  <2>4. CASE f.type = "snapshot"
    <3>1. PICK d : d = [e EXCEPT !.snapshot[f.market] = now]
      OBVIOUS
    <3>2. d = AfterFrame(e, f)
      BY <2>4, <3>1 DEF AfterFrame
    <3>3. PICK sn \in [Tickers -> Times] : sn = [e.snapshot EXCEPT ![f.market] = now]
      BY <2>3 DEF ConnType, Times
    <3>4. d = [e EXCEPT !.snapshot = sn]
      BY <3>1, <3>3
    <3>5. /\ d \in ConnType /\ d.targets = e.targets /\ d.since = e.since /\ d.request = e.request
          /\ d.asked = e.asked /\ d.lastCheck = e.lastCheck /\ d.lastSweep = e.lastSweep
          /\ d.disabled = e.disabled /\ d.snapshot = sn /\ d.keys = e.keys /\ d.seen = e.seen
      BY <2>3, <3>4 DEF ConnType
    <3>6. \A m \in Tickers : sn[m] = IF f.market = m THEN now ELSE c.snapshot[m]
      <4>1. e.snapshot \in [Tickers -> Times]
        BY <2>3 DEF ConnType
      <4> QED BY <2>3, <3>3, <4>1
    <3> QED BY <2>1, <2>2, <2>3, <2>4, <3>2, <3>5, <3>6 DEF Heard
  <2>5. CASE f.type # "snapshot"
    <3>1. AfterFrame(e, f) = e
      BY <1>4, <2>5 DEF AfterFrame
    <3> QED BY <2>1, <2>2, <2>3, <2>5, <3>1 DEF Heard
  <2> QED BY <2>4, <2>5
<1> QED BY <1>1, <1>2, <1>3, <1>4

LEMMA ReceiveStep ==
  ASSUME SpliceAssumption, SpliceInv, Receive
  PROVE  SpliceInv'
<1>1. loop = "recv" /\ wire # <<>> /\ UNCHANGED <<now, file, commands>>
  BY DEF Receive
<1>2. PICK f \in FrameType : wire = <<f>>
  BY <1>1 DEF SpliceInv, SpliceTypeOK
<1>3. PICK c, v : c = conn /\ v = venue
  OBVIOUS
<1>4. OpenInv(c, v, <<f>>, "recv", now, file, commands) /\ now \in Nat
  BY <1>1, <1>2, <1>3 DEF SpliceInv, SpliceTypeOK
<1>5. c \in ConnType /\ v \in VenueType /\ KeysInv(c, v, <<f>>) /\ WireInv(c, <<f>>)
  BY <1>4 DEF OpenInv
<1>6. /\ last' = [frame |-> f, cause |-> Cause(c, f)]
      /\ \/ Close(FALSE)
         \/ /\ conn' = AfterFrame(Recorded(c, f), f) /\ wire' = <<>> /\ loop' = "turn"
            /\ UNCHANGED <<attempt, wake, venue>>
  <2>1. Head(wire) = f /\ Tail(wire) = <<>>
    BY <1>2
  <2> QED BY <1>3, <2>1 DEF Receive
<1>7. LossIsProven'
  <2>1. last'.frame = f /\ last'.cause = Cause(c, f)
    BY <1>6
  <2> QED BY <1>5, <2>1, CauseFacts DEF LossIsProven
<1>8. CASE Close(FALSE)
  <2>1. loop' = "sleep" /\ wire' = <<>> /\ wake' \in Int /\ attempt' \in Nat
    BY <1>8, CloseFacts
  <2>2. now' \in Nat /\ now' >= now
    BY <1>1, <1>4
  <2> QED BY <1>1, <1>7, <2>1, <2>2, ClosedStep
<1>9. CASE /\ conn' = AfterFrame(Recorded(c, f), f) /\ wire' = <<>> /\ loop' = "turn"
           /\ UNCHANGED <<attempt, wake, venue>>
  <2>1. PICK d : d = AfterFrame(Recorded(c, f), f)
    OBVIOUS
  <2>2. f.type = "snapshot" => f.market \in Tickers
    BY <1>5 DEF WireInv
  <2>3. Heard(d, c, f)
    BY <1>4, <1>5, <2>1, <2>2, HeardFacts
  <2>4. d \in ConnType
    BY <2>3 DEF Heard
  <2>5. SeenInv(d)
    <3>1. now # Nil
      BY <1>4 DEF SpliceAssumption
    <3> QED BY <1>4, <2>3, <3>1 DEF Heard, SeenInv, OpenInv
  <2>6. SweepInv(d, now, "turn")
    <3>1. c.lastSweep \in Nat /\ c.lastSweep <= now /\ d.lastSweep = c.lastSweep
      BY <1>4, <1>5, <2>3 DEF OpenInv, SweepInv, Heard, ConnType
    <3>2. ASSUME ~d.disabled, NEW m \in d.targets, d.lastSweep - d.seen[m] >= MaxAge
          PROVE  d.request[m] # Nil /\ (d.request[m] = d.lastSweep \/ d.lastSweep - d.request[m] < Cooldown)
      <4>1. m \in Tickers /\ m \in c.targets /\ d.request = c.request /\ ~c.disabled
        BY <1>5, <2>3, <3>2 DEF Heard, ConnType
      <4>2. d.seen[m] # now
        BY <1>4, <3>1, <3>2 DEF SpliceAssumption
      <4>3. d.seen[m] = c.seen[m]
        BY <2>3, <4>1, <4>2 DEF Heard
      <4> QED BY <1>4, <3>1, <3>2, <4>1, <4>3 DEF OpenInv, SweepInv
    <3> QED BY <3>1, <3>2 DEF SweepInv
  <2>7. PollInv(d, now, "turn", file)
    BY <1>4, <2>3 DEF Heard, PollInv, OpenInv
  <2>8. IdsInv(d, v, commands)
    BY <1>4, <2>3 DEF Heard, IdsInv, OpenInv
  <2>9. KeysInv(d, v, <<>>) /\ WireInv(d, <<>>)
    <3>1. ASSUME NEW s \in Streams PROVE d.keys[s] \in {Nil, v.seq[s]}
      <4>1. CASE Numbered(f) /\ StreamFor(f) = s
        <5>1. Fits(c, v, s, f)
          BY <1>5, <4>1 DEF KeysInv, Comes
        <5>2. d.keys[s] = IF c.keys[s] = Nil THEN f.seq ELSE Most(c.keys[s], f.seq)
          BY <2>3, <4>1 DEF Heard
        <5>3. f.seq \in Nat /\ c.keys[s] \in Times /\ f.skipped \in BOOLEAN
          BY <1>5 DEF FrameType, ConnType
        <5>4. d.keys[s] = f.seq
          BY <5>1, <5>2, <5>3 DEF Fits, Most, Times
        <5> QED BY <5>1, <5>4 DEF Fits
      <4>2. CASE ~(Numbered(f) /\ StreamFor(f) = s)
        BY <1>5, <2>3, <4>2 DEF Heard, KeysInv, Comes
      <4> QED BY <4>1, <4>2
    <3> QED BY <3>1 DEF KeysInv, WireInv, Comes
  <2>10. OpenInv(d, v, <<>>, "turn", now, file, commands)
    BY <1>5, <2>4, <2>5, <2>6, <2>7, <2>8, <2>9 DEF OpenInv
  <2>11. SpliceTypeOK'
    BY <1>1, <1>9 DEF SpliceInv, SpliceTypeOK
  <2> QED BY <1>1, <1>3, <1>7, <1>9, <2>1, <2>10, <2>11 DEF SpliceInv
<1> QED BY <1>6, <1>8, <1>9

-----------------------------------------------------------------------------
(* What the venue says                                                     *)

\* The venue says f and is left as v.
LEMMA SayStep ==
  ASSUME SpliceAssumption, SpliceInv, NEW f \in FrameType, Say(f), NEW v \in VenueType, venue' = v,
         IdsInv(conn, v, commands), KeysInv(conn, v, <<f>>), WireInv(conn, <<f>>)
  PROVE  SpliceInv'
<1>1. /\ loop = "recv" /\ wire = <<>> /\ wire' = <<f>>
      /\ UNCHANGED <<now, file, loop, attempt, wake, conn, commands, last>>
  BY DEF Say
<1>2. OpenInv(conn, venue, <<>>, "recv", now, file, commands)
  BY <1>1 DEF SpliceInv
<1>3. OpenInv(conn, v, <<f>>, "recv", now, file, commands)
  BY <1>2 DEF OpenInv
<1>4. SpliceTypeOK'
  <2>1. wire'[1] = f
    BY <1>1
  <2> QED BY <1>1, <2>1 DEF SpliceInv, SpliceTypeOK
<1>5. LossIsProven'
  BY <1>1 DEF SpliceInv, LossIsProven
<1> QED BY <1>1, <1>3, <1>4, <1>5 DEF SpliceInv

\* Before the venue says anything nothing is on the wire.
LEMMA SilentFacts ==
  ASSUME SpliceInv, NEW f, Say(f)
  PROVE  /\ conn \in ConnType /\ venue \in VenueType /\ IdsInv(conn, venue, commands)
         /\ \A s \in Streams : conn.keys[s] \in {Nil, venue.seq[s]}
<1>1. loop = "recv" /\ wire = <<>>
  BY DEF Say
<1>2. OpenInv(conn, venue, <<>>, "recv", now, file, commands)
  BY <1>1 DEF SpliceInv
<1> QED BY <1>2 DEF OpenInv, KeysInv, Comes

\* A message without a number leaves the counters alone.
LEMMA UnnumberedStep ==
  ASSUME SpliceAssumption, SpliceInv, NEW f \in FrameType, Say(f), NEW v \in VenueType, venue' = v,
         v.subscribe \in {0, venue.subscribe}, v.snapshots \subseteq venue.snapshots, v.seq = venue.seq,
         f.type \in {"subscribed", "error"},
         f.type = "error" => (f.answers = "subscribe" <=> f.id \notin conn.asked)
  PROVE  SpliceInv'
<1>1. /\ conn \in ConnType /\ venue \in VenueType /\ IdsInv(conn, venue, commands)
      /\ \A s \in Streams : conn.keys[s] \in {Nil, venue.seq[s]}
  BY SilentFacts
<1>2. IdsInv(conn, v, commands)
  <2>1. commands \in Nat /\ venue.subscribe \in Nat /\ conn.asked \subseteq Nat
    BY <1>1 DEF SpliceInv, SpliceTypeOK, VenueType, ConnType
  <2>2. \A i \in conn.asked : venue.subscribe < i /\ 0 < i
    BY <1>1, <2>1 DEF IdsInv
  <2> QED BY <1>1, <2>1, <2>2 DEF IdsInv
<1>3. ~Numbered(f)
  BY DEF Numbered
<1>4. <<f>>[1] = f
  OBVIOUS
<1>5. KeysInv(conn, v, <<f>>)
  BY <1>1, <1>3, <1>4 DEF KeysInv, Comes
<1>6. WireInv(conn, <<f>>)
  BY <1>4 DEF WireInv
<1> QED BY <1>2, <1>5, <1>6, SayStep

LEMMA AcknowledgeStep ==
  ASSUME SpliceAssumption, SpliceInv, Acknowledge
  PROVE  SpliceInv'
<1>1. PICK f : f = [Plain EXCEPT !.type = "subscribed", !.id = venue.subscribe]
  OBVIOUS
<1>2. Say(f) /\ venue' = [venue EXCEPT !.subscribe = 0]
  BY <1>1 DEF Acknowledge
<1>3. venue \in VenueType
  BY <1>2, SilentFacts
<1>4. f \in FrameType /\ f.type = "subscribed"
  BY <1>1, <1>3 DEF Plain, FrameType, VenueType
<1>5. PICK v : v = [venue EXCEPT !.subscribe = 0]
  OBVIOUS
<1>6. v \in VenueType /\ v.subscribe = 0 /\ v.snapshots = venue.snapshots /\ v.seq = venue.seq
  BY <1>3, <1>5 DEF VenueType
<1> QED BY <1>2, <1>4, <1>5, <1>6, UnnumberedStep

LEMMA RefuseStep ==
  ASSUME SpliceAssumption, SpliceInv, Refuse
  PROVE  SpliceInv'
<1>1. CASE /\ Say([Plain EXCEPT !.type = "error", !.id = venue.subscribe, !.code = "other",
                                !.answers = "subscribe"])
           /\ venue' = [venue EXCEPT !.subscribe = 0]
  <2>1. PICK f : f = [Plain EXCEPT !.type = "error", !.id = venue.subscribe, !.code = "other",
                                   !.answers = "subscribe"]
    OBVIOUS
  <2>2. Say(f)
    BY <1>1, <2>1
  <2>3. conn \in ConnType /\ venue \in VenueType /\ IdsInv(conn, venue, commands)
    BY <2>2, SilentFacts
  <2>4. f \in FrameType /\ f.type = "error" /\ f.answers = "subscribe" /\ f.id = venue.subscribe
    BY <2>1, <2>3 DEF Plain, FrameType, VenueType
  <2>5. f.id \notin conn.asked
    <3>1. venue.subscribe \in Nat /\ ~(venue.subscribe < venue.subscribe)
      BY <2>3 DEF VenueType
    <3> QED BY <2>3, <2>4, <3>1 DEF IdsInv
  <2>6. PICK v : v = [venue EXCEPT !.subscribe = 0]
    OBVIOUS
  <2>7. v \in VenueType /\ v.subscribe = 0 /\ v.snapshots = venue.snapshots /\ v.seq = venue.seq
    BY <2>3, <2>6 DEF VenueType
  <2>8. venue' = v
    BY <1>1, <2>6
  <2> QED BY <2>2, <2>4, <2>5, <2>7, <2>8, UnnumberedStep
<1>2. ASSUME NEW q \in venue.snapshots, NEW code \in {"rate", "other"},
             Say([Plain EXCEPT !.type = "error", !.id = q.id, !.code = code, !.answers = "snapshot"]),
             venue' = [venue EXCEPT !.snapshots = @ \ {q}]
      PROVE  SpliceInv'
  <2>1. PICK f : f = [Plain EXCEPT !.type = "error", !.id = q.id, !.code = code, !.answers = "snapshot"]
    OBVIOUS
  <2>2. Say(f)
    BY <1>2, <2>1
  <2>3. conn \in ConnType /\ venue \in VenueType /\ IdsInv(conn, venue, commands)
    BY <2>2, SilentFacts
  <2>4. q.id \in Nat /\ q.id \in conn.asked
    BY <2>3 DEF VenueType, IdsInv
  <2>5. f \in FrameType /\ f.type = "error" /\ f.answers = "snapshot" /\ f.id = q.id
    BY <2>1, <2>4 DEF Plain, FrameType
  <2>6. PICK v : v = [venue EXCEPT !.snapshots = @ \ {q}]
    OBVIOUS
  <2>7. v \in VenueType /\ v.subscribe = venue.subscribe /\ v.snapshots = venue.snapshots \ {q} /\ v.seq = venue.seq
    BY <2>3, <2>6 DEF VenueType
  <2>8. venue' = v
    BY <1>2, <2>6
  <2>9. v.snapshots \subseteq venue.snapshots
    BY <2>7
  <2> QED BY <2>2, <2>4, <2>5, <2>7, <2>8, <2>9, UnnumberedStep
<1> QED BY <1>1, <1>2 DEF Refuse

\* The venue has numbered one more message of stream s and skipped skip of them.
Counted(s, skip, S) == venue' = [venue EXCEPT !.snapshots = S, !.seq[s] = @ + 1 + skip]

\* A numbered message on stream s, skip numbers after the last.
LEMMA NumberedStep ==
  ASSUME SpliceAssumption, SpliceInv, NEW g \in FrameType, NEW s \in Streams, NEW skip \in 0 .. 1,
         Publish(g, s, skip), Numbered(g), StreamFor(g) = s, g.type = "snapshot" => g.market \in Tickers,
         NEW S \in SUBSET venue.snapshots, Counted(s, skip, S)
  PROVE  SpliceInv'
<1>1. PICK f : f = [g EXCEPT !.seq = venue.seq[s] + 1 + skip, !.skipped = skip > 0]
  OBVIOUS
<1>2. Say(f)
  BY <1>1 DEF Publish
<1>3. /\ conn \in ConnType /\ venue \in VenueType /\ IdsInv(conn, venue, commands)
      /\ \A z \in Streams : conn.keys[z] \in {Nil, venue.seq[z]}
  BY <1>2, SilentFacts
<1>4. PICK n \in Nat : n = venue.seq[s]
  BY <1>3 DEF VenueType
<1>5. n + 1 + skip \in Nat /\ (skip > 0) \in BOOLEAN
  OBVIOUS
<1>6. /\ f \in FrameType /\ f.type = g.type /\ f.market = g.market
      /\ f.seq = n + 1 + skip /\ f.skipped = (skip > 0)
  BY <1>1, <1>4, <1>5 DEF FrameType
<1>7. PICK ns \in [Streams -> Nat] : ns = [venue.seq EXCEPT ![s] = n + 1 + skip]
  BY <1>3, <1>5 DEF VenueType
<1>8. PICK v : v = [venue EXCEPT !.snapshots = S, !.seq = ns]
  OBVIOUS
<1>9. v \in VenueType /\ v.subscribe = venue.subscribe /\ v.snapshots = S /\ v.seq = ns
  BY <1>3, <1>8 DEF VenueType
<1>10. venue' = v
  BY <1>4, <1>7, <1>8 DEF Counted
<1>11. IdsInv(conn, v, commands)
  BY <1>3, <1>9 DEF IdsInv
<1>12. <<f>>[1] = f /\ Numbered(f) /\ StreamFor(f) = s
  BY <1>6 DEF Numbered, StreamFor
<1>13. \A z \in Streams : ns[z] = IF z = s THEN n + 1 + skip ELSE venue.seq[z]
  BY <1>3, <1>7 DEF VenueType
<1>14. Fits(conn, v, s, f)
  <2>1. f.seq = v.seq[s]
    BY <1>6, <1>9, <1>13
  <2>2. ASSUME conn.keys[s] # Nil
        PROVE  IF f.skipped THEN conn.keys[s] < f.seq - 1 ELSE conn.keys[s] = f.seq - 1
    <3>1. conn.keys[s] = n
      BY <1>3, <1>4, <2>2
    <3>2. CASE skip = 0
      <4>1. (skip > 0) = FALSE /\ n + 1 + skip = n + 1
        BY <3>2
      <4>2. f.skipped = FALSE /\ f.seq = n + 1
        BY <1>6, <4>1, Zenon
      <4> QED BY <3>1, <4>2
    <3>3. CASE skip = 1
      <4>1. (skip > 0) = TRUE /\ n + 1 + skip = n + 2
        BY <3>3
      <4>2. f.skipped = TRUE /\ f.seq = n + 2
        BY <1>6, <4>1, Zenon
      <4> QED BY <3>1, <4>2
    <3> QED BY <3>2, <3>3
  <2> QED BY <2>1, <2>2 DEF Fits
<1>15. KeysInv(conn, v, <<f>>)
  <2>1. ASSUME NEW z \in Streams, z # s PROVE conn.keys[z] \in {Nil, v.seq[z]}
    BY <1>3, <1>9, <1>13, <2>1
  <2> QED BY <1>12, <1>14, <2>1 DEF KeysInv, Comes
<1>16. WireInv(conn, <<f>>)
  BY <1>6, <1>12 DEF WireInv, Numbered
<1> QED BY <1>2, <1>6, <1>9, <1>10, <1>11, <1>15, <1>16, SayStep

LEMMA PublishStep ==
  ASSUME SpliceAssumption, SpliceInv, Answer \/ InitialSnapshot \/ Update
  PROVE  SpliceInv'
<1>1. ASSUME NEW g, NEW s, NEW skip, Publish(g, s, skip)
      PROVE  conn \in ConnType /\ venue \in VenueType
  BY <1>1, SilentFacts DEF Publish
<1>2. ASSUME NEW m \in Tickers
      PROVE  LET g == [Plain EXCEPT !.type = "snapshot", !.market = m]
             IN  g \in FrameType /\ Numbered(g) /\ StreamFor(g) = "book" /\ g.market \in Tickers
  BY DEF Plain, FrameType, Numbered, StreamFor
<1>3. "book" \in Streams /\ "trade" \in Streams /\ 0 \in 0 .. 1
  BY DEF Streams
<1>4. CASE Answer
  <2>1. PICK q \in venue.snapshots : \E m \in q.markets :
           /\ Publish([Plain EXCEPT !.type = "snapshot", !.market = m], "book", 0)
           /\ venue' = [venue EXCEPT !.snapshots = @ \ {q}, !.seq["book"] = @ + 1]
    BY <1>4 DEF Answer
  <2>0. PICK m \in q.markets :
           /\ Publish([Plain EXCEPT !.type = "snapshot", !.market = m], "book", 0)
           /\ venue' = [venue EXCEPT !.snapshots = @ \ {q}, !.seq["book"] = @ + 1]
    BY <2>1
  <2>2. venue \in VenueType
    BY <1>1, <2>0
  <2>3. m \in Tickers
    BY <2>2 DEF VenueType
  <2>4. PICK g : g = [Plain EXCEPT !.type = "snapshot", !.market = m]
    OBVIOUS
  <2>5. g \in FrameType /\ Numbered(g) /\ StreamFor(g) = "book" /\ g.market \in Tickers
    BY <1>2, <2>3, <2>4, Zenon
  <2>6. PICK S \in SUBSET venue.snapshots : S = venue.snapshots \ {q}
    OBVIOUS
  <2>7. venue.seq["book"] + 1 = venue.seq["book"] + 1 + 0
    BY <1>3, <2>2 DEF VenueType
  <2>8. Counted("book", 0, S)
    BY <2>0, <2>6, <2>7 DEF Counted
  <2>9. Publish(g, "book", 0)
    BY <2>0, <2>4
  <2> QED BY <1>3, <2>5, <2>8, <2>9, NumberedStep, Zenon
<1>5. CASE InitialSnapshot
  <2>1. PICK m \in conn.targets : Publish([Plain EXCEPT !.type = "snapshot", !.market = m], "book", 0)
    BY <1>5 DEF InitialSnapshot
  <2>2. venue \in VenueType /\ conn \in ConnType
    BY <1>1, <2>1
  <2>3. m \in Tickers
    BY <2>1, <2>2 DEF ConnType
  <2>4. PICK g : g = [Plain EXCEPT !.type = "snapshot", !.market = m]
    OBVIOUS
  <2>5. g \in FrameType /\ Numbered(g) /\ StreamFor(g) = "book" /\ g.market \in Tickers
    BY <1>2, <2>3, <2>4, Zenon
  <2>6. PICK S \in SUBSET venue.snapshots : S = venue.snapshots
    OBVIOUS
  <2>7. venue.seq["book"] + 1 = venue.seq["book"] + 1 + 0
    BY <1>3, <2>2 DEF VenueType
  <2>8. venue' = [venue EXCEPT !.seq["book"] = @ + 1]
    BY <1>5 DEF InitialSnapshot
  <2>9. Counted("book", 0, S)
    BY <2>2, <2>6, <2>7, <2>8 DEF VenueType, Counted
  <2> QED BY <1>3, <2>1, <2>4, <2>5, <2>9, NumberedStep
<1>6. CASE Update
  <2>1. PICK type \in {"delta", "trade"}, skip \in 0 .. 1 :
           LET s == IF type = "trade" THEN "trade" ELSE "book"
           IN /\ Publish([Plain EXCEPT !.type = type], s, skip)
              /\ venue' = [venue EXCEPT !.seq[s] = @ + 1 + skip]
    BY <1>6 DEF Update
  <2>2. PICK s \in Streams : s = IF type = "trade" THEN "trade" ELSE "book"
    BY <1>3
  <2>3. PICK g : g = [Plain EXCEPT !.type = type]
    OBVIOUS
  <2>4. Publish(g, s, skip) /\ venue' = [venue EXCEPT !.seq[s] = @ + 1 + skip]
    BY <2>1, <2>2, <2>3
  <2>5. venue \in VenueType
    BY <1>1, <2>4
  <2>6. g \in FrameType /\ g.type = type /\ Numbered(g) /\ StreamFor(g) = s
    BY <2>2, <2>3 DEF Plain, FrameType, Numbered, StreamFor
  <2>7. PICK S \in SUBSET venue.snapshots : S = venue.snapshots
    OBVIOUS
  <2>8. Counted(s, skip, S)
    BY <2>4, <2>5, <2>7 DEF VenueType, Counted
  <2>9. g.type = "snapshot" => g.market \in Tickers
    BY <2>6
  <2>10. skip \in 0 .. 1 /\ s \in Streams /\ S \in SUBSET venue.snapshots
    BY <2>1, <2>2, <2>7
  <2> QED BY <2>4, <2>6, <2>8, <2>9, <2>10, NumberedStep
<1> QED BY <1>4, <1>5, <1>6

-----------------------------------------------------------------------------
(* The theorems                                                            *)

LEMMA SpliceInitially ==
  ASSUME SpliceAssumption, SpliceInit
  PROVE  SpliceInv
<1>1. PICK is \in TargetFiles : file = [is |-> is, since |-> 0]
  BY DEF SpliceInit
<1>2. now = 0 /\ loop = "top" /\ attempt = 0 /\ wake = 0 /\ commands = 0 /\ wire = <<>> /\ last = Nil
  BY DEF SpliceInit
<1>3. SpliceTypeOK
  BY <1>1, <1>2 DEF SpliceTypeOK
<1> QED BY <1>2, <1>3 DEF SpliceInv, LossIsProven

LEMMA SpliceStep ==
  ASSUME SpliceAssumption, SpliceInv, [SpliceNext]_svars
  PROVE  SpliceInv'
<1>1. CASE UNCHANGED svars
  <2>1. UNCHANGED <<now, file, loop, attempt, wake, conn, commands, wire, venue, last>>
    BY <1>1 DEF svars
  <2>2. SpliceTypeOK'
    BY <2>1 DEF SpliceInv, SpliceTypeOK
  <2>3. LossIsProven'
    BY <2>1 DEF SpliceInv, LossIsProven
  <2> QED BY <2>1, <2>2, <2>3 DEF SpliceInv
<1>2. CASE Fatal \/ AwaitTargets \/ ConnectFails \/ Sleep
  BY <1>2, WaitStep
<1>3. CASE TimeLimit \/ Retarget \/ Lost \/ Cancel
  BY <1>3, EndStep
<1>4. CASE Connect
  BY <1>4, ConnectStep
<1>5. CASE QuietTurn
  BY <1>5, QuietTurnStep
<1>6. CASE AskTurn
  BY <1>6, AskTurnStep
<1>7. CASE Receive
  BY <1>7, ReceiveStep
<1>8. CASE RecvTimeout
  BY <1>8, TimeoutStep
<1>9. CASE Acknowledge
  BY <1>9, AcknowledgeStep
<1>10. CASE Refuse
  BY <1>10, RefuseStep
<1>11. CASE Answer \/ InitialSnapshot \/ Update
  BY <1>11, PublishStep
<1>12. CASE Edit
  BY <1>12, EditFileStep
<1> QED BY <1>1, <1>2, <1>3, <1>4, <1>5, <1>6, <1>7, <1>8, <1>9, <1>10, <1>11, <1>12 DEF SpliceNext

(* A connection's bookkeeping: the last sweep and the last look at the     *)
(* targets are recent and left nothing to do, the subscription's command   *)
(* is older than the poller's, and the recorded counters are the venue's.  *)
THEOREM SpliceInvariance ==
  ASSUME SpliceAssumption
  PROVE  SpliceSpec => []SpliceInv
<1>1. SpliceInit => SpliceInv
  BY SpliceInitially
<1>2. SpliceInv /\ [SpliceNext]_svars => SpliceInv'
  BY SpliceStep
<1> QED BY <1>1, <1>2, PTL DEF SpliceSpec

LEMMA HonestBooks ==
  ASSUME SpliceAssumption, SpliceInv
  PROVE  QuietBooksAreAskedFor
<1> SUFFICES ASSUME loop = "recv", conn.sid, ~conn.disabled, NEW m \in conn.targets,
                    now - conn.seen[m] >= MaxAge + conn.sweep
             PROVE  conn.request[m] # Nil /\ now - conn.request[m] < Cooldown + conn.sweep
  BY DEF QuietBooksAreAskedFor
<1>1. OpenInv(conn, venue, wire, "recv", now, file, commands) /\ now \in Nat
  BY DEF SpliceInv, SpliceTypeOK
<1>2. /\ m \in Tickers /\ conn.lastSweep \in Nat /\ conn.sweep \in Nat /\ conn.seen[m] \in Nat
      /\ conn.request[m] \in Times
  BY <1>1 DEF OpenInv, ConnType
<1>3. now - conn.lastSweep < conn.sweep
  BY <1>1 DEF OpenInv, SweepInv
<1>4. MaxAge \in Nat /\ Cooldown \in Nat
  BY DEF SpliceAssumption
<1>5. conn.lastSweep - conn.seen[m] >= MaxAge
  BY <1>1, <1>2, <1>3, <1>4
<1>6. conn.request[m] # Nil /\ (conn.request[m] = conn.lastSweep \/ conn.lastSweep - conn.request[m] < Cooldown)
  BY <1>1, <1>5 DEF OpenInv, SweepInv
<1>7. conn.request[m] \in Nat
  BY <1>2, <1>6 DEF Times
<1> QED BY <1>1, <1>2, <1>3, <1>4, <1>6, <1>7

LEMMA HonestTargets ==
  ASSUME SpliceAssumption, SpliceInv
  PROVE  TargetsAreFollowed
<1> SUFFICES ASSUME loop = "recv", file.is # Unreadable, now - file.since > TargetPoll
             PROVE  conn.targets = file.is
  BY DEF TargetsAreFollowed
<1>1. OpenInv(conn, venue, wire, "recv", now, file, commands) /\ now \in Nat /\ file.since \in Nat
  BY DEF SpliceInv, SpliceTypeOK
<1>2. conn.lastCheck \in Nat /\ TargetPoll \in Nat
  BY <1>1 DEF OpenInv, ConnType, SpliceAssumption
<1>3. now - conn.lastCheck < TargetPoll \/ conn.lastCheck = now
  BY <1>1 DEF OpenInv, PollInv
<1>4. file.since < conn.lastCheck
  BY <1>1, <1>2, <1>3
<1> QED BY <1>1, <1>4 DEF OpenInv, PollInv

(* While a connection is open no book stays old in silence, the connection *)
(* follows the targets file, and the recorded counters prove a loss where  *)
(* the venue skipped a number, for any markets, intervals and messages     *)
(* (SnapshotPoller, _run_one_connection, frame_cursor).                    *)
THEOREM CaptureHonest ==
  ASSUME SpliceAssumption
  PROVE  SpliceSpec => []CaptureIsHonest
<1>1. SpliceInv => CaptureIsHonest
  BY HonestBooks, HonestTargets DEF CaptureIsHonest, SpliceInv
<1> QED BY <1>1, SpliceInvariance, PTL

LEMMA RefusalStep ==
  ASSUME SpliceInv, SpliceNext
  PROVE  RefusalCostsWhatItShould
<1> SUFFICES ASSUME NEW f \in {wire[i] : i \in DOMAIN wire}, Receive, f.type = "error"
             PROVE  loop' = "sleep" <=> f.answers = "subscribe"
  BY DEF RefusalCostsWhatItShould
<1>1. loop = "recv" /\ wire # <<>>
  BY DEF Receive
<1>2. PICK g \in FrameType : wire = <<g>>
  BY <1>1 DEF SpliceInv, SpliceTypeOK
<1>3. f = g /\ Head(wire) = g /\ wire[1] = g
  BY <1>2
<1>4. OpenInv(conn, venue, wire, "recv", now, file, commands)
  BY <1>1 DEF SpliceInv
<1>5. f.answers = "subscribe" <=> f.id \notin conn.asked
  BY <1>1, <1>3, <1>4 DEF OpenInv, WireInv
<1>6. ProtocolError(conn, f) <=> f.answers = "subscribe"
  BY <1>5 DEF ProtocolError, Attributed
<1>7. IF ProtocolError(conn, f) THEN loop' = "sleep" ELSE loop' = "turn"
  BY <1>3 DEF Receive, Close
<1> QED BY <1>6, <1>7

(* A refused or revoked subscription ends its epoch and a refused command  *)
(* of the poller does not, whatever else is outstanding (after_frame).     *)
THEOREM RefusalsCost ==
  ASSUME SpliceAssumption
  PROVE  SpliceSpec => RefusalsCostWhatTheyShould
<1>1. SpliceInv /\ [SpliceNext]_svars => [RefusalCostsWhatItShould]_svars
  BY RefusalStep
<1> QED BY <1>1, SpliceInvariance, PTL DEF SpliceSpec, RefusalsCostWhatTheyShould
=============================================================================
