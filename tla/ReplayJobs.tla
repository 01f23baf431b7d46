----------------------------- MODULE ReplayJobs -----------------------------
(***************************************************************************)
(* Replay jobs: the job table that the API and the runner share            *)
(* (universe/jobs/store.py, replay/jobs/contracts.py), the runner's tick   *)
(* (replay/jobs/runner.py), the stage markers in a job's directory and the *)
(* receipt in the object store (replay/jobs/stages.py), and the bundle     *)
(* cache that all jobs share (replay/jobs/bundle.py).                      *)
(*                                                                         *)
(* A tick may be killed between any two of its durable effects, a call to  *)
(* the store or the disk may fail (having landed or not), and a job's      *)
(* directory may be lost at any time: without bound when there is one job, *)
(* MaxTrouble times when there are several.  Every job here asks for the   *)
(* same bundle.  Time is two facts per job: `wait` (next_attempt_at_ns has *)
(* not passed) and `late` (max_job_seconds has).                           *)
(***************************************************************************)
EXTENDS Integers, FiniteSets, FiniteSetsExt

CONSTANTS
    MaxJobs,        \* bound on the jobs submitted
    MaxActive,      \* max_active_jobs_total
    MaxQueued,      \* max_queued_jobs_total
    MaxAttempts,    \* max_stage_attempts
    MaxProducers,   \* bound on the releases of the materializer
    MaxTrouble      \* bound on kills, failing calls and damage with several jobs

ASSUME JobsAssumption ==
    /\ MaxJobs \in Nat /\ MaxActive \in Nat /\ MaxQueued \in Nat
    /\ MaxAttempts \in Nat \ {0} /\ MaxProducers \in Nat /\ MaxTrouble \in Nat

Jobs == 1..MaxJobs
NoJob == 0
None == 0

\* Work stages in order; a job's marker m is the number of stages committed.
Resolve == 1
Bundle == 2
Prepare == 3
Run == 4
Read == 5
Archive == 6
WorkStages == Resolve..Read

Outcomes == {"succeeded", "failed", "exhausted", "not_ready", "stale_bundle_cache", "cancelled"}
Resumable == {"running", "archiving"}
Active == {"queued", "running", "archiving", "archive_blocked"}

\* How each stage ends a job (the failures that are not retried): a code stands
\* for all the codes of its outcome, integrity_failure for those that map to failed.
StageCodes ==
    [s \in WorkStages |->
        {"integrity_failure"} \cup
        CASE s \in {Resolve, Bundle} -> {"not_archived"}
          [] s = Run -> {"supervisor_exhausted"}
          [] OTHER -> {}]

OutcomeOfCode(code) ==
    CASE code = "cancelled" -> "cancelled"
      [] code = "not_archived" -> "not_ready"
      [] code = "stale_bundle_cache" -> "stale_bundle_cache"
      [] code = "supervisor_exhausted" -> "exhausted"
      [] OTHER -> "failed"

VARIABLES
    row,        \* the jobs table
    late,       \* jobs whose max_job_seconds have passed
    local,      \* each job's directory
    remote,     \* what the object store holds for each job
    producer,   \* the materializer in the runner's image
    uploaded,   \* producers whose derivatives are all in the store
    cache,      \* the producer of the immutable bundle receipt, or None
    pc, job,    \* the tick: where it is, and its job
    fresh,      \* the claim's mode is "initialize"
    ensured,    \* the bundle was obtained in this tick
    rooted,     \* _archive works on the job's directory
    mine,       \* the receipt this tick is publishing
    tries,      \* how often the stage a job is in was worked on
    several,    \* whether more than one job is submitted
    trouble     \* what has gone wrong so far, counted when `several`

tableVars == <<row, late>>
bundleVars == <<producer, uploaded, cache>>
tickVars == <<pc, job, fresh, ensured, rooted, mine>>
boundVars == <<several, trouble>>
vars == <<tableVars, local, remote, bundleVars, tickVars, tries, boundVars>>

NoReceipt == [outcome |-> "none", reason |-> "none", marks |-> None, stamp |-> None]
NoRow == [status |-> "absent", stage |-> None, attempts |-> 0, wait |-> FALSE,
          started |-> FALSE, outcome |-> "none", reason |-> "none", blocked |-> "none"]
\* A directory: absent, made but without request.json, held, or damaged.
NoDirectory == [dir |-> "absent", marks |-> 0, producer |-> None, half |-> FALSE,
                receipt |-> NoReceipt, bound |-> FALSE]
NothingStored == [objects |-> {}, receipt |-> NoReceipt]

Trouble ==
    /\ several => trouble < MaxTrouble
    /\ trouble' = IF several THEN trouble + 1 ELSE trouble
    /\ UNCHANGED several

Terminal(j) == row[j].status \in Outcomes
CountOf(S) == Cardinality({j \in Jobs : row[j].status \in S})

-----------------------------------------------------------------------------
(* Row transitions: contracts.py *)

NewJob == [NoRow EXCEPT !.status = "queued"]

EnterArchiving(r, outcome, code) ==
    [r EXCEPT !.status = "archiving", !.stage = Archive,
              !.attempts = IF r.status = "queued" THEN 0 ELSE 1,
              !.outcome = outcome, !.reason = code, !.wait = FALSE]

Succeed(r) == EnterArchiving(r, "succeeded", "none")
Fail(r, code) == EnterArchiving(r, OutcomeOfCode(code), code)
CancelRow(r) == EnterArchiving(r, "cancelled", "cancelled")

LoseLocalState(r) ==
    IF r.status = "running" THEN Fail(r, "local_state_lost")
    ELSE [r EXCEPT !.outcome = "failed", !.reason = "local_state_lost"]

AdvanceRow(r) == [r EXCEPT !.stage = @ + 1, !.attempts = 1, !.reason = "none"]

\* While archiving the pending outcome's reason stays as it is.
RetryLater(r, code) ==
    [r EXCEPT !.wait = TRUE, !.reason = IF r.status = "archiving" THEN @ ELSE code]

BlockArchive(r, code) ==
    [r EXCEPT !.status = "archive_blocked", !.blocked = code, !.wait = FALSE]

ResumeBlockedRow(r) == [r EXCEPT !.status = "archiving", !.attempts = 0, !.blocked = "none"]

FinishRow(r) == [r EXCEPT !.status = r.outcome, !.outcome = "none", !.attempts = 0, !.wait = FALSE]

\* Mutant: a resumed stage is not counted.
ClaimUncounted(r, overdue) ==
    IF r.status = "queued"
    THEN [r EXCEPT !.status = "running", !.stage = Resolve, !.attempts = 1,
                   !.started = TRUE, !.wait = TRUE]
    ELSE [r EXCEPT !.wait = TRUE]

\* The attempt is counted before any work runs.
Claim(r, overdue) ==
    CASE r.status = "queued" ->
            [r EXCEPT !.status = "running", !.stage = Resolve, !.attempts = 1,
                      !.started = TRUE, !.wait = TRUE]
      [] r.status = "running" /\ overdue -> Fail(r, "job_deadline_exceeded")
      [] r.status = "running" /\ ~overdue /\ r.attempts >= MaxAttempts ->
            Fail(r, "stage_attempts_exhausted")
      [] r.status = "archiving" /\ r.attempts >= MaxAttempts ->
            BlockArchive(r, "stage_attempts_exhausted")
      [] OTHER -> [r EXCEPT !.attempts = @ + 1, !.wait = TRUE]

Claimable(j) == row[j].status \in Resumable /\ ~row[j].wait

\* The oldest claimable resumable row, else the oldest queued one.
SelectNext ==
    LET resumable == {j \in Jobs : Claimable(j)}
        queued == {j \in Jobs : row[j].status = "queued"}
    IN  IF resumable # {} THEN Min(resumable)
        ELSE IF queued # {} THEN Min(queued) ELSE NoJob

-----------------------------------------------------------------------------
(* The API: submit, cancel; the operator: resume-blocked *)

CheckQuotas == CountOf(Active) < MaxActive /\ CountOf({"queued"}) < MaxQueued

Submit(j) ==
    /\ j > 1 => several
    /\ row[j].status = "absent" /\ \A i \in Jobs : i < j => row[i].status # "absent"
    /\ CheckQuotas
    /\ row' = [row EXCEPT ![j] = NewJob]
    /\ UNCHANGED <<late, local, remote, bundleVars, tickVars, tries, boundVars>>

CancelJob(j) ==
    /\ row[j].status = "queued"
    /\ row' = [row EXCEPT ![j] = CancelRow(@)]
    /\ UNCHANGED <<late, local, remote, bundleVars, tickVars, tries, boundVars>>

ResumeBlocked(j) ==
    /\ row[j].status = "archive_blocked"
    /\ row' = [row EXCEPT ![j] = ResumeBlockedRow(@)]
    /\ UNCHANGED <<late, local, remote, bundleVars, tickVars, tries, boundVars>>

-----------------------------------------------------------------------------
(* A tick: claim, then the root *)

Save(r) == row' = [row EXCEPT ![job] = r]
Goto(label) == pc' = label

EndTick ==
    /\ pc' = "idle" /\ job' = NoJob /\ fresh' = FALSE /\ ensured' = FALSE
    /\ rooted' = FALSE /\ mine' = NoReceipt

\* claim_next's mode: a queued row, or a cancellation nobody has claimed yet.
Initializes(r) ==
    \/ r.status = "queued"
    \/ r.status = "archiving" /\ r.outcome = "cancelled" /\ ~r.started /\ r.attempts = 0

\* Under the runner's flock, so one tick at a time.
ClaimNext ==
    /\ pc = "idle" /\ SelectNext # NoJob
    /\ LET j == SelectNext
           r == Claim(row[j], j \in late)
       IN  /\ row' = [row EXCEPT ![j] = r]
           /\ IF r.status = "archive_blocked" THEN UNCHANGED tickVars
              ELSE /\ job' = j /\ fresh' = Initializes(row[j])
                   /\ Goto(IF r.status = "archiving" THEN "adopt" ELSE "root")
                   /\ UNCHANGED <<ensured, rooted, mine>>
    /\ UNCHANGED <<late, local, remote, bundleVars, tries, boundVars>>

\* _validate_receipt_row
ReceiptFitsRow(receipt, r) == receipt.outcome = r.outcome /\ receipt.reason = r.reason

\* _verify_remote_objects: every object the receipt names is in the store.
ObjectsStored(j, receipt) == 0..(receipt.marks - 1) \subseteq remote[j].objects

\* Mutant: any receipt under this job's key is this job's end.
AdoptAny ==
    /\ pc = "adopt" /\ remote[job].receipt # NoReceipt
    /\ Save(FinishRow(row[job])) /\ EndTick
    /\ UNCHANGED <<late, local, remote, bundleVars, tries, boundVars>>

\* adopt_published_for_row: a crash came between publication and finish.
AdoptPublished ==
    /\ pc = "adopt" /\ remote[job].receipt # NoReceipt
    /\ IF ReceiptFitsRow(remote[job].receipt, row[job]) /\ ObjectsStored(job, remote[job].receipt)
       THEN Save(FinishRow(row[job])) ELSE Save(BlockArchive(row[job], "archive_conflict"))
    /\ EndTick
    /\ UNCHANGED <<late, local, remote, bundleVars, tries, boundVars>>

\* Nothing is published, or the store does not answer: the ordinary resume path.
AdoptNothing ==
    /\ pc = "adopt" /\ Goto("root")
    /\ IF remote[job].receipt = NoReceipt THEN UNCHANGED boundVars ELSE Trouble
    /\ UNCHANGED <<tableVars, local, remote, bundleVars, job, fresh, ensured, rooted, mine, tries>>

RetryingInitialization ==
    /\ row[job].status = "running" /\ row[job].stage = Resolve
    /\ row[job].reason = "resource_exhausted" /\ local[job].dir = "absent"

Initializing == fresh \/ RetryingInitialization

\* initialize_job_root makes the directory, then writes request.json.
MakeRoot ==
    /\ pc = "root" /\ Initializing /\ local[job].dir = "absent"
    /\ local' = [local EXCEPT ![job].dir = "empty"]
    /\ Goto("request")
    /\ UNCHANGED <<tableVars, remote, bundleVars, job, fresh, ensured, rooted, mine, tries, boundVars>>

\* Where a tick goes once its root is open.
RootOpened == Goto(IF row[job].status = "archiving" THEN "freeze" ELSE "stage") /\ rooted' = TRUE

WriteRequest ==
    /\ pc = "request" /\ local[job].dir = "empty"
    /\ local' = [local EXCEPT ![job].dir = "held"]
    /\ RootOpened
    /\ UNCHANGED <<tableVars, remote, bundleVars, job, fresh, ensured, mine, tries, boundVars>>

\* validate_job_root and validate_committed_markers: the request is the one
\* submitted, the markers the row's stage needs are there, none is half made.
RootIsValid(j) ==
    /\ local[j].dir = "held" /\ ~local[j].half
    /\ row[j].stage \in WorkStages => local[j].marks >= row[j].stage - 1

OpenRoot ==
    /\ pc = "root" /\ local[job].dir # "absent" /\ RootIsValid(job)
    /\ RootOpened
    /\ UNCHANGED <<tableVars, local, remote, bundleVars, job, fresh, ensured, mine, tries, boundVars>>

\* LocalStateError: the outcome becomes local_state_lost and no directory is used.
LoseRoot ==
    /\ Save(LoseLocalState(row[job])) /\ rooted' = FALSE /\ Goto("freeze")
    /\ UNCHANGED <<late, local, remote, bundleVars, job, fresh, ensured, mine, tries, boundVars>>

RootIsLost ==
    /\ \/ pc = "root" /\ ~RootIsValid(job) /\ ~(Initializing /\ local[job].dir = "absent")
       \/ pc = "request" /\ local[job].dir # "empty"
    /\ LoseRoot

\* OSError while the root is made; a directory without request.json is removed.
RootFails ==
    /\ Trouble /\ pc \in {"root", "request"}
    /\ local' = [local EXCEPT ![job].dir = IF @ = "empty" THEN "absent" ELSE @]
    /\ Save(RetryLater(row[job], "resource_exhausted")) /\ EndTick
    /\ UNCHANGED <<late, remote, bundleVars, tries>>

-----------------------------------------------------------------------------
(* A tick: _work_stage *)

Stage == row[job].stage
Counted == tries' = [tries EXCEPT ![job] = @ + 1]
MarkedBy(j, s) == local[j].marks >= s

\* A stage from bundle on first obtains the bundle, once per tick.
NeedsBundle == Stage >= Bundle /\ ~ensured

BeginStage ==
    /\ pc = "stage" /\ local[job].dir = "held" /\ ~NeedsBundle
    /\ Goto(CASE MarkedBy(job, Stage) -> "advance"
              [] ~MarkedBy(job, Stage) /\ Stage = Prepare -> "context"
              [] OTHER -> "mark")
    /\ Counted
    /\ UNCHANGED <<tableVars, local, remote, bundleVars, job, fresh, ensured, rooted, mine, boundVars>>

\* ensure_bundle: the cached receipt if it is this producer's, else a build.
EnsureCached ==
    /\ pc = "stage" /\ local[job].dir = "held" /\ NeedsBundle
    /\ cache = producer /\ (MarkedBy(job, Bundle) => local[job].producer = cache)
    /\ ensured' = TRUE
    /\ UNCHANGED <<tableVars, local, remote, bundleVars, pc, job, fresh, rooted, mine, tries, boundVars>>

\* _build: the derivatives are uploaded first ...
BuildBundle ==
    /\ pc = "stage" /\ local[job].dir = "held" /\ NeedsBundle
    /\ ~MarkedBy(job, Bundle) /\ cache = None
    /\ uploaded' = uploaded \cup {producer} /\ Goto("bind")
    /\ UNCHANGED <<tableVars, local, remote, producer, cache, job, fresh, ensured, rooted, mine, tries, boundVars>>

\* ... and the bundle's immutable receipt is put last.
PutBundleReceipt ==
    /\ pc = "bind"
    /\ cache' = IF cache = None THEN producer ELSE cache
    /\ ensured' = TRUE /\ Goto("stage")
    /\ UNCHANGED <<tableVars, local, remote, producer, uploaded, job, fresh, rooted, mine, tries, boundVars>>

\* fail(): the work ends with an outcome, and this tick archives it.
EndWork(code) ==
    /\ Save(Fail(row[job], code)) /\ Goto("freeze")
    /\ UNCHANGED <<late, local, remote, bundleVars, job, fresh, ensured, rooted, mine, tries, boundVars>>

\* Another producer's receipt is in the cache: a job that holds a bundle.json
\* cannot recover its pins, any other one is told so.
CacheIsStale ==
    /\ pc = "stage" /\ local[job].dir = "held" /\ NeedsBundle
    /\ IF MarkedBy(job, Bundle)
       THEN (cache # producer \/ local[job].producer # cache) /\ EndWork("integrity_failure")
       ELSE cache \notin {None, producer} /\ EndWork("stale_bundle_cache")

\* prepare() writes context.json and then the receipt that commits it.
WriteContext ==
    /\ pc = "context" /\ local[job].dir = "held"
    /\ local' = [local EXCEPT ![job].half = TRUE]
    /\ Goto("mark")
    /\ UNCHANGED <<tableVars, remote, bundleVars, job, fresh, ensured, rooted, mine, tries, boundVars>>

\* The stage's work is done and its marker is written: resolved.json,
\* bundle.json, context/receipt.json, run/SUCCESS.json, result.json.
WriteMarker ==
    /\ pc = "mark" /\ local[job].dir = "held"
    /\ local' = [local EXCEPT ![job].marks = Stage, ![job].half = FALSE,
                              ![job].producer = IF Stage = Bundle THEN cache ELSE @]
    /\ Goto("advance")
    /\ UNCHANGED <<tableVars, remote, bundleVars, job, fresh, ensured, rooted, mine, tries, boundVars>>

\* The row follows its marker; after the last stage the job has succeeded.
Advance ==
    /\ pc = "advance"
    /\ IF Stage = Read THEN Save(Succeed(row[job])) /\ Goto("freeze")
       ELSE Save(AdvanceRow(row[job])) /\ Goto("stage")
    /\ tries' = [tries EXCEPT ![job] = 0]
    /\ UNCHANGED <<late, local, remote, bundleVars, job, fresh, ensured, rooted, mine, boundVars>>

\* A StageFailure whose code is not retryable.
StageFails ==
    /\ pc = "mark"
    /\ \E code \in StageCodes[Stage] : EndWork(code)

\* A retryable code, or an OSError: the directory keeps what it has.
StageRetries ==
    /\ Trouble /\ pc \in {"stage", "bind", "context", "mark"}
    /\ Save(RetryLater(row[job], "resource_exhausted")) /\ EndTick
    /\ UNCHANGED <<late, local, remote, bundleVars, tries>>

\* A marker cannot be read back.
StageLosesState ==
    /\ pc \in {"stage", "context", "mark"} /\ local[job].dir # "held"
    /\ LoseRoot

-----------------------------------------------------------------------------
(* A tick: _archive *)

\* A finish time no receipt of this job carries yet.
FreshStamp(j) == Min({n \in 1..3 : n \notin {remote[j].receipt.stamp, local[j].receipt.stamp}})

\* The receipt names request.json and the files of every committed stage.
FrozenReceipt(j, root) ==
    [outcome |-> row[j].outcome, reason |-> row[j].reason, stamp |-> FreshStamp(j),
     marks |-> IF root THEN local[j].marks + 1 ELSE 0]

\* freeze_job_receipt: job_receipt.json is written once, before any upload.
FreezeReceipt ==
    /\ pc = "freeze" /\ rooted /\ local[job].dir = "held" /\ local[job].receipt = NoReceipt
    /\ local' = [local EXCEPT ![job].receipt = FrozenReceipt(job, TRUE)]
    /\ Goto("bound")
    /\ UNCHANGED <<tableVars, remote, bundleVars, job, fresh, ensured, rooted, mine, tries, boundVars>>

\* archive_state.json binds it; an earlier tick's receipt must be of this outcome.
BindReceipt ==
    /\ pc \in {"freeze", "bound"} /\ rooted /\ local[job].dir = "held"
    /\ local[job].receipt # NoReceipt /\ ReceiptFitsRow(local[job].receipt, row[job])
    /\ mine' = local[job].receipt
    /\ local' = [local EXCEPT ![job].bound = TRUE]
    /\ Goto("remote")
    /\ UNCHANGED <<tableVars, remote, bundleVars, job, fresh, ensured, rooted, tries, boundVars>>

\* Without a directory the receipt lives in memory only.
FreezeRootless ==
    /\ pc = "freeze" /\ ~rooted
    /\ mine' = FrozenReceipt(job, FALSE) /\ Goto("remote")
    /\ UNCHANGED <<tableVars, local, remote, bundleVars, job, fresh, ensured, rooted, tries, boundVars>>

\* A frozen receipt of another outcome, or a damaged directory.
ArchiveLosesState ==
    /\ pc \in {"freeze", "bound", "objects"} /\ rooted
    /\ \/ local[job].dir # "held"
       \/ local[job].receipt # NoReceipt /\ ~ReceiptFitsRow(local[job].receipt, row[job])
    /\ LoseRoot

\* adopt_remote_receipt: the remote receipt must be these very bytes.
AdoptRemote ==
    /\ pc \in {"remote", "confirm"}
    /\ IF remote[job].receipt = NoReceipt
       THEN pc = "remote" /\ Goto("objects") /\ UNCHANGED <<row, job, fresh, ensured, rooted, mine>>
       ELSE IF remote[job].receipt = mine /\ ObjectsStored(job, mine)
            THEN Goto("finish") /\ UNCHANGED <<row, job, fresh, ensured, rooted, mine>>
            ELSE Save(BlockArchive(row[job], "archive_conflict")) /\ EndTick
    /\ UNCHANGED <<late, local, remote, bundleVars, tries, boundVars>>

Missing == (0..(mine.marks - 1)) \ remote[job].objects

PutObject ==
    /\ pc = "objects" /\ (rooted => local[job].dir = "held") /\ Missing # {}
    /\ remote' = [remote EXCEPT ![job].objects = @ \cup {Min(Missing)}]
    /\ UNCHANGED <<tableVars, local, bundleVars, tickVars, tries, boundVars>>

\* The receipt is put last; the key was empty when this tick looked, and no
\* other process writes it.
PutReceipt ==
    /\ pc = "objects" /\ (rooted => local[job].dir = "held") /\ Missing = {}
    /\ remote[job].receipt = NoReceipt
    /\ remote' = [remote EXCEPT ![job].receipt = mine] /\ Goto("confirm")
    /\ UNCHANGED <<tableVars, local, bundleVars, job, fresh, ensured, rooted, mine, tries, boundVars>>

Finish ==
    /\ pc = "finish" /\ Save(FinishRow(row[job])) /\ EndTick
    /\ UNCHANGED <<late, local, remote, bundleVars, tries, boundVars>>

\* archive_unavailable: a call failed, or the disk did while freezing.
ArchiveRetries ==
    /\ Trouble /\ pc \in {"freeze", "bound", "remote", "objects", "confirm"}
    /\ Save(RetryLater(row[job], "archive_unavailable")) /\ EndTick
    /\ UNCHANGED <<late, local, remote, bundleVars, tries>>

-----------------------------------------------------------------------------
(* What the world does *)

\* Both clocks matter when the job is next claimed.
BackoffPasses(j) ==
    /\ j # job /\ row[j].wait /\ row' = [row EXCEPT ![j].wait = FALSE]
    /\ UNCHANGED <<late, local, remote, bundleVars, tickVars, tries, boundVars>>

DeadlinePasses(j) ==
    /\ j # job /\ row[j].status = "running" /\ j \notin late /\ late' = late \cup {j}
    /\ UNCHANGED <<row, local, remote, bundleVars, tickVars, tries, boundVars>>

\* The runner's process dies: its lock and its memory go, nothing else does.
Kill == Trouble /\ pc # "idle" /\ EndTick /\ UNCHANGED <<tableVars, local, remote, bundleVars, tries>>

\* The directory is lost, or one of its files does not read back; nothing
\* looks into a finished job's directory.
Damage(j, how) ==
    /\ Trouble /\ ~Terminal(j) /\ how \in {"absent", "damaged"} /\ local[j].dir \in {"empty", "held"}
    /\ local' = [local EXCEPT ![j] = [NoDirectory EXCEPT !.dir = how]]
    /\ UNCHANGED <<tableVars, remote, bundleVars, tickVars, tries>>

\* Another image is deployed while no tick runs.
Deploy ==
    /\ pc = "idle" /\ producer < MaxProducers /\ producer' = producer + 1
    /\ UNCHANGED <<tableVars, local, remote, uploaded, cache, tickVars, tries, boundVars>>

-----------------------------------------------------------------------------
Init ==
    /\ row = [j \in Jobs |-> NoRow] /\ late = {}
    /\ local = [j \in Jobs |-> NoDirectory] /\ remote = [j \in Jobs |-> NothingStored]
    /\ producer = 1 /\ uploaded = {} /\ cache = None
    /\ pc = "idle" /\ job = NoJob /\ fresh = FALSE /\ ensured = FALSE
    /\ rooted = FALSE /\ mine = NoReceipt
    /\ tries = [j \in Jobs |-> 0]
    /\ several \in BOOLEAN /\ trouble = 0

TickStep ==
    \/ AdoptPublished \/ AdoptNothing \/ MakeRoot \/ WriteRequest \/ OpenRoot \/ RootIsLost
    \/ RootFails \/ BeginStage \/ EnsureCached \/ BuildBundle \/ PutBundleReceipt \/ CacheIsStale
    \/ WriteContext \/ WriteMarker \/ Advance \/ StageFails \/ StageRetries \/ StageLosesState
    \/ FreezeReceipt \/ BindReceipt \/ FreezeRootless \/ ArchiveLosesState \/ AdoptRemote
    \/ PutObject \/ PutReceipt \/ Finish \/ ArchiveRetries

Next ==
    \/ ClaimNext \/ TickStep \/ Kill \/ Deploy
    \/ \E j \in Jobs : Submit(j) \/ CancelJob(j) \/ ResumeBlocked(j)
                       \/ BackoffPasses(j) \/ DeadlinePasses(j)
    \/ \E j \in Jobs, how \in {"absent", "damaged"} : Damage(j, how)

Spec == Init /\ [][Next]_vars

\* cron runs a tick every minute and time passes; nothing else is promised.
FairSpec ==
    /\ Spec /\ WF_vars(ClaimNext) /\ WF_vars(TickStep)
    /\ \A j \in Jobs : WF_vars(BackoffPasses(j))

-----------------------------------------------------------------------------
(* Properties *)

Ended(j) == Terminal(j) \/ row[j].status = "archive_blocked"

Codes == {"none", "cancelled", "not_archived", "stale_bundle_cache", "supervisor_exhausted",
          "integrity_failure", "local_state_lost", "job_deadline_exceeded", "resource_exhausted",
          "stage_attempts_exhausted", "archive_unavailable", "archive_conflict"}
Receipt == [outcome : Outcomes \cup {"none"}, reason : Codes, marks : 0..(Read + 1), stamp : 0..3]
Row == [status : Outcomes \cup Active \cup {"absent"}, stage : 0..Archive,
        attempts : 0..MaxAttempts, wait : BOOLEAN, started : BOOLEAN,
        outcome : Outcomes \cup {"none"}, reason : Codes, blocked : Codes]
Directory == [dir : {"absent", "empty", "held", "damaged"}, marks : 0..Read, producer : Nat,
              half : BOOLEAN, receipt : Receipt, bound : BOOLEAN]
Stored == [objects : SUBSET (0..Read), receipt : Receipt]

TypeOK ==
    /\ row \in [Jobs -> Row] /\ local \in [Jobs -> Directory] /\ remote \in [Jobs -> Stored]
    /\ tries \in [Jobs -> Nat] /\ mine \in Receipt
    /\ cache \in Nat /\ producer \in Nat /\ fresh \in BOOLEAN /\ rooted \in BOOLEAN
    /\ job \in Jobs \cup {NoJob} /\ (pc = "idle" <=> job = NoJob)

\* A finished row tells the outcome its published receipt tells, every object
\* that receipt names is in the store, a success has a file of every stage and
\* a cancelled job has none but its request (finish, archive_stage).
TerminalIsPublished ==
    \A j \in Jobs : Terminal(j) =>
        LET receipt == remote[j].receipt IN
        /\ receipt.outcome = row[j].status /\ ObjectsStored(j, receipt)
        /\ row[j].status = "succeeded" => receipt.marks = Read + 1
        /\ row[j].status = "cancelled" => receipt.marks <= 1 /\ ~row[j].started

\* However ticks die, no stage is worked on more often than its budget
\* (claim counts the attempt before the work).
BudgetHolds == \A j \in Jobs : tries[j] <= MaxAttempts

\* A bundle receipt in the store names derivatives that are in the store, and a
\* row is never ahead of the markers of a directory that is whole (_build).
NothingNamedIsMissing ==
    /\ cache # None => cache \in uploaded
    /\ \A j \in Jobs : (row[j].status = "running" /\ local[j].dir = "held")
                          => local[j].marks >= row[j].stage - 1

\* An archive is blocked as a conflict only when a receipt really is in the
\* store under the job's key (_archive, block_archive).
ConflictIsReal ==
    \A j \in Jobs : row[j].blocked = "archive_conflict" => remote[j].receipt # NoReceipt

\* A finished job's row, its published receipt and the objects it names agree; no
\* stage is worked on more often than its budget; no row and no bundle receipt is
\* ahead of what is stored; and a conflict is only reported where there is one
\* (finish, claim, archive_stage, _build).
JobsAreSound ==
    TerminalIsPublished /\ BudgetHolds /\ NothingNamedIsMissing /\ ConflictIsReal

\* Every submitted job is finished or needs an operator, even if ticks are
\* killed again and again: the attempts they spend run out.
EveryJobEnds == \A j \in Jobs : (row[j].status = "queued") ~> Ended(j)

-----------------------------------------------------------------------------
(* The inductive invariant of ReplayJobsProofs *)

Working == {"stage", "bind", "context", "mark", "advance"}
Archiving == {"freeze", "bound", "remote", "objects", "confirm", "finish"}

\* What a row's status says of its other columns and of its directory.
RowInv(j) ==
    /\ row[j].status = "running" =>
          /\ row[j].started /\ row[j].stage \in WorkStages
          /\ local[j].dir = "held" => local[j].marks >= row[j].stage - 1
    /\ (row[j].outcome = "none") <=> (row[j].status \notin {"archiving", "archive_blocked"})
    /\ row[j].status \in {"absent", "queued"} \/ row[j].outcome = "cancelled" => ~row[j].started
    /\ ~row[j].started => local[j].marks = 0
    /\ row[j].outcome = "succeeded" /\ local[j].dir = "held" => local[j].marks = Read

\* A stage was begun at most as often as attempts were counted.
BudgetInv(j) ==
    /\ tries[j] <= MaxAttempts
    /\ row[j].status \in {"absent", "queued"} => tries[j] = 0
    /\ row[j].status = "running" => tries[j] <= row[j].attempts

\* A receipt of a success names every stage's files, one of a cancellation no
\* stage's: the frozen one, the one being published and the published one.
Whole(receipt) ==
    /\ receipt.outcome = "succeeded" => receipt.marks = Read + 1
    /\ receipt.outcome = "cancelled" => receipt.marks <= 1

ReceiptInv(j) ==
    /\ Whole(local[j].receipt) /\ Whole(remote[j].receipt)
    /\ remote[j].receipt # NoReceipt => ObjectsStored(j, remote[j].receipt)
    /\ row[j].blocked = "archive_conflict" => remote[j].receipt # NoReceipt
    /\ Terminal(j) => /\ remote[j].receipt.outcome = row[j].status
                      /\ row[j].status = "cancelled" => ~row[j].started

\* A root is made only for a job's first stage, or for a cancellation that was never
\* claimed before.
FirstRoot ==
    \/ row[job].status = "running" /\ row[job].stage = Resolve
    \/ row[job].status = "archiving" /\ row[job].outcome = "cancelled"

\* Which row, directory and receipt a tick holds at each of its labels.  The
\* attempt is counted before the stage begins.
TickInv ==
    /\ pc \in {"idle", "adopt", "root", "request"} \cup Working \cup Archiving
    /\ pc = "adopt" => row[job].status = "archiving"
    /\ pc \in {"root", "request"} => row[job].status \in Resumable
    /\ pc \in Working => row[job].status = "running" /\ rooted
    /\ pc \in Archiving => row[job].status = "archiving" /\ (rooted \/ row[job].outcome = "failed")
    /\ (fresh /\ pc \in {"adopt", "root"}) \/ pc = "request" => FirstRoot
    /\ pc \in {"root", "request", "stage", "bind"} /\ row[job].status = "running"
          => tries[job] < row[job].attempts
    /\ pc = "advance" /\ local[job].dir = "held" => local[job].marks >= row[job].stage
    /\ pc \in {"remote", "objects", "confirm", "finish"} => ReceiptFitsRow(mine, row[job])
    /\ pc \in {"confirm", "finish"} => remote[job].receipt # NoReceipt
    /\ pc = "finish" => remote[job].receipt = mine

\* The bundle's receipt is put after the derivatives it names.
BundleInv ==
    /\ cache # None => cache \in uploaded
    /\ pc = "bind" => producer \in uploaded

IInv ==
    /\ TypeOK /\ Whole(mine) /\ TickInv /\ BundleInv
    /\ \A j \in Jobs : RowInv(j) /\ BudgetInv(j) /\ ReceiptInv(j)

=============================================================================
