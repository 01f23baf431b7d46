-------------------------- MODULE ReplayJobsProofs --------------------------
(***************************************************************************)
(* Proofs about replay jobs: for any number of jobs, kills, failing calls  *)
(* and lost directories, a finished row tells what its published receipt   *)
(* tells, budgets hold, and nothing that is named is missing.              *)
(***************************************************************************)
EXTENDS ReplayJobs, WellFoundedInduction, TLAPS

-----------------------------------------------------------------------------
(* Operators of the model                                                  *)

\* Values the columns of a row may hold.
LEMMA ColumnFacts ==
    /\ \A s \in {"queued", "running", "archiving", "archive_blocked"} : s \in Outcomes \cup Active \cup {"absent"}
    /\ \A o \in Outcomes : o \in Outcomes \cup Active \cup {"absent"} /\ o \in Outcomes \cup {"none"}
    /\ "failed" \in Outcomes /\ "succeeded" \in Outcomes /\ "cancelled" \in Outcomes
    /\ "none" \in Outcomes \cup {"none"}
    /\ 0 \in 0..MaxAttempts /\ 1 \in 0..MaxAttempts
    /\ Archive \in 0..Archive /\ Resolve \in 0..Archive /\ Resolve \in WorkStages
    /\ 0 \in 0..Archive
BY JobsAssumption DEF Outcomes, Active, Archive, Resolve, WorkStages, Read

\* The oldest job and the first missing object exist (select_next, archive_stage).
LEMMA MinMember ==
    ASSUME NEW T \in SUBSET Nat, T # {}
    PROVE  Min(T) \in T
<1>1. PICK x \in T : \A y \in T : ~(<<y, x>> \in OpToRel(<, Nat))
  BY NatLessThanWellFounded, WFMin, Zenon
<1>2. \A y \in T : ~(y < x)  BY <1>1 DEF OpToRel
<1>3. \A y \in T : x <= y  BY <1>2
<1> QED  BY <1>3 DEF Min

\* A claim is for a job that waits for one (_select_next).
LEMMA SelectFacts ==
    ASSUME TypeOK, SelectNext # NoJob
    PROVE  /\ SelectNext \in Jobs
           /\ row[SelectNext].status \in {"queued", "running", "archiving"}
<1> USE DEF Jobs, NoJob
<1> DEFINE R == {j \in Jobs : Claimable(j)}
           Q == {j \in Jobs : row[j].status = "queued"}
<1>1. CASE R # {}
  <2>1. Min(R) \in R  BY <1>1, MinMember, JobsAssumption
  <2>2. SelectNext = Min(R)  BY <1>1 DEF SelectNext
  <2> QED  BY <2>1, <2>2 DEF Claimable, Resumable
<1>2. CASE R = {} /\ Q # {}
  <2>1. Min(Q) \in Q  BY <1>2, MinMember, JobsAssumption
  <2>2. SelectNext = Min(Q)  BY <1>2 DEF SelectNext
  <2> QED  BY <2>1, <2>2
<1> QED  BY <1>1, <1>2 DEF SelectNext

\* Ending the work keeps what a row is (enter_archiving, fail, succeed, cancel).
LEMMA EnterFacts ==
    ASSUME NEW r \in Row, NEW o \in Outcomes, NEW c \in Codes
    PROVE  /\ EnterArchiving(r, o, c) \in Row
           /\ EnterArchiving(r, o, c).status = "archiving"
           /\ EnterArchiving(r, o, c).outcome = o
           /\ EnterArchiving(r, o, c).started = r.started
           /\ EnterArchiving(r, o, c).blocked = r.blocked
BY ColumnFacts, Zenon DEF EnterArchiving, Row

\* A failure is neither a success nor a cancellation (OutcomeOfCode).
LEMMA FailFacts ==
    ASSUME NEW r \in Row, NEW c \in Codes, c # "cancelled"
    PROVE  /\ Fail(r, c) \in Row /\ Fail(r, c).status = "archiving"
           /\ Fail(r, c).outcome \in Outcomes
           /\ Fail(r, c).outcome # "succeeded" /\ Fail(r, c).outcome # "cancelled"
           /\ Fail(r, c).started = r.started /\ Fail(r, c).blocked = r.blocked
           /\ c = "local_state_lost" => Fail(r, c).outcome = "failed"
<1>1. /\ OutcomeOfCode(c) \in Outcomes
      /\ OutcomeOfCode(c) # "succeeded" /\ OutcomeOfCode(c) # "cancelled"
      /\ c = "local_state_lost" => OutcomeOfCode(c) = "failed"
  BY DEF OutcomeOfCode, Outcomes
<1> QED  BY <1>1, EnterFacts, Zenon DEF Fail

\* A lost directory turns whatever the outcome was into a failure (lose_local_state).
LEMMA LoseFacts ==
    ASSUME NEW r \in Row, r.status \in {"running", "archiving"}
    PROVE  /\ LoseLocalState(r) \in Row /\ LoseLocalState(r).status = "archiving"
           /\ LoseLocalState(r).outcome = "failed"
           /\ LoseLocalState(r).started = r.started /\ LoseLocalState(r).blocked = r.blocked
<1>1. "local_state_lost" \in Codes /\ "local_state_lost" # "cancelled" /\ "archiving" # "running"
  BY DEF Codes
<1>2. CASE r.status = "running"
  <2>1. LoseLocalState(r) = Fail(r, "local_state_lost")  BY <1>2 DEF LoseLocalState
  <2> QED  BY <1>1, <2>1, FailFacts
<1>3. CASE r.status = "archiving"
  <2>1. LoseLocalState(r) = [r EXCEPT !.outcome = "failed", !.reason = "local_state_lost"]
    BY <1>1, <1>3 DEF LoseLocalState
  <2> QED  BY <1>1, <1>3, <2>1, ColumnFacts, Zenon DEF Row
<1> QED  BY <1>2, <1>3

\* A claim counts the attempt, ends a job that has none left, or blocks it.
Claimed(r, c) ==
    /\ c.blocked = r.blocked \/ c.blocked = "stage_attempts_exhausted"
    /\ \/ /\ r.status = "queued" /\ c.status = "running" /\ c.stage = Resolve
          /\ c.attempts = 1 /\ c.started = TRUE /\ c.outcome = r.outcome
       \/ /\ r.status = "running" /\ c.started = r.started
          /\ c.status = "running" /\ c.stage = r.stage
          /\ c.attempts = r.attempts + 1 /\ c.outcome = r.outcome
       \/ /\ r.status = "running" /\ c.started = r.started
          /\ c.status = "archiving" /\ c.outcome \in Outcomes
          /\ c.outcome # "succeeded" /\ c.outcome # "cancelled"
       \/ /\ r.status = "archiving" /\ c.started = r.started
          /\ c.outcome = r.outcome /\ c.status \in {"archiving", "archive_blocked"}

LEMMA ClaimFacts ==
    ASSUME NEW r \in Row, NEW b \in BOOLEAN, r.status \in {"queued", "running", "archiving"}
    PROVE  Claim(r, b) \in Row /\ Claimed(r, Claim(r, b))
<1> USE DEF Claimed
<1> USE JobsAssumption
<1>1. /\ "job_deadline_exceeded" \in Codes /\ "job_deadline_exceeded" # "cancelled"
      /\ "stage_attempts_exhausted" \in Codes /\ "stage_attempts_exhausted" # "cancelled"
  BY DEF Codes
<1>2. CASE r.status = "queued"
  <2>1. Claim(r, b) = [r EXCEPT !.status = "running", !.stage = Resolve, !.attempts = 1,
                                !.started = TRUE, !.wait = TRUE]
    BY <1>2 DEF Claim
  <2> QED  BY <1>2, <2>1, ColumnFacts, ZenonT(60) DEF Row
<1>3. CASE r.status = "running" /\ b
  <2>1. Claim(r, b) = Fail(r, "job_deadline_exceeded")  BY <1>3 DEF Claim
  <2>2. r.status = "running"  BY <1>3
  <2> QED  BY <1>1, <2>1, <2>2, FailFacts
<1>4. CASE r.status = "running" /\ ~b /\ r.attempts >= MaxAttempts
  <2>1. Claim(r, b) = Fail(r, "stage_attempts_exhausted")  BY <1>4 DEF Claim
  <2> QED  BY <1>1, <1>4, <2>1, FailFacts
<1>5. CASE r.status = "archiving" /\ r.attempts >= MaxAttempts
  <2>1. Claim(r, b) = BlockArchive(r, "stage_attempts_exhausted")  BY <1>5 DEF Claim
  <2> QED  BY <1>1, <1>5, <2>1, ColumnFacts, ZenonT(60) DEF BlockArchive, Row
<1>6. CASE /\ r.status \in {"running", "archiving"} /\ ~(r.attempts >= MaxAttempts)
           /\ ~(r.status = "running" /\ b)
  <2>1. Claim(r, b) = [r EXCEPT !.attempts = r.attempts + 1, !.wait = TRUE]
    BY <1>6 DEF Claim
  <2>2. r.attempts + 1 \in 0..MaxAttempts  BY <1>6 DEF Row
  <2>3. CASE r.status = "running"  BY <2>1, <2>2, <2>3, ColumnFacts, Zenon DEF Row
  <2>4. CASE r.status = "archiving"  BY <2>1, <2>2, <2>4, ColumnFacts, Zenon DEF Row
  <2> QED  BY <1>6, <2>3, <2>4
<1> QED  BY <1>2, <1>3, <1>4, <1>5, <1>6

\* A retry, a blocked archive and an operator's resume leave the outcome alone.
LEMMA RetryFacts ==
    ASSUME NEW r \in Row, NEW c \in Codes
    PROVE  /\ RetryLater(r, c) \in Row /\ RetryLater(r, c).status = r.status
           /\ RetryLater(r, c).stage = r.stage /\ RetryLater(r, c).attempts = r.attempts
           /\ RetryLater(r, c).outcome = r.outcome /\ RetryLater(r, c).started = r.started
           /\ RetryLater(r, c).blocked = r.blocked
<1>1. (IF r.status = "archiving" THEN r.reason ELSE c) \in Codes  BY DEF Row
<1>2. RetryLater(r, c) = [r EXCEPT !.wait = TRUE, !.reason = IF r.status = "archiving" THEN r.reason ELSE c]
  BY DEF RetryLater
<1> QED  BY <1>1, <1>2, Zenon DEF Row

LEMMA BlockFacts ==
    ASSUME NEW r \in Row, NEW c \in Codes
    PROVE  /\ BlockArchive(r, c) \in Row /\ BlockArchive(r, c).status = "archive_blocked"
           /\ BlockArchive(r, c).outcome = r.outcome /\ BlockArchive(r, c).started = r.started
           /\ BlockArchive(r, c).blocked = c
BY ColumnFacts, Zenon DEF BlockArchive, Row

LEMMA ResumeFacts ==
    ASSUME NEW r \in Row
    PROVE  /\ ResumeBlockedRow(r) \in Row /\ ResumeBlockedRow(r).status = "archiving"
           /\ ResumeBlockedRow(r).outcome = r.outcome /\ ResumeBlockedRow(r).started = r.started
           /\ ResumeBlockedRow(r).blocked = "none"
<1>1. "none" \in Codes  BY DEF Codes
<1> QED  BY <1>1, ColumnFacts, Zenon DEF ResumeBlockedRow, Row

\* A finished row's status is the outcome it was archived with (finish).
LEMMA FinishFacts ==
    ASSUME NEW r \in Row, r.outcome \in Outcomes
    PROVE  /\ FinishRow(r) \in Row /\ FinishRow(r).status = r.outcome /\ FinishRow(r).outcome = "none"
           /\ FinishRow(r).started = r.started /\ FinishRow(r).blocked = r.blocked
BY ColumnFacts, Zenon DEF FinishRow, Row

\* The next stage starts with one attempt counted (advance).
LEMMA AdvanceFacts ==
    ASSUME NEW r \in Row, r.stage \in WorkStages, r.stage # Read
    PROVE  /\ AdvanceRow(r) \in Row /\ AdvanceRow(r).status = r.status
           /\ AdvanceRow(r).stage = r.stage + 1 /\ AdvanceRow(r).stage \in WorkStages
           /\ AdvanceRow(r).attempts = 1
           /\ AdvanceRow(r).outcome = r.outcome /\ AdvanceRow(r).started = r.started
           /\ AdvanceRow(r).blocked = r.blocked
<1>1. r.stage + 1 \in 0..Archive /\ r.stage + 1 \in WorkStages
  BY DEF Row, WorkStages, Resolve, Read, Archive
<1>2. "none" \in Codes  BY DEF Codes
<1>3. AdvanceRow(r) = [r EXCEPT !.stage = r.stage + 1, !.attempts = 1, !.reason = "none"]
  BY DEF AdvanceRow
<1> QED  BY <1>1, <1>2, <1>3, ColumnFacts, Zenon DEF Row

\* A receipt's finish time is one no earlier receipt of the job carries.
LEMMA StampFacts ==
    ASSUME NEW a, NEW b
    PROVE  Min({n \in 1..3 : n \notin {a, b}}) \in 1..3
<1> DEFINE S == {n \in 1..3 : n \notin {a, b}}
<1>1. S # {}
  <2>1. 1 \in S \/ 2 \in S \/ 3 \in S  OBVIOUS
  <2> QED  BY <2>1
<1>2. S \in SUBSET Nat  OBVIOUS
<1>3. Min(S) \in S  BY <1>1, <1>2, MinMember
<1> QED  BY <1>3

-----------------------------------------------------------------------------
(* Frames                                                                  *)

JobInv(j) == RowInv(j) /\ BudgetInv(j) /\ ReceiptInv(j)

\* Only job k's row, directory, objects and count may change.
Only(k) ==
    \A j \in Jobs : j # k => /\ row'[j] = row[j] /\ local'[j] = local[j]
                             /\ remote'[j] = remote[j] /\ tries'[j] = tries[j]

LEMMA OnlyStep ==
    ASSUME NEW k \in Jobs, \A j \in Jobs : JobInv(j), Only(k), JobInv(k)'
    PROVE  \A j \in Jobs : JobInv(j)'
<1> SUFFICES ASSUME NEW j \in Jobs, j # k PROVE JobInv(j)'
  OBVIOUS
<1>1. /\ row'[j] = row[j] /\ local'[j] = local[j] /\ remote'[j] = remote[j] /\ tries'[j] = tries[j]
  BY DEF Only
<1>2. JobInv(j)  OBVIOUS
<1>3. RowInv(j)'  BY <1>1, <1>2 DEF JobInv, RowInv
<1>4. BudgetInv(j)'  BY <1>1, <1>2 DEF JobInv, BudgetInv
<1>5. ReceiptInv(j)'
  BY <1>1, <1>2 DEF JobInv, ReceiptInv, Whole, ObjectsStored, Terminal, NoReceipt
<1> QED  BY <1>3, <1>4, <1>5 DEF JobInv

\* The columns of a row that the invariant reads.
SameRow(k) ==
    /\ row'[k].status = row[k].status /\ row'[k].stage = row[k].stage
    /\ row'[k].attempts = row[k].attempts /\ row'[k].outcome = row[k].outcome
    /\ row'[k].started = row[k].started /\ row'[k].blocked = row[k].blocked

\* A step that leaves those alone, and of the directory its marks and receipt.
LEMMA JobKeep ==
    ASSUME NEW k \in Jobs, JobInv(k), SameRow(k),
           local'[k].marks = local[k].marks, local'[k].receipt = local[k].receipt,
           local'[k].dir = local[k].dir \/ local'[k].dir # "held",
           remote'[k] = remote[k], tries'[k] = tries[k]
    PROVE  JobInv(k)'
<1>1. RowInv(k)'  BY DEF JobInv, RowInv, SameRow
<1>2. BudgetInv(k)'  BY DEF JobInv, BudgetInv, SameRow
<1>3. ReceiptInv(k)'
  BY DEF JobInv, ReceiptInv, Whole, ObjectsStored, Terminal, NoReceipt, SameRow
<1> QED  BY <1>1, <1>2, <1>3 DEF JobInv

\* The tick is where it was, and its job too, unless the directory is gone.
LEMMA TickKeep ==
    ASSUME TypeOK, TickInv, UNCHANGED <<pc, job, fresh, rooted, mine>>,
           job # NoJob => /\ row'[job] = row[job] /\ remote'[job] = remote[job]
                          /\ tries'[job] = tries[job]
                          /\ local'[job] = local[job] \/ local'[job].dir # "held"
    PROVE  TickInv'
<1>1. CASE job = NoJob
  <2>1. pc = "idle" /\ pc' = "idle"  BY <1>1 DEF TypeOK
  <2> QED  BY <2>1 DEF TickInv, Working, Archiving
<1>2. CASE job # NoJob
  BY <1>2 DEF TickInv, FirstRoot, ReceiptFitsRow, NoReceipt
<1> QED  BY <1>1, <1>2

LEMMA TickEnds ==
    ASSUME EndTick
    PROVE  TickInv' /\ Whole(mine)' /\ job' = NoJob /\ pc' = "idle"
           /\ fresh' \in BOOLEAN /\ rooted' \in BOOLEAN
<1>1. pc' = "idle" /\ job' = NoJob  BY DEF EndTick
<1>2. TickInv'  BY <1>1 DEF TickInv, Working, Archiving
<1>3. Whole(mine)'  BY DEF EndTick, Whole, NoReceipt
<1> QED  BY <1>1, <1>2, <1>3, Zenon DEF EndTick

-----------------------------------------------------------------------------
(* The initial state                                                       *)

LEMMA ConstantFacts ==
    /\ NoReceipt \in Receipt /\ NoRow \in Row /\ NewJob \in Row
    /\ NoDirectory \in Directory /\ NothingStored \in Stored
    /\ Whole(NoReceipt)
    /\ \A how \in {"absent", "damaged"} : [NoDirectory EXCEPT !.dir = how] \in Directory
<1> USE DEF None
<1>1. NoReceipt \in Receipt /\ Whole(NoReceipt)
  BY DEF NoReceipt, Receipt, Codes, Whole, Read
<1>2. NoRow \in Row
  <2>1. /\ "absent" \in Outcomes \cup Active \cup {"absent"} /\ 0 \in 0..Archive
        /\ 0 \in 0..MaxAttempts /\ "none" \in Outcomes \cup {"none"} /\ "none" \in Codes
    BY JobsAssumption DEF Archive, Codes
  <2> QED  BY <2>1, Zenon DEF NoRow, Row
<1>3. NewJob \in Row  BY <1>2, ColumnFacts, Zenon DEF NewJob, Row
<1>4. NoDirectory \in Directory
  <2>1. 0 \in 0..Read /\ 0 \in Nat /\ "absent" \in {"absent", "empty", "held", "damaged"}
    BY DEF Read
  <2> QED  BY <1>1, <2>1, Zenon DEF NoDirectory, Directory
<1>5. NothingStored \in Stored  BY <1>1 DEF NothingStored, Stored
<1>6. ASSUME NEW how \in {"absent", "damaged"} PROVE [NoDirectory EXCEPT !.dir = how] \in Directory
  <2>1. how \in {"absent", "empty", "held", "damaged"}  OBVIOUS
  <2> QED  BY <1>4, <2>1, Zenon DEF Directory
<1> QED  BY <1>1, <1>2, <1>3, <1>4, <1>5, <1>6

LEMMA IInvInit ==
    Init => IInv
<1> SUFFICES ASSUME Init PROVE IInv
  OBVIOUS
<1> USE DEF Init
<1>1. TypeOK
  <2>1. fresh \in BOOLEAN /\ rooted \in BOOLEAN  BY Zenon
  <2>2. /\ row \in [Jobs -> Row] /\ local \in [Jobs -> Directory] /\ remote \in [Jobs -> Stored]
        /\ tries \in [Jobs -> Nat] /\ mine \in Receipt
    BY ConstantFacts
  <2> QED  BY <2>1, <2>2 DEF TypeOK, None
<1>2. TickInv  BY DEF TickInv, Working, Archiving
<1>3. Whole(mine) /\ BundleInv  BY ConstantFacts DEF BundleInv
<1>4. ASSUME NEW j \in Jobs PROVE JobInv(j)
  <2>1. row[j] = NoRow /\ local[j] = NoDirectory /\ remote[j] = NothingStored /\ tries[j] = 0
    OBVIOUS
  <2>2. RowInv(j)  BY <2>1 DEF RowInv, NoRow, NoDirectory, WorkStages
  <2>3. BudgetInv(j)  BY <2>1, JobsAssumption DEF BudgetInv, NoRow
  <2>4. ReceiptInv(j)
    <3>1. ~Terminal(j)  BY <2>1 DEF Terminal, NoRow, Outcomes
    <3>2. local[j].receipt = NoReceipt /\ remote[j].receipt = NoReceipt /\ row[j].blocked = "none"
      BY <2>1 DEF NoRow, NoDirectory, NothingStored
    <3> QED  BY <3>1, <3>2, ConstantFacts DEF ReceiptInv
  <2> QED  BY <2>2, <2>3, <2>4 DEF JobInv
<1> QED  BY <1>1, <1>2, <1>3, <1>4 DEF IInv, JobInv

-----------------------------------------------------------------------------
(* The API, the operator and the world                                     *)

LEMMA Close ==
    ASSUME IInv, NEW k \in Jobs, TypeOK', Whole(mine)', TickInv', BundleInv', Only(k), JobInv(k)'
    PROVE  IInv'
<1>1. \A j \in Jobs : JobInv(j)  BY DEF IInv, JobInv
<1>2. \A j \in Jobs : JobInv(j)'  BY <1>1, OnlyStep
<1> QED  BY <1>2 DEF IInv, JobInv

LEMMA SaveFacts ==
    ASSUME TypeOK, NEW k \in Jobs, NEW r \in Row, row' = [row EXCEPT ![k] = r]
    PROVE  /\ row' \in [Jobs -> Row] /\ row'[k] = r
           /\ \A j \in Jobs : j # k => row'[j] = row[j]
BY DEF TypeOK

LEMMA TickHasJob ==
    ASSUME TypeOK, pc # "idle"
    PROVE  job \in Jobs
BY DEF TypeOK

LEMMA OthersIdle ==
    ASSUME TypeOK, TickInv, job # NoJob
    PROVE  job \in Jobs /\ row[job].status \in {"running", "archiving"}
<1>1. pc # "idle" /\ job \in Jobs  BY DEF TypeOK
<1> QED  BY <1>1 DEF TickInv, Working, Archiving, Resumable

\* A step of the API, the operator or a clock: one row changes, and it is not the
\* one a tick holds, or only its clock is.
LEMMA RowStep ==
    ASSUME IInv, NEW k \in Jobs, NEW r \in Row, row' = [row EXCEPT ![k] = r], k # job,
           UNCHANGED <<local, remote, bundleVars, tickVars, tries>>, JobInv(k)'
    PROVE  IInv'
<1> USE DEF bundleVars, tickVars
<1>1. TypeOK /\ TickInv  BY DEF IInv
<1>2. /\ row' \in [Jobs -> Row] /\ row'[k] = r /\ \A j \in Jobs : j # k => row'[j] = row[j]
  BY <1>1, SaveFacts
<1>3. fresh' \in BOOLEAN /\ rooted' \in BOOLEAN  BY <1>1, Zenon DEF TypeOK
<1>4. TypeOK'  BY <1>1, <1>2, <1>3 DEF TypeOK
<1>5. TickInv'
  <2>1. job # NoJob => job \in Jobs  BY <1>1 DEF TypeOK
  <2> QED  BY <1>1, <1>2, <2>1, TickKeep
<1>6. BundleInv' /\ Whole(mine)'  BY DEF IInv, BundleInv, Whole
<1>7. Only(k)  BY <1>2 DEF Only
<1> QED  BY <1>4, <1>5, <1>6, <1>7, Close

LEMMA SubmitStep ==
    ASSUME IInv, NEW k \in Jobs, Submit(k)
    PROVE  IInv'
<1> USE DEF bundleVars, tickVars, tableVars
<1>1. TypeOK /\ TickInv /\ JobInv(k)  BY DEF IInv, JobInv
<1>2. /\ row[k].status = "absent" /\ row' = [row EXCEPT ![k] = NewJob]
      /\ UNCHANGED <<local, remote, bundleVars, tickVars, tries>>
  BY DEF Submit
<1>3. k # job  BY <1>1, <1>2, OthersIdle DEF NoJob, Jobs
<1>4. row'[k] = NewJob  BY <1>1, <1>2, SaveFacts, ConstantFacts
<1>5. /\ NewJob.status = "queued" /\ NewJob.outcome = "none" /\ NewJob.started = FALSE
      /\ NewJob.blocked = "none"
  BY Zenon DEF NewJob, NoRow
<1>6. RowInv(k)'
  <2>1. local[k].marks = 0  BY <1>1, <1>2 DEF JobInv, RowInv
  <2> QED  BY <1>2, <1>4, <1>5, <2>1 DEF RowInv
<1>7. BudgetInv(k)'  BY <1>1, <1>2, <1>4, <1>5 DEF JobInv, BudgetInv
<1>8. ReceiptInv(k)'
  BY <1>1, <1>2, <1>4, <1>5 DEF JobInv, ReceiptInv, Whole, ObjectsStored, Terminal, Outcomes, NoReceipt
<1> QED  BY <1>2, <1>3, <1>6, <1>7, <1>8, RowStep, ConstantFacts DEF JobInv

LEMMA CancelStep ==
    ASSUME IInv, NEW k \in Jobs, CancelJob(k)
    PROVE  IInv'
<1> USE DEF bundleVars, tickVars, tableVars
<1>1. TypeOK /\ TickInv /\ JobInv(k) /\ row[k] \in Row  BY DEF IInv, JobInv, TypeOK
<1> DEFINE r == CancelRow(row[k])
<1>2. /\ row[k].status = "queued" /\ row' = [row EXCEPT ![k] = r]
      /\ UNCHANGED <<local, remote, bundleVars, tickVars, tries>>
  BY DEF CancelJob
<1>3. k # job  BY <1>1, <1>2, OthersIdle DEF NoJob, Jobs
<1>4. /\ r \in Row /\ r.status = "archiving" /\ r.outcome = "cancelled"
      /\ r.started = row[k].started /\ r.blocked = row[k].blocked
  <2>1. "cancelled" \in Codes  BY DEF Codes
  <2>2. r = EnterArchiving(row[k], "cancelled", "cancelled")  BY DEF CancelRow
  <2>3. "cancelled" \in Outcomes  BY DEF Outcomes
  <2> HIDE DEF r
  <2>4. row[k] \in Row  BY <1>1
  <2>5. PICK q \in Row : q = row[k]  BY <2>4
  <2>6. LET e == EnterArchiving(q, "cancelled", "cancelled")
        IN  /\ e \in Row /\ e.status = "archiving" /\ e.outcome = "cancelled"
            /\ e.started = q.started /\ e.blocked = q.blocked
    BY <2>1, <2>3, EnterFacts
  <2> QED  BY <2>2, <2>5, <2>6
<1> HIDE DEF r
<1>5. row'[k] = r  BY <1>1, <1>2, <1>4, SaveFacts
<1>6. RowInv(k)'  BY <1>1, <1>2, <1>4, <1>5 DEF JobInv, RowInv
<1>7. BudgetInv(k)'  BY <1>1, <1>2, <1>4, <1>5 DEF JobInv, BudgetInv
<1>8. ReceiptInv(k)'
  BY <1>1, <1>2, <1>4, <1>5 DEF JobInv, ReceiptInv, Whole, ObjectsStored, Terminal, Outcomes, NoReceipt
<1> QED  BY <1>2, <1>3, <1>4, <1>6, <1>7, <1>8, RowStep DEF JobInv

LEMMA ResumeStep ==
    ASSUME IInv, NEW k \in Jobs, ResumeBlocked(k)
    PROVE  IInv'
<1> USE DEF bundleVars, tickVars, tableVars
<1>1. TypeOK /\ TickInv /\ JobInv(k) /\ row[k] \in Row  BY DEF IInv, JobInv, TypeOK
<1> DEFINE r == ResumeBlockedRow(row[k])
<1>2. /\ row[k].status = "archive_blocked" /\ row' = [row EXCEPT ![k] = r]
      /\ UNCHANGED <<local, remote, bundleVars, tickVars, tries>>
  BY DEF ResumeBlocked
<1>3. k # job  BY <1>1, <1>2, OthersIdle DEF NoJob, Jobs
<1>4. /\ r \in Row /\ r.status = "archiving" /\ r.outcome = row[k].outcome
      /\ r.started = row[k].started /\ r.blocked = "none"
  BY <1>1, ResumeFacts
<1> HIDE DEF r
<1>5. row'[k] = r  BY <1>1, <1>2, <1>4, SaveFacts
<1>6. RowInv(k)'  BY <1>1, <1>2, <1>4, <1>5 DEF JobInv, RowInv
<1>7. BudgetInv(k)'  BY <1>1, <1>2, <1>4, <1>5 DEF JobInv, BudgetInv
<1>8. ReceiptInv(k)'
  BY <1>1, <1>2, <1>4, <1>5 DEF JobInv, ReceiptInv, Whole, ObjectsStored, Terminal, Outcomes, NoReceipt
<1> QED  BY <1>2, <1>3, <1>4, <1>6, <1>7, <1>8, RowStep DEF JobInv

LEMMA BackoffStep ==
    ASSUME IInv, NEW k \in Jobs, BackoffPasses(k)
    PROVE  IInv'
<1> USE DEF bundleVars, tickVars, tableVars
<1>1. TypeOK /\ TickInv /\ JobInv(k) /\ row[k] \in Row  BY DEF IInv, JobInv, TypeOK
<1> DEFINE r == [row[k] EXCEPT !.wait = FALSE]
<1>2. row' = [row EXCEPT ![k] = r]  BY Zenon DEF BackoffPasses
<1>3. k # job /\ UNCHANGED <<local, remote, bundleVars, tickVars, tries>>
  BY DEF BackoffPasses
<1>4. /\ r \in Row /\ r.status = row[k].status /\ r.stage = row[k].stage
      /\ r.attempts = row[k].attempts /\ r.outcome = row[k].outcome
      /\ r.started = row[k].started /\ r.blocked = row[k].blocked
  BY <1>1, Zenon DEF Row
<1> HIDE DEF r
<1>5. row'[k] = r  BY <1>1, <1>2, <1>4, SaveFacts
<1>6. JobInv(k)'  BY <1>1, <1>3, <1>4, <1>5, JobKeep DEF SameRow
<1> QED  BY <1>2, <1>3, <1>4, <1>6, RowStep

\* A lost or damaged directory is noticed, never read.
LEMMA DamageStep ==
    ASSUME IInv, NEW k \in Jobs, NEW how \in {"absent", "damaged"}, Damage(k, how)
    PROVE  IInv'
<1> USE DEF bundleVars, tickVars, tableVars
<1>1. TypeOK /\ TickInv /\ JobInv(k) /\ BundleInv  BY DEF IInv, JobInv
<1> DEFINE d == [NoDirectory EXCEPT !.dir = how]
<1>2. local' = [local EXCEPT ![k] = d] /\ UNCHANGED <<row, remote, bundleVars, tickVars, tries>>
  BY DEF Damage
<1>3. d \in Directory  BY ConstantFacts
<1>4. d.dir = how /\ d.marks = 0 /\ d.receipt = NoReceipt  BY Zenon DEF NoDirectory
<1> HIDE DEF d
<1>5. /\ local' \in [Jobs -> Directory] /\ local'[k] = d
      /\ \A j \in Jobs : j # k => local'[j] = local[j]
  BY <1>1, <1>2, <1>3 DEF TypeOK
<1>6. fresh' \in BOOLEAN /\ rooted' \in BOOLEAN  BY <1>1, <1>2, Zenon DEF TypeOK
<1>7. TypeOK'  BY <1>1, <1>2, <1>5, <1>6 DEF TypeOK
<1>8. TickInv'
  <2>1. job # NoJob => job \in Jobs  BY <1>1 DEF TypeOK
  <2>2. job # NoJob => local'[job] = local[job] \/ local'[job].dir # "held"
    BY <1>4, <1>5, <2>1
  <2> QED  BY <1>1, <1>2, <2>2, TickKeep
<1>9. BundleInv' /\ Whole(mine)'  BY <1>2 DEF IInv, BundleInv, Whole
<1>10. Only(k)  BY <1>2, <1>5 DEF Only
<1>11. RowInv(k)'  BY <1>1, <1>2, <1>4, <1>5 DEF JobInv, RowInv
<1>12. BudgetInv(k)'  BY <1>1, <1>2 DEF JobInv, BudgetInv
<1>13. ReceiptInv(k)'
  <2>1. Whole(local[k].receipt)'  BY <1>4, <1>5, ConstantFacts DEF Whole, NoReceipt
  <2> QED  BY <1>1, <1>2, <2>1 DEF JobInv, ReceiptInv, Whole, ObjectsStored, Terminal, NoReceipt
<1> QED  BY <1>7, <1>8, <1>9, <1>10, <1>11, <1>12, <1>13, Close DEF JobInv

\* Steps that touch no row, directory or object: a deadline passes, an image is
\* deployed, the bundle is obtained, derivatives are uploaded.
LEMMA BundleStep ==
    ASSUME IInv, UNCHANGED <<row, local, remote, tries>>, TypeOK', TickInv', Whole(mine)', BundleInv'
    PROVE  IInv'
<1> SUFFICES ASSUME NEW j \in Jobs PROVE JobInv(j)'
  BY DEF IInv, JobInv
<1>1. JobInv(j)  BY DEF IInv, JobInv
<1> QED  BY <1>1, JobKeep DEF SameRow

LEMMA DeployStep ==
    ASSUME IInv, Deploy \/ (\E k \in Jobs : DeadlinePasses(k))
    PROVE  IInv'
<1> USE DEF bundleVars, tickVars, tableVars
<1>1. TypeOK /\ TickInv /\ BundleInv  BY DEF IInv
<1>2. UNCHANGED <<row, local, remote, tries, tickVars, cache, uploaded>>
  BY DEF Deploy, DeadlinePasses
<1>3. producer' \in Nat /\ (pc # "bind" \/ producer' = producer)
  BY <1>1 DEF Deploy, DeadlinePasses, TypeOK
<1>4. fresh' \in BOOLEAN /\ rooted' \in BOOLEAN  BY <1>1, <1>2, Zenon DEF TypeOK
<1>5. TypeOK'  BY <1>1, <1>2, <1>3, <1>4 DEF TypeOK
<1>6. TickInv'  BY <1>1, <1>2, TickKeep
<1>7. BundleInv'  BY <1>1, <1>2, <1>3 DEF BundleInv
<1>8. Whole(mine)'  BY <1>2 DEF IInv, Whole
<1> QED  BY <1>2, <1>5, <1>6, <1>7, <1>8, BundleStep

-----------------------------------------------------------------------------
(* A tick claims a job                                                     *)

LEMMA ClaimStep ==
    ASSUME IInv, ClaimNext
    PROVE  IInv'
<1> USE DEF bundleVars, tableVars, boundVars
<1> SUFFICES ASSUME NEW k, k = SelectNext, NEW b, b = (k \in late),
                    NEW r, r = Claim(row[k], b)
             PROVE  IInv'
  OBVIOUS
<1>1. TypeOK /\ TickInv /\ BundleInv /\ Whole(mine)  BY DEF IInv
<1>2. pc = "idle" /\ k # NoJob /\ job = NoJob  BY <1>1 DEF ClaimNext, TypeOK
<1>3. k \in Jobs /\ row[k].status \in {"queued", "running", "archiving"}
  BY <1>1, <1>2, SelectFacts
<1>4. JobInv(k) /\ row[k] \in Row  BY <1>1, <1>3 DEF IInv, JobInv, TypeOK
<1>5. row' = [row EXCEPT ![k] = r] /\ UNCHANGED <<local, remote, bundleVars, tries>>
  BY DEF ClaimNext
<1>6. k # job  BY <1>2, <1>3 DEF NoJob, Jobs
<1>7. /\ r.status = "archive_blocked" => UNCHANGED tickVars
      /\ r.status # "archive_blocked" =>
           /\ job' = k /\ fresh' = Initializes(row[k])
           /\ pc' = (IF r.status = "archiving" THEN "adopt" ELSE "root")
           /\ UNCHANGED <<ensured, rooted, mine>>
  BY DEF ClaimNext, Goto
<1>8. Initializes(row[k]) => \/ row[k].status = "queued"
                             \/ row[k].status = "archiving" /\ row[k].outcome = "cancelled"
  BY DEF Initializes
<1>9. Initializes(row[k]) \in BOOLEAN  BY Zenon DEF Initializes
<1>10. b \in BOOLEAN  OBVIOUS
<1>11. r \in Row  BY <1>3, <1>4, <1>10, ClaimFacts
<1>12. row' \in [Jobs -> Row] /\ row'[k] = r /\ \A j \in Jobs : j # k => row'[j] = row[j]
  BY <1>1, <1>3, <1>5, <1>11, SaveFacts
<1>13. Claimed(row[k], r)  BY <1>3, <1>4, <1>10, ClaimFacts
<1> USE DEF Claimed
<1>14. RowInv(k)'
  <2>1. RowInv(k) /\ local' = local  BY <1>4, <1>5 DEF JobInv
  <2>2. local[k].marks \in Nat  BY <1>1, <1>3 DEF TypeOK, Directory
  <2>3. "none" \notin Outcomes /\ Resolve \in WorkStages /\ Resolve = 1
    BY DEF Outcomes, Resolve, WorkStages, Read
  <2> QED  BY <1>12, <1>13, <2>1, <2>2, <2>3 DEF RowInv
<1>15. BudgetInv(k)' /\ (r.status = "running" => tries[k] < r.attempts)
  <2>1. BudgetInv(k) /\ tries' = tries  BY <1>4, <1>5 DEF JobInv
  <2>2. tries[k] \in Nat /\ row[k].attempts \in Nat  BY <1>1, <1>3, <1>4 DEF TypeOK, Row
  <2> QED  BY <1>12, <1>13, <2>1, <2>2 DEF BudgetInv
<1>16. ReceiptInv(k)'
  <2>1. ReceiptInv(k) /\ local' = local /\ remote' = remote  BY <1>4, <1>5 DEF JobInv
  <2>2. r.status \notin Outcomes  BY <1>13 DEF Outcomes
  <2> QED
    BY <1>12, <1>13, <2>1, <2>2 DEF ReceiptInv, Whole, ObjectsStored, Terminal, NoReceipt
<1>17. JobInv(k)'  BY <1>14, <1>15, <1>16 DEF JobInv
<1>18. CASE r.status = "archive_blocked"
  BY <1>3, <1>5, <1>6, <1>7, <1>11, <1>17, <1>18, RowStep
<1>19. CASE r.status # "archive_blocked"
  <2>1. fresh' \in BOOLEAN /\ rooted' \in BOOLEAN
    <3>1. fresh' = Initializes(row[k]) /\ rooted' = rooted  BY <1>7, <1>19
    <3> QED  BY <1>1, <1>9, <3>1, Zenon DEF TypeOK
  <2>2. TypeOK'  BY <1>1, <1>3, <1>5, <1>7, <1>12, <1>19, <2>1 DEF TypeOK, NoJob, Jobs
  <2>3. Whole(mine)' /\ BundleInv'  BY <1>1, <1>5, <1>7, <1>19 DEF Whole, BundleInv
  <2>4. TickInv'
    <3>1. job' = k /\ row'[k] = r /\ tries' = tries  BY <1>5, <1>7, <1>12, <1>19
    <3>2. pc' = (IF r.status = "archiving" THEN "adopt" ELSE "root")  BY <1>7, <1>19
    <3>3. r.status \in {"running", "archiving"}  BY <1>13, <1>19
    <3>4. fresh' => \/ r.status = "running" /\ r.stage = Resolve
                    \/ r.status = "archiving" /\ r.outcome = "cancelled"
      BY <1>7, <1>8, <1>13, <1>19
    <3> QED  BY <1>15, <3>1, <3>2, <3>3, <3>4 DEF TickInv, FirstRoot, Resumable, Working, Archiving
  <2>5. Only(k)  BY <1>5, <1>12 DEF Only
  <2> QED  BY <1>3, <1>17, <2>2, <2>3, <2>4, <2>5, Close
<1> QED  BY <1>18, <1>19

-----------------------------------------------------------------------------
(* A tick ends                                                             *)

\* The tick ends, its job's row saved: nothing else but its directory may change.
LEMMA EndStep ==
    ASSUME IInv, NEW k \in Jobs, k = job, NEW r \in Row, row' = [row EXCEPT ![k] = r],
           local' \in [Jobs -> Directory], \A j \in Jobs : j # k => local'[j] = local[j],
           UNCHANGED <<remote, bundleVars, tries>>, EndTick, JobInv(k)'
    PROVE  IInv'
<1> USE DEF bundleVars
<1>1. TypeOK /\ BundleInv  BY DEF IInv
<1>2. /\ row' \in [Jobs -> Row] /\ row'[k] = r /\ \A j \in Jobs : j # k => row'[j] = row[j]
  BY <1>1, SaveFacts
<1>3. /\ TickInv' /\ Whole(mine)' /\ job' = NoJob /\ pc' = "idle"
      /\ fresh' \in BOOLEAN /\ rooted' \in BOOLEAN
  BY TickEnds
<1>4. mine' \in Receipt  BY ConstantFacts DEF EndTick
<1>5. TypeOK'  BY <1>1, <1>2, <1>3, <1>4 DEF TypeOK
<1>6. BundleInv'  BY <1>1, <1>3 DEF BundleInv
<1>7. Only(k)  BY <1>2 DEF Only
<1> QED  BY <1>3, <1>5, <1>6, <1>7, Close

\* A retry: RootFails, StageRetries, ArchiveRetries.
LEMMA RetryStep ==
    ASSUME IInv, pc # "idle", NEW c \in Codes, Save(RetryLater(row[job], c)), EndTick,
           UNCHANGED <<remote, bundleVars, tries>>,
           \/ local' = local
           \/ local' = [local EXCEPT ![job].dir = IF local[job].dir = "empty" THEN "absent" ELSE local[job].dir]
    PROVE  IInv'
<1>1. TypeOK /\ job \in Jobs  BY TickHasJob DEF IInv
<1>2. PICK k \in Jobs : k = job  BY <1>1
<1>3. JobInv(k) /\ row[k] \in Row /\ local[k] \in Directory
  BY <1>1 DEF IInv, JobInv, TypeOK
<1>4. PICK r : r = RetryLater(row[k], c)  OBVIOUS
<1>5. /\ r \in Row /\ r.status = row[k].status /\ r.stage = row[k].stage
      /\ r.attempts = row[k].attempts /\ r.outcome = row[k].outcome
      /\ r.started = row[k].started /\ r.blocked = row[k].blocked
  BY <1>3, <1>4, RetryFacts
<1>6. row' = [row EXCEPT ![k] = r]  BY <1>2, <1>4 DEF Save
<1>7. /\ local' \in [Jobs -> Directory] /\ \A j \in Jobs : j # k => local'[j] = local[j]
      /\ local'[k].marks = local[k].marks /\ local'[k].receipt = local[k].receipt
      /\ local'[k].dir = local[k].dir \/ local'[k].dir # "held"
  <2>1. CASE local' = local  BY <1>1, <2>1 DEF TypeOK
  <2>2. CASE local' = [local EXCEPT ![job].dir = IF local[job].dir = "empty" THEN "absent" ELSE local[job].dir]
    BY <1>2, <1>1, <1>3, <2>2 DEF TypeOK, Directory
  <2> QED  BY <2>1, <2>2
<1>8. row'[k] = r  BY <1>1, <1>5, <1>6, SaveFacts
<1>9. JobInv(k)'
  <2>1. SameRow(k)  BY <1>5, <1>8 DEF SameRow
  <2>2. remote'[k] = remote[k] /\ tries'[k] = tries[k]  OBVIOUS
  <2> QED  BY <1>3, <1>7, <2>1, <2>2, JobKeep
<1> QED  BY <1>2, <1>5, <1>6, <1>7, <1>9, EndStep

-----------------------------------------------------------------------------
(* What a tick does to its job's row                                       *)

\* The job is finished with what its published receipt tells (finish).
LEMMA FinishInv ==
    ASSUME TypeOK, NEW k \in Jobs, JobInv(k), row[k].status = "archiving",
           remote[k].receipt.outcome = row[k].outcome, row'[k] = FinishRow(row[k]),
           UNCHANGED <<local, remote, tries>>
    PROVE  FinishRow(row[k]) \in Row /\ JobInv(k)'
<1>1. row[k] \in Row /\ RowInv(k) /\ BudgetInv(k) /\ ReceiptInv(k)  BY DEF JobInv, TypeOK
<1>2. row[k].outcome \in Outcomes  BY <1>1 DEF RowInv, Row
<1>3. PICK r : r = FinishRow(row[k])  OBVIOUS
<1>4. /\ r \in Row /\ r.status = row[k].outcome /\ r.outcome = "none"
      /\ r.started = row[k].started /\ r.blocked = row[k].blocked
  BY <1>1, <1>2, <1>3, FinishFacts
<1>5. row'[k] = r  BY <1>3
<1>6. r.status \notin {"absent", "queued", "running", "archiving", "archive_blocked"}
  BY <1>2, <1>4 DEF Outcomes
<1>7. RowInv(k)'  BY <1>1, <1>4, <1>5, <1>6 DEF RowInv
<1>8. BudgetInv(k)'  BY <1>1, <1>5, <1>6 DEF BudgetInv
<1>9. ReceiptInv(k)'
  BY <1>1, <1>4, <1>5 DEF RowInv, ReceiptInv, Whole, ObjectsStored, Terminal, NoReceipt
<1> QED  BY <1>3, <1>4, <1>7, <1>8, <1>9 DEF JobInv

\* A receipt that is not this tick's blocks the archive (block_archive).
LEMMA BlockInv ==
    ASSUME TypeOK, NEW k \in Jobs, JobInv(k), row[k].status = "archiving",
           remote[k].receipt # NoReceipt, row'[k] = BlockArchive(row[k], "archive_conflict"),
           UNCHANGED <<local, remote, tries>>
    PROVE  BlockArchive(row[k], "archive_conflict") \in Row /\ JobInv(k)'
<1>1. row[k] \in Row /\ RowInv(k) /\ BudgetInv(k) /\ ReceiptInv(k)  BY DEF JobInv, TypeOK
<1>2. "archive_conflict" \in Codes  BY DEF Codes
<1>3. PICK r : r = BlockArchive(row[k], "archive_conflict")  OBVIOUS
<1>4. /\ r \in Row /\ r.status = "archive_blocked" /\ r.outcome = row[k].outcome
      /\ r.started = row[k].started /\ r.blocked = "archive_conflict"
  BY <1>1, <1>2, <1>3, BlockFacts
<1>5. row'[k] = r  BY <1>3
<1>6. RowInv(k)'  BY <1>1, <1>4, <1>5 DEF RowInv
<1>7. BudgetInv(k)'  BY <1>1, <1>4, <1>5 DEF BudgetInv
<1>8. ReceiptInv(k)'
  BY <1>1, <1>4, <1>5 DEF ReceiptInv, Whole, ObjectsStored, Terminal, NoReceipt, Outcomes
<1> QED  BY <1>3, <1>4, <1>6, <1>7, <1>8 DEF JobInv

\* The work ends with an outcome that is neither success nor cancellation.
LEMMA ArchiveInv ==
    ASSUME NEW k \in Jobs, JobInv(k), row[k].status \in {"running", "archiving"},
           NEW r \in Row, row'[k] = r, r.status = "archiving", r.outcome \in Outcomes,
           r.outcome # "succeeded", r.outcome # "cancelled",
           r.started = row[k].started, r.blocked = row[k].blocked,
           UNCHANGED <<local, remote, tries>>
    PROVE  JobInv(k)'
<1>1. RowInv(k) /\ BudgetInv(k) /\ ReceiptInv(k)  BY DEF JobInv
<1>2. RowInv(k)'  BY <1>1 DEF RowInv, Outcomes
<1>3. BudgetInv(k)'  BY <1>1 DEF BudgetInv
<1>4. ReceiptInv(k)'
  BY <1>1 DEF ReceiptInv, Whole, ObjectsStored, Terminal, NoReceipt, Outcomes
<1> QED  BY <1>2, <1>3, <1>4 DEF JobInv

\* The tick goes on with the same job.
LEMMA TickType ==
    ASSUME TypeOK, pc # "idle", pc' # "idle", UNCHANGED <<job, fresh, producer>>,
           row' \in [Jobs -> Row], local' \in [Jobs -> Directory], remote' \in [Jobs -> Stored],
           tries' \in [Jobs -> Nat], mine' \in Receipt, cache' \in Nat, rooted' \in BOOLEAN
    PROVE  TypeOK'
<1>1. fresh' \in BOOLEAN  BY Zenon DEF TypeOK
<1> QED  BY <1>1 DEF TypeOK

\* A tick that goes on and changes no row, directory or object.
LEMMA GoOn ==
    ASSUME IInv, pc # "idle", pc' # "idle", UNCHANGED <<row, local, remote, tries, job, fresh, producer>>,
           mine' \in Receipt, cache' \in Nat, rooted' \in BOOLEAN,
           TickInv', Whole(mine)', BundleInv'
    PROVE  IInv'
<1>1. TypeOK /\ TypeOK'
  <2>1. TypeOK  BY DEF IInv
  <2>2. /\ row' \in [Jobs -> Row] /\ local' \in [Jobs -> Directory] /\ remote' \in [Jobs -> Stored]
        /\ tries' \in [Jobs -> Nat]
    BY <2>1 DEF TypeOK
  <2> QED  BY <2>1, <2>2, TickType
<1> QED  BY <1>1, BundleStep

\* A tick that goes on and changes its job's row only.
LEMMA GoOnRow ==
    ASSUME IInv, NEW k \in Jobs, k = job, pc' # "idle", NEW r \in Row, row' = [row EXCEPT ![k] = r],
           UNCHANGED <<local, remote, job, fresh, mine, bundleVars>>, rooted' \in BOOLEAN,
           tries' \in [Jobs -> Nat], \A j \in Jobs : j # k => tries'[j] = tries[j],
           pc' # "bind", TickInv', JobInv(k)'
    PROVE  IInv'
<1> USE DEF bundleVars
<1>1. TypeOK /\ pc # "idle" /\ BundleInv /\ Whole(mine)  BY DEF IInv, TypeOK, Jobs, NoJob
<1>2. row' \in [Jobs -> Row] /\ \A j \in Jobs : j # k => row'[j] = row[j]
  BY <1>1, SaveFacts
<1>3. /\ local' \in [Jobs -> Directory] /\ remote' \in [Jobs -> Stored] /\ mine' \in Receipt
      /\ cache' \in Nat /\ producer' = producer
  BY <1>1 DEF TypeOK
<1>4. TypeOK'  BY <1>1, <1>2, <1>3, TickType
<1>5. BundleInv' /\ Whole(mine)'  BY <1>1 DEF BundleInv, Whole
<1>6. Only(k)  BY <1>2 DEF Only
<1> QED  BY <1>4, <1>5, <1>6, Close

\* A tick that goes on and changes its job's directory only.
LEMMA GoOnLocal ==
    ASSUME IInv, NEW k \in Jobs, k = job, pc' # "idle", NEW d \in Directory, local' = [local EXCEPT ![k] = d],
           UNCHANGED <<row, remote, tries, job, fresh, bundleVars>>, rooted' \in BOOLEAN,
           mine' \in Receipt, Whole(mine)', pc' # "bind", TickInv', JobInv(k)'
    PROVE  IInv'
<1> USE DEF bundleVars
<1>1. TypeOK /\ pc # "idle" /\ BundleInv  BY DEF IInv, TypeOK, Jobs, NoJob
<1>2. local' \in [Jobs -> Directory] /\ \A j \in Jobs : j # k => local'[j] = local[j]
  BY <1>1 DEF TypeOK
<1>3. /\ row' \in [Jobs -> Row] /\ remote' \in [Jobs -> Stored] /\ tries' \in [Jobs -> Nat]
      /\ cache' \in Nat /\ producer' = producer
  BY <1>1 DEF TypeOK
<1>4. TypeOK'  BY <1>1, <1>2, <1>3, TickType
<1>5. BundleInv'  BY <1>1 DEF BundleInv
<1>6. Only(k)  BY <1>2 DEF Only
<1> QED  BY <1>4, <1>5, <1>6, Close

\* A tick that goes on and changes what is stored for its job only.
LEMMA GoOnRemote ==
    ASSUME IInv, NEW k \in Jobs, k = job, pc' # "idle", NEW d \in Stored, remote' = [remote EXCEPT ![k] = d],
           UNCHANGED <<row, local, tries, job, fresh, rooted, mine, bundleVars>>,
           pc' # "bind", TickInv', JobInv(k)'
    PROVE  IInv'
<1> USE DEF bundleVars
<1>1. TypeOK /\ pc # "idle" /\ BundleInv /\ Whole(mine)  BY DEF IInv, TypeOK, Jobs, NoJob
<1>2. remote' \in [Jobs -> Stored] /\ \A j \in Jobs : j # k => remote'[j] = remote[j]
  BY <1>1 DEF TypeOK
<1>3. /\ row' \in [Jobs -> Row] /\ local' \in [Jobs -> Directory] /\ tries' \in [Jobs -> Nat]
      /\ cache' \in Nat /\ producer' = producer /\ mine' \in Receipt
  BY <1>1 DEF TypeOK
<1>4. rooted' \in BOOLEAN  BY <1>1, Zenon DEF TypeOK
<1>5. TypeOK'  BY <1>1, <1>2, <1>3, <1>4, TickType
<1>6. BundleInv' /\ Whole(mine)'  BY <1>1 DEF BundleInv, Whole
<1>7. Only(k)  BY <1>2 DEF Only
<1> QED  BY <1>5, <1>6, <1>7, Close

-----------------------------------------------------------------------------
(* A tick's steps                                                          *)

\* The job a tick works on, as the steps below name it.
LEMMA TickJob ==
    ASSUME IInv, pc # "idle"
    PROVE  /\ TypeOK /\ TickInv /\ BundleInv /\ Whole(mine)
           /\ \E k \in Jobs : /\ k = job /\ JobInv(k)
                              /\ row[k] \in Row /\ local[k] \in Directory /\ remote[k] \in Stored
                              /\ tries[k] \in Nat
                              /\ row[k].status \in {"running", "archiving"}
<1>1. TypeOK /\ TickInv /\ BundleInv /\ Whole(mine)  BY DEF IInv
<1>2. job \in Jobs /\ job # NoJob  BY <1>1 DEF TypeOK
<1>3. row[job].status \in {"running", "archiving"}  BY <1>1, <1>2, OthersIdle
<1>4. JobInv(job)  BY <1>2 DEF IInv, JobInv
<1> QED  BY <1>1, <1>2, <1>3, <1>4 DEF TypeOK

\* adopt_published_for_row
LEMMA AdoptPublishedStep ==
    ASSUME IInv, AdoptPublished
    PROVE  IInv'
<1> USE DEF bundleVars, tableVars
<1>1. pc = "adopt" /\ TypeOK /\ TickInv  BY TickJob DEF AdoptPublished
<1>2. PICK k \in Jobs : /\ k = job /\ JobInv(k) /\ row[k] \in Row
  BY <1>1, TickJob
<1>3. row[k].status = "archiving"  BY <1>1, <1>2 DEF TickInv
<1>4. /\ remote[k].receipt # NoReceipt /\ EndTick
      /\ UNCHANGED <<local, remote, bundleVars, tries>>
  BY <1>2 DEF AdoptPublished
<1>5. local' \in [Jobs -> Directory]  BY <1>1, <1>4 DEF TypeOK
<1>6. CASE ReceiptFitsRow(remote[k].receipt, row[k]) /\ ObjectsStored(k, remote[k].receipt)
  <2>1. PICK r : r = FinishRow(row[k])  OBVIOUS
  <2>2. row' = [row EXCEPT ![k] = r]  BY <1>2, <1>6, <2>1 DEF AdoptPublished, Save
  <2>3. row'[k] = FinishRow(row[k])  BY <1>1, <2>1, <2>2 DEF TypeOK
  <2>4. remote[k].receipt.outcome = row[k].outcome  BY <1>6 DEF ReceiptFitsRow
  <2>5. r \in Row /\ JobInv(k)'  BY <1>1, <1>2, <1>3, <1>4, <2>1, <2>3, <2>4, FinishInv
  <2> QED  BY <1>2, <1>4, <1>5, <2>2, <2>5, EndStep
<1>7. CASE ~(ReceiptFitsRow(remote[k].receipt, row[k]) /\ ObjectsStored(k, remote[k].receipt))
  <2>1. PICK r : r = BlockArchive(row[k], "archive_conflict")  OBVIOUS
  <2>2. row' = [row EXCEPT ![k] = r]  BY <1>2, <1>7, <2>1 DEF AdoptPublished, Save
  <2>3. row'[k] = BlockArchive(row[k], "archive_conflict")  BY <1>1, <2>1, <2>2 DEF TypeOK
  <2>4. r \in Row /\ JobInv(k)'  BY <1>1, <1>2, <1>3, <1>4, <2>1, <2>3, BlockInv
  <2> QED  BY <1>2, <1>4, <1>5, <2>2, <2>4, EndStep
<1> QED  BY <1>6, <1>7

LEMMA AdoptNothingStep ==
    ASSUME IInv, AdoptNothing
    PROVE  IInv'
<1> USE DEF bundleVars, tableVars
<1>1. pc = "adopt" /\ TypeOK /\ TickInv /\ BundleInv /\ Whole(mine)  BY TickJob DEF AdoptNothing
<1>2. pc' = "root" /\ UNCHANGED <<row, local, remote, bundleVars, job, fresh, rooted, mine, tries>>
  BY DEF AdoptNothing, Goto
<1>3. TickInv'
  BY <1>1, <1>2 DEF TickInv, FirstRoot, Resumable, Working, Archiving
<1>4. rooted' \in BOOLEAN  BY <1>1, <1>2, Zenon DEF TypeOK
<1>5. BundleInv' /\ Whole(mine)' /\ mine' \in Receipt /\ cache' \in Nat
  BY <1>1, <1>2 DEF BundleInv, Whole, TypeOK
<1> QED  BY <1>1, <1>2, <1>3, <1>4, <1>5, GoOn

\* initialize_job_root: a root is made for a job's first stage, or for a
\* cancellation nobody claimed.
LEMMA MakeRootStep ==
    ASSUME IInv, MakeRoot
    PROVE  IInv'
<1> USE DEF bundleVars, tableVars
<1>1. pc = "root" /\ TypeOK /\ TickInv /\ Whole(mine)  BY TickJob DEF MakeRoot
<1>2. PICK k \in Jobs : /\ k = job /\ JobInv(k) /\ row[k] \in Row /\ local[k] \in Directory
  BY <1>1, TickJob
<1>3. PICK d : d = [local[k] EXCEPT !.dir = "empty"]  OBVIOUS
<1>4. local' = [local EXCEPT ![k] = d]  BY <1>2, <1>3, Zenon DEF MakeRoot
<1>5. d \in Directory
  <2>1. "empty" \in {"absent", "empty", "held", "damaged"}  OBVIOUS
  <2> QED  BY <1>2, <1>3, <2>1, Zenon DEF Directory
<1>6. d.dir = "empty" /\ d.marks = local[k].marks /\ d.receipt = local[k].receipt
  BY <1>2, <1>3, Zenon DEF Directory
<1>7. local'[k] = d  BY <1>1, <1>4, <1>5 DEF TypeOK
<1>8. pc' = "request" /\ UNCHANGED <<row, remote, bundleVars, job, fresh, rooted, mine, tries>>
  BY DEF MakeRoot, Goto
<1>9. FirstRoot
  <2>1. fresh \/ (row[job].status = "running" /\ row[job].stage = Resolve)
    BY DEF MakeRoot, Initializing, RetryingInitialization
  <2> QED  BY <1>1, <2>1 DEF TickInv, FirstRoot
<1>10. TickInv'
  BY <1>1, <1>8, <1>9 DEF TickInv, FirstRoot, Resumable, Working, Archiving
<1>11. JobInv(k)'
  <2>1. local'[k].dir # "held"  BY <1>6, <1>7
  <2> QED  BY <1>2, <1>6, <1>7, <1>8, <2>1, JobKeep DEF SameRow
<1>12. rooted' \in BOOLEAN  BY <1>1, <1>8, Zenon DEF TypeOK
<1>13. mine' \in Receipt /\ Whole(mine)'  BY <1>1, <1>8 DEF TypeOK, Whole
<1> QED  BY <1>2, <1>4, <1>5, <1>8, <1>10, <1>11, <1>12, <1>13, GoOnLocal

LEMMA WriteRequestStep ==
    ASSUME IInv, WriteRequest
    PROVE  IInv'
<1> USE DEF bundleVars, tableVars
<1>1. pc = "request" /\ TypeOK /\ TickInv /\ Whole(mine)  BY TickJob DEF WriteRequest
<1>2. PICK k \in Jobs : /\ k = job /\ JobInv(k) /\ row[k] \in Row /\ local[k] \in Directory
  BY <1>1, TickJob
<1>3. PICK d : d = [local[k] EXCEPT !.dir = "held"]  OBVIOUS
<1>4. local' = [local EXCEPT ![k] = d]  BY <1>2, <1>3, Zenon DEF WriteRequest
<1>5. d \in Directory
  <2>1. "held" \in {"absent", "empty", "held", "damaged"}  OBVIOUS
  <2> QED  BY <1>2, <1>3, <2>1, Zenon DEF Directory
<1>6. d.dir = "held" /\ d.marks = local[k].marks /\ d.receipt = local[k].receipt
  BY <1>2, <1>3, Zenon DEF Directory
<1>7. local'[k] = d  BY <1>1, <1>4, <1>5 DEF TypeOK
<1>8. /\ pc' = IF row[k].status = "archiving" THEN "freeze" ELSE "stage"
      /\ UNCHANGED <<row, remote, bundleVars, job, fresh, mine, tries>>
  BY <1>2 DEF WriteRequest, RootOpened, Goto
<1>9. rooted' /\ rooted' \in BOOLEAN  BY Zenon DEF WriteRequest, RootOpened
<1>10. \/ row[k].status = "running" /\ row[k].stage = Resolve
       \/ row[k].status = "archiving" /\ row[k].outcome = "cancelled"
  BY <1>1, <1>2 DEF TickInv, FirstRoot
<1>11. TickInv'
  BY <1>1, <1>2, <1>8, <1>9, <1>10 DEF TickInv, FirstRoot, Resumable, Working, Archiving
<1>12. JobInv(k)'
  <2>1. RowInv(k)'
    <3>1. local[k].marks \in Nat  BY <1>2 DEF Directory
    <3>2. Resolve = 1  BY DEF Resolve
    <3>3. row[k].status = "running" => row[k].outcome = "none"  BY <1>2 DEF JobInv, RowInv
    <3> QED  BY <1>2, <1>6, <1>7, <1>8, <1>10, <3>1, <3>2, <3>3 DEF JobInv, RowInv
  <2>2. BudgetInv(k)'  BY <1>2, <1>8 DEF JobInv, BudgetInv
  <2>3. ReceiptInv(k)'
    BY <1>2, <1>6, <1>7, <1>8 DEF JobInv, ReceiptInv, Whole, ObjectsStored, Terminal, NoReceipt
  <2> QED  BY <2>1, <2>2, <2>3 DEF JobInv
<1>13. mine' \in Receipt /\ Whole(mine)' /\ pc' # "idle" /\ pc' # "bind"
  BY <1>1, <1>8 DEF TypeOK, Whole
<1> QED  BY <1>2, <1>4, <1>5, <1>8, <1>9, <1>11, <1>12, <1>13, GoOnLocal

LEMMA OpenRootStep ==
    ASSUME IInv, OpenRoot
    PROVE  IInv'
<1> USE DEF bundleVars, tableVars
<1>1. pc = "root" /\ TypeOK /\ TickInv /\ BundleInv /\ Whole(mine)  BY TickJob DEF OpenRoot
<1>2. /\ pc' = IF row[job].status = "archiving" THEN "freeze" ELSE "stage"
      /\ UNCHANGED <<row, local, remote, bundleVars, job, fresh, mine, tries>>
  BY DEF OpenRoot, RootOpened, Goto
<1>3. rooted' /\ rooted' \in BOOLEAN  BY Zenon DEF OpenRoot, RootOpened
<1>4. TickInv'
  BY <1>1, <1>2, <1>3 DEF TickInv, FirstRoot, Resumable, Working, Archiving
<1>5. BundleInv' /\ Whole(mine)' /\ mine' \in Receipt /\ cache' \in Nat /\ pc' # "idle"
  BY <1>1, <1>2 DEF BundleInv, Whole, TypeOK
<1> QED  BY <1>1, <1>2, <1>3, <1>4, <1>5, GoOn

\* LocalStateError, wherever it is raised: RootIsLost, StageLosesState, ArchiveLosesState.
LEMMA LoseStep ==
    ASSUME IInv, pc # "idle", LoseRoot
    PROVE  IInv'
<1> USE DEF bundleVars, tableVars
<1>1. TypeOK /\ TickInv  BY TickJob
<1>2. PICK k \in Jobs : /\ k = job /\ JobInv(k) /\ row[k] \in Row
                        /\ row[k].status \in {"running", "archiving"}
  BY <1>1, TickJob
<1>3. PICK r : r = LoseLocalState(row[k])  OBVIOUS
<1>4. row' = [row EXCEPT ![k] = r]  BY <1>2, <1>3 DEF LoseRoot, Save
<1>5. /\ r \in Row /\ r.status = "archiving" /\ r.outcome = "failed"
      /\ r.started = row[k].started /\ r.blocked = row[k].blocked
  BY <1>2, <1>3, LoseFacts
<1>6. pc' = "freeze" /\ UNCHANGED <<local, remote, bundleVars, job, fresh, mine, tries>>
  BY DEF LoseRoot, Goto
<1>7. rooted' \in BOOLEAN  BY Zenon DEF LoseRoot
<1>8. row'[k] = r  BY <1>1, <1>4, <1>5 DEF TypeOK
<1>9. JobInv(k)'  BY <1>2, <1>5, <1>6, <1>8, ArchiveInv, ColumnFacts
<1>10. TickInv'
  <2>1. job' = k  BY <1>2, <1>6
  <2> QED  BY <1>5, <1>6, <1>8, <2>1 DEF TickInv, Working, Archiving
<1>11. tries' \in [Jobs -> Nat] /\ \A j \in Jobs : j # k => tries'[j] = tries[j]
  BY <1>1, <1>6 DEF TypeOK
<1> QED  BY <1>2, <1>4, <1>5, <1>6, <1>7, <1>9, <1>10, <1>11, GoOnRow

\* A stage begins: the attempt it spends was counted by the claim, or by the
\* advance that reached it.
LEMMA BeginStageStep ==
    ASSUME IInv, BeginStage
    PROVE  IInv'
<1> USE DEF bundleVars, tableVars
<1>1. pc = "stage" /\ TypeOK /\ TickInv /\ BundleInv /\ Whole(mine)  BY TickJob DEF BeginStage
<1>2. PICK k \in Jobs : /\ k = job /\ JobInv(k) /\ row[k] \in Row /\ tries[k] \in Nat
  BY <1>1, TickJob
<1>3. /\ tries' = [tries EXCEPT ![k] = tries[k] + 1]
      /\ UNCHANGED <<row, local, remote, bundleVars, job, fresh, rooted, mine>>
  BY <1>2 DEF BeginStage, Counted
<1>4. pc' \in {"advance", "context", "mark"} /\ (pc' = "advance" => local[k].marks >= row[k].stage)
  BY <1>2 DEF BeginStage, Goto, MarkedBy, Stage
<1>5. row[k].status = "running" /\ rooted /\ tries[k] < row[k].attempts
  BY <1>1, <1>2 DEF TickInv, Working
<1>6. /\ tries' \in [Jobs -> Nat] /\ tries'[k] = tries[k] + 1
      /\ \A j \in Jobs : j # k => tries'[j] = tries[j]
  BY <1>1, <1>2, <1>3 DEF TypeOK
<1>7. JobInv(k)'
  <2>1. RowInv(k)'  BY <1>2, <1>3 DEF JobInv, RowInv
  <2>2. row[k].attempts \in 0..MaxAttempts  BY <1>2 DEF Row
  <2>3. BudgetInv(k)'  BY <1>2, <1>3, <1>5, <1>6, <2>2, JobsAssumption DEF JobInv, BudgetInv
  <2>4. ReceiptInv(k)'
    BY <1>2, <1>3 DEF JobInv, ReceiptInv, Whole, ObjectsStored, Terminal, NoReceipt
  <2> QED  BY <2>1, <2>3, <2>4 DEF JobInv
<1>8. TickInv'
  BY <1>2, <1>3, <1>4, <1>5 DEF TickInv, Working, Archiving
<1>9. rooted' \in BOOLEAN  BY <1>1, <1>3, Zenon DEF TypeOK
<1>10. row' = [row EXCEPT ![k] = row[k]]  BY <1>1, <1>3 DEF TypeOK
<1> QED  BY <1>2, <1>3, <1>4, <1>6, <1>7, <1>8, <1>9, <1>10, GoOnRow

\* ensure_bundle: cached, built and uploaded, or bound.
LEMMA EnsureStep ==
    ASSUME IInv, EnsureCached \/ BuildBundle \/ PutBundleReceipt
    PROVE  IInv'
<1> USE DEF bundleVars, tableVars
<1>1. pc \in {"stage", "bind"}  BY DEF EnsureCached, BuildBundle, PutBundleReceipt
<1>2. TypeOK /\ TickInv /\ BundleInv /\ Whole(mine)  BY <1>1, TickJob
<1>3. UNCHANGED <<row, local, remote, tries, job, fresh, rooted, mine, producer>>
  BY DEF EnsureCached, BuildBundle, PutBundleReceipt
<1>4. pc' \in {"stage", "bind"}
  BY <1>1 DEF EnsureCached, BuildBundle, PutBundleReceipt, Goto
<1>5. TickInv'
  BY <1>1, <1>2, <1>3, <1>4 DEF TickInv, FirstRoot, Working, Archiving
<1>6. cache' \in Nat /\ BundleInv'
  BY <1>2 DEF TypeOK, BundleInv, EnsureCached, BuildBundle, PutBundleReceipt, Goto
<1>7. rooted' \in BOOLEAN  BY <1>2, <1>3, Zenon DEF TypeOK
<1>8. Whole(mine)' /\ mine' \in Receipt  BY <1>2, <1>3 DEF Whole, TypeOK
<1> QED  BY <1>1, <1>3, <1>4, <1>5, <1>6, <1>7, <1>8, GoOn

\* fail(): a stale cache, or a stage's failure.
LEMMA EndWorkStep ==
    ASSUME IInv, pc \in Working, NEW c \in Codes, c # "cancelled", EndWork(c)
    PROVE  IInv'
<1> USE DEF bundleVars, tableVars
<1>1. pc # "idle"  BY DEF Working
<1>2. TypeOK /\ TickInv  BY <1>1, TickJob
<1>3. PICK k \in Jobs : /\ k = job /\ JobInv(k) /\ row[k] \in Row
                        /\ row[k].status \in {"running", "archiving"}
  BY <1>1, TickJob
<1>4. PICK r : r = Fail(row[k], c)  OBVIOUS
<1>5. row' = [row EXCEPT ![k] = r]  BY <1>3, <1>4 DEF EndWork, Save
<1>6. /\ r \in Row /\ r.status = "archiving" /\ r.outcome \in Outcomes
      /\ r.outcome # "succeeded" /\ r.outcome # "cancelled"
      /\ r.started = row[k].started /\ r.blocked = row[k].blocked
  BY <1>3, <1>4, FailFacts
<1>7. pc' = "freeze" /\ UNCHANGED <<local, remote, bundleVars, job, fresh, rooted, mine, tries>>
  BY DEF EndWork, Goto
<1>8. rooted' \in BOOLEAN  BY <1>2, <1>7, Zenon DEF TypeOK
<1>9. row'[k] = r  BY <1>2, <1>5, <1>6 DEF TypeOK
<1>10. JobInv(k)'  BY <1>3, <1>6, <1>7, <1>9, ArchiveInv
<1>11. TickInv'
  <2>1. job' = k /\ rooted  BY <1>2, <1>3, <1>7 DEF TickInv
  <2> QED  BY <1>6, <1>7, <1>9, <2>1 DEF TickInv, Working, Archiving
<1>12. tries' \in [Jobs -> Nat] /\ \A j \in Jobs : j # k => tries'[j] = tries[j]
  BY <1>2, <1>7 DEF TypeOK
<1> QED  BY <1>3, <1>5, <1>6, <1>7, <1>8, <1>10, <1>11, <1>12, GoOnRow

LEMMA StageEndsStep ==
    ASSUME IInv, CacheIsStale \/ StageFails
    PROVE  IInv'
<1>1. CASE CacheIsStale
  <2>1. pc \in Working  BY <1>1 DEF CacheIsStale, Working
  <2>2. EndWork("integrity_failure") \/ EndWork("stale_bundle_cache")
    BY <1>1 DEF CacheIsStale
  <2> QED  BY <2>1, <2>2, EndWorkStep DEF Codes
<1>2. CASE StageFails
  <2>1. pc = "mark" /\ pc \in Working /\ TypeOK /\ TickInv  BY <1>2, TickJob DEF StageFails, Working
  <2>2. PICK k \in Jobs : k = job /\ JobInv(k)  BY <2>1, TickJob
  <2>3. Stage \in WorkStages
    <3>1. row[k].status = "running"  BY <2>1, <2>2 DEF TickInv
    <3> QED  BY <2>2, <3>1 DEF JobInv, RowInv, Stage
  <2>4. PICK c \in StageCodes[Stage] : EndWork(c)  BY <1>2 DEF StageFails
  <2>5. c \in {"integrity_failure", "not_archived", "supervisor_exhausted"}
    BY <2>3, <2>4 DEF StageCodes
  <2> QED  BY <2>1, <2>4, <2>5, EndWorkStep DEF Codes
<1> QED  BY <1>1, <1>2

\* prepare() writes context.json.
LEMMA WriteContextStep ==
    ASSUME IInv, WriteContext
    PROVE  IInv'
<1> USE DEF bundleVars, tableVars
<1>1. pc = "context" /\ TypeOK /\ TickInv /\ Whole(mine)  BY TickJob DEF WriteContext
<1>2. PICK k \in Jobs : /\ k = job /\ JobInv(k) /\ row[k] \in Row /\ local[k] \in Directory
  BY <1>1, TickJob
<1>3. PICK d : d = [local[k] EXCEPT !.half = TRUE]  OBVIOUS
<1>4. local' = [local EXCEPT ![k] = d]  BY <1>2, <1>3, Zenon DEF WriteContext
<1>5. d \in Directory  BY <1>2, <1>3, Zenon DEF Directory
<1>6. d.dir = local[k].dir /\ d.marks = local[k].marks /\ d.receipt = local[k].receipt
  BY <1>2, <1>3, Zenon DEF Directory
<1>7. local'[k] = d  BY <1>1, <1>4, <1>5 DEF TypeOK
<1>8. pc' = "mark" /\ UNCHANGED <<row, remote, bundleVars, job, fresh, rooted, mine, tries>>
  BY DEF WriteContext, Goto
<1>9. TickInv'  BY <1>1, <1>8 DEF TickInv, Working, Archiving
<1>10. JobInv(k)'  BY <1>2, <1>6, <1>7, <1>8, JobKeep DEF SameRow
<1>11. rooted' \in BOOLEAN  BY <1>1, <1>8, Zenon DEF TypeOK
<1>12. mine' \in Receipt /\ Whole(mine)'  BY <1>1, <1>8 DEF TypeOK, Whole
<1> QED  BY <1>2, <1>4, <1>5, <1>8, <1>9, <1>10, <1>11, <1>12, GoOnLocal

\* The marker is written before the row follows it.
LEMMA WriteMarkerStep ==
    ASSUME IInv, WriteMarker
    PROVE  IInv'
<1> USE DEF bundleVars, tableVars
<1>1. pc = "mark" /\ TypeOK /\ TickInv /\ Whole(mine)  BY TickJob DEF WriteMarker
<1>2. PICK k \in Jobs : /\ k = job /\ JobInv(k) /\ row[k] \in Row /\ local[k] \in Directory
  BY <1>1, TickJob
<1>3. PICK s, p : s = Stage /\ p = (IF Stage = Bundle THEN cache ELSE local[k].producer)  OBVIOUS
<1>4. PICK d : d = [local[k] EXCEPT !.marks = s, !.half = FALSE, !.producer = p]  OBVIOUS
<1>5. row[k].status = "running" /\ rooted /\ s = row[k].stage
  BY <1>1, <1>2, <1>3 DEF TickInv, Working, Stage
<1>6. s \in WorkStages /\ s \in 0..Read /\ s >= s - 1 /\ s >= s
  <2>1. s \in WorkStages  BY <1>2, <1>5 DEF JobInv, RowInv
  <2> QED  BY <2>1 DEF WorkStages, Resolve, Read
<1>7. p \in Nat  BY <1>1, <1>2, <1>3 DEF TypeOK, Directory
<1>8. local' = [local EXCEPT ![k] = d]  BY <1>2, <1>3, <1>4, Zenon DEF WriteMarker
<1>9. d \in Directory  BY <1>2, <1>4, <1>6, <1>7, Zenon DEF Directory
<1>10. d.dir = local[k].dir /\ d.marks = s /\ d.receipt = local[k].receipt
  BY <1>2, <1>4, Zenon DEF Directory
<1>11. local'[k] = d  BY <1>1, <1>8, <1>9 DEF TypeOK
<1>12. pc' = "advance" /\ UNCHANGED <<row, remote, bundleVars, job, fresh, rooted, mine, tries>>
  BY DEF WriteMarker, Goto
<1>13. TickInv'
  <2>1. job' = k  BY <1>2, <1>12
  <2> QED  BY <1>10, <1>11, <1>12, <1>5, <1>6, <2>1 DEF TickInv, Working, Archiving
<1>14. JobInv(k)'
  <2>1. RowInv(k)'
    <3>1. RowInv(k) /\ row'[k] = row[k]  BY <1>2, <1>12 DEF JobInv
    <3>2. row[k].outcome # "succeeded" /\ row[k].started  BY <1>5, <3>1 DEF RowInv
    <3> QED  BY <1>10, <1>11, <1>5, <1>6, <3>1, <3>2 DEF RowInv
  <2>2. BudgetInv(k)'  BY <1>2, <1>12 DEF JobInv, BudgetInv
  <2>3. ReceiptInv(k)'
    BY <1>2, <1>10, <1>11, <1>12 DEF JobInv, ReceiptInv, Whole, ObjectsStored, Terminal, NoReceipt
  <2> QED  BY <2>1, <2>2, <2>3 DEF JobInv
<1>15. rooted' \in BOOLEAN  BY <1>1, <1>12, Zenon DEF TypeOK
<1>16. mine' \in Receipt /\ Whole(mine)'  BY <1>1, <1>12 DEF TypeOK, Whole
<1> QED  BY <1>2, <1>8, <1>9, <1>12, <1>13, <1>14, <1>15, <1>16, GoOnLocal

\* The row follows its marker, with one attempt counted for the next stage.
LEMMA AdvanceStep ==
    ASSUME IInv, Advance
    PROVE  IInv'
<1> USE DEF bundleVars, tableVars
<1>1. pc = "advance" /\ TypeOK /\ TickInv  BY TickJob DEF Advance
<1>2. PICK k \in Jobs : /\ k = job /\ JobInv(k) /\ row[k] \in Row /\ local[k] \in Directory
  BY <1>1, TickJob
<1>3. /\ row[k].status = "running" /\ rooted
      /\ local[k].dir = "held" => local[k].marks >= row[k].stage
  BY <1>1, <1>2 DEF TickInv, Working
<1>4. row[k].stage \in WorkStages /\ RowInv(k) /\ BudgetInv(k) /\ ReceiptInv(k)
  BY <1>2, <1>3 DEF JobInv, RowInv
<1>5. /\ tries' = [tries EXCEPT ![k] = 0]
      /\ UNCHANGED <<local, remote, bundleVars, job, fresh, rooted, mine>>
  BY <1>2 DEF Advance
<1>6. /\ tries' \in [Jobs -> Nat] /\ tries'[k] = 0 /\ \A j \in Jobs : j # k => tries'[j] = tries[j]
  BY <1>1, <1>5 DEF TypeOK
<1>7. rooted' \in BOOLEAN  BY <1>1, <1>5, Zenon DEF TypeOK
<1>8. row[k].outcome = "none" /\ row[k].started /\ ReceiptInv(k)  BY <1>3, <1>4 DEF RowInv
<1>9. CASE row[k].stage = Read
  <2>1. PICK r : r = Succeed(row[k])  OBVIOUS
  <2>2. row' = [row EXCEPT ![k] = r] /\ pc' = "freeze"
    BY <1>2, <1>9, <2>1 DEF Advance, Stage, Save, Goto
  <2>3. /\ r \in Row /\ r.status = "archiving" /\ r.outcome = "succeeded"
        /\ r.started = row[k].started /\ r.blocked = row[k].blocked
    <3>1. "none" \in Codes /\ "succeeded" \in Outcomes  BY DEF Codes, Outcomes
    <3>2. r = EnterArchiving(row[k], "succeeded", "none")  BY <2>1 DEF Succeed
    <3>3. /\ EnterArchiving(row[k], "succeeded", "none") \in Row
          /\ EnterArchiving(row[k], "succeeded", "none").status = "archiving"
          /\ EnterArchiving(row[k], "succeeded", "none").outcome = "succeeded"
          /\ EnterArchiving(row[k], "succeeded", "none").started = row[k].started
          /\ EnterArchiving(row[k], "succeeded", "none").blocked = row[k].blocked
      BY <1>2, <3>1, EnterFacts
    <3> QED  BY <3>2, <3>3
  <2>4. row'[k] = r  BY <1>1, <2>2, <2>3 DEF TypeOK
  <2>5. RowInv(k)'
    <3>1. local[k].dir = "held" => local[k].marks = Read  BY <1>2, <1>3, <1>9 DEF Directory, Read
    <3> QED  BY <1>4, <1>5, <1>8, <2>3, <2>4, <3>1 DEF RowInv
  <2>6. BudgetInv(k)'  BY <1>6, <2>3, <2>4, JobsAssumption DEF BudgetInv
  <2>7. ReceiptInv(k)'
    BY <1>4, <1>5, <2>3, <2>4 DEF ReceiptInv, Whole, ObjectsStored, Terminal, NoReceipt, Outcomes
  <2>8. TickInv'
    <3>1. job' = k  BY <1>2, <1>5
    <3> QED  BY <1>3, <1>5, <2>2, <2>3, <2>4, <3>1 DEF TickInv, Working, Archiving
  <2> QED  BY <1>2, <1>5, <1>6, <1>7, <2>2, <2>3, <2>5, <2>6, <2>7, <2>8, GoOnRow DEF JobInv
<1>10. CASE row[k].stage # Read
  <2>1. PICK r : r = AdvanceRow(row[k])  OBVIOUS
  <2>2. row' = [row EXCEPT ![k] = r] /\ pc' = "stage"
    BY <1>2, <1>10, <2>1 DEF Advance, Stage, Save, Goto
  <2>3. /\ r \in Row /\ r.status = "running" /\ r.outcome = "none" /\ r.stage = row[k].stage + 1
        /\ r.stage \in WorkStages /\ r.attempts = 1
        /\ r.started = row[k].started /\ r.blocked = row[k].blocked
    BY <1>2, <1>3, <1>4, <1>8, <1>10, <2>1, AdvanceFacts
  <2>4. row'[k] = r  BY <1>1, <2>2, <2>3 DEF TypeOK
  <2>5. RowInv(k)'
    <3>1. local[k].dir = "held" => local[k].marks >= r.stage - 1
      BY <1>2, <1>3, <1>4, <2>3 DEF Directory, WorkStages, Resolve, Read
    <3> QED  BY <1>4, <1>5, <1>8, <2>3, <2>4, <3>1 DEF RowInv
  <2>6. BudgetInv(k)'  BY <1>6, <2>3, <2>4, JobsAssumption DEF BudgetInv
  <2>7. ReceiptInv(k)'
    BY <1>4, <1>5, <2>3, <2>4 DEF ReceiptInv, Whole, ObjectsStored, Terminal, NoReceipt, Outcomes
  <2>8. TickInv'
    <3>1. job' = k  BY <1>2, <1>5
    <3> QED  BY <1>3, <1>5, <1>6, <2>2, <2>3, <2>4, <3>1 DEF TickInv, Working, Archiving
  <2> QED  BY <1>2, <1>5, <1>6, <1>7, <2>2, <2>3, <2>5, <2>6, <2>7, <2>8, GoOnRow DEF JobInv
<1> QED  BY <1>9, <1>10

\* The receipt a tick freezes: a success names every stage's files, a
\* cancellation none but the request.
LEMMA FrozenFacts ==
    ASSUME TypeOK, NEW k \in Jobs, JobInv(k), row[k].status = "archiving",
           NEW root \in BOOLEAN, root => local[k].dir = "held", root \/ row[k].outcome = "failed"
    PROVE  /\ FrozenReceipt(k, root) \in Receipt /\ Whole(FrozenReceipt(k, root))
           /\ ReceiptFitsRow(FrozenReceipt(k, root), row[k])
<1>1. row[k] \in Row /\ local[k] \in Directory /\ RowInv(k)  BY DEF JobInv, TypeOK
<1>2. PICK n, m : n = FreshStamp(k) /\ m = (IF root THEN local[k].marks + 1 ELSE 0)  OBVIOUS
<1>3. n \in 0..3
  <2>1. FreshStamp(k) \in 1..3  BY StampFacts DEF FreshStamp
  <2> QED  BY <1>2, <2>1
<1>4. m \in 0..(Read + 1)  BY <1>1, <1>2 DEF Directory, Read
<1>5. PICK f : f = FrozenReceipt(k, root)  OBVIOUS
<1>6. f = [outcome |-> row[k].outcome, reason |-> row[k].reason, stamp |-> n, marks |-> m]
  BY <1>2, <1>5 DEF FrozenReceipt
<1>7. row[k].outcome \in Outcomes \cup {"none"} /\ row[k].reason \in Codes  BY <1>1 DEF Row
<1>8. f \in Receipt  BY <1>3, <1>4, <1>6, <1>7, Zenon DEF Receipt
<1>9. f.outcome = row[k].outcome /\ f.reason = row[k].reason /\ f.marks = m  BY <1>6
<1>10. row[k].outcome = "succeeded" => m = Read + 1
  BY <1>1, <1>2 DEF RowInv
<1>11. row[k].outcome = "cancelled" => m <= 1
  BY <1>1, <1>2 DEF RowInv
<1>12. Whole(f) /\ ReceiptFitsRow(f, row[k])  BY <1>9, <1>10, <1>11 DEF Whole, ReceiptFitsRow
<1> QED  BY <1>5, <1>8, <1>12

\* freeze_job_receipt
LEMMA FreezeReceiptStep ==
    ASSUME IInv, FreezeReceipt
    PROVE  IInv'
<1> USE DEF bundleVars, tableVars
<1>1. pc = "freeze" /\ TypeOK /\ TickInv /\ Whole(mine)  BY TickJob DEF FreezeReceipt
<1>2. PICK k \in Jobs : /\ k = job /\ JobInv(k) /\ row[k] \in Row /\ local[k] \in Directory
  BY <1>1, TickJob
<1>3. row[k].status = "archiving" /\ rooted /\ local[k].dir = "held"
  BY <1>1, <1>2 DEF TickInv, Archiving, FreezeReceipt
<1>4. PICK f : f = FrozenReceipt(k, TRUE)  OBVIOUS
<1>5. f \in Receipt /\ Whole(f)  BY <1>1, <1>2, <1>3, <1>4, FrozenFacts
<1>6. PICK d : d = [local[k] EXCEPT !.receipt = f]  OBVIOUS
<1>7. local' = [local EXCEPT ![k] = d]  BY <1>2, <1>4, <1>6, Zenon DEF FreezeReceipt
<1>8. d \in Directory  BY <1>2, <1>5, <1>6, Zenon DEF Directory
<1>9. d.dir = local[k].dir /\ d.marks = local[k].marks /\ d.receipt = f
  BY <1>2, <1>6, Zenon DEF Directory
<1>10. local'[k] = d  BY <1>1, <1>7, <1>8 DEF TypeOK
<1>11. pc' = "bound" /\ UNCHANGED <<row, remote, bundleVars, job, fresh, rooted, mine, tries>>
  BY DEF FreezeReceipt, Goto
<1>12. TickInv'
  <2>1. job' = k /\ row'[k] = row[k] /\ rooted' = rooted  BY <1>2, <1>11
  <2> QED  BY <1>3, <1>11, <2>1 DEF TickInv, Working, Archiving
<1>13. JobInv(k)'
  <2>1. RowInv(k)'  BY <1>2, <1>9, <1>10, <1>11 DEF JobInv, RowInv
  <2>2. BudgetInv(k)'  BY <1>2, <1>11 DEF JobInv, BudgetInv
  <2>3. ReceiptInv(k)'
    BY <1>2, <1>9, <1>10, <1>11, <1>5 DEF JobInv, ReceiptInv, Whole, ObjectsStored, Terminal, NoReceipt
  <2> QED  BY <2>1, <2>2, <2>3 DEF JobInv
<1>14. rooted' \in BOOLEAN  BY <1>1, <1>11, Zenon DEF TypeOK
<1>15. mine' \in Receipt /\ Whole(mine)'  BY <1>1, <1>11 DEF TypeOK, Whole
<1> QED  BY <1>2, <1>7, <1>8, <1>11, <1>12, <1>13, <1>14, <1>15, GoOnLocal

\* archive_state.json binds a receipt of the row's outcome.
LEMMA BindReceiptStep ==
    ASSUME IInv, BindReceipt
    PROVE  IInv'
<1> USE DEF bundleVars, tableVars
<1>1. pc \in {"freeze", "bound"} /\ TypeOK /\ TickInv /\ Whole(mine)  BY TickJob DEF BindReceipt
<1>2. PICK k \in Jobs : /\ k = job /\ JobInv(k) /\ row[k] \in Row /\ local[k] \in Directory
  BY <1>1, TickJob
<1>3. row[k].status = "archiving" /\ rooted  BY <1>1, <1>2 DEF TickInv, Archiving, BindReceipt
<1>4. PICK d : d = [local[k] EXCEPT !.bound = TRUE]  OBVIOUS
<1>5. local' = [local EXCEPT ![k] = d]  BY <1>2, <1>4, Zenon DEF BindReceipt
<1>6. d \in Directory  BY <1>2, <1>4, Zenon DEF Directory
<1>7. d.dir = local[k].dir /\ d.marks = local[k].marks /\ d.receipt = local[k].receipt
  BY <1>2, <1>4, Zenon DEF Directory
<1>8. local'[k] = d  BY <1>1, <1>5, <1>6 DEF TypeOK
<1>9. pc' = "remote" /\ UNCHANGED <<row, remote, bundleVars, job, fresh, rooted, tries>>
  BY DEF BindReceipt, Goto
<1>10. PICK f : f = local[k].receipt  OBVIOUS
<1>11. mine' = f /\ ReceiptFitsRow(f, row[k])  BY <1>2, <1>10 DEF BindReceipt
<1>12. f \in Receipt /\ Whole(f)  BY <1>2, <1>10 DEF Directory, JobInv, ReceiptInv
<1>13. TickInv'
  <2>1. job' = k /\ row'[k] = row[k] /\ rooted' = rooted  BY <1>2, <1>9
  <2> QED  BY <1>3, <1>9, <1>11, <2>1 DEF TickInv, Working, Archiving, ReceiptFitsRow
<1>14. JobInv(k)'  BY <1>2, <1>7, <1>8, <1>9, JobKeep DEF SameRow
<1>15. rooted' \in BOOLEAN  BY <1>1, <1>9, Zenon DEF TypeOK
<1>16. mine' \in Receipt /\ Whole(mine)'  BY <1>11, <1>12 DEF Whole
<1> QED  BY <1>2, <1>5, <1>6, <1>9, <1>13, <1>14, <1>15, <1>16, GoOnLocal

LEMMA FreezeRootlessStep ==
    ASSUME IInv, FreezeRootless
    PROVE  IInv'
<1> USE DEF bundleVars, tableVars
<1>1. pc = "freeze" /\ ~rooted /\ TypeOK /\ TickInv /\ BundleInv  BY TickJob DEF FreezeRootless
<1>2. PICK k \in Jobs : k = job /\ JobInv(k)  BY <1>1, TickJob
<1>3. row[k].status = "archiving" /\ row[k].outcome = "failed"
  BY <1>1, <1>2 DEF TickInv, Archiving
<1>4. PICK f : f = FrozenReceipt(k, FALSE)  OBVIOUS
<1>5. f \in Receipt /\ Whole(f) /\ ReceiptFitsRow(f, row[k])
  BY <1>1, <1>2, <1>3, <1>4, FrozenFacts
<1>6. /\ mine' = f /\ pc' = "remote"
      /\ UNCHANGED <<row, local, remote, bundleVars, job, fresh, rooted, tries>>
  BY <1>2, <1>4 DEF FreezeRootless, Goto
<1>7. TickInv'
  <2>1. job' = k /\ row'[k] = row[k]  BY <1>2, <1>6
  <2> QED  BY <1>3, <1>5, <1>6, <2>1 DEF TickInv, Working, Archiving, ReceiptFitsRow
<1>8. rooted' \in BOOLEAN  BY <1>1, <1>6, Zenon DEF TypeOK
<1>9. Whole(mine)' /\ mine' \in Receipt /\ BundleInv' /\ cache' \in Nat
  BY <1>1, <1>5, <1>6 DEF Whole, BundleInv, TypeOK
<1> QED  BY <1>1, <1>6, <1>7, <1>8, <1>9, GoOn

\* adopt_remote_receipt
LEMMA AdoptRemoteStep ==
    ASSUME IInv, AdoptRemote
    PROVE  IInv'
<1> USE DEF bundleVars, tableVars
<1>1. pc \in {"remote", "confirm"} /\ TypeOK /\ TickInv /\ BundleInv /\ Whole(mine)
  BY TickJob DEF AdoptRemote
<1>2. PICK k \in Jobs : k = job /\ JobInv(k)  BY <1>1, TickJob
<1>3. /\ row[k].status = "archiving" /\ (rooted \/ row[k].outcome = "failed")
      /\ ReceiptFitsRow(mine, row[k])
  BY <1>1, <1>2 DEF TickInv, Archiving
<1>4. UNCHANGED <<local, remote, bundleVars, tries>>  BY DEF AdoptRemote
<1>5. CASE remote[k].receipt = NoReceipt \/ (remote[k].receipt = mine /\ ObjectsStored(k, mine))
  <2>1. /\ UNCHANGED <<row, job, fresh, rooted, mine>>
        /\ \/ pc' = "objects"
           \/ pc' = "finish" /\ remote[k].receipt = mine /\ remote[k].receipt # NoReceipt
    BY <1>2, <1>5 DEF AdoptRemote, Goto
  <2>2. TickInv'
    <3>1. job' = k /\ row'[k] = row[k] /\ rooted' = rooted /\ mine' = mine /\ remote'[k] = remote[k]
      BY <1>2, <1>4, <2>1
    <3>2. row[k].status = "archiving" /\ (rooted \/ row[k].outcome = "failed")
      BY <1>1, <1>2 DEF TickInv, Archiving
    <3>3. CASE pc' = "objects"
      BY <1>3, <3>1, <3>2, <3>3 DEF TickInv, Working, Archiving, ReceiptFitsRow
    <3>4. CASE pc' = "finish" /\ remote[k].receipt = mine /\ remote[k].receipt # NoReceipt
      BY <1>3, <3>1, <3>2, <3>4 DEF TickInv, Working, Archiving, ReceiptFitsRow, NoReceipt
    <3> QED  BY <2>1, <3>3, <3>4
  <2>3. rooted' \in BOOLEAN  BY <1>1, <2>1, Zenon DEF TypeOK
  <2>4. Whole(mine)' /\ mine' \in Receipt /\ BundleInv' /\ cache' \in Nat /\ pc' # "idle" /\ pc # "idle"
    BY <1>1, <1>4, <2>1 DEF Whole, BundleInv, TypeOK
  <2> QED  BY <1>4, <2>1, <2>2, <2>3, <2>4, GoOn
<1>6. CASE ~(remote[k].receipt = NoReceipt \/ (remote[k].receipt = mine /\ ObjectsStored(k, mine)))
  <2>1. PICK r : r = BlockArchive(row[k], "archive_conflict")  OBVIOUS
  <2>2. row' = [row EXCEPT ![k] = r] /\ EndTick
    BY <1>2, <1>6, <2>1 DEF AdoptRemote, Save
  <2>3. row'[k] = BlockArchive(row[k], "archive_conflict")  BY <1>1, <2>1, <2>2 DEF TypeOK
  <2>4. row[k].status = "archiving" /\ remote[k].receipt # NoReceipt
    BY <1>1, <1>2, <1>6 DEF TickInv, Archiving
  <2>5. r \in Row /\ JobInv(k)'  BY <1>1, <1>2, <1>4, <2>1, <2>3, <2>4, BlockInv
  <2>6. local' \in [Jobs -> Directory]  BY <1>1, <1>4 DEF TypeOK
  <2> QED  BY <1>2, <1>4, <2>2, <2>5, <2>6, EndStep
<1> QED  BY <1>5, <1>6

\* archive_stage puts the objects ...
LEMMA PutObjectStep ==
    ASSUME IInv, PutObject
    PROVE  IInv'
<1> USE DEF bundleVars, tableVars, tickVars
<1>1. pc = "objects" /\ TypeOK /\ TickInv  BY TickJob DEF PutObject
<1>2. PICK k \in Jobs : k = job /\ JobInv(k) /\ remote[k] \in Stored  BY <1>1, TickJob
<1>3. Missing \in SUBSET (0..Read) /\ Missing # {} /\ Missing \in SUBSET Nat
  <2>1. mine.marks \in 0..(Read + 1)  BY <1>1 DEF TypeOK, Receipt
  <2> QED  BY <2>1 DEF Missing, PutObject, Read
<1>4. PICK m : m = Min(Missing)  OBVIOUS
<1>5. m \in 0..Read
  <2>1. Min(Missing) \in Missing  BY <1>3, MinMember
  <2> QED  BY <1>3, <1>4, <2>1
<1>6. PICK d : d = [remote[k] EXCEPT !.objects = remote[k].objects \cup {m}]  OBVIOUS
<1>7. remote' = [remote EXCEPT ![k] = d]  BY <1>2, <1>4, <1>6, Zenon DEF PutObject
<1>8. remote[k].objects \cup {m} \in SUBSET (0..Read)  BY <1>2, <1>5 DEF Stored
<1>9. d \in Stored /\ d.receipt = remote[k].receipt /\ d.objects = remote[k].objects \cup {m}
  BY <1>2, <1>6, <1>8, Zenon DEF Stored
<1>10. remote'[k] = d  BY <1>1, <1>7, <1>9 DEF TypeOK
<1>11. UNCHANGED <<row, local, bundleVars, tickVars, tries>>  BY DEF PutObject
<1>12. TickInv'
  <2>1. job' = k /\ pc' = "objects"  BY <1>1, <1>2, <1>11
  <2> QED  BY <1>1, <1>2, <1>11, <2>1 DEF TickInv, Working, Archiving, ReceiptFitsRow
<1>13. JobInv(k)'
  <2>1. RowInv(k)'  BY <1>2, <1>11 DEF JobInv, RowInv
  <2>2. BudgetInv(k)'  BY <1>2, <1>11 DEF JobInv, BudgetInv
  <2>3. ReceiptInv(k)'
    BY <1>2, <1>9, <1>10, <1>11 DEF JobInv, ReceiptInv, Whole, ObjectsStored, Terminal, NoReceipt
  <2> QED  BY <2>1, <2>2, <2>3 DEF JobInv
<1> QED  BY <1>1, <1>2, <1>7, <1>9, <1>11, <1>12, <1>13, GoOnRemote

\* ... and the receipt that names them last.
LEMMA PutReceiptStep ==
    ASSUME IInv, PutReceipt
    PROVE  IInv'
<1> USE DEF bundleVars, tableVars
<1>1. pc = "objects" /\ TypeOK /\ TickInv /\ Whole(mine)  BY TickJob DEF PutReceipt
<1>2. PICK k \in Jobs : k = job /\ JobInv(k) /\ row[k] \in Row /\ remote[k] \in Stored
  BY <1>1, TickJob
<1>3. row[k].status = "archiving" /\ ReceiptFitsRow(mine, row[k]) /\ mine \in Receipt
  BY <1>1, <1>2 DEF TickInv, Archiving, TypeOK
<1>4. PICK d : d = [remote[k] EXCEPT !.receipt = mine]  OBVIOUS
<1>5. remote' = [remote EXCEPT ![k] = d]  BY <1>2, <1>4, Zenon DEF PutReceipt
<1>6. d \in Stored /\ d.receipt = mine /\ d.objects = remote[k].objects
  BY <1>2, <1>3, <1>4, Zenon DEF Stored
<1>7. remote'[k] = d  BY <1>1, <1>5, <1>6 DEF TypeOK
<1>8. pc' = "confirm" /\ UNCHANGED <<row, local, bundleVars, job, fresh, rooted, mine, tries>>
  BY DEF PutReceipt, Goto
<1>9. mine.outcome = row[k].outcome /\ row[k].outcome # "none" /\ mine # NoReceipt
  BY <1>2, <1>3 DEF ReceiptFitsRow, JobInv, RowInv, NoReceipt
<1>10. 0..(mine.marks - 1) \subseteq remote[k].objects
  BY <1>2 DEF PutReceipt, Missing
<1>11. TickInv'
  <2>1. job' = k /\ row'[k] = row[k] /\ rooted' = rooted /\ mine' = mine  BY <1>2, <1>8
  <2>2. row[k].status = "archiving" /\ (rooted \/ row[k].outcome = "failed")
    BY <1>1, <1>2 DEF TickInv, Archiving
  <2>3. remote'[k].receipt # NoReceipt  BY <1>6, <1>7, <1>9
  <2> QED  BY <1>3, <1>8, <2>1, <2>2, <2>3 DEF TickInv, Working, Archiving, ReceiptFitsRow, NoReceipt
<1>12. JobInv(k)'
  <2>1. RowInv(k)'  BY <1>2, <1>8 DEF JobInv, RowInv
  <2>2. BudgetInv(k)'  BY <1>2, <1>8 DEF JobInv, BudgetInv
  <2>3. ~Terminal(k)'  BY <1>3, <1>8 DEF Terminal, Outcomes
  <2>4. remote'[k].receipt = mine /\ remote'[k].receipt # NoReceipt /\ remote'[k].objects = remote[k].objects
    BY <1>6, <1>7, <1>9
  <2>5. Whole(local[k].receipt)' /\ Whole(remote[k].receipt)'
    BY <1>1, <1>2, <1>8, <2>4 DEF JobInv, ReceiptInv, Whole
  <2>6. ObjectsStored(k, remote[k].receipt)'
    BY <1>10, <2>4 DEF ObjectsStored
  <2>7. (remote[k].receipt # NoReceipt)'  BY <2>4 DEF NoReceipt
  <2> QED  BY <2>1, <2>2, <2>3, <2>5, <2>6, <2>7 DEF JobInv, ReceiptInv
<1> QED  BY <1>1, <1>2, <1>5, <1>6, <1>8, <1>11, <1>12, GoOnRemote

LEMMA FinishStep ==
    ASSUME IInv, Finish
    PROVE  IInv'
<1> USE DEF bundleVars, tableVars
<1>1. pc = "finish" /\ TypeOK /\ TickInv  BY TickJob DEF Finish
<1>2. PICK k \in Jobs : k = job /\ JobInv(k)  BY <1>1, TickJob
<1>3. /\ row[k].status = "archiving" /\ remote[k].receipt.outcome = row[k].outcome
  BY <1>1, <1>2 DEF TickInv, Archiving, ReceiptFitsRow
<1>4. EndTick /\ UNCHANGED <<local, remote, bundleVars, tries>>  BY DEF Finish
<1>5. PICK r : r = FinishRow(row[k])  OBVIOUS
<1>6. row' = [row EXCEPT ![k] = r]  BY <1>2, <1>5 DEF Finish, Save
<1>7. row'[k] = FinishRow(row[k])  BY <1>1, <1>5, <1>6 DEF TypeOK
<1>8. r \in Row /\ JobInv(k)'  BY <1>1, <1>2, <1>3, <1>4, <1>5, <1>7, FinishInv
<1>9. local' \in [Jobs -> Directory]  BY <1>1, <1>4 DEF TypeOK
<1> QED  BY <1>2, <1>4, <1>6, <1>8, <1>9, EndStep

\* A killed tick leaves what it made durable.
LEMMA KillStep ==
    ASSUME IInv, Kill
    PROVE  IInv'
<1> USE DEF bundleVars, tableVars
<1>1. pc # "idle" /\ TypeOK  BY TickJob DEF Kill
<1>2. PICK k \in Jobs : k = job /\ JobInv(k) /\ row[k] \in Row  BY <1>1, TickJob
<1>3. EndTick /\ UNCHANGED <<row, local, remote, bundleVars, tries>>  BY DEF Kill
<1>4. row' = [row EXCEPT ![k] = row[k]]  BY <1>1, <1>3 DEF TypeOK
<1>5. JobInv(k)'  BY <1>2, <1>3, JobKeep DEF SameRow
<1>6. local' \in [Jobs -> Directory]  BY <1>1, <1>3 DEF TypeOK
<1> QED  BY <1>2, <1>3, <1>4, <1>5, <1>6, EndStep

LEMMA RetriesStep ==
    ASSUME IInv, RootFails \/ StageRetries \/ ArchiveRetries
    PROVE  IInv'
<1>1. pc # "idle"  BY DEF RootFails, StageRetries, ArchiveRetries
<1>2. "resource_exhausted" \in Codes /\ "archive_unavailable" \in Codes  BY DEF Codes
<1>3. CASE RootFails
  BY <1>1, <1>2, <1>3, RetryStep DEF RootFails
<1>4. CASE StageRetries  BY <1>1, <1>2, <1>4, RetryStep DEF StageRetries
<1>5. CASE ArchiveRetries  BY <1>1, <1>2, <1>5, RetryStep DEF ArchiveRetries
<1> QED  BY <1>3, <1>4, <1>5

LEMMA LosesStep ==
    ASSUME IInv, RootIsLost \/ StageLosesState \/ ArchiveLosesState
    PROVE  IInv'
<1>1. pc # "idle" /\ LoseRoot  BY DEF RootIsLost, StageLosesState, ArchiveLosesState
<1> QED  BY <1>1, LoseStep

LEMMA TickStepKeeps ==
    ASSUME IInv, TickStep
    PROVE  IInv'
BY AdoptPublishedStep, AdoptNothingStep, MakeRootStep, WriteRequestStep, OpenRootStep, LosesStep,
   RetriesStep, BeginStageStep, EnsureStep, StageEndsStep, WriteContextStep, WriteMarkerStep,
   AdvanceStep, FreezeReceiptStep, BindReceiptStep, FreezeRootlessStep, AdoptRemoteStep,
   PutObjectStep, PutReceiptStep, FinishStep
   DEF TickStep

LEMMA StutterStep ==
    ASSUME IInv, UNCHANGED vars
    PROVE  IInv'
<1> USE DEF vars, tableVars, bundleVars, tickVars
<1>1. TypeOK /\ TickInv /\ BundleInv /\ Whole(mine)  BY DEF IInv
<1>2. fresh' \in BOOLEAN /\ rooted' \in BOOLEAN  BY <1>1, Zenon DEF TypeOK
<1>3. TypeOK'  BY <1>1, <1>2 DEF TypeOK
<1>4. TickInv'  BY <1>1, TickKeep
<1>5. Whole(mine)' /\ BundleInv'  BY <1>1 DEF Whole, BundleInv
<1> QED  BY <1>3, <1>4, <1>5, BundleStep

-----------------------------------------------------------------------------
(* Theorems                                                                *)

\* IInv is an invariant of the job table, the runner and the bundle cache:
\* initial, and kept by every step of the API, a tick, the operator, a kill, a
\* deployment and a loss.
THEOREM Invariance == Spec => []IInv
<1>1. Init => IInv  BY IInvInit
<1>2. IInv /\ [Next]_vars => IInv'
  <2> SUFFICES ASSUME IInv, [Next]_vars PROVE IInv'
    OBVIOUS
  <2>1. CASE ClaimNext  BY <2>1, ClaimStep
  <2>2. CASE TickStep  BY <2>2, TickStepKeeps
  <2>3. CASE Kill  BY <2>3, KillStep
  <2>4. CASE Deploy  BY <2>4, DeployStep
  <2>5. CASE \E j \in Jobs : \/ Submit(j) \/ CancelJob(j) \/ ResumeBlocked(j)
                             \/ BackoffPasses(j) \/ DeadlinePasses(j)
    BY <2>5, SubmitStep, CancelStep, ResumeStep, BackoffStep, DeployStep
  <2>6. CASE \E j \in Jobs, how \in {"absent", "damaged"} : Damage(j, how)
    BY <2>6, DamageStep
  <2>7. CASE UNCHANGED vars  BY <2>7, StutterStep
  <2> QED  BY <2>1, <2>2, <2>3, <2>4, <2>5, <2>6, <2>7 DEF Next
<1> QED  BY <1>1, <1>2, PTL DEF Spec

\* The job table, the directories, the store and the tick hold what they may.
THEOREM TypeCorrect == Spec => []TypeOK
<1>1. IInv => TypeOK  BY DEF IInv
<1> QED  BY <1>1, Invariance, PTL

\* A finished job's row, its published receipt and the objects it names agree; no
\* stage is worked on more often than its budget; no row and no bundle receipt is
\* ahead of what is stored; a conflict is only reported where there is one.
THEOREM JobsSound == Spec => []JobsAreSound
<1>1. IInv => JobsAreSound
  <2> SUFFICES ASSUME IInv PROVE JobsAreSound
    OBVIOUS
  <2>0. TypeOK /\ \A j \in Jobs : RowInv(j) /\ BudgetInv(j) /\ ReceiptInv(j)  BY DEF IInv
  <2>1. TerminalIsPublished
    <3> SUFFICES ASSUME NEW j \in Jobs, Terminal(j)
                 PROVE  /\ remote[j].receipt.outcome = row[j].status
                        /\ ObjectsStored(j, remote[j].receipt)
                        /\ row[j].status = "succeeded" => remote[j].receipt.marks = Read + 1
                        /\ row[j].status = "cancelled" => remote[j].receipt.marks <= 1 /\ ~row[j].started
      BY DEF TerminalIsPublished
    <3>1. ReceiptInv(j) /\ remote[j].receipt.outcome = row[j].status  BY <2>0 DEF ReceiptInv
    <3>2. remote[j].receipt # NoReceipt  BY <3>1 DEF Terminal, Outcomes, NoReceipt
    <3> QED  BY <3>1, <3>2 DEF ReceiptInv, Whole
  <2>2. BudgetHolds  BY <2>0 DEF BudgetHolds, BudgetInv
  <2>3. NothingNamedIsMissing  BY <2>0 DEF IInv, NothingNamedIsMissing, BundleInv, RowInv
  <2>4. ConflictIsReal  BY <2>0 DEF ConflictIsReal, ReceiptInv
  <2> QED  BY <2>1, <2>2, <2>3, <2>4 DEF JobsAreSound
<1> QED  BY <1>1, Invariance, PTL

=============================================================================
