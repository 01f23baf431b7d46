------------------------- MODULE CanonicalRetention -------------------------
(***************************************************************************)
(* What happens to a committed canonical window: the canonical archiver    *)
(* publishes its two frames and its receipt and writes a marker last       *)
(* (archive/archiver/canonical.py), the canonical reaper deletes the       *)
(* frames once the marker, the store and a retention floor prove it        *)
(* (archive/reaper/canonical.py), readers decide from what is left whether *)
(* the window is whole (finalize/src/canonical.rs, archive/common/         *)
(* receipts.py), and a replay host restores it from the store              *)
(* (archive/canonical_restore.py).                                         *)
(*                                                                         *)
(* A window is finalized again when a power loss takes its receipt before  *)
(* the directory fsync: generation g of the receipt names frames with      *)
(* content body[w][g].  `mem` and `disk` are as in RawRetention.           *)
(***************************************************************************)
EXTENDS Integers, FiniteSets, FiniteSetsExt

CONSTANTS
    MaxWindows,      \* bound on the windows
    MaxTrouble,      \* bound on kills, power losses, failing calls and decayed
                     \* or lost copies together
    OrderedDirs      \* the file system writes directory changes in their order

ProperBounds == MaxWindows \in Nat /\ MaxTrouble \in Nat /\ OrderedDirs \in BOOLEAN

ASSUME BoundsAssumption == ProperBounds

Windows == 1..MaxWindows
\* Each power loss costs a window at most one finalization.
MaxGenerations == MaxTrouble + 1
Generations == 1..MaxGenerations
None == 0
Rotten == MaxGenerations + 1
Frames == {"evidence", "provenance"}
Names == Frames \cup {"receipt", "marker"}
Objects == Frames \cup {"receipt"}

VARIABLES
    mem, disk,  \* entries of each window's directory, and what may survive
    gen,        \* generations of each window so far
    body,       \* content of the frames that each generation's receipt names
    store,      \* what each immutable key holds
    aged,       \* windows whose marker is older than the retention floor
    apc, aw, atodo, halted,  \* archiver sweep
    rpc, rw,                 \* reaper, at one window
    qpc, qw, qsaw, verdict,  \* a reader, at one window
    spc, sw, dest,           \* the restore, and its destination directory
    excused,    \* copies the store lost after the reaper's last look
    trouble     \* what has gone wrong so far

finalizerVars == <<gen, body>>
archiverVars == <<apc, aw, atodo, halted>>
reaperVars == <<rpc, rw>>
readerVars == <<qpc, qw, qsaw, verdict>>
restoreVars == <<spc, sw, dest>>
vars == <<mem, disk, finalizerVars, store, aged, archiverVars, reaperVars, readerVars,
          restoreVars, excused, trouble>>

Trouble == trouble < MaxTrouble /\ trouble' = trouble + 1
Present(w, n) == mem[w][n] # None
Committed == {w \in Windows : Present(w, "receipt")}

\* What the object under each key should be, for the receipt in the directory.
Named(w, n) == IF n = "receipt" THEN mem[w]["receipt"] ELSE body[w][mem[w]["receipt"]]

-----------------------------------------------------------------------------
(* Directory entries *)

Put(w, n, v) == mem' = [mem EXCEPT ![w][n] = v]

Pending(w, n, v) ==
    disk' = [disk EXCEPT ![w] = @ \cup IF OrderedDirs
                                       THEN {[mem[w] EXCEPT ![n] = v]}
                                       ELSE {[d EXCEPT ![n] = v] : d \in @}]

Synced(w) == disk' = [disk EXCEPT ![w] = {mem[w]}]
Durable(w, n) == \A d \in disk[w] : d[n] # None

-----------------------------------------------------------------------------
(* The finalizer publishes a window *)

\* Frames first, the receipt last, its directory not yet synced.
Finalize(w, content) ==
    /\ ~Present(w, "receipt") /\ gen[w] < MaxGenerations
    /\ LET g == gen[w] + 1
           whole == [mem[w] EXCEPT !["evidence"] = content, !["provenance"] = content]
       IN  /\ content = g \/ (gen[w] > 0 /\ content = body[w][gen[w]])
           /\ gen' = [gen EXCEPT ![w] = g]
           /\ body' = [body EXCEPT ![w][g] = content]
           /\ mem' = [mem EXCEPT ![w] = [whole EXCEPT !["receipt"] = g]]
           /\ disk' = [disk EXCEPT ![w] = {whole, [whole EXCEPT !["receipt"] = g]}]
    /\ UNCHANGED <<store, aged, archiverVars, reaperVars, readerVars, restoreVars, excused, trouble>>

FinalizeSync(w) ==
    /\ Present(w, "receipt") /\ ~Durable(w, "receipt")
    /\ Synced(w)
    /\ UNCHANGED <<mem, finalizerVars, store, aged, archiverVars, reaperVars, readerVars, restoreVars, excused, trouble>>

-----------------------------------------------------------------------------
(* read_receipt: may the window be treated as committed? *)

\* The marker parses and binds the receipt beside it and both output identities.
ValidateTombstone(w) == Present(w, "marker") /\ mem[w]["marker"] = mem[w]["receipt"]

\* Mutant: only a window with both frames is whole.
OutputsPresent(w, seen) == seen = Frames

\* canonical_outputs_state, given which frames were seen.
OutputsAccepted(w, seen) ==
    \/ seen = Frames
    \/ "evidence" \notin seen /\ ValidateTombstone(w)

\* read_canonical_receipt of the archiver and the reaper.
ReadCanonicalReceipt(w) ==
    /\ Present(w, "receipt")
    /\ OutputsAccepted(w, {n \in Frames : Present(w, n)})

-----------------------------------------------------------------------------
(* The canonical archiver *)

\* read_canonical_archive_receipt, and the identities that bind it to the window.
MarkerBinds(w) == mem[w]["marker"] \in Generations /\ mem[w]["marker"] = mem[w]["receipt"]

\* _verify_local_frame: the frame decodes to the bytes its receipt commits to.
VerifyLocalFrame(w, n) == mem[w][n] = Named(w, n)

\* _build_receipt: the marker names the objects of this receipt.
BuildReceipt(w) == mem[w]["receipt"]

ArchiveSweep ==
    /\ apc = "idle"
    /\ apc' = "next" /\ atodo' = Committed /\ halted' = FALSE
    /\ UNCHANGED <<mem, disk, finalizerVars, store, aged, aw, reaperVars, readerVars, restoreVars, excused, trouble>>

ArchiveSweepEnds ==
    /\ apc = "next" /\ (atodo = {} \/ halted)
    /\ apc' = "idle" /\ atodo' = {} /\ aw' = None
    /\ UNCHANGED <<mem, disk, finalizerVars, store, aged, halted, reaperVars, readerVars, restoreVars, excused, trouble>>

\* verify_canonical_archive: the three objects are the ones the marker records.
ArchiveVerified(w) == \A n \in Objects : store[w][n] = Named(w, n)

\* _verify_existing: the marker is of this window and the store still agrees.
VerifyExisting(w) == MarkerBinds(w) /\ ArchiveVerified(w)

\* archive_window up to _archive: an existing marker is re-verified and made
\* durable; a fresh window goes on only if both frames decode to their receipt.
ArchiveWindow ==
    /\ apc = "next" /\ atodo # {} /\ ~halted
    /\ LET w == Min(atodo) IN
       /\ aw' = w /\ atodo' = atodo \ {w}
       /\ IF Present(w, "marker")
          THEN /\ apc' = "next"
               /\ IF ReadCanonicalReceipt(w) /\ VerifyExisting(w)
                  THEN Synced(w) ELSE UNCHANGED disk
          ELSE /\ apc' = IF ReadCanonicalReceipt(w) /\ \A n \in Frames : VerifyLocalFrame(w, n)
                         THEN "evidence" ELSE "next"
               /\ UNCHANGED disk
    /\ UNCHANGED <<mem, finalizerVars, store, aged, halted, reaperVars, readerVars, restoreVars, excused, trouble>>

AfterPut == [evidence |-> "provenance", provenance |-> "receipt", receipt |-> "verify"]

\* publish_files, one put_immutable at a time; only a conflict stops the sweep.
PutObject ==
    /\ apc \in Objects
    /\ LET want == Named(aw, apc) IN
       \/ /\ mem[aw][apc] # want
          /\ apc' = "next" /\ UNCHANGED <<store, halted>>
       \/ /\ mem[aw][apc] = want /\ store[aw][apc] \in {None, want}
          /\ apc' = AfterPut[apc] /\ store' = [store EXCEPT ![aw][apc] = want] /\ UNCHANGED halted
       \/ /\ mem[aw][apc] = want /\ store[aw][apc] \notin {None, want}
          /\ apc' = "next" /\ halted' = TRUE /\ UNCHANGED store
    /\ UNCHANGED <<mem, disk, finalizerVars, aged, aw, atodo, reaperVars, readerVars, restoreVars, excused, trouble>>

VerifyPut ==
    /\ apc = "verify"
    /\ apc' = IF ArchiveVerified(aw) THEN "write" ELSE "next"
    /\ UNCHANGED <<mem, disk, finalizerVars, store, aged, aw, atodo, halted, reaperVars, readerVars, restoreVars, excused, trouble>>

WriteMarker ==
    /\ apc = "write"
    /\ apc' = "sync"
    /\ Put(aw, "marker", BuildReceipt(aw)) /\ Pending(aw, "marker", BuildReceipt(aw))
    /\ UNCHANGED <<finalizerVars, store, aged, aw, atodo, halted, reaperVars, readerVars, restoreVars, excused, trouble>>

SyncMarker ==
    /\ apc = "sync"
    /\ apc' = "next" /\ Synced(aw)
    /\ UNCHANGED <<mem, finalizerVars, store, aged, aw, atodo, halted, reaperVars, readerVars, restoreVars, excused, trouble>>

SyncMarkerFails ==
    /\ apc = "sync" /\ Trouble
    /\ apc' = "next"
    /\ Put(aw, "marker", None)
    /\ Pending(aw, "marker", None) \/ disk' = [disk EXCEPT ![aw] = {mem'[aw]}]
    /\ UNCHANGED <<finalizerVars, store, aged, aw, atodo, halted, reaperVars, readerVars, restoreVars, excused>>

StoreCallFails ==
    /\ apc \in Objects \cup {"verify"} /\ Trouble
    /\ apc' = "next"
    /\ UNCHANGED <<mem, disk, finalizerVars, store, aged, aw, atodo, halted, reaperVars, readerVars, restoreVars, excused>>

-----------------------------------------------------------------------------
(* The canonical reaper *)

\* The retention floor has passed since the newest of the two receipts.  It is
\* hours, and no call of a sweep lasts as long: a marker is settled by then.
WindowAges(w) ==
    /\ Present(w, "marker") /\ w \notin aged
    /\ ~(apc = "sync" /\ aw = w)
    /\ aged' = aged \cup {w}
    /\ UNCHANGED <<mem, disk, finalizerVars, store, archiverVars, reaperVars, readerVars, restoreVars, excused, trouble>>

\* _inventory: the frames that are left.
Inventory(w) == {n \in Frames : Present(w, n)}

\* _validate_binding: receipt, marker and the bytes that are left agree.
ValidateBinding(w) == MarkerBinds(w) /\ \A n \in Inventory(w) : mem[w][n] = Named(w, n)

\* Mutant: without the fresh look at the store.
ConsiderUnverified(w) ==
    /\ rpc = "idle" /\ Present(w, "marker") /\ w \in aged
    /\ Inventory(w) \notin {{}, {"evidence"}}
    /\ ReadCanonicalReceipt(w) /\ MarkerBinds(w)
    /\ rpc' = "confirm" /\ rw' = w
    /\ UNCHANGED <<mem, disk, finalizerVars, store, aged, archiverVars, readerVars, restoreVars, excused, trouble>>

\* consider, up to the deletion; reaped, unproven or young windows are left.
Consider(w) ==
    /\ rpc = "idle"
    /\ Present(w, "marker") /\ w \in aged
    /\ Inventory(w) \notin {{}, {"evidence"}}
    /\ ReadCanonicalReceipt(w) /\ ValidateBinding(w)
    /\ ArchiveVerified(w)
    /\ rpc' = "confirm" /\ rw' = w
    /\ UNCHANGED <<mem, disk, finalizerVars, store, aged, archiverVars, readerVars, restoreVars, excused, trouble>>

\* Both receipts are made durable before the frames they replace go.
ConfirmReceipts ==
    /\ rpc = "confirm"
    /\ rpc' = "evidence" /\ Synced(rw)
    /\ UNCHANGED <<mem, finalizerVars, store, aged, archiverVars, rw, readerVars, restoreVars, excused, trouble>>

AfterRemove == [evidence |-> "syncEvidence", provenance |-> "syncProvenance"]

\* remove_durable: a frame that is already gone costs no fsync.
RemoveFrame ==
    /\ rpc \in Frames
    /\ IF Present(rw, rpc)
       THEN rpc' = AfterRemove[rpc] /\ Put(rw, rpc, None) /\ Pending(rw, rpc, None)
       ELSE rpc' = (IF rpc = "evidence" THEN "provenance" ELSE "idle") /\ UNCHANGED <<mem, disk>>
    /\ UNCHANGED <<finalizerVars, store, aged, archiverVars, rw, readerVars, restoreVars, excused, trouble>>

SyncRemoval ==
    /\ rpc \in {"syncEvidence", "syncProvenance"}
    /\ rpc' = IF rpc = "syncEvidence" THEN "provenance" ELSE "idle"
    /\ Synced(rw)
    /\ UNCHANGED <<mem, finalizerVars, store, aged, archiverVars, rw, readerVars, restoreVars, excused, trouble>>

\* An OSError of an fsync ends the reaper's run.
ReaperSyncFails ==
    /\ rpc \in {"confirm", "syncEvidence", "syncProvenance"} /\ Trouble
    /\ rpc' = "idle" /\ rw' = None
    /\ UNCHANGED <<mem, disk, finalizerVars, store, aged, archiverVars, readerVars, restoreVars, excused>>

-----------------------------------------------------------------------------
(* A reader of the canonical root, such as the finalizer's committed_windows *)

ReadStart(w) ==
    /\ qpc = "idle" /\ Present(w, "receipt")
    /\ qpc' = "evidence" /\ qw' = w /\ qsaw' = {} /\ verdict' = "none"
    /\ UNCHANGED <<mem, disk, finalizerVars, store, aged, archiverVars, reaperVars, restoreVars, excused, trouble>>

\* canonical_output_present of one frame, then of the other.
ReadFrame ==
    /\ qpc \in Frames
    /\ qsaw' = IF Present(qw, qpc) THEN qsaw \cup {qpc} ELSE qsaw
    /\ qpc' = IF qpc = "evidence" THEN "provenance" ELSE "decide"
    /\ UNCHANGED <<mem, disk, finalizerVars, store, aged, archiverVars, reaperVars, qw, verdict, restoreVars, excused, trouble>>

ReadDecide ==
    /\ qpc = "decide"
    /\ qpc' = "idle" /\ qw' = None /\ qsaw' = {}
    /\ verdict' = IF OutputsAccepted(qw, qsaw) THEN "accepted" ELSE "fault"
    /\ UNCHANGED <<mem, disk, finalizerVars, store, aged, archiverVars, reaperVars, restoreVars, excused, trouble>>

-----------------------------------------------------------------------------
(* Restore on a replay host *)

\* preflight_canonical_window: the remote receipt parses and both frames have the
\* identities it names.
Preflighted(w) ==
    /\ store[w]["receipt"] # None
    /\ \A n \in Frames : store[w][n] = body[w][store[w]["receipt"]]

\* restore_canonical_window clears what an unfinished restore left.
RestoreStart(w) ==
    /\ spc = "idle" /\ dest[w]["receipt"] = None
    /\ Preflighted(w)
    /\ sw' = [window |-> w, gen |-> store[w]["receipt"]]
    /\ spc' = "evidence"
    /\ dest' = [dest EXCEPT ![w] = [n \in Objects |-> None]]
    /\ UNCHANGED <<mem, disk, finalizerVars, store, aged, archiverVars, reaperVars, readerVars, excused, trouble>>

\* _restore_frame and the receipt last; a copy that no longer verifies removes
\* the whole directory.
RestoreObject ==
    /\ spc \in Objects
    /\ LET w == sw.window
           want == IF spc = "receipt" THEN sw.gen ELSE body[w][sw.gen]
       IN  IF spc = "receipt" \/ store[w][spc] = want
           THEN /\ dest' = [dest EXCEPT ![w][spc] = want]
                /\ spc' = IF spc = "receipt" THEN "idle" ELSE AfterPut[spc]
           ELSE /\ dest' = [dest EXCEPT ![w] = [n \in Objects |-> None]]
                /\ spc' = "idle"
    /\ UNCHANGED <<mem, disk, finalizerVars, store, aged, archiverVars, reaperVars, readerVars, sw, excused, trouble>>

-----------------------------------------------------------------------------
(* The environment *)

StopArchiver == apc' = "idle" /\ atodo' = {} /\ aw' = None /\ halted' = FALSE
StopReaper == rpc' = "idle" /\ rw' = None
StopReader == qpc' = "idle" /\ qw' = None /\ qsaw' = {} /\ verdict' = "none"

KillArchiver ==
    /\ apc # "idle" /\ Trouble /\ StopArchiver
    /\ UNCHANGED <<mem, disk, finalizerVars, store, aged, reaperVars, readerVars, restoreVars, excused>>

KillReaper ==
    /\ rpc # "idle" /\ Trouble /\ StopReaper
    /\ UNCHANGED <<mem, disk, finalizerVars, store, aged, archiverVars, readerVars, restoreVars, excused>>

KillRestore ==
    /\ spc # "idle" /\ Trouble /\ spc' = "idle"
    /\ UNCHANGED <<mem, disk, finalizerVars, store, aged, archiverVars, reaperVars, readerVars, sw, dest, excused>>

PowerLoss ==
    /\ Trouble /\ StopArchiver /\ StopReaper /\ StopReader
    /\ mem' \in {m \in [Windows -> UNION {disk[w] : w \in Windows}] : \A w \in Windows : m[w] \in disk[w]}
    /\ disk' = [w \in Windows |-> {mem'[w]}]
    /\ aged' = {w \in aged : mem'[w]["marker"] # None}
    /\ UNCHANGED <<finalizerVars, store, restoreVars, excused>>

\* A frame or the marker decays; an object of the store is lost.
Decay(w, n) ==
    /\ Present(w, n) /\ mem[w][n] # Rotten /\ Trouble
    /\ mem' = [mem EXCEPT ![w][n] = Rotten]
    /\ disk' = [disk EXCEPT ![w] = {[d EXCEPT ![n] = IF @ = None THEN @ ELSE Rotten] : d \in @}]
    /\ UNCHANGED <<finalizerVars, store, aged, archiverVars, reaperVars, readerVars, restoreVars, excused>>

StoreLoses(w, n) ==
    /\ store[w][n] # None /\ Trouble
    /\ store' = [store EXCEPT ![w][n] = None]
    /\ excused' = IF (\E f \in Frames : ~Present(w, f)) \/ (rw = w /\ rpc # "idle")
                  THEN excused \cup {w} ELSE excused
    /\ UNCHANGED <<mem, disk, finalizerVars, aged, archiverVars, reaperVars, readerVars, restoreVars>>

-----------------------------------------------------------------------------

Init ==
    /\ mem = [w \in Windows |-> [n \in Names |-> None]]
    /\ disk = [w \in Windows |-> {mem[w]}]
    /\ gen = [w \in Windows |-> 0] /\ body = [w \in Windows |-> [g \in Generations |-> None]]
    /\ store = [w \in Windows |-> [n \in Objects |-> None]] /\ aged = {}
    /\ apc = "idle" /\ aw = None /\ atodo = {} /\ halted = FALSE
    /\ rpc = "idle" /\ rw = None
    /\ qpc = "idle" /\ qw = None /\ qsaw = {} /\ verdict = "none"
    /\ spc = "idle" /\ sw = [window |-> None, gen |-> None]
    /\ dest = [w \in Windows |-> [n \in Objects |-> None]]
    /\ excused = {} /\ trouble = 0

Finalizer == \E w \in Windows : FinalizeSync(w) \/ \E c \in Generations : Finalize(w, c)
Archiver ==
    \/ ArchiveSweep \/ ArchiveSweepEnds \/ ArchiveWindow \/ PutObject \/ VerifyPut
    \/ WriteMarker \/ SyncMarker
Reaper == (\E w \in Windows : Consider(w)) \/ ConfirmReceipts \/ RemoveFrame \/ SyncRemoval
Reader == (\E w \in Windows : ReadStart(w)) \/ ReadFrame \/ ReadDecide
Restore == (\E w \in Windows : RestoreStart(w)) \/ RestoreObject
Environment ==
    \/ SyncMarkerFails \/ StoreCallFails \/ ReaperSyncFails
    \/ KillArchiver \/ KillReaper \/ KillRestore \/ PowerLoss
    \/ \E w \in Windows : \/ WindowAges(w)
                          \/ \E n \in Frames \cup {"marker"} : Decay(w, n)
                          \/ \E n \in Objects : StoreLoses(w, n)

Next == Finalizer \/ Archiver \/ Reaper \/ Reader \/ Restore \/ Environment

Spec == Init /\ [][Next]_vars

\* Each service runs in a loop, and time passes.
FairSpec ==
    /\ Spec
    /\ WF_vars(Finalizer) /\ WF_vars(Archiver) /\ WF_vars(Reaper) /\ WF_vars(Reader)
    /\ \A w \in Windows : WF_vars(WindowAges(w))

-----------------------------------------------------------------------------
(* Properties *)

TypeOK ==
    /\ mem \in [Windows -> [Names -> 0..Rotten]] /\ disk \in [Windows -> SUBSET [Names -> 0..Rotten]]
    /\ \A w \in Windows : mem[w] \in disk[w]
    /\ gen \in [Windows -> 0..MaxGenerations]
    /\ body \in [Windows -> [Generations -> 0..MaxGenerations]]
    /\ store \in [Windows -> [Objects -> 0..MaxGenerations]]
    /\ dest \in [Windows -> [Objects -> 0..MaxGenerations]]
    /\ aged \subseteq Windows /\ excused \subseteq Windows
    /\ apc \in Objects \cup {"idle", "next", "verify", "write", "sync"} /\ aw \in 0..MaxWindows
    /\ atodo \subseteq Windows /\ halted \in BOOLEAN
    /\ rpc \in Frames \cup {"idle", "confirm", "syncEvidence", "syncProvenance"} /\ rw \in 0..MaxWindows
    /\ qpc \in Frames \cup {"idle", "decide"} /\ qw \in 0..MaxWindows /\ qsaw \subseteq Frames
    /\ verdict \in {"none", "accepted", "fault"}
    /\ spc \in Objects \cup {"idle"} /\ sw \in [window : 0..MaxWindows, gen : 0..MaxGenerations]
    /\ trouble \in 0..MaxTrouble

\* No frame of a committed window is ever gone from both the disk and the
\* store, through generations, crashes and unfinished deletions.
WindowNeverLost ==
    \A w \in Committed \ excused, n \in Frames :
        Present(w, n) \/ store[w][n] = Named(w, n)

\* "This is not a state produced by the canonical reaper": provenance is never
\* absent while evidence remains, also not after a power loss that resurrects a
\* deleted name.
EvidenceGoesFirst ==
    \A w \in Committed : Present(w, "evidence") => Present(w, "provenance")

\* A missing frame is always explained by a marker that binds the receipt beside
\* it and would survive a power loss: without it every reader fails closed.
TombstoneExplainsAbsence ==
    \A w \in Committed :
        (\E n \in Frames : ~Present(w, n)) =>
            /\ MarkerBinds(w) \/ mem[w]["marker"] = Rotten
            /\ Durable(w, "marker") /\ Durable(w, "receipt")

\* A restored receipt has both frames it names, whichever generation was
\* published and however often the restore was cut short.
RestoredWindowIsWhole ==
    \A w \in Windows : LET g == dest[w]["receipt"] IN
        g # None => \A n \in Frames : dest[w][n] = body[w][g]

\* No frame of a committed window is gone from both the disk and the store; a
\* missing one is explained by a durable marker, evidence never outlives its
\* provenance, and a restored receipt has both frames it names (archiver/canonical.py,
\* reaper/canonical.py, canonical_restore.py).
WindowsAreKept ==
    WindowNeverLost /\ TombstoneExplainsAbsence /\ RestoredWindowIsWhole /\ EvidenceGoesFirst

\* A reader that finds a committed window at fault while only the archiver and
\* the reaper are at work accepts it on a later pass: the finalizer, which stops
\* on such a fault, is not stuck.
ReaderRecovers ==
    verdict = "fault" ~> verdict = "accepted" \/ \E w \in Windows : mem[w]["marker"] = Rotten

\* A committed window is archived and reaped in the end, unless its bytes decayed,
\* a copy was lost, or a generation that a power loss took had already claimed a
\* key: that conflict also stops the sweep before every later window.
EventuallyReaped ==
    \A w \in Windows :
        w \in Committed ~> \/ \A n \in Frames : ~Present(w, n)
                           \/ \E n \in Names : mem[w][n] = Rotten
                           \/ w \in Committed /\ Present(w, "marker") /\ ~ArchiveVerified(w)
                           \/ \E v \in 1..w, n \in Objects :
                                 v \in Committed /\ store[v][n] \notin {None, Named(v, n)}

\* Not an invariant (a reader between two deletions finds one): only the archiver
\* and the reaper touch a committed window, so a reader never
\* finds one at fault.
ReapingIsNotAFault == trouble = 0 => verdict # "fault"

=============================================================================
