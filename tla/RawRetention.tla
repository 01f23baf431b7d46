---------------------------- MODULE RawRetention ----------------------------
(***************************************************************************)
(* What happens to a sealed raw segment: the archiver publishes it to the  *)
(* object store and writes a receipt last (archive/archiver/service.py),   *)
(* the finalizer commits the window that names it, and the reaper deletes  *)
(* the local copy when both receipts prove it (archive/reaper/service.py). *)
(* The lane that wrote it may restart meanwhile and resume its delivery    *)
(* index from the seals that are left (splices/common/spool.py).           *)
(*                                                                         *)
(* All files of a segment are entries of one directory.  `mem` is what a   *)
(* process sees, `disk` the set of what a power loss may leave: an fsync   *)
(* of the directory makes it a singleton.  An identity (digest and length) *)
(* is replaced by what it identifies: the encoder version that produced a  *)
(* compressed frame, or whether raw bytes are the ones the seal describes. *)
(***************************************************************************)
EXTENDS Integers, FiniteSets, FiniteSetsExt

CONSTANTS
    MaxSegments,  \* bound on the segments the lane seals
    MaxTrouble,   \* bound on kills, power losses, failing calls, decayed files,
                  \* lost objects, encoder upgrades and lane restarts together
    OrderedDirs   \* the file system writes directory changes in their order

ASSUME RawAssumption ==
    MaxSegments \in Nat /\ MaxTrouble \in Nat /\ OrderedDirs \in BOOLEAN

Segs == 1..MaxSegments
None == 0
Good == 1
Versions == 1..(MaxTrouble + 1)
Rotten == MaxTrouble + 2
Names == {"raw", "seal", "zst", "receipt"}

VARIABLES
    mem, disk,    \* directory entries of each segment, and what may survive
    index,        \* delivery index of each sealed segment's record, or None
    next,         \* the lane's next delivery index
    data, seal,   \* the store: version of a data object, presence of a seal
    canon,        \* segments some committed canonical receipt names
    enc,          \* installed encoder version
    apc, atodo, aseg, halted,            \* archiver sweep
    rpc, rtodo, rseg, rindex,  \* reaper sweep
    loss,         \* whether the store lost the object before or after the reaper's
                  \* last look at it
    withdrawn,    \* segments whose receipt the archiver has taken back
    trouble       \* what has gone wrong so far

laneVars == <<index, next>>
storeVars == <<data, seal, loss>>
archiverVars == <<apc, atodo, aseg, halted, withdrawn>>
reaperVars == <<rpc, rtodo, rseg, rindex>>
vars == <<mem, disk, laneVars, storeVars, canon, enc, archiverVars, reaperVars, trouble>>

Sealed == {s \in Segs : index[s] # None}
Present(s, n) == mem[s][n] # None

\* One more disturbance, within the bound.
Trouble == trouble < MaxTrouble /\ trouble' = trouble + 1

-----------------------------------------------------------------------------
(* Durable files: archive/common/durable.py *)

Put(s, n, v) == mem' = [mem EXCEPT ![s][n] = v]
Unlink(s, n) == Put(s, n, None)

\* The entry n of s is about to be v, without an fsync.
Pending(s, n, v) ==
    disk' = [disk EXCEPT ![s] = @ \cup IF OrderedDirs
                                       THEN {[mem[s] EXCEPT ![n] = v]}
                                       ELSE {[d EXCEPT ![n] = v] : d \in @}]

\* fsync of the directory after the entries have become m.
Synced(m) == disk' = [s \in Segs |-> {m[s]}]

Durable(s, n) == \A d \in disk[s] : d[n] # None

-----------------------------------------------------------------------------
(* The lane *)

\* The writer publishes a sealed segment, durable before the seal is visible.
LaneSeals(s) ==
    /\ s \notin Sealed /\ \A t \in 1..(s - 1) : t \in Sealed
    /\ mem' = [mem EXCEPT ![s]["raw"] = Good, ![s]["seal"] = Good]
    /\ Synced(mem')
    /\ index' = [index EXCEPT ![s] = next]
    /\ next' = next + 1
    /\ UNCHANGED <<storeVars, canon, enc, archiverVars, reaperVars, trouble>>

\* resume_state: one past the highest index a seal beside its segment names, or
\* 1 when the lane's directory holds none.
ResumeIndex ==
    LET kept == {s \in Sealed : Present(s, "raw") /\ Present(s, "seal")}
    IN  1 + Max({index[s] : s \in kept} \cup {0})

LaneRestarts ==
    /\ Trouble
    /\ next' = ResumeIndex
    /\ UNCHANGED <<mem, disk, index, storeVars, canon, enc, archiverVars, reaperVars>>

\* The finalizer commits a window whose inputs name the segment.
Commit(s) ==
    /\ s \in Sealed \ canon
    /\ mem[s]["raw"] = Good /\ mem[s]["seal"] = Good
    /\ canon' = canon \cup {s}
    /\ UNCHANGED <<mem, disk, laneVars, storeVars, enc, archiverVars, reaperVars, trouble>>

-----------------------------------------------------------------------------
(* The archiver *)

\* read_sealed_segment: the sidecar parses and coheres with its path.
ReadSealedSegment(s) == mem[s]["seal"] = Good

\* logical_matches_seal: the bytes read are the ones the seal describes.
LogicalMatchesSeal(s) == mem[s]["raw"] = Good

\* read_archive_receipt: a receipt that parses, which only the archiver writes.
ReadArchiveReceipt(s) == mem[s]["receipt"] \in Versions

\* build_archive_receipt: it records the identity of the frame this run encoded.
\* The library is not replaced under a running process.
BuildArchiveReceipt == enc

\* verify_archive: both objects are there with the recorded identities.
VerifyArchive(s, frame) == data[s] = frame /\ seal[s] = Good

\* _existing_receipt: a receipt is accepted only while it proves itself again.
ExistingReceipt(s) ==
    /\ ReadArchiveReceipt(s) /\ Present(s, "raw")
    /\ VerifyArchive(s, mem[s]["receipt"])

\* put_immutable: what a key may hold for a put of these bytes to succeed.
PutImmutable(held, bytes) == held \in {None, bytes}

\* sealed_segments: every segment whose sidecar exists.
Discovered == {s \in Sealed : Present(s, "raw") /\ Present(s, "seal")}

ArchiveSweep ==
    /\ apc = "idle"
    /\ apc' = "next" /\ atodo' = Discovered /\ halted' = FALSE
    /\ UNCHANGED <<mem, disk, laneVars, storeVars, canon, enc, aseg, withdrawn, reaperVars, trouble>>

\* The sweep is over, or stopped by a conflict.
ArchiveSweepEnds ==
    /\ apc = "next" /\ (atodo = {} \/ halted)
    /\ apc' = "idle" /\ atodo' = {} /\ aseg' = None
    /\ UNCHANGED <<mem, disk, laneVars, storeVars, canon, enc, halted, withdrawn, reaperVars, trouble>>

\* archive_segment of the next segment up to _archive: an unreadable seal or a
\* receipt that does not hold fails the segment, one that verifies is confirmed
\* durable and skipped.
ArchiveSegment ==
    /\ apc = "next" /\ atodo # {} /\ ~halted
    /\ LET s == Min(atodo) IN
       /\ aseg' = s /\ atodo' = atodo \ {s}
       /\ IF ReadSealedSegment(s) /\ ~Present(s, "receipt")
          THEN apc' = "encode" /\ UNCHANGED disk
          ELSE /\ apc' = "next"
               /\ IF ReadSealedSegment(s) /\ ExistingReceipt(s)
                  THEN Synced(mem) ELSE UNCHANGED disk
    /\ UNCHANGED <<mem, laneVars, storeVars, canon, enc, halted, withdrawn, reaperVars, trouble>>

\* encode_stream: the frame is published only if the bytes read match the seal.
Encode ==
    /\ apc = "encode"
    /\ IF LogicalMatchesSeal(aseg)
       THEN /\ apc' = "data"
            /\ Put(aseg, "zst", enc) /\ Synced(mem')
       ELSE apc' = "next" /\ UNCHANGED <<mem, disk>>
    /\ UNCHANGED <<laneVars, storeVars, canon, enc, atodo, aseg, halted, withdrawn, reaperVars, trouble>>

\* put_immutable: creates the key, accepts one that already holds these bytes,
\* refuses one that holds others; the frame is opened again from its file.
PutData ==
    /\ apc = "data"
    /\ LET frame == mem[aseg]["zst"] IN
       \/ /\ frame = None
          /\ apc' = "next" /\ UNCHANGED <<data, halted>>
       \/ /\ frame # None /\ PutImmutable(data[aseg], frame)
          /\ apc' = "seal" /\ data' = [data EXCEPT ![aseg] = frame] /\ UNCHANGED halted
       \/ /\ frame # None /\ ~PutImmutable(data[aseg], frame)
          /\ apc' = "next" /\ halted' = TRUE /\ UNCHANGED data
    /\ UNCHANGED <<mem, disk, laneVars, seal, loss, canon, enc, atodo, aseg, withdrawn, reaperVars, trouble>>

PutSeal ==
    /\ apc = "seal"
    /\ IF ReadSealedSegment(aseg)
       THEN apc' = "verify" /\ seal' = [seal EXCEPT ![aseg] = Good]
       ELSE apc' = "next" /\ UNCHANGED seal
    /\ UNCHANGED <<mem, disk, laneVars, data, loss, canon, enc, atodo, aseg, halted, withdrawn, reaperVars, trouble>>

\* verify_archive of the receipt about to be written: the objects are re-read.
VerifyPut ==
    /\ apc = "verify"
    /\ apc' = IF VerifyArchive(aseg, enc) THEN "write" ELSE "next"
    /\ UNCHANGED <<mem, disk, laneVars, storeVars, canon, enc, atodo, aseg, halted, withdrawn, reaperVars, trouble>>

\* write_json_durable, up to the rename.
WriteReceipt ==
    /\ apc = "write"
    /\ apc' = "sync" /\ Put(aseg, "receipt", BuildArchiveReceipt) /\ Pending(aseg, "receipt", BuildArchiveReceipt)
    /\ UNCHANGED <<laneVars, storeVars, canon, enc, atodo, aseg, halted, withdrawn, reaperVars, trouble>>

SyncReceipt ==
    /\ apc = "sync"
    /\ apc' = "next" /\ Synced(mem)
    /\ UNCHANGED <<mem, laneVars, storeVars, canon, enc, atodo, aseg, halted, withdrawn, reaperVars, trouble>>

\* The directory fsync raises: the name is taken back, durably if the file system
\* allows it, and the segment has failed.
SyncReceiptFails ==
    /\ apc = "sync"
    /\ Trouble /\ apc' = "next"
    /\ Unlink(aseg, "receipt")
    /\ Synced(mem') \/ Pending(aseg, "receipt", None)
    /\ withdrawn' = withdrawn \cup {aseg}
    /\ UNCHANGED <<laneVars, storeVars, canon, enc, atodo, aseg, halted, reaperVars>>

\* Any call of the store may raise: the segment fails, its files stay.
StoreCallFails ==
    /\ apc \in {"data", "seal", "verify"}
    /\ Trouble /\ apc' = "next"
    /\ UNCHANGED <<mem, disk, laneVars, storeVars, canon, enc, atodo, aseg, halted, withdrawn, reaperVars>>

-----------------------------------------------------------------------------
(* The reaper *)

\* CanonicalIndex.build and discover_receipts, once per sweep.
ReapSweep ==
    /\ rpc = "idle"
    /\ rpc' = "next" /\ rindex' = canon
    /\ rtodo' = {s \in Segs : Present(s, "receipt")}
    /\ UNCHANGED <<mem, disk, laneVars, storeVars, canon, enc, archiverVars, rseg, trouble>>

ReapSweepEnds ==
    /\ rpc = "next" /\ rtodo = {}
    /\ rpc' = "idle" /\ rseg' = None /\ rindex' = {}
    /\ UNCHANGED <<mem, disk, laneVars, storeVars, canon, enc, archiverVars, rtodo, trouble>>

\* Mutant: the receipt is trusted without a look at the store.
ConsiderUnverified ==
    /\ rpc = "next" /\ rtodo # {}
    /\ LET s == Min(rtodo) IN rseg' = s /\ rtodo' = rtodo \ {s} /\ rpc' = "frame"
    /\ UNCHANGED <<mem, disk, laneVars, storeVars, canon, enc, archiverVars, rindex, trouble>>

\* consider: conditions 1 to 3.
Consider ==
    /\ rpc = "next" /\ rtodo # {}
    /\ LET s == Min(rtodo) IN
       /\ rseg' = s /\ rtodo' = rtodo \ {s}
       /\ rpc' = IF ReadArchiveReceipt(s) /\ VerifyArchive(s, mem[s]["receipt"])
                 THEN "frame" ELSE "next"
    /\ UNCHANGED <<mem, disk, laneVars, storeVars, canon, enc, archiverVars, rindex, trouble>>

\* The rebuildable frame goes on the archive receipt alone.
DropFrame ==
    /\ rpc = "frame"
    /\ rpc' = "proof"
    /\ IF Present(rseg, "zst")
       THEN Unlink(rseg, "zst") /\ Synced(mem')
       ELSE UNCHANGED <<mem, disk>>
    /\ UNCHANGED <<laneVars, storeVars, canon, enc, archiverVars, rtodo, rseg, rindex, trouble>>

\* _local_matches: raw bytes and seal rehashed against the receipt.
LocalMatches(s) == mem[s]["raw"] = Good /\ mem[s]["seal"] = Good

\* Mutant: a partial cleanup is taken for a finished one.
ProofForgetsSeal ==
    /\ rpc = "proof"
    /\ rpc' = IF rseg \in rindex /\ Present(rseg, "seal") /\ mem[rseg]["raw"] = Good
              THEN "confirm" ELSE "next"
    /\ UNCHANGED <<mem, disk, laneVars, storeVars, canon, enc, archiverVars, rtodo, rseg, rindex, trouble>>

\* Conditions 4 to 6 and the partial cleanup; what is left is the deletion.
Proof ==
    /\ rpc = "proof"
    /\ rpc' = IF rseg \notin rindex
                 \/ ~Present(rseg, "seal") THEN "next"
              ELSE IF ~Present(rseg, "raw") THEN "rmSeal"
              ELSE IF LocalMatches(rseg) THEN "confirm" ELSE "next"
    /\ UNCHANGED <<mem, disk, laneVars, storeVars, canon, enc, archiverVars, rtodo, rseg, rindex, trouble>>

ConfirmReceipt ==
    /\ rpc = "confirm"
    /\ rpc' = "rmRaw" /\ Synced(mem)
    /\ UNCHANGED <<mem, laneVars, storeVars, canon, enc, archiverVars, rtodo, rseg, rindex, trouble>>

\* Mutant: the seal goes first.
RemoveSealFirst ==
    /\ rpc = "rmRaw"
    /\ rpc' = "syncRaw" /\ Unlink(rseg, "seal") /\ Pending(rseg, "seal", None)
    /\ UNCHANGED <<laneVars, storeVars, canon, enc, archiverVars, rtodo, rseg, rindex, trouble>>

\* remove_durable of the raw file and then of its seal: unlink, fsync.
RemoveRaw ==
    /\ rpc = "rmRaw"
    /\ rpc' = "syncRaw" /\ Unlink(rseg, "raw") /\ Pending(rseg, "raw", None)
    /\ UNCHANGED <<laneVars, storeVars, canon, enc, archiverVars, rtodo, rseg, rindex, trouble>>

SyncRaw ==
    /\ rpc = "syncRaw"
    /\ rpc' = "rmSeal" /\ Synced(mem)
    /\ UNCHANGED <<mem, laneVars, storeVars, canon, enc, archiverVars, rtodo, rseg, rindex, trouble>>

RemoveSeal ==
    /\ rpc = "rmSeal"
    /\ rpc' = "syncSeal" /\ Unlink(rseg, "seal") /\ Pending(rseg, "seal", None)
    /\ UNCHANGED <<laneVars, storeVars, canon, enc, archiverVars, rtodo, rseg, rindex, trouble>>

SyncSeal ==
    /\ rpc = "syncSeal"
    /\ rpc' = "next" /\ Synced(mem)
    /\ UNCHANGED <<mem, laneVars, storeVars, canon, enc, archiverVars, rtodo, rseg, rindex, trouble>>

\* An fsync that raises leaves consider and the sweep: OSError is not caught.
ReaperSyncFails ==
    /\ rpc \in {"confirm", "syncRaw", "syncSeal"}
    /\ Trouble
    /\ rpc' = "idle" /\ rtodo' = {} /\ rseg' = None /\ rindex' = {}
    /\ UNCHANGED <<mem, disk, laneVars, storeVars, canon, enc, archiverVars>>

-----------------------------------------------------------------------------
(* The environment *)

StopArchiver == apc' = "idle" /\ atodo' = {} /\ aseg' = None /\ halted' = FALSE
StopReaper == rpc' = "idle" /\ rtodo' = {} /\ rseg' = None /\ rindex' = {}

KillArchiver ==
    /\ apc # "idle"
    /\ Trouble /\ StopArchiver
    /\ UNCHANGED <<mem, disk, laneVars, storeVars, canon, enc, withdrawn, reaperVars>>

KillReaper ==
    /\ rpc # "idle"
    /\ Trouble /\ StopReaper
    /\ UNCHANGED <<mem, disk, laneVars, storeVars, canon, enc, archiverVars>>

PowerLoss ==
    /\ Trouble /\ StopArchiver /\ StopReaper
    /\ mem' \in {m \in [Segs -> UNION {disk[s] : s \in Segs}] : \A s \in Segs : m[s] \in disk[s]}
    /\ Synced(mem')
    /\ UNCHANGED <<laneVars, storeVars, canon, enc, withdrawn>>

\* A local file decays in place.
Decay(s, n) ==
    /\ mem[s][n] \notin {None, Rotten} /\ Trouble
    /\ mem' = [mem EXCEPT ![s][n] = Rotten]
    /\ disk' = [disk EXCEPT ![s] = {[d EXCEPT ![n] = IF @ = None THEN @ ELSE Rotten] : d \in @}]
    /\ UNCHANGED <<laneVars, storeVars, canon, enc, archiverVars, reaperVars>>

\* An object expires or is removed outside these programs.  No local check can
\* help once the reaper has made its last look at the store.
StoreLoses(s) ==
    /\ data[s] # None
    /\ Trouble
    /\ data' = [data EXCEPT ![s] = None]
    /\ loss' = [loss EXCEPT ![s] = IF ~Present(s, "raw") \/ (rseg = s /\ rpc # "next")
                                    THEN "late" ELSE "early"]
    /\ UNCHANGED <<mem, disk, laneVars, seal, canon, enc, archiverVars, reaperVars>>

Upgrade ==
    /\ Trouble /\ apc = "idle"
    /\ enc' = enc + 1
    /\ UNCHANGED <<mem, disk, laneVars, storeVars, canon, archiverVars, reaperVars>>

-----------------------------------------------------------------------------

Init ==
    /\ mem = [s \in Segs |-> [n \in Names |-> None]]
    /\ disk = [s \in Segs |-> {mem[s]}]
    /\ index = [s \in Segs |-> None] /\ next = 1
    /\ data = [s \in Segs |-> None] /\ seal = [s \in Segs |-> None]
    /\ loss = [s \in Segs |-> "no"]
    /\ canon = {} /\ enc = 1
    /\ apc = "idle" /\ atodo = {} /\ aseg = None /\ halted = FALSE /\ withdrawn = {}
    /\ rpc = "idle" /\ rtodo = {} /\ rseg = None /\ rindex = {}
    /\ trouble = 0

Archiver ==
    \/ ArchiveSweep \/ ArchiveSweepEnds \/ ArchiveSegment \/ Encode \/ PutData
    \/ PutSeal \/ VerifyPut \/ WriteReceipt \/ SyncReceipt

Reaper ==
    \/ ReapSweep \/ ReapSweepEnds \/ Consider \/ DropFrame \/ Proof \/ ConfirmReceipt
    \/ RemoveRaw \/ SyncRaw \/ RemoveSeal \/ SyncSeal

Environment ==
    \/ \E s \in Segs : \/ LaneSeals(s) \/ Commit(s) \/ StoreLoses(s)
                         \/ \E n \in {"raw", "receipt"} : Decay(s, n)
    \/ LaneRestarts \/ Upgrade
    \/ SyncReceiptFails \/ StoreCallFails \/ ReaperSyncFails
    \/ KillArchiver \/ KillReaper \/ PowerLoss

Next == Archiver \/ Reaper \/ Environment

Spec == Init /\ [][Next]_vars

\* Both services run in a loop.
FairSpec ==
    /\ Spec
    /\ WF_vars(Archiver) /\ WF_vars(Reaper)

-----------------------------------------------------------------------------
(* Properties *)

\* What a process sees of a directory is one of the things a power loss may leave.
FilesOK ==
    /\ mem \in [Segs -> [Names -> Nat]] /\ disk \in [Segs -> SUBSET [Names -> Nat]]
    /\ \A s \in Segs : mem[s] \in disk[s]

ServicesOK ==
    /\ index \in [Segs -> Nat] /\ next \in 1..(MaxSegments + 1)
    /\ data \in [Segs -> {None} \cup Versions] /\ seal \in [Segs -> {None, Good}]
    /\ canon \subseteq Segs /\ loss \in [Segs -> {"no", "early", "late"}]
    /\ withdrawn \subseteq Segs /\ enc \in Versions
    /\ apc \in {"idle", "next", "encode", "data", "seal", "verify", "write", "sync"}
    /\ rpc \in {"idle", "next", "frame", "proof", "confirm", "rmRaw", "syncRaw", "rmSeal", "syncSeal"}
    /\ atodo \subseteq Segs /\ rtodo \subseteq Segs
    /\ rindex \subseteq Segs /\ aseg \in 0..MaxSegments /\ rseg \in 0..MaxSegments
    /\ trouble \in 0..MaxTrouble

\* Type invariant; in particular at most one entry per name of a segment.
TypeOK == FilesOK /\ ServicesOK /\ halted \in BOOLEAN

\* "Absence of proof is retention": whatever fails, is killed or loses power, a
\* sealed record is in the local file or in the object store.
NothingLost ==
    \A s \in Sealed : Present(s, "raw") \/ data[s] # None \/ loss[s] = "late"

\* Not an invariant (a failing directory fsync withdraws a receipt, see below):
\* once the raw file is gone, the two receipts that authorised it are there and
\* would survive a power loss (Reaper.consider calls confirm_durable first):
\* "the receipt is about to become the only record that this segment ever
\* existed locally".
ReceiptOutlivesRaw ==
    \A s \in Sealed : ~Present(s, "raw") => /\ s \in canon
                                            /\ Present(s, "receipt")
                                            /\ Durable(s, "receipt")

\* The same, but for a receipt that write_json_durable has withdrawn after a
\* failing directory fsync.
DeletionIsAuditable ==
    \A s \in Sealed \ withdrawn :
        ~Present(s, "raw") => /\ s \in canon
                              /\ Present(s, "receipt")
                              /\ Durable(s, "receipt")

\* A raw file never loses its seal, also not when a power loss brings deleted
\* names back: recovery would seal it a second time and archive it again.
NoUnsealedRaw ==
    \A s \in Sealed : Present(s, "raw") => Present(s, "seal")

\* A receipt names the frame the store holds unless the store lost it, also when
\* an encoder upgrade makes the retry of a half finished upload produce other
\* bytes: it authorises deleting the only other copy.
ReceiptIsTrue ==
    \A s \in Segs : ReadArchiveReceipt(s) =>
        data[s] = mem[s]["receipt"] \/ (loss[s] # "no" /\ data[s] = None)

\* "Absence of proof is retention": through failures, kills and power losses a
\* sealed record is in the local file or in the store; a raw file is gone only
\* with durable receipts that authorised it, on an ordered file system never loses
\* its seal alone, and a receipt names the frame the store holds (Reaper.consider,
\* write_json_durable).
RawIsKept ==
    /\ NothingLost /\ DeletionIsAuditable /\ ReceiptIsTrue
    /\ OrderedDirs => NoUnsealedRaw

\* A committed segment is reaped in the end, unless it decayed, its receipt was
\* withdrawn, its object was lost after the receipt or an earlier encoder's frame holds a key: one such key
\* halts every sweep before the segments that sort after it
\* (Archiver.sweep breaks out of its loop on IntegrityConflict).
EventuallyReaped ==
    \A s \in Segs :
        s \in canon ~> \/ ~Present(s, "raw") /\ ~Present(s, "seal")
                       \/ (\E n \in Names : mem[s][n] = Rotten) \/ s \in withdrawn
                       \/ Present(s, "receipt") /\ data[s] = None
                       \/ \E t \in 1..s : data[t] \notin {None, enc} /\ ~Present(t, "receipt")

\* Not an invariant (a lane whose segments are all reaped starts again at 1):
\* the delivery index is dense across the lane's whole lifetime: no two records
\* share one.
IndexNeverReused ==
    \A s, t \in Sealed : s # t => index[s] # index[t]

-----------------------------------------------------------------------------
(* The inductive invariant of RawRetentionProofs *)

NoEntries == [n \in Names |-> None]

\* The lane seals segments in order, and its next index is at most its next segment.
LaneInv ==
    /\ \A s \in Sealed : index[s] <= s /\ 1..s \subseteq Sealed
    /\ \A s \in Segs \ Sealed : next <= s
    /\ next <= MaxSegments + 1

\* The store holds version v of a segment, or did when the receipt was written.
Backed(s, v) == data[s] = v \/ (loss[s] # "no" /\ data[s] = None)

\* The same must be true of every directory a power loss may leave behind.
EntriesInv ==
    /\ enc <= trouble + 1
    /\ \A s \in Segs :
          /\ s \notin Sealed => disk[s] = {NoEntries}
          /\ Present(s, "raw") => Durable(s, "raw")
          /\ \A d \in disk[s] :
                /\ d["zst"] \in {None} \cup Versions
                /\ d["receipt"] \in Versions => Backed(s, d["receipt"])
                /\ OrderedDirs => (d["raw"] # None => d["seal"] # None)

\* While the archiver works on a segment it has no receipt, once the frame's fsync
\* is over not even after a power loss.
ArchiverInv ==
    /\ atodo \subseteq Sealed
    /\ apc \notin {"idle", "next"} => aseg \in Sealed
    /\ apc \in {"encode", "data", "seal", "verify", "write"} => ~Present(aseg, "receipt")
    /\ apc \in {"data", "seal", "verify", "write"} => \A d \in disk[aseg] : d["receipt"] = None
    /\ apc = "write" => Backed(aseg, enc)

\* What consider has established holds until the deletion it authorised is over.
ReaperInv ==
    /\ rtodo \subseteq Sealed /\ rindex \subseteq canon
    /\ rpc \notin {"idle", "next"} =>
          /\ rseg \in Sealed /\ (data[rseg] # None \/ loss[rseg] = "late")
          /\ rseg \notin withdrawn => Present(rseg, "receipt")
    /\ rpc \in {"confirm", "rmRaw", "syncRaw", "rmSeal", "syncSeal"} => rseg \in canon
    /\ rpc = "rmRaw" /\ rseg \notin withdrawn => Durable(rseg, "receipt")
    /\ rpc \in {"syncRaw", "rmSeal", "syncSeal"} => ~Present(rseg, "raw")

IInv ==
    /\ TypeOK /\ LaneInv /\ EntriesInv /\ ArchiverInv /\ ReaperInv
    /\ NothingLost /\ DeletionIsAuditable

=============================================================================
