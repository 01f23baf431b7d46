------------------------- MODULE RawRetentionProofs -------------------------
(***************************************************************************)
(* Proofs about a sealed raw segment on its way from the lane's directory  *)
(* to the object store: whatever fails, is killed or loses power, the      *)
(* record is kept, its deletion can be audited and its receipt is true.    *)
(***************************************************************************)
EXTENDS RawRetention, WellFoundedInduction, TLAPS

-----------------------------------------------------------------------------
(* Least and greatest members                                              *)

\* The next segment of a sweep is one of those left (Archiver.sweep, Reaper.sweep).
LEMMA MinMember ==
    ASSUME NEW T \in SUBSET Segs, T # {}
    PROVE  Min(T) \in T
<1>1. T \in SUBSET Nat  BY DEF Segs
<1>2. PICK x \in T : \A y \in T : ~(<<y, x>> \in OpToRel(<, Nat))
  BY <1>1, NatLessThanWellFounded, WFMin, Zenon
<1>3. \A y \in T : ~(y < x)
  BY <1>1, <1>2 DEF OpToRel
<1>4. \A y \in T : x <= y  BY <1>1, <1>3
<1> QED  BY <1>4 DEF Min

\* A bounded set of naturals that is not empty has its greatest member in it.
LEMMA MaxMember ==
    ASSUME NEW T \in SUBSET Nat, T # {}, NEW n \in Nat, \A x \in T : x <= n
    PROVE  Max(T) \in T
<1> DEFINE D == {d \in Nat : \E x \in T : d = n - x}
<1>1. D # {}
  <2>1. PICK x \in T : TRUE  OBVIOUS
  <2>2. n - x \in D  BY <2>1
  <2> QED  BY <2>2
<1>2. PICK d \in D : \A e \in D : ~(<<e, d>> \in OpToRel(<, Nat))
  BY <1>1, NatLessThanWellFounded, WFMin, Zenon
<1>3. \A e \in D : ~(e < d)  BY <1>2 DEF OpToRel
<1>4. PICK x \in T : d = n - x  BY <1>2
<1>5. \A y \in T : n - y \in D  OBVIOUS
<1>6. ASSUME NEW y \in T PROVE y <= x
  <2>1. ~(n - y < n - x)  BY <1>3, <1>4, <1>5
  <2> QED  BY <2>1
<1> QED  BY <1>6 DEF Max

\* A restarted lane resumes no further than one past its sealed segments
\* (resume_state).
LEMMA ResumeBounds ==
    ASSUME TypeOK, LaneInv
    PROVE  /\ ResumeIndex \in 1..(MaxSegments + 1)
           /\ \A s \in Segs \ Sealed : ResumeIndex <= s
<1> USE RawAssumption DEF Segs
<1> DEFINE K == {s \in Sealed : Present(s, "raw") /\ Present(s, "seal")}
           T == {index[s] : s \in K} \cup {0}
<1>1. \A s \in K : s \in Sealed /\ s \in Segs  BY DEF Sealed
<1>2. \A s \in Sealed : index[s] \in Nat /\ index[s] <= s  BY DEF LaneInv, Sealed, TypeOK, ServicesOK
<1>3. T \in SUBSET Nat  BY <1>1, <1>2
<1>4. \A x \in T : x <= MaxSegments  BY <1>1, <1>2
<1>5. Max(T) \in T
  <2> HIDE DEF K
  <2>1. T # {}  OBVIOUS
  <2> HIDE DEF T
  <2> QED  BY <1>3, <1>4, <2>1, MaxMember
<1>6. ResumeIndex = 1 + Max(T)  BY DEF ResumeIndex
<1>7. ASSUME NEW s \in Segs \ Sealed, NEW x \in T PROVE x + 1 <= s
  <2>1. CASE x = 0  BY <2>1
  <2>2. CASE \E t \in K : x = index[t]
    <3>1. PICK t \in K : x = index[t]  BY <2>2
    <3>2. 1..t \subseteq Sealed  BY <1>1 DEF LaneInv
    <3>3. t < s  BY <1>1, <3>2
    <3> QED  BY <1>1, <1>2, <3>1, <3>3
  <2> QED  BY <2>1, <2>2
<1> HIDE DEF T
<1>8. ASSUME NEW m \in T PROVE m \in 0..MaxSegments  BY <1>3, <1>4
<1> QED  BY <1>5, <1>6, <1>7, <1>8

-----------------------------------------------------------------------------
(* Directory entries: archive/common/durable.py                            *)

\* A put changes one entry of one segment's directory (write_json_durable and
\* remove_durable up to the rename or unlink).
LEMMA PutFacts ==
    ASSUME TypeOK, NEW s \in Segs, NEW n \in Names, NEW v \in Nat, Put(s, n, v)
    PROVE  /\ mem' \in [Segs -> [Names -> Nat]]
           /\ mem'[s] = [mem[s] EXCEPT ![n] = v]
           /\ \A t \in Segs : t # s => mem'[t] = mem[t]
BY DEF TypeOK, FilesOK, Put

\* Until the fsync, a power loss may leave the old entries or entries with the one
\* change, on an ordered file system with every earlier change too.
LEMMA PendingFacts ==
    ASSUME TypeOK, NEW s \in Segs, NEW n \in Names, NEW v \in Nat,
           Put(s, n, v), Pending(s, n, v)
    PROVE  /\ FilesOK'
           /\ \A t \in Segs : t # s => disk'[t] = disk[t]
           /\ \A d \in disk'[s] : \/ d \in disk[s]
                                  \/ \E e \in disk[s] : /\ d = [e EXCEPT ![n] = v]
                                                        /\ OrderedDirs => e = mem[s]
<1> DEFINE X == IF OrderedDirs THEN {[mem[s] EXCEPT ![n] = v]}
                ELSE {[d EXCEPT ![n] = v] : d \in disk[s]}
<1> HIDE DEF X
<1>1. /\ mem[s] \in disk[s] /\ disk[s] \subseteq [Names -> Nat]
      /\ \A t \in Segs : mem[t] \in disk[t] /\ disk[t] \subseteq [Names -> Nat]
  BY DEF TypeOK, FilesOK
<1>2. \A d \in X : \E e \in disk[s] : d = [e EXCEPT ![n] = v] /\ (OrderedDirs => e = mem[s])
  BY <1>1 DEF X
<1>3. [mem[s] EXCEPT ![n] = v] \in X
  BY <1>1 DEF X
<1>4. X \subseteq [Names -> Nat]
  BY <1>1, <1>2
<1>5. disk' = [disk EXCEPT ![s] = disk[s] \cup X]
  BY DEF Pending, X
<1>6. disk'[s] = disk[s] \cup X /\ \A t \in Segs : t # s => disk'[t] = disk[t]
  BY <1>5 DEF TypeOK, FilesOK
<1>7. /\ mem'[s] = [mem[s] EXCEPT ![n] = v]
      /\ \A t \in Segs : t # s => mem'[t] = mem[t]
  BY PutFacts
<1>8. \A t \in Segs : disk'[t] \subseteq [Names -> Nat] /\ mem'[t] \in disk'[t]
  BY <1>1, <1>3, <1>4, <1>6, <1>7
<1>9. disk' = [t \in Segs |-> disk'[t]]  BY <1>5 DEF TypeOK, FilesOK
<1>10. FilesOK'  BY <1>8, <1>9, PutFacts DEF FilesOK
<1> QED  BY <1>2, <1>6, <1>10

\* After an fsync of the directory a power loss leaves what a process sees.
LEMMA SyncedFacts ==
    ASSUME NEW m \in [Segs -> [Names -> Nat]], Synced(m)
    PROVE  /\ disk' \in [Segs -> SUBSET [Names -> Nat]]
           /\ \A s \in Segs : disk'[s] = {m[s]}
           /\ mem' = m => FilesOK'
BY DEF Synced, FilesOK

-----------------------------------------------------------------------------
(* Type correctness                                                        *)

\* Nothing is sealed, published or deleted yet.
LEMMA IInvInit ==
    Init => IInv
<1> USE RawAssumption DEF None
<1> SUFFICES ASSUME Init PROVE IInv
  OBVIOUS
<1>1. FilesOK  BY DEF Init, FilesOK
<1>2. ServicesOK  BY DEF Init, ServicesOK, Versions
<1>3. Sealed = {}  BY DEF Init, Sealed
<1>4. LaneInv  BY <1>3 DEF LaneInv, Init, Segs
<1>5. EntriesInv
  BY <1>3 DEF Init, EntriesInv, NoEntries, Present, Durable, Names, Versions
<1>6. ArchiverInv /\ ReaperInv /\ NothingLost /\ DeletionIsAuditable
  BY <1>3 DEF Init, ArchiverInv, ReaperInv, NothingLost, DeletionIsAuditable
<1>7. halted \in BOOLEAN  BY DEF Init
<1> QED  BY <1>1, <1>2, <1>4, <1>5, <1>6, <1>7 DEF IInv, TypeOK

\* The archiver works on a segment while it encodes, uploads or writes.
LEMMA ArchiverSegment ==
    ASSUME ArchiverInv, apc \notin {"idle", "next"}
    PROVE  aseg \in Segs /\ aseg \in Sealed
BY DEF ArchiverInv, Sealed

\* So does the reaper from the proof of the archive receipt to the last fsync.
LEMMA ReaperSegment ==
    ASSUME ReaperInv, rpc \notin {"idle", "next"}
    PROVE  rseg \in Segs /\ rseg \in Sealed
BY DEF ReaperInv, Sealed

\* Every step keeps what a process sees among what a power loss may leave.
LEMMA FilesStep ==
    ASSUME TypeOK, ArchiverInv, ReaperInv, Next
    PROVE  FilesOK'
<1> USE RawAssumption DEF laneVars, storeVars, archiverVars, reaperVars
<1>0. None \in Nat /\ Good \in Nat /\ Rotten \in Nat /\ enc \in Nat
  BY DEF None, Good, Rotten, TypeOK, ServicesOK, Versions
<1> DEFINE Sync == mem' = mem /\ Synced(mem)
<1>1. ASSUME NEW s \in Segs, LaneSeals(s) PROVE FilesOK'
  <2>1. mem' \in [Segs -> [Names -> Nat]]
    BY <1>0, <1>1 DEF LaneSeals, TypeOK, FilesOK, Names
  <2> QED  BY <1>1, <2>1, SyncedFacts DEF LaneSeals
<1>2. ASSUME NEW s \in Segs, NEW n \in {"raw", "receipt"}, Decay(s, n) PROVE FilesOK'
  <2> DEFINE X == {[d EXCEPT ![n] = IF d[n] = None THEN d[n] ELSE Rotten] : d \in disk[s]}
  <2>1. n \in Names /\ mem[s][n] # None  BY <1>2 DEF Decay, Names
  <2>2. mem' \in [Segs -> [Names -> Nat]] /\ mem'[s] = [mem[s] EXCEPT ![n] = Rotten]
        /\ \A t \in Segs : t # s => mem'[t] = mem[t]
    BY <1>0, <1>2, <2>1 DEF Decay, TypeOK, FilesOK
  <2>3. disk[s] \subseteq [Names -> Nat] /\ mem[s] \in disk[s]
    BY DEF TypeOK, FilesOK
  <2>4. X \subseteq [Names -> Nat] /\ mem'[s] \in X
    <3>1. \A d \in disk[s] : d \in [Names -> Nat] /\ d[n] \in Nat  BY <2>1, <2>3
    <3>2. \A d \in disk[s] :
             [d EXCEPT ![n] = IF d[n] = None THEN d[n] ELSE Rotten] \in [Names -> Nat]
      BY <1>0, <3>1
    <3>3. mem'[s] = [mem[s] EXCEPT ![n] = IF mem[s][n] = None THEN mem[s][n] ELSE Rotten]
      BY <2>1, <2>2
    <3> QED  BY <2>3, <3>2, <3>3
  <2>5. disk' = [disk EXCEPT ![s] = X]
    BY <1>2 DEF Decay
  <2> HIDE DEF X
  <2> QED  BY <2>2, <2>4, <2>5 DEF TypeOK, FilesOK
<1>3. CASE Encode
  <2>1. aseg \in Segs  BY <1>3, ArchiverSegment DEF Encode
  <2>2. CASE LogicalMatchesSeal(aseg)
    <3>1. Put(aseg, "zst", enc) /\ Synced(mem')  BY <1>3, <2>2 DEF Encode
    <3>2. mem' \in [Segs -> [Names -> Nat]]  BY <1>0, <2>1, <3>1, PutFacts DEF Names
    <3> QED  BY <3>1, <3>2, SyncedFacts
  <2> QED  BY <1>3, <2>2 DEF Encode, TypeOK, FilesOK
<1>4. CASE WriteReceipt
  <2>1. aseg \in Segs  BY <1>4, ArchiverSegment DEF WriteReceipt
  <2> QED  BY <1>0, <1>4, <2>1, PendingFacts DEF WriteReceipt, BuildArchiveReceipt, Names
<1>5. CASE SyncReceiptFails
  <2>1. aseg \in Segs  BY <1>5, ArchiverSegment DEF SyncReceiptFails
  <2>2. Put(aseg, "receipt", None)  BY <1>5 DEF SyncReceiptFails, Unlink
  <2>3. mem' \in [Segs -> [Names -> Nat]]  BY <1>0, <2>1, <2>2, PutFacts DEF Names
  <2>4. CASE Synced(mem')  BY <2>3, <2>4, SyncedFacts
  <2>5. CASE Pending(aseg, "receipt", None)
    BY <1>0, <2>1, <2>2, <2>5, PendingFacts DEF Names
  <2> QED  BY <1>5, <2>4, <2>5 DEF SyncReceiptFails
<1>6. CASE DropFrame
  <2>1. rseg \in Segs  BY <1>6, ReaperSegment DEF DropFrame
  <2>2. CASE Present(rseg, "zst")
    <3>1. Put(rseg, "zst", None) /\ Synced(mem')  BY <1>6, <2>2 DEF DropFrame, Unlink
    <3>2. mem' \in [Segs -> [Names -> Nat]]  BY <1>0, <2>1, <3>1, PutFacts DEF Names
    <3> QED  BY <3>1, <3>2, SyncedFacts
  <2> QED  BY <1>6, <2>2 DEF DropFrame, TypeOK, FilesOK
<1>7. CASE RemoveRaw
  <2>1. rseg \in Segs  BY <1>7, ReaperSegment DEF RemoveRaw
  <2> QED  BY <1>0, <1>7, <2>1, PendingFacts DEF RemoveRaw, Unlink, Names
<1>8. CASE RemoveSeal
  <2>1. rseg \in Segs  BY <1>8, ReaperSegment DEF RemoveSeal
  <2> QED  BY <1>0, <1>8, <2>1, PendingFacts DEF RemoveSeal, Unlink, Names
<1>9. CASE PowerLoss
  <2>1. mem' \in [Segs -> [Names -> Nat]]
    <3> DEFINE U == UNION {disk[s] : s \in Segs}
    <3>1. mem' \in [Segs -> U]  BY <1>9 DEF PowerLoss
    <3>2. \A s \in Segs : mem'[s] \in disk[s]  BY <1>9 DEF PowerLoss
    <3>3. \A s \in Segs : disk[s] \subseteq [Names -> Nat]  BY DEF TypeOK, FilesOK
    <3> HIDE DEF U
    <3> QED  BY <3>1, <3>2, <3>3
  <2> QED  BY <1>9, <2>1, SyncedFacts DEF PowerLoss
<1>10. CASE Sync
  BY <1>10, SyncedFacts DEF TypeOK, FilesOK
<1>11. CASE UNCHANGED <<mem, disk>>
  BY <1>11 DEF TypeOK, FilesOK
<1> HIDE DEF Sync
<1>12. CASE Archiver
  <2>1. CASE ArchiveSegment  BY <1>10, <1>11, <2>1 DEF ArchiveSegment, Sync
  <2>2. CASE SyncReceipt  BY <1>10, <2>2 DEF SyncReceipt, Sync
  <2> QED
    BY <1>3, <1>4, <1>11, <1>12, <2>1, <2>2
       DEF Archiver, ArchiveSweep, ArchiveSweepEnds, PutData, PutSeal, VerifyPut
<1>13. CASE Reaper
  <2>1. CASE ConfirmReceipt  BY <1>10, <2>1 DEF ConfirmReceipt, Sync
  <2>2. CASE SyncRaw  BY <1>10, <2>2 DEF SyncRaw, Sync
  <2>3. CASE SyncSeal  BY <1>10, <2>3 DEF SyncSeal, Sync
  <2> QED
    BY <1>6, <1>7, <1>8, <1>11, <1>13, <2>1, <2>2, <2>3
       DEF Reaper, ReapSweep, ReapSweepEnds, Consider, Proof
<1>14. CASE Environment
  BY <1>1, <1>2, <1>5, <1>9, <1>11, <1>14
     DEF Environment, Commit, StoreLoses, LaneRestarts, Upgrade, StoreCallFails,
         ReaperSyncFails, KillArchiver, KillReaper
<1> QED  BY <1>12, <1>13, <1>14 DEF Next

\* Every step keeps the types of the lane, the store and the two services.
LEMMA ServicesStep ==
    ASSUME TypeOK, LaneInv, EntriesInv, ArchiverInv, ReaperInv, Next
    PROVE  ServicesOK' /\ halted' \in BOOLEAN
<1> USE RawAssumption DEF laneVars, storeVars, archiverVars, reaperVars, StopArchiver, StopReaper
<1> DEFINE Goal == ServicesOK' /\ halted' \in BOOLEAN
<1>0. /\ ServicesOK /\ halted \in BOOLEAN
      /\ None \in 0..MaxSegments
  BY DEF TypeOK, None
<1>1. ASSUME NEW s \in Segs, LaneSeals(s) PROVE Goal
  <2>1. next \in 1..MaxSegments
    BY <1>0, <1>1 DEF LaneSeals, LaneInv, ServicesOK, Segs
  <2>2. index' \in [Segs -> Nat] /\ next' \in 1..(MaxSegments + 1)
    BY <1>0, <1>1, <2>1 DEF LaneSeals, ServicesOK
  <2> QED  BY <1>0, <1>1, <2>2 DEF LaneSeals, ServicesOK
<1>2. ASSUME NEW s \in Segs, Commit(s) PROVE Goal
  BY <1>0, <1>2 DEF Commit, ServicesOK
<1>3. ASSUME NEW s \in Segs, StoreLoses(s) PROVE Goal
  <2>1. data' \in [Segs -> {None} \cup Versions] /\ loss' \in [Segs -> {"no", "early", "late"}]
        /\ trouble' \in 0..MaxTrouble
    BY <1>0, <1>3 DEF StoreLoses, Trouble, ServicesOK
  <2> QED  BY <1>0, <1>3, <2>1 DEF StoreLoses, ServicesOK
<1>4. ASSUME NEW s \in Segs, NEW n \in {"raw", "receipt"}, Decay(s, n) PROVE Goal
  BY <1>0, <1>4 DEF Decay, Trouble, ServicesOK
<1>5. CASE LaneRestarts
  BY <1>0, <1>5, ResumeBounds DEF LaneRestarts, Trouble, ServicesOK
<1>6. CASE Upgrade
  <2>1. enc' \in Versions /\ trouble' \in 0..MaxTrouble
    BY <1>0, <1>6 DEF Upgrade, Trouble, ServicesOK, EntriesInv, Versions
  <2> QED  BY <1>0, <1>6, <2>1 DEF Upgrade, ServicesOK
<1>7. CASE Archiver
  <2>1. CASE ArchiveSweep
    BY <1>0, <2>1 DEF ArchiveSweep, Discovered, Sealed, ServicesOK
  <2>2. CASE ArchiveSweepEnds  BY <1>0, <2>2 DEF ArchiveSweepEnds, ServicesOK
  <2>3. CASE ArchiveSegment
    <3>1. Min(atodo) \in atodo  BY <1>0, <2>3, MinMember DEF ArchiveSegment, ServicesOK
    <3>2. Min(atodo) \in Segs  BY <1>0, <3>1 DEF ServicesOK
    <3>3. Min(atodo) \in 0..MaxSegments  BY <3>2 DEF Segs
    <3>4. aseg' \in 0..MaxSegments /\ atodo' \subseteq Segs /\ apc' \in {"encode", "next"}
      BY <1>0, <2>3, <3>3 DEF ArchiveSegment, ServicesOK
    <3> QED  BY <1>0, <2>3, <3>4 DEF ArchiveSegment, ServicesOK
  <2>4. CASE Encode  BY <1>0, <2>4 DEF Encode, ServicesOK
  <2>5. CASE PutData
    <3>1. aseg \in Segs  BY <2>5, ArchiverSegment DEF PutData
    <3>2. mem[aseg]["zst"] \in {None} \cup Versions
      BY <3>1 DEF EntriesInv, TypeOK, FilesOK
    <3>3. /\ data' \in [Segs -> {None} \cup Versions] /\ apc' \in {"next", "seal"}
          /\ halted' \in BOOLEAN
      BY <1>0, <2>5, <3>1, <3>2 DEF PutData, ServicesOK
    <3> QED  BY <1>0, <2>5, <3>3 DEF PutData, ServicesOK
  <2>6. CASE PutSeal  BY <1>0, <2>6 DEF PutSeal, ServicesOK
  <2>7. CASE VerifyPut  BY <1>0, <2>7 DEF VerifyPut, ServicesOK
  <2>8. CASE WriteReceipt  BY <1>0, <2>8 DEF WriteReceipt, ServicesOK
  <2>9. CASE SyncReceipt  BY <1>0, <2>9 DEF SyncReceipt, ServicesOK
  <2> QED  BY <1>7, <2>1, <2>2, <2>3, <2>4, <2>5, <2>6, <2>7, <2>8, <2>9 DEF Archiver
<1>8. CASE Reaper
  <2>1. CASE ReapSweep  BY <1>0, <2>1 DEF ReapSweep, ServicesOK
  <2>2. CASE ReapSweepEnds  BY <1>0, <2>2 DEF ReapSweepEnds, ServicesOK
  <2>3. CASE Consider
    <3>1. Min(rtodo) \in rtodo  BY <1>0, <2>3, MinMember DEF Consider, ServicesOK
    <3>2. Min(rtodo) \in Segs  BY <1>0, <3>1 DEF ServicesOK
    <3>3. Min(rtodo) \in 0..MaxSegments  BY <3>2 DEF Segs
    <3> QED  BY <1>0, <2>3, <3>3 DEF Consider, ServicesOK
  <2>4. CASE DropFrame  BY <1>0, <2>4 DEF DropFrame, ServicesOK
  <2>5. CASE Proof  BY <1>0, <2>5 DEF Proof, ServicesOK
  <2>6. CASE ConfirmReceipt  BY <1>0, <2>6 DEF ConfirmReceipt, ServicesOK
  <2>7. CASE RemoveRaw  BY <1>0, <2>7 DEF RemoveRaw, ServicesOK
  <2>8. CASE SyncRaw  BY <1>0, <2>8 DEF SyncRaw, ServicesOK
  <2>9. CASE RemoveSeal  BY <1>0, <2>9 DEF RemoveSeal, ServicesOK
  <2>10. CASE SyncSeal  BY <1>0, <2>10 DEF SyncSeal, ServicesOK
  <2> QED  BY <1>8, <2>1, <2>2, <2>3, <2>4, <2>5, <2>6, <2>7, <2>8, <2>9, <2>10 DEF Reaper
<1>9. CASE SyncReceiptFails
  <2>1. aseg \in Segs  BY <1>9, ArchiverSegment DEF SyncReceiptFails
  <2> QED  BY <1>0, <1>9, <2>1 DEF SyncReceiptFails, Trouble, ServicesOK
<1>10. CASE StoreCallFails  BY <1>0, <1>10 DEF StoreCallFails, Trouble, ServicesOK
<1>11. CASE ReaperSyncFails  BY <1>0, <1>11 DEF ReaperSyncFails, Trouble, ServicesOK
<1>12. CASE KillArchiver
  <2>1. halted' \in BOOLEAN  BY <1>12 DEF KillArchiver
  <2>2. ServicesOK'  BY <1>0, <1>12 DEF KillArchiver, Trouble, ServicesOK
  <2> QED  BY <2>1, <2>2
<1>13. CASE KillReaper  BY <1>0, <1>13 DEF KillReaper, Trouble, ServicesOK
<1>14. CASE PowerLoss
  <2>1. halted' \in BOOLEAN  BY <1>14 DEF PowerLoss
  <2>2. ServicesOK'  BY <1>0, <1>14 DEF PowerLoss, Trouble, ServicesOK
  <2> QED  BY <2>1, <2>2
<1> HIDE DEF Goal
<1> QED
  BY <1>1, <1>2, <1>3, <1>4, <1>5, <1>6, <1>7, <1>8, <1>9, <1>10, <1>11, <1>12, <1>13, <1>14
     DEF Next, Environment, Goal

-----------------------------------------------------------------------------
(* The lane                                                                *)

\* Segments are sealed one after the other and stay sealed (spool.py).
LEMMA SealedGrows ==
    ASSUME TypeOK, Next
    PROVE  /\ \A s \in Segs : LaneSeals(s) => Sealed' = Sealed \cup {s}
           /\ \/ index' = index /\ Sealed' = Sealed
              \/ \E s \in Segs : LaneSeals(s)
<1> USE DEF laneVars
<1>1. ASSUME NEW s \in Segs, LaneSeals(s) PROVE Sealed' = Sealed \cup {s}
  BY <1>1, RawAssumption DEF LaneSeals, Sealed, TypeOK, ServicesOK, None
<1>2. CASE \A s \in Segs : ~LaneSeals(s)
  <2>1. index' = index
    BY <1>2 DEF Next, Archiver, Reaper, Environment, ArchiveSweep, ArchiveSweepEnds,
       ArchiveSegment, Encode, PutData, PutSeal, VerifyPut, WriteReceipt, SyncReceipt,
       ReapSweep, ReapSweepEnds, Consider, DropFrame, Proof, ConfirmReceipt, RemoveRaw,
       SyncRaw, RemoveSeal, SyncSeal, Commit, StoreLoses, Decay, LaneRestarts, Upgrade,
       SyncReceiptFails, StoreCallFails, ReaperSyncFails, KillArchiver, KillReaper, PowerLoss
  <2> QED  BY <1>1, <2>1 DEF Sealed
<1> QED  BY <1>1, <1>2

\* A delivery index never runs ahead of the segment that carries it.
LEMMA LaneStep ==
    ASSUME TypeOK, LaneInv, Next
    PROVE  LaneInv'
<1> USE RawAssumption DEF laneVars, Segs
<1>1. ASSUME NEW s \in Segs, LaneSeals(s) PROVE LaneInv'
  <2>1. Sealed' = Sealed \cup {s}  BY <1>1, SealedGrows
  <2> QED  BY <1>1, <2>1 DEF LaneSeals, LaneInv, TypeOK, ServicesOK, Sealed
<1>2. CASE index' = index /\ Sealed' = Sealed /\ next' = next
  BY <1>2 DEF LaneInv
<1>3. CASE index' = index /\ Sealed' = Sealed /\ LaneRestarts
  BY <1>3, ResumeBounds DEF LaneInv, LaneRestarts
<1>4. next' = next \/ LaneRestarts \/ \E s \in Segs : LaneSeals(s)
  BY DEF Next, Archiver, Reaper, Environment, ArchiveSweep, ArchiveSweepEnds,
     ArchiveSegment, Encode, PutData, PutSeal, VerifyPut, WriteReceipt, SyncReceipt,
     ReapSweep, ReapSweepEnds, Consider, DropFrame, Proof, ConfirmReceipt, RemoveRaw,
     SyncRaw, RemoveSeal, SyncSeal, Commit, StoreLoses, Decay, LaneRestarts, Upgrade,
     SyncReceiptFails, StoreCallFails, ReaperSyncFails, KillArchiver, KillReaper, PowerLoss
<1> HIDE DEF Segs
<1> QED  BY <1>1, <1>2, <1>3, <1>4, SealedGrows

-----------------------------------------------------------------------------
(* What every directory that may survive holds                             *)

\* What EntriesInv says of one directory.
Sound(s, d) ==
    /\ d["zst"] \in {None} \cup Versions
    /\ d["receipt"] \in Versions => Backed(s, d["receipt"])
    /\ OrderedDirs => (d["raw"] # None => d["seal"] # None)

\* A step that leaves no directory that was not possible before keeps the entries
\* sound: an fsync, a power loss, and every step that touches no file.
LEMMA EntriesShrink ==
    ASSUME TypeOK, EntriesInv, FilesOK', Sealed' = Sealed, UNCHANGED <<data, loss>>,
           enc' <= trouble' + 1,
           \A s \in Segs : disk'[s] \subseteq disk[s],
           \A s \in Segs : Present(s, "raw")' => Durable(s, "raw")'
    PROVE  EntriesInv'
<1>1. ASSUME NEW s \in Segs \ Sealed PROVE disk'[s] = {NoEntries}
  BY <1>1 DEF EntriesInv, FilesOK
<1>2. ASSUME NEW s \in Segs, NEW d \in disk'[s] PROVE Sound(s, d)'
  <2>1. Sound(s, d)  BY DEF EntriesInv, Sound
  <2>2. \A v : Backed(s, v)' <=> Backed(s, v)  BY DEF Backed
  <2> QED  BY <2>1, <2>2 DEF Sound
<1> QED  BY <1>1, <1>2 DEF EntriesInv, Sound, NoEntries

\* One entry of a sealed segment's directory changes, with or without an fsync.
LEMMA EntriesPut ==
    ASSUME TypeOK, EntriesInv, NEW s \in Sealed, NEW n \in Names, NEW v \in Nat,
           Put(s, n, v), Synced(mem') \/ Pending(s, n, v),
           Sealed' = Sealed, UNCHANGED <<data, loss>>, enc' <= trouble' + 1,
           n = "raw" => v = None,
           n = "zst" => v \in {None} \cup Versions,
           n = "receipt" /\ v \in Versions => Backed(s, v),
           n = "seal" => mem[s]["raw"] = None
    PROVE  EntriesInv'
<1>1. s \in Segs  BY DEF Sealed
<1>2. /\ mem' \in [Segs -> [Names -> Nat]] /\ mem'[s] = [mem[s] EXCEPT ![n] = v]
      /\ \A t \in Segs : t # s => mem'[t] = mem[t]
  BY <1>1, PutFacts
<1>3. \A t \in Segs : disk[t] \subseteq [Names -> Nat] /\ mem[t] \in disk[t]
  BY DEF TypeOK, FilesOK
<1>4. \A t \in Segs : t # s => disk'[t] \subseteq disk[t] /\ mem[t] \in disk'[t]
  <2>1. CASE Synced(mem')  BY <1>2, <1>3, <2>1, SyncedFacts
  <2>2. CASE Pending(s, n, v)  BY <1>1, <1>3, <2>2, PendingFacts
  <2> QED  BY <2>1, <2>2
<1>5. ASSUME NEW d \in disk'[s]
      PROVE  \/ d \in disk[s]
             \/ \E e \in disk[s] : /\ d = [e EXCEPT ![n] = v]
                                   /\ OrderedDirs => e = mem[s]
  <2>1. CASE Synced(mem')
    <3>1. d = [mem[s] EXCEPT ![n] = v]  BY <1>1, <1>2, <2>1, SyncedFacts
    <3> QED  BY <1>1, <1>3, <3>1
  <2>2. CASE Pending(s, n, v)  BY <1>1, <2>2, PendingFacts
  <2> QED  BY <2>1, <2>2
<1>6. \A t \in Segs, w \in Nat : Backed(t, w)' <=> Backed(t, w)  BY DEF Backed
<1>7. ASSUME NEW t \in Segs, NEW d \in disk'[t] PROVE Sound(t, d)'
  <2>1. \A e \in disk[t] : Sound(t, e) /\ e \in [Names -> Nat]  BY <1>3 DEF EntriesInv, Sound
  <2>2. CASE d \in disk[t]  BY <1>6, <2>1, <2>2 DEF Sound, Names
  <2>3. CASE t = s /\ d \notin disk[s]
    <3>1. PICK e \in disk[s] : d = [e EXCEPT ![n] = v] /\ (OrderedDirs => e = mem[s])
      BY <1>5, <2>3
    <3>2. Sound(s, e) /\ e \in [Names -> Nat]  BY <2>1, <2>3
    <3>3. \A m \in Names : d[m] = IF m = n THEN v ELSE e[m]  BY <3>1, <3>2
    <3>4. d["zst"] \in {None} \cup Versions  BY <3>2, <3>3 DEF Sound, Names
    <3>5. d["receipt"] \in Versions => Backed(s, d["receipt"])
      BY <3>2, <3>3 DEF Sound, Names
    <3>6. OrderedDirs => (d["raw"] # None => d["seal"] # None)
      BY <3>1, <3>2, <3>3 DEF Sound, Names
    <3>7. d["receipt"] \in Nat  BY <3>2, <3>3 DEF Names
    <3> QED  BY <1>1, <1>6, <2>3, <3>4, <3>5, <3>6, <3>7 DEF Sound
  <2> QED  BY <1>4, <2>2, <2>3
<1>8. ASSUME NEW t \in Segs, Present(t, "raw")' PROVE Durable(t, "raw")'
  <2>1. CASE t # s  BY <1>2, <1>4, <1>8, <2>1 DEF EntriesInv, Present, Durable
  <2>2. CASE t = s
    <3>1. n # "raw" /\ Present(s, "raw")
      BY <1>1, <1>2, <1>3, <1>8, <2>2 DEF Present, Names
    <3>2. \A e \in disk[s] : e["raw"] # None  BY <1>1, <3>1 DEF EntriesInv, Durable
    <3>3. ASSUME NEW d \in disk'[s] PROVE d["raw"] # None
      BY <1>1, <1>3, <1>5, <3>1, <3>2 DEF Names
    <3> QED  BY <2>2, <3>3 DEF Durable
  <2> QED  BY <2>1, <2>2
<1>9. ASSUME NEW t \in Segs \ Sealed PROVE disk'[t] = {NoEntries}
  BY <1>1, <1>4, <1>9 DEF EntriesInv
<1> QED  BY <1>7, <1>8, <1>9 DEF EntriesInv, Sound, NoEntries

\* The library was upgraded at most as often as something went wrong.
LEMMA UpgradesCounted ==
    ASSUME TypeOK, EntriesInv, Next
    PROVE  enc' <= trouble' + 1
<1>1. enc \in Nat /\ trouble \in Nat /\ enc <= trouble + 1
  BY RawAssumption DEF TypeOK, ServicesOK, Versions, EntriesInv
<1>2. CASE Upgrade  BY <1>1, <1>2 DEF Upgrade, Trouble
<1>3. CASE enc' = enc /\ (trouble' = trouble \/ Trouble)  BY <1>1, <1>3 DEF Trouble
<1>4. Upgrade \/ (enc' = enc /\ (trouble' = trouble \/ Trouble))
  BY DEF Next, Archiver, Reaper, Environment, LaneSeals, ArchiveSweep, ArchiveSweepEnds,
     ArchiveSegment, Encode, PutData, PutSeal, VerifyPut, WriteReceipt, SyncReceipt,
     ReapSweep, ReapSweepEnds, Consider, DropFrame, Proof, ConfirmReceipt, RemoveRaw,
     SyncRaw, RemoveSeal, SyncSeal, Commit, StoreLoses, Decay, LaneRestarts,
     SyncReceiptFails, StoreCallFails, ReaperSyncFails, KillArchiver, KillReaper, PowerLoss
<1> QED  BY <1>2, <1>3, <1>4

\* A step that changes no file and loses nothing the store was proved to hold.
LEMMA EntriesStore ==
    ASSUME TypeOK, EntriesInv, UNCHANGED <<mem, disk>>, Sealed' = Sealed, enc' <= trouble' + 1,
           \A s \in Segs : \A d \in disk[s] :
               d["receipt"] \in Versions /\ Backed(s, d["receipt"]) => Backed(s, d["receipt"])'
    PROVE  EntriesInv'
BY DEF EntriesInv, Present, Durable, NoEntries

\* Sealed segments keep sound entries, in every directory that may survive.
LEMMA EntriesStep ==
    ASSUME TypeOK, EntriesInv, ArchiverInv, ReaperInv, Next, FilesOK'
    PROVE  EntriesInv'
<1> USE DEF laneVars, storeVars, archiverVars, reaperVars
<1>0. /\ enc' <= trouble' + 1
      /\ \A s \in Segs : disk[s] \subseteq [Names -> Nat] /\ mem[s] \in disk[s]
      /\ enc \in Versions /\ enc \in Nat /\ None \in Nat /\ "raw" \in Names /\ "seal" \in Names
      /\ "zst" \in Names /\ "receipt" \in Names
  BY UpgradesCounted, RawAssumption DEF TypeOK, FilesOK, ServicesOK, Versions, None, Names
<1> DEFINE Sync == mem' = mem /\ Synced(mem) /\ UNCHANGED <<index, data, loss>>
           Idle == UNCHANGED <<mem, disk, index, data, loss>>
<1>1. ASSUME NEW s \in Segs, LaneSeals(s) PROVE EntriesInv'
  <2>1. mem[s] = NoEntries  BY <1>0, <1>1 DEF LaneSeals, EntriesInv
  <2>2. Sealed' = Sealed \cup {s}  BY <1>1, SealedGrows
  <2>3. mem' \in [Segs -> [Names -> Nat]]  BY DEF FilesOK
  <2>4. \A t \in Segs : disk'[t] = {mem'[t]}  BY <1>1, <2>3, SyncedFacts DEF LaneSeals
  <2>5. mem'[s] = [mem[s] EXCEPT !["raw"] = Good, !["seal"] = Good]
    BY <1>1 DEF LaneSeals, TypeOK, FilesOK
  <2>6. /\ mem'[s]["zst"] = None /\ mem'[s]["receipt"] = None
        /\ mem'[s]["raw"] = Good /\ mem'[s]["seal"] = Good
    BY <2>1, <2>5 DEF NoEntries, Names
  <2>7. ASSUME NEW d \in disk'[s] PROVE Sound(s, d)'
    BY <2>4, <2>6, RawAssumption DEF Sound, None, Good, Versions
  <2>8. ASSUME NEW t \in Segs, t # s PROVE mem'[t] = mem[t]
    BY <1>1, <2>8 DEF LaneSeals, TypeOK, FilesOK
  <2>9. ASSUME NEW t \in Segs, t # s, NEW d \in disk'[t] PROVE Sound(t, d)'
    <3>1. Sound(t, d)  BY <1>0, <2>4, <2>8, <2>9 DEF EntriesInv, Sound
    <3>2. Backed(t, d["receipt"])' <=> Backed(t, d["receipt"])
      BY <1>1 DEF LaneSeals, Backed
    <3> QED  BY <3>1, <3>2 DEF Sound
  <2>10. ASSUME NEW t \in Segs, t \notin Sealed' PROVE disk'[t] = {NoEntries}
    BY <1>0, <2>2, <2>4, <2>8, <2>10 DEF EntriesInv
  <2>11. ASSUME NEW t \in Segs PROVE Present(t, "raw")' => Durable(t, "raw")'
    BY <2>4 DEF Present, Durable
  <2> QED  BY <1>0, <2>7, <2>9, <2>10, <2>11 DEF EntriesInv, Sound, NoEntries
<1>2. ASSUME NEW s \in Segs, NEW n \in {"raw", "receipt"}, Decay(s, n) PROVE EntriesInv'
  <2>1. Sealed' = Sealed /\ UNCHANGED <<data, loss>>  BY <1>2 DEF Decay, Sealed
  <2>2. \A t \in Segs : t # s => mem'[t] = mem[t] /\ disk'[t] = disk[t]
    BY <1>2 DEF Decay, TypeOK, FilesOK
  <2>3. disk'[s] = {[d EXCEPT ![n] = IF d[n] = None THEN d[n] ELSE Rotten] : d \in disk[s]}
    BY <1>2 DEF Decay, TypeOK, FilesOK
  <2>4. mem'[s] = [mem[s] EXCEPT ![n] = Rotten] /\ mem[s] \in [Names -> Nat]
    BY <1>2 DEF Decay, TypeOK, FilesOK
  <2>5. Rotten # None /\ Rotten \notin Versions /\ None \notin Versions
    BY RawAssumption DEF Rotten, None, Versions
  <2>6. s \in Sealed
    <3>1. mem[s][n] # None  BY <1>2 DEF Decay
    <3> QED  BY <1>0, <3>1 DEF EntriesInv, NoEntries, Names
  <2>7. ASSUME NEW d \in disk'[s]
        PROVE  Sound(s, d)' /\ (Durable(s, "raw") => d["raw"] # None)
    <3>1. PICK e \in disk[s] : d = [e EXCEPT ![n] = IF e[n] = None THEN e[n] ELSE Rotten]
      BY <2>3
    <3>2. Sound(s, e) /\ e \in [Names -> Nat]  BY <1>0 DEF EntriesInv, Sound
    <3>3. \A m \in Names : d[m] = IF m = n /\ e[n] # None THEN Rotten ELSE e[m]
      BY <3>1, <3>2
    <3>4. d["zst"] = e["zst"] /\ d["seal"] = e["seal"]  BY <1>0, <3>3
    <3>5. d["raw"] # None <=> e["raw"] # None  BY <1>0, <2>5, <3>3
    <3>6. d["receipt"] \in Versions => d["receipt"] = e["receipt"]  BY <1>0, <2>5, <3>3
    <3>7. Backed(s, e["receipt"])' <=> Backed(s, e["receipt"])  BY <2>1 DEF Backed
    <3> QED  BY <3>2, <3>4, <3>5, <3>6, <3>7 DEF Sound, Durable
  <2>8. ASSUME NEW t \in Segs, NEW d \in disk'[t] PROVE Sound(t, d)'
    <3>1. CASE t # s
      <4>1. Sound(t, d)  BY <2>2, <3>1 DEF EntriesInv, Sound
      <4>2. Backed(t, d["receipt"])' <=> Backed(t, d["receipt"])  BY <2>1 DEF Backed
      <4> QED  BY <4>1, <4>2 DEF Sound
    <3> QED  BY <2>7, <3>1
  <2>9. ASSUME NEW t \in Segs, Present(t, "raw")' PROVE Durable(t, "raw")'
    <3>1. CASE t # s  BY <2>2, <2>9, <3>1 DEF EntriesInv, Present, Durable
    <3>2. CASE t = s
      <4>1. Present(s, "raw")
        BY <1>2, <2>4, <2>9, <3>2 DEF Present, Decay, Names
      <4>2. Durable(s, "raw")  BY <4>1 DEF EntriesInv
      <4> QED  BY <2>7, <3>2, <4>2 DEF Durable
    <3> QED  BY <3>1, <3>2
  <2> QED  BY <1>0, <2>1, <2>2, <2>6, <2>8, <2>9 DEF EntriesInv, Sound, NoEntries
<1>3. CASE Encode
  <2>1. aseg \in Sealed  BY <1>3, ArchiverSegment DEF Encode
  <2>2. CASE LogicalMatchesSeal(aseg)
    <3>1. Put(aseg, "zst", enc) /\ Synced(mem')  BY <1>3, <2>2 DEF Encode
    <3>2. Sealed' = Sealed /\ UNCHANGED <<data, loss>>  BY <1>3 DEF Encode, Sealed
    <3> QED  BY <1>0, <2>1, <3>1, <3>2, EntriesPut
  <2>3. CASE ~LogicalMatchesSeal(aseg)
    BY <1>0, <1>3, <2>3, EntriesStore DEF Encode, Sealed, Backed
  <2> QED  BY <2>2, <2>3
<1>4. CASE WriteReceipt
  <2>1. aseg \in Sealed /\ Backed(aseg, enc)
    BY <1>4, ArchiverSegment DEF WriteReceipt, ArchiverInv
  <2>2. Put(aseg, "receipt", enc) /\ Pending(aseg, "receipt", enc)
    BY <1>4 DEF WriteReceipt, BuildArchiveReceipt
  <2>3. Sealed' = Sealed /\ UNCHANGED <<data, loss>>  BY <1>4 DEF WriteReceipt, Sealed
  <2> QED  BY <1>0, <2>1, <2>2, <2>3, EntriesPut
<1>5. CASE SyncReceiptFails
  <2>1. aseg \in Sealed  BY <1>5, ArchiverSegment DEF SyncReceiptFails
  <2>2. Put(aseg, "receipt", None) /\ (Synced(mem') \/ Pending(aseg, "receipt", None))
    BY <1>5 DEF SyncReceiptFails, Unlink
  <2>3. Sealed' = Sealed /\ UNCHANGED <<data, loss>>  BY <1>5 DEF SyncReceiptFails, Sealed
  <2>4. None \notin Versions  BY RawAssumption DEF None, Versions
  <2> QED  BY <1>0, <2>1, <2>2, <2>3, <2>4, EntriesPut
<1>6. CASE DropFrame
  <2>1. rseg \in Sealed  BY <1>6, ReaperSegment DEF DropFrame
  <2>2. CASE Present(rseg, "zst")
    <3>1. Put(rseg, "zst", None) /\ Synced(mem')  BY <1>6, <2>2 DEF DropFrame, Unlink
    <3>2. Sealed' = Sealed /\ UNCHANGED <<data, loss>>  BY <1>6 DEF DropFrame, Sealed
    <3> QED  BY <1>0, <2>1, <3>1, <3>2, EntriesPut
  <2>3. CASE ~Present(rseg, "zst")
    BY <1>0, <1>6, <2>3, EntriesStore DEF DropFrame, Sealed, Backed
  <2> QED  BY <2>2, <2>3
<1>7. CASE RemoveRaw
  <2>1. rseg \in Sealed  BY <1>7, ReaperSegment DEF RemoveRaw
  <2>2. Put(rseg, "raw", None) /\ Pending(rseg, "raw", None)
    BY <1>7 DEF RemoveRaw, Unlink
  <2>3. Sealed' = Sealed /\ UNCHANGED <<data, loss>>  BY <1>7 DEF RemoveRaw, Sealed
  <2> QED  BY <1>0, <2>1, <2>2, <2>3, EntriesPut
<1>8. CASE RemoveSeal
  <2>1. rseg \in Sealed /\ mem[rseg]["raw"] = None
    BY <1>8, ReaperSegment DEF RemoveSeal, ReaperInv, Present
  <2>2. Put(rseg, "seal", None) /\ Pending(rseg, "seal", None)
    BY <1>8 DEF RemoveSeal, Unlink
  <2>3. Sealed' = Sealed /\ UNCHANGED <<data, loss>>  BY <1>8 DEF RemoveSeal, Sealed
  <2> QED  BY <1>0, <2>1, <2>2, <2>3, EntriesPut
<1>9. CASE PowerLoss
  <2>1. \A s \in Segs : mem'[s] \in disk[s]  BY <1>9 DEF PowerLoss
  <2>2. \A s \in Segs : disk'[s] = {mem'[s]}
    BY <1>9, SyncedFacts DEF PowerLoss, FilesOK
  <2>3. Sealed' = Sealed /\ UNCHANGED <<data, loss>>  BY <1>9 DEF PowerLoss, Sealed
  <2>4. \A s \in Segs : disk'[s] \subseteq disk[s]  BY <2>1, <2>2
  <2>5. \A s \in Segs : Present(s, "raw")' => Durable(s, "raw")'
    BY <2>2 DEF Present, Durable
  <2> QED  BY <1>0, <2>3, <2>4, <2>5, EntriesShrink
<1>10. CASE Sync
  <2>1. \A s \in Segs : disk'[s] = {mem[s]}  BY <1>10, SyncedFacts DEF TypeOK, FilesOK
  <2>2. Sealed' = Sealed /\ UNCHANGED <<data, loss>>  BY <1>10 DEF Sealed
  <2>3. \A s \in Segs : disk'[s] \subseteq disk[s]  BY <1>0, <2>1
  <2>4. \A s \in Segs : Present(s, "raw")' => Durable(s, "raw")'
    BY <1>10, <2>1 DEF Present, Durable
  <2> QED  BY <1>0, <2>2, <2>3, <2>4, EntriesShrink
<1>11. CASE Idle
  BY <1>0, <1>11, EntriesStore DEF Sealed, Backed
<1>12. CASE PutData
  <2>1. aseg \in Segs /\ \A d \in disk[aseg] : d["receipt"] = None
    BY <1>12, ArchiverSegment DEF PutData, ArchiverInv
  <2>2. None \notin Versions  BY RawAssumption DEF None, Versions
  <2>3. ASSUME NEW s \in Segs, NEW d \in disk[s], d["receipt"] \in Versions, Backed(s, d["receipt"])
        PROVE  Backed(s, d["receipt"])'
    <3>1. s # aseg  BY <2>1, <2>2, <2>3
    <3>2. data'[s] = data[s] /\ loss' = loss /\ disk' = disk
      BY <1>12, <2>1, <3>1 DEF PutData, TypeOK, ServicesOK
    <3> QED  BY <2>3, <3>2 DEF Backed
  <2>4. Sealed' = Sealed /\ UNCHANGED <<mem, disk>>  BY <1>12 DEF PutData, Sealed
  <2> QED  BY <1>0, <2>3, <2>4, EntriesStore
<1>13. ASSUME NEW s \in Segs, StoreLoses(s) PROVE EntriesInv'
  <2>1. data' = [data EXCEPT ![s] = None] /\ loss'[s] # "no"
        /\ \A t \in Segs : t # s => data'[t] = data[t] /\ loss'[t] = loss[t]
    BY <1>13 DEF StoreLoses, TypeOK, ServicesOK
  <2>2. data'[s] = None  BY <2>1 DEF TypeOK, ServicesOK
  <2>3. ASSUME NEW t \in Segs, NEW d \in disk[t], Backed(t, d["receipt"])
        PROVE  Backed(t, d["receipt"])'
    BY <1>13, <2>1, <2>2, <2>3 DEF Backed, StoreLoses
  <2>4. Sealed' = Sealed /\ UNCHANGED <<mem, disk>>  BY <1>13 DEF StoreLoses, Sealed
  <2> QED  BY <1>0, <2>3, <2>4, EntriesStore
<1> HIDE DEF Sync, Idle
<1>14. CASE Archiver
  <2>1. CASE ArchiveSegment  BY <1>10, <1>11, <2>1 DEF ArchiveSegment, Sync, Idle
  <2>2. CASE SyncReceipt  BY <1>10, <2>2 DEF SyncReceipt, Sync
  <2> QED
    BY <1>3, <1>4, <1>11, <1>12, <1>14, <2>1, <2>2
       DEF Idle, Archiver, ArchiveSweep, ArchiveSweepEnds, PutSeal, VerifyPut
<1>15. CASE Reaper
  <2>1. CASE ConfirmReceipt  BY <1>10, <2>1 DEF ConfirmReceipt, Sync
  <2>2. CASE SyncRaw  BY <1>10, <2>2 DEF SyncRaw, Sync
  <2>3. CASE SyncSeal  BY <1>10, <2>3 DEF SyncSeal, Sync
  <2> QED
    BY <1>6, <1>7, <1>8, <1>11, <1>15, <2>1, <2>2, <2>3
       DEF Idle, Reaper, ReapSweep, ReapSweepEnds, Consider, Proof
<1>16. CASE Environment
  BY <1>1, <1>2, <1>5, <1>9, <1>11, <1>13, <1>16
     DEF Idle, Environment, Commit, LaneRestarts, Upgrade, StoreCallFails,
         ReaperSyncFails, KillArchiver, KillReaper
<1> QED  BY <1>14, <1>15, <1>16 DEF Next

-----------------------------------------------------------------------------
(* Which steps make a name appear or disappear                             *)

\* No entry n appears or disappears, now or at a power loss.
Same(n) ==
    \A t \in Segs : /\ (mem'[t][n] = None) <=> (mem[t][n] = None)
                    /\ \A d \in disk'[t] : \E e \in disk[t] : (d[n] = None) <=> (e[n] = None)

\* A change of another name's entry, an fsync and a step that touches no file are
\* such steps.
LEMMA SamePut ==
    ASSUME TypeOK, NEW n \in Names, NEW s \in Segs, NEW m \in Names \ {n}, NEW v \in Nat,
           Put(s, m, v), Synced(mem') \/ Pending(s, m, v)
    PROVE  Same(n)
<1>1. /\ mem' \in [Segs -> [Names -> Nat]] /\ mem'[s] = [mem[s] EXCEPT ![m] = v]
      /\ \A t \in Segs : t # s => mem'[t] = mem[t]
  BY PutFacts
<1>2. \A t \in Segs : disk[t] \subseteq [Names -> Nat] /\ mem[t] \in disk[t]
  BY DEF TypeOK, FilesOK
<1>3. \A t \in Segs : mem'[t][n] = mem[t][n]  BY <1>1, <1>2
<1>4. CASE Synced(mem')
  <2>1. \A t \in Segs : disk'[t] = {mem'[t]}  BY <1>1, <1>4, SyncedFacts
  <2> QED  BY <1>2, <1>3, <2>1 DEF Same
<1>5. CASE Pending(s, m, v)
  <2>1. /\ \A t \in Segs : t # s => disk'[t] = disk[t]
        /\ \A d \in disk'[s] : d \in disk[s] \/ \E e \in disk[s] : d = [e EXCEPT ![m] = v]
    BY <1>5, PendingFacts
  <2>2. ASSUME NEW d \in disk'[s] PROVE \E e \in disk[s] : d[n] = e[n]
    BY <1>2, <2>1
  <2> QED  BY <1>3, <2>1, <2>2 DEF Same
<1> QED  BY <1>4, <1>5

LEMMA SameSync ==
    ASSUME TypeOK, NEW n \in Names, mem' = mem, Synced(mem) \/ disk' = disk
    PROVE  Same(n)
<1>1. CASE Synced(mem)
  BY <1>1, SyncedFacts DEF TypeOK, FilesOK, Same
<1>2. CASE disk' = disk  BY <1>2 DEF Same
<1> QED  BY <1>1, <1>2

\* A decaying file keeps its name.
LEMMA SameDecay ==
    ASSUME TypeOK, NEW n \in Names, NEW s \in Segs, NEW m \in {"raw", "receipt"}, Decay(s, m)
    PROVE  Same(n)
<1>1. \A t \in Segs : disk[t] \subseteq [Names -> Nat] /\ mem[t] \in [Names -> Nat]
  BY DEF TypeOK, FilesOK
<1>2. \A t \in Segs : t # s => mem'[t] = mem[t] /\ disk'[t] = disk[t]
  BY DEF Decay, TypeOK, FilesOK
<1>3. disk'[s] = {[d EXCEPT ![m] = IF d[m] = None THEN d[m] ELSE Rotten] : d \in disk[s]}
  BY DEF Decay, TypeOK, FilesOK
<1>4. mem'[s] = [mem[s] EXCEPT ![m] = Rotten] /\ mem[s][m] # None
  BY DEF Decay, TypeOK, FilesOK
<1>5. Rotten # None  BY RawAssumption DEF Rotten, None
<1>6. (mem'[s][n] = None) <=> (mem[s][n] = None)
  BY <1>1, <1>4, <1>5 DEF Names
<1>7. ASSUME NEW d \in disk'[s] PROVE \E e \in disk[s] : (d[n] = None) <=> (e[n] = None)
  <2>1. PICK e \in disk[s] : d = [e EXCEPT ![m] = IF e[m] = None THEN e[m] ELSE Rotten]
    BY <1>3
  <2>2. e \in [Names -> Nat]  BY <1>1
  <2> QED  BY <1>5, <2>1, <2>2 DEF Names
<1> QED  BY <1>2, <1>6, <1>7 DEF Same

\* Receipts come and go with the archiver's write, its withdrawal and a power loss;
\* raw files with the lane's seal, the reaper's deletion and a power loss.
LEMMA NamesStep ==
    ASSUME TypeOK, ArchiverInv, ReaperInv, Next
    PROVE  /\ Same("receipt") \/ WriteReceipt \/ SyncReceiptFails \/ PowerLoss
           /\ Same("raw") \/ RemoveRaw \/ PowerLoss \/ \E s \in Segs : LaneSeals(s)
<1> USE DEF laneVars, storeVars, archiverVars, reaperVars
<1> DEFINE Both == Same("receipt") /\ Same("raw")
           Quiet == mem' = mem /\ (Synced(mem) \/ disk' = disk)
           Goal == /\ Same("receipt") \/ WriteReceipt \/ SyncReceiptFails \/ PowerLoss
                   /\ Same("raw") \/ RemoveRaw \/ PowerLoss \/ \E s \in Segs : LaneSeals(s)
<1>0. /\ "raw" \in Names /\ "seal" \in Names /\ "zst" \in Names /\ "receipt" \in Names
      /\ None \in Nat /\ enc \in Nat
  BY RawAssumption DEF Names, None, TypeOK, ServicesOK, Versions
<1>1. ASSUME NEW s \in Segs, LaneSeals(s) PROVE Same("receipt")
  <2>1. mem' \in [Segs -> [Names -> Nat]] /\ \A t \in Segs : mem'[t]["receipt"] = mem[t]["receipt"]
    BY <1>0, <1>1 DEF LaneSeals, TypeOK, FilesOK, Names, Good
  <2>2. \A t \in Segs : disk'[t] = {mem'[t]}  BY <1>1, <2>1, SyncedFacts DEF LaneSeals
  <2> QED  BY <2>1, <2>2 DEF Same, TypeOK, FilesOK
<1>2. ASSUME NEW s \in Segs, NEW n \in {"raw", "receipt"}, Decay(s, n) PROVE Both
  BY <1>0, <1>2, SameDecay
<1>3. CASE Quiet  BY <1>0, <1>3, SameSync
<1>4. CASE Encode
  <2>1. aseg \in Segs  BY <1>4, ArchiverSegment DEF Encode
  <2>2. CASE LogicalMatchesSeal(aseg)
    <3>1. Put(aseg, "zst", enc) /\ Synced(mem')  BY <1>4, <2>2 DEF Encode
    <3> QED  BY <1>0, <2>1, <3>1, SamePut
  <2>3. CASE ~LogicalMatchesSeal(aseg)  BY <1>3, <1>4, <2>3 DEF Encode
  <2> QED  BY <2>2, <2>3
<1>5. CASE WriteReceipt
  <2>1. aseg \in Segs  BY <1>5, ArchiverSegment DEF WriteReceipt
  <2>2. Put(aseg, "receipt", enc) /\ Pending(aseg, "receipt", enc)
    BY <1>5 DEF WriteReceipt, BuildArchiveReceipt
  <2>3. Same("raw")  BY <1>0, <2>1, <2>2, SamePut
  <2> QED  BY <1>5, <2>3
<1>6. CASE SyncReceiptFails
  <2>1. aseg \in Segs  BY <1>6, ArchiverSegment DEF SyncReceiptFails
  <2>2. Put(aseg, "receipt", None) /\ (Synced(mem') \/ Pending(aseg, "receipt", None))
    BY <1>6 DEF SyncReceiptFails, Unlink
  <2>3. Same("raw")  BY <1>0, <2>1, <2>2, SamePut
  <2> QED  BY <1>6, <2>3
<1>7. CASE DropFrame
  <2>1. rseg \in Segs  BY <1>7, ReaperSegment DEF DropFrame
  <2>2. CASE Present(rseg, "zst")
    <3>1. Put(rseg, "zst", None) /\ Synced(mem')  BY <1>7, <2>2 DEF DropFrame, Unlink
    <3> QED  BY <1>0, <2>1, <3>1, SamePut
  <2>3. CASE ~Present(rseg, "zst")  BY <1>3, <1>7, <2>3 DEF DropFrame
  <2> QED  BY <2>2, <2>3
<1>8. CASE RemoveRaw
  <2>1. rseg \in Segs  BY <1>8, ReaperSegment DEF RemoveRaw
  <2>2. Put(rseg, "raw", None) /\ Pending(rseg, "raw", None)
    BY <1>8 DEF RemoveRaw, Unlink
  <2>3. Same("receipt")  BY <1>0, <2>1, <2>2, SamePut
  <2> QED  BY <1>8, <2>3
<1>9. CASE RemoveSeal
  <2>1. rseg \in Segs  BY <1>9, ReaperSegment DEF RemoveSeal
  <2>2. Put(rseg, "seal", None) /\ Pending(rseg, "seal", None)
    BY <1>9 DEF RemoveSeal, Unlink
  <2> QED  BY <1>0, <2>1, <2>2, SamePut
<1> HIDE DEF Quiet
<1>10. ASSUME Quiet PROVE Goal  BY <1>3, <1>10
<1> SUFFICES Goal
  OBVIOUS
<1> HIDE DEF Goal
<1>11. CASE Archiver
  <2>1. CASE ArchiveSegment  BY <1>10, <2>1 DEF ArchiveSegment, Quiet
  <2>2. CASE SyncReceipt  BY <1>10, <2>2 DEF SyncReceipt, Quiet
  <2>3. CASE Encode  BY <1>4, <2>3 DEF Goal
  <2>4. CASE WriteReceipt  BY <1>5, <2>4 DEF Goal
  <2> QED
    BY <1>10, <1>11, <2>1, <2>2, <2>3, <2>4
       DEF Quiet, Archiver, ArchiveSweep, ArchiveSweepEnds, PutData, PutSeal, VerifyPut
<1>12. CASE Reaper
  <2>1. CASE ConfirmReceipt  BY <1>10, <2>1 DEF ConfirmReceipt, Quiet
  <2>2. CASE SyncRaw  BY <1>10, <2>2 DEF SyncRaw, Quiet
  <2>3. CASE SyncSeal  BY <1>10, <2>3 DEF SyncSeal, Quiet
  <2>4. CASE DropFrame  BY <1>7, <2>4 DEF Goal
  <2>5. CASE RemoveRaw  BY <1>8, <2>5 DEF Goal
  <2>6. CASE RemoveSeal  BY <1>9, <2>6 DEF Goal
  <2> QED
    BY <1>10, <1>12, <2>1, <2>2, <2>3, <2>4, <2>5, <2>6
       DEF Quiet, Reaper, ReapSweep, ReapSweepEnds, Consider, Proof
<1>13. CASE Environment
  <2>1. ASSUME NEW s \in Segs, LaneSeals(s) PROVE Goal  BY <1>1, <2>1 DEF Goal
  <2>2. ASSUME NEW s \in Segs, NEW n \in {"raw", "receipt"}, Decay(s, n) PROVE Goal
    BY <1>2, <2>2 DEF Goal
  <2>3. CASE SyncReceiptFails  BY <1>6, <2>3 DEF Goal
  <2>4. CASE PowerLoss  BY <2>4 DEF Goal
  <2> QED
    BY <1>10, <1>13, <2>1, <2>2, <2>3, <2>4
       DEF Quiet, Environment, Commit, StoreLoses, LaneRestarts, Upgrade, StoreCallFails,
           ReaperSyncFails, KillArchiver, KillReaper
<1> QED  BY <1>11, <1>12, <1>13 DEF Next

-----------------------------------------------------------------------------
(* The archiver                                                            *)

\* The store loses an object only knowingly: what was backed stays backed.
LEMMA BackedStep ==
    ASSUME TypeOK, Next, ~PutData, NEW t \in Segs, NEW v, Backed(t, v)
    PROVE  Backed(t, v)'
<1> USE DEF storeVars
<1>1. ASSUME NEW s \in Segs, StoreLoses(s) PROVE Backed(t, v)'
  <2>1. CASE t = s
    <3>1. data'[s] = None /\ loss'[s] # "no"
      BY <1>1 DEF StoreLoses, TypeOK, ServicesOK
    <3> QED  BY <2>1, <3>1 DEF Backed
  <2>2. CASE t # s
    <3>1. data'[t] = data[t] /\ loss'[t] = loss[t]
      BY <1>1, <2>2 DEF StoreLoses, TypeOK, ServicesOK
    <3> QED  BY <3>1 DEF Backed
  <2> QED  BY <2>1, <2>2
<1>2. CASE UNCHANGED <<data, loss>>  BY <1>2 DEF Backed
<1>3. UNCHANGED <<data, loss>> \/ \E s \in Segs : StoreLoses(s)
  BY DEF Next, Archiver, Reaper, Environment, LaneSeals, ArchiveSweep, ArchiveSweepEnds,
     ArchiveSegment, Encode, PutSeal, VerifyPut, WriteReceipt, SyncReceipt,
     ReapSweep, ReapSweepEnds, Consider, DropFrame, Proof, ConfirmReceipt, RemoveRaw,
     SyncRaw, RemoveSeal, SyncSeal, Commit, Decay, LaneRestarts, Upgrade,
     SyncReceiptFails, StoreCallFails, ReaperSyncFails, KillArchiver, KillReaper, PowerLoss
<1> QED  BY <1>1, <1>2, <1>3

\* A segment under way has no receipt, and a receipt about to be written is true.
LEMMA ArchiverStep ==
    ASSUME TypeOK, EntriesInv, ArchiverInv, ReaperInv, Next
    PROVE  ArchiverInv'
<1> USE DEF laneVars, storeVars, archiverVars, reaperVars
<1>0. Sealed \subseteq Sealed'  BY SealedGrows
<1> DEFINE Away == /\ UNCHANGED <<apc, atodo, aseg, enc>>
                   /\ Same("receipt") /\ ~PutData
           Off == /\ apc' \in {"idle", "next"} /\ atodo' \subseteq atodo
<1>1. CASE Off  BY <1>0, <1>1 DEF ArchiverInv
<1>2. CASE Away
  <2>1. CASE apc \in {"idle", "next"}  BY <1>0, <1>2, <2>1 DEF ArchiverInv
  <2>2. CASE apc \notin {"idle", "next"}
    <3>1. aseg \in Segs  BY <2>2, ArchiverSegment
    <3>2. apc = "write" => Backed(aseg, enc)'
      <4>1. ASSUME apc = "write", NEW a \in Segs, a = aseg, NEW v, v = enc
            PROVE Backed(a, v)'
        BY <1>2, <4>1, BackedStep DEF ArchiverInv
      <4> QED  BY <1>2, <3>1, <4>1 DEF Backed
    <3>3. /\ (mem'[aseg]["receipt"] = None) <=> (mem[aseg]["receipt"] = None)
          /\ \A d \in disk'[aseg] : \E e \in disk[aseg] : (d["receipt"] = None) <=> (e["receipt"] = None)
      BY <1>2, <3>1 DEF Same
    <3>4. apc \in {"data", "seal", "verify", "write"} => \A d \in disk'[aseg] : d["receipt"] = None
      BY <3>3 DEF ArchiverInv
    <3>5. apc \in {"encode", "data", "seal", "verify", "write"} => mem'[aseg]["receipt"] = None
      BY <3>3 DEF ArchiverInv, Present
    <3> QED  BY <1>0, <1>2, <3>2, <3>4, <3>5 DEF ArchiverInv, Present
  <2> QED  BY <2>1, <2>2
<1>3. CASE ArchiveSweep  BY <1>0, <1>3 DEF ArchiveSweep, ArchiverInv, Discovered
<1>4. CASE ArchiveSegment
  <2>1. Min(atodo) \in atodo  BY <1>4, MinMember DEF ArchiveSegment, TypeOK, ServicesOK
  <2>2. Min(atodo) \in Sealed  BY <2>1 DEF ArchiverInv
  <2> DEFINE s == Min(atodo)
  <2>3. CASE ReadSealedSegment(s) /\ ~Present(s, "receipt")
    <3>1. apc' = "encode" /\ aseg' = s /\ atodo' = atodo \ {s} /\ mem' = mem
      BY <1>4, <2>3 DEF ArchiveSegment
    <3> HIDE DEF s
    <3> QED  BY <1>0, <2>2, <2>3, <3>1 DEF ArchiverInv, Present, s
  <2>4. CASE ~(ReadSealedSegment(s) /\ ~Present(s, "receipt"))
    BY <1>1, <1>4, <2>4 DEF ArchiveSegment
  <2> QED  BY <2>3, <2>4
<1>5. CASE Encode
  <2>1. aseg \in Sealed /\ aseg \in Segs  BY <1>5, ArchiverSegment DEF Encode
  <2>2. CASE LogicalMatchesSeal(aseg)
    <3>1. Put(aseg, "zst", enc) /\ Synced(mem') /\ apc' = "data" /\ UNCHANGED <<aseg, atodo, enc>>
      BY <1>5, <2>2 DEF Encode
    <3>2. mem[aseg]["receipt"] = None /\ enc \in Nat
      BY <1>5, RawAssumption DEF Encode, ArchiverInv, Present, TypeOK, ServicesOK, Versions
    <3>3. mem' \in [Segs -> [Names -> Nat]] /\ mem'[aseg] = [mem[aseg] EXCEPT !["zst"] = enc]
      BY <2>1, <3>1, <3>2, PutFacts DEF Names
    <3>4. mem'[aseg]["receipt"] = None
      BY <2>1, <3>2, <3>3 DEF TypeOK, FilesOK, Names
    <3>5. disk'[aseg] = {mem'[aseg]}  BY <2>1, <3>1, <3>3, SyncedFacts
    <3> QED  BY <1>0, <2>1, <3>1, <3>4, <3>5 DEF ArchiverInv, Present
  <2> QED  BY <1>1, <1>5, <2>2 DEF Encode
<1>6. CASE PutData
  BY <1>0, <1>6 DEF PutData, ArchiverInv, Present
<1>7. CASE PutSeal
  BY <1>0, <1>7 DEF PutSeal, ArchiverInv, Present
<1>8. CASE VerifyPut
  BY <1>0, <1>8 DEF VerifyPut, ArchiverInv, Present, VerifyArchive, Backed
<1>9. CASE WriteReceipt
  BY <1>0, <1>9 DEF WriteReceipt, ArchiverInv
<1>10. CASE SyncReceipt  BY <1>1, <1>10 DEF SyncReceipt
<1>11. CASE SyncReceiptFails  BY <1>1, <1>11 DEF SyncReceiptFails
<1>12. CASE StoreCallFails  BY <1>1, <1>12 DEF StoreCallFails
<1>13. CASE KillArchiver  BY <1>1, <1>13 DEF KillArchiver, StopArchiver
<1>14. CASE PowerLoss  BY <1>1, <1>14 DEF PowerLoss, StopArchiver
<1>15. CASE ArchiveSweepEnds  BY <1>1, <1>15 DEF ArchiveSweepEnds
<1>16. CASE Upgrade  BY <1>1, <1>16 DEF Upgrade
<1>17. ASSUME ~WriteReceipt, ~SyncReceiptFails, ~PowerLoss, ~PutData, UNCHANGED <<apc, atodo, aseg, enc>>
       PROVE  ArchiverInv'
  <2>1. Same("receipt")  BY <1>17, NamesStep
  <2> QED  BY <1>2, <1>17, <2>1
<1> HIDE DEF Away, Off
<1>18. CASE Archiver
  BY <1>3, <1>4, <1>5, <1>6, <1>7, <1>8, <1>9, <1>10, <1>15, <1>18 DEF Archiver
<1>19. CASE ~Archiver /\ ~SyncReceiptFails /\ ~StoreCallFails /\ ~KillArchiver /\ ~PowerLoss /\ ~Upgrade
  <2>1. ~WriteReceipt /\ ~PutData  BY <1>19 DEF Archiver
  <2>2. UNCHANGED <<apc, atodo, aseg, enc>>
    BY <1>19 DEF Next, Reaper, Environment, LaneSeals,
       ReapSweep, ReapSweepEnds, Consider, DropFrame, Proof, ConfirmReceipt, RemoveRaw,
       SyncRaw, RemoveSeal, SyncSeal, Commit, StoreLoses, Decay, LaneRestarts,
       ReaperSyncFails, KillReaper
  <2> QED  BY <1>17, <1>19, <2>1, <2>2
<1> QED  BY <1>11, <1>12, <1>13, <1>14, <1>16, <1>18, <1>19

-----------------------------------------------------------------------------
(* The reaper                                                              *)

\* Outside the reaper: what it relies on is only lost where the invariant says so.
Relied == data[rseg] # None \/ loss[rseg] = "late"

\* No step of another process takes away the object the reaper has just seen,
\* except a loss that came after its last look.
LEMMA ReliedStep ==
    ASSUME TypeOK, Next, rseg \in Segs, rpc \notin {"idle", "next"}, Relied, rseg' = rseg
    PROVE  Relied'
<1> USE DEF storeVars
<1>1. ASSUME NEW s \in Segs, StoreLoses(s) PROVE Relied'
  <2>1. CASE rseg = s
    <3>1. loss'[s] = "late"  BY <1>1, <2>1 DEF StoreLoses, TypeOK, ServicesOK
    <3> QED  BY <2>1, <3>1 DEF Relied
  <2>2. CASE rseg # s
    <3>1. data'[rseg] = data[rseg] /\ loss'[rseg] = loss[rseg]
      BY <1>1, <2>2 DEF StoreLoses, TypeOK, ServicesOK
    <3> QED  BY <3>1 DEF Relied
  <2> QED  BY <2>1, <2>2
<1>2. CASE PutData
  <2>1. loss' = loss /\ (data'[rseg] = data[rseg] \/ data'[rseg] # None)
    BY <1>2 DEF PutData, TypeOK, ServicesOK
  <2> QED  BY <2>1 DEF Relied
<1>3. CASE UNCHANGED <<data, loss>>  BY <1>3 DEF Relied
<1>4. UNCHANGED <<data, loss>> \/ PutData \/ \E s \in Segs : StoreLoses(s)
  BY DEF Next, Archiver, Reaper, Environment, LaneSeals, ArchiveSweep, ArchiveSweepEnds,
     ArchiveSegment, Encode, PutSeal, VerifyPut, WriteReceipt, SyncReceipt,
     ReapSweep, ReapSweepEnds, Consider, DropFrame, Proof, ConfirmReceipt, RemoveRaw,
     SyncRaw, RemoveSeal, SyncSeal, Commit, Decay, LaneRestarts, Upgrade,
     SyncReceiptFails, StoreCallFails, ReaperSyncFails, KillArchiver, KillReaper, PowerLoss
<1> QED  BY <1>1, <1>2, <1>3, <1>4

\* A receipt that was there, durably or not, and was not withdrawn stays there.
LEMMA ReceiptStays ==
    ASSUME TypeOK, ArchiverInv, ReaperInv, Next, ~PowerLoss, NEW s \in Segs, s \notin withdrawn'
    PROVE  /\ Present(s, "receipt") => mem'[s]["receipt"] # None
           /\ Durable(s, "receipt") => \A d \in disk'[s] : d["receipt"] # None
<1> USE DEF laneVars, storeVars, archiverVars, reaperVars
<1>1. CASE Same("receipt")  BY <1>1 DEF Same, Present, Durable
<1>2. \A t \in Segs : disk[t] \subseteq [Names -> Nat] /\ mem[t] \in disk[t]
  BY DEF TypeOK, FilesOK
<1>3. None \in Nat /\ enc \in Nat /\ enc # None /\ "receipt" \in Names
  BY RawAssumption DEF None, TypeOK, ServicesOK, Versions, Names
<1>4. CASE WriteReceipt
  <2>1. aseg \in Segs  BY <1>4, ArchiverSegment DEF WriteReceipt
  <2>2. Put(aseg, "receipt", enc) /\ Pending(aseg, "receipt", enc)
    BY <1>4 DEF WriteReceipt, BuildArchiveReceipt
  <2>3. /\ mem'[aseg] = [mem[aseg] EXCEPT !["receipt"] = enc]
        /\ \A t \in Segs : t # aseg => mem'[t] = mem[t] /\ disk'[t] = disk[t]
        /\ \A d \in disk'[aseg] : d \in disk[aseg] \/ \E e \in disk[aseg] : d = [e EXCEPT !["receipt"] = enc]
    BY <1>3, <2>1, <2>2, PutFacts, PendingFacts
  <2>4. mem'[aseg]["receipt"] # None  BY <1>2, <1>3, <2>1, <2>3
  <2>5. Durable(aseg, "receipt") => \A d \in disk'[aseg] : d["receipt"] # None
    BY <1>2, <1>3, <2>1, <2>3 DEF Durable
  <2> QED  BY <2>3, <2>4, <2>5 DEF Present, Durable
<1>5. CASE SyncReceiptFails
  <2>1. aseg \in Segs  BY <1>5, ArchiverSegment DEF SyncReceiptFails
  <2>2. Put(aseg, "receipt", None) /\ (Synced(mem') \/ Pending(aseg, "receipt", None))
    BY <1>5 DEF SyncReceiptFails, Unlink
  <2>3. s # aseg  BY <1>5 DEF SyncReceiptFails
  <2>4. mem'[s] = mem[s] /\ mem' \in [Segs -> [Names -> Nat]]  BY <1>3, <2>1, <2>2, <2>3, PutFacts
  <2>5. disk'[s] = disk[s] \/ disk'[s] = {mem[s]}
    BY <1>3, <2>1, <2>2, <2>3, <2>4, PendingFacts, SyncedFacts
  <2> QED  BY <1>2, <2>4, <2>5 DEF Present, Durable
<1> QED  BY <1>1, <1>4, <1>5, NamesStep

\* A raw file that is gone comes back only with a power loss.
LEMMA RawStaysGone ==
    ASSUME TypeOK, ArchiverInv, ReaperInv, Next, ~PowerLoss, NEW s \in Sealed, ~Present(s, "raw")
    PROVE  mem'[s]["raw"] = None
<1>0. s \in Segs  BY DEF Sealed
<1>1. CASE Same("raw")  BY <1>0, <1>1 DEF Same, Present
<1>2. CASE RemoveRaw
  <2>1. rseg \in Segs  BY <1>2, ReaperSegment DEF RemoveRaw
  <2>2. mem' = [mem EXCEPT ![rseg]["raw"] = None]  BY <1>2 DEF RemoveRaw, Unlink, Put
  <2> QED  BY <1>0, <2>1, <2>2 DEF TypeOK, FilesOK, Present, Names
<1>3. ASSUME NEW t \in Segs, LaneSeals(t) PROVE mem'[s]["raw"] = None
  <2>1. s # t  BY <1>3 DEF LaneSeals
  <2> QED  BY <1>0, <1>3, <2>1 DEF LaneSeals, TypeOK, FilesOK, Present
<1> QED  BY <1>1, <1>2, <1>3, NamesStep

\* A deletion that was authorised stays authorised until it is over.
LEMMA ReaperStep ==
    ASSUME TypeOK, EntriesInv, ArchiverInv, ReaperInv, Next
    PROVE  ReaperInv'
<1> USE DEF laneVars, storeVars, archiverVars, reaperVars
<1>0. Sealed \subseteq Sealed'  BY SealedGrows
<1>1. canon \subseteq canon' /\ withdrawn \subseteq withdrawn'
  BY DEF Next, Archiver, Reaper, Environment, LaneSeals, ArchiveSweep, ArchiveSweepEnds,
     ArchiveSegment, Encode, PutData, PutSeal, VerifyPut, WriteReceipt, SyncReceipt,
     ReapSweep, ReapSweepEnds, Consider, DropFrame, Proof, ConfirmReceipt, RemoveRaw,
     SyncRaw, RemoveSeal, SyncSeal, Commit, StoreLoses, Decay, LaneRestarts, Upgrade,
     SyncReceiptFails, StoreCallFails, ReaperSyncFails, KillArchiver, KillReaper, PowerLoss
<1>2. CASE rpc' \in {"idle", "next"} /\ rtodo' \subseteq rtodo /\ rindex' \subseteq rindex
  BY <1>0, <1>1, <1>2 DEF ReaperInv
<1>3. CASE ReapSweep
  <2>1. \A s \in Segs : Present(s, "receipt") => s \in Sealed
    BY DEF EntriesInv, NoEntries, Present, TypeOK, FilesOK, Names
  <2> QED  BY <1>0, <1>3, <2>1 DEF ReapSweep, ReaperInv
<1>4. CASE Consider
  <2> DEFINE s == Min(rtodo)
  <2>1. s \in rtodo  BY <1>4, MinMember DEF Consider, TypeOK, ServicesOK
  <2>2. s \in Sealed  BY <2>1 DEF ReaperInv
  <2>3. CASE ReadArchiveReceipt(s) /\ VerifyArchive(s, mem[s]["receipt"])
    <3>1. rpc' = "frame" /\ rseg' = s /\ rtodo' = rtodo \ {s}
          /\ UNCHANGED <<mem, data, rindex, canon, withdrawn>>
      BY <1>4, <2>3 DEF Consider
    <3>2. mem[s]["receipt"] # None /\ data[s] # None
      BY <2>3, RawAssumption DEF ReadArchiveReceipt, VerifyArchive, Versions, None
    <3> HIDE DEF s
    <3> QED  BY <1>0, <2>2, <3>1, <3>2 DEF ReaperInv, Present
  <2>4. CASE ~(ReadArchiveReceipt(s) /\ VerifyArchive(s, mem[s]["receipt"]))
    BY <1>2, <1>4, <2>4 DEF Consider
  <2> QED  BY <2>3, <2>4
<1>5. CASE rpc \notin {"idle", "next"} /\ rseg' = rseg /\ UNCHANGED <<rtodo, rindex>> /\ ~PowerLoss
  <2>1. rseg \in Segs /\ rseg \in Sealed  BY <1>5, ReaperSegment
  <2>2. Relied'  BY <1>5, <2>1, ReliedStep DEF Relied, ReaperInv
  <2>3. rseg \notin withdrawn' => mem'[rseg]["receipt"] # None
    BY <1>1, <1>5, <2>1, ReceiptStays DEF ReaperInv
  <2>4. /\ rtodo' \subseteq Sealed' /\ rindex' \subseteq canon'
        /\ rseg' \in Sealed' /\ (data'[rseg'] # None \/ loss'[rseg'] = "late")
        /\ rseg' \notin withdrawn' => Present(rseg, "receipt")'
    BY <1>0, <1>1, <1>5, <2>1, <2>2, <2>3 DEF Relied, ReaperInv, Present
  <2>5. CASE rpc' = rpc
    <3>1. rpc = "rmRaw" /\ rseg \notin withdrawn' => \A d \in disk'[rseg] : d["receipt"] # None
      BY <1>1, <1>5, <2>1, ReceiptStays DEF ReaperInv
    <3>2. rpc \in {"syncRaw", "rmSeal", "syncSeal"} => mem'[rseg]["raw"] = None
      BY <1>5, <2>1, RawStaysGone DEF ReaperInv
    <3>3. rpc \in {"confirm", "rmRaw", "syncRaw", "rmSeal", "syncSeal"} => rseg \in canon'
      BY <1>1 DEF ReaperInv
    <3> QED  BY <1>5, <2>4, <2>5, <3>1, <3>2, <3>3 DEF ReaperInv, Present, Durable
  <2>6. CASE DropFrame  BY <1>5, <2>4, <2>6 DEF DropFrame, ReaperInv, Present
  <2>7. CASE Proof
    <3>1. rpc' # "next" => rseg \in canon'  BY <1>1, <2>7 DEF Proof, ReaperInv
    <3>2. rpc' \in {"next", "rmSeal", "confirm"} /\ (rpc' = "rmSeal" => mem'[rseg]["raw"] = None)
      BY <2>7 DEF Proof, Present
    <3> QED  BY <1>5, <2>4, <3>1, <3>2 DEF ReaperInv, Present
  <2>8. CASE ConfirmReceipt
    <3>1. rpc = "confirm" /\ rpc' = "rmRaw" /\ mem' = mem /\ Synced(mem) /\ UNCHANGED <<canon, withdrawn>>
      BY <2>8 DEF ConfirmReceipt
    <3>2. disk'[rseg] = {mem[rseg]}  BY <2>1, <3>1, SyncedFacts DEF TypeOK, FilesOK
    <3>3. rseg \notin withdrawn => mem[rseg]["receipt"] # None  BY <3>1 DEF ReaperInv, Present
    <3> QED  BY <1>5, <2>4, <3>1, <3>2, <3>3 DEF ReaperInv, Present, Durable
  <2>9. CASE RemoveRaw
    <3>1. rpc = "rmRaw" /\ rpc' = "syncRaw" /\ mem' = [mem EXCEPT ![rseg]["raw"] = None]
          /\ UNCHANGED canon
      BY <2>9 DEF RemoveRaw, Unlink, Put
    <3>2. mem'[rseg]["raw"] = None  BY <2>1, <3>1 DEF TypeOK, FilesOK, Names
    <3> QED  BY <1>5, <2>4, <3>1, <3>2 DEF ReaperInv, Present
  <2>10. CASE SyncRaw
    BY <1>5, <2>4, <2>10 DEF SyncRaw, ReaperInv, Present
  <2>11. CASE RemoveSeal
    <3>1. rpc = "rmSeal" /\ rpc' = "syncSeal" /\ UNCHANGED canon  BY <2>11 DEF RemoveSeal
    <3>2. mem'[rseg]["raw"] = None  BY <1>5, <2>1, <3>1, RawStaysGone DEF ReaperInv
    <3> QED  BY <1>5, <2>4, <3>1, <3>2 DEF ReaperInv, Present
  <2>12. CASE rpc' = "next"  BY <2>4, <2>12 DEF ReaperInv
  <2>13. \/ rpc' = rpc \/ DropFrame \/ Proof \/ ConfirmReceipt \/ RemoveRaw \/ SyncRaw
         \/ RemoveSeal \/ rpc' = "next" \/ rpc' = "idle"
    BY <1>5 DEF Next, Archiver, Reaper, Environment, LaneSeals, ArchiveSweep, ArchiveSweepEnds,
       ArchiveSegment, Encode, PutData, PutSeal, VerifyPut, WriteReceipt, SyncReceipt,
       ReapSweep, ReapSweepEnds, Consider, SyncSeal, Commit, StoreLoses, Decay, LaneRestarts,
       Upgrade, SyncReceiptFails, StoreCallFails, ReaperSyncFails, KillArchiver, KillReaper,
       StopReaper
  <2>14. CASE rpc' = "idle"  BY <2>4, <2>14 DEF ReaperInv
  <2> QED  BY <2>5, <2>6, <2>7, <2>8, <2>9, <2>10, <2>11, <2>12, <2>13, <2>14
<1>6. CASE ReapSweepEnds \/ ReaperSyncFails \/ KillReaper \/ PowerLoss
  BY <1>2, <1>6 DEF ReapSweepEnds, ReaperSyncFails, KillReaper, PowerLoss, StopReaper
<1>7. CASE /\ ~ReapSweepEnds /\ ~ReaperSyncFails /\ ~KillReaper /\ ~PowerLoss
           /\ ~ReapSweep /\ ~Consider
  <2>1. /\ UNCHANGED <<rtodo, rseg, rindex>>
        /\ rpc' = rpc \/ rpc \notin {"idle", "next"}
    BY <1>7 DEF Next, Archiver, Reaper, Environment, LaneSeals, ArchiveSweep, ArchiveSweepEnds,
       ArchiveSegment, Encode, PutData, PutSeal, VerifyPut, WriteReceipt, SyncReceipt,
       DropFrame, Proof, ConfirmReceipt, RemoveRaw,
       SyncRaw, RemoveSeal, SyncSeal, Commit, StoreLoses, Decay, LaneRestarts, Upgrade,
       SyncReceiptFails, StoreCallFails, KillArchiver
  <2> QED  BY <1>2, <1>5, <1>7, <2>1
<1> QED  BY <1>3, <1>4, <1>6, <1>7

-----------------------------------------------------------------------------
(* What is kept                                                            *)

\* No step removes the last copy of a sealed record.
LEMMA NothingLostStep ==
    ASSUME TypeOK, EntriesInv, ArchiverInv, ReaperInv, NothingLost, Next
    PROVE  NothingLost'
<1> USE DEF laneVars, storeVars, archiverVars, reaperVars
<1> DEFINE Kept(s) == mem'[s]["raw"] # None \/ data'[s] # None \/ loss'[s] = "late"
<1> SUFFICES ASSUME NEW s \in Sealed' PROVE Kept(s)
  BY DEF NothingLost, Present
<1>0. s \in Segs  BY DEF Sealed
<1>1. CASE LaneSeals(s)
  <2>1. mem'[s]["raw"] = Good  BY <1>0, <1>1 DEF LaneSeals, TypeOK, FilesOK, Names
  <2> QED  BY <2>1 DEF Good, None
<1>2. CASE ~LaneSeals(s)
  <2>1. s \in Sealed  BY <1>2, SealedGrows
  <2>2. Present(s, "raw") \/ data[s] # None \/ loss[s] = "late"  BY <2>1 DEF NothingLost
  <2>3. ASSUME NEW t \in Segs, StoreLoses(t) PROVE Kept(s)
    <3>1. CASE t = s
      <4>1. mem' = mem /\ (loss'[s] = "late" \/ Present(s, "raw"))
        BY <1>0, <2>3, <3>1 DEF StoreLoses, TypeOK, ServicesOK
      <4> QED  BY <4>1 DEF Present
    <3>2. CASE t # s
      <4>1. mem' = mem /\ data'[s] = data[s] /\ loss'[s] = loss[s]
        BY <1>0, <2>3, <3>2 DEF StoreLoses, TypeOK, ServicesOK
      <4> QED  BY <2>2, <4>1 DEF Present
    <3> QED  BY <3>1, <3>2
  <2>4. ASSUME \A t \in Segs : ~StoreLoses(t) PROVE loss' = loss /\ (data'[s] = data[s] \/ data'[s] # None)
    <3>1. CASE PutData  BY <1>0, <3>1 DEF PutData, TypeOK, ServicesOK
    <3>2. CASE ~PutData
      BY <2>4, <3>2 DEF Next, Archiver, Reaper, Environment, LaneSeals, ArchiveSweep, ArchiveSweepEnds,
         ArchiveSegment, Encode, PutSeal, VerifyPut, WriteReceipt, SyncReceipt,
         ReapSweep, ReapSweepEnds, Consider, DropFrame, Proof, ConfirmReceipt, RemoveRaw,
         SyncRaw, RemoveSeal, SyncSeal, Commit, Decay, LaneRestarts, Upgrade,
         SyncReceiptFails, StoreCallFails, ReaperSyncFails, KillArchiver, KillReaper, PowerLoss
    <3> QED  BY <3>1, <3>2
  <2>5. ASSUME \A t \in Segs : ~StoreLoses(t), data[s] # None \/ loss[s] = "late" PROVE Kept(s)
    BY <2>4, <2>5
  <2>6. CASE Same("raw")
    BY <1>0, <2>2, <2>3, <2>5, <2>6 DEF Same, Present
  <2>7. CASE RemoveRaw
    <3>1. CASE s = rseg
      <4>1. data[s] # None \/ loss[s] = "late"  BY <2>7, <3>1 DEF RemoveRaw, ReaperInv
      <4> QED  BY <2>3, <2>5, <4>1
    <3>2. CASE s # rseg
      <4>1. mem'[s] = mem[s]
        BY <1>0, <2>7, <3>2 DEF RemoveRaw, Unlink, Put, TypeOK, FilesOK
      <4> QED  BY <2>2, <2>3, <2>5, <4>1 DEF Present
    <3> QED  BY <3>1, <3>2
  <2>8. CASE PowerLoss
    <3>1. mem'[s] \in disk[s]  BY <1>0, <2>8 DEF PowerLoss
    <3>2. Present(s, "raw") => mem'[s]["raw"] # None  BY <1>0, <3>1 DEF EntriesInv, Durable
    <3> QED  BY <2>2, <2>3, <2>5, <3>2
  <2>9. ASSUME NEW t \in Segs, LaneSeals(t) PROVE Kept(s)
    <3>1. mem'[s] = mem[s]
      BY <1>0, <1>2, <2>9 DEF LaneSeals, TypeOK, FilesOK
    <3> QED  BY <2>2, <2>3, <2>5, <3>1 DEF Present
  <2> QED  BY <2>6, <2>7, <2>8, <2>9, NamesStep
<1> QED  BY <1>1, <1>2

\* A raw file goes only with a durable receipt, which stays unless it is withdrawn.
LEMMA AuditableStep ==
    ASSUME TypeOK, EntriesInv, ArchiverInv, ReaperInv, DeletionIsAuditable, Next, FilesOK'
    PROVE  DeletionIsAuditable'
<1> USE DEF laneVars, storeVars, archiverVars, reaperVars
<1>0. canon \subseteq canon' /\ withdrawn \subseteq withdrawn'
  BY DEF Next, Archiver, Reaper, Environment, LaneSeals, ArchiveSweep, ArchiveSweepEnds,
     ArchiveSegment, Encode, PutData, PutSeal, VerifyPut, WriteReceipt, SyncReceipt,
     ReapSweep, ReapSweepEnds, Consider, DropFrame, Proof, ConfirmReceipt, RemoveRaw,
     SyncRaw, RemoveSeal, SyncSeal, Commit, StoreLoses, Decay, LaneRestarts, Upgrade,
     SyncReceiptFails, StoreCallFails, ReaperSyncFails, KillArchiver, KillReaper, PowerLoss
<1> DEFINE Audited(s) == /\ s \in canon' /\ mem'[s]["receipt"] # None
                         /\ \A d \in disk'[s] : d["receipt"] # None
<1> SUFFICES ASSUME NEW s \in Sealed' \ withdrawn', mem'[s]["raw"] = None
             PROVE  Audited(s)
  BY DEF DeletionIsAuditable, Present, Durable
<1>1. s \in Segs /\ s \notin withdrawn  BY <1>0 DEF Sealed
<1>2. ~LaneSeals(s)
  <2>1. ASSUME LaneSeals(s) PROVE mem'[s]["raw"] = Good
    BY <1>1, <2>1 DEF LaneSeals, TypeOK, FilesOK, Names
  <2> QED  BY <2>1 DEF Good, None
<1>3. s \in Sealed  BY <1>2, SealedGrows
<1>4. ~Present(s, "raw") => s \in canon /\ Present(s, "receipt") /\ Durable(s, "receipt")
  BY <1>1, <1>3 DEF DeletionIsAuditable
<1>5. CASE PowerLoss
  <2>1. mem'[s] \in disk[s]  BY <1>1, <1>5 DEF PowerLoss
  <2>2. disk'[s] = {mem'[s]}
    BY <1>1, <1>5, SyncedFacts DEF PowerLoss, FilesOK
  <2>3. ~Present(s, "raw")  BY <1>1, <2>1 DEF EntriesInv, Durable
  <2> QED  BY <1>0, <1>4, <2>1, <2>2, <2>3 DEF Durable
<1>6. CASE ~PowerLoss
  <2>1. CASE ~Present(s, "raw")
    BY <1>0, <1>1, <1>4, <1>6, <2>1, ReceiptStays
  <2>2. CASE Present(s, "raw")
    <3>1. ~Same("raw")  BY <1>1, <2>2 DEF Same, Present
    <3>2. ASSUME NEW t \in Segs, LaneSeals(t) PROVE FALSE
      <4>1. mem'[s] = mem[s]  BY <1>1, <1>2, <3>2 DEF LaneSeals, TypeOK, FilesOK
      <4> QED  BY <2>2, <4>1 DEF Present
    <3>3. RemoveRaw  BY <1>6, <3>1, <3>2, NamesStep
    <3>4. s = rseg
      BY <1>1, <2>2, <3>3 DEF RemoveRaw, Unlink, Put, TypeOK, FilesOK, Present
    <3>5. s \in canon /\ Present(s, "receipt") /\ Durable(s, "receipt")
      BY <1>1, <3>3, <3>4 DEF RemoveRaw, ReaperInv
    <3> QED  BY <1>0, <1>1, <1>6, <3>5, ReceiptStays
  <2> QED  BY <2>1, <2>2
<1> QED  BY <1>5, <1>6

-----------------------------------------------------------------------------
(* Theorems                                                                *)

\* The inductive invariant: types, the lane's order, sound entries in every
\* directory a power loss may leave, and what archiver and reaper rely on between
\* two of their steps.
THEOREM Invariance == Spec => []IInv
<1>1. IInv /\ [Next]_vars => IInv'
  <2> SUFFICES ASSUME IInv, [Next]_vars PROVE IInv'
    OBVIOUS
  <2>1. CASE Next
    <3>1. TypeOK /\ LaneInv /\ EntriesInv /\ ArchiverInv /\ ReaperInv /\ NothingLost
          /\ DeletionIsAuditable
      BY DEF IInv
    <3>2. FilesOK'  BY <2>1, <3>1, FilesStep
    <3>3. TypeOK'  BY <2>1, <3>1, <3>2, ServicesStep DEF TypeOK
    <3>4. LaneInv'  BY <2>1, <3>1, LaneStep
    <3>5. EntriesInv'  BY <2>1, <3>1, <3>2, EntriesStep
    <3>6. ArchiverInv'  BY <2>1, <3>1, ArchiverStep
    <3>7. ReaperInv'  BY <2>1, <3>1, ReaperStep
    <3>8. NothingLost'  BY <2>1, <3>1, NothingLostStep
    <3>9. DeletionIsAuditable'  BY <2>1, <3>1, <3>2, AuditableStep
    <3> QED  BY <3>3, <3>4, <3>5, <3>6, <3>7, <3>8, <3>9 DEF IInv
  <2>2. CASE UNCHANGED vars
    BY <2>2
       DEF vars, laneVars, storeVars, archiverVars, reaperVars, IInv, TypeOK, FilesOK, ServicesOK,
           LaneInv, EntriesInv, ArchiverInv, ReaperInv, NothingLost, DeletionIsAuditable,
           Sealed, Present, Durable, Backed, NoEntries
  <2> QED  BY <2>1, <2>2
<1> QED  BY <1>1, IInvInit, PTL DEF Spec

\* Type correctness of the lane, the archiver, the reaper and the store.
THEOREM TypeCorrect == Spec => []TypeOK
<1>1. IInv => TypeOK  BY DEF IInv
<1> QED  BY <1>1, Invariance, PTL

\* "Absence of proof is retention", for any number of segments and failures: a
\* sealed record is in the local file or in the store, its deletion is backed by
\* durable receipts, a receipt names the frame the store holds, and on an ordered
\* file system a raw file never loses its seal (Reaper.consider, archive_segment).
THEOREM RawKept == Spec => []RawIsKept
<1>1. IInv => RawIsKept
  <2> SUFFICES ASSUME IInv PROVE RawIsKept
    OBVIOUS
  <2>1. EntriesInv /\ NothingLost /\ DeletionIsAuditable  BY DEF IInv
  <2>2. \A s \in Segs : mem[s] \in disk[s]  BY DEF IInv, TypeOK, FilesOK
  <2>3. ReceiptIsTrue
    BY <2>1, <2>2 DEF ReceiptIsTrue, EntriesInv, ReadArchiveReceipt, Backed
  <2>4. OrderedDirs => NoUnsealedRaw
    BY <2>1, <2>2 DEF NoUnsealedRaw, EntriesInv, Present, Sealed
  <2> QED  BY <2>1, <2>3, <2>4 DEF RawIsKept
<1> QED  BY <1>1, Invariance, PTL

=============================================================================
