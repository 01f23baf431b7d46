-------------------------- MODULE LaneWriterProofs --------------------------
(***************************************************************************)
(* Proofs about LaneWriter: what was fsynced survives every step, crashes  *)
(* and recovery included, and a seal is never a claim the disk does not    *)
(* back.  The first needs only the types of the files; the second needs    *)
(* what the writer in memory knows of its file, what recovery has done to  *)
(* the file it holds, and where the indices of the accepted records are.   *)
(* The second half is about the order of the stream.                       *)
(***************************************************************************)
EXTENDS LaneWriter, TLAPS, NaturalsInduction, WellFoundedInduction, FiniteSetTheorems

-----------------------------------------------------------------------------
(* The inductive invariant                                                 *)

\* A process with a segment open runs.
Live == phase \in {"running", "stopping", "shutdown", "closing"}
Sealing == {"rename", "publish", "reseal", "finish"}

\* Where the thread can be in each phase of the process.
ThreadInv ==
    /\ phase \in {"down", "closed"} => wpc = "idle"
    /\ phase = "recovering" => wpc \in {"idle", "publish", "finish"}
    /\ phase \in {"shutdown", "closing", "closed"} => pending = NoRec
    /\ phase = "closing" => wpc \notin {"idle", "dead"} /\ queue = <<>> /\ unwritten = <<>>
    /\ ~Live => batch = <<>> /\ queue = <<>> /\ pending = NoRec
    /\ wpc \in {"idle", "dead"} => batch = <<>>
    /\ wpc # "dead" => unwritten = <<>>
    /\ Live /\ wpc \in Sealing /\ target = NoTarget => phase = "closing" /\ batch = <<>>

\* A record that still belongs in the segment the writer holds.
Fits(m) == m.kind = "rec" /\ m.vis < SegEnd(CurFile)

\* What the writer in memory knows of its file.  A segment whose rollback failed
\* is behind a record that close() tries first and that refuses the segment.
WriterInv ==
    Live =>
        /\ files # <<>>
        /\ \A i \in 1..(Len(files) - 1) : IsSealed(files[i])
        /\ cur.handle \/ wpc = "rename" => ~IsSealed(CurFile)
        /\ ~cur.poisoned => cur.committed = Len(CurFile.data) /\ ~CurFile.torn
        /\ cur.poisoned =>
             \/ wpc = "dead" /\ unwritten # <<>> /\ Fits(unwritten[1])
             \/ phase = "closing" /\ wpc = "consume" /\ batch # <<>> /\ Fits(batch[1])
        /\ wpc \in Sealing => ~cur.handle
        /\ wpc = "finish" \/ cur.done => IsSealed(CurFile)

\* Every segment of a lane that was closed has its seal.
ClosedInv == phase = "closed" => \A i \in DOMAIN files : IsSealed(files[i])

\* The file recovery holds between two of its steps.
RecoverInv ==
    phase = "recovering" /\ wpc # "idle" =>
        /\ target \in DOMAIN files
        /\ files[target].name = "ndjson" /\ ~files[target].torn
        /\ files[target].synced = Len(files[target].data)

\* As long as no storage call has raised.
FaultFreeInv ==
    faults = 0 =>
        /\ wpc \notin {"dead", "reseal"} /\ ~fatal /\ unwritten = <<>>
        /\ Live =>
             /\ ~cur.poisoned
             /\ wpc \in {"idle", "consume"} => cur.handle
             /\ wpc \in Sealing => CurFile.synced = Len(CurFile.data)
             /\ wpc \in {"publish", "finish"} => CurFile.name = "ndjson"

\* What every seal on disk is worth.
SealInv ==
    \A i \in DOMAIN files : IsSealed(files[i]) =>
        /\ faults = 0 \/ outages = 0 =>
             ~files[i].torn /\ files[i].seal.lines = Len(files[i].data)
        /\ faults = 0 => files[i].synced = Len(files[i].data)
        /\ faults = 0 /\ OrderedDirs => files[i].name = "ndjson"

\* The records of a sequence of messages, by delivery index.
Rising(s)   == \A i, j \in DOMAIN s :
                  i < j /\ s[i].kind = "rec" /\ s[j].kind = "rec" => s[i].idx < s[j].idx
Under(s, t) == \A i \in DOMAIN s, j \in DOMAIN t :
                  s[i].kind = "rec" /\ t[j].kind = "rec" => s[i].idx < t[j].idx
UpTo(s, n)  == \A i \in DOMAIN s : s[i].kind = "rec" => s[i].idx < n
Has(s, n)   == \E i \in DOMAIN s : s[i].kind = "rec" /\ s[i].idx = n

\* Where the accepted records are: in index order in the files, then in the
\* batch, then in the queue, the last index given out among them.
IndexInv ==
    faults = 0 =>
        /\ \A i \in DOMAIN files : Rising(files[i].data)
        /\ Live \/ phase = "closed" =>
             /\ \A i \in DOMAIN files : UpTo(files[i].data, next)
             /\ UpTo(batch, next) /\ UpTo(queue, next)
             /\ pending # NoRec => pending.idx = next
             /\ \/ next = 1
                \/ \E i \in DOMAIN files : Has(files[i].data, next - 1)
                \/ Has(batch, next - 1)
                \/ Has(queue, next - 1)
        /\ Live =>
             /\ Rising(batch) /\ Rising(queue) /\ Under(batch, queue)
             /\ Under(CurFile.data, batch) /\ Under(CurFile.data, queue)

IInv == /\ TypeOK /\ ThreadInv /\ WriterInv /\ ClosedInv /\ RecoverInv
        /\ FaultFreeInv /\ SealInv /\ IndexInv

-----------------------------------------------------------------------------
(* Files and what is done to them                                          *)

\* A file as the type invariant wants it.
Sound(f) == f \in File /\ f.synced <= Len(f.data) /\ (f.synced > 0 => f.onDisk)

\* g is f after a step that keeps what was fsynced.
Kept(f, g) ==
    /\ Sound(g) /\ g.start = f.start /\ g.index = f.index
    /\ Len(g.data) >= f.synced
    /\ SubSeq(g.data, 1, f.synced) = SubSeq(f.data, 1, f.synced)

\* The type of a file's columns.
LEMMA FileFacts ==
    ASSUME NEW f \in File
    PROVE  /\ f.start \in Nat /\ f.index \in Nat /\ f.data \in Seq(Record) /\ f.synced \in Nat
           /\ f.onDisk \in BOOLEAN /\ f.torn \in BOOLEAN /\ f.named \in BOOLEAN
           /\ f.sealed \in BOOLEAN /\ f.name \in {"open", "ndjson"} /\ f.seal \in SealType
           /\ Len(f.data) \in Nat
BY DEF File

LEMMA NoSealFacts == NoSeal \in SealType
BY DEF NoSeal, SealType

\* A file that was not touched.
LEMMA KeptSame == ASSUME NEW f, Sound(f) PROVE Kept(f, f)
BY FileFacts DEF Sound, Kept

\* fsync (fsync_if_due, seal, spool.sync, write_batch's rollback).
LEMMA FsyncedFacts ==
    ASSUME NEW f, Sound(f)
    PROVE  /\ Kept(f, Fsynced(f)) /\ Fsynced(f).data = f.data
           /\ Fsynced(f).synced = Len(f.data) /\ Fsynced(f).torn = f.torn
           /\ Fsynced(f).name = f.name /\ Fsynced(f).seal = f.seal
           /\ Fsynced(f).sealed = f.sealed /\ Fsynced(f).onDisk = TRUE
<1>1. f \in File /\ Len(f.data) \in Nat  BY FileFacts DEF Sound
<1>2. /\ Fsynced(f) \in File /\ Fsynced(f).data = f.data /\ Fsynced(f).start = f.start /\ Fsynced(f).index = f.index
      /\ Fsynced(f).synced = Len(f.data) /\ Fsynced(f).torn = f.torn
      /\ Fsynced(f).name = f.name /\ Fsynced(f).seal = f.seal
      /\ Fsynced(f).sealed = f.sealed /\ Fsynced(f).onDisk = TRUE
  BY <1>1, Zenon DEF File, Fsynced
<1> QED  BY <1>1, <1>2, FileFacts DEF Sound, Kept

\* Records appended to a file, the last line possibly partial.
LEMMA WriteFacts ==
    ASSUME NEW f, Sound(f), NEW s \in Seq(Record), NEW t \in BOOLEAN
    PROVE  LET g == Cut(f, s, t)
           IN  /\ Kept(f, g) /\ g.data = f.data \o s /\ g.torn = t /\ g.synced = f.synced
               /\ g.name = f.name /\ g.seal = f.seal /\ g.sealed = f.sealed
               /\ g.onDisk = f.onDisk
<1> DEFINE g == Cut(f, s, t)
<1>1. f \in File /\ f.data \o s \in Seq(Record)  BY FileFacts DEF Sound
<1>2. /\ g \in File /\ g.data = f.data \o s /\ g.start = f.start /\ g.torn = t /\ g.index = f.index
      /\ g.synced = f.synced /\ g.name = f.name /\ g.seal = f.seal /\ g.sealed = f.sealed
      /\ g.onDisk = f.onDisk
  BY <1>1, Zenon DEF File, Cut
<1> HIDE DEF g
<1>3. Kept(f, g)  BY <1>1, <1>2, FileFacts DEF Sound, Kept
<1> QED  BY <1>2, <1>3 DEF g

\* The same for a write that went through.
LEMMA AppendFacts ==
    ASSUME NEW f, Sound(f), NEW s \in Seq(Record)
    PROVE  LET g == [f EXCEPT !.data = @ \o s]
           IN  /\ Kept(f, g) /\ g.data = f.data \o s /\ g.torn = f.torn /\ g.synced = f.synced
               /\ g.name = f.name /\ g.seal = f.seal /\ g.sealed = f.sealed
               /\ g.onDisk = f.onDisk
<1> DEFINE g == [f EXCEPT !.data = @ \o s]
<1>1. f \in File /\ f.data \o s \in Seq(Record)  BY FileFacts DEF Sound
<1>2. /\ g \in File /\ g.data = f.data \o s /\ g.start = f.start /\ g.torn = f.torn /\ g.index = f.index
      /\ g.synced = f.synced /\ g.name = f.name /\ g.seal = f.seal /\ g.sealed = f.sealed
      /\ g.onDisk = f.onDisk
  BY <1>1, Zenon DEF File
<1> HIDE DEF g
<1>3. Kept(f, g)  BY <1>1, <1>2, FileFacts DEF Sound, Kept
<1> QED  BY <1>2, <1>3 DEF g

\* The rename of seal().
LEMMA RenameFacts ==
    ASSUME NEW f, Sound(f)
    PROVE  LET g == [f EXCEPT !.name = "ndjson"]
           IN  /\ Kept(f, g) /\ g.data = f.data /\ g.torn = f.torn /\ g.synced = f.synced
               /\ g.name = "ndjson" /\ g.seal = f.seal /\ g.sealed = f.sealed
               /\ g.onDisk = f.onDisk
<1> DEFINE g == [f EXCEPT !.name = "ndjson"]
<1>1. f \in File  BY DEF Sound
<1>2. /\ g \in File /\ g.data = f.data /\ g.start = f.start /\ g.torn = f.torn /\ g.index = f.index
      /\ g.synced = f.synced /\ g.name = "ndjson" /\ g.seal = f.seal /\ g.sealed = f.sealed
      /\ g.onDisk = f.onDisk
  BY <1>1, Zenon DEF File
<1> HIDE DEF g
<1>3. Kept(f, g)  BY <1>1, <1>2, FileFacts DEF Sound, Kept
<1> QED  BY <1>2, <1>3 DEF g

\* A seal on a file (seal, seal_orphan).
LEMMA SealFacts ==
    ASSUME NEW f, Sound(f), NEW sl \in SealType
    PROVE  LET g == [f EXCEPT !.seal = sl]
           IN  /\ Kept(f, g) /\ g.data = f.data /\ g.torn = f.torn /\ g.synced = f.synced
               /\ g.name = f.name /\ g.seal = sl /\ g.sealed = f.sealed
               /\ g.onDisk = f.onDisk
<1> DEFINE g == [f EXCEPT !.seal = sl]
<1>1. f \in File  BY DEF Sound
<1>2. /\ g \in File /\ g.data = f.data /\ g.start = f.start /\ g.torn = f.torn /\ g.index = f.index
      /\ g.synced = f.synced /\ g.name = f.name /\ g.seal = sl /\ g.sealed = f.sealed
      /\ g.onDisk = f.onDisk
  BY <1>1, Zenon DEF File
<1> HIDE DEF g
<1>3. Kept(f, g)  BY <1>1, <1>2, FileFacts DEF Sound, Kept
<1> QED  BY <1>2, <1>3 DEF g

LEMMA SealOfFacts ==
    ASSUME NEW n \in Int, NEW s, NEW v, NEW r \in {"writer", "recovery"}
    PROVE  SealOf(n, s, v, r) \in SealType /\ SealOf(n, s, v, r).lines = n
           /\ SealOf(n, s, v, r) # NoSeal
<1>1. NonDecreasing(SubSeq(s, 1, n), v) \in BOOLEAN  BY Zenon DEF NonDecreasing
<1>2. SealOf(n, s, v, r) \in SealType /\ SealOf(n, s, v, r).lines = n
      /\ SealOf(n, s, v, r).reason = r
  BY <1>1, Zenon DEF SealOf, SealType
<1>3. NoSeal.reason = "none"  BY DEF NoSeal
<1> QED  BY <1>2, <1>3

\* The fsync of the directory.
LEMMA DirSyncedFacts ==
    ASSUME NEW fs \in Seq(File), \A i \in DOMAIN fs : Sound(fs[i])
    PROVE  /\ DirSynced(fs) \in Seq(File) /\ DOMAIN DirSynced(fs) = DOMAIN fs
           /\ Len(DirSynced(fs)) = Len(fs)
           /\ \A i \in DOMAIN fs : LET f == fs[i]  g == DirSynced(fs)[i] IN
                 /\ Kept(f, g) /\ g.data = f.data /\ g.torn = f.torn /\ g.synced = f.synced
                 /\ g.name = f.name /\ g.seal = f.seal /\ g.onDisk = f.onDisk
                 /\ g.sealed = (f.sealed \/ IsSealed(f))
<1> DEFINE G(f) == [f EXCEPT !.named = (@ \/ f.name = "ndjson"), !.sealed = (@ \/ IsSealed(f))]
<1>1. ASSUME NEW f, Sound(f)
      PROVE  LET g == G(f) IN
             /\ g \in File
             /\ Kept(f, g) /\ g.data = f.data /\ g.torn = f.torn /\ g.synced = f.synced
             /\ g.name = f.name /\ g.seal = f.seal /\ g.onDisk = f.onDisk
             /\ g.sealed = (f.sealed \/ IsSealed(f))
  <2> DEFINE a == f.named \/ f.name = "ndjson"
             b == f.sealed \/ IsSealed(f)
  <2>1. f \in File  BY <1>1 DEF Sound
  <2>2. a \in BOOLEAN /\ b \in BOOLEAN  BY Zenon
  <2>3. G(f) = [f EXCEPT !.named = a, !.sealed = b]  BY <2>1, Zenon DEF File
  <2> HIDE DEF a, b
  <2> DEFINE g == [f EXCEPT !.named = a, !.sealed = b]
  <2>4. /\ g \in File /\ g.data = f.data /\ g.start = f.start /\ g.torn = f.torn /\ g.index = f.index
        /\ g.synced = f.synced /\ g.name = f.name /\ g.seal = f.seal
        /\ g.onDisk = f.onDisk /\ g.sealed = b
    BY <2>1, <2>2, Zenon DEF File
  <2> HIDE DEF g
  <2>5. Kept(f, g)  BY <1>1, <2>1, <2>4, FileFacts DEF Sound, Kept
  <2> QED  BY <2>3, <2>4, <2>5 DEF g, b
<1>2. DirSynced(fs) = [i \in DOMAIN fs |-> G(fs[i])]  BY DEF DirSynced
<1>3. \A i \in DOMAIN fs : DirSynced(fs)[i] = G(fs[i])  BY <1>2
<1> HIDE DEF G
<1>4. \A i \in DOMAIN fs : G(fs[i]) \in File  BY <1>1
<1>5. DOMAIN fs = 1..Len(fs) /\ Len(fs) \in Nat  OBVIOUS
<1>6. DirSynced(fs) \in Seq(File) /\ DOMAIN DirSynced(fs) = DOMAIN fs
      /\ Len(DirSynced(fs)) = Len(fs)
  BY <1>2, <1>4, <1>5
<1> QED  BY <1>1, <1>3, <1>6

\* seal_orphan up to the rename: the partial line goes, the rest is fsynced.
LEMMA RepairFacts ==
    ASSUME NEW f, Sound(f)
    PROVE  LET g == [Repaired(f) EXCEPT !.name = "ndjson"]
           IN  /\ Kept(f, g) /\ g.data = f.data /\ g.torn = FALSE /\ g.synced = Len(f.data)
               /\ g.name = "ndjson" /\ g.seal = f.seal /\ g.sealed = f.sealed
<1> DEFINE h == Fsynced(f)
           g == [[h EXCEPT !.torn = FALSE] EXCEPT !.name = "ndjson"]
<1>1. /\ Kept(f, h) /\ h \in File /\ h.data = f.data /\ h.synced = Len(f.data)
      /\ h.seal = f.seal /\ h.sealed = f.sealed /\ h.start = f.start /\ h.onDisk = TRUE /\ h.index = f.index
  BY FsyncedFacts DEF Kept, Sound
<1> HIDE DEF h
<1>2. /\ g \in File /\ g.data = h.data /\ g.start = h.start /\ g.torn = FALSE /\ g.index = h.index
      /\ g.synced = h.synced /\ g.name = "ndjson" /\ g.seal = h.seal /\ g.sealed = h.sealed
      /\ g.onDisk = h.onDisk
  BY <1>1, Zenon DEF File
<1> HIDE DEF g
<1>3. Kept(f, g)  BY <1>1, <1>2, FileFacts DEF Sound, Kept
<1> QED  BY <1>1, <1>2, <1>3 DEF g, h, Repaired

\* What a power loss leaves of a file.
Left(f, g) ==
    /\ Kept(f, g) /\ g.synced = f.synced /\ g.onDisk = f.onDisk
    /\ \E n \in 0..Len(f.data) : g.data = SubSeq(f.data, 1, n)
    /\ f.synced = Len(f.data) => g.data = f.data /\ g.torn = f.torn
    /\ g.seal \in {NoSeal, f.seal} /\ g.sealed = f.sealed /\ g.name \in {"open", f.name}

LEMMA SurvivorFacts ==
    ASSUME NEW f, Sound(f), NEW g \in Survivors(f)
    PROVE  Left(f, g)
<1>1. PICK n \in f.synced..Len(f.data),
           t \in (IF f.synced = Len(f.data) THEN {f.torn} ELSE BOOLEAN),
           nm \in (IF f.named THEN {f.name} ELSE {"open", f.name}),
           sl \in (IF f.sealed THEN {f.seal} ELSE {NoSeal, f.seal}) :
        g = Survivor(f, n, t, nm, sl)
  BY DEF Survivors
<1>2. f \in File  BY DEF Sound
<1>3. n \in Nat /\ n <= Len(f.data) /\ f.synced <= n /\ SubSeq(f.data, 1, n) \in Seq(Record)
      /\ f.synced \in Nat
  BY <1>1, <1>2, FileFacts
<1>4. t \in BOOLEAN /\ nm \in {"open", "ndjson"} /\ sl \in SealType /\ sl \in {NoSeal, f.seal}
  <2>1. t \in BOOLEAN  BY <1>1, <1>2, FileFacts, Zenon
  <2>2. nm \in {"open", "ndjson"}  BY <1>1, <1>2, FileFacts, Zenon
  <2>3. sl \in {NoSeal, f.seal}  BY <1>1, Zenon
  <2> QED  BY <2>1, <2>2, <2>3, <1>2, FileFacts, NoSealFacts, Zenon
<1> DEFINE d == SubSeq(f.data, 1, n)
           h == [f EXCEPT !.data = d, !.torn = t, !.name = nm, !.seal = sl]
<1>5. g = h  BY <1>1 DEF Survivor
<1>6. d \in Seq(Record)  BY <1>3
<1> HIDE DEF d
<1>7. /\ h \in File /\ h.data = d /\ h.synced = f.synced /\ h.torn = t /\ h.name = nm
      /\ h.seal = sl /\ h.start = f.start /\ h.onDisk = f.onDisk /\ h.index = f.index
      /\ h.sealed = f.sealed
  BY <1>2, <1>3, <1>4, <1>6, Zenon DEF File
<1> HIDE DEF h
<1>8. Len(d) = n /\ SubSeq(d, 1, f.synced) = SubSeq(f.data, 1, f.synced)
  BY <1>2, <1>3, FileFacts DEF d
<1>9. f.synced = Len(f.data) => d = f.data /\ t = f.torn
  <2>1. f.synced = Len(f.data) => n = Len(f.data)  BY <1>1, <1>2, FileFacts
  <2>2. f.synced = Len(f.data) => t = f.torn  BY <1>1
  <2>3. SubSeq(f.data, 1, Len(f.data)) = f.data  BY <1>2, FileFacts
  <2> QED  BY <2>1, <2>2, <2>3 DEF d
<1>10. Kept(f, g)  BY <1>3, <1>5, <1>7, <1>8 DEF Kept, Sound
<1>11. \E k \in 0..Len(f.data) : g.data = SubSeq(f.data, 1, k)
  BY <1>3, <1>5, <1>7 DEF d
<1> QED  BY <1>4, <1>5, <1>7, <1>9, <1>10, <1>11 DEF Left

LEMMA LeftSame == ASSUME NEW f, Sound(f) PROVE Left(f, f)
<1>1. f.data = SubSeq(f.data, 1, Len(f.data)) /\ Len(f.data) \in 0..Len(f.data)
  BY FileFacts DEF Sound
<1> QED  BY <1>1, KeptSame DEF Left

\* A file just opened (SegmentWriter.__init__).
LEMMA NewFileFacts ==
    ASSUME NEW fs \in Seq(File), NEW start \in Nat
    PROVE  LET f == NewFile(fs, start)
           IN  /\ Sound(f) /\ f.data = <<>> /\ f.synced = 0 /\ f.seal = NoSeal
               /\ f.start = start /\ f.torn = FALSE /\ f.name = "open"
               /\ f.index = NextSegmentIndex(fs, start)
<1>1. NextSegmentIndex(fs, start) \in Nat
  <2>1. IsFiniteSet(1..Len(fs))  BY FS_Interval
  <2>2. IsFiniteSet({i \in DOMAIN fs : fs[i].start = start})
    BY <2>1, FS_Subset
  <2> QED  BY <2>2, FS_CardinalityType DEF NextSegmentIndex
<1>2. <<>> \in Seq(Record) /\ Len(<<>>) = 0  OBVIOUS
<1> DEFINE f == NewFile(fs, start)
<1>3. /\ f \in File /\ f.data = <<>> /\ f.synced = 0 /\ f.seal = NoSeal /\ f.start = start
      /\ f.torn = FALSE /\ f.name = "open" /\ f.index = NextSegmentIndex(fs, start)
  <2>1. 0 \in Nat  OBVIOUS
  <2> QED  BY <1>1, <1>2, <2>1, NoSealFacts, Zenon DEF NewFile, File
<1> HIDE DEF f
<1>4. Sound(f)  BY <1>2, <1>3 DEF Sound
<1> QED  BY <1>3, <1>4 DEF f

-----------------------------------------------------------------------------
(* The lane's sequence of files                                            *)

\* The files gs are the files fs after a step that keeps what was fsynced.
FilesKept(fs, gs) ==
    /\ gs \in Seq(File) /\ \A i \in DOMAIN gs : Sound(gs[i])
    /\ \A i \in DOMAIN fs : fs[i].synced > 0 => i \in DOMAIN gs /\ Kept(fs[i], gs[i])

LEMMA SameFiles ==
    ASSUME NEW fs \in Seq(File), \A i \in DOMAIN fs : Sound(fs[i])
    PROVE  FilesKept(fs, fs)
BY KeptSame DEF FilesKept

LEMMA SetFile ==
    ASSUME NEW fs \in Seq(File), \A i \in DOMAIN fs : Sound(fs[i]), NEW k \in DOMAIN fs,
           NEW g, Kept(fs[k], g)
    PROVE  LET gs == [fs EXCEPT ![k] = g]
           IN  /\ FilesKept(fs, gs) /\ DOMAIN gs = DOMAIN fs /\ Len(gs) = Len(fs)
               /\ gs \in Seq(File)
               /\ gs[k] = g /\ \A i \in DOMAIN fs : i # k => gs[i] = fs[i]
<1> DEFINE gs == [fs EXCEPT ![k] = g]
<1>1. Sound(g) /\ g \in File  BY DEF Kept, Sound
<1>2. gs \in Seq(File) /\ DOMAIN gs = DOMAIN fs /\ Len(gs) = Len(fs) /\ gs[k] = g
      /\ \A i \in DOMAIN fs : i # k => gs[i] = fs[i]
  BY <1>1
<1> HIDE DEF gs
<1>3. FilesKept(fs, gs)  BY <1>1, <1>2, KeptSame DEF FilesKept
<1> QED  BY <1>2, <1>3 DEF gs

LEMMA SyncFiles ==
    ASSUME NEW fs \in Seq(File), \A i \in DOMAIN fs : Sound(fs[i])
    PROVE  FilesKept(fs, DirSynced(fs))
BY DirSyncedFacts DEF FilesKept, Kept

LEMMA AddFile ==
    ASSUME NEW fs \in Seq(File), \A i \in DOMAIN fs : Sound(fs[i]), NEW g, Sound(g)
    PROVE  LET gs == Append(fs, g)
           IN  /\ FilesKept(fs, gs) /\ gs \in Seq(File) /\ Len(gs) = Len(fs) + 1
               /\ DOMAIN gs = 1..Len(gs)
               /\ gs[Len(gs)] = g /\ \A i \in DOMAIN fs : gs[i] = fs[i]
<1> DEFINE gs == Append(fs, g)
<1>1. g \in File  BY DEF Sound
<1>2. gs \in Seq(File) /\ Len(gs) = Len(fs) + 1 /\ DOMAIN gs = 1..(Len(fs) + 1)
      /\ gs[Len(fs) + 1] = g /\ \A i \in DOMAIN fs : gs[i] = fs[i]
  BY <1>1
<1>3. DOMAIN fs = 1..Len(fs) /\ Len(fs) \in Nat  OBVIOUS
<1> HIDE DEF gs
<1>4. \A i \in DOMAIN gs : Sound(gs[i])  BY <1>2, <1>3
<1>5. FilesKept(fs, gs)  BY <1>2, <1>3, <1>4, KeptSame DEF FilesKept
<1> QED  BY <1>2, <1>5 DEF gs

\* What was kept twice was kept.
LEMMA KeptTwice ==
    ASSUME NEW f, Sound(f), NEW g, NEW h, Kept(f, g), Kept(g, h), g.synced >= f.synced
    PROVE  Kept(f, h)
<1>1. /\ f.data \in Seq(Record) /\ g.data \in Seq(Record) /\ h.data \in Seq(Record)
      /\ f.synced \in Nat /\ g.synced \in Nat
      /\ f.synced <= Len(f.data) /\ g.synced <= Len(g.data) /\ g.synced <= Len(h.data)
      /\ f.synced <= Len(g.data)
  BY FileFacts DEF Kept, Sound
<1>2. SubSeq(g.data, 1, f.synced) = SubSeq(f.data, 1, f.synced)
      /\ SubSeq(h.data, 1, g.synced) = SubSeq(g.data, 1, g.synced)  BY DEF Kept
<1>3. \A s, t \in Seq(Record), m, n \in Nat :
         (m <= n /\ n <= Len(s) /\ n <= Len(t) /\ SubSeq(s, 1, n) = SubSeq(t, 1, n))
            => SubSeq(s, 1, m) = SubSeq(t, 1, m)
  <2> SUFFICES ASSUME NEW s \in Seq(Record), NEW t \in Seq(Record), NEW m \in Nat, NEW n \in Nat,
                      m <= n, n <= Len(s), n <= Len(t), SubSeq(s, 1, n) = SubSeq(t, 1, n)
               PROVE  SubSeq(s, 1, m) = SubSeq(t, 1, m)
    OBVIOUS
  <2>1. SubSeq(s, 1, m) = SubSeq(SubSeq(s, 1, n), 1, m)  OBVIOUS
  <2>2. SubSeq(t, 1, m) = SubSeq(SubSeq(t, 1, n), 1, m)  OBVIOUS
  <2> QED  BY <2>1, <2>2
<1>4. SubSeq(h.data, 1, f.synced) = SubSeq(g.data, 1, f.synced)
  BY <1>1, <1>2, <1>3
<1> QED  BY <1>1, <1>2, <1>4 DEF Kept

-----------------------------------------------------------------------------
(* What the writer takes from its batch, and what a crash leaves           *)

\* The least member of a set of numbers.
LEMMA LeastMember ==
    ASSUME NEW T \in SUBSET Nat, T # {}
    PROVE  \E n \in T : \A m \in T : n <= m
<1>1. PICK n \in T : \A m \in T : ~(<<m, n>> \in OpToRel(<, Nat))
  BY NatLessThanWellFounded, WFMin, Zenon
<1>2. \A m \in T : ~(m < n)  BY <1>1 DEF OpToRel
<1>3. \A m \in T : n <= m  BY <1>2
<1> QED  BY <1>3

\* The records a flush takes: all the messages in front that belong in the
\* current segment (LaneWriter._consume).
LEMMA FlushFacts ==
    ASSUME batch \in Seq(Message)
    PROVE  /\ FlushLen \in 0..Len(batch)
           /\ \A i \in 1..FlushLen : batch[i].kind = "rec" /\ batch[i].vis < SegEnd(Last(files))
           /\ FlushLen < Len(batch) =>
                ~(batch[FlushLen + 1].kind = "rec" /\ batch[FlushLen + 1].vis < SegEnd(Last(files)))
<1> DEFINE fits(i) == batch[i].kind = "rec" /\ batch[i].vis < SegEnd(Last(files))
           cuts    == {i \in DOMAIN batch : ~fits(i)}
<1>1. FlushLen = IF cuts = {} THEN Len(batch)
                 ELSE (CHOOSE i \in cuts : \A j \in cuts : i <= j) - 1
  BY DEF FlushLen
<1>2. DOMAIN batch = 1..Len(batch) /\ Len(batch) \in Nat  OBVIOUS
<1>3. \A i \in DOMAIN batch : i \notin cuts => fits(i)  OBVIOUS
<1>4. \A i \in cuts : ~fits(i) /\ i \in DOMAIN batch  OBVIOUS
<1> HIDE DEF fits, cuts
<1>5. CASE cuts = {}
  BY <1>1, <1>2, <1>3, <1>5 DEF fits
<1>6. CASE cuts # {}
  <2> DEFINE c == CHOOSE i \in cuts : \A j \in cuts : i <= j
  <2>1. cuts \in SUBSET Nat  BY <1>2, <1>4
  <2>2. c \in cuts /\ \A j \in cuts : c <= j  BY <1>6, <2>1, LeastMember
  <2>3. FlushLen = c - 1  BY <1>1, <1>6
  <2> HIDE DEF c
  <2>4. c \in 1..Len(batch) /\ ~fits(c)  BY <1>2, <1>4, <2>2
  <2>5. \A i \in 1..(c - 1) : i \notin cuts /\ i \in DOMAIN batch  BY <1>2, <2>2, <2>4
  <2> QED  BY <1>2, <1>3, <2>3, <2>4, <2>5 DEF fits
<1> QED  BY <1>5, <1>6

LEMMA Prefix ==
    ASSUME batch \in Seq(Message), NEW n \in 0..FlushLen
    PROVE  /\ SubSeq(batch, 1, n) \in Seq(Record) /\ Len(SubSeq(batch, 1, n)) = n
           /\ \A i \in 1..n : SubSeq(batch, 1, n)[i] = batch[i]
<1>1. FlushLen \in 0..Len(batch) /\ \A i \in 1..FlushLen : batch[i].kind = "rec"
  BY FlushFacts
<1>2. Len(batch) \in Nat /\ \A i \in 1..Len(batch) : batch[i] \in Message  OBVIOUS
<1>3. \A i \in 1..n : batch[i] \in Record
  <2>1. \A m \in Message : m.kind = "rec" => m \in Record  BY DEF Message, Rotation
  <2> QED  BY <1>1, <1>2, <2>1
<1>4. n \in Nat /\ n <= Len(batch)  BY <1>1, <1>2
<1> QED  BY <1>3, <1>4

LEMMA FlushSeqs ==
    ASSUME batch \in Seq(Message)
    PROVE  /\ FlushLen \in 0..Len(batch)
           /\ Flushable \in Seq(Record) /\ Len(Flushable) = FlushLen
           /\ AfterFlush \in Seq(Message) /\ Len(AfterFlush) = Len(batch) - FlushLen
           /\ \A i \in 1..FlushLen : Flushable[i] = batch[i]
           /\ \A i \in DOMAIN AfterFlush : AfterFlush[i] = batch[FlushLen + i]
<1>1. FlushLen \in 0..Len(batch) /\ FlushLen \in 0..FlushLen  BY FlushFacts
<1>2. Flushable = SubSeq(batch, 1, FlushLen)  BY DEF Flushable
<1>3. AfterFlush \in Seq(Message) /\ Len(AfterFlush) = Len(batch) - FlushLen
      /\ \A i \in DOMAIN AfterFlush : AfterFlush[i] = batch[FlushLen + i]
  BY <1>1 DEF AfterFlush
<1> QED  BY <1>1, <1>2, <1>3, Prefix

\* The file a stopped write leaves.
LEMMA InterruptedFacts ==
    ASSUME batch \in Seq(Message), NEW f, Sound(f), NEW g \in Interrupted(f)
    PROVE  /\ Kept(f, g) /\ g.synced = f.synced /\ g.seal = f.seal /\ g.name = f.name
           /\ g.onDisk = f.onDisk
           /\ \/ g = f
              \/ /\ wpc = "consume" /\ cur.handle /\ FlushLen > 0
                 /\ \E n \in 0..FlushLen : g.data = f.data \o SubSeq(batch, 1, n)
<1>1. CASE wpc = "consume" /\ FlushLen > 0 /\ cur.handle /\ ~cur.poisoned
  <2>1. PICK n \in 0..FlushLen, t \in BOOLEAN :
          g = Cut(f, SubSeq(batch, 1, n), t)
    BY <1>1 DEF Interrupted
  <2>2. SubSeq(batch, 1, n) \in Seq(Record)  BY Prefix
  <2>3. PICK s \in Seq(Record) : s = SubSeq(batch, 1, n)  BY <2>2
  <2>4. g = Cut(f, s, t)  BY <2>1, <2>3
  <2>5. /\ Kept(f, g) /\ g.synced = f.synced /\ g.seal = f.seal /\ g.name = f.name
        /\ g.onDisk = f.onDisk /\ g.data = f.data \o s
    BY <2>4, WriteFacts
  <2> QED  BY <1>1, <2>3, <2>5
<1>2. CASE ~(wpc = "consume" /\ FlushLen > 0 /\ cur.handle /\ ~cur.poisoned)
  <2> DEFINE A == {Cut(f, SubSeq(batch, 1, n), torn) : n \in 0..FlushLen, torn \in BOOLEAN}
             C == wpc = "consume" /\ FlushLen > 0 /\ cur.handle /\ ~cur.poisoned
  <2>0. Interrupted(f) = IF C THEN A ELSE {f}  BY DEF Interrupted
  <2> HIDE DEF A
  <2>1. g = f  BY <1>2, <2>0, Zenon
  <2> QED  BY <2>1, KeptSame
<1> QED  BY <1>1, <1>2

\* The files at the moment of a kill or a power loss.
Stopped(fs) ==
    \/ fs = files
    \/ /\ files # <<>>
       /\ \E f \in Interrupted(CurFile) : fs = [files EXCEPT ![Len(files)] = f]

LEMMA StoppedFacts ==
    ASSUME TypeOK, \A i \in DOMAIN files : Sound(files[i]), NEW fs, Stopped(fs)
    PROVE  /\ FilesKept(files, fs) /\ fs \in Seq(File) /\ DOMAIN fs = DOMAIN files
           /\ Len(fs) = Len(files)
           /\ \A i \in DOMAIN files :
                /\ Kept(files[i], fs[i]) /\ fs[i].synced = files[i].synced
                /\ fs[i].onDisk = files[i].onDisk
                /\ fs[i].seal = files[i].seal /\ fs[i].name = files[i].name
                /\ \/ fs[i] = files[i]
                   \/ /\ i = Len(files) /\ wpc = "consume" /\ cur.handle /\ FlushLen > 0
                      /\ \E n \in 0..FlushLen : fs[i].data = files[i].data \o SubSeq(batch, 1, n)
<1>1. files \in Seq(File) /\ batch \in Seq(Message)  BY DEF TypeOK
<1>2. CASE fs = files
  BY <1>1, <1>2, SameFiles, KeptSame
<1>3. ASSUME files # <<>>, NEW f \in Interrupted(CurFile), fs = [files EXCEPT ![Len(files)] = f]
      PROVE  /\ FilesKept(files, fs) /\ fs \in Seq(File) /\ DOMAIN fs = DOMAIN files
             /\ Len(fs) = Len(files) /\ fs[Len(files)] = f /\ Len(files) \in DOMAIN files
             /\ Kept(files[Len(files)], f) /\ f.synced = files[Len(files)].synced
             /\ f.onDisk = files[Len(files)].onDisk
             /\ f.seal = files[Len(files)].seal /\ f.name = files[Len(files)].name
             /\ \/ f = files[Len(files)]
                \/ /\ wpc = "consume" /\ cur.handle /\ FlushLen > 0
                   /\ \E n \in 0..FlushLen :
                        f.data = files[Len(files)].data \o SubSeq(batch, 1, n)
             /\ \A i \in DOMAIN files : i # Len(files) => fs[i] = files[i]
  <2>1. Len(files) \in DOMAIN files  BY <1>1, <1>3
  <2>2. CurFile = files[Len(files)] /\ Sound(CurFile)  BY <2>1 DEF CurFile, Last
  <2>3. /\ Kept(CurFile, f) /\ f.synced = CurFile.synced /\ f.seal = CurFile.seal
        /\ f.name = CurFile.name /\ f.onDisk = CurFile.onDisk
        /\ \/ f = CurFile
           \/ /\ wpc = "consume" /\ cur.handle /\ FlushLen > 0
              /\ \E n \in 0..FlushLen : f.data = CurFile.data \o SubSeq(batch, 1, n)
    BY <1>1, <1>3, <2>2, InterruptedFacts
  <2> HIDE DEF CurFile
  <2> QED  BY <1>1, <1>3, <2>1, <2>2, <2>3, SetFile
<1>4. CASE files # <<>> /\ \E f \in Interrupted(CurFile) : fs = [files EXCEPT ![Len(files)] = f]
  <2>1. PICK f \in Interrupted(CurFile) : fs = [files EXCEPT ![Len(files)] = f]  BY <1>4
  <2>2. \A i \in DOMAIN files : i # Len(files) => fs[i] = files[i] /\ Kept(files[i], fs[i])
    BY <1>3, <1>4, <2>1, KeptSame
  <2>3. /\ FilesKept(files, fs) /\ fs \in Seq(File) /\ DOMAIN fs = DOMAIN files
        /\ Len(fs) = Len(files) /\ fs[Len(files)] = f
    BY <1>3, <1>4, <2>1
  <2>4. LET k == Len(files) IN
        /\ Kept(files[k], fs[k]) /\ fs[k].synced = files[k].synced
        /\ fs[k].onDisk = files[k].onDisk
        /\ fs[k].seal = files[k].seal /\ fs[k].name = files[k].name
        /\ \/ fs[k] = files[k]
           \/ /\ wpc = "consume" /\ cur.handle /\ FlushLen > 0
              /\ \E n \in 0..FlushLen : fs[k].data = files[k].data \o SubSeq(batch, 1, n)
    <3>1. PICK p, q : p = files[Len(files)] /\ q = fs[Len(files)]  OBVIOUS
    <3>2. /\ Kept(p, q) /\ q.synced = p.synced /\ q.onDisk = p.onDisk /\ q.seal = p.seal
          /\ q.name = p.name
      BY <1>3, <1>4, <2>1, <2>3, <3>1
    <3>3. \/ q = p
          \/ /\ wpc = "consume" /\ cur.handle /\ FlushLen > 0
             /\ \E n \in 0..FlushLen : q.data = p.data \o SubSeq(batch, 1, n)
      <4>1. f = q  BY <2>3, <3>1
      <4>2. \/ f = files[Len(files)]
            \/ /\ wpc = "consume" /\ cur.handle /\ FlushLen > 0
               /\ \E n \in 0..FlushLen :
                        f.data = files[Len(files)].data \o SubSeq(batch, 1, n)
        BY <1>3, <1>4, <2>1, Zenon
      <4> QED  BY <3>1, <4>1, <4>2, Zenon
    <3> QED  BY <3>1, <3>2, <3>3
  <2> QED  BY <2>2, <2>3, <2>4
<1> QED  BY <1>2, <1>4 DEF Stopped

\* What a power loss leaves: every file one of its survivors, the newest perhaps
\* gone.  With ordered directory updates a seal keeps its rename.
LossOf(fs, gs) ==
    /\ gs \in Seq(File) /\ Len(gs) <= Len(fs)
    /\ \/ Len(gs) = Len(fs)
       \/ fs # <<>> /\ Len(gs) = Len(fs) - 1 /\ ~fs[Len(fs)].onDisk
    /\ \A i \in DOMAIN gs :
         /\ i \in DOMAIN fs /\ Left(fs[i], gs[i]) /\ (fs[i].sealed => gs[i] = fs[i])
         /\ OrderedDirs /\ IsSealed(gs[i]) => gs[i].name = fs[i].name
         /\ OrderedDirs /\ i < Len(gs) => gs[i].seal = fs[i].seal

LEMMA LossFacts ==
    ASSUME TypeOK, \A i \in DOMAIN files : Sound(files[i]), PowerLoss
    PROVE  \E fs : Stopped(fs) /\ LossOf(fs, files')
<1>1. PICK fs \in (IF files = <<>> THEN {files}
                   ELSE {[files EXCEPT ![Len(files)] = f] : f \in Interrupted(CurFile)}) :
         LET volatile == {i \in DOMAIN fs : ~fs[i].sealed}
             kept     == {g \in [volatile -> UNION {Survivors(fs[i]) : i \in volatile}] :
                            \A i \in volatile : g[i] \in Survivors(fs[i]) /\ Lawful(fs[i], g[i])}
         IN  \E g \in kept :
               LET left == [i \in DOMAIN fs |-> IF i \in volatile THEN g[i] ELSE fs[i]]
               IN  \/ files' = left /\ LawfulBefore(fs, left)
                   \/ /\ fs # <<>> /\ ~Last(fs).onDisk
                      /\ files' = SubSeq(left, 1, Len(left) - 1)
                      /\ LawfulBefore(SubSeq(fs, 1, Len(fs) - 1), files')
  BY Zenon DEF PowerLoss
<1>2. Stopped(fs)
  <2>1. CASE files = <<>>  BY <1>1, <2>1 DEF Stopped
  <2>2. CASE files # <<>>  BY <1>1, <2>2, Zenon DEF Stopped
  <2> QED  BY <2>1, <2>2
<1>3. fs \in Seq(File) /\ \A i \in DOMAIN fs : Sound(fs[i])
  BY <1>2, StoppedFacts DEF FilesKept
<1> DEFINE volatile == {i \in DOMAIN fs : ~fs[i].sealed}
<1>4. PICK g : /\ \A i \in volatile : g[i] \in Survivors(fs[i]) /\ Lawful(fs[i], g[i])
               /\ LET left == [i \in DOMAIN fs |-> IF i \in volatile THEN g[i] ELSE fs[i]]
                  IN  \/ files' = left /\ LawfulBefore(fs, left)
                      \/ /\ fs # <<>> /\ ~Last(fs).onDisk
                         /\ files' = SubSeq(left, 1, Len(left) - 1)
                         /\ LawfulBefore(SubSeq(fs, 1, Len(fs) - 1), files')
  BY <1>1, Zenon
<1> DEFINE left == [i \in DOMAIN fs |-> IF i \in volatile THEN g[i] ELSE fs[i]]
<1>5. DOMAIN fs = 1..Len(fs) /\ Len(fs) \in Nat  BY <1>3
<1>6. \A i \in DOMAIN fs : /\ left[i] \in File /\ Left(fs[i], left[i])
                           /\ fs[i].sealed => left[i] = fs[i]
                           /\ OrderedDirs /\ IsSealed(left[i]) => left[i].name = fs[i].name
  <2> SUFFICES ASSUME NEW i \in DOMAIN fs
               PROVE  /\ left[i] \in File /\ Left(fs[i], left[i])
                      /\ fs[i].sealed => left[i] = fs[i]
                      /\ OrderedDirs /\ IsSealed(left[i]) => left[i].name = fs[i].name
    OBVIOUS
  <2>1. CASE i \in volatile
    <3>1. left[i] = g[i]  BY <2>1
    <3>2. g[i] \in Survivors(fs[i]) /\ Lawful(fs[i], g[i]) /\ ~fs[i].sealed  BY <1>4, <2>1
    <3> HIDE DEF left, volatile
    <3>3. Left(fs[i], g[i])  BY <1>3, <3>2, SurvivorFacts
    <3> QED  BY <3>1, <3>2, <3>3 DEF Lawful, Left, Kept, Sound
  <2>2. CASE i \notin volatile
    <3>1. left[i] = fs[i]  BY <2>2
    <3> HIDE DEF left, volatile
    <3> QED  BY <1>3, <3>1, LeftSame DEF Sound
  <2> QED  BY <2>1, <2>2
<1>7. left \in Seq(File) /\ Len(left) = Len(fs) /\ DOMAIN left = DOMAIN fs
  <2>1. DOMAIN left = DOMAIN fs  OBVIOUS
  <2>2. left \in [1..Len(fs) -> File]  BY <1>5, <1>6
  <2> HIDE DEF left
  <2> QED  BY <1>5, <2>1, <2>2
<1>8. \/ files' = left /\ LawfulBefore(fs, left)
      \/ /\ fs # <<>> /\ ~Last(fs).onDisk
         /\ files' = SubSeq(left, 1, Len(left) - 1)
         /\ LawfulBefore(SubSeq(fs, 1, Len(fs) - 1), files')
  BY <1>4
<1> HIDE DEF left, volatile
<1>9. CASE files' = left /\ LawfulBefore(fs, left)
  <2>1. OrderedDirs => \A i \in 1..(Len(fs) - 1) : left[i].seal = fs[i].seal
    BY <1>9 DEF LawfulBefore
  <2>2. LossOf(fs, left)  BY <1>5, <1>6, <1>7, <2>1 DEF LossOf
  <2> QED  BY <1>2, <1>9, <2>2
<1>10. CASE /\ fs # <<>> /\ ~Last(fs).onDisk
            /\ files' = SubSeq(left, 1, Len(left) - 1)
            /\ LawfulBefore(SubSeq(fs, 1, Len(fs) - 1), files')
  <2> DEFINE gs == SubSeq(left, 1, Len(fs) - 1)
  <2>1. Len(fs) >= 1  BY <1>3, <1>5, <1>10
  <2>2. /\ gs \in Seq(File) /\ Len(gs) = Len(fs) - 1 /\ DOMAIN gs = 1..(Len(fs) - 1)
        /\ \A i \in DOMAIN gs : gs[i] = left[i]
    BY <1>5, <1>7, <2>1
  <2>3. Len(SubSeq(fs, 1, Len(fs) - 1)) = Len(fs) - 1
        /\ \A i \in 1..(Len(fs) - 1) : SubSeq(fs, 1, Len(fs) - 1)[i] = fs[i]
    BY <1>3, <1>5, <2>1
  <2>4. files' = gs  BY <1>7, <1>10
  <2> HIDE DEF gs
  <2>5. OrderedDirs => \A i \in 1..(Len(gs) - 1) : gs[i].seal = fs[i].seal
    <3>1. LawfulBefore(SubSeq(fs, 1, Len(fs) - 1), gs)  BY <1>10, <2>4
    <3>2. OrderedDirs => \A i \in 1..(Len(fs) - 2) :
             gs[i].seal = SubSeq(fs, 1, Len(fs) - 1)[i].seal
      BY <1>5, <2>1, <2>3, <3>1 DEF LawfulBefore
    <3> QED  BY <1>5, <2>1, <2>2, <2>3, <3>2
  <2>6. ~fs[Len(fs)].onDisk  BY <1>10 DEF Last
  <2>7. LossOf(fs, gs)
    <3>1. \A i \in DOMAIN gs :
             /\ i \in DOMAIN fs /\ Left(fs[i], gs[i]) /\ (fs[i].sealed => gs[i] = fs[i])
             /\ OrderedDirs /\ IsSealed(gs[i]) => gs[i].name = fs[i].name
      BY <1>5, <1>6, <2>1, <2>2
    <3>2. \A i \in DOMAIN gs : OrderedDirs /\ i < Len(gs) => gs[i].seal = fs[i].seal
      BY <1>5, <2>1, <2>2, <2>5
    <3>3. Len(gs) <= Len(fs)  BY <1>5, <2>1, <2>2
    <3>4. fs # <<>>  BY <1>10
    <3> QED  BY <2>2, <2>6, <3>1, <3>2, <3>3, <3>4, Zenon DEF LossOf
  <2> QED  BY <1>2, <2>4, <2>7
<1> QED  BY <1>8, <1>9, <1>10

-----------------------------------------------------------------------------
(* Types                                                                   *)

\* What the types give without a look at the columns.
LEMMA TypeFacts ==
    ASSUME TypeOK
    PROVE  /\ files \in Seq(File) /\ \A i \in DOMAIN files : Sound(files[i])
           /\ DOMAIN files = 1..Len(files) /\ Len(files) \in Nat
           /\ batch \in Seq(Message) /\ queue \in Seq(Message) /\ unwritten \in Seq(Record)
           /\ faults \in Nat /\ outages \in Nat /\ next \in Nat \ {0}
<1>1. files \in Seq(File) /\ \A i \in DOMAIN files : files[i] \in File  BY DEF TypeOK
<1> QED  BY <1>1 DEF TypeOK, Sound

LEMMA CurFacts ==
    ASSUME TypeOK, files # <<>>
    PROVE  /\ Len(files) \in DOMAIN files /\ CurFile = files[Len(files)] /\ Sound(CurFile)
           /\ CurFile \in File
<1>1. Len(files) \in DOMAIN files  BY TypeFacts
<1>2. CurFile = files[Len(files)]  BY DEF CurFile, Last
<1> QED  BY <1>1, <1>2, TypeFacts DEF Sound

\* The thread works on a segment that is there.
LEMMA LiveFacts ==
    ASSUME TypeOK, ThreadInv, WriterInv
    PROVE  /\ Live => files # <<>>
           /\ wpc \in {"consume", "rename", "reseal", "dead"} => Live
           /\ wpc \in {"publish", "finish"} /\ phase # "recovering" => Live
           /\ phase \in {"running", "stopping", "shutdown", "closing"} => Live
           /\ Live => phase \notin {"down", "closed", "recovering"}
BY DEF TypeOK, ThreadInv, WriterInv, Live, Phases

\* A seal or a time of a record is a number.
LEMMA RecFacts ==
    /\ \A m \in Message : m.kind = "rec" => m \in Record
    /\ \A m \in Message : m.kind = "rotate" => m \in Rotation /\ m.start \in Nat
    /\ \A m \in Message : m.kind \in {"rec", "rotate"}
    /\ \A m \in Record : m \in Message /\ m.kind = "rec" /\ m.idx \in Nat \ {0} /\ m.vis \in Nat
    /\ \A m \in Rotation : m \in Message /\ m.kind = "rotate"
    /\ NoRec \notin Record
BY DEF Message, Record, Rotation, NoRec

LEMMA WindowFacts == ASSUME NEW t \in Nat PROVE WindowStart(t) \in Nat
BY BoundsAssumption DEF WindowStart

LEMMA ArmedFacts ==
    ASSUME NEW w \in Nat, NEW m \in Nat
    PROVE  ArmedTimer(w, m) \in [start : Nat, due : Int]
<1>1. WindowStart(w) + Period \in Nat  BY WindowFacts, BoundsAssumption
<1> QED  BY <1>1 DEF ArmedTimer

\* The record the producer builds.
LEMMA RecType == ASSUME TypeOK PROVE Rec \in Record /\ Rec \in Message /\ Rec.kind = "rec" /\ Rec.idx = next
<1>1. next \in Nat \ {0} /\ now \in Nat /\ run \in Nat  BY DEF TypeOK
<1>2. Rec \in Record /\ Rec.idx = next  BY <1>1 DEF Rec, Record
<1> QED  BY <1>2, RecFacts

LEMMA CurTypes == NewCur \in SegmentWriter /\ NoCur \in SegmentWriter
BY DEF NewCur, NoCur, SegmentWriter

LEMMA WriterFacts ==
    ASSUME TypeOK
    PROVE  /\ cur.handle \in BOOLEAN /\ cur.dirty \in BOOLEAN /\ cur.poisoned \in BOOLEAN
           /\ cur.done \in BOOLEAN /\ cur.committed \in Nat /\ cur \in SegmentWriter
BY DEF TypeOK, SegmentWriter

\* The types of everything but the files.
RestOK ==
    /\ now \in 0..MaxTime /\ back \in 0..MaxBackSteps
    /\ phase \in Phases /\ wpc \in Steps /\ run \in 0..MaxRuns
    /\ tail \in Seq({"emit", "sync"}) /\ timer \in [start : Nat, due : Int]
    /\ next \in Nat \ {0} /\ pending \in Record \cup {NoRec}
    /\ queue \in Seq(Message) /\ Len(queue) <= Capacity
    /\ batch \in Seq(Message) /\ unwritten \in Seq(Record)
    /\ target \in Nat \cup {NoTarget} /\ prevVis \in Nat \cup {NoVis}
    /\ fatal \in BOOLEAN /\ drained \in BOOLEAN /\ cur \in SegmentWriter
    /\ frames \in Nat /\ kills \in Nat /\ outages \in Nat /\ faults \in Nat

LEMMA TypeFromParts ==
    ASSUME RestOK', FilesKept(files, files')
    PROVE  TypeOK'
<1>1. /\ files' \in Seq(File)
      /\ \A i \in DOMAIN files' : /\ files'[i].synced <= Len(files'[i].data)
                                  /\ files'[i].synced > 0 => files'[i].onDisk
  BY DEF FilesKept, Sound
<1> QED  BY <1>1 DEF TypeOK, RestOK

LEMMA RestFacts == ASSUME TypeOK PROVE RestOK
BY DEF TypeOK, RestOK

LEMMA ForgetRest ==
    ASSUME RestOK, Forget, phase' \in Phases, UNCHANGED <<now, back>>, run' \in 0..MaxRuns,
           frames' \in Nat, kills' \in Nat, outages' \in Nat, faults' \in Nat
    PROVE  RestOK'
<1>1. 0 <= Capacity  BY BoundsAssumption
<1>2. [start |-> 0, due |-> 0] \in [start : Nat, due : Int]  OBVIOUS
<1>3. /\ tail' \in Seq({"emit", "sync"}) /\ queue' \in Seq(Message) /\ Len(queue') = 0
      /\ batch' \in Seq(Message) /\ unwritten' \in Seq(Record)
  BY DEF Forget
<1>4. /\ pending' = NoRec /\ next' = 1 /\ timer' = [start |-> 0, due |-> 0] /\ wpc' = "idle"
      /\ drained' = FALSE /\ target' = NoTarget /\ fatal' = FALSE /\ cur' = NoCur
      /\ prevVis' = NoVis
  BY DEF Forget
<1>5. fatal' \in BOOLEAN /\ drained' \in BOOLEAN /\ cur' \in SegmentWriter
      /\ pending' \in Record \cup {NoRec} /\ timer' \in [start : Nat, due : Int]
      /\ target' \in Nat \cup {NoTarget} /\ prevVis' \in Nat \cup {NoVis}
  BY <1>2, <1>4, CurTypes, Zenon
<1>6. next' \in Nat \ {0} /\ Len(queue') <= Capacity /\ wpc' \in Steps
  BY <1>1, <1>3, <1>4 DEF Steps
<1>7. now' \in 0..MaxTime /\ back' \in 0..MaxBackSteps  BY DEF RestOK
<1> QED  BY <1>3, <1>5, <1>6, <1>7 DEF RestOK

LEMMA RaiseRest ==
    ASSUME RestOK, NEW r \in Seq(Record), Raise(r), phase # "closing" => cur' \in SegmentWriter,
           UNCHANGED <<now, back, run, frames, kills, outages>>, faults' \in Nat
    PROVE  RestOK'
<1>1. CASE phase = "closing"
  <2>1. Forget /\ phase' = "down"  BY <1>1 DEF Raise
  <2> QED  BY <2>1, ForgetRest DEF RestOK, Phases
<1>2. CASE phase # "closing"
  <2>1. /\ wpc' = "dead" /\ batch' = <<>> /\ unwritten' = unwritten \o r
        /\ UNCHANGED <<phase, tail, next, pending, queue, timer, drained, target, prevVis>>
    BY <1>2 DEF Raise
  <2>2. fatal' \in BOOLEAN
    <3>1. fatal' = (fatal \/ r # <<>>)  BY <1>2 DEF Raise
    <3> QED  BY <3>1, Zenon
  <2>3. batch' \in Seq(Message) /\ unwritten' \in Seq(Record)  BY <2>1 DEF RestOK
  <2> QED  BY <1>2, <2>1, <2>2, <2>3 DEF RestOK, Steps
<1> QED  BY <1>1, <1>2

\* One more message in a queue that is not full.
LEMMA PutFacts ==
    ASSUME RestOK, ~Full, NEW m \in Message, queue' = Append(queue, m)
    PROVE  queue' \in Seq(Message) /\ Len(queue') <= Capacity /\ Len(queue') = Len(queue) + 1
           /\ queue'[Len(queue) + 1] = m /\ \A i \in 1..Len(queue) : queue'[i] = queue[i]
<1>1. queue \in Seq(Message) /\ Capacity \in Nat  BY BoundsAssumption DEF RestOK
<1>2. Len(queue) < Capacity  BY <1>1 DEF Full
<1> QED  BY <1>1, <1>2

LEMMA TailFacts ==
    /\ <<>> \in Seq({"emit", "sync"}) /\ <<"emit", "sync", "emit">> \in Seq({"emit", "sync"})
    /\ \A s \in Seq({"emit", "sync"}) : s # <<>> => Tail(s) \in Seq({"emit", "sync"})
OBVIOUS

\* What each step of the event loop does to the queue and to the index.
Idle  == UNCHANGED <<pending, queue, next>>
Hold  == pending' = Rec /\ UNCHANGED <<queue, next>>
Take  == ~Full /\ queue' = Append(queue, Rec) /\ next' = next + 1 /\ UNCHANGED pending
Wake  == /\ ~Full /\ pending # NoRec /\ queue' = Append(queue, pending) /\ pending' = NoRec
         /\ next' = (IF fatal THEN next ELSE next + 1)

LEMMA EmitShape ==
    ASSUME EmitFrame
    PROVE  /\ \/ Idle /\ phase' = "stopping" /\ tail' = <<>>
              \/ Hold /\ UNCHANGED <<phase, tail>>
              \/ Take /\ UNCHANGED <<phase, tail>>
           /\ phase = "running" /\ pending = NoRec /\ frames' = frames + 1
           /\ UNCHANGED <<now, back, run, timer, memVars, files, kills, outages, faults>>
<1>1. \/ Idle /\ phase' = "stopping" /\ tail' = <<>>
      \/ Hold /\ UNCHANGED <<phase, tail>>
      \/ Take /\ UNCHANGED <<phase, tail>>
  BY Zenon DEF EmitFrame, EmitRecord, Idle, Hold, Take
<1> QED  BY <1>1, Zenon DEF EmitFrame

LEMMA PutShape ==
    ASSUME PutCompletes
    PROVE  /\ Wake /\ phase \in {"running", "stopping"}
           /\ \/ phase' = "stopping" /\ tail' = <<>>
              \/ UNCHANGED <<phase, tail>>
           /\ UNCHANGED <<now, back, run, timer, memVars, files, bounds>>
<1>1. next' = (IF fatal THEN next ELSE next + 1)  BY Zenon DEF PutCompletes
<1>2. \/ phase' = "stopping" /\ tail' = <<>>
      \/ UNCHANGED <<phase, tail>>
  BY Zenon DEF PutCompletes
<1> QED  BY <1>1, <1>2 DEF PutCompletes, Wake

LEMMA ClosingShape ==
    ASSUME EmitClosing
    PROVE  /\ \/ Idle /\ tail' = <<>>
              \/ Hold /\ tail' = Tail(tail)
              \/ Take /\ tail' = Tail(tail)
           /\ phase = "stopping" /\ pending = NoRec /\ tail # <<>>
           /\ UNCHANGED <<now, back, phase, run, timer, memVars, files, bounds>>
<1>1. \/ Idle /\ tail' = <<>>
      \/ Hold /\ tail' = Tail(tail)
      \/ Take /\ tail' = Tail(tail)
  BY Zenon DEF EmitClosing, Idle, Hold, Take
<1> QED  BY <1>1 DEF EmitClosing

LEMMA DrainShape ==
    ASSUME RestOK, DrainTake
    PROVE  /\ \E n \in 1..Len(queue) :
                /\ batch' = SubSeq(queue, 1, n) /\ drained' = (n = Len(queue))
                /\ queue' = SubSeq(queue, n + 1, Len(queue))
           /\ phase \in {"running", "stopping"} /\ wpc = "idle" /\ wpc' = "consume"
           /\ UNCHANGED <<now, back, phase, tail, run, next, pending, timer, target,
                          unwritten, fatal, cur, prevVis, files, bounds>>
<1> DEFINE n == IF Len(queue) < WriterBatch THEN Len(queue) ELSE WriterBatch
<1>1. n \in 1..Len(queue)
  <2>1. queue \in Seq(Message) /\ queue # <<>>  BY DEF RestOK, DrainTake
  <2>2. Len(queue) \in Nat \ {0}  BY <2>1
  <2> QED  BY <2>2, BoundsAssumption
<1>2. /\ batch' = SubSeq(queue, 1, n) /\ queue' = SubSeq(queue, n + 1, Len(queue))
      /\ drained' = (n = Len(queue))
  BY Zenon DEF DrainTake
<1> HIDE DEF n
<1>3. \E k \in 1..Len(queue) :
         /\ batch' = SubSeq(queue, 1, k) /\ drained' = (k = Len(queue))
         /\ queue' = SubSeq(queue, k + 1, Len(queue))
  BY <1>1, <1>2, Zenon
<1> QED  BY <1>3, Zenon DEF DrainTake

\* The event loop keeps the types.
LEMMA LoopRest ==
    ASSUME TypeOK, Loop
    PROVE  RestOK'
<1> USE RestFacts DEF procVars, memVars, bounds
<1>0. Rec \in Record /\ Rec \in Message /\ next \in Nat \ {0} /\ RestOK
  BY RecType DEF RestOK
<1>a. ASSUME Idle \/ Hold \/ Take \/ Wake
      PROVE  /\ pending' \in Record \cup {NoRec} /\ queue' \in Seq(Message)
             /\ Len(queue') <= Capacity /\ next' \in Nat \ {0}
  <2>1. CASE Idle  BY <2>1 DEF Idle, RestOK
  <2>2. CASE Hold  BY <1>0, <2>2 DEF Hold, RestOK
  <2>3. CASE Take
    <3>1. queue' \in Seq(Message) /\ Len(queue') <= Capacity
      BY <1>0, <2>3, PutFacts DEF Take
    <3> QED  BY <1>0, <2>3, <3>1 DEF Take, RestOK
  <2>4. CASE Wake
    <3>1. pending \in Record /\ pending \in Message
      BY <2>4, RecFacts DEF Wake, RestOK
    <3>2. queue' \in Seq(Message) /\ Len(queue') <= Capacity
      BY <1>0, <2>4, <3>1, PutFacts DEF Wake
    <3>3. next' \in Nat \ {0}
      <4>1. next' = next \/ next' = next + 1  BY <2>4, Zenon DEF Wake
      <4> QED  BY <1>0, <4>1
    <3> QED  BY <2>4, <3>2, <3>3 DEF Wake
  <2> QED  BY <1>a, <2>1, <2>2, <2>3, <2>4
<1>1. ASSUME EmitFrame PROVE RestOK'
  <2>1. UNCHANGED <<now, back, run, timer, memVars, kills, outages, faults>> /\ frames' \in Nat
    BY <1>1, EmitShape DEF RestOK
  <2>2. phase' \in Phases /\ tail' \in Seq({"emit", "sync"})
    BY <1>1, EmitShape, TailFacts DEF RestOK, Phases
  <2>3. Idle \/ Hold \/ Take  BY <1>1, EmitShape
  <2> QED  BY <1>0, <1>a, <2>1, <2>2, <2>3 DEF RestOK
<1>2. ASSUME PutCompletes PROVE RestOK'
  <2>1. UNCHANGED <<now, back, run, timer, memVars, bounds>> /\ Wake
    BY <1>2, PutShape
  <2>2. phase' \in Phases /\ tail' \in Seq({"emit", "sync"})
    BY <1>2, PutShape, TailFacts DEF RestOK, Phases
  <2> QED  BY <1>0, <1>a, <2>1, <2>2 DEF RestOK
<1>3. ASSUME RotateTimer PROVE RestOK'
  <2>1. UNCHANGED <<now, back, phase, tail, run, next, pending, memVars, bounds>>
    BY <1>3 DEF RotateTimer
  <2>2. [kind |-> "rotate", start |-> timer.start] \in Message
    BY DEF RestOK, Rotation, Message
  <2>3. queue' \in Seq(Message) /\ Len(queue') <= Capacity
    BY <1>0, <1>3, <2>2, PutFacts DEF RotateTimer
  <2>4. timer' \in [start : Nat, due : Int]
    <3>1. now \in Nat /\ now + back \in Nat  BY DEF RestOK
    <3>2. timer' = ArmedTimer(now, now + back)  BY <1>3 DEF RotateTimer
    <3> QED  BY <3>1, <3>2, ArmedFacts
  <2> QED  BY <1>0, <2>1, <2>3, <2>4 DEF RestOK
<1>4. ASSUME DrainTake PROVE RestOK'
  <2>1. UNCHANGED <<now, back, phase, tail, run, next, pending, timer, target,
                    unwritten, fatal, cur, prevVis, bounds>> /\ wpc' = "consume"
    BY <1>4 DEF DrainTake
  <2>2. PICK n \in 1..Len(queue) : batch' = SubSeq(queue, 1, n) /\ drained' = (n = Len(queue))
                                   /\ queue' = SubSeq(queue, n + 1, Len(queue))
    BY <1>0, <1>4, DrainShape
  <2>3. queue \in Seq(Message) /\ Len(queue) <= Capacity /\ Capacity \in Nat
    BY BoundsAssumption DEF RestOK
  <2>4. batch' \in Seq(Message) /\ queue' \in Seq(Message) /\ Len(queue') <= Capacity
    BY <2>2, <2>3
  <2>5. drained' \in BOOLEAN  BY <2>2, Zenon
  <2> QED  BY <1>0, <2>1, <2>4, <2>5 DEF RestOK, Steps
<1>5. ASSUME CancelCapture PROVE RestOK'
  <2>1. UNCHANGED <<now, back, run, next, queue, timer, memVars, bounds>>
        /\ phase' \in Phases /\ pending' = NoRec
    BY <1>5 DEF CancelCapture, Phases
  <2>2. tail' \in Seq({"emit", "sync"})  BY <1>5, TailFacts DEF CancelCapture
  <2> QED  BY <1>0, <2>1, <2>2 DEF RestOK
<1>6. ASSUME EmitClosing PROVE RestOK'
  <2>1. UNCHANGED <<now, back, phase, run, timer, memVars, bounds>>
        /\ (Idle \/ Hold \/ Take)
    BY <1>6, ClosingShape
  <2>2. tail' \in Seq({"emit", "sync"})
    BY <1>6, ClosingShape, TailFacts DEF RestOK
  <2> QED  BY <1>0, <1>a, <2>1, <2>2 DEF RestOK
<1>7. ASSUME SpoolSync PROVE RestOK'
  <2>1. UNCHANGED <<now, back, phase, run, next, pending, queue, timer, wpc, batch, drained,
                    target, unwritten, fatal, prevVis, bounds>>
    BY <1>7 DEF SpoolSync
  <2>2. tail' \in Seq({"emit", "sync"})
    BY <1>7, TailFacts DEF SpoolSync, RestOK
  <2>3. cur' = cur \/ cur' = [cur EXCEPT !.dirty = FALSE]  BY <1>7 DEF SpoolSync
  <2>4. cur' \in SegmentWriter  BY <2>3, WriterFacts, Zenon DEF SegmentWriter
  <2> QED  BY <1>0, <2>1, <2>2, <2>4 DEF RestOK
<1>8. ASSUME CloseStart PROVE RestOK'
  BY <1>0, <1>8 DEF CloseStart, RestOK, Phases
<1>9. ASSUME CloseDrain PROVE RestOK'
  <2>1. UNCHANGED <<now, back, tail, run, next, pending, timer, target, fatal, cur, prevVis, bounds>>
        /\ phase' \in Phases /\ wpc' \in Steps /\ drained' = FALSE
    BY <1>9 DEF CloseDrain, Phases, Steps
  <2>2. batch' = unwritten \o queue /\ queue' = <<>> /\ unwritten' = <<>>
    BY <1>9 DEF CloseDrain, Remaining
  <2>3. unwritten \in Seq(Message)  BY RecFacts DEF RestOK
  <2>4. batch' \in Seq(Message) /\ queue' \in Seq(Message) /\ unwritten' \in Seq(Record)
        /\ Len(queue') <= Capacity
    BY <2>2, <2>3, BoundsAssumption DEF RestOK
  <2> QED  BY <1>0, <2>1, <2>4 DEF RestOK
<1> QED  BY <1>1, <1>2, <1>3, <1>4, <1>5, <1>6, <1>7, <1>8, <1>9
         DEF Loop, StopCapture, WriterFailureSeen

\* The writer thread keeps the types.
LEMMA WriterRest ==
    ASSUME TypeOK, ThreadInv, WriterInv, Writer
    PROVE  RestOK'
<1> USE DEF threadVars, procVars, memVars, bounds
<1>0. RestOK /\ FlushLen \in Nat /\ Flushable \in Seq(Record) /\ AfterFlush \in Seq(Message)
      /\ <<>> \in Seq(Record)
  BY RestFacts, TypeFacts, FlushSeqs
<1>a. faults \in Nat /\ \A k : Fault(k) => faults' \in Nat  BY <1>0 DEF RestOK, Fault
<1>b. /\ \A b \in BOOLEAN : [cur EXCEPT !.handle = b] \in SegmentWriter
      /\ \A b \in BOOLEAN : [cur EXCEPT !.dirty = b] \in SegmentWriter
      /\ \A b \in BOOLEAN : [cur EXCEPT !.poisoned = b] \in SegmentWriter
      /\ \A b \in BOOLEAN : [cur EXCEPT !.done = b] \in SegmentWriter
      /\ \A b \in BOOLEAN, n \in Nat : [cur EXCEPT !.committed = n, !.dirty = b] \in SegmentWriter
      /\ cur \in SegmentWriter
  BY WriterFacts, Zenon DEF SegmentWriter
<1>c. cur.committed + FlushLen \in Nat  BY <1>0, WriterFacts
<1>d. TRUE \in BOOLEAN /\ FALSE \in BOOLEAN  OBVIOUS
<1>1. ASSUME WriteBatch PROVE RestOK'
  <2>1. UNCHANGED <<threadVars, phase, wpc, drained, target, unwritten, fatal, prevVis, bounds>>
        /\ batch' = AfterFlush
    BY <1>1 DEF WriteBatch
  <2>2. PICK due \in BOOLEAN : cur' = [cur EXCEPT !.committed = cur.committed + FlushLen, !.dirty = ~due]
    BY <1>1 DEF WriteBatch
  <2>3. (~due) \in BOOLEAN  BY Zenon
  <2>4. cur' \in SegmentWriter  BY <1>b, <1>c, <2>2, <2>3, Zenon
  <2> QED  BY <1>0, <2>1, <2>4 DEF RestOK
<1>2. ASSUME WriteFails PROVE RestOK'
  <2>1. Raise(Flushable) /\ UNCHANGED <<now, back, run, frames, kills, outages>>
        /\ (Fault("write") \/ Fault("rollback"))
    BY <1>2 DEF WriteFails
  <2>2. phase # "closing" => cur' = cur \/ cur' = [cur EXCEPT !.poisoned = TRUE]
    BY <1>2 DEF WriteFails
  <2>3. phase # "closing" => cur' \in SegmentWriter  BY <1>b, <1>d, <2>2, Zenon
  <2> QED  BY <1>0, <1>a, <2>1, <2>3, RaiseRest
<1>3. ASSUME FsyncFails PROVE RestOK'
  <2>1. Raise(Flushable) /\ UNCHANGED <<now, back, run, frames, kills, outages>> /\ Fault("fsync")
    BY <1>3 DEF FsyncFails
  <2>2. phase # "closing" => cur' = [cur EXCEPT !.committed = cur.committed + FlushLen, !.dirty = TRUE]
    BY <1>3 DEF FsyncFails
  <2>3. phase # "closing" => cur' \in SegmentWriter  BY <1>b, <1>c, <1>d, <2>2, Zenon
  <2> QED  BY <1>0, <1>a, <2>1, <2>3, RaiseRest
<1>4. ASSUME WriteRefused PROVE RestOK'
  <2>1. Raise(Flushable) /\ UNCHANGED <<now, back, run, bounds>>
        /\ (phase # "closing" => cur' = cur)
    BY <1>4 DEF WriteRefused
  <2>2. faults' \in Nat /\ (phase # "closing" => cur' \in SegmentWriter)  BY <1>a, <1>b, <2>1
  <2> QED  BY <1>0, <2>1, <2>2, RaiseRest
<1>5. ASSUME BatchDone PROVE RestOK'
  <2>1. UNCHANGED <<threadVars, phase, drained, target, prevVis, frames, kills, outages, batch,
                    unwritten, fatal>> /\ wpc' \in {"idle", "dead"}
        /\ (cur' = cur \/ cur' = [cur EXCEPT !.dirty = FALSE])
        /\ (faults' = faults \/ Fault("force"))
    BY <1>5, Zenon DEF BatchDone, NoFault
  <2>2. cur' \in SegmentWriter  BY <1>b, <1>d, <2>1, Zenon
  <2>3. faults' \in Nat  BY <1>a, <2>1
  <2>4. wpc' \in Steps  BY <2>1 DEF Steps
  <2> QED  BY <1>0, <2>1, <2>2, <2>3, <2>4 DEF RestOK
<1>6. ASSUME SealStart PROVE RestOK'
  <2>1. UNCHANGED <<threadVars, phase, drained, unwritten, fatal, prevVis, bounds>>
        /\ cur' = [cur EXCEPT !.handle = FALSE] /\ wpc' \in {"rename", "finish", "reseal"}
    BY <1>6, Zenon DEF SealStart
  <2>2. cur' \in SegmentWriter  BY <1>b, <1>d, <2>1, Zenon
  <2>3. batch' \in Seq(Message)
    <3>1. batch' = batch \/ (batch # <<>> /\ batch' = Tail(batch))
      BY <1>6, Zenon DEF SealStart, AtBoundary
    <3>2. batch \in Seq(Message)  BY <1>0 DEF RestOK
    <3>3. batch # <<>> => Tail(batch) \in Seq(Message)  BY <3>2
    <3> QED  BY <3>1, <3>2, <3>3
  <2>4. target' \in Nat \cup {NoTarget}
    <3>1. CASE AtBoundary
      <4>1. batch # <<>> /\ batch \in Seq(Message)  BY <1>0, <3>1 DEF AtBoundary, RestOK
      <4>2. Head(batch) \in Message  BY <4>1
      <4>3. target' = BoundaryTarget  BY <1>6, <3>1 DEF SealStart
      <4>4. BoundaryTarget \in Nat
        <5>1. CASE Head(batch).kind = "rotate"  BY <4>2, <5>1, RecFacts DEF BoundaryTarget
        <5>2. CASE Head(batch).kind # "rotate"
          <6>1. Head(batch).vis \in Nat  BY <4>2, <5>2, RecFacts
          <6> QED  BY <5>2, <6>1, WindowFacts DEF BoundaryTarget
        <5> QED  BY <5>1, <5>2
      <4> QED  BY <4>3, <4>4
    <3>2. CASE ~AtBoundary  BY <1>6, <3>2 DEF SealStart
    <3> QED  BY <3>1, <3>2
  <2>5. wpc' \in Steps  BY <2>1 DEF Steps
  <2> QED  BY <1>0, <2>1, <2>2, <2>3, <2>4, <2>5 DEF RestOK
<1>7. ASSUME SealFsyncFails PROVE RestOK'
  <2>1. Raise(<<>>) /\ UNCHANGED <<now, back, run, frames, kills, outages>> /\ Fault("seal_fsync")
        /\ (phase # "closing" => cur' = [cur EXCEPT !.handle = FALSE])
    BY <1>7 DEF SealFsyncFails
  <2>2. phase # "closing" => cur' \in SegmentWriter  BY <1>b, <1>d, <2>1, Zenon
  <2> QED  BY <1>0, <1>a, <2>1, <2>2, RaiseRest
<1>8. ASSUME SealRename PROVE RestOK'
  <2>1. CASE wpc' = "publish" /\ NoFault /\
             UNCHANGED <<phase, tail, next, pending, queue, timer, batch, drained, target,
                         unwritten, fatal, cur, prevVis>>
    BY <1>0, <1>8, <2>1 DEF SealRename, NoFault, RestOK, Steps
  <2>2. CASE Fault("rename") /\ Raise(<<>>) /\ (phase # "closing" => cur' = cur)
    <3>1. UNCHANGED <<now, back, run, frames, kills, outages>>  BY <1>8 DEF SealRename
    <3> QED  BY <1>0, <1>a, <1>b, <2>2, <3>1, RaiseRest
  <2> QED  BY <1>8, <2>1, <2>2 DEF SealRename
<1>9. ASSUME SealPublish PROVE RestOK'
  <2>1. CASE wpc' = "finish" /\ NoFault /\
             UNCHANGED <<phase, tail, next, pending, queue, timer, batch, drained, target,
                         unwritten, fatal, cur, prevVis>>
    BY <1>0, <1>9, <2>1 DEF SealPublish, NoFault, RestOK, Steps
  <2>2. CASE Fault("seal_write") /\ Raise(<<>>) /\ (phase # "closing" => cur' = cur)
    <3>1. UNCHANGED <<now, back, run, frames, kills, outages>>  BY <1>9 DEF SealPublish
    <3> QED  BY <1>0, <1>a, <1>b, <2>2, <3>1, RaiseRest
  <2> QED  BY <1>9, <2>1, <2>2 DEF SealPublish
<1>10. ASSUME SealFinish PROVE RestOK'
  <2>0. UNCHANGED <<now, back, run, frames, kills, outages>>  BY <1>10 DEF SealFinish
  <2>1. CASE /\ phase' = "closed" /\ wpc' = "idle" /\ cur' = [cur EXCEPT !.done = TRUE] /\ NoFault
             /\ UNCHANGED <<tail, next, pending, queue, timer, batch, drained, target,
                            unwritten, fatal, prevVis>>
    <3>1. cur' \in SegmentWriter  BY <1>b, <1>d, <2>1, Zenon
    <3> QED  BY <1>0, <2>0, <2>1, <3>1 DEF NoFault, RestOK, Steps, Phases
  <2>2. CASE /\ cur' = NewCur /\ wpc' = "consume" /\ NoFault
             /\ prevVis' = CarriedVisible /\ target' = NoTarget
             /\ UNCHANGED <<phase, tail, next, pending, queue, timer, batch, drained,
                            unwritten, fatal>>
    <3>1. CarriedVisible \in Nat \cup {NoVis}
      <4>1. Live /\ files # <<>> /\ ~cur.poisoned
        <5>1. wpc = "finish" /\ phase # "recovering"  BY <1>10 DEF SealFinish
        <5>2. Live /\ files # <<>>  BY <5>1, LiveFacts
        <5>3. ~cur.poisoned  BY <5>1, <5>2 DEF WriterInv
        <5> QED  BY <5>2, <5>3
      <4>2. cur.committed = Len(CurFile.data)  BY <4>1 DEF WriterInv
      <4>3. CurFile.data \in Seq(Record)  BY <4>1, CurFacts, FileFacts
      <4>4. PICK d \in Seq(Record) : d = CurFile.data  BY <4>3
      <4>5. Len(d) # 0 => d[Len(d)].vis \in Nat
        <5>1. Len(d) # 0 => d[Len(d)] \in Record  BY <4>4
        <5> QED  BY <5>1, RecFacts
      <4> QED  BY <1>0, <4>2, <4>4, <4>5 DEF CarriedVisible, RestOK
    <3> QED  BY <1>0, <2>0, <2>2, <3>1, CurTypes DEF NoFault, RestOK, Steps
  <2>3. CASE Fault("open") /\ Raise(<<>>) /\ (phase # "closing" => cur' = [cur EXCEPT !.done = TRUE])
    <3>1. phase # "closing" => cur' \in SegmentWriter  BY <1>b, <1>d, <2>3, Zenon
    <3> QED  BY <1>0, <1>a, <2>0, <2>3, <3>1, RaiseRest
  <2> QED  BY <1>10, <2>1, <2>2, <2>3, Zenon DEF SealFinish
<1> QED  BY <1>1, <1>2, <1>3, <1>4, <1>5, <1>6, <1>7, <1>8, <1>9, <1>10 DEF Writer

\* Among finitely many files there is one with the highest last index.
LEMMA BestFacts ==
    ASSUME TypeOK, Counted # {}
    PROVE  /\ BestOf(Counted) \in Counted
           /\ \A j \in Counted : Last(files[BestOf(Counted)].data).idx >= Last(files[j].data).idx
<1> DEFINE v(i) == Last(files[i].data).idx
           S(n) == {i \in Counted : i <= n}
           Top(n) == \E i \in S(n) : \A j \in S(n) : v(i) >= v(j)
           Bad == {n \in 0..Len(files) : S(n) # {} /\ ~Top(n)}
<1>1. \A i \in Counted : i \in 1..Len(files) /\ v(i) \in Nat
  <2> SUFFICES ASSUME NEW i \in Counted PROVE i \in 1..Len(files) /\ v(i) \in Nat
    OBVIOUS
  <2>1. i \in DOMAIN files /\ files[i].data # <<>>  BY DEF Counted
  <2>2. files[i].data \in Seq(Record)  BY <2>1, TypeFacts, FileFacts DEF Sound
  <2>3. PICK d \in Seq(Record) : d = files[i].data  BY <2>2
  <2>4. d[Len(d)] \in Record  BY <2>1, <2>3
  <2> QED  BY <2>1, <2>3, <2>4, TypeFacts, RecFacts DEF Last
<1>2. Len(files) \in Nat  BY TypeFacts
<1> HIDE DEF v
<1>3. Bad = {}
  <2> SUFFICES ASSUME Bad # {} PROVE FALSE
    OBVIOUS
  <2>1. PICK n \in Bad : \A m \in Bad : n <= m
    <3>1. Bad \in SUBSET Nat  BY <1>2
    <3> HIDE DEF Bad
    <3> QED  BY <3>1, LeastMember
  <2>2. n \in 0..Len(files) /\ S(n) # {} /\ ~Top(n)  OBVIOUS
  <2>3. n # 0  BY <1>1, <1>2, <2>2
  <2>4. n - 1 \in 0..Len(files) /\ n - 1 \notin Bad  BY <1>2, <2>1, <2>2, <2>3
  <2>5. S(n - 1) = {} \/ Top(n - 1)  BY <2>4
  <2>6. \A i \in S(n) : i \in S(n - 1) \/ i = n  BY <1>1, <1>2, <2>2
  <2>7. \A i \in S(n - 1) : i \in S(n)  BY <1>1, <1>2, <2>2
  <2>8. \A i \in S(n) : v(i) \in Nat  BY <1>1
  <2> HIDE DEF S, Bad
  <2>9. CASE S(n - 1) = {}
    <3>1. n \in S(n) /\ \A j \in S(n) : j = n  BY <2>2, <2>6, <2>9
    <3> QED  BY <2>2, <2>8, <3>1
  <2>10. CASE Top(n - 1)
    <3>1. PICK i \in S(n - 1) : \A j \in S(n - 1) : v(i) >= v(j)  BY <2>10
    <3>2. CASE n \in S(n) /\ v(n) > v(i)
      <4>1. \A j \in S(n) : v(n) >= v(j)  BY <2>6, <2>7, <2>8, <3>1, <3>2
      <4> QED  BY <2>2, <3>2, <4>1
    <3>3. CASE ~(n \in S(n) /\ v(n) > v(i))
      <4>1. \A j \in S(n) : v(i) >= v(j)  BY <2>6, <2>7, <2>8, <3>1, <3>3
      <4> QED  BY <2>2, <2>7, <3>1, <4>1
    <3> QED  BY <3>2, <3>3
  <2> QED  BY <2>5, <2>9, <2>10
<1>4. S(Len(files)) = Counted  BY <1>1, <1>2
<1>5. Top(Len(files))  BY <1>2, <1>3, <1>4
<1>6. \E i \in Counted : \A j \in Counted : v(i) >= v(j)
  <2> HIDE DEF S
  <2> QED  BY <1>4, <1>5
<1> QED  BY <1>6 DEF v, BestOf

\* The index and the receive time a restarted splice resumes from.
LEMMA ResumeFacts ==
    ASSUME TypeOK
    PROVE  ResumeIndex \in Nat \ {0} /\ ResumeVisible \in Nat \cup {NoVis}
<1>1. CASE Counted = {}  BY <1>1 DEF ResumeIndex, ResumeVisible
<1>2. CASE Counted # {}
  <2>1. BestOf(Counted) \in Counted  BY <1>2, BestFacts
  <2>2. PICK i \in Counted : i = BestOf(Counted)  BY <2>1
  <2>3. i \in DOMAIN files /\ files[i].data # <<>>  BY DEF Counted
  <2>4. files[i].data \in Seq(Record)  BY <2>3, TypeFacts, FileFacts DEF Sound
  <2>5. PICK d \in Seq(Record) : d = files[i].data  BY <2>4
  <2>6. d[Len(d)] \in Record  BY <2>3, <2>5
  <2>7. Last(d).idx \in Nat /\ Last(d).vis \in Nat  BY <2>6, RecFacts DEF Last
  <2> QED  BY <1>2, <2>2, <2>5, <2>7 DEF ResumeIndex, ResumeVisible
<1> QED  BY <1>1, <1>2

\* Recovery, crashes and time keep the types.
LEMMA OtherRest ==
    ASSUME TypeOK, Recover \/ Kill \/ PowerLoss \/ Tick \/ ClockBack
    PROVE  RestOK'
<1> USE DEF procVars, memVars, bounds
<1>0. RestOK /\ BoundsAssumption  BY RestFacts, BoundsAssumption
<1>1. ASSUME Restart PROVE RestOK'
  <2>1. Forget /\ phase' \in Phases /\ UNCHANGED <<now, back, bounds>> /\ run' \in 0..MaxRuns
    BY <1>0, <1>1 DEF Restart, Phases, RestOK, BoundsAssumption
  <2> QED  BY <1>0, <2>1, ForgetRest DEF RestOK
<1>2. ASSUME RecoverRename PROVE RestOK'
  <2>1. UNCHANGED <<now, back, phase, run, procVars, batch, drained, unwritten, fatal, cur, prevVis,
                    bounds>> /\ wpc' \in Steps
    BY <1>2 DEF RecoverRename, Steps
  <2>2. target' \in Nat
    <3>1. target' \in DOMAIN files  BY <1>2 DEF RecoverRename, Orphans
    <3> QED  BY <3>1, TypeFacts
  <2> QED  BY <1>0, <2>1, <2>2 DEF RestOK
<1>3. ASSUME RecoverSeal PROVE RestOK'
  BY <1>0, <1>3 DEF RecoverSeal, RestOK, Steps
<1>4. ASSUME RecoverFinish PROVE RestOK'
  BY <1>0, <1>4 DEF RecoverFinish, RestOK, Steps
<1>5. ASSUME Start PROVE RestOK'
  <2>1. UNCHANGED <<now, back, run, tail, pending, queue, wpc, batch, drained, target,
                    unwritten, fatal, bounds>> /\ phase' \in Phases
        /\ next' = ResumeIndex /\ prevVis' = ResumeVisible /\ cur' = NewCur
        /\ timer' = ArmedTimer(now, now + back)
    BY <1>5 DEF Start, Phases
  <2>2. now \in Nat /\ now + back \in Nat  BY <1>0 DEF RestOK
  <2>3. timer' \in [start : Nat, due : Int] /\ next' \in Nat \ {0}
        /\ prevVis' \in Nat \cup {NoVis} /\ cur' \in SegmentWriter
    BY <2>1, <2>2, ArmedFacts, ResumeFacts, CurTypes
  <2> QED  BY <1>0, <2>1, <2>3 DEF RestOK
<1>6. ASSUME Kill PROVE RestOK'
  <2>1. Forget /\ phase' \in Phases /\ UNCHANGED <<now, back, run, frames, outages, faults>>
        /\ kills' \in Nat
    BY <1>0, <1>6 DEF Kill, Phases, RestOK
  <2> QED  BY <1>0, <2>1, ForgetRest DEF RestOK
<1>7. ASSUME PowerLoss PROVE RestOK'
  <2>1. Forget /\ phase' \in Phases /\ UNCHANGED <<now, back, run, frames, kills, faults>>
        /\ outages' = outages + 1
    BY <1>7 DEF PowerLoss, Phases
  <2> QED  BY <1>0, <2>1, ForgetRest DEF RestOK
<1>8. ASSUME Tick PROVE RestOK'
  BY <1>0, <1>8 DEF Tick, RestOK, BoundsAssumption
<1>9. ASSUME ClockBack PROVE RestOK'
  BY <1>0, <1>9 DEF ClockBack, RestOK, BoundsAssumption
<1> QED  BY <1>1, <1>2, <1>3, <1>4, <1>5, <1>6, <1>7, <1>8, <1>9 DEF Recover

-----------------------------------------------------------------------------
(* Where the thread is                                                     *)

LEMMA ForgetThread ==
    ASSUME Forget, phase' \in {"down", "recovering"}
    PROVE  ThreadInv'
BY DEF Forget, ThreadInv, Live, Sealing

LEMMA RaiseThread ==
    ASSUME TypeOK, ThreadInv, NEW r \in Seq(Record), Raise(r), wpc # "idle", Live
    PROVE  ThreadInv'
<1>1. CASE phase = "closing"
  <2>1. Forget /\ phase' = "down"  BY <1>1 DEF Raise
  <2> QED  BY <2>1, ForgetThread
<1>2. CASE phase # "closing"
  <2>1. /\ wpc' = "dead" /\ batch' = <<>> /\ UNCHANGED <<phase, pending, queue, target>>
    BY <1>2 DEF Raise
  <2> QED  BY <1>2, <2>1 DEF ThreadInv, Live, Sealing
<1> QED  BY <1>1, <1>2

LEMMA LoopThread ==
    ASSUME TypeOK, ThreadInv, WriterInv, Loop
    PROVE  ThreadInv'
<1> USE DEF procVars, memVars, bounds
<1>1. ASSUME EmitFrame PROVE ThreadInv'
  <2>1. /\ phase = "running" /\ phase' \in {"running", "stopping"}
        /\ UNCHANGED <<wpc, batch, target, unwritten>>
    BY <1>1, EmitShape
  <2> QED  BY <2>1 DEF ThreadInv, Live, Sealing
<1>2. ASSUME PutCompletes PROVE ThreadInv'
  <2>1. /\ phase \in {"running", "stopping"} /\ phase' \in {"running", "stopping"}
        /\ UNCHANGED <<wpc, batch, target, unwritten>>
    BY <1>2, PutShape
  <2> QED  BY <2>1 DEF ThreadInv, Live, Sealing
<1>3. ASSUME RotateTimer PROVE ThreadInv'
  BY <1>3 DEF RotateTimer, ThreadInv, Live, Sealing
<1>4. ASSUME DrainTake PROVE ThreadInv'
  <2>1. phase \in {"running", "stopping"} /\ wpc' = "consume" /\ phase' = phase
        /\ wpc = "idle" /\ unwritten' = unwritten
    BY <1>4 DEF DrainTake
  <2> QED  BY <2>1 DEF ThreadInv, Live, Sealing
<1>5. ASSUME CancelCapture PROVE ThreadInv'
  <2>1. phase = "running" /\ phase' = "stopping" /\ pending' = NoRec
        /\ UNCHANGED <<wpc, batch, target, queue, unwritten>>
    BY <1>5 DEF CancelCapture
  <2> QED  BY <2>1 DEF ThreadInv, Live, Sealing
<1>6. ASSUME EmitClosing PROVE ThreadInv'
  <2>1. phase = "stopping" /\ phase' = "stopping" /\ UNCHANGED <<wpc, batch, target, unwritten>>
    BY <1>6, ClosingShape
  <2> QED  BY <2>1 DEF ThreadInv, Live, Sealing
<1>7. ASSUME SpoolSync PROVE ThreadInv'
  <2>1. UNCHANGED <<phase, pending, queue, wpc, batch, target, unwritten>>  BY <1>7 DEF SpoolSync
  <2> QED  BY <2>1 DEF ThreadInv, Live, Sealing
<1>8. ASSUME CloseStart PROVE ThreadInv'
  BY <1>8 DEF CloseStart, ThreadInv, Live, Sealing
<1>9. ASSUME CloseDrain PROVE ThreadInv'
  <2>1. /\ phase = "shutdown" /\ phase' = "closing" /\ wpc' = "consume" /\ pending' = pending
        /\ queue' = <<>> /\ unwritten' = <<>>
    BY <1>9 DEF CloseDrain
  <2> QED  BY <2>1 DEF ThreadInv, Live, Sealing
<1> QED  BY <1>1, <1>2, <1>3, <1>4, <1>5, <1>6, <1>7, <1>8, <1>9
         DEF Loop, StopCapture, WriterFailureSeen

LEMMA WriterThread ==
    ASSUME TypeOK, ThreadInv, WriterInv, Writer
    PROVE  ThreadInv'
<1> USE DEF threadVars, bounds
<1>0. Flushable \in Seq(Record) /\ <<>> \in Seq(Record)  BY TypeFacts, FlushSeqs
<1>1. ASSUME WriteBatch PROVE ThreadInv'
  <2>1. wpc = "consume" /\ UNCHANGED <<phase, wpc, target, unwritten, pending, queue>> /\ Live
    BY <1>1, LiveFacts DEF WriteBatch
  <2> QED  BY <2>1 DEF ThreadInv, Live, Sealing
<1>2. ASSUME WriteFails \/ FsyncFails \/ WriteRefused PROVE ThreadInv'
  <2>1. wpc = "consume" /\ Raise(Flushable)  BY <1>2 DEF WriteFails, FsyncFails, WriteRefused
  <2>2. Live  BY <2>1, LiveFacts
  <2> QED  BY <1>0, <2>1, <2>2, RaiseThread
<1>3. ASSUME BatchDone PROVE ThreadInv'
  <2>1. /\ wpc = "consume" /\ batch = <<>> /\ phase # "closing" /\ wpc' \in {"idle", "dead"}
        /\ UNCHANGED <<phase, target, unwritten, pending, queue, batch>>
    BY <1>3, Zenon DEF BatchDone
  <2>2. Live  BY <2>1, LiveFacts
  <2> QED  BY <2>1, <2>2 DEF ThreadInv, Live, Sealing
<1>4. ASSUME SealStart PROVE ThreadInv'
  <2>1. /\ wpc = "consume" /\ wpc' \in {"rename", "finish", "reseal"}
        /\ UNCHANGED <<phase, unwritten, pending, queue>>
    BY <1>4, Zenon DEF SealStart
  <2>2. Live  BY <2>1, LiveFacts
  <2>3. target' = NoTarget => phase = "closing" /\ batch' = <<>>
    <3>1. CASE AtBoundary
      <4>1. batch # <<>> /\ batch \in Seq(Message)  BY <3>1, TypeFacts DEF AtBoundary
      <4>2. Head(batch) \in Message  BY <4>1
      <4>3. target' = BoundaryTarget  BY <1>4, <3>1 DEF SealStart
      <4>4. BoundaryTarget \in Nat
        <5>1. CASE Head(batch).kind = "rotate"  BY <4>2, <5>1, RecFacts DEF BoundaryTarget
        <5>2. CASE Head(batch).kind # "rotate"
          <6>1. Head(batch).vis \in Nat  BY <4>2, <5>2, RecFacts
          <6> QED  BY <5>2, <6>1, WindowFacts DEF BoundaryTarget
        <5> QED  BY <5>1, <5>2
      <4> QED  BY <4>3, <4>4 DEF NoTarget
    <3>2. CASE ~AtBoundary  BY <1>4, <3>2 DEF SealStart
    <3> QED  BY <3>1, <3>2
  <2> QED  BY <2>1, <2>2, <2>3 DEF ThreadInv, Live, Sealing
<1>5. ASSUME SealFsyncFails PROVE ThreadInv'
  <2>1. wpc = "consume" /\ Raise(<<>>)  BY <1>5 DEF SealFsyncFails
  <2>2. Live  BY <2>1, LiveFacts
  <2> QED  BY <1>0, <2>1, <2>2, RaiseThread
<1>6. ASSUME SealRename \/ SealPublish PROVE ThreadInv'
  <2>1. wpc \in {"rename", "publish", "reseal"} /\ phase # "recovering"
    BY <1>6 DEF SealRename, SealPublish
  <2>2. Live  BY <2>1, LiveFacts
  <2>3. CASE Raise(<<>>)  BY <1>0, <2>1, <2>2, <2>3, RaiseThread
  <2>4. CASE ~Raise(<<>>)
    <3>1. wpc' \in {"publish", "finish"}
          /\ UNCHANGED <<phase, pending, queue, batch, target, unwritten>>
      BY <1>6, <2>4 DEF SealRename, SealPublish
    <3> QED  BY <2>1, <2>2, <3>1 DEF ThreadInv, Live, Sealing
  <2> QED  BY <2>3, <2>4
<1>7. ASSUME SealFinish PROVE ThreadInv'
  <2>1. wpc = "finish" /\ phase # "recovering"  BY <1>7 DEF SealFinish
  <2>2. Live  BY <2>1, LiveFacts
  <2>3. CASE Raise(<<>>)  BY <1>0, <2>1, <2>2, <2>3, RaiseThread
  <2>4. CASE /\ target = NoTarget /\ phase' = "closed" /\ wpc' = "idle"
             /\ UNCHANGED <<pending, queue, batch, target, unwritten>>
    BY <2>1, <2>2, <2>4 DEF ThreadInv, Live, Sealing
  <2>5. CASE wpc' = "consume" /\ UNCHANGED <<phase, pending, queue, batch, unwritten>>
    BY <2>1, <2>2, <2>5 DEF ThreadInv, Live, Sealing
  <2> QED  BY <1>7, <2>3, <2>4, <2>5, Zenon DEF SealFinish
<1> QED  BY <1>1, <1>2, <1>3, <1>4, <1>5, <1>6, <1>7 DEF Writer

LEMMA OtherThread ==
    ASSUME TypeOK, ThreadInv, Recover \/ Kill \/ PowerLoss \/ Tick \/ ClockBack
    PROVE  ThreadInv'
<1> USE DEF procVars, memVars, bounds
<1>1. CASE Restart \/ Kill \/ PowerLoss
  <2>1. Forget /\ phase' \in {"down", "recovering"}  BY <1>1 DEF Restart, Kill, PowerLoss
  <2> QED  BY <2>1, ForgetThread
<1>2. CASE RecoverRename \/ RecoverSeal \/ RecoverFinish
  <2>1. phase = "recovering" /\ wpc' \in {"idle", "publish", "finish"}
        /\ UNCHANGED <<phase, pending, queue, batch, unwritten>>
    BY <1>2 DEF RecoverRename, RecoverSeal, RecoverFinish
  <2> QED  BY <2>1 DEF ThreadInv, Live, Sealing
<1>3. CASE Start
  BY <1>3 DEF Start, ThreadInv, Live, Sealing
<1>4. CASE Tick \/ ClockBack
  BY <1>4 DEF Tick, ClockBack, ThreadInv, Live, Sealing
<1> QED  BY <1>1, <1>2, <1>3, <1>4 DEF Recover

-----------------------------------------------------------------------------
(* Steps that rewrite the current segment                                  *)

\* Only the current segment changes.
CurOnly ==
    /\ FilesKept(files, files') /\ Len(files') = Len(files) /\ DOMAIN files' = DOMAIN files
    /\ files' # <<>> /\ Len(files) \in DOMAIN files
    /\ CurFile = files[Len(files)] /\ CurFile' = files'[Len(files)]
    /\ \A i \in DOMAIN files : i # Len(files) => files'[i] = files[i]

LEMMA CurOnlyFacts ==
    ASSUME TypeOK, files # <<>>, NEW g, Kept(CurFile, g), SetCurFile(g)
    PROVE  CurOnly /\ CurFile' = g
<1>1. files' = [files EXCEPT ![Len(files)] = g]  BY DEF SetCurFile
<1>2. Len(files) \in DOMAIN files /\ CurFile = files[Len(files)]  BY CurFacts
<1>3. /\ FilesKept(files, files') /\ Len(files') = Len(files) /\ DOMAIN files' = DOMAIN files
      /\ files' \in Seq(File) /\ files'[Len(files)] = g
      /\ \A i \in DOMAIN files : i # Len(files) => files'[i] = files[i]
  BY <1>1, <1>2, SetFile, TypeFacts
<1>4. CurFile' = files'[Len(files')]  BY DEF CurFile, Last
<1>5. files' # <<>>  BY <1>2, <1>3
<1> QED  BY <1>2, <1>3, <1>4, <1>5 DEF CurOnly

LEMMA FsyncStep ==
    ASSUME TypeOK, files # <<>>, SetCurFile(Fsynced(CurFile))
    PROVE  /\ CurOnly /\ CurFile'.data = CurFile.data /\ CurFile'.torn = CurFile.torn
           /\ CurFile'.seal = CurFile.seal /\ CurFile'.name = CurFile.name
           /\ CurFile'.synced = Len(CurFile.data) /\ CurFile'.start = CurFile.start
<1>1. Sound(CurFile)  BY CurFacts
<1>2. PICK f : f = CurFile  OBVIOUS
<1>3. PICK g : g = Fsynced(f)  OBVIOUS
<1>4. /\ Kept(f, g) /\ g.data = f.data /\ g.torn = f.torn /\ g.seal = f.seal
      /\ g.name = f.name /\ g.synced = Len(f.data) /\ g.start = f.start
  BY <1>1, <1>2, <1>3, FsyncedFacts DEF Kept
<1>5. CurOnly /\ CurFile' = g  BY <1>2, <1>3, <1>4, CurOnlyFacts
<1> QED  BY <1>2, <1>4, <1>5

LEMMA RenameStep ==
    ASSUME TypeOK, files # <<>>, SetCurFile([CurFile EXCEPT !.name = "ndjson"])
    PROVE  /\ CurOnly /\ CurFile'.data = CurFile.data /\ CurFile'.torn = CurFile.torn
           /\ CurFile'.seal = CurFile.seal /\ CurFile'.name = "ndjson"
           /\ CurFile'.synced = CurFile.synced /\ CurFile'.start = CurFile.start
<1>1. Sound(CurFile)  BY CurFacts
<1>2. PICK f : f = CurFile  OBVIOUS
<1>3. PICK g : g = [f EXCEPT !.name = "ndjson"]  OBVIOUS
<1>4. /\ Kept(f, g) /\ g.data = f.data /\ g.torn = f.torn /\ g.seal = f.seal
      /\ g.name = "ndjson" /\ g.synced = f.synced /\ g.start = f.start
  BY <1>1, <1>2, <1>3, RenameFacts DEF Kept
<1>5. CurOnly /\ CurFile' = g  BY <1>2, <1>3, <1>4, CurOnlyFacts
<1> QED  BY <1>2, <1>4, <1>5

\* A flush that reached the file, fsynced or not.
LEMMA FlushStep ==
    ASSUME TypeOK, files # <<>>, NEW due \in BOOLEAN,
           LET w == [CurFile EXCEPT !.data = @ \o Flushable]
           IN  SetCurFile(IF due THEN Fsynced(w) ELSE w)
    PROVE  /\ CurOnly /\ CurFile'.data = CurFile.data \o Flushable
           /\ CurFile'.torn = CurFile.torn /\ CurFile'.seal = CurFile.seal
           /\ CurFile'.start = CurFile.start
<1>1. Sound(CurFile)  BY CurFacts
<1>2. Flushable \in Seq(Record)  BY TypeFacts, FlushSeqs
<1>3. PICK f : f = CurFile  OBVIOUS
<1>4. PICK s \in Seq(Record) : s = Flushable  BY <1>2
<1>5. PICK w : w = [f EXCEPT !.data = @ \o s]  OBVIOUS
<1>6. Sound(f)  BY <1>1, <1>3
<1>7. /\ Kept(f, w) /\ w.data = f.data \o s /\ w.torn = f.torn /\ w.seal = f.seal
      /\ w.synced = f.synced /\ w.start = f.start
  BY <1>5, <1>6, AppendFacts DEF Kept
<1>8. /\ Kept(w, Fsynced(w)) /\ Fsynced(w).data = w.data /\ Fsynced(w).torn = w.torn
      /\ Fsynced(w).seal = w.seal /\ Fsynced(w).start = w.start
  BY <1>7, FsyncedFacts DEF Kept
<1>9. Kept(f, Fsynced(w))
  <2>1. w.synced >= f.synced  BY <1>6, <1>7, FileFacts DEF Sound
  <2> QED  BY <1>6, <1>7, <1>8, <2>1, KeptTwice
<1>10. PICK g : g = IF due THEN Fsynced(w) ELSE w  OBVIOUS
<1>11. /\ Kept(f, g) /\ g.data = f.data \o s /\ g.torn = f.torn /\ g.seal = f.seal
       /\ g.start = f.start
  <2>1. CASE due  BY <1>7, <1>8, <1>9, <1>10, <2>1
  <2>2. CASE ~due  BY <1>7, <1>10, <2>2
  <2> QED  BY <2>1, <2>2
<1>12. SetCurFile(g)  BY <1>3, <1>4, <1>5, <1>10
<1>13. CurOnly /\ CurFile' = g  BY <1>3, <1>11, <1>12, CurOnlyFacts
<1> QED  BY <1>3, <1>4, <1>11, <1>13

\* A flush whose rollback failed.
LEMMA CutStep ==
    ASSUME TypeOK, files # <<>>, NEW n \in 0..FlushLen, NEW t \in BOOLEAN,
           SetCurFile(Cut(CurFile, SubSeq(batch, 1, n), t))
    PROVE  CurOnly /\ CurFile'.seal = CurFile.seal /\ CurFile'.start = CurFile.start
<1>1. Sound(CurFile)  BY CurFacts
<1>2. SubSeq(batch, 1, n) \in Seq(Record)  BY TypeFacts, Prefix
<1>3. PICK f : f = CurFile  OBVIOUS
<1>4. PICK s \in Seq(Record) : s = SubSeq(batch, 1, n)  BY <1>2
<1>5. PICK g : g = Cut(f, s, t)  OBVIOUS
<1>6. Kept(f, g) /\ g.seal = f.seal /\ g.start = f.start
  BY <1>1, <1>3, <1>5, WriteFacts DEF Kept
<1>7. SetCurFile(g)  BY <1>3, <1>4, <1>5
<1>8. CurOnly /\ CurFile' = g  BY <1>3, <1>6, <1>7, CurOnlyFacts
<1> QED  BY <1>3, <1>6, <1>8

-----------------------------------------------------------------------------
(* Seals                                                                   *)

\* What a step may do to a sealed file.
Respects(f, g) ==
    /\ g.seal = f.seal /\ g.data = f.data /\ (g.torn => f.torn)
    /\ g.synced \in {f.synced, Len(f.data)} /\ g.name \in {f.name, "ndjson"}

LEMMA SealMono ==
    ASSUME TypeOK, SealInv, faults' \in Nat, outages' \in Nat, faults' >= faults,
           outages' >= outages,
           \A i \in DOMAIN files' :
              IsSealed(files'[i]) => i \in DOMAIN files /\ Respects(files[i], files'[i])
    PROVE  SealInv'
<1> SUFFICES ASSUME NEW i \in DOMAIN files', IsSealed(files'[i])
             PROVE  /\ faults' = 0 \/ outages' = 0 =>
                         ~files'[i].torn /\ files'[i].seal.lines = Len(files'[i].data)
                    /\ faults' = 0 => files'[i].synced = Len(files'[i].data)
                    /\ faults' = 0 /\ OrderedDirs => files'[i].name = "ndjson"
  BY DEF SealInv
<1>1. PICK f, g : f = files[i] /\ g = files'[i]  OBVIOUS
<1>2. i \in DOMAIN files /\ Respects(f, g)  BY <1>1
<1>3. IsSealed(f)  BY <1>1, <1>2 DEF Respects, IsSealed
<1>4. /\ faults = 0 \/ outages = 0 => ~f.torn /\ f.seal.lines = Len(f.data)
      /\ faults = 0 => f.synced = Len(f.data)
      /\ faults = 0 /\ OrderedDirs => f.name = "ndjson"
  BY <1>1, <1>2, <1>3 DEF SealInv
<1>5. (faults' = 0 => faults = 0) /\ (outages' = 0 => outages = 0)  BY TypeFacts
<1>6. faults' = 0 \/ outages' = 0 => ~g.torn /\ g.seal.lines = Len(g.data)
  BY <1>2, <1>4, <1>5 DEF Respects
<1>7. faults' = 0 => g.synced = Len(g.data)  BY <1>2, <1>4, <1>5 DEF Respects
<1>8. faults' = 0 /\ OrderedDirs => g.name = "ndjson"  BY <1>2, <1>4, <1>5 DEF Respects
<1> QED  BY <1>1, <1>6, <1>7, <1>8

LEMMA RespectsSame == ASSUME NEW f PROVE Respects(f, f)
BY DEF Respects

LEMMA SealSame ==
    ASSUME TypeOK, SealInv, UNCHANGED files, faults' \in Nat, outages' \in Nat,
           faults' >= faults, outages' >= outages
    PROVE  SealInv'
BY SealMono, RespectsSame

\* A step that rewrites a segment without a seal leaves the seals as they are.
LEMMA SealCur ==
    ASSUME TypeOK, SealInv, CurOnly, ~IsSealed(CurFile'), faults' \in Nat, outages' \in Nat,
           faults' >= faults, outages' >= outages
    PROVE  SealInv'
<1>1. \A i \in DOMAIN files' :
         IsSealed(files'[i]) => i \in DOMAIN files /\ Respects(files[i], files'[i])
  BY RespectsSame DEF CurOnly
<1> QED  BY <1>1, SealMono

-----------------------------------------------------------------------------
(* Indices of sequences of messages                                        *)

LEMMA EmptyIndex ==
    ASSUME NEW s, NEW n
    PROVE  Rising(<<>>) /\ Under(<<>>, s) /\ Under(s, <<>>) /\ UpTo(<<>>, n) /\ ~Has(<<>>, n)
BY DEF Rising, Under, UpTo, Has

LEMMA AppendIndex ==
    ASSUME NEW s \in Seq(Message), NEW m \in Message, NEW n \in Nat,
           Rising(s), UpTo(s, n), m.kind = "rec" => m.idx = n
    PROVE  /\ Rising(Append(s, m)) /\ UpTo(Append(s, m), n + 1)
           /\ m.kind = "rec" => Has(Append(s, m), n)
           /\ m.kind # "rec" => UpTo(Append(s, m), n)
           /\ \A k : Has(s, k) => Has(Append(s, m), k)
           /\ \A t \in Seq(Message) : UpTo(t, n) /\ Under(t, s) => Under(t, Append(s, m))
<1> DEFINE a == Append(s, m)
<1>1. /\ DOMAIN a = 1..(Len(s) + 1) /\ DOMAIN s = 1..Len(s) /\ Len(s) \in Nat
      /\ a[Len(s) + 1] = m /\ \A i \in 1..Len(s) : a[i] = s[i]
  OBVIOUS
<1>2. \A i \in DOMAIN s : s[i] \in Message /\ (s[i].kind = "rec" => s[i].idx \in Nat)
  BY RecFacts
<1> HIDE DEF a
<1>3. Rising(a)  BY <1>1, <1>2 DEF Rising, UpTo
<1>4. UpTo(a, n + 1)  BY <1>1, <1>2 DEF UpTo
<1>5. m.kind = "rec" => Has(a, n)  BY <1>1 DEF Has
<1>6. m.kind # "rec" => UpTo(a, n)  BY <1>1 DEF UpTo
<1>7. \A k : Has(s, k) => Has(a, k)  BY <1>1 DEF Has
<1>8. \A t \in Seq(Message) : UpTo(t, n) /\ Under(t, s) => Under(t, a)
  BY <1>1 DEF UpTo, Under
<1> QED  BY <1>3, <1>4, <1>5, <1>6, <1>7, <1>8 DEF a

\* A queue cut in two.
LEMMA SplitIndex ==
    ASSUME NEW q \in Seq(Message), NEW n \in 0..Len(q), Rising(q)
    PROVE  LET b == SubSeq(q, 1, n)
               c == SubSeq(q, n + 1, Len(q))
           IN  /\ b \in Seq(Message) /\ c \in Seq(Message)
               /\ Rising(b) /\ Rising(c) /\ Under(b, c)
               /\ \A k : UpTo(q, k) => UpTo(b, k) /\ UpTo(c, k)
               /\ \A k : Has(q, k) => Has(b, k) \/ Has(c, k)
               /\ \A t : Under(t, q) => Under(t, b) /\ Under(t, c)
               /\ \A t : Under(q, t) => Under(b, t) /\ Under(c, t)
<1> DEFINE b == SubSeq(q, 1, n)
           c == SubSeq(q, n + 1, Len(q))
<1>1. /\ b \in Seq(Message) /\ c \in Seq(Message) /\ Len(q) \in Nat /\ DOMAIN q = 1..Len(q)
      /\ DOMAIN b = 1..n /\ DOMAIN c = 1..(Len(q) - n)
      /\ \A i \in 1..n : b[i] = q[i]
      /\ \A i \in 1..(Len(q) - n) : c[i] = q[n + i]
  OBVIOUS
<1> HIDE DEF b, c
<1>2. Rising(b)  BY <1>1 DEF Rising
<1>3. Rising(c)
  <2> SUFFICES ASSUME NEW i \in DOMAIN c, NEW j \in DOMAIN c, i < j,
                      c[i].kind = "rec", c[j].kind = "rec"
               PROVE  c[i].idx < c[j].idx
    BY DEF Rising
  <2>1. n + i \in DOMAIN q /\ n + j \in DOMAIN q /\ n + i < n + j  BY <1>1
  <2>2. c[i] = q[n + i] /\ c[j] = q[n + j]  BY <1>1
  <2>3. PICK x \in DOMAIN q, y \in DOMAIN q : x = n + i /\ y = n + j  BY <2>1
  <2> QED  BY <2>1, <2>2, <2>3 DEF Rising
<1>4. Under(b, c)
  <2> SUFFICES ASSUME NEW i \in DOMAIN b, NEW j \in DOMAIN c, b[i].kind = "rec", c[j].kind = "rec"
               PROVE  b[i].idx < c[j].idx
    BY DEF Under
  <2>1. i \in DOMAIN q /\ n + j \in DOMAIN q /\ i < n + j  BY <1>1
  <2>2. b[i] = q[i] /\ c[j] = q[n + j]  BY <1>1
  <2>3. PICK y \in DOMAIN q : y = n + j  BY <2>1
  <2> QED  BY <2>1, <2>2, <2>3 DEF Rising
<1>5. \A i \in 1..(Len(q) - n) : n + i \in DOMAIN q  BY <1>1
<1>6. \A i \in DOMAIN b : i \in DOMAIN q  BY <1>1
<1>7. \A k : UpTo(q, k) => UpTo(b, k) /\ UpTo(c, k)  BY <1>1, <1>5, <1>6 DEF UpTo
<1>8. \A k : Has(q, k) => Has(b, k) \/ Has(c, k)
  <2>1. \A i \in DOMAIN q : i \in 1..n \/ (i - n \in 1..(Len(q) - n) /\ n + (i - n) = i)  BY <1>1
  <2>2. \A i \in DOMAIN q : (i \in DOMAIN b /\ b[i] = q[i]) \/ (i - n \in DOMAIN c /\ c[i - n] = q[i])
    BY <1>1, <2>1
  <2> QED  BY <2>2 DEF Has
<1>9. \A t : Under(t, q) => Under(t, b) /\ Under(t, c)  BY <1>1, <1>5, <1>6 DEF Under
<1>10. \A t : Under(q, t) => Under(b, t) /\ Under(c, t)
  <2>1. \A t : Under(q, t) => Under(b, t)  BY <1>1, <1>6 DEF Under
  <2>2. \A i \in DOMAIN c : n + i \in DOMAIN q /\ c[i] = q[n + i]  BY <1>1, <1>5
  <2>3. ASSUME NEW t, Under(q, t) PROVE Under(c, t)  BY <2>2, <2>3 DEF Under
  <2> QED  BY <2>1, <2>3
<1> QED  BY <1>1, <1>2, <1>3, <1>4, <1>7, <1>8, <1>9, <1>10 DEF b, c

\* Two sequences one after the other.
LEMMA JoinIndex ==
    ASSUME NEW s \in Seq(Message), NEW t \in Seq(Message), Rising(s), Rising(t), Under(s, t)
    PROVE  /\ Rising(s \o t)
           /\ \A k : UpTo(s, k) /\ UpTo(t, k) => UpTo(s \o t, k)
           /\ \A k : Has(s, k) \/ Has(t, k) => Has(s \o t, k)
           /\ \A u : Under(s, u) /\ Under(t, u) => Under(s \o t, u)
<1> DEFINE j == s \o t
<1>1. /\ Len(s) \in Nat /\ Len(t) \in Nat /\ DOMAIN s = 1..Len(s) /\ DOMAIN t = 1..Len(t)
      /\ DOMAIN j = 1..(Len(s) + Len(t))
      /\ \A i \in 1..Len(s) : j[i] = s[i]
      /\ \A i \in 1..Len(t) : j[Len(s) + i] = t[i]
  OBVIOUS
<1>2. \A i \in DOMAIN j : \/ i \in 1..Len(s) /\ j[i] = s[i]
                          \/ i - Len(s) \in 1..Len(t) /\ i > Len(s) /\ j[i] = t[i - Len(s)]
  OBVIOUS
<1> HIDE DEF j
<1>3. Rising(j)
  <2> SUFFICES ASSUME NEW a \in DOMAIN j, NEW b \in DOMAIN j, a < b,
                      j[a].kind = "rec", j[b].kind = "rec"
               PROVE  j[a].idx < j[b].idx
    BY DEF Rising
  <2>1. CASE b \in 1..Len(s)
    <3>1. a \in 1..Len(s) /\ j[a] = s[a] /\ j[b] = s[b]  BY <1>1, <2>1
    <3> QED  BY <1>1, <2>1, <3>1 DEF Rising
  <2>2. CASE b \notin 1..Len(s)
    <3>1. b - Len(s) \in 1..Len(t) /\ j[b] = t[b - Len(s)]  BY <1>2, <2>2
    <3>2. CASE a \in 1..Len(s)
      <4>1. j[a] = s[a]  BY <1>1, <3>2
      <4> QED  BY <1>1, <3>1, <3>2, <4>1 DEF Under
    <3>3. CASE a \notin 1..Len(s)
      <4>1. a - Len(s) \in 1..Len(t) /\ j[a] = t[a - Len(s)]  BY <1>2, <3>3
      <4>2. a - Len(s) < b - Len(s)  BY <1>1
      <4> QED  BY <1>1, <3>1, <4>1, <4>2 DEF Rising
    <3> QED  BY <3>2, <3>3
  <2> QED  BY <2>1, <2>2
<1>4. \A k : UpTo(s, k) /\ UpTo(t, k) => UpTo(j, k)  BY <1>1, <1>2 DEF UpTo
<1>5. \A k : Has(s, k) \/ Has(t, k) => Has(j, k)
  <2>1. \A i \in 1..Len(t) : Len(s) + i \in DOMAIN j  BY <1>1
  <2>2. \A i \in 1..Len(s) : i \in DOMAIN j  BY <1>1
  <2> QED  BY <1>1, <2>1, <2>2 DEF Has
<1>6. \A u : Under(s, u) /\ Under(t, u) => Under(j, u)  BY <1>1, <1>2 DEF Under
<1> QED  BY <1>3, <1>4, <1>5, <1>6 DEF j

\* The rotation at the head of a batch has no index.
LEMMA TailIndex ==
    ASSUME NEW s \in Seq(Message), s # <<>>, Head(s).kind = "rotate"
    PROVE  /\ Tail(s) \in Seq(Message)
           /\ Rising(s) => Rising(Tail(s))
           /\ \A k : UpTo(s, k) => UpTo(Tail(s), k)
           /\ \A k : Has(s, k) => Has(Tail(s), k)
           /\ \A t : Under(s, t) => Under(Tail(s), t)
           /\ \A t : Under(t, s) => Under(t, Tail(s))
<1> DEFINE r == Tail(s)
<1>1. /\ r \in Seq(Message) /\ Len(s) \in Nat \ {0} /\ DOMAIN s = 1..Len(s)
      /\ DOMAIN r = 1..(Len(s) - 1) /\ \A i \in 1..(Len(s) - 1) : r[i] = s[i + 1]
      /\ s[1].kind = "rotate"
  OBVIOUS
<1> HIDE DEF r
<1>2. \A i \in DOMAIN r : i + 1 \in DOMAIN s /\ r[i] = s[i + 1]  BY <1>1
<1>3. Rising(s) => Rising(r)
  <2>1. \A i, j \in DOMAIN r : i < j => i + 1 < j + 1  BY <1>1
  <2> QED  BY <1>2, <2>1 DEF Rising
<1>4. \A k : UpTo(s, k) => UpTo(r, k)  BY <1>2 DEF UpTo
<1>5. \A k : Has(s, k) => Has(r, k)
  <2>1. \A i \in DOMAIN s : s[i].kind = "rec" => i - 1 \in DOMAIN r /\ r[i - 1] = s[i]
    BY <1>1
  <2> QED  BY <2>1 DEF Has
<1>6. \A t : Under(s, t) => Under(r, t)  BY <1>2 DEF Under
<1>7. \A t : Under(t, s) => Under(t, r)  BY <1>2 DEF Under
<1> QED  BY <1>1, <1>3, <1>4, <1>5, <1>6, <1>7 DEF r

\* Records are messages.
LEMMA DataIndex ==
    ASSUME NEW f \in File
    PROVE  f.data \in Seq(Message) /\ \A i \in DOMAIN f.data : f.data[i].kind = "rec" /\ f.data[i].idx \in Nat
<1>1. f.data \in Seq(Record)  BY FileFacts
<1>2. PICK d \in Seq(Record) : d = f.data  BY <1>1
<1>3. \A i \in DOMAIN d : d[i] \in Record  OBVIOUS
<1>4. d \in Seq(Message)  BY <1>3, RecFacts
<1> QED  BY <1>2, <1>3, <1>4, RecFacts

-----------------------------------------------------------------------------
(* The event loop                                                          *)

\* The invariants that look at the files.
FileInv == WriterInv /\ ClosedInv /\ RecoverInv /\ FaultFreeInv /\ SealInv

\* A step of the loop that leaves the files and the writer alone.
LEMMA QuietStep ==
    ASSUME IInv, Live, Live', phase # "closing",
           UNCHANGED <<files, cur, faults, outages, unwritten, fatal>>,
           UNCHANGED wpc \/ (wpc = "idle" /\ wpc' = "consume")
    PROVE  FileInv'
<1>1. WriterInv'
  BY DEF IInv, WriterInv, Live, Sealing, CurFile, Last, Fits, SegEnd
<1>2. ClosedInv' /\ RecoverInv'  BY DEF ClosedInv, RecoverInv, Live
<1>3. FaultFreeInv'  BY DEF IInv, FaultFreeInv, Live, Sealing, CurFile, Last
<1>4. SealInv'  BY SealSame, TypeFacts DEF IInv
<1> QED  BY <1>1, <1>2, <1>3, <1>4 DEF FileInv

\* A message put in the queue: a rotation, or the record with the next index.
LEMMA IndexPut ==
    ASSUME IInv, Live, Live', UNCHANGED <<files, batch, faults>>, NEW m \in Message,
           queue' = Append(queue, m),
           faults = 0 => \/ m.kind = "rec" /\ m.idx = next /\ next' = next + 1 /\ pending' = NoRec
                         \/ m.kind # "rec" /\ UNCHANGED <<next, pending>>
    PROVE  IndexInv'
<1> SUFFICES ASSUME faults = 0 PROVE IndexInv'
  BY DEF IndexInv
<1>1. /\ \A i \in DOMAIN files : Rising(files[i].data) /\ UpTo(files[i].data, next)
      /\ UpTo(batch, next) /\ UpTo(queue, next)
      /\ pending # NoRec => pending.idx = next
      /\ \/ next = 1
         \/ \E i \in DOMAIN files : Has(files[i].data, next - 1)
         \/ Has(batch, next - 1)
         \/ Has(queue, next - 1)
      /\ Rising(batch) /\ Rising(queue) /\ Under(batch, queue)
      /\ Under(CurFile.data, batch) /\ Under(CurFile.data, queue)
  BY DEF IInv, IndexInv
<1>2. /\ queue \in Seq(Message) /\ batch \in Seq(Message) /\ next \in Nat \ {0} /\ files # <<>>
      /\ TypeOK
  BY TypeFacts, LiveFacts DEF IInv
<1>3. \A i \in DOMAIN files : files[i].data \in Seq(Message)
  BY <1>2, TypeFacts, DataIndex DEF Sound
<1>4. CurFile.data \in Seq(Message) /\ CurFile' = CurFile /\ UpTo(CurFile.data, next)
  <2>1. CurFile' = CurFile  BY DEF CurFile, Last
  <2> QED  BY <1>1, <1>2, <1>3, <2>1, CurFacts
<1>5. \A s \in Seq(Message) : UpTo(s, next) => UpTo(s, next + 1)
  <2>1. \A s \in Seq(Message) : \A i \in DOMAIN s : s[i].kind = "rec" => s[i].idx \in Nat
    BY RecFacts
  <2> QED  BY <1>2, <2>1 DEF UpTo
<1>6. m.kind = "rec" => m.idx = next  OBVIOUS
<1>7. /\ Rising(queue') /\ UpTo(queue', next + 1)
      /\ m.kind = "rec" => Has(queue', next)
      /\ m.kind # "rec" => UpTo(queue', next)
      /\ \A k : Has(queue, k) => Has(queue', k)
      /\ Under(batch, queue') /\ Under(CurFile.data, queue')
  BY <1>1, <1>2, <1>4, <1>6, AppendIndex
<1>8. CASE m.kind = "rec" /\ next' = next + 1 /\ pending' = NoRec
  <2>1. (next' - 1) = next  BY <1>2, <1>8
  <2> QED  BY <1>1, <1>2, <1>3, <1>4, <1>5, <1>7, <1>8, <2>1 DEF IndexInv
<1>9. CASE m.kind # "rec" /\ UNCHANGED <<next, pending>>
  BY <1>1, <1>4, <1>7, <1>9 DEF IndexInv
<1> QED  BY <1>8, <1>9

\* The queue, the batch and the files hold the same records as before.
LEMMA IndexSame ==
    ASSUME IInv, faults' = 0 => faults = 0, UNCHANGED <<next, batch, queue>>,
           DOMAIN files' = DOMAIN files, \A i \in DOMAIN files : files'[i].data = files[i].data,
           Live' \/ phase' = "closed" => Live,
           Live' => CurFile'.data = CurFile.data,
           pending' = pending \/ pending' = NoRec \/ pending' = Rec
    PROVE  IndexInv'
<1> SUFFICES ASSUME faults' = 0, faults = 0 PROVE IndexInv'
  BY DEF IndexInv
<1>1. \A i \in DOMAIN files' : Rising(files'[i].data)  BY DEF IInv, IndexInv
<1>2. ASSUME Live' \/ phase' = "closed"
      PROVE  /\ \A i \in DOMAIN files' : UpTo(files'[i].data, next')
             /\ UpTo(batch', next') /\ UpTo(queue', next')
             /\ pending' # NoRec => pending'.idx = next'
             /\ \/ next' = 1
                \/ \E i \in DOMAIN files' : Has(files'[i].data, next' - 1)
                \/ Has(batch', next' - 1)
                \/ Has(queue', next' - 1)
  <2>1. Rec.idx = next  BY RecType DEF IInv
  <2> QED  BY <1>2, <2>1 DEF IInv, IndexInv
<1>3. ASSUME Live'
      PROVE  /\ Rising(batch') /\ Rising(queue') /\ Under(batch', queue')
             /\ Under(CurFile'.data, batch') /\ Under(CurFile'.data, queue')
  BY <1>3 DEF IInv, IndexInv
<1> QED  BY <1>1, <1>2, <1>3 DEF IndexInv

\* The producer, the timer and the end of the capture task.
LEMMA ProducerStep ==
    ASSUME IInv, EmitFrame \/ PutCompletes \/ RotateTimer \/ CancelCapture \/ EmitClosing \/ CloseStart
    PROVE  FileInv' /\ IndexInv'
<1> USE DEF procVars, memVars, bounds
<1>1. /\ phase \in {"running", "stopping"} /\ phase' \in {"running", "stopping", "shutdown"}
      /\ UNCHANGED <<files, cur, faults, outages, unwritten, fatal, wpc, batch>>
  BY EmitShape, PutShape, ClosingShape DEF RotateTimer, CancelCapture, CloseStart
<1>2. Live /\ Live' /\ phase # "closing" /\ CurFile' = CurFile
  BY <1>1 DEF Live, CurFile, Last
<1>3. FileInv'  BY <1>1, <1>2, QuietStep
<1>4. TypeOK /\ Rec \in Message /\ Rec.kind = "rec" /\ Rec.idx = next  BY RecType DEF IInv
<1>5. CASE Take /\ pending = NoRec
  <2>1. queue' = Append(queue, Rec) /\ next' = next + 1 /\ pending' = NoRec  BY <1>5 DEF Take
  <2> QED  BY <1>1, <1>2, <1>3, <1>4, <2>1, IndexPut
<1>6. CASE Wake
  <2>1. pending \in Record /\ pending \in Message /\ pending.kind = "rec"
    BY <1>4, <1>6, RecFacts DEF Wake, TypeOK
  <2>2. faults = 0 => ~fatal /\ pending.idx = next
    BY <1>2, <1>6 DEF IInv, FaultFreeInv, IndexInv, Wake
  <2>3. faults = 0 => next' = next + 1  BY <1>6, <2>2, Zenon DEF Wake
  <2>4. queue' = Append(queue, pending) /\ pending' = NoRec  BY <1>6 DEF Wake
  <2> QED  BY <1>1, <1>2, <1>3, <2>1, <2>2, <2>3, <2>4, IndexPut
<1>7. CASE RotateTimer
  <2>1. timer.start \in Nat  BY <1>4 DEF TypeOK
  <2>2. PICK m : m = [kind |-> "rotate", start |-> timer.start]  OBVIOUS
  <2>3. m \in Message /\ m.kind # "rec"  BY <2>1, <2>2 DEF Rotation, Message
  <2>4. queue' = Append(queue, m) /\ UNCHANGED <<next, pending>>  BY <1>7, <2>2 DEF RotateTimer
  <2> QED  BY <1>1, <1>2, <1>3, <2>3, <2>4, IndexPut
<1>8. CASE UNCHANGED <<queue, next>> /\ (pending' = pending \/ pending' = NoRec \/ pending' = Rec)
  BY <1>1, <1>2, <1>3, <1>8, IndexSame
<1>9. \/ Take /\ pending = NoRec
      \/ Wake \/ RotateTimer
      \/ UNCHANGED <<queue, next>> /\ (pending' = pending \/ pending' = NoRec \/ pending' = Rec)
  <2>1. CASE EmitFrame  BY <2>1, EmitShape DEF Idle, Hold
  <2>2. CASE PutCompletes  BY <2>2, PutShape
  <2>3. CASE EmitClosing  BY <2>3, ClosingShape DEF Idle, Hold
  <2>4. CASE CancelCapture \/ CloseStart  BY <2>4 DEF CancelCapture, CloseStart
  <2> QED  BY <2>1, <2>2, <2>3, <2>4
<1> QED  BY <1>5, <1>6, <1>7, <1>8, <1>9

LEMMA DrainStep ==
    ASSUME IInv, DrainTake
    PROVE  FileInv' /\ IndexInv'
<1> USE DEF bounds
<1>0. TypeOK /\ RestOK  BY RestFacts DEF IInv
<1>1. PICK n \in 1..Len(queue) : batch' = SubSeq(queue, 1, n)
                                 /\ queue' = SubSeq(queue, n + 1, Len(queue))
  BY <1>0, DrainShape
<1>2. /\ phase \in {"running", "stopping"} /\ wpc = "idle" /\ wpc' = "consume"
      /\ UNCHANGED <<phase, files, cur, faults, outages, unwritten, fatal, next, pending>>
  BY DEF DrainTake
<1>3. Live /\ Live' /\ phase # "closing" /\ CurFile' = CurFile
  BY <1>2 DEF Live, CurFile, Last
<1>4. FileInv'  BY <1>2, <1>3, QuietStep
<1>5. IndexInv'
  <2> SUFFICES ASSUME faults = 0 PROVE IndexInv'
    BY <1>2 DEF IndexInv
  <2>1. /\ \A i \in DOMAIN files : Rising(files[i].data) /\ UpTo(files[i].data, next)
        /\ UpTo(queue, next)
        /\ pending # NoRec => pending.idx = next
        /\ \/ next = 1
           \/ \E i \in DOMAIN files : Has(files[i].data, next - 1)
           \/ Has(batch, next - 1)
           \/ Has(queue, next - 1)
        /\ Rising(queue) /\ Under(CurFile.data, queue)
    BY <1>3 DEF IInv, IndexInv
  <2>2. ~Has(batch, next - 1)
    <3>1. batch = <<>>  BY <1>2 DEF IInv, ThreadInv
    <3> QED  BY <3>1, EmptyIndex
  <2>3. queue \in Seq(Message) /\ n \in 0..Len(queue)  BY <1>0, TypeFacts
  <2>4. /\ Rising(batch') /\ Rising(queue') /\ Under(batch', queue')
        /\ UpTo(batch', next) /\ UpTo(queue', next)
        /\ Has(queue, next - 1) => Has(batch', next - 1) \/ Has(queue', next - 1)
        /\ Under(CurFile.data, batch') /\ Under(CurFile.data, queue')
    BY <1>1, <2>1, <2>3, SplitIndex
  <2> QED  BY <1>2, <1>3, <2>1, <2>2, <2>4 DEF IndexInv
<1> QED  BY <1>4, <1>5

LEMMA CloseStep ==
    ASSUME IInv, CloseDrain
    PROVE  FileInv' /\ IndexInv'
<1> USE DEF bounds
<1>0. TypeOK  BY DEF IInv
<1>1. /\ phase = "shutdown" /\ wpc \in {"idle", "dead"} /\ phase' = "closing" /\ wpc' = "consume"
      /\ batch' = unwritten \o queue /\ queue' = <<>> /\ unwritten' = <<>>
      /\ UNCHANGED <<files, cur, faults, outages, fatal, next, pending>>
  BY DEF CloseDrain, Remaining
<1>2. Live /\ Live' /\ CurFile' = CurFile /\ batch = <<>>
  BY <1>1 DEF Live, CurFile, Last, IInv, ThreadInv
<1>3. unwritten \in Seq(Message) /\ queue \in Seq(Message)
  <2>1. unwritten \in Seq(Record)  BY <1>0, TypeFacts
  <2> QED  BY <1>0, <2>1, RecFacts, TypeFacts
<1>4. unwritten # <<>> => batch' # <<>> /\ batch'[1] = unwritten[1]  BY <1>1, <1>3
<1>5. WriterInv'
  <2>1. /\ files # <<>>
        /\ \A i \in 1..(Len(files) - 1) : IsSealed(files[i])
        /\ cur.handle => ~IsSealed(CurFile)
        /\ ~cur.poisoned => cur.committed = Len(CurFile.data) /\ ~CurFile.torn
        /\ cur.poisoned => unwritten # <<>> /\ Fits(unwritten[1])
        /\ cur.done => IsSealed(CurFile)
    BY <1>1, <1>2 DEF IInv, WriterInv
  <2>2. \A m : Fits(m)' = Fits(m)  BY <1>2 DEF Fits
  <2>3. cur.poisoned => batch' # <<>> /\ Fits(batch'[1])  BY <1>4, <2>1
  <2>4. cur.poisoned => batch' # <<>> /\ batch'[1].kind = "rec" /\ batch'[1].vis < SegEnd(CurFile)
    BY <2>3 DEF Fits
  <2> QED  BY <1>1, <1>2, <2>1, <2>4 DEF WriterInv, Sealing, Fits
<1>6. ClosedInv' /\ RecoverInv'  BY <1>1 DEF ClosedInv, RecoverInv
<1>7. FaultFreeInv'
  BY <1>1, <1>2 DEF IInv, FaultFreeInv, Sealing
<1>8. SealInv'  BY <1>0, <1>1, SealSame, TypeFacts DEF IInv
<1>9. IndexInv'
  <2> SUFFICES ASSUME faults = 0 PROVE IndexInv'
    BY <1>1 DEF IndexInv
  <2>1. unwritten = <<>>  BY DEF IInv, FaultFreeInv
  <2>2. batch' = queue  BY <1>1, <1>3, <2>1
  <2>3. /\ \A i \in DOMAIN files : Rising(files[i].data) /\ UpTo(files[i].data, next)
        /\ UpTo(queue, next)
        /\ pending # NoRec => pending.idx = next
        /\ \/ next = 1
           \/ \E i \in DOMAIN files : Has(files[i].data, next - 1)
           \/ Has(batch, next - 1)
           \/ Has(queue, next - 1)
        /\ Rising(queue) /\ Under(CurFile.data, queue)
    BY <1>2 DEF IInv, IndexInv
  <2>4. ~Has(batch, next - 1)  BY <1>2, EmptyIndex
  <2>5. UpTo(queue', next) /\ Rising(queue') /\ Under(batch', queue') /\ Under(CurFile.data, queue')
    BY <1>1, EmptyIndex
  <2> QED  BY <1>1, <1>2, <2>2, <2>3, <2>4, <2>5 DEF IndexInv
<1> QED  BY <1>5, <1>6, <1>7, <1>8, <1>9 DEF FileInv

-----------------------------------------------------------------------------
(* The writer thread                                                       *)

\* The segments before the current one keep their seals.
LEMMA OthersSealed ==
    ASSUME IInv, Live, CurOnly
    PROVE  \A i \in 1..(Len(files') - 1) : IsSealed(files'[i])
<1>1. DOMAIN files = 1..Len(files) /\ Len(files) \in Nat  BY TypeFacts DEF IInv
<1> QED  BY <1>1 DEF IInv, WriterInv, CurOnly

\* The writer after one of its columns was set.
LEMMA CurColumns ==
    ASSUME TypeOK
    PROVE  /\ \A b \in BOOLEAN : LET c == [cur EXCEPT !.dirty = b] IN
                /\ c.handle = cur.handle /\ c.poisoned = cur.poisoned /\ c.done = cur.done
                /\ c.committed = cur.committed
           /\ \A b \in BOOLEAN : LET c == [cur EXCEPT !.handle = b] IN
                /\ c.handle = b /\ c.poisoned = cur.poisoned /\ c.done = cur.done
                /\ c.committed = cur.committed
           /\ \A b \in BOOLEAN : LET c == [cur EXCEPT !.poisoned = b] IN
                /\ c.handle = cur.handle /\ c.poisoned = b /\ c.done = cur.done
                /\ c.committed = cur.committed
           /\ \A b \in BOOLEAN : LET c == [cur EXCEPT !.done = b] IN
                /\ c.handle = cur.handle /\ c.poisoned = cur.poisoned /\ c.done = b
                /\ c.committed = cur.committed
           /\ \A b \in BOOLEAN, n \in Nat : LET c == [cur EXCEPT !.committed = n, !.dirty = b] IN
                /\ c.handle = cur.handle /\ c.poisoned = cur.poisoned /\ c.done = cur.done
                /\ c.committed = n
BY WriterFacts, Zenon DEF SegmentWriter

\* An fsync of the current segment beside whatever else happens.
LEMMA SyncStep ==
    ASSUME IInv, Live, Live', cur.handle, SetCurFile(Fsynced(CurFile)),
           cur'.handle = cur.handle, cur'.poisoned = cur.poisoned, cur'.done = cur.done,
           cur'.committed = cur.committed, UNCHANGED <<faults, outages, next, pending, batch, queue>>,
           UNCHANGED <<wpc, phase, unwritten, fatal>> \/ (wpc = "consume" /\ wpc' = "idle" /\ batch = <<>>
                                             /\ UNCHANGED <<phase, unwritten, fatal>>)
    PROVE  FileInv' /\ IndexInv' /\ FilesKept(files, files')
<1>0. TypeOK /\ files # <<>>  BY DEF IInv, WriterInv
<1>1. /\ CurOnly /\ CurFile'.data = CurFile.data /\ CurFile'.torn = CurFile.torn
      /\ CurFile'.seal = CurFile.seal /\ CurFile'.name = CurFile.name
      /\ CurFile'.synced = Len(CurFile.data) /\ CurFile'.start = CurFile.start
  BY <1>0, FsyncStep
<1>2. /\ ~IsSealed(CurFile) /\ wpc \notin Sealing /\ ~cur.done
      /\ ~cur.poisoned => cur.committed = Len(CurFile.data) /\ ~CurFile.torn
      /\ cur.poisoned =>
             \/ wpc = "dead" /\ unwritten # <<>> /\ Fits(unwritten[1])
             \/ phase = "closing" /\ wpc = "consume" /\ batch # <<>> /\ Fits(batch[1])
  BY DEF IInv, WriterInv
<1>3. ~IsSealed(CurFile')  BY <1>1, <1>2 DEF IsSealed
<1>4. \A m : (m.kind = "rec" /\ m.vis < SegEnd(CurFile')) = Fits(m)  BY <1>1 DEF Fits, SegEnd
<1>5. WriterInv'
  <2>1. files' # <<>>  BY <1>1 DEF CurOnly
  <2>3. cur'.poisoned =>
             \/ wpc' = "dead" /\ unwritten' # <<>>
                /\ unwritten'[1].kind = "rec" /\ unwritten'[1].vis < SegEnd(CurFile')
             \/ phase' = "closing" /\ wpc' = "consume" /\ batch' # <<>>
                /\ batch'[1].kind = "rec" /\ batch'[1].vis < SegEnd(CurFile')
    BY <1>2, <1>4
  <2>4. wpc' \notin Sealing /\ wpc' # "rename" /\ wpc' # "finish"  BY <1>2 DEF Sealing
  <2> QED  BY <1>1, <1>2, <1>3, <2>1, <2>3, <2>4, OthersSealed DEF WriterInv, Fits
<1>6. ClosedInv' /\ RecoverInv'  BY DEF ClosedInv, RecoverInv, Live
<1>7. FaultFreeInv'
  BY <1>1, <1>2 DEF IInv, FaultFreeInv, Sealing
<1>8. SealInv'  BY <1>0, <1>1, <1>3, SealCur, TypeFacts DEF IInv
<1>9. \A i \in DOMAIN files : files'[i].data = files[i].data  BY <1>1 DEF CurOnly
<1>10. DOMAIN files' = DOMAIN files  BY <1>1 DEF CurOnly
<1>11. IndexInv'  BY <1>1, <1>9, <1>10, IndexSame
<1> QED  BY <1>1, <1>5, <1>6, <1>7, <1>8, <1>11 DEF FileInv, CurOnly

LEMMA SpoolStep ==
    ASSUME IInv, SpoolSync
    PROVE  FileInv' /\ IndexInv' /\ FilesKept(files, files')
<1> USE DEF bounds
<1>0. TypeOK /\ FALSE \in BOOLEAN  BY DEF IInv
<1>1. /\ phase = "stopping"
      /\ UNCHANGED <<faults, outages, next, pending, batch, queue, wpc, phase, unwritten, fatal>>
  BY DEF SpoolSync
<1>2. Live /\ Live' /\ phase # "closing"  BY <1>1 DEF Live
<1>3. CASE UNCHANGED <<files, cur>>
  <2>1. FileInv'  BY <1>1, <1>2, <1>3, QuietStep
  <2>2. CurFile' = CurFile  BY <1>3 DEF CurFile, Last
  <2>3. FilesKept(files, files')  BY <1>0, <1>3, SameFiles, TypeFacts
  <2>4. DOMAIN files' = DOMAIN files /\ \A i \in DOMAIN files : files'[i].data = files[i].data
    BY <1>3
  <2> QED  BY <1>1, <1>2, <1>3, <2>1, <2>2, <2>3, <2>4, IndexSame
<1>4. CASE ~UNCHANGED <<files, cur>>
  <2>1. cur.handle /\ files' = [files EXCEPT ![Len(files)] = Fsynced(files[Len(files)])]
        /\ cur' = [cur EXCEPT !.dirty = FALSE]
    BY <1>4, Zenon DEF SpoolSync
  <2>2. SetCurFile(Fsynced(CurFile))  BY <2>1 DEF SetCurFile, CurFile, Last
  <2>3. /\ cur'.handle = cur.handle /\ cur'.poisoned = cur.poisoned /\ cur'.done = cur.done
        /\ cur'.committed = cur.committed
    BY <1>0, <2>1, CurColumns, Zenon
  <2> QED  BY <1>1, <1>2, <2>1, <2>2, <2>3, SyncStep
<1> QED  BY <1>3, <1>4


\* A step that neither adds nor takes away a seal and leaves sealed files alone.
SealsKept ==
    /\ FilesKept(files, files') /\ Len(files') = Len(files) /\ DOMAIN files' = DOMAIN files
    /\ files' # <<>> /\ CurFile'.start = CurFile.start /\ CurFile'.seal = CurFile.seal
    /\ \A i \in DOMAIN files :
         files'[i].seal = files[i].seal /\ (IsSealed(files[i]) => Respects(files[i], files'[i]))

LEMMA SameSeals ==
    ASSUME TypeOK, files # <<>>, UNCHANGED files
    PROVE  SealsKept /\ CurFile' = CurFile
<1>1. CurFile' = CurFile  BY DEF CurFile, Last
<1>2. FilesKept(files, files')  BY SameFiles, TypeFacts
<1> QED  BY <1>1, <1>2, RespectsSame DEF SealsKept

LEMMA CurSeals ==
    ASSUME TypeOK, CurOnly, ~IsSealed(CurFile), CurFile'.seal = CurFile.seal,
           CurFile'.start = CurFile.start
    PROVE  SealsKept
<1>1. \A i \in DOMAIN files :
         files'[i].seal = files[i].seal /\ (IsSealed(files[i]) => Respects(files[i], files'[i]))
  BY RespectsSame DEF CurOnly
<1> QED  BY <1>1 DEF CurOnly, SealsKept

LEMMA DirSeals ==
    ASSUME TypeOK, files # <<>>, files' = DirSynced(files)
    PROVE  /\ SealsKept /\ CurFile'.data = CurFile.data /\ CurFile'.torn = CurFile.torn
           /\ CurFile'.synced = CurFile.synced /\ CurFile'.name = CurFile.name
           /\ \A i \in DOMAIN files : files'[i].data = files[i].data
<1>1. /\ files \in Seq(File) /\ \A i \in DOMAIN files : Sound(files[i])
      /\ Len(files) \in DOMAIN files /\ CurFile = files[Len(files)]
  BY TypeFacts, CurFacts
<1>2. /\ files' \in Seq(File) /\ DOMAIN files' = DOMAIN files /\ Len(files') = Len(files)
      /\ \A i \in DOMAIN files : LET f == files[i]  g == files'[i] IN
                 /\ Kept(f, g) /\ g.data = f.data /\ g.torn = f.torn /\ g.synced = f.synced
                 /\ g.name = f.name /\ g.seal = f.seal /\ g.onDisk = f.onDisk
  BY <1>1, DirSyncedFacts
<1>3. FilesKept(files, files')  BY <1>1, SyncFiles
<1>4. CurFile' = files'[Len(files)]  BY <1>2 DEF CurFile, Last
<1>5. \A i \in DOMAIN files : files'[i].start = files[i].start /\ Respects(files[i], files'[i])
  BY <1>2 DEF Kept, Respects
<1>6. files' # <<>>  BY <1>1, <1>2
<1> QED  BY <1>1, <1>2, <1>3, <1>4, <1>5, <1>6 DEF SealsKept

LEMMA KeptSeals ==
    ASSUME TypeOK, SealInv, SealsKept, faults' \in Nat, outages' \in Nat,
           faults' >= faults, outages' >= outages
    PROVE  SealInv'
<1>1. \A i \in DOMAIN files' :
         IsSealed(files'[i]) => i \in DOMAIN files /\ Respects(files[i], files'[i])
  BY DEF SealsKept, IsSealed
<1> QED  BY <1>1, SealMono

LEMMA KeptOthers ==
    ASSUME IInv, Live, SealsKept
    PROVE  \A i \in 1..(Len(files') - 1) : IsSealed(files'[i])
<1>1. DOMAIN files = 1..Len(files) /\ Len(files) \in Nat  BY TypeFacts DEF IInv
<1> QED  BY <1>1 DEF IInv, WriterInv, SealsKept, IsSealed

\* A storage call raised: the drain task is dead, or close() ended the process.
LEMMA FaultStep ==
    ASSUME IInv, Live, SealsKept, faults' \in Nat \ {0}, faults' >= faults, UNCHANGED outages,
           NEW r \in Seq(Record), Raise(r), wpc # "dead",
           phase # "closing" =>
             /\ cur'.handle => ~IsSealed(CurFile)
             /\ ~cur'.poisoned => cur'.committed = Len(CurFile'.data) /\ ~CurFile'.torn
             /\ cur'.poisoned => r # <<>> /\ Fits(r[1])
             /\ cur'.done => IsSealed(CurFile)
    PROVE  FileInv' /\ IndexInv' /\ FilesKept(files, files')
<1>0. TypeOK /\ FilesKept(files, files')  BY DEF IInv, SealsKept
<1>1. SealInv'  BY <1>0, KeptSeals, TypeFacts DEF IInv
<1>2. FaultFreeInv' /\ IndexInv'  BY DEF FaultFreeInv, IndexInv
<1>3. CASE phase = "closing"
  <2>1. phase' = "down"  BY <1>3 DEF Raise
  <2> QED  BY <1>0, <1>1, <1>2, <2>1 DEF FileInv, WriterInv, ClosedInv, RecoverInv, Live
<1>4. CASE phase # "closing"
  <2>1. wpc' = "dead" /\ unwritten' = unwritten \o r /\ UNCHANGED phase  BY <1>4 DEF Raise
  <2>2. ClosedInv' /\ RecoverInv'  BY <2>1 DEF ClosedInv, RecoverInv, Live
  <2>3. unwritten' = r
    <3>1. unwritten = <<>>  BY DEF IInv, ThreadInv
    <3> QED  BY <2>1, <3>1
  <2>4. IsSealed(CurFile') = IsSealed(CurFile) /\ SegEnd(CurFile') = SegEnd(CurFile)
    BY DEF SealsKept, IsSealed, SegEnd
  <2>5. cur'.poisoned => unwritten' # <<>> /\ unwritten'[1].kind = "rec"
                         /\ unwritten'[1].vis < SegEnd(CurFile')
    BY <1>4, <2>3, <2>4 DEF Fits
  <2>6. files' # <<>>  BY DEF SealsKept
  <2>7. WriterInv'
    BY <1>4, <2>1, <2>4, <2>5, <2>6, KeptOthers DEF WriterInv, Fits, Sealing
  <2> QED  BY <1>0, <1>1, <1>2, <2>2, <2>7 DEF FileInv
<1> QED  BY <1>3, <1>4

LEMMA FaultCount ==
    ASSUME TypeOK, NEW k, Fault(k)
    PROVE  faults' \in Nat \ {0} /\ faults' >= faults
BY TypeFacts DEF Fault

\* What the writer knows while it flushes.
LEMMA FlushReady ==
    ASSUME IInv, wpc = "consume", cur.handle, ~cur.poisoned
    PROVE  /\ TypeOK /\ Live /\ files # <<>> /\ ~IsSealed(CurFile) /\ ~cur.done
           /\ cur.committed = Len(CurFile.data) /\ ~CurFile.torn
BY LiveFacts DEF IInv, WriterInv

LEMMA WriteFailsStep ==
    ASSUME IInv, WriteFails
    PROVE  FileInv' /\ IndexInv' /\ FilesKept(files, files')
<1>1. /\ wpc = "consume" /\ FlushLen > 0 /\ cur.handle /\ ~cur.poisoned /\ Raise(Flushable)
      /\ UNCHANGED outages
  BY DEF WriteFails
<1>2. /\ TypeOK /\ Live /\ files # <<>> /\ ~IsSealed(CurFile) /\ ~cur.done
      /\ cur.committed = Len(CurFile.data) /\ ~CurFile.torn
  BY <1>1, FlushReady
<1>3. PICK r \in Seq(Record) : r = Flushable  BY <1>2, TypeFacts, FlushSeqs
<1>4. Raise(r) /\ r # <<>> /\ Fits(r[1])
  <2>1. FlushLen \in Nat /\ Len(r) = FlushLen /\ r[1] = batch[1]
    BY <1>1, <1>2, <1>3, TypeFacts, FlushSeqs
  <2>2. batch[1].kind = "rec" /\ batch[1].vis < SegEnd(Last(files))
    BY <1>1, <1>2, <2>1, TypeFacts, FlushFacts
  <2> QED  BY <1>1, <1>3, <2>1, <2>2 DEF Fits, CurFile
<1>5. CASE /\ Fault("write") /\ SetCurFile(Fsynced(CurFile))
           /\ phase # "closing" => cur' = cur
  <2>1. /\ CurOnly /\ CurFile'.data = CurFile.data /\ CurFile'.torn = CurFile.torn
        /\ CurFile'.seal = CurFile.seal /\ CurFile'.start = CurFile.start
    BY <1>2, <1>5, FsyncStep
  <2>2. SealsKept  BY <1>2, <2>1, CurSeals
  <2>3. faults' \in Nat \ {0} /\ faults' >= faults  BY <1>2, <1>5, FaultCount
  <2> QED  BY <1>1, <1>2, <1>4, <1>5, <2>1, <2>2, <2>3, FaultStep
<1>6. CASE /\ Fault("rollback")
           /\ \E n \in 0..FlushLen, torn \in BOOLEAN :
                SetCurFile(Cut(CurFile, SubSeq(batch, 1, n), torn))
           /\ phase # "closing" => cur' = [cur EXCEPT !.poisoned = TRUE]
  <2>1. CurOnly /\ CurFile'.seal = CurFile.seal /\ CurFile'.start = CurFile.start
    BY <1>2, <1>6, CutStep
  <2>2. SealsKept  BY <1>2, <2>1, CurSeals
  <2>3. faults' \in Nat \ {0} /\ faults' >= faults  BY <1>2, <1>6, FaultCount
  <2>4. TRUE \in BOOLEAN  OBVIOUS
  <2>5. phase # "closing" => cur'.poisoned = TRUE /\ cur'.done = cur.done
    BY <1>2, <1>6, <2>4, CurColumns, Zenon
  <2> QED  BY <1>1, <1>2, <1>4, <2>2, <2>3, <2>5, FaultStep
<1> QED  BY <1>5, <1>6 DEF WriteFails

LEMMA FsyncFailsStep ==
    ASSUME IInv, FsyncFails
    PROVE  FileInv' /\ IndexInv' /\ FilesKept(files, files')
<1>1. /\ wpc = "consume" /\ FlushLen > 0 /\ cur.handle /\ ~cur.poisoned /\ Raise(Flushable)
      /\ UNCHANGED outages /\ Fault("fsync")
      /\ SetCurFile([CurFile EXCEPT !.data = @ \o Flushable])
      /\ phase # "closing" => cur' = [cur EXCEPT !.committed = cur.committed + FlushLen, !.dirty = TRUE]
  BY DEF FsyncFails
<1>2. /\ TypeOK /\ Live /\ files # <<>> /\ ~IsSealed(CurFile) /\ ~cur.done
      /\ cur.committed = Len(CurFile.data) /\ ~CurFile.torn
  BY <1>1, FlushReady
<1>3. /\ Flushable \in Seq(Record) /\ Len(Flushable) = FlushLen /\ FlushLen \in Nat
      /\ CurFile.data \in Seq(Record) /\ cur.committed \in Nat
  BY <1>2, TypeFacts, FlushSeqs, CurFacts, FileFacts, WriterFacts
<1>4. PICK due : due \in BOOLEAN /\ due = FALSE  OBVIOUS
<1>5. LET w == [CurFile EXCEPT !.data = @ \o Flushable]
      IN  SetCurFile(IF due THEN Fsynced(w) ELSE w)
  BY <1>1, <1>4
<1>6. /\ CurOnly /\ CurFile'.data = CurFile.data \o Flushable
      /\ CurFile'.torn = CurFile.torn /\ CurFile'.seal = CurFile.seal
      /\ CurFile'.start = CurFile.start
  BY <1>2, <1>4, <1>5, FlushStep
<1>7. SealsKept  BY <1>2, <1>6, CurSeals
<1>8. faults' \in Nat \ {0} /\ faults' >= faults  BY <1>1, <1>2, FaultCount
<1>9. cur.committed + FlushLen = Len(CurFile'.data) /\ cur.committed + FlushLen \in Nat
  <2>1. PICK d \in Seq(Record), s \in Seq(Record) : d = CurFile.data /\ s = Flushable  BY <1>3
  <2>2. CurFile'.data = d \o s /\ Len(d \o s) = Len(d) + Len(s) /\ Len(d) \in Nat  BY <1>6, <2>1
  <2> QED  BY <1>2, <1>3, <2>1, <2>2
<1>11. phase # "closing" => /\ cur'.committed = cur.committed + FlushLen
                            /\ cur'.poisoned = cur.poisoned /\ cur'.done = cur.done
  <2>1. PICK n \in Nat : n = cur.committed + FlushLen  BY <1>9
  <2>0. PICK b \in BOOLEAN : b = TRUE  OBVIOUS
  <2>2. phase # "closing" => cur' = [cur EXCEPT !.committed = n, !.dirty = b]  BY <1>1, <2>0, <2>1
  <2>3. phase # "closing" => cur'.committed = n /\ cur'.poisoned = cur.poisoned
                             /\ cur'.done = cur.done
    <3> SUFFICES ASSUME phase # "closing"
                 PROVE  cur'.committed = n /\ cur'.poisoned = cur.poisoned /\ cur'.done = cur.done
      OBVIOUS
    <3>1. cur' = [cur EXCEPT !.committed = n, !.dirty = b]  BY <2>2
    <3> QED  BY <1>2, <3>1, CurColumns, Zenon
  <2> QED  BY <2>1, <2>3
<1>12. PICK r \in Seq(Record) : r = Flushable  BY <1>3
<1>13. phase # "closing" =>
             /\ cur'.handle => ~IsSealed(CurFile)
             /\ ~cur'.poisoned => cur'.committed = Len(CurFile'.data) /\ ~CurFile'.torn
             /\ cur'.poisoned => r # <<>> /\ Fits(r[1])
             /\ cur'.done => IsSealed(CurFile)
  BY <1>1, <1>2, <1>6, <1>9, <1>11
<1>14. Raise(r)  BY <1>1, <1>12
<1> QED  BY <1>1, <1>2, <1>7, <1>8, <1>13, <1>14, FaultStep

LEMMA WriteRefusedStep ==
    ASSUME IInv, WriteRefused
    PROVE  FileInv' /\ IndexInv' /\ FilesKept(files, files')
<1> USE DEF bounds
<1>1. /\ wpc = "consume" /\ (~cur.handle \/ cur.poisoned) /\ Raise(Flushable)
      /\ UNCHANGED <<outages, faults, files>> /\ (phase # "closing" => cur' = cur)
  BY DEF WriteRefused
<1>2. TypeOK /\ Live /\ files # <<>>  BY <1>1, LiveFacts DEF IInv
<1>3. faults' \in Nat \ {0} /\ faults' >= faults
  <2>1. faults # 0  BY <1>1, <1>2 DEF IInv, FaultFreeInv
  <2> QED  BY <1>1, <1>2, <2>1, TypeFacts
<1>4. PICK r \in Seq(Record) : r = Flushable  BY <1>2, TypeFacts, FlushSeqs
<1>5. SealsKept /\ CurFile' = CurFile  BY <1>1, <1>2, SameSeals
<1>6. phase # "closing" =>
             /\ cur'.handle => ~IsSealed(CurFile)
             /\ ~cur'.poisoned => cur'.committed = Len(CurFile'.data) /\ ~CurFile'.torn
             /\ cur'.poisoned => r # <<>> /\ Fits(r[1])
             /\ cur'.done => IsSealed(CurFile)
  BY <1>1, <1>2, <1>5 DEF IInv, WriterInv
<1> QED  BY <1>1, <1>2, <1>3, <1>4, <1>5, <1>6, FaultStep

\* A storage call of seal() raised before it did anything.
LEMMA SealFaultStep ==
    ASSUME IInv, Live, NEW k, Fault(k), Raise(<<>>), UNCHANGED <<files, outages>>,
           wpc \in {"consume", "rename", "publish", "reseal"},
           phase # "closing" => /\ cur'.handle => cur.handle
                                /\ cur'.poisoned = cur.poisoned /\ cur'.done = cur.done
                                /\ cur'.committed = cur.committed
    PROVE  FileInv' /\ IndexInv' /\ FilesKept(files, files')
<1>1. TypeOK /\ files # <<>>  BY LiveFacts DEF IInv
<1>2. faults' \in Nat \ {0} /\ faults' >= faults  BY <1>1, FaultCount
<1>3. PICK r \in Seq(Record) : r = <<>>
  <2>1. <<>> \in Seq(Record)  OBVIOUS
  <2> QED  BY <2>1
<1>4. SealsKept /\ CurFile' = CurFile  BY <1>1, SameSeals
<1>5. phase # "closing" =>
             /\ cur'.handle => ~IsSealed(CurFile)
             /\ ~cur'.poisoned => cur'.committed = Len(CurFile'.data) /\ ~CurFile'.torn
             /\ cur'.poisoned => r # <<>> /\ Fits(r[1])
             /\ cur'.done => IsSealed(CurFile)
  BY <1>4 DEF IInv, WriterInv
<1>6. Raise(r) /\ wpc # "dead"  BY <1>3
<1> QED  BY <1>1, <1>2, <1>4, <1>5, <1>6, FaultStep

LEMMA SealFsyncFailsStep ==
    ASSUME IInv, SealFsyncFails
    PROVE  FileInv' /\ IndexInv' /\ FilesKept(files, files')
<1>1. /\ wpc = "consume" /\ Fault("seal_fsync") /\ Raise(<<>>) /\ UNCHANGED <<files, outages>>
      /\ phase # "closing" => cur' = [cur EXCEPT !.handle = FALSE]
  BY DEF SealFsyncFails
<1>2. Live /\ TypeOK  BY <1>1, LiveFacts DEF IInv
<1>3. FALSE \in BOOLEAN  OBVIOUS
<1>4. phase # "closing" => /\ cur'.handle = FALSE /\ cur'.committed = cur.committed
                           /\ cur'.poisoned = cur.poisoned /\ cur'.done = cur.done
  BY <1>1, <1>2, <1>3, CurColumns, Zenon
<1> QED  BY <1>1, <1>2, <1>4, SealFaultStep

LEMMA BatchDoneStep ==
    ASSUME IInv, BatchDone
    PROVE  FileInv' /\ IndexInv' /\ FilesKept(files, files')
<1> USE DEF threadVars
<1>1. /\ wpc = "consume" /\ batch = <<>> /\ phase # "closing"
      /\ UNCHANGED <<next, pending, queue, tail, timer, phase, drained, target, prevVis, outages,
                     batch, unwritten, fatal>>
  BY Zenon DEF BatchDone
<1>2. TypeOK /\ Live /\ Live' /\ files # <<>>  BY <1>1, LiveFacts DEF IInv, Live
<1>3. CASE wpc' = "idle" /\ NoFault /\ UNCHANGED <<files, cur>>
  <2>1. SealsKept /\ CurFile' = CurFile  BY <1>2, <1>3, SameSeals
  <2>2. WriterInv'
    BY <1>1, <1>2, <1>3, <2>1 DEF IInv, WriterInv, Sealing, Fits
  <2>3. ClosedInv' /\ RecoverInv'  BY <1>2 DEF ClosedInv, RecoverInv, Live
  <2>4. FaultFreeInv'
    BY <1>1, <1>2, <1>3, <2>1 DEF IInv, FaultFreeInv, Sealing, NoFault
  <2>5. SealInv'  BY <1>1, <1>2, <1>3, SealSame, TypeFacts DEF IInv, NoFault
  <2>6. IndexInv'  BY <1>1, <1>2, <1>3, <2>1, IndexSame DEF NoFault
  <2> QED  BY <2>1, <2>2, <2>3, <2>4, <2>5, <2>6 DEF FileInv, SealsKept
<1>4. CASE wpc' = "idle" /\ NoFault /\ cur.handle /\ SetCurFile(Fsynced(CurFile))
           /\ cur' = [cur EXCEPT !.dirty = FALSE]
  <2>1. FALSE \in BOOLEAN  OBVIOUS
  <2>2. /\ cur'.handle = cur.handle /\ cur'.poisoned = cur.poisoned /\ cur'.done = cur.done
        /\ cur'.committed = cur.committed
    BY <1>2, <1>4, <2>1, CurColumns, Zenon
  <2> QED  BY <1>1, <1>2, <1>4, <2>2, SyncStep DEF NoFault
<1>5. CASE Fault("force") /\ wpc' = "dead" /\ UNCHANGED <<cur, files>>
  <2>1. unwritten' = unwritten \o <<>> /\ batch' = <<>>
    BY <1>1, <1>2, TypeFacts
  <2>2. fatal' = (fatal \/ <<>> # <<>>)
    <3>1. fatal \in BOOLEAN  BY <1>2 DEF TypeOK
    <3> QED  BY <1>1, <3>1, Zenon
  <2>3. Raise(<<>>)  BY <1>1, <1>5, <2>1, <2>2 DEF Raise
  <2> QED  BY <1>1, <1>2, <1>5, <2>3, SealFaultStep
<1> QED  BY <1>3, <1>4, <1>5, Zenon DEF BatchDone

\* write_batch.
LEMMA WriteBatchStep ==
    ASSUME IInv, WriteBatch
    PROVE  FileInv' /\ IndexInv' /\ FilesKept(files, files')
<1> USE DEF threadVars, bounds
<1>1. /\ wpc = "consume" /\ FlushLen > 0 /\ cur.handle /\ ~cur.poisoned /\ batch' = AfterFlush
      /\ UNCHANGED <<next, pending, queue, phase, wpc, unwritten, fatal, faults, outages>>
  BY DEF WriteBatch
<1>2. /\ TypeOK /\ Live /\ files # <<>> /\ ~IsSealed(CurFile) /\ ~cur.done
      /\ cur.committed = Len(CurFile.data) /\ ~CurFile.torn
  BY <1>1, FlushReady
<1>3. PICK due \in BOOLEAN :
        /\ LET w == [CurFile EXCEPT !.data = @ \o Flushable]
           IN  SetCurFile(IF due THEN Fsynced(w) ELSE w)
        /\ cur' = [cur EXCEPT !.committed = cur.committed + FlushLen, !.dirty = ~due]
  BY DEF WriteBatch
<1>4. /\ CurOnly /\ CurFile'.data = CurFile.data \o Flushable
      /\ CurFile'.torn = CurFile.torn /\ CurFile'.seal = CurFile.seal
      /\ CurFile'.start = CurFile.start
  BY <1>2, <1>3, FlushStep
<1>5. PICK d \in Seq(Record), s \in Seq(Record) : d = CurFile.data /\ s = Flushable
  BY <1>2, TypeFacts, FlushSeqs, CurFacts, FileFacts
<1>6. /\ CurFile'.data = d \o s /\ Len(d \o s) = Len(d) + Len(s) /\ Len(d) \in Nat
      /\ Len(s) = FlushLen /\ FlushLen \in Nat
  <2>1. Len(Flushable) = FlushLen /\ FlushLen \in Nat  BY <1>2, TypeFacts, FlushSeqs
  <2>2. Len(d \o s) = Len(d) + Len(s) /\ Len(d) \in Nat  OBVIOUS
  <2>3. CurFile'.data = d \o s  BY <1>4, <1>5
  <2> QED  BY <1>5, <2>1, <2>2, <2>3
<1>7. /\ cur'.committed = Len(CurFile'.data) /\ cur'.handle = cur.handle
      /\ cur'.poisoned = cur.poisoned /\ cur'.done = cur.done
  <2>1. PICK n \in Nat : n = cur.committed + FlushLen  BY <1>2, <1>5, <1>6
  <2>2. PICK b \in BOOLEAN : b = ~due  BY Zenon
  <2>3. cur' = [cur EXCEPT !.committed = n, !.dirty = b]  BY <1>3, <2>1, <2>2
  <2> DEFINE c == [cur EXCEPT !.committed = n, !.dirty = b]
  <2>4. c.committed = n /\ c.handle = cur.handle /\ c.poisoned = cur.poisoned /\ c.done = cur.done
    BY <1>2, CurColumns
  <2> HIDE DEF c
  <2>5. cur' = c  BY <2>3 DEF c
  <2> QED  BY <1>2, <1>5, <1>6, <2>1, <2>4, <2>5
<1>8. ~IsSealed(CurFile')  BY <1>2, <1>4 DEF IsSealed
<1>9. WriterInv'
  <2>1. files' # <<>>  BY <1>4 DEF CurOnly
  <2>2. Live'  BY <1>1, <1>2 DEF Live
  <2> QED  BY <1>1, <1>2, <1>4, <1>7, <1>8, <2>1, OthersSealed DEF WriterInv, Sealing
<1>10. ClosedInv' /\ RecoverInv'  BY <1>1, <1>2 DEF ClosedInv, RecoverInv, Live
<1>11. FaultFreeInv'  BY <1>1, <1>7 DEF IInv, FaultFreeInv, Sealing, Live
<1>12. SealInv'  BY <1>1, <1>2, <1>4, <1>8, SealCur, TypeFacts DEF IInv
<1>13. IndexInv'
  <2> SUFFICES ASSUME faults = 0 PROVE IndexInv'
    BY <1>1 DEF IndexInv
  <2>1. /\ \A i \in DOMAIN files : Rising(files[i].data) /\ UpTo(files[i].data, next)
        /\ UpTo(batch, next) /\ UpTo(queue, next)
        /\ pending # NoRec => pending.idx = next
        /\ \/ next = 1
           \/ \E i \in DOMAIN files : Has(files[i].data, next - 1)
           \/ Has(batch, next - 1)
           \/ Has(queue, next - 1)
        /\ Rising(batch) /\ Rising(queue) /\ Under(batch, queue)
        /\ Under(CurFile.data, batch) /\ Under(CurFile.data, queue)
    BY <1>2 DEF IInv, IndexInv
  <2>2. /\ batch \in Seq(Message) /\ FlushLen \in 0..Len(batch) /\ s = SubSeq(batch, 1, FlushLen)
        /\ batch' = SubSeq(batch, FlushLen + 1, Len(batch))
    BY <1>1, <1>2, <1>5, TypeFacts, FlushSeqs DEF Flushable, AfterFlush
  <2>3. PICK c : c = SubSeq(batch, FlushLen + 1, Len(batch))  OBVIOUS
  <2>4. /\ s \in Seq(Message) /\ Rising(s) /\ Rising(c) /\ Under(s, c)
        /\ UpTo(s, next) /\ UpTo(c, next)
        /\ Has(batch, next - 1) => Has(s, next - 1) \/ Has(c, next - 1)
        /\ Under(d, s) /\ Under(d, c) /\ Under(s, queue) /\ Under(c, queue)
    BY <1>5, <2>1, <2>2, <2>3, SplitIndex
  <2>5. /\ d \in Seq(Message) /\ Rising(d) /\ UpTo(d, next) /\ Len(files) \in DOMAIN files
        /\ files[Len(files)].data = d
    BY <1>2, <1>5, <2>1, CurFacts, DataIndex
  <2>6. /\ Rising(d \o s) /\ UpTo(d \o s, next) /\ Under(d \o s, c) /\ Under(d \o s, queue)
        /\ \A k : Has(d, k) \/ Has(s, k) => Has(d \o s, k)
    BY <1>5, <2>1, <2>4, <2>5, JoinIndex
  <2>7. /\ DOMAIN files' = DOMAIN files /\ files'[Len(files)].data = d \o s
        /\ \A i \in DOMAIN files : i # Len(files) => files'[i].data = files[i].data
    BY <1>4, <1>6 DEF CurOnly
  <2>8. \A i \in DOMAIN files' : Rising(files'[i].data) /\ UpTo(files'[i].data, next)
    BY <2>1, <2>6, <2>7
  <2>9. \/ next = 1
        \/ \E i \in DOMAIN files' : Has(files'[i].data, next - 1)
        \/ Has(c, next - 1)
        \/ Has(queue, next - 1)
    <3>1. ASSUME NEW i \in DOMAIN files, Has(files[i].data, next - 1)
          PROVE  Has(files'[i].data, next - 1)
      BY <2>5, <2>6, <2>7, <3>1
    <3> QED  BY <2>1, <2>4, <2>5, <2>6, <2>7, <3>1
  <2> QED  BY <1>1, <1>6, <2>1, <2>2, <2>3, <2>4, <2>6, <2>8, <2>9 DEF IndexInv
<1> QED  BY <1>4, <1>9, <1>10, <1>11, <1>12, <1>13 DEF FileInv, CurOnly

\* seal(): the handle goes first, then the bytes are fsynced.
LEMMA SealStartStep ==
    ASSUME IInv, SealStart
    PROVE  FileInv' /\ IndexInv' /\ FilesKept(files, files')
<1> USE DEF threadVars, bounds
<1>1. /\ wpc = "consume" /\ (AtBoundary \/ (batch = <<>> /\ phase = "closing"))
      /\ cur' = [cur EXCEPT !.handle = FALSE]
      /\ UNCHANGED <<next, pending, queue, phase, unwritten, fatal, faults, outages>>
  BY DEF SealStart
<1>2. TypeOK /\ Live /\ Live' /\ files # <<>>  BY <1>1, LiveFacts DEF IInv, Live
<1>3. ~cur.poisoned
  <2>1. SUFFICES ASSUME cur.poisoned PROVE FALSE  OBVIOUS
  <2>2. batch # <<>> /\ Fits(batch[1])  BY <1>1, <1>2, <2>1 DEF IInv, WriterInv
  <2>3. FlushLen = 0 /\ FlushLen \in 0..Len(batch) /\ Len(batch) \in Nat /\ Len(batch) # 0
    BY <1>1, <1>2, <2>2, TypeFacts, FlushFacts DEF AtBoundary
  <2>4. ~(batch[1].kind = "rec" /\ batch[1].vis < SegEnd(Last(files)))
    BY <1>2, <2>3, TypeFacts, FlushFacts
  <2> QED  BY <2>2, <2>4 DEF Fits, CurFile
<1>4. /\ ~cur.poisoned /\ cur.committed = Len(CurFile.data) /\ ~CurFile.torn
      /\ cur.handle => ~IsSealed(CurFile)
      /\ cur.done => IsSealed(CurFile)
  BY <1>2, <1>3 DEF IInv, WriterInv
<1>5. /\ cur'.handle = FALSE /\ cur'.poisoned = cur.poisoned /\ cur'.done = cur.done
      /\ cur'.committed = cur.committed
  <2>1. FALSE \in BOOLEAN  OBVIOUS
  <2> QED  BY <1>1, <1>2, <2>1, CurColumns, Zenon
<1>6. ClosedInv' /\ RecoverInv'  BY <1>1, <1>2 DEF ClosedInv, RecoverInv, Live
<1>7. faults = 0 => cur.handle  BY <1>1, <1>2 DEF IInv, FaultFreeInv
<1>8. CASE cur.handle /\ wpc' = "rename" /\ SetCurFile(Fsynced(CurFile))
  <2>1. /\ CurOnly /\ CurFile'.data = CurFile.data /\ CurFile'.torn = CurFile.torn
        /\ CurFile'.seal = CurFile.seal /\ CurFile'.name = CurFile.name
        /\ CurFile'.synced = Len(CurFile.data) /\ CurFile'.start = CurFile.start
    BY <1>2, <1>8, FsyncStep
  <2>2. ~IsSealed(CurFile')  BY <1>4, <1>8, <2>1 DEF IsSealed
  <2>3. WriterInv'
    <3>1. files' # <<>>  BY <2>1 DEF CurOnly
    <3>2. ~cur'.done  BY <1>4, <1>5, <1>8
    <3> QED  BY <1>1, <1>2, <1>4, <1>5, <1>8, <2>1, <2>2, <3>1, <3>2, OthersSealed DEF WriterInv, Sealing
  <2>4. FaultFreeInv'
    BY <1>1, <1>4, <1>5, <1>8, <2>1 DEF IInv, FaultFreeInv
  <2>5. SealInv'  BY <1>1, <1>2, <2>1, <2>2, SealCur, TypeFacts DEF IInv
  <2>6. DOMAIN files' = DOMAIN files /\ \A i \in DOMAIN files : files'[i].data = files[i].data
    BY <2>1 DEF CurOnly
  <2>7. IndexInv'
    <3> SUFFICES ASSUME faults = 0 PROVE IndexInv'
      BY <1>1 DEF IndexInv
    <3>1. /\ \A i \in DOMAIN files : Rising(files[i].data) /\ UpTo(files[i].data, next)
          /\ UpTo(batch, next) /\ UpTo(queue, next)
          /\ pending # NoRec => pending.idx = next
          /\ \/ next = 1
             \/ \E i \in DOMAIN files : Has(files[i].data, next - 1)
             \/ Has(batch, next - 1)
             \/ Has(queue, next - 1)
          /\ Rising(batch) /\ Rising(queue) /\ Under(batch, queue)
          /\ Under(CurFile.data, batch) /\ Under(CurFile.data, queue)
      BY <1>2 DEF IInv, IndexInv
    <3>2. /\ UpTo(batch', next) /\ Rising(batch') /\ Under(batch', queue)
          /\ Under(CurFile.data, batch')
          /\ Has(batch, next - 1) => Has(batch', next - 1)
      <4>1. CASE batch' = batch  BY <3>1, <4>1
      <4>2. CASE batch' # batch
        <5>1. batch # <<>> /\ Head(batch).kind = "rotate" /\ batch' = Tail(batch)
          BY <4>2, Zenon DEF SealStart, AtBoundary
        <5> QED  BY <1>2, <3>1, <5>1, TypeFacts, TailIndex
      <4> QED  BY <4>1, <4>2
    <3> QED  BY <1>1, <2>1, <2>6, <3>1, <3>2 DEF IndexInv
  <2> QED  BY <1>6, <2>1, <2>3, <2>4, <2>5, <2>7 DEF FileInv, CurOnly
<1>9. CASE ~cur.handle /\ wpc' \in {"finish", "reseal"} /\ (wpc' = "finish" => cur.done)
           /\ UNCHANGED files
  <2>1. SealsKept /\ CurFile' = CurFile  BY <1>2, <1>9, SameSeals
  <2>2. WriterInv'
    BY <1>1, <1>2, <1>4, <1>5, <1>9, <2>1, KeptOthers DEF WriterInv, Sealing, SealsKept
  <2>3. FaultFreeInv' /\ IndexInv'  BY <1>1, <1>7, <1>9 DEF FaultFreeInv, IndexInv
  <2>4. SealInv'  BY <1>1, <1>2, <1>9, SealSame, TypeFacts DEF IInv
  <2> QED  BY <1>6, <2>1, <2>2, <2>3, <2>4 DEF FileInv, SealsKept
<1> QED  BY <1>8, <1>9, Zenon DEF SealStart

\* seal(): the rename.
LEMMA SealRenameStep ==
    ASSUME IInv, SealRename
    PROVE  FileInv' /\ IndexInv' /\ FilesKept(files, files')
<1>1. wpc = "rename" /\ phase # "recovering" /\ UNCHANGED outages  BY DEF SealRename
<1>2. TypeOK /\ Live /\ files # <<>>  BY <1>1, LiveFacts DEF IInv
<1>3. CASE Fault("rename") /\ UNCHANGED files /\ Raise(<<>>) /\ (phase # "closing" => cur' = cur)
  BY <1>1, <1>2, <1>3, SealFaultStep
<1>4. CASE /\ wpc' = "publish" /\ NoFault /\ SetCurFile([CurFile EXCEPT !.name = "ndjson"])
           /\ UNCHANGED <<phase, next, pending, queue, batch, unwritten, fatal, cur>>
  <2>1. /\ CurOnly /\ CurFile'.data = CurFile.data /\ CurFile'.torn = CurFile.torn
        /\ CurFile'.seal = CurFile.seal /\ CurFile'.name = "ndjson"
        /\ CurFile'.synced = CurFile.synced /\ CurFile'.start = CurFile.start
    BY <1>2, <1>4, RenameStep
  <2>2. /\ ~IsSealed(CurFile) /\ ~cur.poisoned /\ cur.committed = Len(CurFile.data)
        /\ ~CurFile.torn /\ ~cur.handle /\ ~cur.done
    BY <1>1, <1>2 DEF IInv, WriterInv, Sealing
  <2>3. ~IsSealed(CurFile')  BY <2>1, <2>2 DEF IsSealed
  <2>4. WriterInv'
    <3>1. files' # <<>>  BY <2>1 DEF CurOnly
    <3> QED  BY <1>1, <1>2, <1>4, <2>1, <2>2, <2>3, <3>1, OthersSealed DEF WriterInv, Sealing
  <2>5. ClosedInv' /\ RecoverInv'  BY <1>2, <1>4 DEF ClosedInv, RecoverInv, Live
  <2>6. FaultFreeInv'
    BY <1>1, <1>2, <1>4, <2>1, <2>2 DEF IInv, FaultFreeInv, NoFault, Sealing
  <2>7. SealInv'  BY <1>1, <1>2, <1>4, <2>1, <2>3, SealCur, TypeFacts DEF IInv, NoFault
  <2>8. DOMAIN files' = DOMAIN files /\ \A i \in DOMAIN files : files'[i].data = files[i].data
    BY <2>1 DEF CurOnly
  <2>9. IndexInv'  BY <1>2, <1>4, <2>1, <2>8, IndexSame DEF NoFault, Live
  <2> QED  BY <2>1, <2>4, <2>5, <2>6, <2>7, <2>9 DEF FileInv, CurOnly
<1> QED  BY <1>3, <1>4 DEF SealRename

\* seal(): the seal is written.
LEMMA SealPublishStep ==
    ASSUME IInv, SealPublish
    PROVE  FileInv' /\ IndexInv' /\ FilesKept(files, files')
<1>1. wpc \in {"publish", "reseal"} /\ phase # "recovering" /\ UNCHANGED outages  BY DEF SealPublish
<1>2. TypeOK /\ Live /\ files # <<>>  BY <1>1, LiveFacts DEF IInv
<1>3. CASE Fault("seal_write") /\ UNCHANGED files /\ Raise(<<>>) /\ (phase # "closing" => cur' = cur)
  BY <1>1, <1>2, <1>3, SealFaultStep
<1>4. CASE /\ wpc' = "finish" /\ NoFault
           /\ LET fs == IF wpc = "publish" THEN DirSynced(files) ELSE files
              IN  files' = [fs EXCEPT ![Len(fs)].seal =
                               SealOf(cur.committed, CurFile.data, prevVis, "writer")]
           /\ UNCHANGED <<phase, next, pending, queue, batch, unwritten, fatal, cur>>
  <2>1. PICK sl : sl = SealOf(cur.committed, CurFile.data, prevVis, "writer")  OBVIOUS
  <2>2. /\ ~cur.poisoned /\ cur.committed = Len(CurFile.data) /\ ~CurFile.torn /\ ~cur.handle
        /\ \A i \in 1..(Len(files) - 1) : IsSealed(files[i])
    BY <1>1, <1>2 DEF IInv, WriterInv, Sealing
  <2>3. sl \in SealType /\ sl.lines = Len(CurFile.data) /\ sl # NoSeal
    <3>1. cur.committed \in Int  BY <1>2, WriterFacts
    <3> QED  BY <2>1, <2>2, <3>1, SealOfFacts
  <2>4. PICK fs : fs = IF wpc = "publish" THEN DirSynced(files) ELSE files  OBVIOUS
  <2>5. /\ fs \in Seq(File) /\ DOMAIN fs = DOMAIN files /\ Len(fs) = Len(files)
        /\ \A i \in DOMAIN files :
             /\ Kept(files[i], fs[i]) /\ fs[i].synced = files[i].synced
             /\ Respects(files[i], fs[i]) /\ fs[i].name = files[i].name /\ fs[i].torn = files[i].torn
    <3>1. CASE wpc = "publish"
      BY <1>2, <2>4, <3>1, DirSyncedFacts, TypeFacts DEF Respects
    <3>2. CASE wpc # "publish"
      BY <1>2, <2>4, <3>2, KeptSame, RespectsSame, TypeFacts
    <3> QED  BY <3>1, <3>2
  <2>6. PICK k : k = Len(files) /\ k \in DOMAIN files /\ CurFile = files[k]  BY <1>2, CurFacts
  <2>7. PICK f, g : f = fs[k] /\ g = [f EXCEPT !.seal = sl]  OBVIOUS
  <2>8. Sound(f)  BY <2>5, <2>6, <2>7 DEF Kept
  <2>9. /\ Kept(f, g) /\ g.data = f.data /\ g.torn = f.torn /\ g.synced = f.synced
        /\ g.name = f.name /\ g.seal = sl
    BY <2>3, <2>7, <2>8, SealFacts
  <2>10. files' = [fs EXCEPT ![k] = g]
    BY <1>4, <2>1, <2>4, <2>5, <2>6, <2>7
  <2>11. \A i \in DOMAIN fs : Sound(fs[i])  BY <2>5 DEF Kept
  <2>12. /\ FilesKept(fs, files') /\ DOMAIN files' = DOMAIN files /\ Len(files') = Len(files)
         /\ files' \in Seq(File) /\ files'[k] = g
         /\ \A i \in DOMAIN files : i # k => files'[i] = fs[i]
    <3>1. k \in DOMAIN fs /\ Kept(fs[k], g) /\ fs \in Seq(File)  BY <2>5, <2>6, <2>7, <2>9
    <3>2. PICK gs : gs = [fs EXCEPT ![k] = g]  OBVIOUS
    <3>3. /\ FilesKept(fs, gs) /\ DOMAIN gs = DOMAIN fs /\ Len(gs) = Len(fs)
          /\ gs \in Seq(File) /\ gs[k] = g /\ \A i \in DOMAIN fs : i # k => gs[i] = fs[i]
      <4> DEFINE hs == [fs EXCEPT ![k] = g]
      <4>1. /\ FilesKept(fs, hs) /\ DOMAIN hs = DOMAIN fs /\ Len(hs) = Len(fs)
            /\ hs \in Seq(File) /\ hs[k] = g /\ \A i \in DOMAIN fs : i # k => hs[i] = fs[i]
        BY <2>11, <3>1, SetFile
      <4> HIDE DEF hs
      <4>2. gs = hs  BY <3>2 DEF hs
      <4> QED  BY <4>1, <4>2
    <3>4. files' = gs  BY <2>10, <3>2
    <3> QED  BY <2>5, <3>3, <3>4
  <2>13. Kept(files[k], g)
    <3>1. Sound(files[k])  BY <1>2, <2>6, TypeFacts
    <3>2. f.synced >= files[k].synced  BY <2>5, <2>6, <2>7, <3>1, FileFacts DEF Sound
    <3> QED  BY <2>5, <2>6, <2>7, <2>9, <3>1, <3>2, KeptTwice
  <2>14. FilesKept(files, files')
    <3>1. \A i \in DOMAIN files' : Sound(files'[i])  BY <2>12 DEF FilesKept
    <3>2. \A i \in DOMAIN files : Kept(files[i], files'[i])  BY <2>5, <2>12, <2>13
    <3> QED  BY <2>12, <3>1, <3>2 DEF FilesKept
  <2>15. /\ CurFile' = g /\ g.data = CurFile.data /\ g.torn = CurFile.torn
         /\ g.synced = CurFile.synced /\ g.name = CurFile.name
    <3>1. CurFile' = g  BY <2>6, <2>12 DEF CurFile, Last
    <3> QED  BY <2>5, <2>6, <2>7, <2>9, <3>1 DEF Respects
  <2>16. IsSealed(g)  BY <2>3, <2>9 DEF IsSealed
  <2>17. \A i \in DOMAIN files : i # k => files'[i].data = files[i].data /\ files'[i].seal = files[i].seal
    BY <2>5, <2>12 DEF Respects
  <2>18. WriterInv'
    <3>1. \A i \in 1..(Len(files') - 1) : IsSealed(files'[i])
      <4>1. DOMAIN files = 1..Len(files) /\ Len(files) \in Nat  BY <1>2, TypeFacts
      <4> QED  BY <2>2, <2>6, <2>12, <2>17, <4>1 DEF IsSealed
    <3>2. files' # <<>>  BY <2>6, <2>12
    <3> QED  BY <1>1, <1>2, <1>4, <2>2, <2>15, <2>16, <3>1, <3>2 DEF WriterInv, Sealing
  <2>19. ClosedInv' /\ RecoverInv'  BY <1>2, <1>4 DEF ClosedInv, RecoverInv, Live
  <2>20. faults = 0 => CurFile.synced = Len(CurFile.data) /\ CurFile.name = "ndjson"
    BY <1>1, <1>2 DEF IInv, FaultFreeInv, Sealing
  <2>21. FaultFreeInv'
    BY <1>1, <1>2, <1>4, <2>2, <2>15, <2>20 DEF IInv, FaultFreeInv, NoFault, Sealing
  <2>22. SealInv'
    <3>1. ASSUME NEW i \in DOMAIN files', IsSealed(files'[i])
          PROVE  /\ faults = 0 \/ outages = 0 =>
                      ~files'[i].torn /\ files'[i].seal.lines = Len(files'[i].data)
                 /\ faults = 0 => files'[i].synced = Len(files'[i].data)
                 /\ faults = 0 /\ OrderedDirs => files'[i].name = "ndjson"
      <4>1. CASE i = k
        BY <2>2, <2>3, <2>9, <2>12, <2>15, <2>20, <4>1
      <4>2. CASE i # k
        <5>1. i \in DOMAIN files /\ files'[i] = fs[i]  BY <2>12, <4>2
        <5>2. PICK p, q : p = files[i] /\ q = files'[i]  OBVIOUS
        <5>3. /\ q.synced = p.synced /\ q.seal = p.seal /\ q.data = p.data /\ q.name = p.name
              /\ q.torn = p.torn
          BY <2>5, <5>1, <5>2 DEF Respects
        <5>4. IsSealed(p)  BY <3>1, <5>2, <5>3 DEF IsSealed
        <5> QED  BY <5>1, <5>2, <5>3, <5>4 DEF IInv, SealInv
      <4> QED  BY <4>1, <4>2
    <3> QED  BY <1>1, <1>4, <3>1 DEF SealInv, NoFault
  <2>23. \A i \in DOMAIN files : files'[i].data = files[i].data
    BY <2>6, <2>12, <2>15, <2>17
  <2>24. IndexInv'  BY <1>2, <1>4, <2>12, <2>15, <2>23, IndexSame DEF NoFault, Live
  <2> QED  BY <2>14, <2>18, <2>19, <2>21, <2>22, <2>24 DEF FileInv
<1> QED  BY <1>3, <1>4 DEF SealPublish

\* seal() is done: the next segment is opened, or close() ends.
LEMMA SealFinishStep ==
    ASSUME IInv, SealFinish
    PROVE  FileInv' /\ IndexInv' /\ FilesKept(files, files')
<1>1. wpc = "finish" /\ phase # "recovering" /\ UNCHANGED outages  BY DEF SealFinish
<1>2. TypeOK /\ Live /\ files # <<>>  BY <1>1, LiveFacts DEF IInv
<1>3. /\ ~cur.poisoned /\ cur.committed = Len(CurFile.data) /\ ~CurFile.torn
      /\ ~cur.handle /\ IsSealed(CurFile)
      /\ \A i \in 1..(Len(files) - 1) : IsSealed(files[i])
  BY <1>1, <1>2 DEF IInv, WriterInv, Sealing
<1>4. DOMAIN files = 1..Len(files) /\ Len(files) \in Nat /\ CurFile = files[Len(files)]
  BY <1>2, TypeFacts, CurFacts
<1>5. \A i \in DOMAIN files : IsSealed(files[i])  BY <1>3, <1>4
<1>6. CASE /\ target = NoTarget /\ files' = DirSynced(files) /\ phase' = "closed" /\ wpc' = "idle"
           /\ NoFault /\ UNCHANGED <<next, pending, queue, batch, unwritten, fatal>>
  <2>1. SealsKept /\ \A i \in DOMAIN files : files'[i].data = files[i].data
    BY <1>2, <1>6, DirSeals
  <2>2. ClosedInv'  BY <1>5, <2>1 DEF ClosedInv, SealsKept, IsSealed
  <2>3. WriterInv' /\ RecoverInv'  BY <1>6 DEF WriterInv, RecoverInv, Live
  <2>4. FaultFreeInv'  BY <1>6 DEF IInv, FaultFreeInv, NoFault, Live
  <2>5. SealInv'  BY <1>1, <1>2, <1>6, <2>1, KeptSeals, TypeFacts DEF IInv, NoFault
  <2>6. IndexInv'  BY <1>2, <1>6, <2>1, IndexSame DEF NoFault, SealsKept, Live
  <2> QED  BY <2>1, <2>2, <2>3, <2>4, <2>5, <2>6 DEF FileInv, SealsKept
<1>7. CASE /\ target # NoTarget /\ files' = DirSynced(files) /\ Fault("open") /\ Raise(<<>>)
           /\ phase # "closing" => cur' = [cur EXCEPT !.done = TRUE]
  <2>1. SealsKept /\ CurFile'.data = CurFile.data /\ CurFile'.torn = CurFile.torn
    BY <1>2, <1>7, DirSeals
  <2>2. faults' \in Nat \ {0} /\ faults' >= faults  BY <1>2, <1>7, FaultCount
  <2>3. PICK b \in BOOLEAN : b = TRUE  OBVIOUS
  <2>4. phase # "closing" => /\ cur'.handle = cur.handle /\ cur'.poisoned = cur.poisoned
                             /\ cur'.committed = cur.committed
    <3> SUFFICES ASSUME phase # "closing"
                 PROVE  /\ cur'.handle = cur.handle /\ cur'.poisoned = cur.poisoned
                        /\ cur'.committed = cur.committed
      OBVIOUS
    <3>1. cur' = [cur EXCEPT !.done = b]  BY <1>7, <2>3
    <3> QED  BY <1>2, <3>1, CurColumns, Zenon
  <2>5. PICK r \in Seq(Record) : r = <<>>
    <3>1. <<>> \in Seq(Record)  OBVIOUS
    <3> QED  BY <3>1
  <2>6. phase # "closing" =>
             /\ cur'.handle => ~IsSealed(CurFile)
             /\ ~cur'.poisoned => cur'.committed = Len(CurFile'.data) /\ ~CurFile'.torn
             /\ cur'.poisoned => r # <<>> /\ Fits(r[1])
             /\ cur'.done => IsSealed(CurFile)
    BY <1>3, <2>1, <2>4
  <2>7. Raise(r) /\ wpc # "dead"  BY <1>1, <1>7, <2>5
  <2> QED  BY <1>1, <1>2, <2>1, <2>2, <2>6, <2>7, FaultStep
<1>8. CASE /\ target # NoTarget /\ files' = Append(DirSynced(files), NewFile(DirSynced(files), target))
           /\ cur' = NewCur /\ wpc' = "consume" /\ NoFault
           /\ UNCHANGED <<phase, next, pending, queue, batch, unwritten, fatal>>
  <2>1. PICK fs : fs = DirSynced(files)  OBVIOUS
  <2>2. PICK st \in Nat : st = target  BY <1>2, <1>8 DEF TypeOK
  <2>3. PICK g : g = NewFile(fs, st)  OBVIOUS
  <2>4. /\ fs \in Seq(File) /\ DOMAIN fs = DOMAIN files /\ Len(fs) = Len(files)
        /\ \A i \in DOMAIN files :
             /\ Kept(files[i], fs[i]) /\ Respects(files[i], fs[i])
    BY <1>2, <2>1, DirSyncedFacts, TypeFacts DEF Respects
  <2>5. Sound(g) /\ g.data = <<>> /\ g.synced = 0 /\ g.seal = NoSeal /\ g.torn = FALSE
    BY <2>3, <2>4, NewFileFacts
  <2>6. \A i \in DOMAIN fs : Sound(fs[i])  BY <2>4 DEF Kept
  <2>7. /\ files' \in Seq(File) /\ Len(files') = Len(files) + 1
        /\ DOMAIN files' = 1..Len(files') /\ files'[Len(files')] = g
        /\ \A i \in DOMAIN files : files'[i] = fs[i]
        /\ FilesKept(fs, files')
    <3>1. PICK gs : gs = Append(fs, g)  OBVIOUS
    <3>2. /\ FilesKept(fs, gs) /\ gs \in Seq(File) /\ Len(gs) = Len(fs) + 1
          /\ DOMAIN gs = 1..Len(gs)
          /\ gs[Len(gs)] = g /\ \A i \in DOMAIN fs : gs[i] = fs[i]
      BY <2>4, <2>5, <2>6, <3>1, AddFile
    <3>3. files' = gs  BY <1>8, <2>1, <2>2, <2>3, <3>1
    <3> QED  BY <2>4, <3>2, <3>3
  <2>8. FilesKept(files, files')
    <3>1. \A i \in DOMAIN files : i \in DOMAIN files' /\ Kept(files[i], files'[i])
      BY <1>4, <2>4, <2>7
    <3> QED  BY <2>7, <3>1 DEF FilesKept
  <2>9. CurFile' = g  BY <2>7 DEF CurFile, Last
  <2>10. ~IsSealed(g)  BY <2>5 DEF IsSealed
  <2>11. \A i \in DOMAIN files : /\ files'[i].data = files[i].data /\ files'[i].seal = files[i].seal
                                 /\ Respects(files[i], files'[i])
    BY <2>4, <2>7 DEF Respects
  <2>12. Live' /\ ClosedInv' /\ RecoverInv'  BY <1>2, <1>8 DEF ClosedInv, RecoverInv, Live
  <2>13. /\ cur'.handle = TRUE /\ cur'.committed = 0 /\ cur'.poisoned = FALSE /\ cur'.done = FALSE
    BY <1>8 DEF NewCur
  <2>14. WriterInv'
    <3>1. \A i \in 1..(Len(files') - 1) : IsSealed(files'[i])
      BY <1>4, <1>5, <2>7, <2>11 DEF IsSealed
    <3>2. files' # <<>>  BY <1>4, <2>7
    <3>3. Len(g.data) = 0  BY <2>5
    <3> QED  BY <1>8, <2>5, <2>9, <2>10, <2>13, <3>1, <3>2, <3>3 DEF WriterInv, Sealing
  <2>15. FaultFreeInv'
    BY <1>2, <1>8, <2>13 DEF IInv, FaultFreeInv, NoFault, Sealing
  <2>16. SealInv'
    <3>1. \A i \in DOMAIN files' :
             IsSealed(files'[i]) => i \in DOMAIN files /\ Respects(files[i], files'[i])
      <4>1. ASSUME NEW i \in DOMAIN files', IsSealed(files'[i])
            PROVE  i \in DOMAIN files /\ Respects(files[i], files'[i])
        <5>1. i # Len(files')  BY <2>7, <2>10, <4>1
        <5>2. i \in DOMAIN files  BY <1>4, <2>7, <5>1
        <5> QED  BY <2>11, <5>2
      <4> QED  BY <4>1
    <3>2. faults' \in Nat /\ outages' \in Nat /\ faults' >= faults /\ outages' >= outages
      BY <1>1, <1>2, <1>8, TypeFacts DEF NoFault
    <3> QED  BY <1>2, <3>1, <3>2, SealMono DEF IInv
  <2>17. IndexInv'
    <3> SUFFICES ASSUME faults = 0 PROVE IndexInv'
      BY <1>8 DEF IndexInv, NoFault
    <3>1. /\ \A i \in DOMAIN files : Rising(files[i].data) /\ UpTo(files[i].data, next)
          /\ UpTo(batch, next) /\ UpTo(queue, next)
          /\ pending # NoRec => pending.idx = next
          /\ \/ next = 1
             \/ \E i \in DOMAIN files : Has(files[i].data, next - 1)
             \/ Has(batch, next - 1)
             \/ Has(queue, next - 1)
          /\ Rising(batch) /\ Rising(queue) /\ Under(batch, queue)
      BY <1>2 DEF IInv, IndexInv
    <3>2. \A i \in DOMAIN files' : Rising(files'[i].data) /\ UpTo(files'[i].data, next)
      <4>1. ASSUME NEW i \in DOMAIN files' PROVE Rising(files'[i].data) /\ UpTo(files'[i].data, next)
        <5>1. CASE i = Len(files')
          <6>1. files'[i].data = <<>>  BY <2>5, <2>7, <5>1
          <6> QED  BY <6>1, EmptyIndex
        <5>2. CASE i # Len(files')
          <6>1. i \in DOMAIN files  BY <1>4, <2>7, <5>2
          <6> QED  BY <2>11, <3>1, <6>1
        <5> QED  BY <5>1, <5>2
      <4> QED  BY <4>1
    <3>3. Under(CurFile'.data, batch) /\ Under(CurFile'.data, queue)  BY <2>5, <2>9, EmptyIndex
    <3>4. \A i \in DOMAIN files : i \in DOMAIN files' /\ files'[i].data = files[i].data
      BY <1>4, <2>7, <2>11
    <3> QED  BY <1>8, <3>1, <3>2, <3>3, <3>4 DEF IndexInv
  <2> QED  BY <2>8, <2>12, <2>14, <2>15, <2>16, <2>17 DEF FileInv
<1> QED  BY <1>6, <1>7, <1>8, Zenon DEF SealFinish

-----------------------------------------------------------------------------
(* Crashes and recovery                                                    *)

\* A process that is gone or starts again holds nothing.
LEMMA ForgetStep ==
    ASSUME Forget, phase' \in {"down", "recovering"}
    PROVE  WriterInv' /\ ClosedInv' /\ RecoverInv' /\ FaultFreeInv'
BY DEF Forget, WriterInv, ClosedInv, RecoverInv, FaultFreeInv, Live

\* Without a process only the order inside the files is left of IndexInv.
LEMMA IndexDown ==
    ASSUME phase' \in {"down", "recovering"},
           faults' = 0 => \A i \in DOMAIN files' : Rising(files'[i].data)
    PROVE  IndexInv'
BY DEF IndexInv, Live

LEMMA RestartStep ==
    ASSUME IInv, Restart
    PROVE  FileInv' /\ IndexInv' /\ FilesKept(files, files')
<1> USE DEF bounds
<1>1. Forget /\ phase' = "recovering" /\ UNCHANGED <<files, faults, outages>>  BY DEF Restart
<1>2. TypeOK  BY DEF IInv
<1>3. SealInv'  BY <1>1, <1>2, SealSame, TypeFacts DEF IInv
<1>4. faults' = 0 => \A i \in DOMAIN files' : Rising(files'[i].data)
  BY <1>1 DEF IInv, IndexInv
<1>5. FilesKept(files, files')  BY <1>1, <1>2, SameFiles, TypeFacts
<1> QED  BY <1>1, <1>3, <1>4, <1>5, ForgetStep, IndexDown DEF FileInv

\* A write that was cut short is of a segment without a seal, and in order.
LEMMA StoppedSeals ==
    ASSUME IInv, NEW fs, Stopped(fs)
    PROVE  /\ \A i \in DOMAIN fs : IsSealed(fs[i]) => fs[i] = files[i]
           /\ faults = 0 => \A i \in DOMAIN fs : Rising(fs[i].data)
<1>0. TypeOK /\ \A i \in DOMAIN files : Sound(files[i])  BY TypeFacts DEF IInv
<1>1. /\ DOMAIN fs = DOMAIN files /\ Len(fs) = Len(files)
      /\ \A i \in DOMAIN files :
           /\ fs[i].seal = files[i].seal
           /\ \/ fs[i] = files[i]
              \/ /\ i = Len(files) /\ wpc = "consume" /\ cur.handle /\ FlushLen > 0
                 /\ \E n \in 0..FlushLen : fs[i].data = files[i].data \o SubSeq(batch, 1, n)
  BY <1>0, StoppedFacts
<1> SUFFICES ASSUME NEW i \in DOMAIN fs, fs[i] # files[i]
             PROVE  ~IsSealed(fs[i]) /\ (faults = 0 => Rising(fs[i].data))
  BY <1>1 DEF IInv, IndexInv
<1>2. /\ i \in DOMAIN files /\ i = Len(files) /\ wpc = "consume" /\ cur.handle
      /\ fs[i].seal = files[i].seal
  BY <1>1
<1>3. PICK n \in 0..FlushLen : fs[i].data = files[i].data \o SubSeq(batch, 1, n)
  BY <1>1
<1>4. Live /\ files # <<>>  BY <1>0, <1>2, LiveFacts DEF IInv
<1>5. CurFile = files[i]  BY <1>0, <1>2, <1>4, CurFacts
<1>6. ~IsSealed(fs[i])  BY <1>2, <1>4, <1>5 DEF IInv, WriterInv, IsSealed
<1>7. ASSUME faults = 0 PROVE Rising(fs[i].data)
  <2>1. Rising(files[i].data) /\ Rising(batch) /\ Under(files[i].data, batch)
    BY <1>2, <1>4, <1>5, <1>7 DEF IInv, IndexInv
  <2>2. batch \in Seq(Message) /\ n \in 0..Len(batch)
    <3>1. batch \in Seq(Message)  BY <1>0, TypeFacts
    <3>2. FlushLen \in 0..Len(batch) /\ Len(batch) \in Nat  BY <3>1, FlushFacts
    <3> QED  BY <3>1, <3>2
  <2>3. PICK b : b = SubSeq(batch, 1, n)  OBVIOUS
  <2>4. b \in Seq(Message) /\ Rising(b) /\ Under(files[i].data, b)
    BY <2>1, <2>2, <2>3, SplitIndex
  <2>5. files[i].data \in Seq(Message)  BY <1>0, <1>2, DataIndex DEF Sound
  <2>6. Rising(files[i].data \o b)  BY <2>1, <2>4, <2>5, JoinIndex
  <2> QED  BY <1>3, <2>3, <2>6
<1> QED  BY <1>6, <1>7

LEMMA KillStep ==
    ASSUME IInv, Kill
    PROVE  FileInv' /\ IndexInv' /\ FilesKept(files, files')
<1>1. Forget /\ phase' = "down" /\ UNCHANGED <<faults, outages>>  BY DEF Kill
<1>2. TypeOK /\ \A i \in DOMAIN files : Sound(files[i])  BY TypeFacts DEF IInv
<1>3. PICK fs : fs = files' /\ Stopped(fs)
  BY DEF Kill, SetCurFile, Stopped
<1>4. FilesKept(files, fs) /\ DOMAIN fs = DOMAIN files  BY <1>2, <1>3, StoppedFacts
<1>5. /\ \A i \in DOMAIN fs : IsSealed(fs[i]) => fs[i] = files[i]
      /\ faults = 0 => \A i \in DOMAIN fs : Rising(fs[i].data)
  BY <1>3, StoppedSeals
<1>6. SealInv'
  <2>1. \A i \in DOMAIN files' :
           IsSealed(files'[i]) => i \in DOMAIN files /\ Respects(files[i], files'[i])
    BY <1>3, <1>4, <1>5, RespectsSame
  <2>2. faults' \in Nat /\ outages' \in Nat /\ faults' >= faults /\ outages' >= outages
    BY <1>1, <1>2, TypeFacts
  <2> QED  BY <1>2, <2>1, <2>2, SealMono DEF IInv
<1>7. IndexInv'  BY <1>1, <1>3, <1>5, IndexDown
<1> QED  BY <1>1, <1>3, <1>4, <1>6, <1>7, ForgetStep DEF FileInv

LEMMA PowerLossStep ==
    ASSUME IInv, PowerLoss
    PROVE  FileInv' /\ IndexInv' /\ FilesKept(files, files')
<1>1. Forget /\ phase' = "down" /\ UNCHANGED faults /\ outages' = outages + 1  BY DEF PowerLoss
<1>2. TypeOK /\ \A i \in DOMAIN files : Sound(files[i])  BY TypeFacts DEF IInv
<1>3. PICK fs : Stopped(fs) /\ LossOf(fs, files')  BY <1>2, LossFacts
<1>4. PICK gs : gs = files'  OBVIOUS
<1>5. /\ FilesKept(files, fs) /\ fs \in Seq(File) /\ DOMAIN fs = DOMAIN files
      /\ Len(fs) = Len(files)
      /\ \A i \in DOMAIN files :
           /\ Kept(files[i], fs[i]) /\ fs[i].synced = files[i].synced
           /\ fs[i].onDisk = files[i].onDisk
  BY <1>2, <1>3, StoppedFacts
<1>6. /\ \A i \in DOMAIN fs : IsSealed(fs[i]) => fs[i] = files[i]
      /\ faults = 0 => \A i \in DOMAIN fs : Rising(fs[i].data)
  BY <1>3, StoppedSeals
<1>7. /\ gs \in Seq(File) /\ Len(gs) <= Len(fs)
      /\ \/ Len(gs) = Len(fs)
         \/ fs # <<>> /\ Len(gs) = Len(fs) - 1 /\ ~fs[Len(fs)].onDisk
      /\ \A i \in DOMAIN gs :
           /\ i \in DOMAIN fs /\ Left(fs[i], gs[i])
           /\ OrderedDirs /\ IsSealed(gs[i]) => gs[i].name = fs[i].name
  BY <1>3, <1>4 DEF LossOf
<1>8. FilesKept(files, gs)
  <2>1. \A i \in DOMAIN gs : Sound(gs[i])  BY <1>7 DEF Left, Kept
  <2>2. ASSUME NEW i \in DOMAIN files, files[i].synced > 0
        PROVE  i \in DOMAIN gs /\ Kept(files[i], gs[i])
    <3>1. Sound(files[i]) /\ files[i].onDisk  BY <1>2, <2>2 DEF Sound
    <3>2. fs[i].onDisk /\ Kept(files[i], fs[i]) /\ fs[i].synced = files[i].synced
      BY <1>5, <3>1
    <3>3. i \in DOMAIN gs
      <4>1. DOMAIN gs = 1..Len(gs) /\ DOMAIN files = 1..Len(files) /\ Len(files) \in Nat /\ Len(gs) \in Nat
        BY <1>2, <1>7, TypeFacts
      <4>2. CASE Len(gs) = Len(fs)  BY <1>5, <4>1, <4>2
      <4>3. CASE Len(gs) = Len(fs) - 1 /\ ~fs[Len(fs)].onDisk
        <5>1. i # Len(fs)  BY <3>2, <4>3, Zenon
        <5> QED  BY <1>5, <4>1, <4>3, <5>1
      <4> QED  BY <1>7, <4>2, <4>3
    <3>4. Kept(fs[i], gs[i])  BY <1>7, <3>3 DEF Left
    <3>5. fs[i].synced >= files[i].synced  BY <3>1, <3>2, FileFacts DEF Sound
    <3> QED  BY <3>1, <3>2, <3>3, <3>4, <3>5, KeptTwice
  <2> QED  BY <1>7, <2>1, <2>2 DEF FilesKept
<1>9. SealInv'
  <2>1. outages' # 0 /\ faults' = faults  BY <1>1, <1>2, TypeFacts
  <2>2. ASSUME faults = 0, NEW i \in DOMAIN gs, IsSealed(gs[i])
        PROVE  /\ ~gs[i].torn /\ gs[i].seal.lines = Len(gs[i].data)
               /\ gs[i].synced = Len(gs[i].data)
               /\ OrderedDirs => gs[i].name = "ndjson"
    <3>1. PICK f, g : f = fs[i] /\ g = gs[i]  OBVIOUS
    <3>2. i \in DOMAIN fs /\ Left(f, g) /\ (OrderedDirs => g.name = f.name)
      BY <1>7, <2>2, <3>1
    <3>3. g.seal = f.seal /\ IsSealed(f)  BY <2>2, <3>1, <3>2 DEF Left, IsSealed
    <3>4. i \in DOMAIN files /\ f = files[i]  BY <1>5, <1>6, <3>1, <3>2, <3>3
    <3>5. /\ ~f.torn /\ f.seal.lines = Len(f.data) /\ f.synced = Len(f.data)
          /\ OrderedDirs => f.name = "ndjson"
      BY <2>2, <3>3, <3>4 DEF IInv, SealInv
    <3>6. g.data = f.data /\ g.torn = f.torn /\ g.synced = f.synced  BY <3>2, <3>5 DEF Left
    <3> QED  BY <3>1, <3>2, <3>3, <3>5, <3>6
  <2> QED  BY <1>4, <2>1, <2>2 DEF SealInv
<1>10. ASSUME faults = 0, NEW i \in DOMAIN gs PROVE Rising(gs[i].data)
  <2>1. PICK f, g : f = fs[i] /\ g = gs[i]  OBVIOUS
  <2>2. i \in DOMAIN fs /\ Left(f, g) /\ Rising(f.data)  BY <1>6, <1>7, <1>10, <2>1
  <2>3. f \in File  BY <1>5, <2>1, <2>2
  <2>4. PICK n \in 0..Len(f.data) : g.data = SubSeq(f.data, 1, n)  BY <2>2 DEF Left
  <2>5. PICK d : d = f.data  OBVIOUS
  <2>6. d \in Seq(Message) /\ n \in 0..Len(d) /\ Rising(d)  BY <2>2, <2>3, <2>4, <2>5, DataIndex
  <2>7. Rising(SubSeq(d, 1, n))  BY <2>6, SplitIndex
  <2> QED  BY <2>1, <2>4, <2>5, <2>7
<1>11. IndexInv'  BY <1>1, <1>4, <1>10, IndexDown
<1> QED  BY <1>1, <1>4, <1>8, <1>9, <1>11, ForgetStep DEF FileInv

\* seal_orphan up to the rename.
LEMMA RecoverRenameStep ==
    ASSUME IInv, RecoverRename
    PROVE  FileInv' /\ IndexInv' /\ FilesKept(files, files')
<1> USE DEF bounds, procVars
<1>1. /\ phase = "recovering" /\ wpc = "idle" /\ wpc' = "publish"
      /\ UNCHANGED <<phase, next, pending, queue, batch, unwritten, fatal, faults, outages>>
  BY DEF RecoverRename
<1>2. TypeOK /\ files \in Seq(File) /\ \A i \in DOMAIN files : Sound(files[i])
  BY TypeFacts DEF IInv
<1>3. PICK k \in DOMAIN files :
        /\ target' = k
        /\ LET fs == [files EXCEPT ![k] = [Repaired(@) EXCEPT !.name = "ndjson"]]
           IN  files' = IF files[k].name = "open" THEN DirSynced(fs) ELSE fs
  BY DEF RecoverRename, Orphans
<1>4. PICK f, g : f = files[k] /\ g = [Repaired(f) EXCEPT !.name = "ndjson"]  OBVIOUS
<1>5. /\ Kept(f, g) /\ g.data = f.data /\ g.torn = FALSE /\ g.synced = Len(f.data)
      /\ g.name = "ndjson" /\ g.seal = f.seal
  BY <1>2, <1>4, RepairFacts
<1>6. PICK fs : fs = [files EXCEPT ![k] = g]  OBVIOUS
<1>7. /\ FilesKept(files, fs) /\ DOMAIN fs = DOMAIN files /\ fs \in Seq(File) /\ fs[k] = g
      /\ \A i \in DOMAIN files : i # k => fs[i] = files[i]
  BY <1>2, <1>4, <1>5, <1>6, SetFile
<1>8. files' = IF f.name = "open" THEN DirSynced(fs) ELSE fs  BY <1>3, <1>4, <1>6
<1>9. \A i \in DOMAIN fs : Sound(fs[i])  BY <1>7 DEF FilesKept
<1>10. /\ files' \in Seq(File) /\ DOMAIN files' = DOMAIN files
       /\ \A i \in DOMAIN files : LET p == fs[i]  q == files'[i] IN
              /\ Kept(p, q) /\ q.data = p.data /\ q.torn = p.torn /\ q.synced = p.synced
              /\ q.name = p.name /\ q.seal = p.seal
  <2>1. CASE f.name = "open"  BY <1>7, <1>8, <1>9, <2>1, DirSyncedFacts
  <2>2. CASE f.name # "open"  BY <1>7, <1>8, <1>9, <2>2, KeptSame
  <2> QED  BY <2>1, <2>2
<1>11. \A i \in DOMAIN files : Respects(files[i], files'[i])
  <2>1. ASSUME NEW i \in DOMAIN files PROVE Respects(files[i], files'[i])
    <3>1. CASE i = k
      <4>1. PICK q : q = files'[k]  OBVIOUS
      <4>2. /\ q.data = f.data /\ q.torn = FALSE /\ q.synced = Len(f.data) /\ q.name = "ndjson"
            /\ q.seal = f.seal
        BY <1>5, <1>7, <1>10, <4>1
      <4>3. Respects(f, q)  BY <4>2 DEF Respects
      <4> QED  BY <1>4, <3>1, <4>1, <4>3
    <3>2. CASE i # k  BY <1>7, <1>10, <3>2 DEF Respects
    <3> QED  BY <3>1, <3>2
  <2> QED  BY <2>1
<1>12. FilesKept(files, files')
  <2>1. ASSUME NEW i \in DOMAIN files PROVE Kept(files[i], files'[i]) /\ Sound(files'[i])
    <3>1. PICK p, q, r : p = files[i] /\ q = fs[i] /\ r = files'[i]  OBVIOUS
    <3>2. Sound(p) /\ Kept(p, q) /\ q.synced >= p.synced
      <4>1. Sound(p) /\ p.synced \in Nat /\ p.synced <= Len(p.data)
        BY <1>2, <3>1, FileFacts DEF Sound
      <4>2. CASE i = k  BY <1>4, <1>5, <1>7, <3>1, <4>1, <4>2
      <4>3. CASE i # k  BY <1>7, <3>1, <4>1, <4>3, KeptSame
      <4> QED  BY <4>1, <4>2, <4>3
    <3>3. Kept(q, r)  BY <1>10, <3>1
    <3>4. Kept(p, r)  BY <3>2, <3>3, KeptTwice
    <3> QED  BY <3>1, <3>4 DEF Kept
  <2> QED  BY <1>10, <2>1 DEF FilesKept
<1>13. /\ files'[k].name = "ndjson" /\ ~files'[k].torn /\ files'[k].synced = Len(files'[k].data)
  <2>1. PICK q : q = files'[k]  OBVIOUS
  <2>2. /\ q.data = f.data /\ q.torn = FALSE /\ q.synced = Len(f.data) /\ q.name = "ndjson"
    BY <1>5, <1>7, <1>10, <2>1
  <2> QED  BY <2>1, <2>2
<1>14. RecoverInv'  BY <1>3, <1>10, <1>13 DEF RecoverInv
<1>15. WriterInv' /\ ClosedInv'  BY <1>1 DEF WriterInv, ClosedInv, Live
<1>16. FaultFreeInv'  BY <1>1 DEF IInv, FaultFreeInv, Live
<1>17. SealInv'
  <2>1. \A i \in DOMAIN files' :
           IsSealed(files'[i]) => i \in DOMAIN files /\ Respects(files[i], files'[i])
    BY <1>10, <1>11
  <2> QED  BY <1>1, <1>2, <2>1, SealMono, TypeFacts DEF IInv
<1>18. IndexInv'
  <2>1. faults' = 0 => \A i \in DOMAIN files' : Rising(files'[i].data)
    BY <1>1, <1>10, <1>11 DEF IInv, IndexInv, Respects
  <2> QED  BY <1>1, <2>1, IndexDown
<1> QED  BY <1>12, <1>14, <1>15, <1>16, <1>17, <1>18 DEF FileInv

\* seal_orphan: the seal.
LEMMA RecoverSealStep ==
    ASSUME IInv, RecoverSeal
    PROVE  FileInv' /\ IndexInv' /\ FilesKept(files, files')
<1> USE DEF bounds, procVars
<1>1. /\ phase = "recovering" /\ wpc = "publish" /\ wpc' = "finish"
      /\ UNCHANGED <<phase, next, pending, queue, batch, unwritten, fatal, faults, outages, target>>
      /\ files' = [files EXCEPT ![target].seal =
                    SealOf(Len(files[target].data), files[target].data, NoVis, "recovery")]
  BY DEF RecoverSeal
<1>2. TypeOK /\ files \in Seq(File) /\ \A i \in DOMAIN files : Sound(files[i])
  BY TypeFacts DEF IInv
<1>3. PICK k : k = target  OBVIOUS
<1>4. PICK f : f = files[k]  OBVIOUS
<1>5. /\ k \in DOMAIN files /\ f.name = "ndjson" /\ ~f.torn /\ f.synced = Len(f.data)
  BY <1>1, <1>3, <1>4 DEF IInv, RecoverInv
<1>6. PICK sl : sl = SealOf(Len(f.data), f.data, NoVis, "recovery")  OBVIOUS
<1>7. sl \in SealType /\ sl.lines = Len(f.data) /\ sl # NoSeal
  <2>1. Len(f.data) \in Int  BY <1>2, <1>4, <1>5, FileFacts
  <2> QED  BY <1>6, <2>1, SealOfFacts
<1>8. PICK g : g = [f EXCEPT !.seal = sl]  OBVIOUS
<1>9. /\ Kept(f, g) /\ g.data = f.data /\ g.torn = f.torn /\ g.synced = f.synced
      /\ g.name = f.name /\ g.seal = sl
  BY <1>2, <1>4, <1>5, <1>7, <1>8, SealFacts
<1>10. PICK gs : gs = [files EXCEPT ![k] = g]  OBVIOUS
<1>11. files' = gs  BY <1>1, <1>3, <1>4, <1>6, <1>8, <1>10
<1>12. /\ FilesKept(files, gs) /\ DOMAIN gs = DOMAIN files /\ gs[k] = g
       /\ \A i \in DOMAIN files : i # k => gs[i] = files[i]
  BY <1>2, <1>4, <1>5, <1>9, <1>10, SetFile
<1>13. RecoverInv'  BY <1>1, <1>3, <1>5, <1>9, <1>11, <1>12 DEF RecoverInv
<1>14. WriterInv' /\ ClosedInv'  BY <1>1 DEF WriterInv, ClosedInv, Live
<1>15. FaultFreeInv'  BY <1>1 DEF IInv, FaultFreeInv, Live
<1>16. SealInv'
  <2>1. ASSUME NEW i \in DOMAIN gs, IsSealed(gs[i])
        PROVE  /\ faults = 0 \/ outages = 0 =>
                    ~gs[i].torn /\ gs[i].seal.lines = Len(gs[i].data)
               /\ faults = 0 => gs[i].synced = Len(gs[i].data)
               /\ faults = 0 /\ OrderedDirs => gs[i].name = "ndjson"
    <3>1. CASE i = k  BY <1>5, <1>7, <1>9, <1>12, <3>1
    <3>2. CASE i # k  BY <1>12, <2>1, <3>2 DEF IInv, SealInv
    <3> QED  BY <3>1, <3>2
  <2> QED  BY <1>1, <1>11, <2>1 DEF SealInv
<1>17. IndexInv'
  <2>1. faults' = 0 => \A i \in DOMAIN files' : Rising(files'[i].data)
    BY <1>1, <1>4, <1>9, <1>11, <1>12 DEF IInv, IndexInv
  <2> QED  BY <1>1, <2>1, IndexDown
<1> QED  BY <1>11, <1>12, <1>13, <1>14, <1>15, <1>16, <1>17 DEF FileInv

\* seal_orphan: the fsync of the directory.
LEMMA RecoverFinishStep ==
    ASSUME IInv, RecoverFinish
    PROVE  FileInv' /\ IndexInv' /\ FilesKept(files, files')
<1> USE DEF bounds, procVars
<1>1. /\ phase = "recovering" /\ wpc = "finish" /\ wpc' = "idle" /\ files' = DirSynced(files)
      /\ UNCHANGED <<phase, unwritten, fatal, faults, outages>>
  BY DEF RecoverFinish
<1>2. TypeOK /\ files # <<>>
  <2>1. target \in DOMAIN files  BY <1>1 DEF IInv, RecoverInv
  <2> QED  BY <2>1 DEF IInv
<1>3. SealsKept /\ \A i \in DOMAIN files : files'[i].data = files[i].data  BY <1>1, <1>2, DirSeals
<1>4. SealInv'  BY <1>1, <1>2, <1>3, KeptSeals, TypeFacts DEF IInv
<1>5. WriterInv' /\ ClosedInv' /\ RecoverInv'  BY <1>1 DEF WriterInv, ClosedInv, RecoverInv, Live
<1>6. FaultFreeInv'  BY <1>1 DEF IInv, FaultFreeInv, Live
<1>7. faults' = 0 => \A i \in DOMAIN files' : Rising(files'[i].data)
  BY <1>1, <1>3 DEF IInv, IndexInv, SealsKept
<1>8. IndexInv'  BY <1>1, <1>7, IndexDown
<1> QED  BY <1>3, <1>4, <1>5, <1>6, <1>8 DEF FileInv, SealsKept

\* The resumed index is past every record on disk, and the one before it is there.
LEMMA ResumeBound ==
    ASSUME TypeOK, \A i \in DOMAIN files : IsSealed(files[i]) /\ Rising(files[i].data)
    PROVE  /\ \A i \in DOMAIN files : UpTo(files[i].data, ResumeIndex)
           /\ ResumeIndex = 1 \/ \E i \in DOMAIN files : Has(files[i].data, ResumeIndex - 1)
<1>1. ASSUME NEW i \in DOMAIN files, files[i].data # <<>>
      PROVE  \E d \in Seq(Record) :
                /\ d = files[i].data /\ Len(d) \in DOMAIN d /\ d[Len(d)] = Last(files[i].data)
                /\ Last(files[i].data).idx \in Nat /\ Last(files[i].data).kind = "rec"
                /\ \A m \in DOMAIN d : d[m].idx \in Nat /\ d[m].idx <= Last(files[i].data).idx
  <2>1. files[i] \in File  BY TypeFacts DEF Sound
  <2>2. PICK d \in Seq(Record) : d = files[i].data  BY <2>1, FileFacts
  <2>3. /\ Len(d) \in DOMAIN d /\ DOMAIN d = 1..Len(d) /\ Len(d) \in Nat
        /\ d[Len(d)] = Last(files[i].data)
    BY <1>1, <2>2 DEF Last
  <2>4. \A m \in DOMAIN d : d[m].kind = "rec" /\ d[m].idx \in Nat  BY <2>1, <2>2, DataIndex
  <2>5. Rising(d)  BY <2>2
  <2>6. \A m \in DOMAIN d : d[m].idx <= d[Len(d)].idx
    <3>1. ASSUME NEW m \in DOMAIN d PROVE d[m].idx <= d[Len(d)].idx
      <4>1. CASE m = Len(d)  BY <2>3, <2>4, <4>1
      <4>2. CASE m # Len(d)
        <5>1. m < Len(d)  BY <2>3, <4>2
        <5>2. d[m].idx < d[Len(d)].idx  BY <2>3, <2>4, <2>5, <5>1 DEF Rising
        <5> QED  BY <2>3, <2>4, <5>2
      <4> QED  BY <4>1, <4>2
    <3> QED  BY <3>1
  <2> QED  BY <2>2, <2>3, <2>4, <2>6
<1>2. CASE Counted = {}
  <2>1. \A i \in DOMAIN files : files[i].data = <<>>  BY <1>2 DEF Counted
  <2> QED  BY <1>2, <2>1, EmptyIndex DEF ResumeIndex
<1>3. CASE Counted # {}
  <2>1. PICK b \in Counted : b = BestOf(Counted)  BY <1>3, BestFacts
  <2>2. b \in DOMAIN files /\ files[b].data # <<>>  BY DEF Counted
  <2>3. PICK n : n = Last(files[b].data).idx  OBVIOUS
  <2>4. n \in Nat /\ ResumeIndex = n + 1
    BY <1>1, <1>3, <2>1, <2>2, <2>3 DEF ResumeIndex
  <2>5. Has(files[b].data, n)
    <3>1. PICK d \in Seq(Record) :
                /\ d = files[b].data /\ Len(d) \in DOMAIN d /\ d[Len(d)] = Last(files[b].data)
                /\ Last(files[b].data).kind = "rec"
      BY <1>1, <2>2
    <3> QED  BY <2>3, <3>1 DEF Has
  <2>6. ASSUME NEW i \in DOMAIN files PROVE UpTo(files[i].data, n + 1)
    <3>1. CASE files[i].data = <<>>  BY <3>1, EmptyIndex
    <3>2. CASE files[i].data # <<>>
      <4>1. i \in Counted  BY <3>2 DEF Counted
      <4>2. n >= Last(files[i].data).idx  BY <1>3, <2>1, <2>3, <4>1, BestFacts
      <4>3. PICK d \in Seq(Record) :
                /\ d = files[i].data /\ Last(files[i].data).idx \in Nat
                /\ \A m \in DOMAIN d : d[m].idx \in Nat /\ d[m].idx <= Last(files[i].data).idx
        BY <1>1, <3>2
      <4>4. \A m \in DOMAIN d : d[m].idx < n + 1  BY <2>4, <4>2, <4>3
      <4> QED  BY <4>3, <4>4 DEF UpTo
    <3> QED  BY <3>1, <3>2
  <2>7. (n + 1) - 1 = n  BY <2>4
  <2> QED  BY <2>2, <2>4, <2>5, <2>6, <2>7
<1> QED  BY <1>2, <1>3

\* Spool.start.
LEMMA StartStep ==
    ASSUME IInv, Start
    PROVE  FileInv' /\ IndexInv' /\ FilesKept(files, files')
<1> USE DEF bounds
<1>1. /\ phase = "recovering" /\ wpc = "idle" /\ Orphans = {} /\ phase' = "running"
      /\ next' = ResumeIndex /\ files' = Append(files, NewFile(files, WindowStart(now)))
      /\ cur' = NewCur
      /\ UNCHANGED <<pending, queue, wpc, batch, unwritten, fatal, faults, outages>>
  BY DEF Start
<1>2. /\ TypeOK /\ files \in Seq(File) /\ \A i \in DOMAIN files : Sound(files[i])
      /\ DOMAIN files = 1..Len(files) /\ Len(files) \in Nat
  BY TypeFacts DEF IInv
<1>3. \A i \in DOMAIN files : IsSealed(files[i])  BY <1>1 DEF Orphans
<1>4. batch = <<>> /\ queue = <<>> /\ pending = NoRec  BY <1>1 DEF IInv, ThreadInv, Live
<1>5. PICK st \in Nat : st = WindowStart(now)
  <2>1. now \in Nat  BY <1>2, BoundsAssumption DEF TypeOK, BoundsAssumption
  <2> QED  BY <2>1, WindowFacts
<1>6. PICK g : g = NewFile(files, st)  OBVIOUS
<1>7. Sound(g) /\ g.data = <<>> /\ g.synced = 0 /\ g.seal = NoSeal /\ g.torn = FALSE
  BY <1>2, <1>6, NewFileFacts
<1>8. PICK gs : gs = Append(files, g)  OBVIOUS
<1>9. files' = gs  BY <1>1, <1>5, <1>6, <1>8
<1>10. /\ FilesKept(files, gs) /\ gs \in Seq(File) /\ Len(gs) = Len(files) + 1
       /\ DOMAIN gs = 1..Len(gs) /\ gs[Len(gs)] = g
       /\ \A i \in DOMAIN files : gs[i] = files[i]
  BY <1>2, <1>7, <1>8, AddFile
<1>11. CurFile' = g  BY <1>9, <1>10 DEF CurFile, Last
<1>12. ~IsSealed(g)  BY <1>7 DEF IsSealed
<1>13. cur'.handle = TRUE /\ cur'.committed = 0 /\ cur'.poisoned = FALSE /\ cur'.done = FALSE
  BY <1>1 DEF NewCur
<1>14. WriterInv'
  <2>1. \A i \in 1..(Len(files') - 1) : IsSealed(files'[i])  BY <1>2, <1>3, <1>9, <1>10
  <2>2. files' # <<>>  BY <1>2, <1>9, <1>10
  <2>3. Len(g.data) = 0  BY <1>7
  <2> QED  BY <1>1, <1>7, <1>11, <1>12, <1>13, <2>1, <2>2, <2>3 DEF WriterInv, Sealing
<1>15. Live' /\ ClosedInv' /\ RecoverInv'  BY <1>1 DEF ClosedInv, RecoverInv, Live
<1>16. FaultFreeInv'  BY <1>1, <1>13 DEF IInv, FaultFreeInv, Sealing
<1>17. SealInv'
  <2>1. \A i \in DOMAIN files' :
           IsSealed(files'[i]) => i \in DOMAIN files /\ Respects(files[i], files'[i])
    <3>1. ASSUME NEW i \in DOMAIN gs, IsSealed(gs[i])
          PROVE  i \in DOMAIN files /\ Respects(files[i], gs[i])
      <4>1. i # Len(gs)  BY <1>10, <1>12, <3>1
      <4>2. i \in DOMAIN files  BY <1>2, <1>10, <4>1
      <4> QED  BY <1>10, <4>2, RespectsSame
    <3> QED  BY <1>9, <3>1
  <2>2. faults' \in Nat /\ outages' \in Nat /\ faults' >= faults /\ outages' >= outages
    BY <1>1, <1>2, TypeFacts
  <2> QED  BY <1>2, <2>1, <2>2, SealMono DEF IInv
<1>18. IndexInv'
  <2> SUFFICES ASSUME faults = 0 PROVE IndexInv'
    BY <1>1 DEF IndexInv
  <2>1. \A i \in DOMAIN files : Rising(files[i].data)  BY DEF IInv, IndexInv
  <2>2. PICK n : n = ResumeIndex  OBVIOUS
  <2>3. /\ \A i \in DOMAIN files : UpTo(files[i].data, n)
        /\ n = 1 \/ \E i \in DOMAIN files : Has(files[i].data, n - 1)
    BY <1>2, <1>3, <2>1, <2>2, ResumeBound
  <2>4. \A i \in DOMAIN gs : Rising(gs[i].data) /\ UpTo(gs[i].data, n)
    <3>1. ASSUME NEW i \in DOMAIN gs PROVE Rising(gs[i].data) /\ UpTo(gs[i].data, n)
      <4>1. CASE i = Len(gs)
        <5>1. gs[i].data = <<>>  BY <1>7, <1>10, <4>1
        <5> QED  BY <5>1, EmptyIndex
      <4>2. CASE i # Len(gs)
        <5>1. i \in DOMAIN files  BY <1>2, <1>10, <4>2
        <5> QED  BY <1>10, <2>1, <2>3, <5>1
      <4> QED  BY <4>1, <4>2
    <3> QED  BY <3>1
  <2>5. n = 1 \/ \E i \in DOMAIN gs : Has(gs[i].data, n - 1)
    <3>1. \A i \in DOMAIN files : i \in DOMAIN gs /\ gs[i] = files[i]  BY <1>2, <1>10
    <3> QED  BY <2>3, <3>1
  <2>6. CurFile'.data = <<>>  BY <1>7, <1>11
  <2>7. next' = n /\ batch' = <<>> /\ queue' = <<>> /\ pending' = NoRec  BY <1>1, <1>4, <2>2
  <2>8. /\ UpTo(<<>>, n) /\ Rising(<<>>) /\ Under(<<>>, <<>>)  BY EmptyIndex
  <2> QED  BY <1>9, <2>4, <2>5, <2>6, <2>7, <2>8 DEF IndexInv
<1> QED  BY <1>9, <1>10, <1>14, <1>15, <1>16, <1>17, <1>18 DEF FileInv

-----------------------------------------------------------------------------
(* Every step                                                              *)

\* A step of the clock, or no step at all.
LEMMA ClockStep ==
    ASSUME IInv, Tick \/ ClockBack \/ UNCHANGED vars
    PROVE  FileInv' /\ IndexInv' /\ FilesKept(files, files')
<1> USE DEF procVars, memVars, bounds
<1>1. UNCHANGED <<phase, next, pending, queue, wpc, batch, target, unwritten, fatal, cur, files,
                  outages, faults>>
  BY DEF Tick, ClockBack, vars
<1>2. /\ Live' = Live /\ CurFile' = CurFile
  BY <1>1 DEF Live, CurFile, Last
<1>3. WriterInv'  BY <1>1, <1>2 DEF IInv, WriterInv, Fits
<1>4. ClosedInv' /\ RecoverInv'  BY <1>1 DEF IInv, ClosedInv, RecoverInv
<1>5. FaultFreeInv'  BY <1>1, <1>2 DEF IInv, FaultFreeInv
<1>6. SealInv'  BY <1>1 DEF IInv, SealInv
<1>7. IndexInv'  BY <1>1, <1>2 DEF IInv, IndexInv
<1>8. FilesKept(files, files')  BY <1>1, SameFiles, TypeFacts DEF IInv
<1> QED  BY <1>3, <1>4, <1>5, <1>6, <1>7, <1>8 DEF FileInv

\* The event loop.
LEMMA LoopStep ==
    ASSUME IInv, Loop
    PROVE  FileInv' /\ IndexInv' /\ FilesKept(files, files')
<1> USE DEF memVars, bounds
<1>1. CASE SpoolSync  BY <1>1, SpoolStep
<1>2. CASE ~SpoolSync
  <2>1. UNCHANGED files
    BY <1>2 DEF Loop, EmitFrame, PutCompletes, RotateTimer, DrainTake, StopCapture,
                WriterFailureSeen, CancelCapture, EmitClosing, CloseStart, CloseDrain
  <2>2. FilesKept(files, files')  BY <2>1, SameFiles, TypeFacts DEF IInv
  <2>3. FileInv' /\ IndexInv'
    BY <1>2, ProducerStep, DrainStep, CloseStep DEF Loop, StopCapture, WriterFailureSeen
  <2> QED  BY <2>2, <2>3
<1> QED  BY <1>1, <1>2

\* The writer thread.
LEMMA WriterStep ==
    ASSUME IInv, Writer
    PROVE  FileInv' /\ IndexInv' /\ FilesKept(files, files')
BY WriteBatchStep, WriteFailsStep, FsyncFailsStep, WriteRefusedStep, BatchDoneStep, SealStartStep,
   SealFsyncFailsStep, SealRenameStep, SealPublishStep, SealFinishStep DEF Writer

\* Every step keeps the invariant and what was fsynced.
LEMMA NextInv ==
    ASSUME IInv, [Next]_vars
    PROVE  IInv' /\ FilesKept(files, files')
<1>1. FileInv' /\ IndexInv' /\ FilesKept(files, files')
  <2>1. CASE Loop  BY <2>1, LoopStep
  <2>2. CASE Writer  BY <2>2, WriterStep
  <2>3. CASE Recover
    BY <2>3, RestartStep, RecoverRenameStep, RecoverSealStep, RecoverFinishStep, StartStep DEF Recover
  <2>4. CASE Kill  BY <2>4, KillStep
  <2>5. CASE PowerLoss  BY <2>5, PowerLossStep
  <2>6. CASE Tick \/ ClockBack \/ UNCHANGED vars  BY <2>6, ClockStep
  <2> QED  BY <2>1, <2>2, <2>3, <2>4, <2>5, <2>6 DEF Next
<1>2. RestOK'
  <2>1. TypeOK /\ ThreadInv /\ WriterInv  BY DEF IInv
  <2>2. CASE Loop  BY <2>1, <2>2, LoopRest
  <2>3. CASE Writer  BY <2>1, <2>3, WriterRest
  <2>4. CASE Recover \/ Kill \/ PowerLoss \/ Tick \/ ClockBack  BY <2>1, <2>4, OtherRest
  <2>5. CASE UNCHANGED vars
    <3>1. RestOK  BY <2>1, RestFacts
    <3> QED  BY <2>5, <3>1 DEF vars, RestOK
  <2> QED  BY <2>2, <2>3, <2>4, <2>5 DEF Next
<1>3. ThreadInv'
  <2>1. TypeOK /\ ThreadInv /\ WriterInv  BY DEF IInv
  <2>2. CASE Loop  BY <2>1, <2>2, LoopThread
  <2>3. CASE Writer  BY <2>1, <2>3, WriterThread
  <2>4. CASE Recover \/ Kill \/ PowerLoss \/ Tick \/ ClockBack  BY <2>1, <2>4, OtherThread
  <2>5. CASE UNCHANGED vars  BY <2>1, <2>5 DEF vars, ThreadInv, Live
  <2> QED  BY <2>2, <2>3, <2>4, <2>5 DEF Next
<1>4. TypeOK'  BY <1>1, <1>2, TypeFromParts
<1> QED  BY <1>1, <1>3, <1>4 DEF FileInv, IInv

LEMMA InitInv == Init => IInv
<1> SUFFICES ASSUME Init PROVE IInv
  OBVIOUS
<1> USE DEF Init, NeverRun
<1>1. TypeOK
  <2>1. cur \in SegmentWriter /\ files = <<>>  BY CurTypes
  <2>2. <<>> \in Seq(File) /\ <<>> \in Seq(Message) /\ <<>> \in Seq(Record)
        /\ <<>> \in Seq({"emit", "sync"}) /\ Len(<<>>) = 0 /\ DOMAIN <<>> = {}
    OBVIOUS
  <2>3. fatal \in BOOLEAN /\ drained \in BOOLEAN  BY Zenon
  <2> QED  BY <2>1, <2>2, <2>3, BoundsAssumption DEF TypeOK, BoundsAssumption, Phases, Steps
<1>2. DOMAIN files = {} /\ ~Live  BY DEF Live
<1>3. ThreadInv  BY <1>2 DEF ThreadInv
<1>4. WriterInv /\ ClosedInv /\ RecoverInv  BY <1>2 DEF WriterInv, ClosedInv, RecoverInv
<1>5. FaultFreeInv  BY <1>2, Zenon DEF FaultFreeInv
<1>6. SealInv /\ IndexInv  BY <1>2 DEF SealInv, IndexInv
<1> QED  BY <1>1, <1>3, <1>4, <1>5, <1>6 DEF IInv

-----------------------------------------------------------------------------
(* Theorems                                                                *)

\* The inductive invariant holds in every reachable state.
THEOREM Invariance == Spec => []IInv
<1>1. Init => IInv  BY InitInv
<1>2. IInv /\ [Next]_vars => IInv'  BY NextInv
<1> QED  BY <1>1, <1>2, PTL DEF Spec

\* The type invariant of the lane: the queue stays within its capacity, only
\* records are retained or filed, and no file claims more fsynced records than
\* it has (LaneWriter.append, _flush).
THEOREM TypeCorrect == Spec => []TypeOK
<1>1. IInv => TypeOK  BY DEF IInv
<1> QED  BY <1>1, Invariance, PTL

\* What was fsynced is never lost or altered by any later step, through failed
\* writes and rollbacks, kills, power losses and recovery (write_batch, seal,
\* repair_torn_tail, seal_orphan).
THEOREM DurableKept == Spec => DurableSurvives
<1>1. ASSUME IInv, [Next]_vars, NEW i \in DOMAIN files, files[i].synced > 0
      PROVE  /\ i \in DOMAIN files'
             /\ files'[i].start = files[i].start
             /\ Len(files'[i].data) >= files[i].synced
             /\ SubSeq(files'[i].data, 1, files[i].synced) = SubSeq(files[i].data, 1, files[i].synced)
  <2>1. FilesKept(files, files')  BY <1>1, NextInv
  <2> QED  BY <1>1, <2>1 DEF FilesKept, Kept
<1>2. IInv /\ [Next]_vars =>
        [\A i \in DOMAIN files :
           files[i].synced > 0 =>
             /\ i \in DOMAIN files'
             /\ files'[i].start = files[i].start
             /\ Len(files'[i].data) >= files[i].synced
             /\ SubSeq(files'[i].data, 1, files[i].synced) = SubSeq(files[i].data, 1, files[i].synced)]_vars
  BY <1>1
<1> QED  BY <1>2, Invariance, PTL DEF Spec, DurableSurvives

\* A seal covers exactly the records of its file, whatever storage call raised,
\* unless power is lost after one did; as long as none did, what a seal covers
\* is on disk under its committed name, and a clean close leaves no accepted
\* record outside the sealed tape (SegmentWriter.seal, write_batch's rollback,
\* seal_orphan, repair_torn_tail, LaneWriter.close).
THEOREM SealsHonest == Spec => []SealsAreHonest
<1>1. ASSUME IInv PROVE SealsAreHonest
  <2>0. TypeOK  BY <1>1 DEF IInv
  <2>1. faults = 0 \/ outages = 0 => SealMatchesFile
    BY <1>1 DEF IInv, SealInv, SealMatchesFile
  <2>2. faults = 0 /\ OrderedDirs => SealIsHonest
    BY <1>1 DEF IInv, SealInv, SealIsHonest
  <2>3. ASSUME faults = 0, phase = "closed" PROVE ResumeIndex = next
    <3>1. \A i \in DOMAIN files : IsSealed(files[i]) /\ Rising(files[i].data)
      BY <1>1, <2>3 DEF IInv, ClosedInv, IndexInv
    <3>2. batch = <<>> /\ queue = <<>>  BY <1>1, <2>3 DEF IInv, ThreadInv, Live
    <3>3. /\ \A i \in DOMAIN files : UpTo(files[i].data, next)
          /\ \/ next = 1
             \/ \E i \in DOMAIN files : Has(files[i].data, next - 1)
             \/ Has(batch, next - 1)
             \/ Has(queue, next - 1)
      BY <1>1, <2>3 DEF IInv, IndexInv
    <3>4. next = 1 \/ \E i \in DOMAIN files : Has(files[i].data, next - 1)
      BY <3>2, <3>3, EmptyIndex
    <3>5. /\ \A i \in DOMAIN files : UpTo(files[i].data, ResumeIndex)
          /\ ResumeIndex = 1 \/ \E i \in DOMAIN files : Has(files[i].data, ResumeIndex - 1)
      BY <2>0, <3>1, ResumeBound
    <3>6. ResumeIndex \in Nat \ {0} /\ next \in Nat \ {0}  BY <2>0, ResumeFacts, TypeFacts
    <3>7. \A s, m, n : Has(s, m) /\ UpTo(s, n) => m < n  BY DEF Has, UpTo
    <3>8. next = 1 \/ next - 1 < ResumeIndex  BY <3>4, <3>5, <3>7
    <3>9. ResumeIndex = 1 \/ ResumeIndex - 1 < next  BY <3>3, <3>5, <3>7
    <3> QED  BY <3>6, <3>8, <3>9
  <2>4. faults = 0 => CleanCloseSealsEverything  BY <2>3 DEF CleanCloseSealsEverything
  <2> QED  BY <2>1, <2>2, <2>4 DEF SealsAreHonest
<1> QED  BY <1>1, Invariance, PTL

-----------------------------------------------------------------------------
(***************************************************************************)
(* Order.  The files of a lane are in receive order, no record is filed in *)
(* a window that had ended when it was received, and a segment that starts *)
(* before the previous records ended is flagged.  This rests on the        *)
(* invariant above and on the order of what waits: in the batch, in the    *)
(* queue, in the suspended put and in the timer, against what is already   *)
(* filed.  None of it asks that storage never fails.                       *)
(***************************************************************************)

(* The inductive invariant of the order                                    *)

\* The start of some window.
Aligned(t) == \E q \in Nat : t = q * Period

Elems(s) == {s[i] : i \in DOMAIN s}

\* What was accepted and is not written, rotations included.
Waiting == Elems(unwritten) \cup Elems(batch) \cup Elems(queue)

\* a was accepted before b; z is how far the wall clock was ever stepped back.
Before(z, a, b) ==
    /\ a.kind = "rec" /\ b.kind = "rec" => a.idx < b.idx /\ (z = 0 => a.vis <= b.vis)
    /\ a.kind = "rotate" /\ b.kind = "rotate" /\ z = 0 => a.start < b.start
InOrder(z, s)  == \A i, j \in DOMAIN s : i < j => Before(z, s[i], s[j])
Prior(z, X, Y) == \A x \in X, y \in Y : Before(z, x, y)

\* The messages wait in the order they were accepted in.
StreamInv ==
    Live =>
        /\ InOrder(back, unwritten) /\ InOrder(back, batch) /\ InOrder(back, queue)
        /\ Prior(back, Elems(unwritten), Elems(queue))
        /\ Prior(back, Elems(batch), Elems(queue))

\* The next index is above every index given out.  After a failure was latched
\* the record of a suspended put is queued and its index is not taken.
Counting == ~fatal \/ pending # NoRec

\* What a message that waits tells of what is to come after it.
Earlier(m) ==
    /\ m.kind = "rec" =>
         /\ Counting => m.idx < next
         /\ back = 0 => m.vis <= now /\ (pending # NoRec => m.vis <= pending.vis)
    /\ m.kind = "rotate" =>
         /\ Aligned(m.start)
         /\ back = 0 => m.start < timer.start /\ m.start <= now

ComingInv ==
    Live =>
        /\ pending # NoRec => pending.idx = next /\ (back = 0 => pending.vis <= now)
        /\ Aligned(timer.start) /\ (back = 0 => timer.due = timer.start)
        /\ \A m \in Waiting : Earlier(m)

\* Every record of the file came before index n.
Tops(d, n) == d # <<>> => Last(d).idx < n

\* The segments before the newest.
Older(fs) == 1..(Len(fs) - 1)
Old       == Older(files)

\* No record is in a window that had ended when it was received.
InWindow(fs) ==
    \A i \in DOMAIN fs : \A k \in DOMAIN fs[i].data : fs[i].data[k].vis < SegEnd(fs[i])

\* The last index of a segment is below every index filed after it.
RisingFiles(fs) ==
    \A i, j \in DOMAIN fs : i < j =>
        \A k \in DOMAIN fs[j].data : Tops(fs[i].data, fs[j].data[k].idx)

\* A segment starts with a window, one that has begun, and its index is the
\* number of segments the window had.
Placed(fs, z, t) == \A i \in DOMAIN fs : Aligned(fs[i].start) /\ (z = 0 => fs[i].start <= t)
Numbered(fs) ==
    \A i \in DOMAIN fs :
        fs[i].index = Cardinality({k \in 1..(i - 1) : fs[k].start = fs[i].start})

\* Segments with records are in the order of their windows.
Wrote(fs, z) ==
    z = 0 => \A i, j \in DOMAIN fs :
        i < j /\ fs[i].data # <<>> /\ fs[j].data # <<>> => fs[i].start <= fs[j].start

\* A power loss takes nothing from the segments before the newest, and a renamed
\* segment was fsynced.
Stable(fs) == \A i \in Older(fs) : fs[i].sealed \/ fs[i].synced = Len(fs[i].data)
Named(fs)  == \A i \in DOMAIN fs : fs[i].name = "ndjson" => fs[i].synced = Len(fs[i].data)

\* With ordered directory updates the segments before the newest are sealed.
OldSealed(fs) == OrderedDirs => \A i \in Older(fs) : IsSealed(fs[i])

\* A segment that starts before the records before it end is flagged.
Flagged(fs) ==
    \A i, j \in DOMAIN fs :
        (/\ i < j /\ fs[i].data # <<>> /\ fs[j].data # <<>>
         /\ \A k \in (i + 1)..(j - 1) : fs[k].data = <<>>
         /\ fs[j].data[1].vis < Last(fs[i].data).vis
         /\ fs[j].seal.reason = "writer") => ~fs[j].seal.ok

Tape(fs, z, t) == /\ InWindow(fs) /\ RisingFiles(fs) /\ Placed(fs, z, t) /\ Numbered(fs) /\ Wrote(fs, z)
                  /\ Stable(fs) /\ Named(fs) /\ OldSealed(fs) /\ Flagged(fs)
TapeInv == Tape(files, back, now)

\* What waits has indices above the segments before the newest, and above the
\* newest too but for the records a failed fsync makes close() write twice.
AboveInv ==
    Live =>
        /\ Counting => \A i \in DOMAIN files : Tops(files[i].data, next)
        /\ \A i \in Old, m \in Waiting : m.kind = "rec" => Tops(files[i].data, m.idx)
        /\ \A m \in Elems(queue) : m.kind = "rec" => Tops(CurFile.data, m.idx)
        /\ \A m \in Elems(unwritten) : Fits(m)
        /\ \A k \in DOMAIN batch : batch[k].kind = "rec" =>
             \/ Tops(CurFile.data, batch[k].idx)
             \/ wpc = "consume" /\ \A j \in 1..k : Fits(batch[j])

\* The seed of the next seal is the receive time the earlier segments end on.
PrevInv ==
    Live => \A i \in Old :
        files[i].data # <<>> /\ (\A k \in (i + 1)..(Len(files) - 1) : files[k].data = <<>>)
            => prevVis = Last(files[i].data).vis

\* Nothing waits that was received before t, or no rotation up to t waits.
RecAbove(t) == /\ now >= t /\ (pending # NoRec => pending.vis >= t)
               /\ \A m \in Waiting : m.kind = "rec" => m.vis >= t
RotAbove(t) == /\ timer.start > t
               /\ \A m \in Waiting : m.kind = "rotate" => m.start > t
Barred(t)    == RecAbove(t) \/ RotAbove(t)
Behind(t, u) == t <= u \/ RecAbove(t)

\* A rotation can open a window that was left behind, but nothing that waits was
\* received in it.
BarInv ==
    Live /\ back = 0 =>
        /\ \A i \in DOMAIN files : Barred(files[i].start)
        /\ \A i \in Old : Behind(files[i].start, CurFile.start)
TargetInv ==
    Live /\ wpc \in Sealing /\ target # NoTarget =>
        /\ Aligned(target)
        /\ back = 0 => /\ target <= now /\ Barred(target)
                       /\ \A i \in DOMAIN files : Behind(files[i].start, target)

\* The segment under the handle is not renamed, and the rename follows an fsync.
HandleInv ==
    Live => /\ cur.handle => CurFile.name = "open"
            /\ wpc = "rename" => CurFile.synced = Len(CurFile.data)

LinkInv == AboveInv /\ PrevInv /\ BarInv /\ TargetInv /\ HandleInv

OInv == StreamInv /\ ComingInv /\ TapeInv /\ LinkInv

-----------------------------------------------------------------------------
(* Windows                                                                 *)

LEMMA PeriodFacts == Period \in Nat /\ Period > 0
BY BoundsAssumption DEF BoundsAssumption

LEMMA WindowBounds ==
    ASSUME NEW t \in Nat
    PROVE  /\ WindowStart(t) \in Nat /\ Aligned(WindowStart(t))
           /\ WindowStart(t) <= t /\ t < WindowStart(t) + Period
<1>1. PICK q : q = t \div Period  OBVIOUS
<1>2. q \in Nat /\ q * Period <= t /\ t < q * Period + Period
  <2>1. q \in Nat  BY <1>1, PeriodFacts
  <2>2. t = q * Period + (t % Period) /\ t % Period \in 0..(Period - 1)  BY <1>1, PeriodFacts
  <2> QED  BY <2>1, <2>2, PeriodFacts
<1>3. WindowStart(t) = q * Period  BY <1>1 DEF WindowStart
<1>4. q * Period \in Nat  BY <1>2, PeriodFacts
<1> QED  BY <1>2, <1>3, <1>4 DEF Aligned

\* Two windows are a period apart.
LEMMA WindowGap ==
    ASSUME NEW a \in Nat, NEW b \in Nat, Aligned(a), Aligned(b), a < b
    PROVE  a + Period <= b
<1>1. PICK m \in Nat : a = m * Period  BY DEF Aligned
<1>2. PICK n \in Nat : b = n * Period  BY DEF Aligned
<1>3. m < n
  <2>1. CASE n <= m
    <3>1. n * Period <= m * Period  BY <2>1, PeriodFacts
    <3> QED  BY <1>1, <1>2, <3>1, PeriodFacts
  <2> QED  BY <2>1
<1>4. (m + 1) * Period <= n * Period  BY <1>3, PeriodFacts
<1>5. (m + 1) * Period = m * Period + Period  BY PeriodFacts
<1> QED  BY <1>1, <1>2, <1>4, <1>5

\* A window that began by t is not after the window of t.
LEMMA WindowFloor ==
    ASSUME NEW a \in Nat, NEW t \in Nat, Aligned(a), a <= t
    PROVE  a <= WindowStart(t)
<1>1. /\ WindowStart(t) \in Nat /\ Aligned(WindowStart(t))
      /\ WindowStart(t) <= t /\ t < WindowStart(t) + Period
  BY WindowBounds
<1>2. CASE WindowStart(t) < a
  <2>1. WindowStart(t) + Period <= a  BY <1>1, <1>2, WindowGap
  <2> QED  BY <1>1, <2>1, PeriodFacts
<1> QED  BY <1>1, <1>2

LEMMA WindowNext ==
    ASSUME NEW a \in Nat, Aligned(a)
    PROVE  a + Period \in Nat /\ Aligned(a + Period)
<1>1. PICK m \in Nat : a = m * Period  BY DEF Aligned
<1>2. a + Period = (m + 1) * Period  BY <1>1, PeriodFacts
<1> QED  BY <1>2, PeriodFacts DEF Aligned

-----------------------------------------------------------------------------
(* Sequences of messages                                                   *)

LEMMA ElemsEmpty == Elems(<<>>) = {}
BY DEF Elems

LEMMA ElemsAppend ==
    ASSUME NEW S, NEW s \in Seq(S), NEW m \in S
    PROVE  Elems(Append(s, m)) = Elems(s) \cup {m}
<1> DEFINE a == Append(s, m)
<1>1. /\ DOMAIN a = 1..(Len(s) + 1) /\ DOMAIN s = 1..Len(s) /\ Len(s) \in Nat
      /\ a[Len(s) + 1] = m /\ \A i \in 1..Len(s) : a[i] = s[i]
  OBVIOUS
<1> HIDE DEF a
<1>2. Elems(a) \subseteq Elems(s) \cup {m}
  <2>1. ASSUME NEW i \in DOMAIN a PROVE a[i] \in Elems(s) \cup {m}
    <3>1. i \in 1..Len(s) \/ i = Len(s) + 1  BY <1>1
    <3> QED  BY <1>1, <3>1 DEF Elems
  <2> QED  BY <2>1 DEF Elems
<1>3. Elems(s) \cup {m} \subseteq Elems(a)
  <2>1. Len(s) + 1 \in DOMAIN a /\ \A i \in DOMAIN s : i \in DOMAIN a  BY <1>1
  <2> QED  BY <1>1, <2>1 DEF Elems
<1> QED  BY <1>2, <1>3 DEF a

LEMMA ElemsJoin ==
    ASSUME NEW S, NEW s \in Seq(S), NEW t \in Seq(S)
    PROVE  Elems(s \o t) = Elems(s) \cup Elems(t)
<1> DEFINE j == s \o t
<1>1. /\ Len(s) \in Nat /\ Len(t) \in Nat /\ DOMAIN s = 1..Len(s) /\ DOMAIN t = 1..Len(t)
      /\ DOMAIN j = 1..(Len(s) + Len(t))
      /\ \A i \in 1..Len(s) : j[i] = s[i]
      /\ \A i \in 1..Len(t) : j[Len(s) + i] = t[i]
  OBVIOUS
<1>2. \A i \in DOMAIN j : \/ i \in 1..Len(s) /\ j[i] = s[i]
                          \/ i - Len(s) \in 1..Len(t) /\ j[i] = t[i - Len(s)]
  OBVIOUS
<1> HIDE DEF j
<1>3. Elems(j) \subseteq Elems(s) \cup Elems(t)
  <2>1. ASSUME NEW i \in DOMAIN j PROVE j[i] \in Elems(s) \cup Elems(t)
    BY <1>1, <1>2 DEF Elems
  <2> QED  BY <2>1 DEF Elems
<1>4. Elems(s) \subseteq Elems(j)
  <2>1. \A i \in DOMAIN s : i \in DOMAIN j /\ j[i] = s[i]  BY <1>1
  <2> QED  BY <2>1 DEF Elems
<1>5. Elems(t) \subseteq Elems(j)
  <2>1. \A i \in DOMAIN t : Len(s) + i \in DOMAIN j /\ j[Len(s) + i] = t[i]  BY <1>1
  <2>2. ASSUME NEW i \in DOMAIN t PROVE t[i] \in Elems(j)
    <3>1. PICK x \in DOMAIN j : j[x] = t[i]  BY <2>1
    <3> QED  BY <3>1 DEF Elems
  <2> QED  BY <2>2 DEF Elems
<1> QED  BY <1>3, <1>4, <1>5 DEF j

\* A sequence cut in two, the order of each part and between them.
LEMMA CutOrder ==
    ASSUME NEW S, NEW q \in Seq(S), NEW n \in 0..Len(q), NEW z, InOrder(z, q)
    PROVE  LET b == SubSeq(q, 1, n)
               c == SubSeq(q, n + 1, Len(q))
           IN  /\ Elems(b) \subseteq Elems(q) /\ Elems(c) \subseteq Elems(q)
               /\ InOrder(z, b) /\ InOrder(z, c) /\ Prior(z, Elems(b), Elems(c))
<1> DEFINE b == SubSeq(q, 1, n)
           c == SubSeq(q, n + 1, Len(q))
<1>1. /\ Len(q) \in Nat /\ DOMAIN q = 1..Len(q)
      /\ DOMAIN b = 1..n /\ DOMAIN c = 1..(Len(q) - n)
      /\ \A i \in 1..n : b[i] = q[i]
      /\ \A i \in 1..(Len(q) - n) : c[i] = q[n + i]
  OBVIOUS
<1> HIDE DEF b, c
<1>2. \A i \in DOMAIN b : i \in DOMAIN q /\ b[i] = q[i]  BY <1>1
<1>3. \A i \in DOMAIN c : n + i \in DOMAIN q /\ c[i] = q[n + i]  BY <1>1
<1>4. Elems(b) \subseteq Elems(q)  BY <1>2 DEF Elems
<1>5. Elems(c) \subseteq Elems(q)
  <2>1. ASSUME NEW i \in DOMAIN c PROVE c[i] \in Elems(q)
    <3>1. PICK x \in DOMAIN q : c[i] = q[x]  BY <1>3
    <3> QED  BY <3>1 DEF Elems
  <2> QED  BY <2>1 DEF Elems
<1>6. InOrder(z, b)  BY <1>2 DEF InOrder
<1>7. InOrder(z, c)
  <2> SUFFICES ASSUME NEW i \in DOMAIN c, NEW j \in DOMAIN c, i < j PROVE Before(z, c[i], c[j])
    BY DEF InOrder
  <2>1. PICK x \in DOMAIN q, y \in DOMAIN q : x < y /\ c[i] = q[x] /\ c[j] = q[y]
    <3>1. n + i < n + j  BY <1>1
    <3> QED  BY <1>3, <3>1
  <2> QED  BY <2>1 DEF InOrder
<1>8. Prior(z, Elems(b), Elems(c))
  <2>1. ASSUME NEW i \in DOMAIN b, NEW j \in DOMAIN c PROVE Before(z, b[i], c[j])
    <3>1. PICK y \in DOMAIN q : i < y /\ c[j] = q[y]
      <4>1. i < n + j  BY <1>1
      <4> QED  BY <1>3, <4>1
    <3> QED  BY <1>2, <3>1 DEF InOrder
  <2> QED  BY <2>1 DEF Prior, Elems
<1> QED  BY <1>4, <1>5, <1>6, <1>7, <1>8 DEF b, c

LEMMA JoinOrder ==
    ASSUME NEW S, NEW s \in Seq(S), NEW t \in Seq(S), NEW z,
           InOrder(z, s), InOrder(z, t), Prior(z, Elems(s), Elems(t))
    PROVE  InOrder(z, s \o t)
<1> DEFINE j == s \o t
<1>1. /\ Len(s) \in Nat /\ Len(t) \in Nat /\ DOMAIN s = 1..Len(s) /\ DOMAIN t = 1..Len(t)
  OBVIOUS
<1>2. \A i \in DOMAIN j : \/ i \in DOMAIN s /\ j[i] = s[i] /\ i <= Len(s)
                          \/ i - Len(s) \in DOMAIN t /\ i > Len(s) /\ j[i] = t[i - Len(s)]
  OBVIOUS
<1>3. DOMAIN j \subseteq Nat  OBVIOUS
<1> HIDE DEF j
<1>4. ASSUME NEW a \in DOMAIN j, NEW b \in DOMAIN j, a < b PROVE Before(z, j[a], j[b])
  <2>0. a \in Nat /\ b \in Nat  BY <1>3
  <2>1. CASE b <= Len(s)
    <3>1. a \in DOMAIN s /\ b \in DOMAIN s /\ j[a] = s[a] /\ j[b] = s[b]  BY <1>1, <1>2, <1>4, <2>0, <2>1
    <3> QED  BY <1>4, <3>1 DEF InOrder
  <2>2. CASE b > Len(s) /\ a <= Len(s)
    <3>1. a \in DOMAIN s /\ j[a] = s[a] /\ b - Len(s) \in DOMAIN t /\ j[b] = t[b - Len(s)]
      BY <1>1, <1>2, <2>0, <2>2
    <3>2. j[a] \in Elems(s) /\ j[b] \in Elems(t)  BY <3>1 DEF Elems
    <3> QED  BY <3>2 DEF Prior
  <2>3. CASE a > Len(s)
    <3>1. PICK x \in DOMAIN t : x = a - Len(s) /\ j[a] = t[x]  BY <1>1, <1>2, <2>0, <2>3
    <3>2. PICK y \in DOMAIN t : y = b - Len(s) /\ j[b] = t[y]  BY <1>1, <1>2, <1>4, <2>0, <2>3
    <3>3. x < y  BY <1>1, <1>4, <2>0, <3>1, <3>2
    <3> QED  BY <3>1, <3>2, <3>3 DEF InOrder
  <2> QED  BY <1>1, <2>0, <2>1, <2>2, <2>3
<1> QED  BY <1>4 DEF InOrder, j

LEMMA AppendOrder ==
    ASSUME NEW S, NEW s \in Seq(S), NEW m \in S, NEW z, InOrder(z, s), Prior(z, Elems(s), {m})
    PROVE  InOrder(z, Append(s, m))
<1> DEFINE a == Append(s, m)
<1>1. /\ DOMAIN a = 1..(Len(s) + 1) /\ DOMAIN s = 1..Len(s) /\ Len(s) \in Nat
      /\ a[Len(s) + 1] = m /\ \A i \in 1..Len(s) : a[i] = s[i]
  OBVIOUS
<1> HIDE DEF a
<1>2. ASSUME NEW i \in DOMAIN a, NEW j \in DOMAIN a, i < j PROVE Before(z, a[i], a[j])
  <2>1. i \in DOMAIN s /\ a[i] = s[i]  BY <1>1, <1>2
  <2>2. CASE j = Len(s) + 1
    <3>1. s[i] \in Elems(s)  BY <2>1 DEF Elems
    <3> QED  BY <1>1, <2>1, <2>2, <3>1 DEF Prior
  <2>3. CASE j # Len(s) + 1
    <3>1. j \in DOMAIN s /\ a[j] = s[j]  BY <1>1, <2>3
    <3> QED  BY <1>2, <2>1, <3>1 DEF InOrder
  <2> QED  BY <2>2, <2>3
<1> QED  BY <1>2 DEF InOrder, a

LEMMA EmptyOrder == ASSUME NEW z, NEW X PROVE InOrder(z, <<>>) /\ Prior(z, {}, X) /\ Prior(z, X, {})
BY DEF InOrder, Prior

\* After a backward step of the clock less is known of the order.
LEMMA LaterOrder ==
    ASSUME NEW y, NEW z, z = 0 => y = 0
    PROVE  /\ \A s : InOrder(y, s) => InOrder(z, s)
           /\ \A X, Y : Prior(y, X, Y) => Prior(z, X, Y)
<1>1. \A a, b : Before(y, a, b) => Before(z, a, b)  BY DEF Before
<1> QED  BY <1>1 DEF InOrder, Prior

\* The types of what waits.
LEMMA WaitingTypes ==
    ASSUME TypeOK
    PROVE  /\ Elems(unwritten) \subseteq Record /\ Elems(batch) \subseteq Message
           /\ Elems(queue) \subseteq Message /\ Waiting \subseteq Message
           /\ \A m \in Waiting : /\ m.kind = "rec" => m.idx \in Nat /\ m.vis \in Nat
                                 /\ m.kind = "rotate" => m.start \in Nat
           /\ now \in Nat /\ back \in Nat /\ next \in Nat /\ timer.start \in Nat /\ timer.due \in Int
           /\ pending # NoRec => pending \in Record /\ pending.kind = "rec"
                                 /\ pending.idx \in Nat /\ pending.vis \in Nat
<1>1. /\ batch \in Seq(Message) /\ queue \in Seq(Message) /\ unwritten \in Seq(Record)  BY TypeFacts
<1>2. \A S : \A s \in Seq(S) : Elems(s) \subseteq S  BY DEF Elems
<1>3. /\ Elems(unwritten) \subseteq Record /\ Elems(batch) \subseteq Message
      /\ Elems(queue) \subseteq Message
  BY <1>1, <1>2
<1>4. Waiting \subseteq Message  BY <1>3, RecFacts DEF Waiting
<1>5. \A m \in Message : /\ m.kind = "rec" => m.idx \in Nat /\ m.vis \in Nat
                         /\ m.kind = "rotate" => m.start \in Nat
  BY RecFacts
<1>6. now \in Nat /\ back \in Nat  BY BoundsAssumption DEF TypeOK, BoundsAssumption
<1>7. next \in Nat /\ timer.start \in Nat /\ timer.due \in Int  BY DEF TypeOK
<1>8. pending # NoRec => pending \in Record  BY DEF TypeOK
<1> QED  BY <1>3, <1>4, <1>5, <1>6, <1>7, <1>8, RecFacts

-----------------------------------------------------------------------------
(* What waits                                                              *)

\* A message joins the queue.
LEMMA PutStream ==
    ASSUME TypeOK, Live, StreamInv, NEW m \in Message, queue' = Append(queue, m),
           UNCHANGED <<batch, unwritten, back>>, Prior(back, Waiting, {m})
    PROVE  /\ StreamInv' /\ Waiting' = Waiting \cup {m} /\ Elems(queue') = Elems(queue) \cup {m}
<1>1. queue \in Seq(Message)  BY TypeFacts
<1>2. Elems(queue') = Elems(queue) \cup {m}  BY <1>1, ElemsAppend
<1>3. Waiting' = Waiting \cup {m}  BY <1>2 DEF Waiting
<1>4. Prior(back, Elems(queue), {m}) /\ Prior(back, Elems(batch), {m}) /\ Prior(back, Elems(unwritten), {m})
  BY DEF Prior, Waiting
<1>5. InOrder(back, queue')  BY <1>1, <1>4, AppendOrder DEF StreamInv
<1>6. /\ Prior(back, Elems(unwritten), Elems(queue')) /\ Prior(back, Elems(batch), Elems(queue'))
  BY <1>2, <1>4 DEF StreamInv, Prior
<1> QED  BY <1>2, <1>3, <1>5, <1>6 DEF StreamInv

\* Messages move from one place to the next, or are given up.
Moved ==
    \/ UNCHANGED <<batch, queue, unwritten>>
    \/ /\ UNCHANGED <<queue, unwritten>>
       /\ \E n \in 0..Len(batch) : batch' = SubSeq(batch, n + 1, Len(batch))
    \/ /\ unwritten = <<>> /\ batch' = <<>> /\ UNCHANGED queue
       /\ \E n \in 0..Len(batch) : unwritten' = SubSeq(batch, 1, n)
    \/ /\ batch = <<>> /\ unwritten = <<>> /\ UNCHANGED unwritten
       /\ \E n \in 0..Len(queue) :
            batch' = SubSeq(queue, 1, n) /\ queue' = SubSeq(queue, n + 1, Len(queue))
    \/ batch = <<>> /\ batch' = unwritten \o queue /\ queue' = <<>> /\ unwritten' = <<>>

LEMMA MovedStream ==
    ASSUME TypeOK, Live, StreamInv, UNCHANGED back, Moved
    PROVE  StreamInv' /\ Waiting' \subseteq Waiting
<1>1. /\ batch \in Seq(Message) /\ queue \in Seq(Message) /\ unwritten \in Seq(Record)
      /\ unwritten \in Seq(Message)
  <2>1. \A s \in Seq(Record) : s \in Seq(Message)  BY RecFacts
  <2> QED  BY <2>1, TypeFacts
<1>2. /\ InOrder(back, unwritten) /\ InOrder(back, batch) /\ InOrder(back, queue)
      /\ Prior(back, Elems(unwritten), Elems(queue))
      /\ Prior(back, Elems(batch), Elems(queue))
  BY DEF StreamInv
<1> DEFINE Lined == /\ InOrder(back, unwritten') /\ InOrder(back, batch') /\ InOrder(back, queue')
                    /\ Prior(back, Elems(unwritten'), Elems(queue'))
                    /\ Prior(back, Elems(batch'), Elems(queue'))
                    /\ Elems(unwritten') \cup Elems(batch') \cup Elems(queue')
                         \subseteq Elems(unwritten) \cup Elems(batch) \cup Elems(queue)
<1>3. SUFFICES Lined
  BY DEF StreamInv, Waiting
<1>4. \A X, Y, Z : Prior(back, X, Y) /\ Z \subseteq X => Prior(back, Z, Y)  BY DEF Prior
<1>5. Elems(<<>>) = {} /\ InOrder(back, <<>>) /\ \A X : Prior(back, X, {}) /\ Prior(back, {}, X)
  BY ElemsEmpty, EmptyOrder
<1>6. CASE UNCHANGED <<batch, queue, unwritten>>  BY <1>2, <1>6
<1>7. ASSUME UNCHANGED <<queue, unwritten>>, NEW n \in 0..Len(batch),
             batch' = SubSeq(batch, n + 1, Len(batch))
      PROVE  Lined
  <2>1. Elems(batch') \subseteq Elems(batch) /\ InOrder(back, batch')
    BY <1>1, <1>2, <1>7, CutOrder
  <2> QED  BY <1>2, <1>4, <1>7, <2>1
<1>8. ASSUME unwritten = <<>>, batch' = <<>>, UNCHANGED queue, NEW n \in 0..Len(batch),
             unwritten' = SubSeq(batch, 1, n)
      PROVE  Lined
  <2>1. Elems(unwritten') \subseteq Elems(batch) /\ InOrder(back, unwritten')
    BY <1>1, <1>2, <1>8, CutOrder
  <2>2. Elems(batch') = {} /\ InOrder(back, batch')  BY <1>5, <1>8
  <2> QED  BY <1>2, <1>4, <1>5, <1>8, <2>1, <2>2
<1>9. ASSUME batch = <<>>, unwritten = <<>>, UNCHANGED unwritten, NEW n \in 0..Len(queue),
             batch' = SubSeq(queue, 1, n), queue' = SubSeq(queue, n + 1, Len(queue))
      PROVE  Lined
  <2>1. /\ Elems(batch') \subseteq Elems(queue) /\ Elems(queue') \subseteq Elems(queue)
        /\ InOrder(back, batch') /\ InOrder(back, queue')
        /\ Prior(back, Elems(batch'), Elems(queue'))
    BY <1>1, <1>2, <1>9, CutOrder
  <2>2. Elems(unwritten') = {} /\ InOrder(back, unwritten')  BY <1>5, <1>9
  <2> QED  BY <1>5, <2>1, <2>2
<1>10. ASSUME batch = <<>>, batch' = unwritten \o queue, queue' = <<>>, unwritten' = <<>>
       PROVE  Lined
  <2>1. InOrder(back, batch')  BY <1>1, <1>2, <1>10, JoinOrder
  <2>2. Elems(batch') = Elems(unwritten) \cup Elems(queue)  BY <1>1, <1>10, ElemsJoin
  <2>3. Elems(queue') = {} /\ Elems(unwritten') = {} /\ InOrder(back, queue') /\ InOrder(back, unwritten')
    BY <1>5, <1>10
  <2> QED  BY <1>5, <2>1, <2>2, <2>3
<1> QED  BY <1>6, <1>7, <1>8, <1>9, <1>10 DEF Moved

\* What is to come is as it was.
LEMMA MovedComing ==
    ASSUME Live, ComingInv, Waiting' \subseteq Waiting, UNCHANGED <<now, back, next, timer>>,
           pending' = pending \/ pending' = NoRec, Counting' => Counting
    PROVE  ComingInv'
<1>1. \A m \in Waiting : Earlier(m) => Earlier(m)'  BY DEF Earlier
<1>2. \A m \in Waiting' : Earlier(m)'  BY <1>1 DEF ComingInv
<1> QED  BY <1>2 DEF ComingInv

\* What a step may add to what waits: the record the producer builds, the record
\* of the suspended put, the boundary the timer holds.
Given(m) == \/ m \in Waiting
            \/ m.kind = "rec" /\ ~fatal /\ m = Rec
            \/ m.kind = "rec" /\ pending # NoRec /\ m = pending
            \/ m.kind = "rotate" /\ m.start = timer.start
Flow == /\ UNCHANGED <<now, back>> /\ (Counting' => Counting) /\ next' >= next
        /\ pending' \in {pending, NoRec} \/ (pending' = Rec /\ ~fatal)
        /\ back = 0 => timer'.start >= timer.start
        /\ \A m \in Waiting' : Given(m)

LEMMA FlowBars ==
    ASSUME TypeOK, TypeOK', Flow, back = 0, NEW t \in Nat
    PROVE  (RecAbove(t) => RecAbove(t)') /\ (RotAbove(t) => RotAbove(t)')
<1>1. /\ timer.start \in Nat /\ timer'.start \in Nat /\ timer'.start >= timer.start
  BY WaitingTypes DEF Flow, TypeOK
<1>2. Rec.vis = now /\ Rec # NoRec /\ now' = now  BY RecType, RecFacts DEF Rec, Flow
<1>3. ASSUME RecAbove(t) PROVE RecAbove(t)'
  <2>1. pending' # NoRec => pending'.vis >= t  BY <1>2, <1>3 DEF Flow, RecAbove
  <2>2. \A m \in Waiting' : m.kind = "rec" => m.vis >= t  BY <1>2, <1>3 DEF Flow, Given, RecAbove
  <2> QED  BY <1>2, <1>3, <2>1, <2>2 DEF RecAbove
<1>4. ASSUME RotAbove(t) PROVE RotAbove(t)'
  <2>1. timer'.start > t  BY <1>1, <1>4 DEF RotAbove
  <2>2. \A m \in Waiting' : m.kind = "rotate" => m.start > t  BY <1>4 DEF Flow, Given, RotAbove
  <2> QED  BY <2>1, <2>2 DEF RotAbove
<1> QED  BY <1>3, <1>4

\* Every file is where it was.
Fixed == /\ DOMAIN files' = DOMAIN files /\ Len(files') = Len(files)
         /\ \A i \in DOMAIN files : files'[i].start = files[i].start
         /\ CurFile'.start = CurFile.start

LEMMA FlowLink ==
    ASSUME TypeOK, TypeOK', Live, files # <<>>, BarInv, TargetInv, Flow, Fixed
    PROVE  BarInv' /\ ((wpc' \in Sealing => wpc \in Sealing /\ target' = target) => TargetInv')
<1>1. \A i \in DOMAIN files : files[i].start \in Nat
  <2>1. \A i \in DOMAIN files : files[i] \in File  BY TypeFacts DEF Sound
  <2> QED  BY <2>1, FileFacts
<1>2. CurFile.start \in Nat  BY CurFacts, FileFacts
<1>3. Old' = Old /\ Old \subseteq DOMAIN files  BY TypeFacts DEF Old, Older, Fixed
<1>4. back' = back /\ now' = now  BY DEF Flow
<1>5. ASSUME back = 0, NEW t \in Nat PROVE Barred(t) => Barred(t)'
  BY <1>5, FlowBars DEF Barred
<1>6. ASSUME back = 0, NEW t \in Nat, NEW u \in Nat PROVE Behind(t, u) => t <= u \/ RecAbove(t)'
  BY <1>6, FlowBars DEF Behind
<1>7. BarInv'
  <2> SUFFICES ASSUME back = 0
               PROVE  /\ \A i \in DOMAIN files' : Barred(files[i].start)'
                      /\ \A i \in Old' : files'[i].start <= CurFile'.start \/ RecAbove(files[i].start)'
    BY <1>4 DEF BarInv, Behind
  <2>1. ASSUME NEW i \in DOMAIN files' PROVE Barred(files[i].start)'
    <3>1. PICK t \in Nat : t = files[i].start /\ t = files'[i].start  BY <1>1 DEF Fixed
    <3>2. Barred(t)'  BY <1>5, <3>1 DEF BarInv, Fixed
    <3> QED  BY <3>1, <3>2 DEF Barred, RecAbove, RotAbove
  <2>2. ASSUME NEW i \in Old' PROVE files'[i].start <= CurFile'.start \/ RecAbove(files[i].start)'
    <3>1. PICK t \in Nat : t = files[i].start /\ t = files'[i].start  BY <1>1, <1>3 DEF Fixed
    <3>2. PICK u \in Nat : u = CurFile.start /\ u = CurFile'.start  BY <1>2 DEF Fixed
    <3>3. Behind(t, u)  BY <1>3, <3>1, <3>2 DEF BarInv
    <3>4. t <= u \/ RecAbove(t)'  BY <1>6, <3>3
    <3> QED  BY <3>1, <3>2, <3>4 DEF RecAbove
  <2> QED  BY <2>1, <2>2
<1>8. ASSUME wpc' \in Sealing => wpc \in Sealing /\ target' = target PROVE TargetInv'
  <2> SUFFICES ASSUME wpc' \in Sealing, target' # NoTarget
               PROVE  /\ Aligned(target')
                      /\ back' = 0 => /\ target' <= now' /\ Barred(target)'
                                      /\ \A i \in DOMAIN files' : Behind(files[i].start, target)'
    BY DEF TargetInv, Barred, RecAbove, RotAbove, Behind
  <2>1. PICK u \in Nat : u = target /\ u = target'  BY <1>8 DEF TypeOK
  <2>2. /\ Aligned(u)
        /\ back = 0 => u <= now /\ Barred(u) /\ \A i \in DOMAIN files : Behind(files[i].start, u)
    BY <1>8, <2>1 DEF TargetInv
  <2>3. ASSUME back = 0, NEW i \in DOMAIN files' PROVE (files[i].start <= u \/ RecAbove(files[i].start))'
    <3>1. PICK t \in Nat : t = files[i].start /\ t = files'[i].start  BY <1>1 DEF Fixed
    <3>2. Behind(t, u)  BY <2>2, <2>3, <3>1 DEF Fixed
    <3>3. t <= u \/ RecAbove(t)'  BY <1>6, <2>3, <3>2
    <3> QED  BY <3>1, <3>3 DEF RecAbove
  <2>4. back = 0 => Barred(u)'  BY <1>5, <2>2
  <2> QED  BY <1>4, <2>1, <2>2, <2>3, <2>4 DEF Barred, RecAbove, RotAbove, Behind
<1> QED  BY <1>7, <1>8

-----------------------------------------------------------------------------
(* What a step does to the files                                           *)

\* The columns of a file that no step takes back.
Common(f, g) ==
    /\ g.start = f.start /\ g.index = f.index
    /\ g.synced \in {f.synced, Len(g.data)} /\ (IsSealed(f) => IsSealed(g))
    /\ g.name = "ndjson" => g.synced = Len(g.data)

\* The newest segment took some of the records a flush takes.
Added(f, g) ==
    /\ wpc = "consume" /\ cur.handle
    /\ \E n \in 0..FlushLen : g.data = f.data \o SubSeq(batch, 1, n)

\* The files fs are the lane's files, perhaps with records added to the newest.
Grown(fs) ==
    /\ DOMAIN fs = DOMAIN files /\ Len(fs) = Len(files)
    /\ \A i \in DOMAIN files :
         /\ fs[i] \in File /\ Common(files[i], fs[i])
         /\ i # Len(files) => fs[i].data = files[i].data /\ (files[i].sealed => fs[i].sealed)
         /\ fs[i].data = files[i].data \/ Added(files[i], fs[i])

LEMMA OldFacts ==
    ASSUME TypeOK
    PROVE  \A i \in Old : i \in DOMAIN files /\ i # Len(files) /\ i < Len(files)
<1>1. PICK n \in Nat : n = Len(files) /\ DOMAIN files = 1..n  BY TypeFacts
<1>2. Old = 1..(n - 1)  BY <1>1 DEF Old, Older
<1>3. \A i \in 1..(n - 1) : i \in 1..n /\ i # n /\ i < n  OBVIOUS
<1> QED  BY <1>1, <1>2, <1>3

\* The types of the rows of a file.
LEMMA RowTypes ==
    ASSUME NEW f \in File, NEW k \in DOMAIN f.data
    PROVE  /\ f.data[k] \in Record /\ f.data[k].idx \in Nat /\ f.data[k].vis \in Nat
           /\ Len(f.data) \in Nat /\ DOMAIN f.data = 1..Len(f.data)
<1>1. f.data \in Seq(Record)  BY FileFacts
<1>2. f.data[k] \in Record /\ Len(f.data) \in Nat /\ DOMAIN f.data = 1..Len(f.data)  BY <1>1
<1> QED  BY <1>2, RecFacts

\* The last row of a file that has rows.
LEMMA LastRow ==
    ASSUME NEW f \in File, f.data # <<>>
    PROVE  /\ Len(f.data) \in DOMAIN f.data /\ Last(f.data) = f.data[Len(f.data)]
           /\ Last(f.data).idx \in Nat /\ Last(f.data).vis \in Nat
           /\ 1 \in DOMAIN f.data /\ f.data[1].vis \in Nat
<1>1. f.data \in Seq(Record)  BY FileFacts
<1>2. Len(f.data) \in DOMAIN f.data /\ 1 \in DOMAIN f.data  BY <1>1
<1> QED  BY <1>2, RowTypes DEF Last

\* What was added to a file: rows of the batch that fit, the last of them last.
LEMMA AddedRows ==
    ASSUME TypeOK, NEW f \in File, NEW g \in File, Added(f, g)
    PROVE  \E n \in 0..FlushLen :
             /\ \A k \in DOMAIN g.data :
                  \/ k \in DOMAIN f.data /\ g.data[k] = f.data[k]
                  \/ \E m \in 1..n : g.data[k] = batch[m]
             /\ n = 0 => g.data = f.data
             /\ n > 0 => g.data # <<>> /\ Last(g.data) = batch[n]
<1>1. PICK n \in 0..FlushLen : g.data = f.data \o SubSeq(batch, 1, n)  BY DEF Added
<1>2. PICK s \in Seq(Record) : s = SubSeq(batch, 1, n)  BY TypeFacts, Prefix
<1>3. Len(s) = n /\ \A i \in 1..n : s[i] = batch[i]  BY <1>2, TypeFacts, Prefix
<1>4. PICK d \in Seq(Record) : d = f.data  BY FileFacts
<1>5. n \in Nat /\ Len(d) \in Nat /\ DOMAIN d = 1..Len(d)
  <2>1. FlushLen \in Nat  BY TypeFacts, FlushFacts
  <2> QED  BY <2>1
<1>6. PICK e \in Seq(Record) : e = d \o s
  <2>1. d \o s \in Seq(Record)  OBVIOUS
  <2> QED  BY <2>1
<1>7. g.data = e  BY <1>1, <1>2, <1>4, <1>6
<1>8. /\ Len(e) = Len(d) + n /\ DOMAIN e = 1..(Len(d) + n)
      /\ \A k \in 1..Len(d) : e[k] = d[k]
      /\ \A k \in 1..n : e[Len(d) + k] = s[k]
  <2>1. /\ Len(d \o s) = Len(d) + Len(s) /\ DOMAIN (d \o s) = 1..(Len(d) + Len(s))
        /\ \A k \in 1..Len(d) : (d \o s)[k] = d[k]
        /\ \A k \in 1..Len(s) : (d \o s)[Len(d) + k] = s[k]
    OBVIOUS
  <2> QED  BY <1>3, <1>6, <2>1
<1>9. \A k \in DOMAIN e : \/ k \in DOMAIN d /\ e[k] = d[k]
                          \/ \E m \in 1..n : e[k] = batch[m]
  <2>1. ASSUME NEW k \in DOMAIN e, k \notin DOMAIN d PROVE \E m \in 1..n : e[k] = batch[m]
    <3>1. PICK m \in 1..n : k = Len(d) + m
      <4>1. k - Len(d) \in 1..n /\ k = Len(d) + (k - Len(d))  BY <1>5, <1>8, <2>1
      <4> QED  BY <4>1
    <3> QED  BY <1>3, <1>8, <3>1
  <2>2. ASSUME NEW k \in DOMAIN e, k \in DOMAIN d PROVE e[k] = d[k]  BY <1>5, <1>8, <2>2
  <2> QED  BY <2>1, <2>2
<1>10. n = 0 => e = d
  <2>1. n = 0 => s = <<>>  BY <1>3
  <2> QED  BY <1>6, <2>1
<1>11. n > 0 => e # <<>> /\ e[Len(e)] = batch[n]
  BY <1>3, <1>5, <1>8
<1> QED  BY <1>4, <1>7, <1>9, <1>10, <1>11 DEF Last

\* What a flush adds to the newest segment, against the rest of the tape.
LEMMA AddedFits ==
    ASSUME IInv, OInv, wpc = "consume", cur.handle, NEW m \in 1..FlushLen
    PROVE  /\ m \in DOMAIN batch /\ batch[m] \in Waiting /\ batch[m] \in Record
           /\ batch[m].vis < SegEnd(CurFile) /\ batch[m].idx \in Nat /\ batch[m].vis \in Nat
           /\ \A i \in Old : Tops(files[i].data, batch[m].idx)
           /\ back = 0 => \A i \in Old : files[i].start <= CurFile.start
<1>1. TypeOK /\ Live /\ files # <<>>  BY LiveFacts DEF IInv
<1>2. batch \in Seq(Message) /\ FlushLen \in 0..Len(batch) /\ Len(batch) \in Nat
      /\ DOMAIN batch = 1..Len(batch)
  BY <1>1, TypeFacts, FlushFacts
<1>3. m \in DOMAIN batch /\ batch[m] \in Message  BY <1>2
<1>4. batch[m].kind = "rec" /\ batch[m].vis < SegEnd(CurFile)
  BY <1>2, FlushFacts DEF CurFile
<1>5. batch[m] \in Waiting  BY <1>3 DEF Waiting, Elems
<1>6. batch[m] \in Record /\ batch[m].idx \in Nat /\ batch[m].vis \in Nat  BY <1>3, <1>4, RecFacts
<1>7. \A i \in Old : Tops(files[i].data, batch[m].idx)
  BY <1>1, <1>4, <1>5 DEF OInv, LinkInv, AboveInv
<1>8. ASSUME back = 0, NEW i \in Old PROVE files[i].start <= CurFile.start
  <2>1. i \in DOMAIN files /\ files[i] \in File /\ CurFile \in File /\ CurFile = files[Len(files)]
        /\ Len(files) \in DOMAIN files
    BY <1>1, TypeFacts, CurFacts DEF Old, Older, Sound
  <2>2. PICK t \in Nat, u \in Nat : t = files[i].start /\ u = CurFile.start  BY <2>1, FileFacts
  <2>3. Aligned(t) /\ Aligned(u)  BY <2>1, <2>2 DEF OInv, TapeInv, Tape, Placed
  <2>4. Behind(t, u)  BY <1>1, <1>8, <2>2 DEF OInv, LinkInv, BarInv
  <2>5. CASE t <= u  BY <2>2, <2>5
  <2>6. CASE RecAbove(t)
    <3>1. batch[m].vis >= t  BY <1>4, <1>5, <2>6 DEF RecAbove
    <3>2. batch[m].vis < u + Period  BY <1>4, <2>2 DEF SegEnd
    <3>3. CASE u < t
      <4>1. u + Period <= t  BY <2>3, <3>3, WindowGap
      <4> QED  BY <1>6, <3>1, <3>2, <4>1, PeriodFacts
    <3> QED  BY <2>2, <3>3
  <2> QED  BY <2>4, <2>5, <2>6 DEF Behind
<1> QED  BY <1>3, <1>4, <1>5, <1>6, <1>7, <1>8

\* A step that adds records to the newest segment at most keeps the tape.
LEMMA GrownTape ==
    ASSUME IInv, OInv, NEW fs, Grown(fs), Flagged(fs)
    PROVE  Tape(fs, back, now)
<1>1. /\ TypeOK /\ DOMAIN files = 1..Len(files) /\ Len(files) \in Nat
      /\ \A i \in DOMAIN files : files[i] \in File
  BY TypeFacts DEF IInv, Sound
<1>2. /\ InWindow(files) /\ RisingFiles(files) /\ Placed(files, back, now) /\ Numbered(files)
      /\ Wrote(files, back) /\ Stable(files) /\ Named(files) /\ OldSealed(files)
  BY DEF OInv, TapeInv, Tape
<1>3. /\ DOMAIN fs = DOMAIN files /\ Len(fs) = Len(files)
      /\ \A i \in DOMAIN files :
           /\ fs[i] \in File /\ Common(files[i], fs[i])
           /\ i # Len(files) => fs[i].data = files[i].data /\ (files[i].sealed => fs[i].sealed)
           /\ fs[i].data = files[i].data \/ Added(files[i], fs[i])
  BY DEF Grown
<1>4. Older(fs) = Old /\ \A i \in Old : i \in DOMAIN files /\ i # Len(files) /\ i < Len(files)
  <2>1. Older(fs) = Old  BY <1>3 DEF Old, Older
  <2>2. \A i \in Old : i \in DOMAIN files /\ i # Len(files) /\ i < Len(files)
    BY <1>1, OldFacts
  <2> QED  BY <2>1, <2>2
<1>5. \A i \in DOMAIN files : fs[i].start = files[i].start /\ fs[i].index = files[i].index
  BY <1>3 DEF Common
<1>6. ASSUME NEW i \in DOMAIN files, NEW k \in DOMAIN fs[i].data
      PROVE  \/ k \in DOMAIN files[i].data /\ fs[i].data[k] = files[i].data[k]
             \/ /\ i = Len(files) /\ wpc = "consume" /\ cur.handle
                /\ \E m \in 1..FlushLen : fs[i].data[k] = batch[m]
  <2>1. CASE fs[i].data = files[i].data  BY <2>1
  <2>2. CASE Added(files[i], fs[i]) /\ fs[i].data # files[i].data
    <3>1. PICK f \in File, g \in File : f = files[i] /\ g = fs[i]  BY <1>1, <1>3
    <3>2. Added(f, g)  BY <2>2, <3>1
    <3>3. PICK n \in 0..FlushLen :
             \A x \in DOMAIN g.data : \/ x \in DOMAIN f.data /\ g.data[x] = f.data[x]
                                      \/ \E m \in 1..n : g.data[x] = batch[m]
      BY <1>1, <3>2, AddedRows
    <3>4. i = Len(files) /\ wpc = "consume" /\ cur.handle  BY <1>3, <2>2 DEF Added
    <3>5. FlushLen \in Nat  BY <1>1, TypeFacts, FlushFacts
    <3> QED  BY <3>1, <3>3, <3>4, <3>5
  <2> QED  BY <1>3, <2>1, <2>2
<1>7. InWindow(fs)
  <2> SUFFICES ASSUME NEW i \in DOMAIN files, NEW k \in DOMAIN fs[i].data
               PROVE  fs[i].data[k].vis < SegEnd(fs[i])
    BY <1>3 DEF InWindow
  <2>1. SegEnd(fs[i]) = SegEnd(files[i])  BY <1>5 DEF SegEnd
  <2>2. CASE k \in DOMAIN files[i].data /\ fs[i].data[k] = files[i].data[k]
    BY <1>2, <2>1, <2>2 DEF InWindow
  <2>3. CASE /\ i = Len(files) /\ wpc = "consume" /\ cur.handle
             /\ \E m \in 1..FlushLen : fs[i].data[k] = batch[m]
    <3>1. CurFile = files[i]  BY <2>3 DEF CurFile, Last
    <3> QED  BY <2>1, <2>3, <3>1, AddedFits
  <2> QED  BY <1>6, <2>2, <2>3
<1>8. RisingFiles(fs)
  <2> SUFFICES ASSUME NEW i \in DOMAIN files, NEW j \in DOMAIN files, i < j,
                      NEW k \in DOMAIN fs[j].data
               PROVE  Tops(fs[i].data, fs[j].data[k].idx)
    BY <1>3 DEF RisingFiles
  <2>1. i \in Old  BY <1>1 DEF Old, Older
  <2>2. fs[i].data = files[i].data  BY <1>3, <1>4, <2>1
  <2>3. CASE k \in DOMAIN files[j].data /\ fs[j].data[k] = files[j].data[k]
    BY <1>2, <2>2, <2>3 DEF RisingFiles
  <2>4. CASE /\ wpc = "consume" /\ cur.handle
             /\ \E m \in 1..FlushLen : fs[j].data[k] = batch[m]
    BY <2>1, <2>2, <2>4, AddedFits
  <2> QED  BY <1>6, <2>3, <2>4
<1>9. Placed(fs, back, now)  BY <1>2, <1>3, <1>5 DEF Placed
<1>10. Numbered(fs)
  <2>1. ASSUME NEW i \in DOMAIN files
        PROVE  {k \in 1..(i - 1) : fs[k].start = fs[i].start}
                 = {k \in 1..(i - 1) : files[k].start = files[i].start}
    <3>1. \A k \in 1..(i - 1) : k \in DOMAIN files  BY <1>1
    <3> QED  BY <1>5, <3>1
  <2> QED  BY <1>2, <1>3, <1>5, <2>1 DEF Numbered
<1>11. Wrote(fs, back)
  <2> SUFFICES ASSUME back = 0, NEW i \in DOMAIN files, NEW j \in DOMAIN files, i < j,
                      fs[i].data # <<>>, fs[j].data # <<>>
               PROVE  files[i].start <= files[j].start
    BY <1>3, <1>5 DEF Wrote
  <2>1. i \in Old  BY <1>1 DEF Old, Older
  <2>2. files[i].data # <<>>  BY <1>3, <1>4, <2>1
  <2>3. CASE files[j].data # <<>>  BY <1>2, <2>2, <2>3 DEF Wrote
  <2>4. CASE files[j].data = <<>>
    <3>2. 1 \in DOMAIN fs[j].data /\ 1 \notin DOMAIN files[j].data  BY <1>3, <2>4, LastRow
    <3>3. /\ j = Len(files) /\ wpc = "consume" /\ cur.handle
          /\ \E m \in 1..FlushLen : fs[j].data[1] = batch[m]
      BY <1>6, <3>2
    <3>4. CurFile = files[j]  BY <3>3 DEF CurFile, Last
    <3> QED  BY <2>1, <3>3, <3>4, AddedFits
  <2> QED  BY <2>3, <2>4
<1>12. Stable(fs)
  <2> SUFFICES ASSUME NEW i \in Old PROVE fs[i].sealed \/ fs[i].synced = Len(fs[i].data)
    BY <1>4 DEF Stable
  <2>1. files[i].sealed \/ files[i].synced = Len(files[i].data)  BY <1>2 DEF Stable, Old
  <2> QED  BY <1>3, <1>4, <2>1 DEF Common
<1>13. Named(fs)  BY <1>3 DEF Named, Common
<1>14. OldSealed(fs)  BY <1>2, <1>3, <1>4 DEF OldSealed, Old, Common
<1> QED  BY <1>7, <1>8, <1>9, <1>10, <1>11, <1>12, <1>13, <1>14 DEF Tape

\* The seals that writers made are as they were.
LEMMA GrownFlags ==
    ASSUME IInv, OInv, NEW fs, Grown(fs),
           \A i \in DOMAIN files : fs[i].seal = files[i].seal \/ fs[i].seal.reason # "writer"
    PROVE  Flagged(fs)
<1>1. /\ TypeOK /\ DOMAIN files = 1..Len(files) /\ Len(files) \in Nat
  BY TypeFacts DEF IInv
<1>2. /\ DOMAIN fs = DOMAIN files
      /\ \A i \in DOMAIN files : i # Len(files) => fs[i].data = files[i].data
      /\ \A i \in DOMAIN files : fs[i].data = files[i].data \/ Added(files[i], fs[i])
  BY DEF Grown
<1> SUFFICES ASSUME NEW i \in DOMAIN files, NEW j \in DOMAIN files, i < j, fs[i].data # <<>>,
                    fs[j].data # <<>>, \A k \in (i + 1)..(j - 1) : fs[k].data = <<>>,
                    fs[j].data[1].vis < Last(fs[i].data).vis, fs[j].seal.reason = "writer"
             PROVE  ~fs[j].seal.ok
  BY <1>2 DEF Flagged
<1>3. fs[j].seal = files[j].seal /\ files[j].seal.reason = "writer"  OBVIOUS
<1>4. fs[j].data = files[j].data
  <2> SUFFICES ASSUME fs[j].data # files[j].data PROVE FALSE
    OBVIOUS
  <2>1. j = Len(files) /\ wpc = "consume" /\ cur.handle  BY <1>2 DEF Added
  <2>2. Live  BY <1>1, <2>1, LiveFacts DEF IInv
  <2>3. CurFile = files[j]  BY <2>1 DEF CurFile, Last
  <2>4. files[j].seal = NoSeal  BY <2>1, <2>2, <2>3 DEF IInv, WriterInv, IsSealed
  <2> QED  BY <1>3, <2>4 DEF NoSeal
<1>5. fs[i].data = files[i].data  BY <1>1, <1>2
<1>6. \A k \in (i + 1)..(j - 1) : files[k].data = <<>>
  <2>1. PICK n \in Nat : n = Len(files) /\ DOMAIN files = 1..n  BY <1>1
  <2>2. i \in 1..n /\ j \in 1..n  BY <2>1
  <2>3. \A k \in (i + 1)..(j - 1) : k \in 1..n /\ k # n  BY <2>2
  <2> QED  BY <1>2, <2>1, <2>3
<1>7. Flagged(files)  BY DEF OInv, TapeInv, Tape
<1> QED  BY <1>3, <1>4, <1>5, <1>6, <1>7 DEF Flagged

\* A segment was opened behind n others, once the last of them was settled.
Settled(f)           == IsSealed(f) /\ (f.sealed \/ f.synced = Len(f.data))
Opened(gs, fs, n, s) == /\ Len(gs) = n + 1 /\ DOMAIN gs = 1..(n + 1) /\ \A i \in 1..n : gs[i] = fs[i]
                        /\ gs[n + 1].start = s /\ gs[n + 1].data = <<>> /\ gs[n + 1].name = "open"
AddsNew(gs, fs, s)   == fs \in Seq(File) /\ gs = Append(fs, NewFile(fs, s))

LEMMA NewTape ==
    ASSUME NEW fs, NEW gs, NEW z \in Nat, NEW t \in Nat, NEW st \in Nat, NEW n \in Nat,
           Tape(fs, z, t), Aligned(st), z = 0 => st <= t, AddsNew(gs, fs, st),
           n = Len(fs), n # 0 => Settled(fs[n])
    PROVE  Tape(gs, z, t) /\ Opened(gs, fs, n, st)
<1>1. PICK g : g = NewFile(fs, st)  OBVIOUS
<1>2. /\ Sound(g) /\ g.data = <<>> /\ g.synced = 0 /\ g.start = st /\ g.name = "open"
      /\ g.index = NextSegmentIndex(fs, st) /\ g.seal = NoSeal
  <2>1. fs \in Seq(File)  BY DEF AddsNew
  <2> QED  BY <1>1, <2>1, NewFileFacts
<1>3. fs \in Seq(File) /\ n = Len(fs) /\ DOMAIN fs = 1..n  BY DEF AddsNew
<1>4. gs = Append(fs, g)  BY <1>1 DEF AddsNew
<1>5. /\ Len(gs) = n + 1 /\ DOMAIN gs = 1..(n + 1) /\ gs[n + 1] = g
      /\ \A i \in 1..n : gs[i] = fs[i]
  <2>1. g \in File  BY <1>2 DEF Sound
  <2> QED  BY <1>3, <1>4, <2>1
<1>6. \A i \in DOMAIN gs : (i \in 1..n /\ gs[i] = fs[i]) \/ (i = n + 1 /\ gs[i] = g)
  BY <1>5
<1>7. /\ InWindow(fs) /\ RisingFiles(fs) /\ Placed(fs, z, t) /\ Numbered(fs) /\ Wrote(fs, z)
      /\ Stable(fs) /\ Named(fs) /\ OldSealed(fs) /\ Flagged(fs)
  BY DEF Tape
<1>8. DOMAIN g.data = {} /\ Len(g.data) = 0  BY <1>2
<1>9. InWindow(gs)
  <2> SUFFICES ASSUME NEW i \in DOMAIN gs, NEW k \in DOMAIN gs[i].data
               PROVE  gs[i].data[k].vis < SegEnd(gs[i])
    BY DEF InWindow
  <2>1. i \in 1..n /\ gs[i] = fs[i]  BY <1>6, <1>8
  <2> QED  BY <1>3, <1>7, <2>1 DEF InWindow
<1>10. RisingFiles(gs)
  <2> SUFFICES ASSUME NEW i \in DOMAIN gs, NEW j \in DOMAIN gs, i < j, NEW k \in DOMAIN gs[j].data
               PROVE  Tops(gs[i].data, gs[j].data[k].idx)
    BY DEF RisingFiles
  <2>1. j \in 1..n /\ gs[j] = fs[j]  BY <1>6, <1>8
  <2>2. i \in 1..n /\ gs[i] = fs[i]  BY <1>5, <1>6, <2>1
  <2> QED  BY <1>3, <1>7, <2>1, <2>2 DEF RisingFiles
<1>11. Placed(gs, z, t)
  <2> SUFFICES ASSUME NEW i \in DOMAIN gs PROVE Aligned(gs[i].start) /\ (z = 0 => gs[i].start <= t)
    BY DEF Placed
  <2>1. CASE i \in 1..n /\ gs[i] = fs[i]  BY <1>3, <1>7, <2>1 DEF Placed
  <2>2. CASE gs[i] = g  BY <1>2, <2>2
  <2> QED  BY <1>6, <2>1, <2>2
<1>12. Numbered(gs)
  <2> SUFFICES ASSUME NEW i \in DOMAIN gs
               PROVE  gs[i].index = Cardinality({k \in 1..(i - 1) : gs[k].start = gs[i].start})
    BY DEF Numbered
  <2>1. \A k \in 1..(i - 1) : k \in 1..n /\ gs[k] = fs[k]  BY <1>5
  <2>2. CASE i \in 1..n /\ gs[i] = fs[i]
    <3>1. {k \in 1..(i - 1) : gs[k].start = gs[i].start} = {k \in 1..(i - 1) : fs[k].start = fs[i].start}
      BY <2>1, <2>2
    <3> QED  BY <1>3, <1>7, <2>2, <3>1 DEF Numbered
  <2>3. CASE i = n + 1 /\ gs[i] = g
    <3>1. i - 1 = n  BY <2>3
    <3>2. {k \in 1..(i - 1) : gs[k].start = gs[i].start} = {k \in DOMAIN fs : fs[k].start = st}
      BY <1>2, <1>3, <2>1, <2>3, <3>1
    <3> QED  BY <1>2, <2>3, <3>2 DEF NextSegmentIndex
  <2> QED  BY <1>6, <2>2, <2>3
<1>13. Wrote(gs, z)
  <2> SUFFICES ASSUME z = 0, NEW i \in DOMAIN gs, NEW j \in DOMAIN gs, i < j,
                      gs[i].data # <<>>, gs[j].data # <<>>
               PROVE  gs[i].start <= gs[j].start
    BY DEF Wrote
  <2>1. i \in 1..n /\ gs[i] = fs[i] /\ j \in 1..n /\ gs[j] = fs[j]  BY <1>2, <1>6
  <2> QED  BY <1>3, <1>7, <2>1 DEF Wrote
<1>14. \A i \in Older(gs) : i \in 1..n /\ gs[i] = fs[i] /\ (i \in Older(fs) \/ (i = Len(fs) /\ fs # <<>>))
  <2> SUFFICES ASSUME NEW i \in Older(gs)
               PROVE  i \in 1..n /\ gs[i] = fs[i] /\ (i \in Older(fs) \/ (i = Len(fs) /\ fs # <<>>))
    OBVIOUS
  <2>1. i \in 1..((n + 1) - 1)  BY <1>5 DEF Older
  <2>2. i \in 1..n /\ gs[i] = fs[i]  BY <1>5, <2>1
  <2>3. i \in 1..(n - 1) \/ i = n  BY <2>2
  <2>4. fs # <<>>  BY <1>3, <2>2
  <2> QED  BY <1>3, <2>2, <2>3, <2>4 DEF Older
<1>15. Stable(gs)  BY <1>3, <1>7, <1>14 DEF Stable, Settled
<1>16. Named(gs)
  <2> SUFFICES ASSUME NEW i \in DOMAIN gs, gs[i].name = "ndjson" PROVE gs[i].synced = Len(gs[i].data)
    BY DEF Named
  <2>1. i \in 1..n /\ gs[i] = fs[i]  BY <1>2, <1>6
  <2> QED  BY <1>3, <1>7, <2>1 DEF Named
<1>17. OldSealed(gs)  BY <1>3, <1>7, <1>14 DEF OldSealed, Settled
<1>18. Flagged(gs)
  <2> SUFFICES ASSUME NEW i \in DOMAIN gs, NEW j \in DOMAIN gs, i < j, gs[i].data # <<>>,
                      gs[j].data # <<>>, \A k \in (i + 1)..(j - 1) : gs[k].data = <<>>,
                      gs[j].data[1].vis < Last(gs[i].data).vis, gs[j].seal.reason = "writer"
               PROVE  ~gs[j].seal.ok
    BY DEF Flagged
  <2>1. i \in 1..n /\ gs[i] = fs[i] /\ j \in 1..n /\ gs[j] = fs[j]  BY <1>2, <1>6
  <2>2. \A k \in (i + 1)..(j - 1) : k \in 1..n  BY <2>1
  <2>3. \A k \in (i + 1)..(j - 1) : fs[k].data = <<>>  BY <1>5, <2>2
  <2> QED  BY <1>3, <1>7, <2>1, <2>3 DEF Flagged
<1>19. Tape(gs, z, t)
  BY <1>9, <1>10, <1>11, <1>12, <1>13, <1>15, <1>16, <1>17, <1>18 DEF Tape
<1> QED  BY <1>2, <1>5, <1>19 DEF Opened

\* A power loss keeps the tape.
LEMMA LossTape ==
    ASSUME NEW fs \in Seq(File), NEW z, NEW t, Tape(fs, z, t), NEW gs, LossOf(fs, gs)
    PROVE  Tape(gs, z, t)
<1>1. PICK n \in Nat, p \in Nat : /\ n = Len(fs) /\ DOMAIN fs = 1..n /\ p = Len(gs) /\ DOMAIN gs = 1..p
                                  /\ p <= n /\ gs \in Seq(File)
  BY DEF LossOf
<1>2. /\ InWindow(fs) /\ RisingFiles(fs) /\ Placed(fs, z, t) /\ Numbered(fs) /\ Wrote(fs, z)
      /\ Stable(fs) /\ Named(fs) /\ OldSealed(fs) /\ Flagged(fs)
  BY DEF Tape
<1>3. \A i \in DOMAIN gs : /\ i \in DOMAIN fs /\ fs[i] \in File /\ gs[i] \in File
                           /\ gs[i].start = fs[i].start /\ gs[i].index = fs[i].index
  <2>1. \A i \in DOMAIN gs : i \in DOMAIN fs /\ Left(fs[i], gs[i])  BY DEF LossOf
  <2>2. \A i \in DOMAIN gs : gs[i].start = fs[i].start /\ gs[i].index = fs[i].index
    BY <2>1 DEF Left, Kept
  <2> QED  BY <1>1, <2>1, <2>2
<1>4. ASSUME NEW i \in DOMAIN gs
      PROVE  /\ gs[i].synced = fs[i].synced /\ gs[i].sealed = fs[i].sealed
             /\ fs[i].synced = Len(fs[i].data) => gs[i].data = fs[i].data
             /\ gs[i].seal \in {NoSeal, fs[i].seal} /\ gs[i].name \in {"open", fs[i].name}
             /\ fs[i].sealed => gs[i] = fs[i]
             /\ OrderedDirs /\ i < Len(gs) => gs[i].seal = fs[i].seal
  <2>1. PICK f, g : f = fs[i] /\ g = gs[i]  OBVIOUS
  <2>2. Left(f, g) /\ (f.sealed => g = f) /\ (OrderedDirs /\ i < Len(gs) => g.seal = f.seal)
    BY <2>1 DEF LossOf
  <2>3. /\ g.synced = f.synced /\ g.sealed = f.sealed
        /\ f.synced = Len(f.data) => g.data = f.data
        /\ g.seal \in {NoSeal, f.seal} /\ g.name \in {"open", f.name}
    BY <2>2 DEF Left
  <2> QED  BY <2>1, <2>2, <2>3
\* A row that is left is the row that was there.
<1>5. ASSUME NEW i \in DOMAIN gs
      PROVE  /\ \A k \in DOMAIN gs[i].data : k \in DOMAIN fs[i].data /\ gs[i].data[k] = fs[i].data[k]
             /\ gs[i].data # <<>> => fs[i].data # <<>> /\ gs[i].data[1] = fs[i].data[1]
  <2>1. PICK f \in File, g \in File : f = fs[i] /\ g = gs[i]  BY <1>3
  <2>2. PICK m \in 0..Len(f.data) : g.data = SubSeq(f.data, 1, m)
    <3>1. Left(f, g)  BY <2>1 DEF LossOf
    <3> QED  BY <3>1 DEF Left
  <2>3. PICK d \in Seq(Record) : d = f.data  BY FileFacts
  <2>4. /\ m \in 0..Len(d) /\ Len(d) \in Nat /\ DOMAIN d = 1..Len(d)  BY <2>2, <2>3
  <2>5. PICK e : e = SubSeq(d, 1, m)  OBVIOUS
  <2>6. /\ DOMAIN e = 1..m /\ \A k \in 1..m : e[k] = d[k]  BY <2>4, <2>5
  <2>7. m = 0 => e = <<>>  BY <2>4, <2>5
  <2>8. \A k \in DOMAIN e : k \in DOMAIN d /\ e[k] = d[k]  BY <2>4, <2>6
  <2>9. e # <<>> => 1 \in DOMAIN e  BY <2>4, <2>6, <2>7
  <2>10. g.data = e /\ f.data = d  BY <2>2, <2>3, <2>5
  <2>11. DOMAIN <<>> = {}  OBVIOUS
  <2> QED  BY <2>1, <2>8, <2>9, <2>10, <2>11
<1>6. \A i \in Older(gs) : i \in DOMAIN gs /\ i \in Older(fs) /\ i < Len(gs)
  <2>1. \A i \in 1..(p - 1) : i \in 1..p /\ i \in 1..(n - 1) /\ i < p  BY <1>1
  <2> QED  BY <1>1, <2>1 DEF Older
<1>7. \A i \in Older(gs) : gs[i].data = fs[i].data  BY <1>2, <1>4, <1>6 DEF Stable
<1>8. \A i, j \in DOMAIN gs : i < j => i \in Older(gs)
  <2>1. \A i, j \in 1..p : i < j => i \in 1..(p - 1)  OBVIOUS
  <2> QED  BY <1>1, <2>1 DEF Older
<1>9. InWindow(gs)  BY <1>2, <1>3, <1>5 DEF InWindow, SegEnd
<1>10. RisingFiles(gs)
  <2> SUFFICES ASSUME NEW i \in DOMAIN gs, NEW j \in DOMAIN gs, i < j, NEW k \in DOMAIN gs[j].data
               PROVE  Tops(gs[i].data, gs[j].data[k].idx)
    BY DEF RisingFiles
  <2>1. gs[i].data = fs[i].data  BY <1>7, <1>8
  <2>2. k \in DOMAIN fs[j].data /\ gs[j].data[k] = fs[j].data[k]  BY <1>5
  <2> QED  BY <1>2, <1>3, <2>1, <2>2 DEF RisingFiles
<1>11. Placed(gs, z, t)  BY <1>2, <1>3 DEF Placed
<1>12. Numbered(gs)
  <2>1. ASSUME NEW i \in DOMAIN gs
        PROVE  {k \in 1..(i - 1) : gs[k].start = gs[i].start}
                 = {k \in 1..(i - 1) : fs[k].start = fs[i].start}
    <3>1. i \in 1..p  BY <1>1
    <3>2. \A k \in 1..(i - 1) : k \in 1..p  BY <3>1
    <3>3. \A k \in 1..(i - 1) : gs[k].start = fs[k].start  BY <1>1, <1>3, <3>2
    <3> QED  BY <1>3, <3>3
  <2> QED  BY <1>2, <1>3, <2>1 DEF Numbered
<1>13. Wrote(gs, z)  BY <1>2, <1>3, <1>5 DEF Wrote
<1>14. Stable(gs)
  <2> SUFFICES ASSUME NEW i \in Older(gs) PROVE gs[i].sealed \/ gs[i].synced = Len(gs[i].data)
    BY DEF Stable
  <2>1. fs[i].sealed \/ fs[i].synced = Len(fs[i].data)  BY <1>2, <1>6 DEF Stable
  <2> QED  BY <1>4, <1>6, <1>7, <2>1
<1>15. Named(gs)
  <2> SUFFICES ASSUME NEW i \in DOMAIN gs, gs[i].name = "ndjson" PROVE gs[i].synced = Len(gs[i].data)
    BY DEF Named
  <2>1. fs[i].name = "ndjson"  BY <1>4
  <2>2. fs[i].synced = Len(fs[i].data)  BY <1>2, <1>3, <2>1 DEF Named
  <2> QED  BY <1>4, <2>2
<1>16. OldSealed(gs)  BY <1>2, <1>4, <1>6 DEF OldSealed, IsSealed
<1>17. Flagged(gs)
  <2> SUFFICES ASSUME NEW i \in DOMAIN gs, NEW j \in DOMAIN gs, i < j, gs[i].data # <<>>,
                      gs[j].data # <<>>, \A k \in (i + 1)..(j - 1) : gs[k].data = <<>>,
                      gs[j].data[1].vis < Last(gs[i].data).vis, gs[j].seal.reason = "writer"
               PROVE  ~gs[j].seal.ok
    BY DEF Flagged
  <2>1. i \in DOMAIN fs /\ j \in DOMAIN fs /\ i \in 1..p /\ j \in 1..p  BY <1>1, <1>3
  <2>2. \A k \in (i + 1)..(j - 1) : k \in 1..(p - 1)  BY <2>1
  <2>3. \A k \in (i + 1)..(j - 1) : fs[k].data = <<>>  BY <1>1, <1>7, <2>2 DEF Older
  <2>4. gs[i].data = fs[i].data  BY <1>7, <1>8
  <2>5. gs[j].seal = fs[j].seal
    <3>1. NoSeal.reason # "writer"  BY DEF NoSeal
    <3> QED  BY <1>4, <3>1
  <2>6. fs[j].data # <<>> /\ gs[j].data[1] = fs[j].data[1]  BY <1>5
  <2> QED  BY <1>2, <2>1, <2>3, <2>4, <2>5, <2>6 DEF Flagged
<1> QED  BY <1>9, <1>10, <1>11, <1>12, <1>13, <1>14, <1>15, <1>16, <1>17 DEF Tape

\* Only the newest segment is touched, or none.
LEMMA SetGrown ==
    ASSUME TypeOK, files # <<>>, Named(files), NEW g, Kept(CurFile, g), Common(CurFile, g),
           g.data = CurFile.data \/ Added(CurFile, g), SetCurFile(g)
    PROVE  Grown(files') /\ CurOnly /\ CurFile' = g
<1>1. CurOnly /\ CurFile' = g  BY CurOnlyFacts
<1>2. /\ DOMAIN files' = DOMAIN files /\ Len(files') = Len(files)
      /\ CurFile = files[Len(files)] /\ files'[Len(files)] = g
      /\ \A i \in DOMAIN files : i # Len(files) => files'[i] = files[i]
  BY <1>1 DEF CurOnly
<1>3. g \in File /\ \A i \in DOMAIN files : files[i] \in File  BY TypeFacts DEF Kept, Sound
<1>4. \A i \in DOMAIN files : Common(files[i], files[i])  BY DEF Common, Named
<1>5. \A i \in DOMAIN files : i = Len(files) =>
        files'[i] \in File /\ Common(files[i], files'[i])
        /\ (files'[i].data = files[i].data \/ Added(files[i], files'[i]))
  BY <1>2, <1>3
<1>6. Grown(files')  BY <1>2, <1>3, <1>4, <1>5 DEF Grown
<1> QED  BY <1>1, <1>6

LEMMA SameGrown ==
    ASSUME TypeOK, Named(files)
    PROVE  Grown(files)
<1>1. \A i \in DOMAIN files : files[i] \in File /\ Common(files[i], files[i])
  BY TypeFacts DEF Common, Named, Sound
<1> QED  BY <1>1 DEF Grown

LEMMA DirGrown ==
    ASSUME TypeOK, Named(files), NEW fs, fs = DirSynced(files)
    PROVE  /\ Grown(fs) /\ fs \in Seq(File)
           /\ \A i \in DOMAIN files :
                /\ fs[i].seal = files[i].seal /\ fs[i].data = files[i].data
                /\ fs[i].name = files[i].name /\ fs[i].synced = files[i].synced
                /\ fs[i].start = files[i].start /\ (IsSealed(files[i]) => fs[i].sealed)
<1>1. /\ fs \in Seq(File) /\ DOMAIN fs = DOMAIN files /\ Len(fs) = Len(files)
      /\ \A i \in DOMAIN files :
           /\ Kept(files[i], fs[i]) /\ fs[i].data = files[i].data
           /\ fs[i].synced = files[i].synced /\ fs[i].name = files[i].name
           /\ fs[i].seal = files[i].seal /\ fs[i].sealed = (files[i].sealed \/ IsSealed(files[i]))
  BY TypeFacts, DirSyncedFacts
<1>2. \A i \in DOMAIN files : fs[i].start = files[i].start /\ fs[i].index = files[i].index
  BY <1>1 DEF Kept
<1>3. \A i \in DOMAIN files : fs[i] \in File /\ Common(files[i], fs[i])
  BY <1>1, <1>2 DEF Common, Named, IsSealed
<1>4. Grown(fs)  BY <1>1, <1>3 DEF Grown
<1> QED  BY <1>1, <1>2, <1>4

\* The files at the moment of a crash.
LEMMA StoppedGrown ==
    ASSUME IInv, OInv, NEW fs, Stopped(fs)
    PROVE  fs \in Seq(File) /\ Grown(fs) /\ Tape(fs, back, now)
<1>0. TypeOK /\ \A i \in DOMAIN files : Sound(files[i])  BY TypeFacts DEF IInv
<1>1. Named(files)  BY DEF OInv, TapeInv, Tape
<1>2. /\ fs \in Seq(File) /\ DOMAIN fs = DOMAIN files /\ Len(fs) = Len(files)
      /\ \A i \in DOMAIN files :
           /\ Kept(files[i], fs[i]) /\ fs[i].synced = files[i].synced
           /\ fs[i].seal = files[i].seal /\ fs[i].name = files[i].name
           /\ \/ fs[i] = files[i]
              \/ /\ i = Len(files) /\ wpc = "consume" /\ cur.handle /\ FlushLen > 0
                 /\ \E n \in 0..FlushLen : fs[i].data = files[i].data \o SubSeq(batch, 1, n)
  BY <1>0, StoppedFacts
<1>3. ASSUME NEW i \in DOMAIN files
      PROVE  /\ fs[i] \in File /\ Common(files[i], fs[i])
             /\ i # Len(files) => fs[i] = files[i]
             /\ fs[i].data = files[i].data \/ Added(files[i], fs[i])
  <2>1. CASE fs[i] = files[i]
    <3>1. files[i] \in File  BY <1>0 DEF Sound
    <3> QED  BY <1>1, <2>1, <3>1 DEF Common, Named
  <2>2. CASE fs[i] # files[i]
    <3>1. PICK f, g : f = files[i] /\ g = fs[i]  OBVIOUS
    <3>2. /\ i = Len(files) /\ Added(f, g) /\ Kept(f, g) /\ g.synced = f.synced /\ g.name = f.name
          /\ g.seal = f.seal /\ cur.handle /\ wpc = "consume"
      BY <1>2, <2>2, <3>1 DEF Added
    <3>3. f.name = "open"
      <4>1. Live  BY <1>0, <3>2, LiveFacts DEF IInv
      <4>2. CurFile = f  BY <3>1, <3>2 DEF CurFile, Last
      <4> QED  BY <3>2, <4>1, <4>2 DEF OInv, LinkInv, HandleInv
    <3>4. g \in File /\ g.start = f.start /\ g.index = f.index  BY <3>2 DEF Kept, Sound
    <3>5. Common(f, g)  BY <3>2, <3>3, <3>4 DEF Common, IsSealed
    <3> QED  BY <3>1, <3>2, <3>4, <3>5
  <2> QED  BY <2>1, <2>2
<1>4. Grown(fs)  BY <1>2, <1>3 DEF Grown
<1>5. Flagged(fs)  BY <1>2, <1>4, GrownFlags
<1> QED  BY <1>2, <1>4, <1>5, GrownTape

\* Without a process only the tape is left.
LEMMA DownOrder == ASSUME ~Live', TapeInv' PROVE OInv'
BY DEF OInv, StreamInv, ComingInv, LinkInv, AboveInv, PrevInv, BarInv, TargetInv, HandleInv

LEMMA CrashOrder ==
    ASSUME IInv, OInv, Kill \/ PowerLoss
    PROVE  OInv'
<1>1. ~Live' /\ UNCHANGED <<now, back>>  BY DEF Kill, PowerLoss, Live
<1>2. CASE Kill
  <2>1. PICK fs : fs = files' /\ Stopped(fs)  BY <1>2 DEF Kill, SetCurFile, Stopped
  <2>2. Tape(fs, back, now)  BY <2>1, StoppedGrown
  <2>3. TapeInv'  BY <1>1, <2>1, <2>2 DEF TapeInv
  <2> QED  BY <1>1, <2>3, DownOrder
<1>3. CASE PowerLoss
  <2>1. PICK fs : Stopped(fs) /\ LossOf(fs, files')  BY <1>3, TypeFacts, LossFacts DEF IInv
  <2>2. PICK gs : gs = files'  OBVIOUS
  <2>3. fs \in Seq(File) /\ Tape(fs, back, now)  BY <2>1, StoppedGrown
  <2>4. Tape(gs, back, now)  BY <2>1, <2>2, <2>3, LossTape
  <2>5. TapeInv'  BY <1>1, <2>2, <2>4 DEF TapeInv
  <2> QED  BY <1>1, <2>5, DownOrder
<1> QED  BY <1>2, <1>3

\* A step without a process that touches the files no more than recovery does.
LEMMA QuietOrder ==
    ASSUME IInv, OInv, ~Live', UNCHANGED <<now, back>>, Grown(files'), Flagged(files')
    PROVE  OInv'
<1>1. PICK fs : fs = files'  OBVIOUS
<1>2. Tape(fs, back, now)  BY <1>1, GrownTape
<1>3. TapeInv'  BY <1>1, <1>2 DEF TapeInv
<1> QED  BY <1>3, DownOrder

\* seal_orphan up to the rename keeps the tape.
LEMMA RecoverRenameOrder ==
    ASSUME IInv, OInv, RecoverRename
    PROVE  OInv'
<1>1. ~Live' /\ UNCHANGED <<now, back>>  BY DEF RecoverRename, Live
<1>2. /\ TypeOK /\ files \in Seq(File) /\ (\A i \in DOMAIN files : Sound(files[i])) /\ Named(files)
  BY TypeFacts DEF IInv, OInv, TapeInv, Tape
<1>3. PICK k \in DOMAIN files :
        LET fs == [files EXCEPT ![k] = [Repaired(@) EXCEPT !.name = "ndjson"]]
        IN  files' = IF files[k].name = "open" THEN DirSynced(fs) ELSE fs
  BY DEF RecoverRename, Orphans
<1>4. PICK f, g : f = files[k] /\ g = [Repaired(f) EXCEPT !.name = "ndjson"]  OBVIOUS
<1>5. /\ Kept(f, g) /\ g.data = f.data /\ g.synced = Len(f.data) /\ g.name = "ndjson"
      /\ g.seal = f.seal /\ g.sealed = f.sealed
  BY <1>2, <1>4, RepairFacts
<1>6. PICK fs : fs = [files EXCEPT ![k] = g]  OBVIOUS
<1>7. /\ FilesKept(files, fs) /\ DOMAIN fs = DOMAIN files /\ Len(fs) = Len(files)
      /\ fs \in Seq(File) /\ fs[k] = g
      /\ \A i \in DOMAIN files : i # k => fs[i] = files[i]
  <2>1. Kept(files[k], g)  BY <1>4, <1>5
  <2> QED  BY <1>2, <1>6, <2>1, SetFile
<1>8. PICK gs : gs = files'  OBVIOUS
<1>9. gs = IF f.name = "open" THEN DirSynced(fs) ELSE fs  BY <1>3, <1>4, <1>6, <1>8
<1>10. \A i \in DOMAIN fs : Sound(fs[i])  BY <1>7 DEF FilesKept
<1>11. /\ gs \in Seq(File) /\ DOMAIN gs = DOMAIN files /\ Len(gs) = Len(files)
       /\ \A i \in DOMAIN files : LET p == fs[i]  q == gs[i] IN
              /\ Kept(p, q) /\ q.data = p.data /\ q.synced = p.synced
              /\ q.name = p.name /\ q.seal = p.seal /\ (p.sealed => q.sealed)
  <2>1. CASE f.name = "open"
    <3>1. gs = DirSynced(fs)  BY <1>9, <2>1
    <3>2. /\ gs \in Seq(File) /\ DOMAIN gs = DOMAIN fs /\ Len(gs) = Len(fs)
          /\ \A i \in DOMAIN fs : LET p == fs[i]  q == gs[i] IN
                /\ Kept(p, q) /\ q.data = p.data /\ q.synced = p.synced
                /\ q.name = p.name /\ q.seal = p.seal /\ q.sealed = (p.sealed \/ IsSealed(p))
      BY <1>7, <1>10, <3>1, DirSyncedFacts
    <3> QED  BY <1>7, <3>2
  <2>2. CASE f.name # "open"  BY <1>7, <1>9, <1>10, <2>2, KeptSame
  <2> QED  BY <2>1, <2>2
<1>12. ASSUME NEW i \in DOMAIN files
       PROVE  /\ gs[i] \in File /\ Common(files[i], gs[i]) /\ gs[i].data = files[i].data
              /\ gs[i].seal = files[i].seal /\ (files[i].sealed => gs[i].sealed)
  <2>1. PICK p, q, r : p = files[i] /\ q = fs[i] /\ r = gs[i]  OBVIOUS
  <2>2. /\ q.start = p.start /\ q.index = p.index /\ q.data = p.data /\ q.seal = p.seal
        /\ q.synced \in {p.synced, Len(p.data)} /\ q.sealed = p.sealed
        /\ q.name = "ndjson" => q.synced = Len(q.data)
    <3>1. CASE i = k  BY <1>4, <1>5, <1>7, <2>1, <3>1 DEF Kept
    <3>2. CASE i # k  BY <1>2, <1>7, <2>1, <3>2 DEF Named
    <3> QED  BY <3>1, <3>2
  <2>3. /\ r \in File /\ r.start = q.start /\ r.index = q.index /\ r.data = q.data
        /\ r.synced = q.synced /\ r.name = q.name /\ r.seal = q.seal /\ (q.sealed => r.sealed)
    BY <1>11, <2>1 DEF Kept
  <2>4. Common(p, r)  BY <2>2, <2>3 DEF Common, IsSealed
  <2> QED  BY <2>1, <2>2, <2>3, <2>4
<1>13. Grown(gs)  BY <1>11, <1>12 DEF Grown
<1>14. Flagged(gs)  BY <1>12, <1>13, GrownFlags
<1> QED  BY <1>1, <1>8, <1>13, <1>14, QuietOrder

\* A seal made by recovery has no seed and is no writer's.
LEMMA RecoverSealOrder ==
    ASSUME IInv, OInv, RecoverSeal
    PROVE  OInv'
<1>1. /\ ~Live' /\ UNCHANGED <<now, back>> /\ phase = "recovering" /\ wpc = "publish"
      /\ files' = [files EXCEPT ![target].seal =
                    SealOf(Len(files[target].data), files[target].data, NoVis, "recovery")]
  BY DEF RecoverSeal, Live
<1>2. /\ TypeOK /\ files \in Seq(File) /\ (\A i \in DOMAIN files : Sound(files[i])) /\ Named(files)
  BY TypeFacts DEF IInv, OInv, TapeInv, Tape
<1>3. PICK k, f : k = target /\ f = files[k]  OBVIOUS
<1>4. k \in DOMAIN files /\ f.name = "ndjson" /\ f.synced = Len(f.data)
  BY <1>1, <1>3 DEF IInv, RecoverInv
<1>5. PICK sl : sl = SealOf(Len(f.data), f.data, NoVis, "recovery")  OBVIOUS
<1>6. sl \in SealType /\ sl # NoSeal /\ sl.reason = "recovery"
  <2>1. Len(f.data) \in Int  BY <1>2, <1>3, <1>4, FileFacts
  <2>2. sl.reason = "recovery"  BY <1>5 DEF SealOf
  <2> QED  BY <1>5, <2>1, <2>2, SealOfFacts
<1>7. PICK g : g = [f EXCEPT !.seal = sl]  OBVIOUS
<1>8. /\ Kept(f, g) /\ g.data = f.data /\ g.synced = f.synced /\ g.name = f.name /\ g.seal = sl
      /\ g.sealed = f.sealed
  BY <1>2, <1>3, <1>4, <1>6, <1>7, SealFacts
<1>9. PICK gs : gs = [files EXCEPT ![k] = g]  OBVIOUS
<1>10. files' = gs  BY <1>1, <1>3, <1>5, <1>7, <1>9
<1>11. /\ DOMAIN gs = DOMAIN files /\ Len(gs) = Len(files) /\ gs \in Seq(File) /\ gs[k] = g
       /\ \A i \in DOMAIN files : i # k => gs[i] = files[i]
  BY <1>2, <1>3, <1>4, <1>8, <1>9, SetFile
<1>12. g \in File /\ Common(f, g)  BY <1>4, <1>6, <1>8 DEF Common, Kept, Sound, IsSealed
<1>13. \A i \in DOMAIN files : /\ gs[i] \in File /\ Common(files[i], gs[i])
                               /\ gs[i].data = files[i].data /\ (files[i].sealed => gs[i].sealed)
                               /\ gs[i].seal = files[i].seal \/ gs[i].seal.reason # "writer"
  <2>1. \A i \in DOMAIN files : files[i] \in File /\ Common(files[i], files[i])
    BY <1>2 DEF Common, Named, Sound
  <2> QED  BY <1>3, <1>6, <1>8, <1>11, <1>12, <2>1
<1>14. Grown(gs)  BY <1>11, <1>13 DEF Grown
<1>15. Flagged(gs)  BY <1>13, <1>14, GrownFlags
<1> QED  BY <1>1, <1>10, <1>14, <1>15, QuietOrder

LEMMA RecoverOrder ==
    ASSUME IInv, OInv, Restart \/ RecoverRename \/ RecoverSeal \/ RecoverFinish
    PROVE  OInv'
<1>1. TypeOK /\ Named(files)  BY DEF IInv, OInv, TapeInv, Tape
<1>2. CASE Restart
  <2>1. ~Live' /\ UNCHANGED <<now, back, files>>  BY <1>2 DEF Restart, Live
  <2> QED  BY <2>1, DownOrder DEF OInv, TapeInv
<1>3. CASE RecoverFinish
  <2>1. ~Live' /\ UNCHANGED <<now, back>> /\ files' = DirSynced(files)  BY <1>3 DEF RecoverFinish, Live
  <2>2. PICK fs : fs = files' /\ fs = DirSynced(files)  BY <2>1
  <2>3. Grown(fs) /\ \A i \in DOMAIN files : fs[i].seal = files[i].seal  BY <1>1, <2>2, DirGrown
  <2>4. Flagged(fs)  BY <2>3, GrownFlags
  <2> QED  BY <2>1, <2>2, <2>3, <2>4, QuietOrder
<1> QED  BY <1>2, <1>3, RecoverRenameOrder, RecoverSealOrder

-----------------------------------------------------------------------------
(* Steps that leave the files alone                                        *)

LEMMA FlowOfMoved ==
    ASSUME TypeOK, Waiting' \subseteq Waiting, UNCHANGED <<now, back, next, timer>>,
           pending' = pending \/ pending' = NoRec, Counting' => Counting
    PROVE  Flow
<1>1. next' >= next /\ timer'.start >= timer.start  BY WaitingTypes
<1>2. \A m \in Waiting' : Given(m)  BY DEF Given
<1> QED  BY <1>1, <1>2 DEF Flow

\* The parts of the invariant that only see the files and the writer.
LEMMA CalmOrder ==
    ASSUME OInv, Live, UNCHANGED <<files, now, back, prevVis>>, cur'.handle => cur.handle,
           wpc' = "rename" => wpc = "rename"
    PROVE  TapeInv' /\ PrevInv' /\ HandleInv'
<1>1. TapeInv'  BY DEF OInv, TapeInv
<1>2. PrevInv'  BY DEF OInv, LinkInv, PrevInv, Old
<1>3. HandleInv'  BY DEF OInv, LinkInv, HandleInv, CurFile
<1> QED  BY <1>1, <1>2, <1>3

\* What waits stays above what is filed when only the record with the next index
\* joins it.
LEMMA AboveSame ==
    ASSUME TypeOK, TypeOK', Live, files # <<>>, AboveInv, UNCHANGED files, Counting' => Counting, next' >= next,
           \A m \in Waiting' : m \in Waiting \/ (m.kind = "rec" => Counting /\ m.idx = next),
           \A m \in Elems(queue') : m \in Elems(queue) \/ (m.kind = "rec" => Counting /\ m.idx = next),
           Elems(unwritten') \subseteq Elems(unwritten) \/ \A m \in Elems(unwritten') : Fits(m),
           \A k \in DOMAIN batch' : batch'[k].kind = "rec" =>
             \/ Tops(CurFile.data, batch'[k].idx)
             \/ wpc' = "consume" /\ \A j \in 1..k : Fits(batch'[j])
    PROVE  AboveInv'
<1>1. Old' = Old /\ CurFile' = CurFile /\ files' = files  BY DEF Old, Older, CurFile
<1>2. \A m : Fits(m) => Fits(m)'  BY <1>1 DEF Fits
<1>3. CurFile = files[Len(files)] /\ Len(files) \in DOMAIN files  BY CurFacts
<1>4. /\ Counting => \A i \in DOMAIN files : Tops(files[i].data, next)
      /\ \A i \in Old, m \in Waiting : m.kind = "rec" => Tops(files[i].data, m.idx)
      /\ \A m \in Elems(queue) : m.kind = "rec" => Tops(CurFile.data, m.idx)
      /\ \A m \in Elems(unwritten) : Fits(m)
  BY DEF AboveInv
<1>5. ASSUME Counting', NEW i \in DOMAIN files PROVE Tops(files[i].data, next')
  <2>1. Tops(files[i].data, next)  BY <1>4, <1>5
  <2>2. files[i] \in File  BY TypeFacts DEF Sound
  <2>3. next \in Nat /\ next' \in Nat  BY DEF TypeOK
  <2>4. files[i].data # <<>> => Last(files[i].data).idx \in Nat  BY <2>2, LastRow
  <2> QED  BY <2>1, <2>3, <2>4 DEF Tops
<1>6. ASSUME NEW i \in Old, NEW m \in Waiting', m.kind = "rec" PROVE Tops(files[i].data, m.idx)
  <2>1. i \in DOMAIN files  BY OldFacts
  <2> QED  BY <1>4, <1>6, <2>1
<1>7. ASSUME NEW m \in Elems(queue'), m.kind = "rec" PROVE Tops(CurFile.data, m.idx)
  <2>1. CASE m \in Elems(queue)  BY <1>4, <1>7, <2>1
  <2>2. CASE Counting /\ m.idx = next  BY <1>3, <1>4, <2>2
  <2> QED  BY <1>7, <2>1, <2>2
<1>8. \A m \in Elems(unwritten') : Fits(m)  BY <1>4
<1>9. Elems(unwritten)' = Elems(unwritten') /\ Elems(queue)' = Elems(queue')  BY DEF Elems
<1> QED  BY <1>1, <1>2, <1>5, <1>6, <1>7, <1>8, <1>9 DEF AboveInv, Fits

\* Nothing is filed and every file is where it was.
LEMMA FixedSame == ASSUME UNCHANGED files PROVE Fixed
BY DEF Fixed, CurFile

\* The timer that is armed again, and the boundary it queued.
LEMMA ArmedOrder ==
    ASSUME NEW w \in Nat, NEW z \in Nat, NEW t, t = ArmedTimer(w, w + z)
    PROVE  /\ t.start \in Nat /\ Aligned(t.start) /\ w < t.start /\ (z = 0 => t.due = t.start)
<1>1. /\ WindowStart(w) \in Nat /\ Aligned(WindowStart(w)) /\ w < WindowStart(w) + Period
  BY WindowBounds
<1>2. WindowStart(w) + Period \in Nat /\ Aligned(WindowStart(w) + Period)  BY <1>1, WindowNext
<1>3. PICK s : s = WindowStart(w) + Period  OBVIOUS
<1>4. t.start = s /\ t.due = (w + z) + (s - w)  BY <1>3 DEF ArmedTimer
<1> QED  BY <1>1, <1>2, <1>3, <1>4

\* Who puts a message in the queue: the producer, a put that was suspended, or
\* the timer.
Joins(m) ==
    \/ m = Rec /\ ~fatal /\ pending = NoRec /\ next' = next + 1 /\ UNCHANGED <<pending, timer>>
    \/ /\ pending # NoRec /\ m = pending /\ pending' = NoRec /\ UNCHANGED timer
       /\ next' = (IF fatal THEN next ELSE next + 1)
    \/ /\ m = [kind |-> "rotate", start |-> timer.start] /\ now + back >= timer.due
       /\ timer' = ArmedTimer(now, now + back) /\ UNCHANGED <<pending, next>>

LEMMA JoinsFacts ==
    ASSUME TypeOK, OInv, Live, UNCHANGED <<now, back, fatal>>, NEW m, Joins(m)
    PROVE  /\ m \in Message /\ Given(m) /\ next' >= next /\ (Counting' => Counting)
           /\ pending' \in {pending, NoRec}
           /\ back = 0 => timer'.start >= timer.start
           /\ m.kind = "rec" => Counting /\ m.idx = next /\ (back = 0 => m.vis <= now)
                                /\ (Counting' => m.idx < next') /\ pending' = NoRec
           /\ m.kind = "rec" /\ pending # NoRec => m = pending
           /\ m.kind = "rec" /\ pending = NoRec => m.vis = now
           /\ m.kind = "rotate" =>
                /\ m.start = timer.start /\ Aligned(m.start)
                /\ back = 0 => m.start < timer'.start /\ m.start <= now
           /\ Aligned(timer'.start) /\ (back = 0 => timer'.due = timer'.start)
<1>1. /\ now \in Nat /\ back \in Nat /\ next \in Nat /\ timer.start \in Nat /\ timer.due \in Int
      /\ pending # NoRec => pending \in Record /\ pending.kind = "rec"
  BY WaitingTypes
<1>2. /\ pending # NoRec => pending.idx = next /\ (back = 0 => pending.vis <= now)
      /\ Aligned(timer.start) /\ (back = 0 => timer.due = timer.start)
  BY DEF OInv, ComingInv
<1>3. CASE m = Rec /\ ~fatal /\ pending = NoRec /\ next' = next + 1 /\ UNCHANGED <<pending, timer>>
  <2>1. m \in Message /\ m.kind = "rec" /\ m.idx = next /\ m.vis = now  BY <1>3, RecType DEF Rec
  <2> QED  BY <1>1, <1>2, <1>3, <2>1 DEF Given, Counting
<1>4. CASE /\ pending # NoRec /\ m = pending /\ pending' = NoRec /\ UNCHANGED timer
           /\ next' = (IF fatal THEN next ELSE next + 1)
  <2>1. m \in Message /\ m.kind = "rec" /\ m.idx = next  BY <1>1, <1>2, <1>4, RecFacts
  <2>2. next' >= next /\ (~fatal => next < next')  BY <1>1, <1>4
  <2> QED  BY <1>1, <1>2, <1>4, <2>1, <2>2 DEF Given, Counting
<1>5. CASE /\ m = [kind |-> "rotate", start |-> timer.start] /\ now + back >= timer.due
           /\ timer' = ArmedTimer(now, now + back) /\ UNCHANGED <<pending, next>>
  <2>1. m \in Message /\ m.kind = "rotate" /\ m.start = timer.start  BY <1>1, <1>5 DEF Message, Rotation
  <2>2. PICK t : t = timer'  OBVIOUS
  <2>3. t.start \in Nat /\ Aligned(t.start) /\ now < t.start /\ (back = 0 => t.due = t.start)
    BY <1>1, <1>5, <2>2, ArmedOrder
  <2>4. back = 0 => timer.start <= now  BY <1>1, <1>2, <1>5
  <2>5. back = 0 => timer.start < t.start /\ t.start >= timer.start  BY <1>1, <2>3, <2>4
  <2> QED  BY <1>1, <1>2, <1>5, <2>1, <2>2, <2>3, <2>4, <2>5 DEF Given, Counting
<1> QED  BY <1>3, <1>4, <1>5 DEF Joins

LEMMA PutOrder ==
    ASSUME IInv, IInv', OInv, Live, Live', NEW m, Joins(m), queue' = Append(queue, m),
           UNCHANGED <<now, back, files, memVars>>
    PROVE  OInv'
<1>0. TypeOK /\ TypeOK' /\ files # <<>>  BY LiveFacts DEF IInv
<1>1. /\ UNCHANGED <<wpc, batch, target, unwritten, fatal, cur, prevVis>>  BY DEF memVars
<1>2. /\ m \in Message /\ Given(m) /\ next' >= next /\ (Counting' => Counting)
      /\ pending' \in {pending, NoRec}
      /\ back = 0 => timer'.start >= timer.start
      /\ m.kind = "rec" => Counting /\ m.idx = next /\ (back = 0 => m.vis <= now)
                           /\ (Counting' => m.idx < next') /\ pending' = NoRec
      /\ m.kind = "rec" /\ pending # NoRec => m = pending
      /\ m.kind = "rec" /\ pending = NoRec => m.vis = now
      /\ m.kind = "rotate" =>
           /\ m.start = timer.start /\ Aligned(m.start)
           /\ back = 0 => m.start < timer'.start /\ m.start <= now
      /\ Aligned(timer'.start) /\ (back = 0 => timer'.due = timer'.start)
  BY <1>0, <1>1, JoinsFacts
<1>3. /\ \A x \in Waiting : Earlier(x)
      /\ \A x \in Waiting : x.kind = "rec" => x.idx \in Nat /\ x.vis \in Nat
      /\ \A x \in Waiting : x.kind = "rotate" => x.start \in Nat
      /\ next \in Nat /\ next' \in Nat /\ timer.start \in Nat /\ timer'.start \in Nat
  BY <1>0, WaitingTypes DEF OInv, ComingInv, TypeOK
<1>4. Prior(back, Waiting, {m})
  <2> SUFFICES ASSUME NEW x \in Waiting PROVE Before(back, x, m)
    BY DEF Prior
  <2>1. Earlier(x)  BY <1>3
  <2>2. x.kind = "rec" /\ m.kind = "rec" => x.idx < m.idx /\ (back = 0 => x.vis <= m.vis)
    BY <1>2, <2>1 DEF Earlier
  <2>3. x.kind = "rotate" /\ m.kind = "rotate" /\ back = 0 => x.start < m.start
    BY <1>2, <2>1 DEF Earlier
  <2> QED  BY <2>2, <2>3 DEF Before
<1>5. StreamInv' /\ Waiting' = Waiting \cup {m} /\ Elems(queue') = Elems(queue) \cup {m}
  BY <1>0, <1>1, <1>2, <1>4, PutStream DEF OInv
<1>6. Flow  BY <1>2, <1>5 DEF Flow, Given
<1>7. BarInv' /\ TargetInv'  BY <1>0, <1>1, <1>6, FixedSame, FlowLink DEF OInv, LinkInv
<1>8. ComingInv'
  <2>1. ASSUME NEW x \in Waiting PROVE Earlier(x)'
    <3>1. Earlier(x)  BY <1>3
    <3>2. x.kind = "rec" /\ Counting' => x.idx < next'  BY <1>2, <1>3, <3>1 DEF Earlier
    <3>3. x.kind = "rotate" /\ back = 0 => x.start < timer'.start  BY <1>2, <1>3, <3>1 DEF Earlier
    <3> QED  BY <1>2, <3>1, <3>2, <3>3 DEF Earlier
  <2>2. m.kind = "rec" => Earlier(m)'  BY <1>2, RecFacts DEF Earlier
  <2>3. m.kind = "rotate" => Earlier(m)'  BY <1>2, RecFacts DEF Earlier
  <2>4. m.kind \in {"rec", "rotate"}  BY <1>2, RecFacts
  <2>5. pending' # NoRec => pending' = pending /\ next' = next
    <3>1. CASE m.kind = "rec"  BY <1>2, <3>1
    <3>2. CASE m.kind = "rotate"
      <4>1. m # Rec /\ (pending # NoRec => m # pending)
        BY <1>0, <3>2, RecType, WaitingTypes
      <4> QED  BY <4>1 DEF Joins
    <3> QED  BY <2>4, <3>1, <3>2
  <2> QED  BY <1>2, <1>5, <2>1, <2>2, <2>3, <2>4, <2>5 DEF OInv, ComingInv
<1>9. AboveInv'
  <2>1. \A x \in Waiting' : x \in Waiting \/ (x.kind = "rec" => Counting /\ x.idx = next)
    BY <1>2, <1>5
  <2>2. \A x \in Elems(queue') : x \in Elems(queue) \/ (x.kind = "rec" => Counting /\ x.idx = next)
    BY <1>2, <1>5
  <2>3. \A k \in DOMAIN batch' : batch'[k].kind = "rec" =>
             \/ Tops(CurFile.data, batch'[k].idx)
             \/ wpc' = "consume" /\ \A j \in 1..k : Fits(batch'[j])
    BY <1>1 DEF OInv, LinkInv, AboveInv
  <2>4. AboveInv /\ Elems(unwritten') \subseteq Elems(unwritten)  BY <1>1 DEF OInv, LinkInv
  <2> QED  BY <1>0, <1>2, <2>1, <2>2, <2>3, <2>4, AboveSame
<1>10. TapeInv' /\ PrevInv' /\ HandleInv'  BY <1>1, CalmOrder
<1> QED  BY <1>5, <1>7, <1>8, <1>9, <1>10 DEF OInv, LinkInv

\* A record is held by a full queue, a put is given up, or only the phase changes.
LEMMA HoldOrder ==
    ASSUME IInv, IInv', OInv, Live, Live', UNCHANGED <<now, back, files, memVars, queue, next, timer>>,
           pending' \in {pending, NoRec} \/ (pending' = Rec /\ ~fatal /\ pending = NoRec)
    PROVE  OInv'
<1>0. TypeOK /\ TypeOK' /\ files # <<>>  BY LiveFacts DEF IInv
<1>1. /\ UNCHANGED <<wpc, batch, target, unwritten, fatal, cur, prevVis>>  BY DEF memVars
<1>2. StreamInv' /\ Waiting' = Waiting
  <2>1. Moved  BY <1>1 DEF Moved
  <2> QED  BY <1>0, <1>1, <2>1, MovedStream DEF OInv, Waiting
<1>3. Counting' => Counting  BY <1>1 DEF Counting
<1>4. /\ now \in Nat /\ next \in Nat /\ timer'.start >= timer.start /\ next' >= next
  BY <1>0, WaitingTypes
<1>5. Flow  BY <1>1, <1>2, <1>3, <1>4 DEF Flow, Given
<1>6. BarInv' /\ TargetInv'  BY <1>0, <1>1, <1>5, FixedSame, FlowLink DEF OInv, LinkInv
<1>7. ComingInv'
  <2>1. CASE pending' \in {pending, NoRec}
    BY <1>2, <1>3, <2>1, MovedComing DEF OInv
  <2>2. CASE pending' = Rec /\ ~fatal /\ pending = NoRec
    <3>1. Rec.idx = next /\ Rec.vis = now  BY DEF Rec
    <3>2. \A m \in Waiting : Earlier(m) => Earlier(m)'
      BY <1>1, <2>2, <3>1 DEF Earlier, Counting
    <3> QED  BY <1>2, <1>4, <2>2, <3>1, <3>2 DEF OInv, ComingInv
  <2> QED  BY <2>1, <2>2
<1>8. AboveInv'
  <2>1. Elems(queue') = Elems(queue)  OBVIOUS
  <2>2. \A k \in DOMAIN batch' : batch'[k].kind = "rec" =>
             \/ Tops(CurFile.data, batch'[k].idx)
             \/ wpc' = "consume" /\ \A j \in 1..k : Fits(batch'[j])
    BY <1>1 DEF OInv, LinkInv, AboveInv
  <2>3. AboveInv /\ Elems(unwritten') \subseteq Elems(unwritten)  BY <1>1 DEF OInv, LinkInv
  <2> QED  BY <1>0, <1>2, <1>3, <1>4, <2>1, <2>2, <2>3, AboveSame
<1>9. TapeInv' /\ PrevInv' /\ HandleInv'  BY <1>1, CalmOrder
<1> QED  BY <1>2, <1>6, <1>7, <1>8, <1>9 DEF OInv, LinkInv

LEMMA ProducerOrder ==
    ASSUME IInv, IInv', OInv,
           EmitFrame \/ PutCompletes \/ RotateTimer \/ CancelCapture \/ EmitClosing \/ CloseStart
    PROVE  OInv'
<1>1. CASE EmitFrame
  <2>1. /\ Live /\ Live' /\ pending = NoRec /\ UNCHANGED <<now, back, timer, memVars, files>>
    BY <1>1, EmitShape DEF Live
  <2>2. CASE Idle  BY <2>1, <2>2, HoldOrder DEF Idle
  <2>3. CASE Hold /\ ~fatal  BY <2>1, <2>3, HoldOrder DEF Hold
  <2>4. CASE Take /\ ~fatal
    <3>1. PICK m : m = Rec  OBVIOUS
    <3>2. Joins(m) /\ queue' = Append(queue, m)  BY <2>1, <2>4, <3>1 DEF Joins, Take
    <3> QED  BY <2>1, <3>2, PutOrder
  <2>5. Idle \/ (Hold /\ ~fatal) \/ (Take /\ ~fatal)
    BY <1>1, Zenon DEF EmitFrame, EmitRecord, Idle, Hold, Take
  <2> QED  BY <2>2, <2>3, <2>4, <2>5
<1>2. CASE PutCompletes
  <2>1. /\ Live /\ Live' /\ Wake /\ UNCHANGED <<now, back, timer, memVars, files>>
    BY <1>2, PutShape DEF Live
  <2>2. PICK m : m = pending  OBVIOUS
  <2>3. Joins(m) /\ queue' = Append(queue, m)  BY <2>1, <2>2 DEF Joins, Wake
  <2> QED  BY <2>1, <2>3, PutOrder
<1>3. CASE RotateTimer
  <2>1. /\ Live /\ Live' /\ UNCHANGED <<now, back, memVars, files>>
    BY <1>3 DEF RotateTimer, Live
  <2>2. PICK m : m = [kind |-> "rotate", start |-> timer.start]  OBVIOUS
  <2>3. Joins(m) /\ queue' = Append(queue, m)  BY <1>3, <2>2 DEF Joins, RotateTimer
  <2> QED  BY <2>1, <2>3, PutOrder
<1>4. CASE CancelCapture
  <2>1. /\ Live /\ Live' /\ pending' = NoRec
        /\ UNCHANGED <<now, back, files, memVars, queue, next, timer>>
    BY <1>4 DEF CancelCapture, Live
  <2> QED  BY <2>1, HoldOrder
<1>5. CASE EmitClosing
  <2>1. /\ Live /\ Live' /\ pending = NoRec /\ UNCHANGED <<now, back, timer, memVars, files>>
    BY <1>5, ClosingShape DEF Live
  <2>2. CASE Idle  BY <2>1, <2>2, HoldOrder DEF Idle
  <2>3. CASE Hold /\ ~fatal  BY <2>1, <2>3, HoldOrder DEF Hold
  <2>4. CASE Take /\ ~fatal
    <3>1. PICK m : m = Rec  OBVIOUS
    <3>2. Joins(m) /\ queue' = Append(queue, m)  BY <2>1, <2>4, <3>1 DEF Joins, Take
    <3> QED  BY <2>1, <3>2, PutOrder
  <2>5. Idle \/ (Hold /\ ~fatal) \/ (Take /\ ~fatal)
    BY <1>5, Zenon DEF EmitClosing, Idle, Hold, Take
  <2> QED  BY <2>2, <2>3, <2>4, <2>5
<1>6. CASE CloseStart
  <2>1. /\ Live /\ Live' /\ UNCHANGED <<now, back, files, memVars, queue, next, timer, pending>>
    BY <1>6 DEF CloseStart, Live, procVars
  <2> QED  BY <2>1, HoldOrder
<1> QED  BY <1>1, <1>2, <1>3, <1>4, <1>5, <1>6

\* The next batch: what the drain task takes of the queue, or what close() does.
LEMMA TakeOrder ==
    ASSUME IInv, IInv', OInv, Live, Live', Moved, wpc' = "consume",
           UNCHANGED <<now, back, next, pending, timer, target, fatal, cur, prevVis, files>>,
           Elems(queue') \subseteq Elems(queue), Elems(unwritten') \subseteq Elems(unwritten),
           \A k \in DOMAIN batch' : batch'[k] \in Elems(queue) \/ \A j \in 1..k : Fits(batch'[j])
    PROVE  OInv'
<1>0. TypeOK /\ TypeOK' /\ files # <<>>  BY LiveFacts DEF IInv
<1>1. StreamInv' /\ Waiting' \subseteq Waiting  BY <1>0, MovedStream DEF OInv
<1>2. Counting' => Counting  BY DEF Counting
<1>3. ComingInv'  BY <1>1, <1>2, MovedComing DEF OInv
<1>4. Flow  BY <1>0, <1>1, <1>2, FlowOfMoved
<1>5. wpc' \notin Sealing  BY DEF Sealing
<1>6. BarInv' /\ TargetInv'  BY <1>0, <1>4, <1>5, FixedSame, FlowLink DEF OInv, LinkInv
<1>7. AboveInv'
  <2>1. AboveInv  BY DEF OInv, LinkInv
  <2>2. \A m \in Elems(queue) : m.kind = "rec" => Tops(CurFile.data, m.idx)  BY <2>1 DEF AboveInv
  <2>3. \A k \in DOMAIN batch' : batch'[k].kind = "rec" =>
             \/ Tops(CurFile.data, batch'[k].idx)
             \/ wpc' = "consume" /\ \A j \in 1..k : Fits(batch'[j])
    BY <2>2
  <2>4. next' >= next  BY <1>0, WaitingTypes
  <2> QED  BY <1>0, <1>1, <1>2, <2>1, <2>3, <2>4, AboveSame
<1>8. TapeInv' /\ PrevInv' /\ HandleInv'  BY CalmOrder
<1> QED  BY <1>1, <1>3, <1>6, <1>7, <1>8 DEF OInv, LinkInv

LEMMA DrainOrder ==
    ASSUME IInv, IInv', OInv, DrainTake
    PROVE  OInv'
<1>0. TypeOK /\ RestOK /\ ThreadInv  BY RestFacts DEF IInv
<1>1. /\ \E n \in 1..Len(queue) :
           batch' = SubSeq(queue, 1, n) /\ queue' = SubSeq(queue, n + 1, Len(queue))
      /\ phase \in {"running", "stopping"} /\ wpc = "idle" /\ wpc' = "consume"
      /\ UNCHANGED <<now, back, phase, tail, run, next, pending, timer, target,
                     unwritten, fatal, cur, prevVis, files, bounds>>
  BY <1>0, DrainShape
<1>2. Live /\ Live' /\ batch = <<>> /\ unwritten = <<>>  BY <1>0, <1>1 DEF Live, ThreadInv
<1>3. PICK n \in 0..Len(queue) :
        batch' = SubSeq(queue, 1, n) /\ queue' = SubSeq(queue, n + 1, Len(queue))
  <2>1. Len(queue) \in Nat  BY <1>0, TypeFacts
  <2> QED  BY <1>1, <2>1
<1>4. Moved  BY <1>1, <1>2, <1>3 DEF Moved
<1>5. /\ Elems(batch') \subseteq Elems(queue) /\ Elems(queue') \subseteq Elems(queue)
  <2>1. queue \in Seq(Message) /\ InOrder(back, queue)  BY <1>0, <1>2, TypeFacts DEF OInv, StreamInv
  <2> QED  BY <1>3, <2>1, CutOrder
<1>6. \A k \in DOMAIN batch' : batch'[k] \in Elems(queue)  BY <1>5 DEF Elems
<1>7. Elems(unwritten') \subseteq Elems(unwritten)  BY <1>1
<1> QED  BY <1>1, <1>2, <1>4, <1>5, <1>6, <1>7, TakeOrder

LEMMA CloseOrder ==
    ASSUME IInv, IInv', OInv, CloseDrain
    PROVE  OInv'
<1>0. TypeOK /\ ThreadInv  BY DEF IInv
<1>1. /\ phase = "shutdown" /\ wpc \in {"idle", "dead"} /\ phase' = "closing" /\ wpc' = "consume"
      /\ batch' = unwritten \o queue /\ queue' = <<>> /\ unwritten' = <<>>
      /\ UNCHANGED <<now, back, next, pending, timer, target, fatal, cur, prevVis, files>>
  BY DEF CloseDrain, Remaining
<1>2. Live /\ Live' /\ batch = <<>>  BY <1>0, <1>1 DEF Live, ThreadInv
<1>3. Moved  BY <1>1, <1>2 DEF Moved
<1>4. Elems(queue') = {} /\ Elems(unwritten') = {}  BY <1>1, ElemsEmpty
<1>5. ASSUME NEW k \in DOMAIN batch' PROVE batch'[k] \in Elems(queue) \/ \A j \in 1..k : Fits(batch'[j])
  <2>0. PICK b : b = batch'  OBVIOUS
  <2>1. PICK s \in Seq(Message), t \in Seq(Message) : s = unwritten /\ t = queue
    <3>1. \A s \in Seq(Record) : s \in Seq(Message)  BY RecFacts
    <3> QED  BY <1>0, <3>1, TypeFacts
  <2>2. b = s \o t  BY <1>1, <2>0, <2>1
  <2>3. /\ Len(s) \in Nat /\ Len(t) \in Nat /\ DOMAIN s = 1..Len(s) /\ DOMAIN t = 1..Len(t)
        /\ DOMAIN b = 1..(Len(s) + Len(t))
        /\ \A i \in 1..Len(s) : b[i] = s[i]
        /\ \A i \in 1..Len(t) : b[Len(s) + i] = t[i]
    BY <2>2
  <2>4. k \in 1..(Len(s) + Len(t))  BY <2>0, <2>1, <2>3
  <2>5. CASE k <= Len(s)
    <3>1. \A j \in 1..k : j \in DOMAIN s /\ b[j] = s[j]  BY <2>3, <2>4, <2>5
    <3>2. \A m \in Elems(unwritten) : Fits(m)  BY <1>2 DEF OInv, LinkInv, AboveInv
    <3> QED  BY <2>0, <2>1, <3>1, <3>2 DEF Elems
  <2>6. CASE k > Len(s)
    <3>1. PICK i \in DOMAIN t : k = Len(s) + i
      <4>1. k - Len(s) \in 1..Len(t) /\ k = Len(s) + (k - Len(s))  BY <2>3, <2>4, <2>6
      <4> QED  BY <2>3, <4>1
    <3>2. b[k] = t[i]  BY <2>3, <3>1
    <3> QED  BY <2>0, <2>1, <3>2 DEF Elems
  <2> QED  BY <2>3, <2>4, <2>5, <2>6
<1> QED  BY <1>1, <1>2, <1>3, <1>4, <1>5, TakeOrder

-----------------------------------------------------------------------------
(* Steps of the writer that open no segment                                *)

\* The newest segment as it was, or ending on a record of the batch that fits.
LEMMA GrownLast ==
    ASSUME IInv, Live, Grown(files')
    PROVE  /\ Fixed /\ files # <<>> /\ CurFile' \in File
           /\ \/ CurFile'.data = CurFile.data
              \/ /\ wpc = "consume" /\ cur.handle
                 /\ \E n \in 1..FlushLen : CurFile'.data # <<>> /\ Last(CurFile'.data) = batch[n]
<1>0. TypeOK /\ files # <<>>  BY LiveFacts DEF IInv
<1>1. PICK f \in File : f = CurFile /\ f = files[Len(files)] /\ Len(files) \in DOMAIN files
  BY <1>0, CurFacts
<1>2. PICK fs : fs = files' /\ Grown(fs)  OBVIOUS
<1>3. /\ DOMAIN fs = DOMAIN files /\ Len(fs) = Len(files)
      /\ \A i \in DOMAIN files : fs[i] \in File /\ fs[i].start = files[i].start
                                 /\ (fs[i].data = files[i].data \/ Added(files[i], fs[i]))
  BY <1>2 DEF Grown, Common
<1>4. PICK g \in File : g = fs[Len(files)] /\ g = CurFile'  BY <1>1, <1>2, <1>3 DEF CurFile, Last
<1>5. g.start = f.start /\ (g.data = f.data \/ Added(f, g))  BY <1>1, <1>3, <1>4
<1>6. Fixed  BY <1>1, <1>2, <1>3, <1>4, <1>5 DEF Fixed
<1>7. CASE Added(f, g) /\ g.data # f.data
  <2>1. PICK n \in 0..FlushLen : /\ n = 0 => g.data = f.data
                                 /\ n > 0 => g.data # <<>> /\ Last(g.data) = batch[n]
    BY <1>0, <1>7, AddedRows
  <2>2. FlushLen \in Nat  BY <1>0, TypeFacts, FlushFacts
  <2>3. n \in 1..FlushLen  BY <1>7, <2>1, <2>2
  <2>4. wpc = "consume" /\ cur.handle  BY <1>7 DEF Added
  <2> QED  BY <1>0, <1>1, <1>4, <1>6, <2>1, <2>3, <2>4
<1> QED  BY <1>0, <1>1, <1>4, <1>5, <1>6, <1>7

\* What waits is above the records a flush has put in the newest segment.
LEMMA AboveGrown ==
    ASSUME IInv, OInv, Live, Grown(files'), UNCHANGED <<back, queue, next>>, Waiting' \subseteq Waiting,
           Counting' => Counting, \A m \in Elems(unwritten') : Fits(m),
           \A k \in DOMAIN batch' : batch'[k].kind = "rec" =>
             \/ Tops(CurFile'.data, batch'[k].idx)
             \/ wpc' = "consume" /\ \A j \in 1..k : Fits(batch'[j])
    PROVE  AboveInv'
<1>0. TypeOK  BY DEF IInv
<1>1. /\ Fixed /\ files # <<>> /\ CurFile' \in File
      /\ \/ CurFile'.data = CurFile.data
         \/ /\ wpc = "consume" /\ cur.handle
            /\ \E n \in 1..FlushLen : CurFile'.data # <<>> /\ Last(CurFile'.data) = batch[n]
  BY GrownLast
<1>2. /\ Len(files) \in DOMAIN files /\ CurFile = files[Len(files)] /\ Len(files') = Len(files)
      /\ DOMAIN files' = DOMAIN files /\ CurFile' = files'[Len(files)]
  BY <1>0, <1>1, CurFacts DEF Fixed, CurFile, Last
<1>3. \A i \in DOMAIN files : i # Len(files) => files'[i].data = files[i].data  BY DEF Grown
<1>4. Old' = Old /\ \A i \in Old : i \in DOMAIN files /\ i # Len(files)
  <2>1. Old' = Old  BY <1>2 DEF Old, Older
  <2> QED  BY <1>0, <2>1, OldFacts
<1>5. \A m : Fits(m) => Fits(m)'  BY <1>1 DEF Fits, SegEnd, Fixed
<1>6. /\ Counting => \A i \in DOMAIN files : Tops(files[i].data, next)
      /\ \A i \in Old, m \in Waiting : m.kind = "rec" => Tops(files[i].data, m.idx)
      /\ \A m \in Elems(queue) : m.kind = "rec" => Tops(CurFile.data, m.idx)
  BY DEF OInv, LinkInv, AboveInv
<1>7. ASSUME wpc = "consume", cur.handle, NEW n \in 1..FlushLen
      PROVE  /\ Counting => batch[n].idx < next
             /\ \A m \in Elems(queue) : m.kind = "rec" => batch[n].idx < m.idx
  <2>1. batch[n] \in Waiting /\ batch[n] \in Record /\ n \in DOMAIN batch
    BY <1>7, AddedFits
  <2>2. batch[n].kind = "rec"  BY <2>1, RecFacts
  <2>3. Counting => batch[n].idx < next  BY <2>1, <2>2 DEF OInv, ComingInv, Earlier
  <2>4. batch[n] \in Elems(batch)  BY <2>1 DEF Elems
  <2>5. Prior(back, Elems(batch), Elems(queue))  BY DEF OInv, StreamInv
  <2>6. \A m \in Elems(queue) : m.kind = "rec" => batch[n].idx < m.idx
    BY <2>2, <2>4, <2>5 DEF Prior, Before
  <2> QED  BY <2>3, <2>6
<1>8. Counting => Tops(CurFile'.data, next)  BY <1>1, <1>2, <1>6, <1>7 DEF Tops
<1>9. \A m \in Elems(queue) : m.kind = "rec" => Tops(CurFile'.data, m.idx)  BY <1>1, <1>6, <1>7 DEF Tops
<1>10. Counting' => \A i \in DOMAIN files' : Tops(files'[i].data, next)
  BY <1>2, <1>3, <1>6, <1>8
<1>11. \A i \in Old, m \in Waiting' : m.kind = "rec" => Tops(files'[i].data, m.idx)
  BY <1>3, <1>4, <1>6
<1>12. Elems(unwritten)' = Elems(unwritten') /\ Elems(queue)' = Elems(queue)  BY DEF Elems
<1> QED  BY <1>4, <1>5, <1>9, <1>10, <1>11, <1>12 DEF AboveInv, Fits

\* The writer goes on with the segments it has.
LEMMA WriterOrder ==
    ASSUME IInv, IInv', OInv, Live, Live', Moved, Grown(files'), Flagged(files'),
           UNCHANGED <<now, back, next, pending, queue, timer, prevVis>>,
           Counting' => Counting, \A m \in Elems(unwritten') : Fits(m),
           \A k \in DOMAIN batch' : batch'[k].kind = "rec" =>
             \/ Tops(CurFile'.data, batch'[k].idx)
             \/ wpc' = "consume" /\ \A j \in 1..k : Fits(batch'[j]),
           TargetInv' \/ (wpc' \in Sealing => wpc \in Sealing /\ target' = target),
           HandleInv'
    PROVE  OInv'
<1>0. TypeOK /\ TypeOK' /\ files # <<>> /\ Fixed  BY GrownLast DEF IInv
<1>1. StreamInv' /\ Waiting' \subseteq Waiting  BY <1>0, MovedStream DEF OInv
<1>2. ComingInv'  BY <1>1, MovedComing DEF OInv
<1>3. Flow  BY <1>0, <1>1, FlowOfMoved
<1>4. BarInv' /\ TargetInv'  BY <1>0, <1>3, FlowLink DEF OInv, LinkInv
<1>5. AboveInv'  BY <1>1, AboveGrown
<1>6. TapeInv'
  <2>1. PICK fs : fs = files' /\ Grown(fs) /\ Flagged(fs)  OBVIOUS
  <2>2. Tape(fs, back, now)  BY <2>1, GrownTape
  <2> QED  BY <2>1, <2>2 DEF TapeInv
<1>7. PrevInv'
  <2>1. PICK n \in Nat : n = Len(files) /\ n = Len(files') /\ DOMAIN files = 1..n
    BY <1>0, TypeFacts DEF Fixed
  <2>2. \A i \in 1..(n - 1) : files'[i].data = files[i].data
    <3>1. \A i \in 1..(n - 1) : i \in 1..n /\ i # n  OBVIOUS
    <3> QED  BY <2>1, <3>1 DEF Grown
  <2> SUFFICES ASSUME NEW i \in 1..(n - 1), files'[i].data # <<>>,
                      \A k \in (i + 1)..(n - 1) : files'[k].data = <<>>
               PROVE  prevVis = Last(files'[i].data).vis
    BY <2>1 DEF PrevInv, Old, Older
  <2>3. \A k \in (i + 1)..(n - 1) : k \in 1..(n - 1)  OBVIOUS
  <2>4. \A k \in (i + 1)..(n - 1) : files[k].data = <<>>  BY <2>2, <2>3
  <2>5. files'[i].data = files[i].data  BY <2>2
  <2> QED  BY <2>1, <2>4, <2>5 DEF OInv, LinkInv, PrevInv, Old, Older
<1> QED  BY <1>1, <1>2, <1>4, <1>5, <1>6, <1>7 DEF OInv, LinkInv

\* An exception leaves _consume.
LEMMA RaiseOrder ==
    ASSUME IInv, IInv', OInv, Live, NEW r \in Seq(Record), Raise(r), wpc # "dead",
           UNCHANGED <<now, back>>, Grown(files'), Flagged(files'),
           r = <<>> \/ (wpc = "consume" /\ r = Flushable),
           phase # "closing" => (cur'.handle => CurFile'.name = "open")
    PROVE  OInv'
<1>1. CASE phase = "closing"
  <2>1. ~Live'  BY <1>1 DEF Raise, Live
  <2> QED  BY <2>1, QuietOrder
<1>2. CASE phase # "closing"
  <2>0. /\ TypeOK /\ ThreadInv /\ unwritten = <<>> /\ batch \in Seq(Message) /\ Len(batch) \in Nat
        /\ FlushLen \in Nat
    BY TypeFacts, FlushFacts DEF IInv, ThreadInv
  <2>1. /\ wpc' = "dead" /\ batch' = <<>> /\ unwritten' = unwritten \o r
        /\ UNCHANGED <<phase, tail, next, pending, queue, timer, drained, target, prevVis>>
        /\ fatal' = (fatal \/ r # <<>>)
    BY <1>2 DEF Raise
  <2>2. Live' /\ wpc' \notin Sealing  BY <2>1 DEF Live, Sealing
  <2>3. unwritten' = r  BY <2>0, <2>1
  <2>4. PICK n \in 0..Len(batch) : /\ r = SubSeq(batch, 1, n) /\ (n > 0 => wpc = "consume")
                                   /\ n \in 0..FlushLen
    <3>1. FlushLen \in 0..Len(batch) /\ FlushLen \in Nat  BY <2>0, FlushFacts
    <3>2. CASE r = <<>>
      <4>1. SubSeq(batch, 1, 0) = <<>> /\ 0 \in 0..Len(batch) /\ 0 \in 0..FlushLen  BY <2>0, <3>1
      <4> QED  BY <3>2, <4>1
    <3>3. CASE wpc = "consume" /\ r = Flushable
      <4>1. FlushLen \in 0..FlushLen  BY <3>1
      <4> QED  BY <3>1, <3>3, <4>1 DEF Flushable
    <3> QED  BY <3>2, <3>3
  <2>5. Moved  BY <2>0, <2>1, <2>3, <2>4 DEF Moved
  <2>6. Counting' => Counting  BY <2>1 DEF Counting
  <2>7. \A m \in Elems(unwritten') : Fits(m)
    <3>1. Len(r) = n /\ \A i \in 1..n : r[i] = batch[i]  BY <2>0, <2>4, Prefix
    <3>2. \A i \in 1..FlushLen : batch[i].kind = "rec" /\ batch[i].vis < SegEnd(CurFile)
      BY <2>0, FlushFacts DEF CurFile
    <3>3. DOMAIN r = 1..n  BY <3>1
    <3>4. \A i \in 1..n : i \in 1..FlushLen  BY <2>0, <2>4
    <3> QED  BY <2>3, <3>1, <3>2, <3>3, <3>4 DEF Elems, Fits
  <2>8. DOMAIN batch' = {}  BY <2>1
  <2>9. HandleInv'  BY <1>2, <2>1 DEF HandleInv
  <2> QED  BY <2>1, <2>2, <2>5, <2>6, <2>7, <2>8, <2>9, WriterOrder
<1> QED  BY <1>1, <1>2

\* The segment under the handle is written to or fsynced.
LEMMA TouchGrown ==
    ASSUME IInv, OInv, Live, cur.handle, NEW g, Kept(CurFile, g), SetCurFile(g),
           g.name = CurFile.name, g.seal = CurFile.seal, g.synced \in {CurFile.synced, Len(g.data)},
           g.data = CurFile.data \/ Added(CurFile, g)
    PROVE  /\ Grown(files') /\ Flagged(files') /\ CurFile' = g /\ g.name = "open"
           /\ CurFile'.name = "open"
<1>0. TypeOK /\ files # <<>> /\ Named(files) /\ CurFile.name = "open"
  BY LiveFacts DEF IInv, OInv, TapeInv, Tape, LinkInv, HandleInv
<1>1. PICK f : f = CurFile  OBVIOUS
<1>2. g.start = f.start /\ g.index = f.index  BY <1>1 DEF Kept
<1>3. Common(f, g)  BY <1>0, <1>1, <1>2 DEF Common, IsSealed
<1>4. Grown(files') /\ CurOnly /\ CurFile' = g  BY <1>0, <1>1, <1>3, SetGrown
<1>5. \A i \in DOMAIN files : files'[i].seal = files[i].seal  BY <1>4 DEF CurOnly
<1>6. PICK fs : fs = files'  OBVIOUS
<1>7. Flagged(fs)  BY <1>4, <1>5, <1>6, GrownFlags
<1> QED  BY <1>0, <1>4, <1>6, <1>7

LEMMA FsyncTouch ==
    ASSUME IInv, OInv, Live, cur.handle, SetCurFile(Fsynced(CurFile))
    PROVE  /\ Grown(files') /\ Flagged(files') /\ CurFile'.name = "open"
           /\ CurFile'.data = CurFile.data /\ CurFile'.synced = Len(CurFile'.data)
<1>1. Sound(CurFile)  BY LiveFacts, CurFacts DEF IInv
<1>2. PICK g : g = Fsynced(CurFile)  OBVIOUS
<1>3. /\ Kept(CurFile, g) /\ g.data = CurFile.data /\ g.synced = Len(CurFile.data)
      /\ g.name = CurFile.name /\ g.seal = CurFile.seal
  BY <1>1, <1>2, FsyncedFacts
<1>4. SetCurFile(g)  BY <1>2
<1>5. Grown(files') /\ Flagged(files') /\ CurFile' = g /\ CurFile'.name = "open"  BY <1>3, <1>4, TouchGrown
<1> QED  BY <1>3, <1>5

\* Rows of the flush under way are in the segment.
LEMMA RowsTouch ==
    ASSUME IInv, OInv, Live, cur.handle, wpc = "consume", NEW n \in 0..FlushLen, NEW g,
           Kept(CurFile, g), g.data = CurFile.data \o SubSeq(batch, 1, n),
           g.synced \in {CurFile.synced, Len(g.data)},
           g.name = CurFile.name, g.seal = CurFile.seal, SetCurFile(g)
    PROVE  Grown(files') /\ Flagged(files') /\ CurFile' = g /\ CurFile'.name = "open"
<1>1. Added(CurFile, g)  BY DEF Added
<1> QED  BY <1>1, TouchGrown

LEMMA WriteFailsOrder ==
    ASSUME IInv, IInv', OInv, WriteFails
    PROVE  OInv'
<1>0. TypeOK /\ batch \in Seq(Message) /\ Sound(CurFile) /\ Live
  BY LiveFacts, TypeFacts, CurFacts DEF IInv, WriteFails
<1>1. /\ wpc = "consume" /\ cur.handle /\ Raise(Flushable) /\ UNCHANGED <<now, back>>
      /\ \/ SetCurFile(Fsynced(CurFile))
         \/ \E n \in 0..FlushLen, torn \in BOOLEAN : SetCurFile(Cut(CurFile, SubSeq(batch, 1, n), torn))
  BY DEF WriteFails
<1>2. Flushable \in Seq(Record)  BY <1>0, FlushSeqs
<1>3. Grown(files') /\ Flagged(files') /\ CurFile'.name = "open"
  <2>1. CASE SetCurFile(Fsynced(CurFile))  BY <1>0, <1>1, <2>1, FsyncTouch
  <2>2. ASSUME NEW n \in 0..FlushLen, NEW torn \in BOOLEAN,
               SetCurFile(Cut(CurFile, SubSeq(batch, 1, n), torn))
        PROVE  Grown(files') /\ Flagged(files') /\ CurFile'.name = "open"
    <3>1. SubSeq(batch, 1, n) \in Seq(Record)  BY <1>0, Prefix
    <3>2. PICK g : g = Cut(CurFile, SubSeq(batch, 1, n), torn)  OBVIOUS
    <3>3. /\ Kept(CurFile, g) /\ g.data = CurFile.data \o SubSeq(batch, 1, n)
          /\ g.synced = CurFile.synced /\ g.name = CurFile.name /\ g.seal = CurFile.seal
      BY <1>0, <3>1, <3>2, WriteFacts
    <3>4. SetCurFile(g)  BY <2>2, <3>2
    <3> QED  BY <1>0, <1>1, <3>3, <3>4, RowsTouch
  <2> QED  BY <1>1, <2>1, <2>2
<1> QED  BY <1>0, <1>1, <1>2, <1>3, RaiseOrder

\* The whole flush is in the segment.
LEMMA FlushTouch ==
    ASSUME IInv, OInv, Live, cur.handle, wpc = "consume", NEW due \in BOOLEAN,
           LET w == [CurFile EXCEPT !.data = @ \o Flushable]
           IN  SetCurFile(IF due THEN Fsynced(w) ELSE w)
    PROVE  /\ Grown(files') /\ Flagged(files') /\ CurFile'.name = "open"
           /\ CurFile'.data = CurFile.data \o Flushable
<1>0. TypeOK /\ batch \in Seq(Message) /\ Sound(CurFile)
  BY LiveFacts, TypeFacts, CurFacts DEF IInv
<1>1. Flushable \in Seq(Record) /\ Flushable = SubSeq(batch, 1, FlushLen) /\ FlushLen \in 0..FlushLen
  BY <1>0, FlushSeqs DEF Flushable
<1>2. PICK w : w = [CurFile EXCEPT !.data = @ \o Flushable]  OBVIOUS
<1>3. /\ Kept(CurFile, w) /\ w.data = CurFile.data \o Flushable /\ w.synced = CurFile.synced
      /\ w.name = CurFile.name /\ w.seal = CurFile.seal
  BY <1>0, <1>1, <1>2, AppendFacts
<1>4. PICK g : g = IF due THEN Fsynced(w) ELSE w  OBVIOUS
<1>5. SetCurFile(g)  BY <1>2, <1>4
<1>6. /\ Kept(CurFile, g) /\ g.data = CurFile.data \o Flushable
      /\ g.synced \in {CurFile.synced, Len(g.data)} /\ g.name = CurFile.name /\ g.seal = CurFile.seal
  <2>1. CASE due
    <3>1. Sound(w) /\ g = Fsynced(w)  BY <1>3, <1>4, <2>1 DEF Kept
    <3>2. /\ Kept(w, g) /\ g.data = w.data /\ g.synced = Len(w.data) /\ g.name = w.name /\ g.seal = w.seal
      BY <3>1, FsyncedFacts
    <3>3. w.synced >= CurFile.synced
      <4>1. CurFile.synced \in Nat  BY <1>0, FileFacts DEF Sound
      <4> QED  BY <1>3, <4>1
    <3>4. Kept(CurFile, g)  BY <1>0, <1>3, <3>2, <3>3, KeptTwice
    <3> QED  BY <1>3, <3>2, <3>4
  <2>2. CASE ~due  BY <1>3, <1>4, <2>2
  <2> QED  BY <2>1, <2>2
<1>7. g.data = CurFile.data \o SubSeq(batch, 1, FlushLen)  BY <1>1, <1>6
<1>8. Grown(files') /\ Flagged(files') /\ CurFile' = g /\ CurFile'.name = "open"
  BY <1>1, <1>5, <1>6, <1>7, RowsTouch
<1> QED  BY <1>6, <1>8

LEMMA FsyncFailsOrder ==
    ASSUME IInv, IInv', OInv, FsyncFails
    PROVE  OInv'
<1>0. TypeOK /\ batch \in Seq(Message) /\ Live  BY LiveFacts, TypeFacts DEF IInv, FsyncFails
<1>1. /\ wpc = "consume" /\ cur.handle /\ Raise(Flushable) /\ UNCHANGED <<now, back>>
      /\ SetCurFile([CurFile EXCEPT !.data = @ \o Flushable])
  BY DEF FsyncFails
<1>2. Flushable \in Seq(Record)  BY <1>0, FlushSeqs
<1>3. PICK due \in BOOLEAN : due = FALSE  OBVIOUS
<1>4. Grown(files') /\ Flagged(files') /\ CurFile'.name = "open"  BY <1>0, <1>1, <1>3, FlushTouch
<1> QED  BY <1>0, <1>1, <1>2, <1>4, RaiseOrder

\* The files are as they were and the handle with them.
LEMMA SameTouch ==
    ASSUME IInv, OInv, Live, UNCHANGED files
    PROVE  Grown(files') /\ Flagged(files') /\ (cur.handle => CurFile'.name = "open")
           /\ CurFile' = CurFile
<1>1. TypeOK /\ Named(files) /\ Flagged(files)  BY DEF IInv, OInv, TapeInv, Tape
<1>2. Grown(files)  BY <1>1, SameGrown
<1>3. CurFile' = CurFile  BY DEF CurFile
<1> QED  BY <1>1, <1>2, <1>3 DEF OInv, LinkInv, HandleInv

LEMMA RefusedOrder ==
    ASSUME IInv, IInv', OInv, WriteRefused \/ SealFsyncFails
    PROVE  OInv'
<1>0. TypeOK /\ batch \in Seq(Message) /\ Live /\ wpc = "consume" /\ UNCHANGED <<now, back, files>>
  BY LiveFacts, TypeFacts DEF IInv, WriteRefused, SealFsyncFails
<1>1. Grown(files') /\ Flagged(files') /\ (cur.handle => CurFile'.name = "open")  BY <1>0, SameTouch
<1>2. CASE WriteRefused
  <2>1. Raise(Flushable) /\ (phase # "closing" => UNCHANGED cur)  BY <1>2 DEF WriteRefused
  <2>2. Flushable \in Seq(Record)  BY <1>0, FlushSeqs
  <2> QED  BY <1>0, <1>1, <2>1, <2>2, RaiseOrder
<1>3. CASE SealFsyncFails
  <2>1. Raise(<<>>) /\ (phase # "closing" => cur' = [cur EXCEPT !.handle = FALSE])  BY <1>3 DEF SealFsyncFails
  <2>2. phase # "closing" => ~cur'.handle  BY <1>0, <2>1, CurColumns
  <2>3. <<>> \in Seq(Record)  OBVIOUS
  <2> QED  BY <1>0, <1>1, <2>1, <2>2, <2>3, RaiseOrder
<1> QED  BY <1>2, <1>3

\* No record moves.
LEMMA StillOrder ==
    ASSUME IInv, IInv', OInv, Live, Live', Grown(files'), Flagged(files'), CurFile'.data = CurFile.data,
           UNCHANGED <<now, back, next, pending, queue, timer, prevVis, batch, unwritten, fatal, target>>,
           wpc' = wpc \/ wpc # "consume" \/ batch = <<>>,
           wpc' \in Sealing => wpc \in Sealing, HandleInv'
    PROVE  OInv'
<1>1. Moved  BY DEF Moved
<1>2. Counting' => Counting  BY DEF Counting
<1>3. \A m \in Elems(unwritten') : Fits(m)  BY DEF OInv, LinkInv, AboveInv
<1>4. \A k \in DOMAIN batch' : batch'[k].kind = "rec" =>
         \/ Tops(CurFile'.data, batch'[k].idx)
         \/ wpc' = "consume" /\ \A j \in 1..k : Fits(batch'[j])
  <2>1. \A k \in DOMAIN batch : batch[k].kind = "rec" =>
         \/ Tops(CurFile.data, batch[k].idx)
         \/ wpc = "consume" /\ \A j \in 1..k : Fits(batch[j])
    BY DEF OInv, LinkInv, AboveInv
  <2>2. batch = <<>> => DOMAIN batch = {}  OBVIOUS
  <2> QED  BY <2>1, <2>2
<1> QED  BY <1>1, <1>2, <1>3, <1>4, WriterOrder

LEMMA SpoolOrder ==
    ASSUME IInv, IInv', OInv, SpoolSync
    PROVE  OInv'
<1>1. /\ Live /\ Live' /\ wpc' = wpc
      /\ UNCHANGED <<now, back, next, pending, queue, timer, prevVis, batch, unwritten, fatal, target>>
  BY DEF SpoolSync, Live
<1>2. TypeOK /\ files # <<>>  BY <1>1, LiveFacts DEF IInv
<1>3. CASE /\ cur.handle /\ files' = [files EXCEPT ![Len(files)] = Fsynced(@)]
           /\ cur' = [cur EXCEPT !.dirty = FALSE]
  <2>1. SetCurFile(Fsynced(CurFile))  BY <1>2, <1>3, CurFacts DEF SetCurFile
  <2>2. Grown(files') /\ Flagged(files') /\ CurFile'.name = "open" /\ CurFile'.data = CurFile.data
        /\ CurFile'.synced = Len(CurFile'.data)
    BY <1>1, <1>3, <2>1, FsyncTouch
  <2>3. HandleInv'  BY <2>2 DEF HandleInv
  <2> QED  BY <1>1, <2>2, <2>3, StillOrder
<1>4. CASE UNCHANGED <<files, cur>>
  <2>1. Grown(files') /\ Flagged(files') /\ CurFile' = CurFile  BY <1>1, <1>4, SameTouch
  <2>2. HandleInv'  BY <1>1, <1>4, <2>1 DEF OInv, LinkInv, HandleInv
  <2> QED  BY <1>1, <2>1, <2>2, StillOrder
<1> QED  BY <1>3, <1>4 DEF SpoolSync

LEMMA BatchDoneOrder ==
    ASSUME IInv, IInv', OInv, BatchDone
    PROVE  OInv'
<1>1. /\ wpc = "consume" /\ batch = <<>> /\ wpc' \in {"idle", "dead"}
      /\ UNCHANGED <<now, back, next, pending, queue, timer, prevVis, batch, unwritten, fatal, target, phase>>
  BY DEF BatchDone, threadVars
<1>2. Live /\ Live' /\ TypeOK /\ files # <<>>  BY <1>1, LiveFacts DEF IInv, Live
<1>3. wpc' \notin Sealing /\ wpc' # "rename"  BY <1>1 DEF Sealing
<1>4. CASE cur.handle /\ SetCurFile(Fsynced(CurFile)) /\ cur' = [cur EXCEPT !.dirty = FALSE]
  <2>1. Grown(files') /\ Flagged(files') /\ CurFile'.name = "open" /\ CurFile'.data = CurFile.data
    BY <1>2, <1>4, FsyncTouch
  <2>2. HandleInv'  BY <1>3, <2>1 DEF HandleInv
  <2> QED  BY <1>1, <1>2, <1>3, <2>1, <2>2, StillOrder
<1>5. CASE UNCHANGED <<files, cur>>
  <2>1. Grown(files') /\ Flagged(files') /\ CurFile' = CurFile  BY <1>2, <1>5, SameTouch
  <2>2. HandleInv'  BY <1>2, <1>3, <1>5, <2>1 DEF OInv, LinkInv, HandleInv
  <2> QED  BY <1>1, <1>2, <1>3, <2>1, <2>2, StillOrder
<1> QED  BY <1>4, <1>5, Zenon DEF BatchDone

LEMMA WriteBatchOrder ==
    ASSUME IInv, IInv', OInv, WriteBatch
    PROVE  OInv'
<1>1. /\ wpc = "consume" /\ FlushLen > 0 /\ cur.handle /\ batch' = AfterFlush /\ wpc' = wpc
      /\ UNCHANGED <<now, back, next, pending, queue, timer, prevVis, unwritten, fatal, target, phase>>
  BY DEF WriteBatch, threadVars
<1>2. Live /\ Live' /\ TypeOK /\ files # <<>> /\ unwritten = <<>>
  BY <1>1, LiveFacts DEF IInv, Live, ThreadInv
<1>3. PICK due \in BOOLEAN : LET w == [CurFile EXCEPT !.data = @ \o Flushable]
                             IN  SetCurFile(IF due THEN Fsynced(w) ELSE w)
  BY DEF WriteBatch
<1>4. Grown(files') /\ Flagged(files') /\ CurFile'.name = "open" /\ CurFile'.data = CurFile.data \o Flushable
  BY <1>1, <1>2, <1>3, FlushTouch
<1>5. /\ batch \in Seq(Message) /\ FlushLen \in 0..Len(batch) /\ Len(batch) \in Nat
      /\ Flushable \in Seq(Record) /\ Len(Flushable) = FlushLen
      /\ \A i \in 1..FlushLen : Flushable[i] = batch[i]
  BY <1>2, TypeFacts, FlushSeqs
<1>6. Moved
  <2>1. batch' = SubSeq(batch, FlushLen + 1, Len(batch))  BY <1>1 DEF AfterFlush
  <2> QED  BY <1>1, <1>5, <2>1 DEF Moved
<1>7. Counting' => Counting  BY <1>1 DEF Counting
<1>8. \A m \in Elems(unwritten') : Fits(m)  BY <1>1, <1>2, ElemsEmpty
<1>9. CurFile'.data # <<>> /\ Last(CurFile'.data) = batch[FlushLen]
  <2>0. PICK d \in Seq(Record), s \in Seq(Record) : d = CurFile.data /\ s = Flushable
    BY <1>2, <1>5, CurFacts, FileFacts
  <2>1. PICK e : e = d \o s  OBVIOUS
  <2>2. Len(s) = FlushLen /\ s[FlushLen] = batch[FlushLen] /\ FlushLen \in Nat /\ FlushLen > 0
    BY <1>1, <1>5, <2>0
  <2>3. Len(e) = Len(d) + Len(s) /\ e[Len(d) + Len(s)] = s[Len(s)] /\ e # <<>>
    <3>1. /\ Len(d \o s) = Len(d) + Len(s) /\ Len(d) \in Nat /\ d \o s \in Seq(Record)
          /\ \A k \in 1..Len(s) : (d \o s)[Len(d) + k] = s[k]
      OBVIOUS
    <3>2. Len(s) \in 1..Len(s)  BY <2>2
    <3>3. Len(e) = Len(d) + Len(s) /\ e[Len(d) + Len(s)] = s[Len(s)]  BY <2>1, <3>1, <3>2
    <3>4. Len(e) > 0  BY <2>2, <3>1, <3>3
    <3> QED  BY <3>3, <3>4
  <2> QED  BY <1>4, <2>0, <2>1, <2>2, <2>3 DEF Last
<1>10. ASSUME NEW k \in DOMAIN batch', batch'[k].kind = "rec" PROVE Tops(CurFile'.data, batch'[k].idx)
  <2>1. PICK n \in Nat, p \in Nat : /\ n = FlushLen /\ p = Len(batch) /\ n > 0 /\ n <= p
                                    /\ DOMAIN batch = 1..p
    BY <1>1, <1>5
  <2>2. k \in 1..(p - n) /\ batch'[k] = batch[n + k]
    <3>1. batch' = AfterFlush /\ AfterFlush \in Seq(Message) /\ Len(AfterFlush) = Len(batch) - FlushLen
          /\ \A i \in DOMAIN AfterFlush : AfterFlush[i] = batch[FlushLen + i]
      BY <1>1, <1>5, FlushSeqs
    <3> QED  BY <2>1, <3>1
  <2>3. n \in DOMAIN batch /\ n + k \in DOMAIN batch /\ n < n + k  BY <2>1, <2>2
  <2>4. Before(back, batch[n], batch[n + k])  BY <1>2, <2>3 DEF OInv, StreamInv, InOrder
  <2>5. batch[n].kind = "rec"  BY <1>1, <1>5, <2>1, FlushFacts
  <2>6. batch[n].idx < batch[n + k].idx  BY <1>10, <2>2, <2>4, <2>5 DEF Before
  <2> QED  BY <1>9, <2>1, <2>2, <2>6 DEF Tops
<1>11. wpc' \notin Sealing /\ wpc' # "rename"  BY <1>1 DEF Sealing
<1>12. HandleInv'  BY <1>4, <1>11 DEF HandleInv
<1> QED  BY <1>1, <1>2, <1>4, <1>6, <1>7, <1>8, <1>10, <1>11, <1>12, WriterOrder

LEMMA SealRenameOrder ==
    ASSUME IInv, IInv', OInv, SealRename
    PROVE  OInv'
<1>1. wpc = "rename" /\ phase # "recovering" /\ UNCHANGED <<now, back>>  BY DEF SealRename
<1>2. Live /\ TypeOK /\ files # <<>> /\ ~cur.handle  BY <1>1, LiveFacts DEF IInv, WriterInv, Sealing
<1>3. CASE Fault("rename") /\ UNCHANGED files /\ Raise(<<>>) /\ (phase # "closing" => UNCHANGED cur)
  <2>1. Grown(files') /\ Flagged(files')  BY <1>2, <1>3, SameTouch
  <2>2. <<>> \in Seq(Record)  OBVIOUS
  <2> QED  BY <1>1, <1>2, <1>3, <2>1, <2>2, RaiseOrder
<1>4. CASE /\ wpc' = "publish" /\ SetCurFile([CurFile EXCEPT !.name = "ndjson"])
           /\ UNCHANGED <<phase, tail, next, pending, queue, timer, batch, drained, target,
                          unwritten, fatal, cur, prevVis>>
  <2>1. PICK f, g : f = CurFile /\ g = [CurFile EXCEPT !.name = "ndjson"]  OBVIOUS
  <2>2. /\ Kept(f, g) /\ g.data = f.data /\ g.synced = f.synced /\ g.name = "ndjson" /\ g.seal = f.seal
    BY <1>2, <2>1, CurFacts, RenameFacts
  <2>3. f.synced = Len(f.data)  BY <1>1, <1>2, <2>1 DEF OInv, LinkInv, HandleInv
  <2>4. g.start = f.start /\ g.index = f.index  BY <2>2 DEF Kept
  <2>5. Common(f, g)  BY <2>2, <2>3, <2>4 DEF Common, IsSealed
  <2>6. Named(files) /\ SetCurFile(g)  BY <1>4, <2>1 DEF OInv, TapeInv, Tape
  <2>7. Grown(files') /\ CurOnly /\ CurFile' = g  BY <1>2, <2>1, <2>2, <2>5, <2>6, SetGrown
  <2>8. \A i \in DOMAIN files : files'[i].seal = files[i].seal  BY <2>1, <2>2, <2>7 DEF CurOnly
  <2>9. PICK fs : fs = files'  OBVIOUS
  <2>10. Flagged(fs)  BY <2>7, <2>8, <2>9, GrownFlags
  <2>11. HandleInv'  BY <1>2, <1>4 DEF HandleInv
  <2>12. Live' /\ wpc # "consume" /\ wpc \in Sealing  BY <1>1, <1>2, <1>4 DEF Live, Sealing
  <2> QED  BY <1>1, <1>2, <1>4, <2>1, <2>2, <2>7, <2>9, <2>10, <2>11, <2>12, StillOrder
<1> QED  BY <1>3, <1>4 DEF SealRename

\* The seal's flag compares the first record with the seed.
LEMMA SealFlag ==
    ASSUME NEW d \in Seq(Record), d # <<>>, NEW seed, d[1].vis \in Nat, seed \in Nat, d[1].vis < seed,
           NEW reason
    PROVE  ~SealOf(Len(d), d, seed, reason).ok
<1>1. SubSeq(d, 1, Len(d)) = d  OBVIOUS
<1>2. ~NonDecreasing(d, seed)  BY DEF NonDecreasing
<1> QED  BY <1>1, <1>2 DEF SealOf

LEMMA SealPublishOrder ==
    ASSUME IInv, IInv', OInv, SealPublish
    PROVE  OInv'
<1>1. wpc \in {"publish", "reseal"} /\ phase # "recovering" /\ UNCHANGED <<now, back>>  BY DEF SealPublish
<1>2. /\ Live /\ TypeOK /\ files # <<>> /\ ~cur.handle /\ ~cur.poisoned
      /\ cur.committed = Len(CurFile.data) /\ Named(files)
  BY <1>1, LiveFacts DEF IInv, WriterInv, Sealing, OInv, TapeInv, Tape
<1>3. CASE Fault("seal_write") /\ UNCHANGED files /\ Raise(<<>>) /\ (phase # "closing" => UNCHANGED cur)
  <2>1. Grown(files') /\ Flagged(files')  BY <1>2, <1>3, SameTouch
  <2>2. <<>> \in Seq(Record)  OBVIOUS
  <2> QED  BY <1>1, <1>2, <1>3, <2>1, <2>2, RaiseOrder
<1>4. CASE /\ wpc' = "finish"
           /\ LET fs == IF wpc = "publish" THEN DirSynced(files) ELSE files
              IN  files' = [fs EXCEPT ![Len(fs)].seal =
                               SealOf(cur.committed, CurFile.data, prevVis, "writer")]
           /\ UNCHANGED <<phase, tail, next, pending, queue, timer, batch, drained, target,
                          unwritten, fatal, cur, prevVis>>
  <2>1. PICK sl : sl = SealOf(Len(CurFile.data), CurFile.data, prevVis, "writer")  OBVIOUS
  <2>2. PICK k : k = Len(files) /\ k \in DOMAIN files /\ CurFile = files[k] /\ Sound(CurFile)
    BY <1>2, CurFacts
  <2>3. sl \in SealType /\ sl # NoSeal
    <3>1. Len(CurFile.data) \in Int  BY <2>2, FileFacts DEF Sound
    <3> QED  BY <2>1, <3>1, SealOfFacts
  <2>4. PICK fs : fs = IF wpc = "publish" THEN DirSynced(files) ELSE files  OBVIOUS
  <2>5. /\ Grown(fs) /\ fs \in Seq(File)
        /\ \A i \in DOMAIN files : fs[i].seal = files[i].seal /\ fs[i].data = files[i].data
                                   /\ fs[i].synced = files[i].synced /\ fs[i].name = files[i].name
    <3>1. CASE wpc = "publish"
      <4>1. fs = DirSynced(files)  BY <2>4, <3>1
      <4> QED  BY <1>2, <4>1, DirGrown
    <3>2. CASE wpc # "publish"  BY <1>2, <2>4, <3>2, SameGrown, TypeFacts
    <3> QED  BY <3>1, <3>2
  <2>6. /\ DOMAIN fs = DOMAIN files /\ Len(fs) = Len(files)
        /\ \A i \in DOMAIN files : fs[i] \in File /\ Common(files[i], fs[i])
                                   /\ (i # Len(files) => (files[i].sealed => fs[i].sealed))
    BY <2>5 DEF Grown
  <2>7. PICK f, g, p : f = fs[k] /\ g = [f EXCEPT !.seal = sl] /\ p = files[k]  OBVIOUS
  <2>8. PICK gs : gs = files'  OBVIOUS
  <2>9. gs = [fs EXCEPT ![k] = g]
    BY <1>2, <1>4, <2>1, <2>2, <2>4, <2>6, <2>7, <2>8
  <2>10. /\ DOMAIN gs = DOMAIN files /\ Len(gs) = Len(files) /\ gs[k] = g
         /\ \A i \in DOMAIN files : i # k => gs[i] = fs[i]
    <3>1. DOMAIN gs = DOMAIN fs /\ gs[k] = g /\ \A i \in DOMAIN fs : i # k => gs[i] = fs[i]
      BY <2>2, <2>6, <2>9
    <3>2. gs \in Seq(File)
      <4>1. gs = files' /\ TypeOK'  BY <2>8 DEF IInv
      <4> QED  BY <4>1 DEF TypeOK
    <3>3. Len(gs) = Len(fs)
      <4>1. PICK n \in Nat : n = Len(fs) /\ DOMAIN fs = 1..n  BY <2>5
      <4>2. PICK q \in Nat : q = Len(gs) /\ DOMAIN gs = 1..q  BY <3>2
      <4>3. 1..n = 1..q  BY <3>1, <4>1, <4>2
      <4>4. n = q  BY <4>3
      <4> QED  BY <4>1, <4>2, <4>4
    <3> QED  BY <2>6, <3>1, <3>3
  <2>11. /\ g.start = f.start /\ g.index = f.index /\ g.data = f.data /\ g.synced = f.synced
         /\ g.name = f.name /\ g.seal = sl /\ g \in File
    <3>1. f \in File  BY <2>2, <2>6, <2>7
    <3> QED  BY <2>3, <2>7, <3>1, Zenon DEF File
  <2>12. Common(p, g)
    <3>1. Common(p, f)  BY <2>2, <2>6, <2>7
    <3> QED  BY <2>3, <2>11, <3>1 DEF Common, IsSealed
  <2>13. ASSUME NEW i \in DOMAIN files
         PROVE  /\ gs[i] \in File /\ Common(files[i], gs[i]) /\ gs[i].data = files[i].data
                /\ i # Len(files) => (files[i].sealed => gs[i].sealed) /\ gs[i].seal = files[i].seal
    <3>1. CASE i = k  BY <2>2, <2>5, <2>7, <2>10, <2>11, <2>12, <3>1
    <3>2. CASE i # k  BY <2>5, <2>6, <2>10, <3>2
    <3> QED  BY <3>1, <3>2
  <2>14. Grown(gs)  BY <2>10, <2>13 DEF Grown
  <2>15. Flagged(gs)
    <3> SUFFICES ASSUME NEW i \in DOMAIN files, NEW j \in DOMAIN files, i < j, gs[i].data # <<>>,
                      gs[j].data # <<>>, \A x \in (i + 1)..(j - 1) : gs[x].data = <<>>,
                      gs[j].data[1].vis < Last(gs[i].data).vis, gs[j].seal.reason = "writer"
                 PROVE  ~gs[j].seal.ok
      BY <2>10 DEF Flagged
    <3>1. PICK n \in Nat : n = Len(files) /\ DOMAIN files = 1..n  BY <1>2, TypeFacts
    <3>2. i \in 1..n /\ j \in 1..n  BY <3>1
    <3>3. \A x \in (i + 1)..(j - 1) : x \in 1..n  BY <3>2
    <3>4. \A x \in (i + 1)..(j - 1) : files[x].data = <<>>  BY <2>13, <3>1, <3>3
    <3>5. gs[i].data = files[i].data /\ gs[j].data = files[j].data  BY <2>13
    <3>6. CASE j # n
      <4>1. gs[j].seal = files[j].seal  BY <2>13, <3>1, <3>6
      <4>2. Flagged(files)  BY DEF OInv, TapeInv, Tape
      <4> QED  BY <3>4, <3>5, <4>1, <4>2 DEF Flagged
    <3>7. CASE j = n
      <4>1. i \in Old  BY <3>1, <3>2, <3>7 DEF Old, Older
      <4>2. \A x \in (i + 1)..(Len(files) - 1) : files[x].data = <<>>  BY <3>1, <3>4, <3>7
      <4>3. prevVis = Last(files[i].data).vis
        BY <1>2, <3>5, <4>1, <4>2 DEF OInv, LinkInv, PrevInv
      <4>4. files[i] \in File /\ files[j] \in File  BY <1>2, TypeFacts DEF Sound
      <4>5. prevVis \in Nat  BY <3>5, <4>3, <4>4, LastRow
      <4>6. PICK d \in Seq(Record) : d = files[j].data  BY <4>4, FileFacts
      <4>7. d # <<>> /\ d[1].vis \in Nat /\ d[1].vis < prevVis
        BY <3>5, <4>3, <4>4, <4>6, LastRow
      <4>8. ~SealOf(Len(d), d, prevVis, "writer").ok  BY <4>5, <4>7, SealFlag
      <4>9. sl = SealOf(Len(d), d, prevVis, "writer") /\ gs[j].seal = sl
        BY <2>1, <2>2, <2>10, <2>11, <3>1, <3>7, <4>6
      <4> QED  BY <4>8, <4>9
    <3> QED  BY <3>6, <3>7
  <2>16. CurFile'.data = CurFile.data
    <3>1. CurFile' = gs[k]  BY <2>2, <2>8, <2>10 DEF CurFile, Last
    <3> QED  BY <2>2, <2>13, <3>1
  <2>17. HandleInv'  BY <1>2, <1>4 DEF HandleInv
  <2>18. Live' /\ wpc # "consume" /\ wpc \in Sealing  BY <1>1, <1>2, <1>4 DEF Live, Sealing
  <2> QED  BY <1>1, <1>2, <1>4, <2>8, <2>14, <2>15, <2>16, <2>17, <2>18, StillOrder
<1> QED  BY <1>3, <1>4 DEF SealPublish

\* A window the writer is about to open.
LEMMA TargetFrom ==
    ASSUME TypeOK, TypeOK', Fixed, Flow, NEW u \in Nat, target' = u, Aligned(u),
           back = 0 => /\ u <= now /\ Barred(u)'
                       /\ \A i \in DOMAIN files : Behind(files[i].start, u)
    PROVE  TargetInv'
<1>1. back' = back /\ now' = now  BY DEF Flow
<1>2. \A i \in DOMAIN files : files[i].start \in Nat
  <2>1. \A i \in DOMAIN files : files[i] \in File  BY TypeFacts DEF Sound
  <2> QED  BY <2>1, FileFacts
<1>3. ASSUME back = 0, NEW i \in DOMAIN files' PROVE (files[i].start <= u \/ RecAbove(files[i].start))'
  <2>1. PICK t \in Nat : t = files[i].start /\ t = files'[i].start  BY <1>2 DEF Fixed
  <2>2. Behind(t, u)  BY <1>3, <2>1 DEF Fixed
  <2>3. t <= u \/ RecAbove(t)'  BY <1>3, <2>2, FlowBars DEF Behind
  <2> QED  BY <2>1, <2>3 DEF RecAbove
<1> SUFFICES ASSUME wpc' \in Sealing, target' # NoTarget
             PROVE  /\ Aligned(target')
                    /\ back' = 0 => /\ target' <= now' /\ Barred(target)'
                                    /\ \A i \in DOMAIN files' : Behind(files[i].start, target)'
  BY DEF TargetInv, Barred, RecAbove, RotAbove, Behind
<1> QED  BY <1>1, <1>3 DEF Barred, RecAbove, RotAbove, Behind

\* The head of the batch against what waits after it.
LEMMA HeadFacts ==
    ASSUME IInv, OInv, Live, wpc = "consume", batch # <<>>, NEW m, m = batch[1]
    PROVE  /\ m \in Waiting /\ m \in Message /\ Earlier(m) /\ unwritten = <<>>
           /\ \A x \in Elems(queue) : Before(back, m, x)
           /\ \A k \in DOMAIN batch : k # 1 => Before(back, m, batch[k])
<1>1. TypeOK /\ unwritten = <<>>  BY DEF IInv, ThreadInv
<1>2. PICK n \in Nat : n = Len(batch) /\ DOMAIN batch = 1..n /\ n # 0  BY <1>1, TypeFacts
<1>3. 1 \in DOMAIN batch /\ \A k \in DOMAIN batch : k # 1 => 1 < k  BY <1>2
<1>4. m \in Elems(batch) /\ m \in Waiting  BY <1>3 DEF Elems, Waiting
<1>5. m \in Message /\ Earlier(m)  BY <1>1, <1>4, WaitingTypes DEF OInv, ComingInv
<1>6. \A x \in Elems(queue) : Before(back, m, x)  BY <1>4 DEF OInv, StreamInv, Prior
<1>7. \A k \in DOMAIN batch : k # 1 => Before(back, m, batch[k])  BY <1>3 DEF OInv, StreamInv, InOrder
<1> QED  BY <1>1, <1>4, <1>5, <1>6, <1>7

\* The boundary: a rotation is taken from the batch, a record stays its head.
LEMMA BoundaryFacts ==
    ASSUME IInv, OInv, Live, wpc = "consume", AtBoundary,
           target' = BoundaryTarget, UNCHANGED <<now, back, next, pending, queue, timer, unwritten, fatal>>,
           batch' = (IF Head(batch).kind = "rotate" THEN Tail(batch) ELSE batch), TypeOK'
    PROVE  /\ Moved
           /\ \A k \in DOMAIN batch' : \E i \in DOMAIN batch : batch'[k] = batch[i]
           /\ \E u \in Nat :
                /\ target' = u /\ Aligned(u)
                /\ back = 0 => /\ u <= now /\ Barred(u)'
                               /\ \A i \in DOMAIN files : Behind(files[i].start, u)
<1>1. TypeOK /\ files # <<>> /\ batch \in Seq(Message) /\ batch # <<>> /\ FlushLen = 0
  BY LiveFacts, TypeFacts DEF IInv, AtBoundary
<1>2. PICK n \in Nat : n = Len(batch) /\ DOMAIN batch = 1..n /\ n # 0  BY <1>1
<1>3. PICK m : m = batch[1] /\ m = Head(batch)  BY <1>1
<1>4. /\ m \in Waiting /\ m \in Message /\ Earlier(m) /\ unwritten = <<>>
      /\ \A x \in Elems(queue) : Before(back, m, x)
      /\ \A k \in DOMAIN batch : k # 1 => Before(back, m, batch[k])
  BY <1>1, <1>3, HeadFacts
<1>5. m.kind \in {"rec", "rotate"}  BY <1>4, RecFacts
<1>6. /\ \A i \in DOMAIN files : files[i].start \in Nat
      /\ now \in Nat /\ timer.start \in Nat
      /\ \A x \in Waiting : x.kind = "rec" => x.vis \in Nat
      /\ pending # NoRec => pending.vis \in Nat
  <2>1. \A i \in DOMAIN files : files[i] \in File  BY <1>1, TypeFacts DEF Sound
  <2> QED  BY <1>1, <2>1, FileFacts, WaitingTypes
<1>7. CASE m.kind = "rotate"
  <2>0. PICK b : b = batch'  OBVIOUS
  <2>1. PICK u \in Nat : u = m.start /\ target' = u /\ b = batch'
    BY <1>3, <1>4, <1>7, <2>0, RecFacts DEF BoundaryTarget
  <2>2. b = Tail(batch) /\ b = SubSeq(batch, 1 + 1, Len(batch)) /\ 1 \in 0..Len(batch)
    BY <1>1, <1>2, <1>3, <1>7, <2>1
  <2>3. Moved  BY <2>1, <2>2 DEF Moved
  <2>4. ASSUME NEW k \in DOMAIN b PROVE \E i \in DOMAIN batch : i # 1 /\ b[k] = batch[i]
    <3>1. k \in 1..(n - 1) /\ b[k] = batch[k + 1]  BY <1>1, <1>2, <2>2
    <3>2. k + 1 \in DOMAIN batch /\ k + 1 # 1  BY <1>2, <3>1
    <3> QED  BY <3>1, <3>2
  <2>5. Aligned(u) /\ (back = 0 => u <= now)  BY <1>4, <1>7, <2>1 DEF Earlier
  <2>6. back = 0 => RotAbove(u)'
    <3> SUFFICES ASSUME back = 0, NEW x \in Waiting', x.kind = "rotate" PROVE x.start > u
      <4>1. back = 0 => timer.start > u  BY <1>4, <1>6, <1>7, <2>1 DEF Earlier
      <4> QED  BY <4>1 DEF RotAbove
    <3>1. x \in Elems(b) \/ x \in Elems(queue)
      <4>1. Elems(unwritten') = {}  BY <1>4, ElemsEmpty
      <4> QED  BY <2>1, <4>1 DEF Waiting
    <3>2. Before(back, m, x)
      <4>1. CASE x \in Elems(b)
        <5>1. PICK k \in DOMAIN b : x = b[k]  BY <4>1 DEF Elems
        <5> QED  BY <1>4, <2>4, <5>1
      <4> QED  BY <1>4, <3>1, <4>1
    <3>3. x.start \in Nat
      <4>1. x \in Waiting  BY <1>1, <2>3, MovedStream DEF OInv
      <4> QED  BY <1>1, <4>1, WaitingTypes
    <3> QED  BY <1>7, <2>1, <3>2, <3>3 DEF Before
  <2>7. ASSUME back = 0, NEW i \in DOMAIN files PROVE Behind(files[i].start, u)
    <3>1. Barred(files[i].start)  BY <2>7 DEF OInv, LinkInv, BarInv
    <3>2. CASE RotAbove(files[i].start)
      <4>1. u > files[i].start  BY <1>4, <1>7, <2>1, <3>2 DEF RotAbove
      <4> QED  BY <1>6, <4>1 DEF Behind
    <3> QED  BY <3>1, <3>2 DEF Barred, Behind
  <2>8. \A k \in DOMAIN batch' : \E i \in DOMAIN batch : batch'[k] = batch[i]  BY <2>1, <2>4
  <2>9. back = 0 => Barred(u)'  BY <2>6 DEF Barred
  <2> QED  BY <2>1, <2>3, <2>5, <2>7, <2>8, <2>9
<1>8. CASE m.kind = "rec"
  <2>1. batch' = batch /\ target' = WindowStart(m.vis) /\ m.vis \in Nat
    BY <1>3, <1>4, <1>6, <1>8 DEF BoundaryTarget
  <2>2. PICK u \in Nat : u = WindowStart(m.vis) /\ target' = u /\ Aligned(u) /\ u <= m.vis
    BY <2>1, WindowBounds
  <2>3. Moved /\ Waiting' = Waiting  BY <2>1 DEF Moved, Waiting
  <2>4. back = 0 => m.vis <= now /\ (pending # NoRec => m.vis <= pending.vis)
    BY <1>4, <1>8 DEF Earlier
  <2>5. back = 0 => RecAbove(u)'
    <3>1. ASSUME back = 0, NEW x \in Waiting, x.kind = "rec" PROVE x.vis >= u
      <4>1. x \in Elems(batch) \/ x \in Elems(queue)  BY <1>4, ElemsEmpty DEF Waiting
      <4>2. x = m \/ Before(back, m, x)
        <5>1. CASE x \in Elems(batch)
          <6>1. PICK k \in DOMAIN batch : x = batch[k]  BY <5>1 DEF Elems
          <6> QED  BY <1>3, <1>4, <6>1
        <5> QED  BY <1>4, <4>1, <5>1
      <4>3. x.vis >= m.vis  BY <1>6, <1>8, <2>1, <3>1, <4>2 DEF Before
      <4> QED  BY <1>6, <2>1, <2>2, <3>1, <4>3
    <3>2. back = 0 => now >= u /\ (pending # NoRec => pending.vis >= u)
      BY <1>6, <2>1, <2>2, <2>4
    <3> QED  BY <2>3, <3>1, <3>2 DEF RecAbove
  <2>6. CurFile \in File /\ CurFile = files[Len(files)] /\ Len(files) \in DOMAIN files
    BY <1>1, CurFacts
  <2>7. CurFile.start <= u
    <3>1. ~(m.kind = "rec" /\ m.vis < SegEnd(CurFile))
      <4>1. 0 < Len(batch) /\ FlushLen + 1 = 1  BY <1>1, <1>2
      <4> QED  BY <1>1, <1>3, <4>1, FlushFacts DEF CurFile
    <3>2. PICK s \in Nat : s = CurFile.start  BY <2>6, FileFacts
    <3>3. s <= m.vis  BY <1>8, <2>1, <3>1, <3>2, PeriodFacts DEF SegEnd
    <3>4. Aligned(s)  BY <2>6, <3>2 DEF OInv, TapeInv, Tape, Placed
    <3> QED  BY <2>1, <2>2, <3>2, <3>3, <3>4, WindowFloor
  <2>8. ASSUME back = 0, NEW i \in DOMAIN files PROVE Behind(files[i].start, u)
    <3>1. CASE i = Len(files)  BY <2>6, <2>7, <3>1 DEF Behind
    <3>2. CASE i # Len(files)
      <4>1. i \in Old
        <5>1. PICK p \in Nat : p = Len(files) /\ DOMAIN files = 1..p  BY <1>1, TypeFacts
        <5>2. i \in 1..(p - 1)  BY <3>2, <5>1
        <5> QED  BY <5>1, <5>2 DEF Old, Older
      <4>2. Behind(files[i].start, CurFile.start)  BY <2>8, <4>1 DEF OInv, LinkInv, BarInv
      <4>3. CurFile.start \in Nat /\ files[i].start \in Nat  BY <1>6, <2>6
      <4> QED  BY <2>7, <4>2, <4>3 DEF Behind
    <3> QED  BY <3>1, <3>2
  <2>9. back = 0 => Barred(u)' /\ u <= now  BY <1>6, <2>1, <2>2, <2>4, <2>5 DEF Barred
  <2> QED  BY <2>1, <2>2, <2>3, <2>8, <2>9
<1> QED  BY <1>5, <1>7, <1>8

LEMMA SealStartOrder ==
    ASSUME IInv, IInv', OInv, SealStart
    PROVE  OInv'
<1>1. /\ wpc = "consume" /\ (AtBoundary \/ (batch = <<>> /\ phase = "closing"))
      /\ target' = (IF AtBoundary THEN BoundaryTarget ELSE NoTarget)
      /\ batch' = (IF AtBoundary /\ Head(batch).kind = "rotate" THEN Tail(batch) ELSE batch)
      /\ cur' = [cur EXCEPT !.handle = FALSE]
      /\ UNCHANGED <<now, back, next, pending, queue, timer, phase, unwritten, fatal, prevVis>>
  BY DEF SealStart, threadVars
<1>2. /\ TypeOK /\ TypeOK' /\ Live /\ Live' /\ files # <<>> /\ unwritten = <<>>
  BY <1>1, LiveFacts DEF IInv, Live, ThreadInv
<1>3. ~cur'.handle
  <2>1. FALSE \in BOOLEAN  OBVIOUS
  <2> QED  BY <1>1, <1>2, <2>1, CurColumns
<1>4. /\ Grown(files') /\ Flagged(files') /\ CurFile'.data = CurFile.data
      /\ wpc' = "rename" => CurFile'.synced = Len(CurFile'.data)
  <2>1. CASE cur.handle /\ SetCurFile(Fsynced(CurFile))  BY <1>2, <2>1, FsyncTouch
  <2>2. CASE UNCHANGED files /\ wpc' \in {"finish", "reseal"}  BY <1>2, <2>2, SameTouch
  <2>3. \/ cur.handle /\ SetCurFile(Fsynced(CurFile))
        \/ UNCHANGED files /\ wpc' \in {"finish", "reseal"}
    BY Zenon DEF SealStart
  <2> QED  BY <2>1, <2>2, <2>3
<1>5. HandleInv'  BY <1>3, <1>4 DEF HandleInv
<1>6. Counting' => Counting  BY <1>1 DEF Counting
<1>7. \A m \in Elems(unwritten') : Fits(m)  BY <1>1, <1>2, ElemsEmpty
<1>8. CASE AtBoundary
  <2>1. /\ target' = BoundaryTarget
        /\ batch' = (IF Head(batch).kind = "rotate" THEN Tail(batch) ELSE batch)
    BY <1>1, <1>8
  <2>2. /\ Moved
        /\ \A k \in DOMAIN batch' : \E i \in DOMAIN batch : batch'[k] = batch[i]
        /\ \E u \in Nat :
             /\ target' = u /\ Aligned(u)
             /\ back = 0 => /\ u <= now /\ Barred(u)'
                            /\ \A i \in DOMAIN files : Behind(files[i].start, u)
    BY <1>1, <1>2, <1>8, <2>1, BoundaryFacts
  <2>3. Fixed  BY <1>2, <1>4, GrownLast
  <2>4. Waiting' \subseteq Waiting  BY <1>1, <1>2, <2>2, MovedStream DEF OInv
  <2>5. Flow  BY <1>1, <1>2, <1>6, <2>4, FlowOfMoved
  <2>6. TargetInv'  BY <1>2, <2>2, <2>3, <2>5, TargetFrom
  <2>7. ~Fits(batch[1])
    <3>1. batch \in Seq(Message) /\ batch # <<>> /\ FlushLen = 0  BY <1>2, <1>8, TypeFacts DEF AtBoundary
    <3>2. FlushLen < Len(batch) /\ FlushLen + 1 = 1  BY <3>1
    <3> QED  BY <3>1, <3>2, FlushFacts DEF Fits, CurFile
  <2>8. \A i \in DOMAIN batch : batch[i].kind = "rec" => Tops(CurFile.data, batch[i].idx)
    <3>1. ASSUME NEW i \in DOMAIN batch, batch[i].kind = "rec" PROVE Tops(CurFile.data, batch[i].idx)
      <4>1. 1 \in 1..i
        <5>1. batch \in Seq(Message)  BY <1>2, TypeFacts
        <5> QED  BY <5>1
      <4> QED  BY <1>2, <2>7, <3>1, <4>1 DEF OInv, LinkInv, AboveInv
    <3> QED  BY <3>1
  <2>9. \A k \in DOMAIN batch' : batch'[k].kind = "rec" => Tops(CurFile'.data, batch'[k].idx)
    BY <1>4, <2>2, <2>8
  <2> QED  BY <1>1, <1>2, <1>4, <1>5, <1>6, <1>7, <2>2, <2>6, <2>9, WriterOrder
<1>9. CASE ~AtBoundary
  <2>1. batch = <<>> /\ batch' = batch /\ target' = NoTarget  BY <1>1, <1>9
  <2>2. Moved  BY <1>1, <2>1 DEF Moved
  <2>3. DOMAIN batch' = {}  BY <2>1
  <2>4. TargetInv'  BY <2>1 DEF TargetInv
  <2> QED  BY <1>1, <1>2, <1>4, <1>5, <1>6, <1>7, <2>2, <2>3, <2>4, WriterOrder
<1> QED  BY <1>8, <1>9

-----------------------------------------------------------------------------
(* Time                                                                    *)

\* The tape after time passed, or after the clock was stepped back.
LEMMA ClockTape ==
    ASSUME NEW fs, NEW z, NEW t \in Nat, NEW y, NEW u \in Nat, Tape(fs, z, t),
           \A i \in DOMAIN fs : fs[i].start \in Nat, y = 0 => z = 0 /\ t <= u
    PROVE  Tape(fs, y, u)
<1>1. Placed(fs, y, u)  BY DEF Tape, Placed
<1>2. Wrote(fs, y)  BY DEF Tape, Wrote
<1> QED  BY <1>1, <1>2 DEF Tape

LEMMA ClockOrder ==
    ASSUME IInv, IInv', OInv, Tick \/ ClockBack \/ UNCHANGED vars
    PROVE  OInv'
<1>1. /\ UNCHANGED <<phase, next, pending, queue, timer, wpc, batch, target, unwritten, fatal, cur,
                     prevVis, files>>
      /\ back' = 0 => back = 0 /\ now <= now'
  <2>1. now \in Nat /\ back \in Nat  BY WaitingTypes DEF IInv
  <2>2. CASE Tick  BY <2>1, <2>2 DEF Tick, procVars, memVars
  <2>3. CASE ClockBack  BY <2>1, <2>3 DEF ClockBack, procVars, memVars
  <2>4. CASE UNCHANGED vars  BY <2>1, <2>4 DEF vars
  <2> QED  BY <2>2, <2>3, <2>4
<1>2. TypeOK /\ TypeOK' /\ now \in Nat /\ now' \in Nat  BY BoundsAssumption DEF IInv, TypeOK, BoundsAssumption
<1>3. Live' = Live /\ Waiting' = Waiting /\ Old' = Old /\ CurFile' = CurFile /\ Counting' = Counting
  BY <1>1 DEF Live, Waiting, Old, Older, CurFile, Counting
<1>4. \A i \in DOMAIN files : files[i].start \in Nat
  <2>1. \A i \in DOMAIN files : files[i] \in File  BY <1>2, TypeFacts DEF Sound
  <2> QED  BY <2>1, FileFacts
<1>5. TapeInv'
  <2>0. PICK fs, z, y : fs = files /\ z = back /\ y = back'  OBVIOUS
  <2>1. PICK t \in Nat, u \in Nat : t = now /\ u = now' /\ fs = files /\ z = back /\ y = back'
    BY <1>2, <2>0
  <2>2. Tape(fs, z, t)  BY <2>1 DEF OInv, TapeInv
  <2>3. Tape(fs, y, u)  BY <1>1, <1>4, <2>1, <2>2, ClockTape
  <2> QED  BY <1>1, <2>1, <2>3 DEF TapeInv
<1>6. StreamInv'
  <2>1. PICK z, y : z = back /\ y = back'  OBVIOUS
  <2>2. /\ \A s : InOrder(z, s) => InOrder(y, s)
        /\ \A X, Y : Prior(z, X, Y) => Prior(y, X, Y)
    BY <1>1, <2>1, LaterOrder
  <2> QED  BY <1>1, <1>3, <2>1, <2>2 DEF OInv, StreamInv
<1>7. ComingInv'
  <2>1. \A m \in Waiting : Earlier(m) => Earlier(m)'
    <3>1. ASSUME NEW m \in Waiting, Earlier(m) PROVE Earlier(m)'
      <4>1. /\ m.kind = "rec" => m.vis \in Nat
            /\ m.kind = "rotate" => m.start \in Nat
        BY <1>2, WaitingTypes
      <4> QED  BY <1>1, <1>2, <1>3, <3>1, <4>1 DEF Earlier
    <3> QED  BY <3>1
  <2>2. pending # NoRec => pending.vis \in Nat  BY <1>2, WaitingTypes
  <2> QED  BY <1>1, <1>2, <1>3, <2>1, <2>2 DEF OInv, ComingInv
<1>8. AboveInv' /\ PrevInv' /\ HandleInv'
  <2>1. \A m : Fits(m)' = Fits(m)  BY <1>1, <1>3 DEF Fits
  <2>2. AboveInv'  BY <1>1, <1>3, <2>1 DEF OInv, LinkInv, AboveInv, Fits
  <2>3. PrevInv' /\ HandleInv'  BY <1>1, <1>3 DEF OInv, LinkInv, PrevInv, HandleInv
  <2> QED  BY <2>2, <2>3
<1>9. ASSUME back' = 0, NEW t \in Nat
      PROVE  (RecAbove(t) => RecAbove(t)') /\ (RotAbove(t) => RotAbove(t)')
  BY <1>1, <1>2, <1>3, <1>9 DEF RecAbove, RotAbove
<1>10. BarInv'
  <2> SUFFICES ASSUME Live, back' = 0
               PROVE  /\ \A i \in DOMAIN files : Barred(files[i].start)'
                      /\ \A i \in Old : files[i].start <= CurFile.start \/ RecAbove(files[i].start)'
    BY <1>1, <1>3 DEF BarInv, Behind
  <2>1. ASSUME NEW i \in DOMAIN files PROVE Barred(files[i].start)'
    <3>1. PICK t \in Nat : t = files[i].start /\ t = files'[i].start  BY <1>1, <1>4
    <3>2. Barred(t)  BY <1>1, <3>1 DEF OInv, LinkInv, BarInv
    <3>3. Barred(t)'  BY <1>9, <3>2 DEF Barred
    <3> QED  BY <3>1, <3>3 DEF Barred, RecAbove, RotAbove
  <2>2. ASSUME NEW i \in Old PROVE files[i].start <= CurFile.start \/ RecAbove(files[i].start)'
    <3>1. PICK t \in Nat : t = files[i].start /\ t = files'[i].start  BY <1>1, <1>2, <1>4, OldFacts
    <3>2. Behind(t, CurFile.start)  BY <1>1, <3>1 DEF OInv, LinkInv, BarInv
    <3>3. t <= CurFile.start \/ RecAbove(t)'  BY <1>9, <3>2 DEF Behind
    <3> QED  BY <3>1, <3>3 DEF RecAbove
  <2> QED  BY <2>1, <2>2
<1>11. TargetInv'
  <2> SUFFICES ASSUME Live, wpc \in Sealing, target # NoTarget
               PROVE  /\ Aligned(target')
                      /\ back' = 0 => /\ target' <= now' /\ Barred(target)'
                                      /\ \A i \in DOMAIN files : Behind(files[i].start, target)'
    BY <1>1, <1>3 DEF TargetInv, Barred, RecAbove, RotAbove, Behind
  <2>1. PICK u \in Nat : u = target /\ u = target'  BY <1>1, <1>2 DEF TypeOK
  <2>2. /\ Aligned(u)
        /\ back = 0 => u <= now /\ Barred(u) /\ \A i \in DOMAIN files : Behind(files[i].start, u)
    BY <2>1 DEF OInv, LinkInv, TargetInv
  <2>3. back' = 0 => u <= now' /\ Barred(u)'  BY <1>1, <1>2, <1>9, <2>2 DEF Barred
  <2>4. ASSUME back' = 0, NEW i \in DOMAIN files PROVE (files[i].start <= u \/ RecAbove(files[i].start))'
    <3>1. PICK t \in Nat : t = files[i].start /\ t = files'[i].start  BY <1>1, <1>4
    <3>2. Behind(t, u)  BY <1>1, <2>2, <2>4, <3>1
    <3>3. t <= u \/ RecAbove(t)'  BY <1>9, <2>4, <3>2 DEF Behind
    <3> QED  BY <3>1, <3>3 DEF RecAbove
  <2> QED  BY <2>1, <2>2, <2>3, <2>4 DEF Barred, RecAbove, RotAbove, Behind
<1> QED  BY <1>5, <1>6, <1>7, <1>8, <1>10, <1>11 DEF OInv, LinkInv

-----------------------------------------------------------------------------
(* A new segment                                                           *)

\* _rotate_to opens the next segment behind the one that was sealed.
LEMMA RotateOrder ==
    ASSUME IInv, IInv', OInv, Live, Live', wpc = "finish", target # NoTarget, wpc' = "consume",
           files' = Append(DirSynced(files), NewFile(DirSynced(files), target)),
           prevVis' = CarriedVisible,
           UNCHANGED <<now, back, next, pending, queue, timer, batch, unwritten, fatal>>
    PROVE  OInv'
<1>1. /\ TypeOK /\ TypeOK' /\ files # <<>> /\ ~cur.poisoned /\ cur.committed = Len(CurFile.data)
      /\ IsSealed(CurFile) /\ Named(files) /\ unwritten = <<>>
  BY LiveFacts DEF IInv, WriterInv, ThreadInv, Sealing, OInv, TapeInv, Tape
<1>2. PICK n \in Nat : n = Len(files) /\ DOMAIN files = 1..n /\ n \in 1..n /\ CurFile = files[n]
  BY <1>1, TypeFacts, CurFacts
<1>3. PICK st \in Nat : st = target  BY <1>1 DEF TypeOK
<1>4. /\ Aligned(st)
      /\ back = 0 => st <= now /\ Barred(st) /\ \A i \in DOMAIN files : Behind(files[i].start, st)
  BY <1>3 DEF OInv, LinkInv, TargetInv, Sealing
<1>5. PICK fs : fs = DirSynced(files)  OBVIOUS
<1>6. /\ Grown(fs) /\ fs \in Seq(File)
      /\ \A i \in DOMAIN files :
           /\ fs[i].seal = files[i].seal /\ fs[i].data = files[i].data
           /\ fs[i].start = files[i].start /\ (IsSealed(files[i]) => fs[i].sealed)
  BY <1>1, <1>5, DirGrown
<1>7. Tape(fs, back, now)
  <2>1. Flagged(fs)  BY <1>6, GrownFlags
  <2> QED  BY <1>6, <2>1, GrownTape
<1>8. DOMAIN fs = 1..n /\ Len(fs) = n  BY <1>2, <1>6 DEF Grown
<1>9. PICK gs : gs = Append(fs, NewFile(fs, st)) /\ gs = files'  BY <1>3, <1>5
<1>10. /\ Tape(gs, back, now) /\ Len(gs) = n + 1 /\ DOMAIN gs = 1..(n + 1)
       /\ \A i \in 1..n : gs[i] = fs[i]
       /\ gs[n + 1].start = st /\ gs[n + 1].data = <<>> /\ gs[n + 1].name = "open"
  <2>1. Settled(fs[n])  BY <1>1, <1>2, <1>6 DEF IsSealed, Settled
  <2>2. PICK z \in Nat : z = back  BY <1>1, BoundsAssumption DEF TypeOK, BoundsAssumption
  <2>3. PICK t \in Nat : t = now  BY <1>1, BoundsAssumption DEF TypeOK, BoundsAssumption
  <2>4. Tape(fs, z, t) /\ Aligned(st) /\ (z = 0 => st <= t)  BY <1>4, <1>7, <2>2, <2>3
  <2>5. AddsNew(gs, fs, st) /\ n = Len(fs)  BY <1>6, <1>8, <1>9 DEF AddsNew
  <2>6. Tape(gs, z, t) /\ Opened(gs, fs, n, st)  BY <2>1, <2>4, <2>5, NewTape
  <2> QED  BY <2>2, <2>3, <2>6 DEF Opened
<1>11. /\ \A i \in 1..n : gs[i].data = files[i].data /\ gs[i].start = files[i].start
       /\ CurFile' = gs[n + 1] /\ Old' = 1..n
  <2>1. \A i \in 1..n : gs[i].data = files[i].data /\ gs[i].start = files[i].start
    BY <1>2, <1>6, <1>10
  <2>2. CurFile' = gs[n + 1]  BY <1>9, <1>10 DEF CurFile, Last
  <2>3. Old' = 1..((n + 1) - 1)  BY <1>9, <1>10 DEF Old, Older
  <2> QED  BY <2>1, <2>2, <2>3
<1>12. StreamInv' /\ Waiting' = Waiting
  <2>1. Moved  BY DEF Moved
  <2> QED  BY <1>1, <2>1, MovedStream DEF OInv, Waiting
<1>13. Counting' = Counting  BY DEF Counting
<1>14. ComingInv'  BY <1>12, <1>13, MovedComing DEF OInv
<1>15. TapeInv'  BY <1>9, <1>10 DEF TapeInv
<1>16. AboveInv'
  <2>1. ASSUME NEW m \in Waiting, m.kind = "rec", NEW i \in 1..n PROVE Tops(files[i].data, m.idx)
    <3>1. CASE i = n
      <4>1. m \in Elems(batch) \/ m \in Elems(queue)  BY <1>1, ElemsEmpty DEF Waiting
      <4>2. CASE m \in Elems(batch)
        <5>1. PICK k \in DOMAIN batch : m = batch[k]  BY <4>2 DEF Elems
        <5> QED  BY <1>2, <2>1, <3>1, <5>1 DEF OInv, LinkInv, AboveInv
      <4>3. CASE m \in Elems(queue)  BY <1>2, <2>1, <3>1, <4>3 DEF OInv, LinkInv, AboveInv
      <4> QED  BY <4>1, <4>2, <4>3
    <3>2. CASE i # n
      <4>1. i \in 1..(n - 1)  BY <3>2
      <4>2. i \in Old  BY <1>2, <4>1 DEF Old, Older
      <4> QED  BY <2>1, <4>2 DEF OInv, LinkInv, AboveInv
    <3> QED  BY <3>1, <3>2
  <2>2. \A x : Tops(gs[n + 1].data, x)  BY <1>10 DEF Tops
  <2>3. Counting => \A i \in 1..n : Tops(files[i].data, next)  BY <1>2 DEF OInv, LinkInv, AboveInv
  <2>4. \A i \in 1..(n + 1) : i \in 1..n \/ i = n + 1  OBVIOUS
  <2>5. Counting' => \A i \in DOMAIN files' : Tops(files'[i].data, next)
    BY <1>9, <1>10, <1>11, <1>13, <2>2, <2>3, <2>4
  <2>6. \A i \in Old', m \in Waiting' : m.kind = "rec" => Tops(files'[i].data, m.idx)
    BY <1>9, <1>11, <1>12, <2>1
  <2>7. Elems(unwritten)' = {}  BY <1>1, ElemsEmpty
  <2>8. \A x : Tops(CurFile.data, x)'  BY <1>11, <2>2
  <2> QED  BY <2>5, <2>6, <2>7, <2>8 DEF AboveInv
<1>17. PrevInv'
  <2> SUFFICES ASSUME NEW i \in 1..n, gs[i].data # <<>>, \A k \in (i + 1)..n : gs[k].data = <<>>
               PROVE  prevVis' = Last(gs[i].data).vis
    <3>1. Len(files') - 1 = n  BY <1>9, <1>10
    <3> QED  BY <1>9, <1>11, <3>1 DEF PrevInv
  <2>1. files[i].data # <<>> /\ gs[i].data = files[i].data  BY <1>11
  <2>2. CASE i = n
    <3>1. Len(CurFile.data) # 0
      <4>1. CurFile.data \in Seq(Record)  BY <1>1, CurFacts, FileFacts
      <4> QED  BY <1>2, <2>1, <2>2, <4>1
    <3> QED  BY <1>1, <1>2, <2>1, <2>2, <3>1 DEF CarriedVisible, Last
  <2>3. CASE i # n
    <3>1. n \in (i + 1)..n /\ i \in 1..(n - 1)  BY <2>3
    <3>2. files[n].data = <<>>  BY <1>2, <1>11, <3>1
    <3>3. prevVis' = prevVis  BY <1>1, <1>2, <3>2 DEF CarriedVisible
    <3>4. \A k \in (i + 1)..(n - 1) : k \in (i + 1)..n /\ k \in 1..n  OBVIOUS
    <3>5. \A k \in (i + 1)..(n - 1) : files[k].data = <<>>  BY <1>11, <3>4
    <3>6. prevVis = Last(files[i].data).vis
      BY <1>2, <2>1, <3>1, <3>5 DEF OInv, LinkInv, PrevInv, Old, Older
    <3> QED  BY <2>1, <3>3, <3>6
  <2> QED  BY <2>2, <2>3
<1>18. BarInv'
  <2> SUFFICES ASSUME back = 0
               PROVE  /\ \A i \in DOMAIN files' : Barred(files[i].start)'
                      /\ \A i \in Old' : files'[i].start <= CurFile'.start \/ RecAbove(files[i].start)'
    BY DEF BarInv, Behind
  <2>0. ASSUME NEW t PROVE (RecAbove(t) => RecAbove(t)') /\ (RotAbove(t) => RotAbove(t)')
    BY <1>12 DEF RecAbove, RotAbove
  <2>1. ASSUME NEW i \in DOMAIN files' PROVE Barred(files[i].start)'
    <3>1. PICK t : t = files'[i].start /\ t = gs[i].start  BY <1>9
    <3>2. Barred(t)
      <4>1. CASE i \in 1..n  BY <1>2, <1>11, <3>1, <4>1 DEF OInv, LinkInv, BarInv
      <4>2. CASE i = n + 1  BY <1>4, <1>10, <3>1, <4>2
      <4> QED  BY <1>9, <1>10, <4>1, <4>2
    <3>3. Barred(t)'  BY <2>0, <3>2 DEF Barred
    <3> QED  BY <3>1, <3>3 DEF Barred, RecAbove, RotAbove
  <2>2. ASSUME NEW i \in Old' PROVE files'[i].start <= CurFile'.start \/ RecAbove(files[i].start)'
    <3>1. PICK t : t = files'[i].start /\ t = gs[i].start  BY <1>9
    <3>2. i \in 1..n /\ t = files[i].start /\ CurFile'.start = st  BY <1>10, <1>11, <3>1
    <3>3. Behind(t, st)  BY <1>2, <1>4, <3>2
    <3>4. t <= st \/ RecAbove(t)'  BY <2>0, <3>3 DEF Behind
    <3> QED  BY <3>1, <3>2, <3>4 DEF RecAbove
  <2> QED  BY <2>1, <2>2
<1>19. TargetInv'  BY DEF TargetInv, Sealing
<1>20. HandleInv'  BY <1>10, <1>11 DEF HandleInv
<1> QED  BY <1>12, <1>14, <1>15, <1>16, <1>17, <1>18, <1>19, <1>20 DEF OInv, LinkInv

LEMMA SealFinishOrder ==
    ASSUME IInv, IInv', OInv, SealFinish
    PROVE  OInv'
<1>1. wpc = "finish" /\ phase # "recovering" /\ UNCHANGED <<now, back>>  BY DEF SealFinish
<1>2. Live /\ TypeOK /\ ~cur.handle /\ Named(files)
  BY <1>1, LiveFacts DEF IInv, WriterInv, Sealing, OInv, TapeInv, Tape
<1>3. ASSUME files' = DirSynced(files) PROVE Grown(files') /\ Flagged(files')
  <2>1. PICK fs : fs = files' /\ fs = DirSynced(files)  BY <1>3
  <2>2. Grown(fs) /\ \A i \in DOMAIN files : fs[i].seal = files[i].seal  BY <1>2, <2>1, DirGrown
  <2>3. Flagged(fs)  BY <2>2, GrownFlags
  <2> QED  BY <2>1, <2>2, <2>3
<1>4. CASE files' = DirSynced(files) /\ phase' = "closed"
  <2>1. ~Live'  BY <1>4 DEF Live
  <2> QED  BY <1>1, <1>3, <1>4, <2>1, QuietOrder
<1>5. CASE /\ target # NoTarget
           /\ files' = Append(DirSynced(files), NewFile(DirSynced(files), target))
           /\ wpc' = "consume" /\ prevVis' = CarriedVisible
           /\ UNCHANGED <<phase, next, pending, queue, timer, batch, unwritten, fatal>>
  <2>1. Live'  BY <1>2, <1>5 DEF Live
  <2> QED  BY <1>1, <1>2, <1>5, <2>1, RotateOrder
<1>6. CASE /\ files' = DirSynced(files) /\ Raise(<<>>)
           /\ phase # "closing" => cur' = [cur EXCEPT !.done = TRUE]
  <2>1. PICK b \in BOOLEAN : b = TRUE  OBVIOUS
  <2>2. phase # "closing" => ~cur'.handle
    <3> SUFFICES ASSUME phase # "closing" PROVE cur'.handle = cur.handle
      BY <1>2
    <3>1. cur' = [cur EXCEPT !.done = b]  BY <1>6, <2>1
    <3> QED  BY <1>2, <3>1, CurColumns, Zenon
  <2>3. <<>> \in Seq(Record)  OBVIOUS
  <2> QED  BY <1>1, <1>2, <1>3, <1>6, <2>2, <2>3, RaiseOrder
<1> QED  BY <1>4, <1>5, <1>6, Zenon DEF SealFinish

\* What a restarted splice resumes from: the last index filed, and the receive
\* time the last segment with records ends on.
AllBelow(n)  == \A i \in DOMAIN files : Tops(files[i].data, n)
AllEndOn(v)  == \A i \in DOMAIN files :
                  files[i].data # <<>> /\ (\A k \in DOMAIN files : k > i => files[k].data = <<>>)
                      => v = Last(files[i].data).vis

LEMMA ResumesAbove ==
    ASSUME TypeOK, TapeInv, \A i \in DOMAIN files : IsSealed(files[i])
    PROVE  AllBelow(ResumeIndex) /\ AllEndOn(ResumeVisible)
<1>0. /\ \A i \in DOMAIN files : files[i] \in File
      /\ \A i \in DOMAIN files : i \in Int
      /\ RisingFiles(files)
  BY TypeFacts DEF Sound, TapeInv, Tape
<1>1. \A i \in DOMAIN files : files[i].data # <<>> => i \in Counted  BY DEF Counted
<1>2. CASE Counted = {}  BY <1>1, <1>2 DEF Tops, AllBelow, AllEndOn
<1>3. CASE Counted # {}
  <2>1. PICK b : b = BestOf(Counted)  OBVIOUS
  <2>2. /\ b \in DOMAIN files /\ files[b].data # <<>>
        /\ \A j \in Counted : Last(files[b].data).idx >= Last(files[j].data).idx
    BY <1>3, <2>1, BestFacts DEF Counted
  <2>3. ResumeIndex = Last(files[b].data).idx + 1 /\ ResumeVisible = Last(files[b].data).vis
    BY <1>3, <2>1 DEF ResumeIndex, ResumeVisible
  <2>4. \A i \in DOMAIN files : files[i].data # <<>> => Last(files[i].data).idx \in Nat
    BY <1>0, LastRow
  <2>5. ASSUME NEW i \in DOMAIN files PROVE Tops(files[i].data, ResumeIndex)
    <3> SUFFICES ASSUME files[i].data # <<>> PROVE Last(files[i].data).idx < ResumeIndex  BY DEF Tops
    <3>1. Last(files[b].data).idx >= Last(files[i].data).idx  BY <1>1, <2>2
    <3> QED  BY <2>2, <2>3, <2>4, <3>1
  <2>6. ASSUME NEW i \in DOMAIN files, files[i].data # <<>>,
               \A k \in DOMAIN files : k > i => files[k].data = <<>>
        PROVE  b = i
    <3>1. ~(b > i)  BY <2>2, <2>6
    <3>2. ASSUME b < i PROVE FALSE
      <4>1. Len(files[i].data) \in DOMAIN files[i].data /\ Last(files[i].data) = files[i].data[Len(files[i].data)]
        BY <1>0, <2>6, LastRow
      <4>2. Tops(files[b].data, Last(files[i].data).idx)
        BY <1>0, <2>2, <2>6, <3>2, <4>1 DEF RisingFiles
      <4>3. Last(files[b].data).idx < Last(files[i].data).idx  BY <2>2, <4>2 DEF Tops
      <4>4. Last(files[b].data).idx >= Last(files[i].data).idx  BY <1>1, <2>2, <2>6
      <4> QED  BY <2>2, <2>4, <2>6, <4>3, <4>4
    <3> QED  BY <1>0, <2>2, <2>6, <3>1, <3>2
  <2> QED  BY <2>3, <2>5, <2>6 DEF AllBelow, AllEndOn
<1> QED  BY <1>2, <1>3

\* Spool.start opens the segment of the current window behind sealed ones.
LEMMA StartOrder ==
    ASSUME IInv, IInv', OInv, Start
    PROVE  OInv'
<1>1. /\ phase = "recovering" /\ wpc = "idle" /\ Orphans = {} /\ phase' = "running"
      /\ next' = ResumeIndex /\ prevVis' = ResumeVisible
      /\ files' = Append(files, NewFile(files, WindowStart(now))) /\ timer' = ArmedTimer(now, now + back)
      /\ UNCHANGED <<now, back, pending, queue, wpc, batch, target, unwritten, fatal>>
  BY Zenon DEF Start
<1>2. /\ TypeOK /\ TypeOK' /\ TapeInv /\ Named(files)
      /\ batch = <<>> /\ queue = <<>> /\ pending = NoRec /\ unwritten = <<>> /\ wpc' = "idle"
      /\ batch' = <<>> /\ queue' = <<>> /\ pending' = NoRec /\ unwritten' = <<>>
  BY <1>1 DEF IInv, ThreadInv, Live, OInv, TapeInv, Tape
<1>3. \A i \in DOMAIN files : IsSealed(files[i]) /\ files[i].name = "ndjson" /\ Settled(files[i])
  <2> SUFFICES ASSUME NEW i \in DOMAIN files PROVE IsSealed(files[i]) /\ files[i].name = "ndjson" /\ Settled(files[i])
    OBVIOUS
  <2>1. IsSealed(files[i]) /\ files[i].name # "open"  BY <1>1 DEF Orphans
  <2>2. files[i].name = "ndjson"
    <3>1. files[i] \in File  BY <1>2, TypeFacts DEF Sound
    <3> QED  BY <2>1, <3>1, FileFacts
  <2>3. files[i].synced = Len(files[i].data)  BY <1>2, <2>2 DEF Named
  <2> QED  BY <2>1, <2>2, <2>3 DEF Settled
<1>4. PICK z \in Nat : z = back /\ z = back'  BY <1>1, <1>2, BoundsAssumption DEF TypeOK, BoundsAssumption
<1>5. PICK t \in Nat : t = now /\ t = now'  BY <1>1, <1>2, BoundsAssumption DEF TypeOK, BoundsAssumption
<1>6. PICK n \in Nat : n = Len(files) /\ DOMAIN files = 1..n  BY <1>2, TypeFacts
<1>7. PICK st \in Nat : st = WindowStart(t) /\ Aligned(st) /\ st <= t  BY WindowBounds
<1>8. PICK gs : gs = files' /\ gs = Append(files, NewFile(files, st))  BY <1>1, <1>5, <1>7
<1>9. Tape(gs, z, t) /\ Opened(gs, files, n, st)
  <2>1. Tape(files, z, t)  BY <1>2, <1>4, <1>5 DEF TapeInv
  <2>2. AddsNew(gs, files, st)  BY <1>2, <1>8, TypeFacts DEF AddsNew
  <2>3. n # 0 => Settled(files[n])
    <3>1. n # 0 => n \in 1..n  OBVIOUS
    <3> QED  BY <1>3, <1>6, <3>1
  <2> QED  BY <1>6, <1>7, <2>1, <2>2, <2>3, NewTape
<1>10. /\ Len(gs) = n + 1 /\ DOMAIN gs = 1..(n + 1) /\ \A i \in 1..n : gs[i] = files[i]
       /\ gs[n + 1].start = st /\ gs[n + 1].data = <<>> /\ gs[n + 1].name = "open"
  BY <1>9 DEF Opened
<1>11. CurFile' = gs[n + 1] /\ Old' = 1..n
  <2>1. CurFile' = gs[n + 1]  BY <1>8, <1>10 DEF CurFile, Last
  <2>2. Old' = 1..((n + 1) - 1)  BY <1>8, <1>10 DEF Old, Older
  <2> QED  BY <2>1, <2>2
<1>12. Elems(<<>>) = {} /\ Waiting' = {}  BY <1>2, ElemsEmpty DEF Waiting
<1>13. StreamInv'  BY <1>2, <1>12, EmptyOrder DEF StreamInv
<1>14. ComingInv'
  <2>1. /\ timer'.start \in Nat /\ Aligned(timer'.start) /\ t < timer'.start
        /\ z = 0 => timer'.due = timer'.start
    BY <1>1, <1>4, <1>5, ArmedOrder
  <2> QED  BY <1>2, <1>4, <1>12, <2>1 DEF ComingInv
<1>15. TapeInv'  BY <1>4, <1>5, <1>8, <1>9 DEF TapeInv
<1>16. AllBelow(next') /\ AllEndOn(prevVis')
  <2>1. AllBelow(ResumeIndex) /\ AllEndOn(ResumeVisible)  BY <1>2, <1>3, ResumesAbove
  <2>2. PICK r : r = ResumeIndex /\ r = next'  BY <1>1
  <2>3. PICK v : v = ResumeVisible /\ v = prevVis'  BY <1>1
  <2>4. AllBelow(r) /\ AllEndOn(v)  BY <2>1, <2>2, <2>3
  <2> QED  BY <2>2, <2>3, <2>4 DEF AllBelow, AllEndOn
<1>17. AboveInv'
  <2>1. \A i \in 1..(n + 1) : i \in 1..n \/ i = n + 1  OBVIOUS
  <2>2. \A i \in DOMAIN files' : Tops(files'[i].data, next')
    <3>1. \A i \in 1..n : Tops(gs[i].data, next')  BY <1>6, <1>10, <1>16 DEF AllBelow
    <3>2. Tops(gs[n + 1].data, next')  BY <1>10 DEF Tops
    <3> QED  BY <1>8, <1>10, <2>1, <3>1, <3>2
  <2>3. DOMAIN batch' = {} /\ Elems(queue') = {} /\ Elems(unwritten') = {}  BY <1>2, <1>12
  <2> QED  BY <1>12, <2>2, <2>3 DEF AboveInv
<1>18. PrevInv'
  <2> SUFFICES ASSUME NEW i \in 1..n, gs[i].data # <<>>, \A k \in (i + 1)..n : gs[k].data = <<>>
               PROVE  prevVis' = Last(gs[i].data).vis
    <3>1. Len(files') - 1 = n  BY <1>8, <1>10
    <3> QED  BY <1>8, <1>11, <3>1 DEF PrevInv
  <2>1. \A k \in 1..n : k > i => k \in (i + 1)..n  OBVIOUS
  <2>2. \A k \in DOMAIN files : k > i => files[k].data = <<>>  BY <1>6, <1>10, <2>1
  <2> QED  BY <1>6, <1>10, <1>16, <2>2 DEF AllEndOn
<1>19. BarInv'
  <2> SUFFICES ASSUME z = 0 PROVE \A i \in DOMAIN files' : RecAbove(files[i].start)'
    <3>1. \A i \in Old' : i \in DOMAIN files'  BY <1>8, <1>10, <1>11
    <3> QED  BY <1>4, <3>1 DEF BarInv, Barred, Behind
  <2>1. \A i \in DOMAIN gs : gs[i].start <= t  BY <1>9 DEF Tape, Placed
  <2> QED  BY <1>2, <1>5, <1>8, <1>12, <2>1 DEF RecAbove
<1>20. TargetInv'  BY <1>2 DEF TargetInv, Sealing
<1>21. HandleInv'  BY <1>2, <1>10, <1>11 DEF HandleInv
<1> QED  BY <1>13, <1>14, <1>15, <1>17, <1>18, <1>19, <1>20, <1>21 DEF OInv, LinkInv

-----------------------------------------------------------------------------
(* Every step keeps the order                                              *)

LEMMA LoopOrder ==
    ASSUME IInv, IInv', OInv, Loop
    PROVE  OInv'
<1>1. CASE EmitFrame \/ PutCompletes \/ RotateTimer \/ CancelCapture \/ EmitClosing \/ CloseStart
  BY <1>1, ProducerOrder
<1>2. CASE DrainTake  BY <1>2, DrainOrder
<1>3. CASE SpoolSync  BY <1>3, SpoolOrder
<1>4. CASE CloseDrain  BY <1>4, CloseOrder
<1> QED  BY <1>1, <1>2, <1>3, <1>4 DEF Loop, StopCapture, WriterFailureSeen

LEMMA ThreadOrder ==
    ASSUME IInv, IInv', OInv, Writer
    PROVE  OInv'
<1>1. CASE WriteBatch  BY <1>1, WriteBatchOrder
<1>2. CASE WriteFails  BY <1>2, WriteFailsOrder
<1>3. CASE FsyncFails  BY <1>3, FsyncFailsOrder
<1>4. CASE WriteRefused \/ SealFsyncFails  BY <1>4, RefusedOrder
<1>5. CASE BatchDone  BY <1>5, BatchDoneOrder
<1>6. CASE SealStart  BY <1>6, SealStartOrder
<1>7. CASE SealRename  BY <1>7, SealRenameOrder
<1>8. CASE SealPublish  BY <1>8, SealPublishOrder
<1>9. CASE SealFinish  BY <1>9, SealFinishOrder
<1> QED  BY <1>1, <1>2, <1>3, <1>4, <1>5, <1>6, <1>7, <1>8, <1>9 DEF Writer

LEMMA NextOrder ==
    ASSUME IInv, OInv, [Next]_vars
    PROVE  OInv'
<1>1. IInv'  BY NextInv
<1>2. CASE Loop  BY <1>1, <1>2, LoopOrder
<1>3. CASE Writer  BY <1>1, <1>3, ThreadOrder
<1>4. CASE Recover  BY <1>1, <1>4, RecoverOrder, StartOrder DEF Recover
<1>5. CASE Kill \/ PowerLoss  BY <1>5, CrashOrder
<1>6. CASE Tick \/ ClockBack \/ UNCHANGED vars  BY <1>1, <1>6, ClockOrder
<1> QED  BY <1>2, <1>3, <1>4, <1>5, <1>6 DEF Next

LEMMA InitOrder == Init => OInv
<1> SUFFICES ASSUME Init PROVE OInv  OBVIOUS
<1>1. ~Live /\ files = <<>>  BY DEF Init, NeverRun, Live
<1>2. DOMAIN files = {} /\ Older(files) = {}
  <2>1. Len(files) = 0 /\ DOMAIN files = 1..0  BY <1>1
  <2> QED  BY <2>1 DEF Older
<1>3. TapeInv
  BY <1>2 DEF TapeInv, Tape, InWindow, RisingFiles, Placed, Numbered, Wrote, Stable, Named, OldSealed, Flagged
<1> QED
  BY <1>1, <1>3 DEF OInv, StreamInv, ComingInv, LinkInv, AboveInv, PrevInv, BarInv, TargetInv, HandleInv

\* What waits and what is filed stay in the order of acceptance, through every
\* step of the event loop, the timer, the writer thread, failed storage calls,
\* shutdown, crashes, recovery and both directions of the wall clock
\* (LaneWriter.append, _rotate_forever, _drain_forever, _consume, close).
THEOREM OrderInvariance == Spec => [](IInv /\ OInv)
<1>1. Init => IInv /\ OInv  BY InitInv, InitOrder
<1>2. IInv /\ OInv /\ [Next]_vars => (IInv /\ OInv)'
  <2>1. ASSUME IInv, OInv, [Next]_vars PROVE IInv' /\ OInv'  BY <2>1, NextInv, NextOrder
  <2> QED  BY <2>1
<1> QED  BY <1>1, <1>2, PTL DEF Spec

-----------------------------------------------------------------------------
(* What the order gives                                                    *)

\* Two segments of one window are numbered in the order they were created in.
LEMMA NumberedRising ==
    ASSUME NEW fs \in Seq(File), Numbered(fs), NEW i \in DOMAIN fs, NEW j \in DOMAIN fs, i < j,
           fs[i].start = fs[j].start
    PROVE  fs[i].index < fs[j].index
<1> DEFINE s    == fs[i].start
           A(n) == {k \in 1..(n - 1) : fs[k].start = s}
<1>1. i \in Nat /\ j \in Nat /\ i \in 1..(j - 1) /\ i \notin 1..(i - 1)
  <2>1. PICK n \in Nat : n = Len(fs) /\ DOMAIN fs = 1..n  OBVIOUS
  <2> QED  BY <2>1
<1>2. IsFiniteSet(A(i)) /\ IsFiniteSet(A(j))
  <2>1. IsFiniteSet(1..(i - 1)) /\ IsFiniteSet(1..(j - 1))  BY <1>1, FS_Interval
  <2>2. A(i) \subseteq 1..(i - 1) /\ A(j) \subseteq 1..(j - 1)  OBVIOUS
  <2> QED  BY <2>1, <2>2, FS_Subset
<1>3. A(i) \cup {i} \subseteq A(j)
  <2>1. \A k \in 1..(i - 1) : k \in 1..(j - 1)  BY <1>1
  <2> QED  BY <1>1, <2>1
<1>4. i \notin A(i)  BY <1>1
<1>5. fs[i].index = Cardinality(A(i)) /\ fs[j].index = Cardinality(A(j))  BY DEF Numbered
<1> HIDE DEF A
<1>6. /\ IsFiniteSet(A(i) \cup {i}) /\ Cardinality(A(i) \cup {i}) = Cardinality(A(i)) + 1
      /\ Cardinality(A(i)) \in Nat /\ Cardinality(A(j)) \in Nat
  BY <1>2, <1>4, FS_AddElement, FS_CardinalityType
<1>7. Cardinality(A(i) \cup {i}) <= Cardinality(A(j))  BY <1>2, <1>3, FS_Subset
<1> QED  BY <1>5, <1>6, <1>7

\* The files of a lane sorted by name are in receive order as long as the wall
\* clock was not stepped back; no record is in a window that had ended when it
\* was received; and with ordered directory updates only the newest segment may
\* lack a seal.  For every window length, queue capacity, batch limit and
\* number of frames, restarts, crashes and storage faults (segment_filename,
\* next_segment_index, LaneWriter._consume, _rotate_to, open_segments).
THEOREM LaneOrderly == Spec => []LaneIsOrderly
<1>1. ASSUME IInv, OInv PROVE LaneIsOrderly
  <2>0. TypeOK /\ files \in Seq(File) /\ Tape(files, back, now)  BY <1>1, TypeFacts DEF IInv, OInv, TapeInv
  <2>1. ASSUME back = 0, NEW i \in DOMAIN files, NEW j \in DOMAIN files, i < j,
               files[i].data # <<>>, files[j].data # <<>>
        PROVE  \/ files[i].start < files[j].start
               \/ files[i].start = files[j].start /\ files[i].index < files[j].index
    <3>1. files[i].start <= files[j].start  BY <2>0, <2>1 DEF Tape, Wrote
    <3>2. files[i].start \in Nat /\ files[j].start \in Nat
      <4>1. files[i] \in File /\ files[j] \in File  BY <2>0
      <4> QED  BY <4>1, FileFacts
    <3>3. CASE files[i].start = files[j].start
      <4>1. Numbered(files)  BY <2>0 DEF Tape
      <4> QED  BY <2>0, <2>1, <3>3, <4>1, NumberedRising
    <3> QED  BY <3>1, <3>2, <3>3
  <2>2. back = 0 => FileOrderIsReceiveOrder  BY <2>1 DEF FileOrderIsReceiveOrder
  <2>3. NeverFiledPastItsWindow  BY <2>0 DEF Tape, InWindow, NeverFiledPastItsWindow
  <2>4. ASSUME OrderedDirs, NEW i \in DOMAIN files, ~IsSealed(files[i]) PROVE i = Len(files)
    <3>1. PICK n \in Nat : n = Len(files) /\ DOMAIN files = 1..n  BY <2>0, TypeFacts
    <3>2. i \notin 1..(n - 1)  BY <2>0, <2>4, <3>1 DEF Tape, OldSealed, Older
    <3> QED  BY <2>4, <3>1, <3>2
  <2>5. OrderedDirs => OneUnsealedSegment  BY <2>4 DEF OneUnsealedSegment
  <2> QED  BY <2>2, <2>3, <2>5 DEF LaneIsOrderly
<1> QED  BY <1>1, OrderInvariance, PTL

\* A segment that starts with a receive time before the one the records before
\* it ended on is never sealed as an orderly one by its writer, through
\* restarts, crashes, segments recovery sealed and empty segments between them
\* (_Accumulator.observe's seed, _rotate_to, resume_state).
THEOREM RegressionFlagged == Spec => []RegressionIsFlagged
<1>1. OInv => RegressionIsFlagged  BY DEF OInv, TapeInv, Tape, Flagged, RegressionIsFlagged
<1> QED  BY <1>1, OrderInvariance, PTL

=============================================================================
