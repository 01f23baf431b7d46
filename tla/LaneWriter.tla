----------------------------- MODULE LaneWriter -----------------------------
(***************************************************************************)
(* One capture lane of the splices: BaseSplice._emit feeding a bounded     *)
(* queue, the rotation timer, the drain task and its one writer thread,    *)
(* the segment files of the lane and their seals, shutdown, process and    *)
(* power crashes, and the recovery a restarted splice runs.                *)
(*                                                                         *)
(* splices/common/{base,spool,writer,segment}.py                           *)
(*                                                                         *)
(* A record keeps only what the seal and the readers tell apart: its       *)
(* delivery index, its receive time and the process run that built it.  A  *)
(* file is its sequence of whole records plus what a power loss may take   *)
(* away.  A digest is replaced by what it covers: the number of records of *)
(* the file the seal vouches for.                                          *)
(***************************************************************************)
EXTENDS Integers, Sequences, FiniteSets

CONSTANTS
    Period,       \* length of a window (segment_seconds)
    Capacity,     \* queue_capacity
    WriterBatch,  \* WRITER_BATCH
    MaxTime,      \* bound on the wall clock
    MaxFrames,    \* bound on the frames received over all runs
    MaxRuns,      \* bound on the process starts
    MaxKills,     \* bound on kills of the process
    MaxOutages,   \* bound on power losses
    MaxBackSteps, \* bound on the backward steps of the wall clock
    OrderedDirs,  \* directory updates become durable in the order they were made
    Faults,       \* the storage calls that may raise
    MaxFaults     \* bound on how many of them do

\* The storage calls a fault can hit, named after the step that raises.
FaultKinds == {"write", "rollback", "fsync", "force", "seal_fsync",
               "rename", "seal_write", "open"}

ASSUME BoundsAssumption ==
    /\ Period \in Nat \ {0} /\ Capacity \in Nat \ {0} /\ WriterBatch \in Nat \ {0}
    /\ MaxTime \in Nat /\ MaxFrames \in Nat /\ MaxRuns \in Nat
    /\ MaxKills \in Nat /\ MaxOutages \in Nat /\ MaxBackSteps \in Nat /\ MaxFaults \in Nat
    /\ Faults \subseteq FaultKinds /\ OrderedDirs \in BOOLEAN

VARIABLES
    now,      \* wall clock, what visible_ns is sampled from
    back,     \* how far the wall clock was stepped back: now + back is monotonic
    phase,    \* where the process is in BaseSplice.run
    tail,     \* what the cancelled capture task still has to do before close()
    run,      \* how many times the process was started
    next,     \* BaseSplice._delivery_index
    pending,  \* the record a full queue keeps in `await queue.put`
    queue,    \* LaneWriter._queue
    timer,    \* the sleeping _rotate_forever task
    wpc,      \* step of the thread that runs _consume
    batch,    \* what is left of the list given to _consume
    drained,  \* whether the queue was empty after the batch was taken
    target,   \* window the rotation under way opens next
    unwritten,\* LaneWriter._unwritten
    fatal,    \* LaneWriter._fatal is set
    cur,      \* the SegmentWriter in memory
    prevVis,  \* LaneWriter._previous_visible_ns
    files,    \* the lane's segment files, in the order they were created
    frames, kills, outages, faults   \* what the bounds count

procVars == <<tail, next, pending, queue, timer>>
memVars  == <<wpc, batch, drained, target, unwritten, fatal, cur, prevVis>>
bounds   == <<frames, kills, outages, faults>>
vars     == <<now, back, phase, tail, run, next, pending, queue, timer, wpc, batch,
              drained, target, unwritten, fatal, cur, prevVis, files, frames,
              kills, outages, faults>>

NoRec    == [kind |-> "none"]
NoSeal   == [lines |-> -1, ok |-> FALSE, reason |-> "none"]
NoTarget == -1
NoVis    == -1

Phases == {"running", "stopping", "shutdown", "closing", "closed", "down", "recovering"}
Steps  == {"idle", "consume", "rename", "publish", "reseal", "finish", "dead"}

-----------------------------------------------------------------------------
(* Windows and files                                                       *)

\* Floors a receive time to its window (segment.window_start_ns).
WindowStart(t) == (t \div Period) * Period

Last(s) == s[Len(s)]

\* Mutant: a restart in the same window reuses the window's first index.
NextSegmentIndexZero(fs, start) == 0

\* How many segments the window already has on disk.
NextSegmentIndex(fs, start) == Cardinality({i \in DOMAIN fs : fs[i].start = start})

\* A file just opened: nothing in it, nothing durable, not even its name.
NewFile(fs, start) ==
    [start |-> start, index |-> NextSegmentIndex(fs, start), data |-> <<>>,
     synced |-> 0, onDisk |-> FALSE, torn |-> FALSE,
     name |-> "open", named |-> FALSE, seal |-> NoSeal, sealed |-> FALSE]

\* SegmentWriter.__init__ after the file is open.
NewCur == [handle |-> TRUE, committed |-> 0, dirty |-> FALSE, poisoned |-> FALSE,
           done |-> FALSE]
NoCur  == [handle |-> FALSE, committed |-> 0, dirty |-> FALSE, poisoned |-> FALSE,
           done |-> FALSE]

\* _Accumulator.observe over a whole file: every receive time at or after the
\* one before it, the first checked against `seed` when there is one.
NonDecreasing(recs, seed) ==
    /\ \A i \in 2..Len(recs) : recs[i].vis >= recs[i-1].vis
    /\ recs # <<>> => recs[1].vis >= seed

IsSealed(f) == f.seal # NoSeal
SegEnd(f)   == f.start + Period

\* Mutant: the buffers are flushed, the fsync is forgotten.
FlushedOnly(f) == [f EXCEPT !.onDisk = TRUE]

\* fsync of the file: its bytes and the directory entry they are under.
Fsynced(f) == [f EXCEPT !.synced = Len(f.data), !.onDisk = TRUE]

\* fsync of the lane's directory: every rename made in it so far is durable.
DirSynced(fs) ==
    [i \in DOMAIN fs |-> [fs[i] EXCEPT !.named = (@ \/ fs[i].name = "ndjson"),
                                      !.sealed = (@ \/ IsSealed(fs[i]))]]

\* asyncio.Queue.put suspends.
Full == Len(queue) >= Capacity

\* One more storage call raises.
Fault(k) == k \in Faults /\ faults < MaxFaults /\ faults' = faults + 1
NoFault  == UNCHANGED faults

-----------------------------------------------------------------------------
(* The event loop: producer, timer, drain, stop                            *)

Rec == [kind |-> "rec", idx |-> next, vis |-> now, run |-> run]

\* LaneWriter.append and the end of BaseSplice._emit: the index is consumed
\* only once the queue has taken the record; a latched failure raises, and the
\* raise ends the capture task.
EmitRecord ==
    IF fatal
    THEN /\ phase' = "stopping" /\ tail' = <<>>
         /\ UNCHANGED <<pending, queue, next>>
    ELSE IF Full
    THEN pending' = Rec /\ UNCHANGED <<phase, tail, queue, next>>
    ELSE /\ queue' = Append(queue, Rec) /\ next' = next + 1
         /\ UNCHANGED <<phase, tail, pending>>

\* A frame arrives and _emit_frame records it.
EmitFrame ==
    /\ phase = "running" /\ pending = NoRec /\ frames < MaxFrames
    /\ frames' = frames + 1
    /\ EmitRecord
    /\ UNCHANGED <<now, back, run, timer, memVars, files, kills, outages, faults>>

\* Mutant: a put that is suspended when the stop arrives is never woken.
PutCompletesRunning ==
    /\ phase = "running" /\ pending # NoRec /\ ~Full
    /\ queue' = Append(queue, pending) /\ pending' = NoRec
    /\ IF fatal THEN phase' = "stopping" /\ tail' = <<>> /\ UNCHANGED next
                ELSE next' = next + 1 /\ UNCHANGED <<phase, tail>>
    /\ UNCHANGED <<now, back, run, timer, memVars, files, bounds>>

\* The suspended put completes.  If storage died meanwhile the record is in
\* the queue all the same, and the producer raises without taking its index.
PutCompletes ==
    /\ phase \in {"running", "stopping"} /\ pending # NoRec /\ ~Full
    /\ queue' = Append(queue, pending) /\ pending' = NoRec
    /\ IF fatal THEN phase' = "stopping" /\ tail' = <<>> /\ UNCHANGED next
                ELSE next' = next + 1 /\ UNCHANGED <<phase, tail>>
    /\ UNCHANGED <<now, back, run, timer, memVars, files, bounds>>

\* _rotate_forever: sleeps on the monotonic clock until the wall clock it read
\* would reach the next window, then queues the boundary behind the data.
ArmedTimer(wall, mono) ==
    LET following == WindowStart(wall) + Period
    IN  [start |-> following, due |-> mono + (following - wall)]

\* Mutant: only a lane with data in its queue is rotated.
RotateTimerWhenBusy ==
    /\ phase \in {"running", "stopping"}
    /\ now + back >= timer.due /\ ~Full /\ queue # <<>>
    /\ queue' = Append(queue, [kind |-> "rotate", start |-> timer.start])
    /\ timer' = ArmedTimer(now, now + back)
    /\ UNCHANGED <<now, back, phase, tail, run, next, pending, memVars, files, bounds>>

RotateTimer ==
    /\ phase \in {"running", "stopping"}
    /\ now + back >= timer.due /\ ~Full
    /\ queue' = Append(queue, [kind |-> "rotate", start |-> timer.start])
    /\ timer' = ArmedTimer(now, now + back)
    /\ UNCHANGED <<now, back, phase, tail, run, next, pending, memVars, files, bounds>>

\* _drain_forever: one record, then greedily up to the batch limit.
DrainTake ==
    /\ phase \in {"running", "stopping"} /\ wpc = "idle" /\ queue # <<>>
    /\ LET n == IF Len(queue) < WriterBatch THEN Len(queue) ELSE WriterBatch
       IN  /\ batch' = SubSeq(queue, 1, n)
           /\ queue' = SubSeq(queue, n + 1, Len(queue))
           /\ drained' = (n = Len(queue))
    /\ wpc' = "consume"
    /\ UNCHANGED <<now, back, phase, tail, run, next, pending, timer, target,
                   unwritten, fatal, cur, prevVis, files, bounds>>

\* The capture task is cancelled and gives up the put it is suspended in.  What
\* it runs before run()'s finally: nothing between two connections, else the
\* two closing records with spool.sync between them.
CancelCapture ==
    /\ phase = "running"
    /\ phase' = "stopping" /\ pending' = NoRec
    /\ tail' \in {<<>>, <<"emit", "sync", "emit">>}
    /\ UNCHANGED <<now, back, run, next, queue, timer, memVars, files, bounds>>

\* SIGINT or SIGTERM (run.py).  From here on nobody watches the drain task.
StopCapture == wpc # "dead" /\ CancelCapture

\* run() finds that the drain task ended with an error (wait_failed).
WriterFailureSeen == wpc = "dead" /\ CancelCapture

\* The closing control records of a cancelled connection.
EmitClosing ==
    /\ phase = "stopping" /\ pending = NoRec
    /\ tail # <<>> /\ Head(tail) = "emit"
    /\ IF fatal
       THEN tail' = <<>> /\ UNCHANGED <<pending, queue, next>>
       ELSE /\ tail' = Tail(tail)
            /\ IF Full THEN pending' = Rec /\ UNCHANGED <<queue, next>>
                       ELSE queue' = Append(queue, Rec) /\ next' = next + 1 /\ UNCHANGED pending
    /\ UNCHANGED <<now, back, phase, run, timer, memVars, files, bounds>>

\* Spool.sync on the cancellation path, beside whatever the thread is doing.
SpoolSync ==
    /\ phase = "stopping" /\ pending = NoRec
    /\ tail # <<>> /\ Head(tail) = "sync" /\ tail' = Tail(tail)
    /\ IF cur.handle /\ cur.dirty
       THEN /\ files' = [files EXCEPT ![Len(files)] = Fsynced(@)]
            /\ cur' = [cur EXCEPT !.dirty = FALSE]
       ELSE UNCHANGED <<files, cur>>
    /\ UNCHANGED <<now, back, phase, run, next, pending, queue, timer, wpc, batch, drained,
                   target, unwritten, fatal, prevVis, bounds>>

\* LaneWriter.close: no task runs any more, and the call blocks until the
\* thread has finished the batch it holds.
CloseStart ==
    /\ phase = "stopping" /\ tail = <<>> /\ pending = NoRec
    /\ phase' = "shutdown"
    /\ UNCHANGED <<now, back, run, procVars, memVars, files, bounds>>

\* The list close() consumes: what a flush retained, then what is queued.
Remaining == unwritten \o queue

CloseDrain ==
    /\ phase = "shutdown" /\ wpc \in {"idle", "dead"}
    /\ phase' = "closing" /\ wpc' = "consume"
    /\ batch' = Remaining /\ queue' = <<>> /\ unwritten' = <<>> /\ drained' = FALSE
    /\ UNCHANGED <<now, back, tail, run, next, pending, timer, target, fatal, cur,
                   prevVis, files, bounds>>

-----------------------------------------------------------------------------
(* _consume on the writer thread, or on the closing thread                 *)

threadVars == <<now, back, run, tail, next, pending, queue, timer>>

\* A killed or exiting process keeps nothing in memory.
Forget ==
    /\ tail' = <<>> /\ pending' = NoRec /\ queue' = <<>> /\ next' = 1
    /\ timer' = [start |-> 0, due |-> 0]
    /\ wpc' = "idle" /\ batch' = <<>> /\ drained' = FALSE /\ target' = NoTarget
    /\ unwritten' = <<>> /\ fatal' = FALSE /\ cur' = NoCur /\ prevVis' = NoVis

\* An exception leaves _consume: the drain task dies with the rest of its
\* batch, or close() raises and the process exits.  `retained` is what _flush
\* puts back, and it latches the failure only when there is something.
Raise(retained) ==
    IF phase = "closing"
    THEN phase' = "down" /\ Forget
    ELSE /\ wpc' = "dead" /\ batch' = <<>>
         /\ unwritten' = unwritten \o retained
         /\ fatal' = (fatal \/ retained # <<>>)
         /\ UNCHANGED <<phase, tail, next, pending, queue, timer, drained, target, prevVis>>

\* The records at the head of the batch that belong in the current segment:
\* what `pending` holds when _consume next flushes.
FlushLen ==
    LET fits(i) == batch[i].kind = "rec" /\ batch[i].vis < SegEnd(Last(files))
        cuts    == {i \in DOMAIN batch : ~fits(i)}
    IN  IF cuts = {} THEN Len(batch) ELSE (CHOOSE i \in cuts : \A j \in cuts : i <= j) - 1

Flushable == SubSeq(batch, 1, FlushLen)
AfterFlush == SubSeq(batch, FlushLen + 1, Len(batch))

CurFile == Last(files)
SetCurFile(f) == files' = [files EXCEPT ![Len(files)] = f]

\* A write that was cut short: some whole records and perhaps a partial line.
Cut(f, recs, torn) == [f EXCEPT !.data = @ \o recs, !.torn = torn]

\* write_batch: every byte written, the accumulator advanced, and an fsync
\* when the interval has passed.
WriteBatch ==
    /\ wpc = "consume" /\ FlushLen > 0 /\ cur.handle /\ ~cur.poisoned
    /\ \E due \in BOOLEAN :
         LET written == [CurFile EXCEPT !.data = @ \o Flushable]
         IN  /\ SetCurFile(IF due THEN Fsynced(written) ELSE written)
             /\ cur' = [cur EXCEPT !.committed = @ + FlushLen, !.dirty = ~due]
    /\ batch' = AfterFlush
    /\ UNCHANGED <<threadVars, phase, wpc, drained, target, unwritten, fatal, prevVis, bounds>>

\* The write raises: the file is truncated back to the committed offset and
\* that is fsynced; if the rollback raises too the segment is unsafe for good
\* and keeps whatever the write had put there.
WriteFails ==
    /\ wpc = "consume" /\ FlushLen > 0 /\ cur.handle /\ ~cur.poisoned
    /\ \/ /\ Fault("write")
          /\ SetCurFile(Fsynced(CurFile))
          /\ IF phase = "closing" THEN TRUE ELSE UNCHANGED cur
       \/ /\ Fault("rollback")
          /\ \E n \in 0..FlushLen, torn \in BOOLEAN :
               SetCurFile(Cut(CurFile, SubSeq(batch, 1, n), torn))
          /\ IF phase = "closing" THEN TRUE ELSE cur' = [cur EXCEPT !.poisoned = TRUE]
    /\ Raise(Flushable)
    /\ UNCHANGED <<now, back, run, frames, kills, outages>>

\* The bytes are written and counted, then the fsync that was due raises:
\* _flush retains the records although the segment already holds them.
FsyncFails ==
    /\ wpc = "consume" /\ FlushLen > 0 /\ cur.handle /\ ~cur.poisoned
    /\ Fault("fsync")
    /\ SetCurFile([CurFile EXCEPT !.data = @ \o Flushable])
    /\ IF phase = "closing" THEN TRUE
       ELSE cur' = [cur EXCEPT !.committed = @ + FlushLen, !.dirty = TRUE]
    /\ Raise(Flushable)
    /\ UNCHANGED <<now, back, run, frames, kills, outages>>

\* write_batch refuses a segment that is sealed, half sealed or unsafe.
WriteRefused ==
    /\ wpc = "consume" /\ FlushLen > 0 /\ (~cur.handle \/ cur.poisoned)
    /\ IF phase = "closing" THEN TRUE ELSE UNCHANGED cur
    /\ Raise(Flushable)
    /\ UNCHANGED <<now, back, run, files, bounds>>

\* The end of _apply: a queue that went quiet forces an fsync.
BatchDone ==
    /\ wpc = "consume" /\ batch = <<>> /\ phase # "closing"
    /\ \/ /\ IF drained /\ cur.handle /\ cur.dirty
             THEN SetCurFile(Fsynced(CurFile)) /\ cur' = [cur EXCEPT !.dirty = FALSE]
             ELSE UNCHANGED <<files, cur>>
          /\ wpc' = "idle" /\ NoFault
          /\ UNCHANGED <<batch, unwritten, fatal>>
       \/ /\ drained /\ cur.handle /\ cur.dirty /\ Fault("force")
          /\ wpc' = "dead" /\ UNCHANGED <<batch, unwritten, fatal, cur, files>>
    /\ UNCHANGED <<threadVars, phase, drained, target, prevVis, frames, kills, outages>>

\* The next boundary: a queued rotation, or a record past the window's end.
AtBoundary == batch # <<>> /\ FlushLen = 0
BoundaryTarget == IF Head(batch).kind = "rotate" THEN Head(batch).start
                  ELSE WindowStart(Head(batch).vis)

\* seal(), steps 1 and 2: the handle is dropped first, then the data fsynced.
\* A second call on a half-sealed segment finds no handle and skips to the
\* seal; on a sealed one it returns at once.
SealStart ==
    /\ wpc = "consume"
    /\ AtBoundary \/ (batch = <<>> /\ phase = "closing")
    /\ target' = IF AtBoundary THEN BoundaryTarget ELSE NoTarget
    /\ batch' = IF AtBoundary /\ Head(batch).kind = "rotate" THEN Tail(batch) ELSE batch
    /\ \/ /\ cur.handle /\ wpc' = "rename"
          /\ SetCurFile(Fsynced(CurFile))
       \/ /\ ~cur.handle /\ wpc' = (IF cur.done THEN "finish" ELSE "reseal")
          /\ UNCHANGED files
    /\ cur' = [cur EXCEPT !.handle = FALSE]
    /\ UNCHANGED <<threadVars, phase, drained, unwritten, fatal, prevVis, bounds>>

SealFsyncFails ==
    /\ wpc = "consume" /\ cur.handle
    /\ AtBoundary \/ (batch = <<>> /\ phase = "closing")
    /\ Fault("seal_fsync")
    /\ IF phase = "closing" THEN TRUE ELSE cur' = [cur EXCEPT !.handle = FALSE]
    /\ Raise(<<>>)
    /\ UNCHANGED <<now, back, run, files, frames, kills, outages>>

\* Step 3: the atomic rename.
SealRename ==
    /\ wpc = "rename" /\ phase # "recovering"
    /\ \/ /\ wpc' = "publish" /\ NoFault
          /\ SetCurFile([CurFile EXCEPT !.name = "ndjson"])
          /\ UNCHANGED <<phase, tail, next, pending, queue, timer, batch, drained, target,
                         unwritten, fatal, cur, prevVis>>
       \/ /\ Fault("rename") /\ UNCHANGED files
          /\ IF phase = "closing" THEN TRUE ELSE UNCHANGED cur
          /\ Raise(<<>>)
    /\ UNCHANGED <<now, back, run, frames, kills, outages>>

\* What the seal asserts of a file: how many records, whether their receive times
\* never went back, and who sealed it (seal_reason).
SealOf(lines, recs, seed, reason) ==
    [lines |-> lines, ok |-> NonDecreasing(SubSeq(recs, 1, lines), seed), reason |-> reason]

\* Step 4: directory fsync, then the seal through a temporary file and a
\* rename.  A repeated seal() skips the directory fsync with the rename.
SealPublish ==
    /\ wpc \in {"publish", "reseal"} /\ phase # "recovering"
    /\ \/ /\ wpc' = "finish" /\ NoFault
          /\ LET fs == IF wpc = "publish" THEN DirSynced(files) ELSE files
             IN  files' = [fs EXCEPT ![Len(fs)].seal =
                              SealOf(cur.committed, CurFile.data, prevVis, "writer")]
          /\ UNCHANGED <<phase, tail, next, pending, queue, timer, batch, drained, target,
                         unwritten, fatal, cur, prevVis>>
       \/ /\ Fault("seal_write") /\ UNCHANGED files
          /\ IF phase = "closing" THEN TRUE ELSE UNCHANGED cur
          /\ Raise(<<>>)
    /\ UNCHANGED <<now, back, run, frames, kills, outages>>

\* The receive time the next segment's first record is checked against.
CarriedVisible == IF cur.committed = 0 THEN prevVis ELSE CurFile.data[cur.committed].vis

\* Step 5, and then either _rotate_to opens the next segment or close() is done.
SealFinish ==
    /\ wpc = "finish" /\ phase # "recovering"
    /\ LET synced == DirSynced(files)
       IN  \/ /\ target = NoTarget
              /\ files' = synced /\ phase' = "closed" /\ wpc' = "idle"
              /\ cur' = [cur EXCEPT !.done = TRUE] /\ NoFault
              /\ UNCHANGED <<tail, next, pending, queue, timer, batch, drained, target,
                             unwritten, fatal, prevVis>>
           \/ /\ target # NoTarget
              /\ files' = Append(synced, NewFile(synced, target))
              /\ cur' = NewCur /\ wpc' = "consume" /\ NoFault
              /\ prevVis' = CarriedVisible /\ target' = NoTarget
              /\ UNCHANGED <<phase, tail, next, pending, queue, timer, batch, drained,
                             unwritten, fatal>>
           \/ /\ target # NoTarget /\ Fault("open") /\ files' = synced
              /\ IF phase = "closing" THEN TRUE ELSE cur' = [cur EXCEPT !.done = TRUE]
              /\ Raise(<<>>)
    /\ UNCHANGED <<now, back, run, frames, kills, outages>>

-----------------------------------------------------------------------------
(* Crashes and recovery                                                    *)

\* What the last file may hold once the thread was stopped inside a write: a
\* prefix of the flush under way, the last line possibly partial.
Interrupted(f) ==
    IF wpc = "consume" /\ FlushLen > 0 /\ cur.handle /\ ~cur.poisoned
    THEN {Cut(f, SubSeq(batch, 1, n), torn) : n \in 0..FlushLen, torn \in BOOLEAN}
    ELSE {f}

\* What a power loss may leave of a file: any prefix that reaches what was
\* fsynced, the rename and the seal only if their directory entry was.
Survivor(f, n, torn, name, seal) ==
    [f EXCEPT !.data = SubSeq(@, 1, n), !.torn = torn, !.name = name, !.seal = seal]
Survivors(f) ==
    {Survivor(f, n, torn, name, seal) :
        n    \in f.synced..Len(f.data),
        torn \in IF f.synced = Len(f.data) THEN {f.torn} ELSE BOOLEAN,
        name \in IF f.named THEN {f.name} ELSE {"open", f.name},
        seal \in IF f.sealed THEN {f.seal} ELSE {NoSeal, f.seal}}

\* With ordered directory updates a seal that survives has its rename with it, and
\* a file that survives has every rename before its creation with it.
Lawful(f, g) == OrderedDirs /\ IsSealed(g) => g.name = f.name
LawfulBefore(fs, left) ==
    OrderedDirs => \A i \in 1..(Len(fs) - 1) : left[i].name = fs[i].name /\ left[i].seal = fs[i].seal

Killable == {"running", "stopping", "shutdown", "closing", "recovering"}

\* The process is killed; the page cache survives it.
Kill ==
    /\ phase \in Killable /\ kills < MaxKills
    /\ kills' = kills + 1 /\ phase' = "down" /\ Forget
    /\ IF files = <<>> THEN UNCHANGED files
       ELSE \E f \in Interrupted(CurFile) : SetCurFile(f)
    /\ UNCHANGED <<now, back, run, frames, outages, faults>>

\* The host loses power: every file keeps one of its survivors, and the newest
\* may be gone if it was never fsynced.
PowerLoss ==
    /\ phase # "closed" /\ outages < MaxOutages
    /\ outages' = outages + 1 /\ phase' = "down" /\ Forget
    /\ \E fs \in IF files = <<>> THEN {files}
                 ELSE {[files EXCEPT ![Len(files)] = f] : f \in Interrupted(CurFile)} :
         LET volatile == {i \in DOMAIN fs : ~fs[i].sealed}
             kept     == {g \in [volatile -> UNION {Survivors(fs[i]) : i \in volatile}] :
                            \A i \in volatile : g[i] \in Survivors(fs[i]) /\ Lawful(fs[i], g[i])}
         IN  \E g \in kept :
               LET left == [i \in DOMAIN fs |-> IF i \in volatile THEN g[i] ELSE fs[i]]
               IN  \/ files' = left /\ LawfulBefore(fs, left)
                   \/ /\ fs # <<>> /\ ~Last(fs).onDisk
                      /\ files' = SubSeq(left, 1, Len(left) - 1)
                      /\ LawfulBefore(SubSeq(fs, 1, Len(fs) - 1), files')
    /\ UNCHANGED <<now, back, run, frames, kills, faults>>

\* open_segments and the committed files without a seal.
Orphans == {i \in DOMAIN files : files[i].name = "open" \/ ~IsSealed(files[i])}

\* A new process: BaseSplice.__init__ calls resume_state first.
Restart ==
    /\ phase \in {"down", "closed"} /\ run < MaxRuns
    /\ phase' = "recovering" /\ run' = run + 1 /\ Forget
    /\ UNCHANGED <<now, back, files, bounds>>

\* Mutant: repairing a partial last line takes the whole line before it too.
RepairedTooFar(f) ==
    [Fsynced(f) EXCEPT !.torn = FALSE,
                       !.data = IF f.torn /\ @ # <<>> THEN SubSeq(@, 1, Len(@) - 1) ELSE @,
                       !.synced = IF f.torn /\ f.data # <<>> THEN Len(f.data) - 1 ELSE Len(f.data)]

\* repair_torn_tail: the partial last line goes and the rest is fsynced.
Repaired(f) == [Fsynced(f) EXCEPT !.torn = FALSE]

\* seal_orphan up to the rename: the partial line goes, the bytes are fsynced,
\* and a file still called .open is renamed and its directory fsynced.  The
\* open segments come first, then the renamed ones without a seal.
RecoverRename ==
    /\ phase = "recovering" /\ wpc = "idle"
    /\ \E i \in Orphans :
         /\ (\E j \in Orphans : files[j].name = "open") => files[i].name = "open"
         /\ target' = i
         /\ LET fs == [files EXCEPT ![i] = [Repaired(@) EXCEPT !.name = "ndjson"]]
            IN  files' = IF files[i].name = "open" THEN DirSynced(fs) ELSE fs
    /\ wpc' = "publish"
    /\ UNCHANGED <<now, back, phase, run, procVars, batch, drained, unwritten, fatal,
                   cur, prevVis, bounds>>

\* The seal of a reread file, its first receive time checked against nothing.
RecoverSeal ==
    /\ phase = "recovering" /\ wpc = "publish"
    /\ files' = [files EXCEPT ![target].seal =
                    SealOf(Len(files[target].data), files[target].data, NoVis, "recovery")]
    /\ wpc' = "finish"
    /\ UNCHANGED <<now, back, phase, run, procVars, batch, drained, target, unwritten, fatal,
                   cur, prevVis, bounds>>

\* _write_seal's directory fsync.
RecoverFinish ==
    /\ phase = "recovering" /\ wpc = "finish"
    /\ files' = DirSynced(files)
    /\ wpc' = "idle" /\ target' = NoTarget
    /\ UNCHANGED <<now, back, phase, run, procVars, batch, drained, unwritten, fatal,
                   cur, prevVis, bounds>>

\* The sealed segments that have records, and the one with the highest index.
Counted == {i \in DOMAIN files : IsSealed(files[i]) /\ files[i].data # <<>>}
BestOf(S) == CHOOSE i \in S : \A j \in S : Last(files[i].data).idx >= Last(files[j].data).idx
\* Mutants: the last used index is used again; the resumed clock is not seeded.
ResumeIndexLast == IF Counted = {} THEN 1 ELSE Last(files[BestOf(Counted)].data).idx
ResumeVisibleNone == NoVis

ResumeIndex == IF Counted = {} THEN 1 ELSE Last(files[BestOf(Counted)].data).idx + 1
ResumeVisible == IF Counted = {} THEN NoVis ELSE Last(files[BestOf(Counted)].data).vis

\* Spool.start: the resumed index, a writer on the current window, the tasks.
Start ==
    /\ phase = "recovering" /\ wpc = "idle" /\ Orphans = {}
    /\ phase' = "running"
    /\ next' = ResumeIndex /\ prevVis' = ResumeVisible
    /\ files' = Append(files, NewFile(files, WindowStart(now)))
    /\ cur' = NewCur
    /\ timer' = ArmedTimer(now, now + back)
    /\ UNCHANGED <<now, back, run, tail, pending, queue, wpc, batch, drained, target,
                   unwritten, fatal, bounds>>

-----------------------------------------------------------------------------
(* Time                                                                    *)

Tick ==
    /\ now < MaxTime /\ now' = now + 1
    /\ UNCHANGED <<back, phase, run, procVars, memVars, files, bounds>>

\* The host clock is stepped back by one: visible_ns may regress.
ClockBack ==
    /\ back < MaxBackSteps /\ now > 0
    /\ now' = now - 1 /\ back' = back + 1
    /\ UNCHANGED <<phase, run, procVars, memVars, files, bounds>>

-----------------------------------------------------------------------------
\* A lane that has never run.
NeverRun ==
    /\ back = 0 /\ phase = "down" /\ tail = <<>> /\ run = 0
    /\ next = 1 /\ pending = NoRec /\ queue = <<>> /\ timer = [start |-> 0, due |-> 0]
    /\ wpc = "idle" /\ batch = <<>> /\ drained = FALSE /\ target = NoTarget
    /\ unwritten = <<>> /\ fatal = FALSE /\ cur = NoCur /\ prevVis = NoVis /\ files = <<>>

Init == NeverRun /\ now = 0 /\ frames = 0 /\ kills = 0 /\ outages = 0 /\ faults = 0

Loop    == EmitFrame \/ PutCompletes \/ RotateTimer \/ DrainTake \/ StopCapture \/ WriterFailureSeen
           \/ EmitClosing \/ SpoolSync \/ CloseStart \/ CloseDrain
Writer  == WriteBatch \/ WriteFails \/ FsyncFails \/ WriteRefused \/ BatchDone
           \/ SealStart \/ SealFsyncFails \/ SealRename \/ SealPublish \/ SealFinish
Recover == Restart \/ RecoverRename \/ RecoverSeal \/ RecoverFinish \/ Start

Next == Loop \/ Writer \/ Recover \/ Kill \/ PowerLoss \/ Tick \/ ClockBack

Spec == Init /\ [][Next]_vars

\* The event loop resumes every task that can run, the executor runs what it
\* was given, the host starts a stopped splice again, and time passes.  Frames,
\* stop requests, crashes and faults are under no obligation.
Fairness ==
    /\ WF_vars(PutCompletes) /\ WF_vars(RotateTimer) /\ WF_vars(DrainTake)
    /\ WF_vars(WriterFailureSeen) /\ WF_vars(EmitClosing) /\ WF_vars(SpoolSync)
    /\ WF_vars(CloseStart) /\ WF_vars(CloseDrain) /\ WF_vars(Writer)
    /\ WF_vars(Recover) /\ WF_vars(Tick)

FairSpec == Spec /\ Fairness

-----------------------------------------------------------------------------
(* Properties                                                              *)

\* What a queue, a file, a seal and the writer in memory can hold.
Record   == [kind : {"rec"}, idx : Nat \ {0}, vis : Nat, run : Nat]
Rotation == [kind : {"rotate"}, start : Nat]
Message  == Record \cup Rotation
SealType == [lines : Int, ok : BOOLEAN, reason : {"none", "writer", "recovery"}]
File     == [start : Nat, index : Nat, data : Seq(Record), synced : Nat, onDisk : BOOLEAN,
             torn : BOOLEAN, name : {"open", "ndjson"}, named : BOOLEAN, seal : SealType,
             sealed : BOOLEAN]
SegmentWriter == [handle : BOOLEAN, committed : Nat, dirty : BOOLEAN, poisoned : BOOLEAN,
                  done : BOOLEAN]

\* Type invariant of the lane: the queue stays within its capacity, only records
\* are retained or filed, no file has more fsynced records than records, and a
\* file with fsynced records has its name on disk (LaneWriter.append, _flush).
TypeOK ==
    /\ now \in 0..MaxTime /\ back \in 0..MaxBackSteps
    /\ phase \in Phases /\ wpc \in Steps /\ run \in 0..MaxRuns
    /\ tail \in Seq({"emit", "sync"}) /\ timer \in [start : Nat, due : Int]
    /\ next \in Nat \ {0} /\ pending \in Record \cup {NoRec}
    /\ queue \in Seq(Message) /\ Len(queue) <= Capacity
    /\ batch \in Seq(Message) /\ unwritten \in Seq(Record)
    /\ target \in Nat \cup {NoTarget} /\ prevVis \in Nat \cup {NoVis}
    /\ fatal \in BOOLEAN /\ drained \in BOOLEAN /\ cur \in SegmentWriter
    /\ files \in Seq(File)
    /\ \A i \in DOMAIN files :
         /\ files[i].synced <= Len(files[i].data)
         /\ files[i].synced > 0 => files[i].onDisk
    /\ frames \in Nat /\ kills \in Nat /\ outages \in Nat /\ faults \in Nat

\* A seal on disk is never a claim the disk does not back: the file is there
\* under its committed name, holds exactly the records the seal covers, all of
\* them fsynced, and no partial line (SegmentWriter.seal, seal_orphan,
\* repair_torn_tail).
SealIsHonest ==
    \A i \in DOMAIN files : IsSealed(files[i]) =>
        /\ files[i].name = "ndjson" /\ ~files[i].torn
        /\ files[i].seal.lines = Len(files[i].data)
        /\ files[i].synced = Len(files[i].data)

\* A seal covers exactly the records of its file and no partial line, after any
\* failed write, rollback, fsync, rename or open (write_batch's rollback and its
\* refusal to touch an unsafe segment, _flush's retention, seal_orphan).
SealMatchesFile ==
    \A i \in DOMAIN files : IsSealed(files[i]) =>
        ~files[i].torn /\ files[i].seal.lines = Len(files[i].data)

\* A lane never has two segments without a seal, and the one it may have is the
\* newest: a writer opens a segment only after sealing the one before, and a
\* restart seals what it finds first (open_segments, resume_state).
OneUnsealedSegment ==
    \A i \in DOMAIN files : ~IsSealed(files[i]) => i = Len(files)

\* File order is receive order: among the segments that hold records, sorting by
\* window and segment index gives the order they were written in
\* (segment_filename, next_segment_index), restarts and boundary races included.
FileOrderIsReceiveOrder ==
    \A i, j \in DOMAIN files :
        (i < j /\ files[i].data # <<>> /\ files[j].data # <<>>) =>
            \/ files[i].start < files[j].start
            \/ files[i].start = files[j].start /\ files[i].index < files[j].index

\* Not an invariant (a suspended put can be overtaken by the timer's):
\* every record of a sealed segment whose seal reports no clock regression was
\* received in that segment's window, whatever order the timer, the data and
\* the shutdown reached the writer in (LaneWriter._consume).
FiledInOwnWindow ==
    \A i \in DOMAIN files : (IsSealed(files[i]) /\ files[i].seal.ok) =>
        \A k \in DOMAIN files[i].data :
            WindowStart(files[i].data[k].vis) = files[i].start

\* A record is never filed in a window that had ended when it was received,
\* however late the timer fires and whether the drain task or close() places
\* it (LaneWriter._consume: "the data itself decides").
NeverFiledPastItsWindow ==
    \A i \in DOMAIN files : \A k \in DOMAIN files[i].data :
        files[i].data[k].vis < SegEnd(files[i])

\* A clean close leaves no accepted record outside the sealed tape: the highest
\* sealed index is the last one the producer used (LaneWriter.close, _flush).
CleanCloseSealsEverything ==
    phase = "closed" => ResumeIndex = next

\* Whatever fails, a seal covers exactly the records of its file, unless power
\* is lost after a storage fault; and as long as no storage call has raised, a
\* seal is never a claim the disk does not back and a clean close leaves no
\* accepted record outside the sealed tape, through kills and power losses (a
\* failing fsync of the seal breaks both: fsync is the backing).  Code:
\* SegmentWriter.seal, write_batch's rollback, seal_orphan, repair_torn_tail,
\* LaneWriter.close.
SealsAreHonest ==
    /\ (faults = 0 \/ outages = 0) => SealMatchesFile
    /\ (faults = 0 /\ OrderedDirs) => SealIsHonest
    /\ faults = 0 => CleanCloseSealsEverything

\* The files of a lane, sorted by name, are in receive order as long as the wall
\* clock was not stepped back; none holds a record received after its window
\* ended; and where directory updates become durable in order only the newest
\* file may lack a seal (segment_filename, next_segment_index, _consume,
\* open_segments).
LaneIsOrderly ==
    /\ back = 0 => FileOrderIsReceiveOrder
    /\ NeverFiledPastItsWindow
    /\ OrderedDirs => OneUnsealedSegment

\* A segment that starts with a receive time before the one the previous records
\* ended on is not sealed as an orderly one by its writer, restarts, crashes and
\* recovered segments between them included (_Accumulator.observe's seed,
\* _rotate_to, resume_state).  A seal made by recovery has no seed.
RegressionIsFlagged ==
    \A i, j \in DOMAIN files :
        (/\ i < j /\ files[i].data # <<>> /\ files[j].data # <<>>
         /\ \A k \in (i + 1)..(j - 1) : files[k].data = <<>>
         /\ files[j].data[1].vis < Last(files[i].data).vis
         /\ files[j].seal.reason = "writer") => ~files[j].seal.ok

\* What was fsynced is never lost or altered by any later step, crashes and
\* recovery included; only whole unsynced suffixes can go.
DurableSurvives ==
    [][\A i \in DOMAIN files :
          files[i].synced > 0 =>
             /\ i \in DOMAIN files'
             /\ files'[i].start = files[i].start
             /\ Len(files'[i].data) >= files[i].synced
             /\ SubSeq(files'[i].data, 1, files[i].synced) = SubSeq(files[i].data, 1, files[i].synced)]_vars

\* The segments whose seal is durable one after the other, in the order they
\* were created.  A seal not yet behind its directory fsync can still go with
\* a power loss; recovery then seals the same bytes again.
SealedTape ==
    LET tape[n \in 0..Len(files)] ==
            IF n = 0 THEN <<>>
            ELSE IF files[n].sealed THEN tape[n-1] \o files[n].data ELSE tape[n-1]
    IN  tape[Len(files)]

\* The timer keeps a quiet lane sealing: a segment whose window has ended is
\* sealed as long as the timer has a boundary to come within the bound on time
\* (LaneWriter._rotate_forever, _consume, close).
EndedWindowIsSealed ==
    (/\ files # <<>> /\ ~IsSealed(CurFile) /\ now >= SegEnd(CurFile)
     /\ timer.due <= MaxTime + back)
        ~> (files = <<>> \/ IsSealed(CurFile) \/ now < SegEnd(CurFile))

\* Shutdown ends: a stopping splice reaches the end of close(), with a full
\* queue and a busy writer thread too (BaseSplice.run, LaneWriter.close).
StopEnds == phase = "stopping" ~> phase \in {"closed", "down"}

=============================================================================
