------------------------------ MODULE Finalizer ------------------------------
(***************************************************************************)
(* indexer-finalize: sweeps the sealed segments of every lane, decides     *)
(* which windows are over, merges the lanes of each into canonical         *)
(* evidence, numbers the merged records onwards from the last committed    *)
(* window and commits window after window with a receipt.  The watermark   *)
(* is derived from the receipts.                                           *)
(*                                                                         *)
(* ingester/crates/cli/src/finalize.rs, ingester/crates/finalize/src/      *)
(* {window,canonical,watermark}.rs                                         *)
(*                                                                         *)
(* Window w is [w * Period, (w + 1) * Period).  A segment is what its seal *)
(* says of it: lane, window, index in the window, first and last delivery  *)
(* index (0 and 0 when empty) and what is wrong with it: a "seal" fault is *)
(* found by validate_window, a "record" fault only by the merge.  The      *)
(* order of the records inside a window is not part of this module, so     *)
(* the bytes of an output file stand for the segments they were merged     *)
(* from.                                                                   *)
(***************************************************************************)
EXTENDS Integers, FiniteSets

CONSTANTS
    Procs,       \* finalizer processes started on one canonical root
    NoProc,      \* no process
    Lanes,       \* the lanes that may seal segments
    Expected,    \* --expect-lane
    Period,      \* --window-seconds
    Deadline,    \* --finalization-deadline-seconds
    MaxSynth,    \* MAX_SYNTHESIZED_WINDOWS
    MaxTime,     \* bound on the wall clock
    MaxSegments, \* bound on the segments sealed by all lanes
    MaxRecords,  \* bound on the records of one segment
    MaxFaults,   \* bound on the segments with a fault
    MaxSkips,    \* bound on the delivery indices missing before a segment
    MaxKills     \* bound on SIGTERMs, kills and power losses

ASSUME FinalizerAssumption ==
    /\ NoProc \notin Procs
    /\ Expected \subseteq Lanes
    /\ Period \in Nat \ {0} /\ Deadline \in Nat /\ MaxSynth \in Nat
    /\ MaxTime \in Nat /\ MaxSegments \in Nat /\ MaxRecords \in Nat
    /\ MaxFaults \in Nat /\ MaxSkips \in Nat /\ MaxKills \in Nat

VARIABLES
    now,        \* wall clock
    spool,      \* the sealed segments on disk
    kills,      \* SIGTERMs, kills and power losses so far
    lease,      \* the process named by the lease file, NoProc without a file
    pc,         \* step of each process
    t,          \* now_ns of its sweep
    view,       \* the segments its assemble() found
    behind,     \* it found windows before the watermark that are not committed
    cursor,     \* the window its commit loop is at
    limit,      \* the last window of its ready prefix
    seq,        \* next_seq
    edge,       \* delivery_continuity: last index of each lane, 0 when none
    evidence,   \* evidence.ndjson.zst by window
    provenance, \* provenance.ndjson.zst by window
    synced,     \* evidence and provenance names a power loss cannot take away
    receipts,   \* receipt.json by window
    mark        \* watermark.json

localVars  == <<t, view, behind, cursor, limit, seq, edge>>
outputVars == <<evidence, provenance, synced>>
diskVars   == <<outputVars, receipts, mark>>
envVars    == <<now, spool, kills>>
vars       == <<envVars, lease, pc, localVars, diskVars>>

NoMark == [win |-> -1, seq |-> 0]
NoEdge == [l \in Lanes |-> 0]

\* f with w bound to v, in place of any earlier binding.
Put(f, w, v) == [x \in DOMAIN f \cup {w} |-> IF x = w THEN v ELSE f[x]]

-----------------------------------------------------------------------------
(* Windows, lanes and their verdicts                                       *)

WindowEnd(w) == (w + 1) * Period

LaneSegs(S, w, l) == {s \in S : s.win = w /\ s.lane = l}
NonEmpty(S)       == {s \in S : s.last > 0}

\* LaneSegments.first_delivery_index and last_delivery_index, 0 for None.
FirstIndex(S) ==
    IF NonEmpty(S) = {} THEN 0
    ELSE (CHOOSE s \in NonEmpty(S) : \A o \in NonEmpty(S) : s.index <= o.index).first
LastIndex(S) ==
    IF NonEmpty(S) = {} THEN 0
    ELSE (CHOOSE s \in NonEmpty(S) : \A o \in NonEmpty(S) : o.index <= s.index).last

\* delivery_is_contiguous: the indices chain over the segments with records.
Contiguous(S) ==
    \A a, b \in NonEmpty(S) :
        (/\ a.index < b.index
         /\ ~\E c \in NonEmpty(S) : a.index < c.index /\ c.index < b.index)
            => b.first = a.last + 1

\* lane_verdict: the lane arrived, no seal shows a fault, no segment is missing.
ValidLane(S, w, l) ==
    /\ LaneSegs(S, w, l) # {}
    /\ \A s \in LaneSegs(S, w, l) : s.fault # "seal"
    /\ Contiguous(LaneSegs(S, w, l))

ValidLanes(S, w) == {l \in Lanes : ValidLane(S, w, l)}

\* eligibility, with Unsatisfied empty or the deadline over.
Eligible(S, w, at) ==
    /\ at >= WindowEnd(w)
    /\ Expected \subseteq ValidLanes(S, w) \/ at >= WindowEnd(w) + Deadline

\* Mutant: the boundary to the previous window is not checked.
EdgeFaultNever(S, w, l, e) == FALSE

\* check_spans: the lane's first index does not follow its boundary.
EdgeFault(S, w, l, e) ==
    LET first == FirstIndex(LaneSegs(S, w, l))
    IN  e[l] # 0 /\ first # 0 /\ first # e[l] + 1

\* The lanes finalize_window merges: valid, continuous with the previous window
\* and without a record the merge rejects.
MergedLanes(S, w, e) ==
    {l \in ValidLanes(S, w) :
        /\ ~EdgeFault(S, w, l, e)
        /\ \A s \in LaneSegs(S, w, l) : s.fault # "record"}

Inputs(S, w, e) == {s \in S : s.win = w /\ s.lane \in MergedLanes(S, w, e)}

\* The records of a set of segments, by lane and delivery index.
RecordsOf(s) == {s.lane} \X (s.first..s.last)
Records(S)   == UNION {RecordsOf(s) : s \in NonEmpty(S)}

\* advance: the boundary of each lane of the committed window.  A lane that is
\* not present loses it, a present lane without records keeps it.
Advanced(e, r, w) ==
    [l \in Lanes |->
        IF l \notin r.present THEN 0
        ELSE LET last == LastIndex(LaneSegs(r.inputs, w, l))
             IN  IF last = 0 THEN e[l] ELSE last]

\* Mutant: the boundary is read off the newest receipt alone.
EdgeAfterNewest(R, newest) ==
    IF newest \notin DOMAIN R THEN NoEdge ELSE Advanced(NoEdge, R[newest], newest)

\* delivery_continuity: advance folded over the receipts in window order.
EdgeAfter(R, newest) ==
    LET f[w \in Int] == IF w \notin DOMAIN R THEN NoEdge
                        ELSE Advanced(f[w - 1], R[w], w)
    IN  f[newest]

\* The receipt of window w.  first and last are 0 when no record was merged.
ReceiptOf(S, w, e, from, at) ==
    LET inputs == Inputs(S, w, e)
        count  == Cardinality(Records(inputs))
    IN  [inputs   |-> inputs,
         present  |-> MergedLanes(S, w, e),
         complete |-> Expected \subseteq MergedLanes(S, w, e),
         first    |-> IF count > 0 THEN from ELSE 0,
         last     |-> IF count > 0 THEN from + count - 1 ELSE 0,
         at       |-> at]

-----------------------------------------------------------------------------
(* The plan of a sweep                                                     *)

Committed == DOMAIN receipts
Newest    == CHOOSE w \in Committed : \A v \in Committed : v <= w
Highest   == CHOOSE n \in {receipts[w].last : w \in Committed} :
                 \A w \in Committed : receipts[w].last <= n

\* Mutant: the newest receipt's last position, although an empty window has none.
RebuiltFromNewest ==
    IF Committed = {} THEN NoMark ELSE [win |-> Newest, seq |-> receipts[Newest].last]

\* load_or_rebuild: the newest receipt and the highest position of all of them.
Rebuilt == IF Committed = {} THEN NoMark ELSE [win |-> Newest, seq |-> Highest]

\* Mutant: only observed windows are tiled, an outage at the end leaves no trace.
HorizonNone(at, first) == {}

\* The wall horizon of tile_absent_windows: the newest window whose deadline is
\* over, unless it is too far from the first window to be a live outage.
Horizon(at, first) ==
    LET expired == (at - Deadline) \div Period - 1
    IN  IF /\ Committed # {}
           /\ at >= Deadline /\ expired >= first /\ expired - first <= MaxSynth
        THEN {expired} ELSE {}

\* Mutant: every sweep starts over at the oldest window of the spool.
FirstOpenOfSpool(S) == CHOOSE w \in {s.win : s \in S} : \A s \in S : w <= s.win

\* tile_absent_windows: the first window of the sweep and the last it reaches to.
FirstOpen(S) ==
    IF Committed # {} THEN Newest + 1
    ELSE CHOOSE w \in {s.win : s \in S} : \A s \in S : w <= s.win
Reach(S, at) == {s.win : s \in S} \cup Horizon(at, FirstOpen(S))
LastOpen(S, at) ==
    CHOOSE w \in Reach(S, at) : \A v \in Reach(S, at) : v <= w

NothingToTile(S, at) ==
    \/ Committed = {} /\ S = {}
    \/ Reach(S, at) = {}
    \/ FirstOpen(S) > LastOpen(S, at)

TooFar(S, at) ==
    ~NothingToTile(S, at) /\ LastOpen(S, at) - FirstOpen(S) > MaxSynth

\* ready_windows: oldest first, stopping at the first that still waits.
Ready(S, at) ==
    IF NothingToTile(S, at) THEN {}
    ELSE {w \in FirstOpen(S)..LastOpen(S, at) :
             \A v \in FirstOpen(S)..w : Eligible(S, v, at)}

\* Windows that were sealed before the watermark and never committed.
BehindWindows(S) ==
    {s.win : s \in {x \in S : Committed # {} /\ x.win <= Newest}} \ Committed

-----------------------------------------------------------------------------
(* The finalizer                                                           *)

\* Mutant: the lease file is opened without create_new.
StartAnyway(p) ==
    /\ pc[p] = "off"
    /\ lease' = p
    /\ pc' = [pc EXCEPT ![p] = "idle"]
    /\ UNCHANGED <<envVars, localVars, diskVars>>

\* RootLease::acquire: create_new, so at most one process gets past it.
Start(p) ==
    /\ pc[p] = "off"
    /\ lease = NoProc
    /\ lease' = p
    /\ pc' = [pc EXCEPT ![p] = "idle"]
    /\ UNCHANGED <<envVars, localVars, diskVars>>

\* The locals of sweep_once end with it.
Forget(p) ==
    /\ t' = [t EXCEPT ![p] = 0] /\ view' = [view EXCEPT ![p] = {}]
    /\ behind' = [behind EXCEPT ![p] = FALSE]
    /\ cursor' = [cursor EXCEPT ![p] = 0] /\ limit' = [limit EXCEPT ![p] = 0]
    /\ seq' = [seq EXCEPT ![p] = 1] /\ edge' = [edge EXCEPT ![p] = NoEdge]

\* The process ends and Drop removes the lease file.
Exit(p) ==
    /\ pc' = [pc EXCEPT ![p] = "off"]
    /\ lease' = NoProc

\* SIGTERM is looked at between two sweeps.
Stop(p) ==
    /\ pc[p] = "idle"
    /\ kills < MaxKills
    /\ kills' = kills + 1
    /\ Exit(p)
    /\ UNCHANGED <<now, spool, localVars, diskVars>>

\* sweep_once samples the clock before it reads the spool.
SampleClock(p) ==
    /\ pc[p] = "idle"
    /\ t' = [t EXCEPT ![p] = now]
    /\ pc' = [pc EXCEPT ![p] = "assemble"]
    /\ UNCHANGED <<envVars, lease, view, behind, cursor, limit, seq, edge, diskVars>>

Assemble(p) ==
    /\ pc[p] = "assemble"
    /\ view' = [view EXCEPT ![p] = spool]
    /\ pc' = [pc EXCEPT ![p] = "load"]
    /\ UNCHANGED <<envVars, lease, t, behind, cursor, limit, seq, edge, diskVars>>

\* load_or_rebuild replaces the watermark before anything can fail; then the
\* sweep is planned.  The errors load_or_rebuild and delivery_continuity return
\* for receipts that are no chain are the negations of CanonicalChain and
\* NoSilentGap.
Load(p) ==
    /\ pc[p] = "load"
    /\ ~TooFar(view[p], t[p])
    /\ mark' = Rebuilt
    /\ behind' = [behind EXCEPT ![p] = BehindWindows(view[p]) # {}]
    /\ seq' = [seq EXCEPT ![p] = Rebuilt.seq + 1]
    /\ edge' = [edge EXCEPT ![p] = EdgeAfter(receipts, Rebuilt.win)]
    /\ IF Ready(view[p], t[p]) = {}
       THEN /\ pc' = [pc EXCEPT ![p] = "report"]
            /\ UNCHANGED <<cursor, limit>>
       ELSE /\ pc' = [pc EXCEPT ![p] = "window"]
            /\ cursor' = [cursor EXCEPT ![p] = FirstOpen(view[p])]
            /\ limit' = [limit EXCEPT ![p] =
                   CHOOSE w \in Ready(view[p], t[p]) :
                       \A v \in Ready(view[p], t[p]) : v <= w]
    /\ UNCHANGED <<envVars, lease, t, view, outputVars, receipts>>

\* More windows to tile than one run may synthesize: the sweep is an error.
LoadRefused(p) ==
    /\ pc[p] = "load"
    /\ TooFar(view[p], t[p])
    /\ mark' = Rebuilt
    /\ Exit(p) /\ Forget(p)
    /\ UNCHANGED <<envVars, outputVars, receipts>>

\* Mutant: the verdict taken before the merge is not asked again.
ShortNever(p) == FALSE

\* finalize_window after the merge: a window that is short of an expected lane
\* while its deadline runs is deferred, and the loop ends there.
Short(p) ==
    /\ ~(Expected \subseteq MergedLanes(view[p], cursor[p], edge[p]))
    /\ t[p] < WindowEnd(cursor[p]) + Deadline

Defer(p) ==
    /\ pc[p] = "window"
    /\ Short(p)
    /\ pc' = [pc EXCEPT ![p] = "report"]
    /\ UNCHANGED <<envVars, lease, localVars, diskVars>>

\* The two renames and the one directory fsync that make the outputs durable.
PublishEvidence(p) ==
    /\ pc[p] = "window"
    /\ ~Short(p)
    /\ evidence' = Put(evidence, cursor[p], Inputs(view[p], cursor[p], edge[p]))
    /\ pc' = [pc EXCEPT ![p] = "provenance"]
    /\ UNCHANGED <<envVars, lease, localVars, provenance, synced, receipts, mark>>

PublishProvenance(p) ==
    /\ pc[p] = "provenance"
    /\ provenance' = Put(provenance, cursor[p],
                         [inputs |-> Inputs(view[p], cursor[p], edge[p]), from |-> seq[p]])
    /\ pc' = [pc EXCEPT ![p] = "sync"]
    /\ UNCHANGED <<envVars, lease, localVars, evidence, synced, receipts, mark>>

\* Mutant: the watermark is written before the receipt.
SyncOutputsMarkFirst(p) ==
    /\ pc[p] = "sync"
    /\ synced' = [evidence |-> evidence, provenance |-> provenance]
    /\ mark' = [win |-> cursor[p], seq |-> mark.seq]
    /\ pc' = [pc EXCEPT ![p] = "receipt"]
    /\ UNCHANGED <<envVars, lease, localVars, evidence, provenance, receipts>>

SyncOutputs(p) ==
    /\ pc[p] = "sync"
    /\ synced' = [evidence |-> evidence, provenance |-> provenance]
    /\ pc' = [pc EXCEPT ![p] = "receipt"]
    /\ UNCHANGED <<envVars, lease, localVars, evidence, provenance, receipts, mark>>

\* write_receipt (bytes, rename and directory fsynced: one durable step), and
\* the positions and boundaries the loop carries on.
WriteReceipt(p) ==
    /\ pc[p] = "receipt"
    /\ LET r == ReceiptOf(view[p], cursor[p], edge[p], seq[p], t[p])
       IN  /\ receipts' = Put(receipts, cursor[p], r)
           /\ seq' = [seq EXCEPT ![p] = IF r.last > 0 THEN r.last + 1 ELSE @]
           /\ edge' = [edge EXCEPT ![p] = Advanced(@, r, cursor[p])]
    /\ pc' = [pc EXCEPT ![p] = "mark"]
    /\ UNCHANGED <<envVars, lease, t, view, behind, cursor, limit, outputVars, mark>>

\* Watermark::advance and write, then the next window of the loop.
WriteMark(p) ==
    /\ pc[p] = "mark"
    /\ mark' = [win |-> cursor[p], seq |-> seq[p] - 1]
    /\ cursor' = [cursor EXCEPT ![p] = @ + 1]
    /\ pc' = [pc EXCEPT ![p] = IF cursor[p] < limit[p] THEN "window" ELSE "report"]
    /\ UNCHANGED <<envVars, lease, t, view, behind, limit, seq, edge, outputVars, receipts>>

\* The report.  A window behind the watermark makes the whole sweep an error.
Report(p) ==
    /\ pc[p] = "report"
    /\ IF behind[p] THEN Exit(p)
       ELSE pc' = [pc EXCEPT ![p] = "idle"] /\ UNCHANGED lease
    /\ Forget(p)
    /\ UNCHANGED <<envVars, diskVars>>

-----------------------------------------------------------------------------
(* Crashes, the operator, the lanes and the clock                          *)

\* A kill leaves the lease file behind.
Kill(p) ==
    /\ pc[p] # "off"
    /\ kills < MaxKills
    /\ kills' = kills + 1
    /\ pc' = [pc EXCEPT ![p] = "off"]
    /\ Forget(p)
    /\ UNCHANGED <<now, spool, lease, diskVars>>

\* A power loss ends every process and may undo a rename that no directory
\* fsync followed; the lease file's own name is never synced.
PowerLoss ==
    /\ kills < MaxKills
    /\ kills' = kills + 1
    /\ pc' = [p \in Procs |-> "off"]
    /\ t' = [p \in Procs |-> 0] /\ view' = [p \in Procs |-> {}]
    /\ behind' = [p \in Procs |-> FALSE]
    /\ cursor' = [p \in Procs |-> 0] /\ limit' = [p \in Procs |-> 0]
    /\ seq' = [p \in Procs |-> 1] /\ edge' = [p \in Procs |-> NoEdge]
    /\ lease' \in {lease, NoProc}
    /\ evidence' \in {evidence, synced.evidence}
    /\ provenance' \in {provenance, synced.provenance}
    /\ synced' = [evidence |-> evidence', provenance |-> provenance']
    /\ UNCHANGED <<now, spool, receipts, mark>>

\* "If no finalizer is running, that process died and the file can be removed."
ClearLease ==
    /\ lease # NoProc
    /\ pc[lease] = "off"
    /\ lease' = NoProc
    /\ UNCHANGED <<envVars, pc, localVars, diskVars>>

OfLane(l) == {s \in spool : s.lane = l}

MaxIndex == MaxSegments * (MaxRecords + MaxSkips)

\* A lane publishes a segment of n records: of a window that has begun and is not
\* older than its last one, numbered from `first`, which follows its last record
\* or skips the indices of records the lane lost; 0 stands for the missing first
\* index of an empty segment.
Seal(l, w, first, n, fault) ==
    /\ Cardinality(spool) < MaxSegments
    /\ w * Period <= now
    /\ \A s \in OfLane(l) : s.win <= w
    /\ fault # "none" => Cardinality({s \in spool : s.fault # "none"}) < MaxFaults
    /\ IF n = 0 THEN first = 0 /\ fault # "record"
       ELSE /\ first > 0 /\ \A s \in OfLane(l) : s.last < first
            /\ \/ first <= MaxSkips + 1
               \/ \E s \in OfLane(l) : first - s.last <= MaxSkips + 1
    /\ spool' = spool \cup
           {[lane |-> l, win |-> w, index |-> Cardinality(LaneSegs(spool, w, l)),
             first |-> first, last |-> IF n = 0 THEN 0 ELSE first + n - 1,
             fault |-> fault]}
    /\ UNCHANGED <<now, kills, lease, pc, localVars, diskVars>>

Tick ==
    /\ now < MaxTime
    /\ now' = now + 1
    /\ UNCHANGED <<spool, kills, lease, pc, localVars, diskVars>>

-----------------------------------------------------------------------------

Init ==
    /\ now = 0 /\ spool = {} /\ kills = 0
    /\ lease = NoProc
    /\ pc = [p \in Procs |-> "off"]
    /\ t = [p \in Procs |-> 0]
    /\ view = [p \in Procs |-> {}]
    /\ behind = [p \in Procs |-> FALSE]
    /\ cursor = [p \in Procs |-> 0]
    /\ limit = [p \in Procs |-> 0]
    /\ seq = [p \in Procs |-> 1]
    /\ edge = [p \in Procs |-> NoEdge]
    /\ evidence = <<>> /\ provenance = <<>>
    /\ synced = [evidence |-> <<>>, provenance |-> <<>>]
    /\ receipts = <<>>
    /\ mark = NoMark

Step(p) ==
    \/ SampleClock(p) \/ Assemble(p) \/ Load(p) \/ LoadRefused(p)
    \/ Defer(p) \/ PublishEvidence(p) \/ PublishProvenance(p) \/ SyncOutputs(p)
    \/ WriteReceipt(p) \/ WriteMark(p) \/ Report(p)

Next ==
    \/ \E p \in Procs : Start(p) \/ Stop(p) \/ Step(p) \/ Kill(p)
    \/ PowerLoss \/ ClearLease \/ Tick
    \/ \E l \in Lanes, w \in 0..MaxTime, first \in 0..MaxIndex, n \in 0..MaxRecords,
          fault \in {"none", "seal", "record"} : Seal(l, w, first, n, fault)

Spec == Init /\ [][Next]_vars

\* A running finalizer goes on, the container is started again, the operator
\* clears a dead process's lease, and time passes.
FairSpec ==
    /\ Spec
    /\ \A p \in Procs : WF_vars(Step(p))
    /\ WF_vars(\E p \in Procs : Start(p))
    /\ WF_vars(ClearLease) /\ WF_vars(Tick)

-----------------------------------------------------------------------------
(* Properties                                                              *)

Log == INSTANCE CanonicalLog WITH log <- receipts

\* The receipts on disk implement the canonical log: committed windows never
\* change, and each new one takes the next window and the next positions, across
\* kills, power losses and a second finalizer (write_receipt, load_or_rebuild).
ImplementsCanonicalLog == Log!Spec

Segment ==
    [lane : Lanes, win : 0..MaxTime, index : Nat, first : Nat, last : Nat,
     fault : {"none", "seal", "record"}]

Receipt ==
    [inputs : SUBSET Segment, present : SUBSET Lanes, complete : BOOLEAN,
     first : Nat, last : Nat, at : Nat]

PCs == {"off", "idle", "assemble", "load", "window", "provenance", "sync",
        "receipt", "mark", "report"}

\* Type invariant of indexer-finalize: positions, windows and receipts are in
\* range at every step of the sweep.
TypeOK ==
    /\ now \in Nat /\ kills \in Nat
    /\ spool \in SUBSET Segment /\ IsFiniteSet(spool)
    /\ lease \in Procs \cup {NoProc}
    /\ pc \in [Procs -> PCs]
    /\ t \in [Procs -> Nat]
    /\ view \in [Procs -> SUBSET Segment] /\ \A p \in Procs : IsFiniteSet(view[p])
    /\ behind \in [Procs -> BOOLEAN]
    /\ cursor \in [Procs -> Nat] /\ limit \in [Procs -> Nat]
    /\ seq \in [Procs -> Nat \ {0}]
    /\ DOMAIN edge = Procs
    /\ Committed \subseteq Nat
    /\ receipts = [w \in Committed |-> receipts[w]]
    /\ \A w \in Committed : receipts[w] \in Receipt
    /\ mark \in [win : Nat \cup {-1}, seq : Nat]

\* The receipts load_or_rebuild accepts: the committed windows have no hole and
\* the canonical positions of their records are dense, in window order, from 1.
CanonicalChain ==
    /\ \A v, w \in Committed : v..w \subseteq Committed
    /\ \A w \in Committed :
          LET r == receipts[w]
          IN  \/ r.first = 0 /\ r.last = 0
              \/ /\ 1 <= r.first /\ r.first <= r.last
                 /\ \A v \in Committed : v < w => receipts[v].last < r.first
                 /\ r.first = 1 \/ \E v \in Committed : v < w /\ receipts[v].last + 1 = r.first

\* The watermark is written only after the window's own receipt is durable: it
\* never names a window that is not committed, and the positions it counts are
\* the highest of the receipts up to that window.
MarkNeverAhead ==
    mark # NoMark =>
        /\ mark.win \in Committed
        /\ Committed \subseteq 0..(mark.win + 1)
        /\ \A w \in Committed : w <= mark.win => receipts[w].last <= mark.seq
        /\ mark.seq = 0 \/ \E w \in Committed : w <= mark.win /\ receipts[w].last = mark.seq

\* One finalizer at a time over a canonical root: whoever is past acquire holds
\* the lease, whatever was killed and cleaned up before (RootLease).
LeaseExcludes == \A p \in Procs : pc[p] # "off" => lease = p

\* What the commit loop carries from window to window is what a restart would
\* rebuild from the receipts, so the output does not depend on where a run stopped
\* (sweep_once, load_or_rebuild, delivery_continuity).
RestartEquivalence ==
    \A p \in Procs : pc[p] \in {"window", "provenance", "sync", "receipt"} =>
        /\ seq[p] = Rebuilt.seq + 1
        /\ edge[p] = EdgeAfter(receipts, Rebuilt.win)
        /\ Committed # {} => cursor[p] = Rebuilt.win + 1

\* The delivery indices lane l contributed to windows v..w.
Delivered(l, v, w) ==
    {i \in 1..(MaxIndex + MaxRecords) :
        \E x \in v..w : \E s \in receipts[x].inputs :
            s.lane = l /\ s.last > 0 /\ s.first <= i /\ i <= s.last}

\* A lane's lost or late records never vanish silently: over any run of committed
\* windows that all name the lane as present, the records merged have no gap
\* (DeliveryContinuity, delivery_is_contiguous).
NoSilentGap ==
    \A l \in Lanes, v, w \in Committed :
        (v <= w /\ \A x \in v..w : l \in receipts[x].present) =>
            \A i, j \in Delivered(l, v, w) : i..j \subseteq Delivered(l, v, w)

\* A receipt never vouches for files that are not there: the evidence and the
\* provenance on disk are the ones it was computed from, also after a power loss
\* between the renames and the receipt (finalize_window, read_receipt).
OutputsMatchReceipt ==
    \A w \in Committed :
        LET r == receipts[w]
        IN  /\ w \in DOMAIN evidence /\ w \in DOMAIN provenance
            /\ evidence[w] = r.inputs /\ provenance[w].inputs = r.inputs
            /\ r.first # 0 => provenance[w].from = r.first

\* A restart rebuilds exactly what the killed process carried in memory, and every
\* receipt it rebuilds from vouches for files that are there, also after a power
\* loss between the renames and the receipt (load_or_rebuild, finalize_window).
RestartIsFaithful == RestartEquivalence /\ OutputsMatchReceipt

\* A window commits without one of its expected lanes only after its deadline,
\* also when the lane is found to be unusable in the middle of the merge.
IncompleteOnlyAfterDeadline ==
    \A w \in Committed :
        /\ receipts[w].at >= WindowEnd(w)
        /\ ~receipts[w].complete => receipts[w].at >= WindowEnd(w) + Deadline

\* Not an invariant (a segment sealed after the boundary breaks it): "every expected
\* lane has sealed" is taken as proof that an ended window is
\* over: a complete receipt holds every record the expected lanes sealed for the
\* window (eligibility).
CompleteMeansAll ==
    \A w \in Committed : receipts[w].complete =>
        \A s \in spool : s.win = w /\ s.lane \in Expected => s \in receipts[w].inputs

\* Once a window is committed, every window whose deadline has passed is, the ones
\* no lane sealed anything for included (sweep_once, tile_absent_windows).
EndedWindowIsCommitted ==
    \A w \in 0..MaxTime :
        (/\ now >= WindowEnd(w) + Deadline
         /\ (\E s \in spool : s.win = w) \/ (\E v \in Committed : v < w))
            ~> (w \in Committed \/ \E v \in Committed : w < v)

-----------------------------------------------------------------------------
(* The inductive invariant of FinalizerProofs                              *)

\* A newest window and a highest position exist: what Rebuilt chooses.
NewestExists ==
    Committed # {} => \E w \in Committed : \A v \in Committed : v <= w
HighestExists ==
    Committed # {} =>
        \E w \in Committed : \A v \in Committed : receipts[v].last <= receipts[w].last

\* next_seq is the position after the highest one of the receipts.
SeqIsNext(p) ==
    /\ \A v \in Committed : receipts[v].last < seq[p]
    /\ seq[p] = 1 \/ \E v \in Committed : receipts[v].last + 1 = seq[p]

\* The commit loop stands right after the newest receipt, which the watermark
\* names, until its own receipt is written.
CarriedInv ==
    \A p \in Procs :
        /\ pc[p] \in {"window", "provenance", "sync", "receipt"} =>
               /\ SeqIsNext(p)
               /\ Committed # {} =>
                      /\ mark.win \in Committed /\ mark.win + 1 = cursor[p]
                      /\ \A v \in Committed : v < cursor[p]
        /\ pc[p] = "mark" =>
               /\ SeqIsNext(p)
               /\ cursor[p] \in Committed /\ \A v \in Committed : v <= cursor[p]

\* The strengthening of CanonicalChain and MarkNeverAhead that every step of
\* indexer-finalize preserves.
CommitInv ==
    /\ TypeOK /\ LeaseExcludes
    /\ NewestExists /\ HighestExists
    /\ CanonicalChain /\ CarriedInv /\ MarkNeverAhead

Looping == {"window", "provenance", "sync", "receipt", "mark"}

\* The windows of a ready prefix are over by the sweep's own clock, and the verdict
\* on a window whose outputs are being published was taken after the merge.
EndedInv ==
    \A p \in Procs :
        /\ pc[p] \in Looping =>
               /\ cursor[p] <= limit[p]
               /\ \A v \in cursor[p]..limit[p] : WindowEnd(v) <= t[p]
        /\ pc[p] \in {"provenance", "sync", "receipt"} => ~Short(p)

\* Evidence and provenance files that hold what the receipts were computed from.
EvidenceMatches(ev) ==
    \A w \in Committed : w \in DOMAIN ev /\ ev[w] = receipts[w].inputs
ProvenanceMatches(pr) ==
    \A w \in Committed :
        /\ w \in DOMAIN pr /\ pr[w].inputs = receipts[w].inputs
        /\ receipts[w].first # 0 => pr[w].from = receipts[w].first

\* The files of the committed windows survive whatever a power loss takes, and the
\* ones of the window being committed are on disk before its receipt.
OutputsInv ==
    /\ EvidenceMatches(evidence) /\ EvidenceMatches(synced.evidence)
    /\ ProvenanceMatches(provenance) /\ ProvenanceMatches(synced.provenance)
    /\ \A p \in Procs :
          /\ pc[p] \in {"provenance", "sync", "receipt"} =>
                 /\ cursor[p] \in DOMAIN evidence
                 /\ evidence[cursor[p]] = Inputs(view[p], cursor[p], edge[p])
          /\ pc[p] \in {"sync", "receipt"} =>
                 /\ cursor[p] \in DOMAIN provenance
                 /\ provenance[cursor[p]] =
                        [inputs |-> Inputs(view[p], cursor[p], edge[p]), from |-> seq[p]]
          /\ pc[p] = "receipt" =>
                 synced.evidence = evidence /\ synced.provenance = provenance

\* The boundaries the loop carries are the ones the receipts fold to.
EdgeInv ==
    \A p \in Procs : pc[p] \in Looping => edge[p] = EdgeAfter(receipts, Rebuilt.win)

\* The segments of a lane's window are numbered apart, records are numbered from 1,
\* and views and receipts name segments of the spool.
SpoolInv ==
    /\ \A s \in spool :
          /\ s.last > 0 => 1 <= s.first /\ s.first <= s.last /\ s.last <= MaxIndex + MaxRecords
          /\ s.index < Cardinality(LaneSegs(spool, s.win, s.lane))
    /\ \A a, b \in spool :
          a.lane = b.lane /\ a.win = b.win /\ a.index = b.index => a = b
    /\ \A p \in Procs : view[p] \subseteq spool

\* NoSilentGap, with the boundary of a lane as its newest record in every run of
\* windows that name it.
GapInv ==
    \A l \in Lanes, v, w \in Committed :
        (v <= w /\ \A x \in v..w : l \in receipts[x].present) =>
            /\ \A i, j \in Delivered(l, v, w) : i..j \subseteq Delivered(l, v, w)
            /\ Delivered(l, v, w) # {} =>
                  /\ EdgeAfter(receipts, w)[l] \in Delivered(l, v, w)
                  /\ \A i \in Delivered(l, v, w) : i <= EdgeAfter(receipts, w)[l]

\* The inductive invariant of the whole sweep.
IInv ==
    /\ CommitInv
    /\ EndedInv /\ IncompleteOnlyAfterDeadline
    /\ OutputsInv
    /\ EdgeInv /\ SpoolInv /\ GapInv

=============================================================================
