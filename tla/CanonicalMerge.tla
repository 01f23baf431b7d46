--------------------------- MODULE CanonicalMerge ---------------------------
(***************************************************************************)
(* How the finalizer turns the sealed segments of a window into canonical  *)
(* evidence: each lane's lines are read and held against its seal          *)
(* (reader.rs), merged by (visible_ns, rank, delivery_index, name) with    *)
(* the cross-lane ties marked (merge.rs, rank.rs), checked for identity    *)
(* against a scratch index (identity.rs) and classified from the ordering  *)
(* state the previous receipt carries (continuity.rs).  A fault found in a *)
(* line excludes its lane and starts the attempt again.  The second half   *)
(* is the audited reader of what was committed (audit.rs).                 *)
(***************************************************************************)
EXTENDS Integers, Sequences, SequencesExt, FiniteSets, FiniteSetsExt

CONSTANTS
    Lanes,        \* capture lanes, in name order
    Ranks,        \* LANE_RANKS, for the lanes it names
    Expected,     \* the lanes the deployment manifest declares
    LastWindow,   \* bound on windows
    MaxRecords,   \* bound on lines
    MaxMishaps,   \* bound on reconnects, skipped numbers, faulty lines, crashes and reaps
    None

UnrankedLaneRank == 1000

VARIABLES
    tape,      \* tape[l]: the lines of lane l, in file order
    claims,    \* claims[l]: what the writer tallied for the open window
    live,      \* live[l]: epoch, counter and last venue number of l's connection
    window,    \* the window being captured, then merged
    stage,     \* "capture", "merge"
    late,      \* the window's deadline has passed
    invalid,   \* lanes excluded from this window so far
    att,       \* the merge attempt in progress
    scratch,   \* the identity index file on disk
    receipts,  \* the committed windows
    reaped,    \* windows whose outputs were archived and deleted
    mishaps

vars == <<tape, claims, live, window, stage, late, invalid, att, scratch, receipts, reaped, mishaps>>

LaneSet == Range(Lanes)
NameOrder(l) == CHOOSE i \in DOMAIN Lanes : Lanes[i] = l

(* Two instants to a window. *)
Start(w) == 2 * w - 1
End(w) == 2 * w + 1
Instants(w) == Start(w) .. End(w) - 1
Lines(l, w) == SelectSeq(tape[l], LAMBDA r : r.visible \in Instants(w))

(* lane_rank *)
LaneRank(l) == IF l \in DOMAIN Ranks THEN Ranks[l] ELSE UnrankedLaneRank
-----------------------------------------------------------------------------
(* Capture: a splice files one line                                        *)

NoClaims == [count |-> 0, first |-> None, last |-> None]
Claimed(c, r) ==
    LET at == <<r.visible, r.index>>
    IN [count |-> c.count + 1, first |-> IF c.count = 0 THEN at ELSE c.first, last |-> at]

LastLine(l) == tape[l][Len(tape[l])]
NextIndex(l) == live[l].index + 1

File(l, r) ==
    /\ MapThenSumSet(LAMBDA m : live[m].index, LaneSet) < MaxRecords
    /\ tape' = [tape EXCEPT ![l] = Append(@, r)]
    /\ claims' = [claims EXCEPT ![l] = Claimed(@, r)]
    /\ live' = [live EXCEPT ![l] = [epoch |-> r.epoch, counter |-> r.counter, index |-> r.index,
                                    visible |-> r.visible,
                                    key |-> IF r.key = 0 /\ r.epoch = @.epoch THEN @.key ELSE r.key]]
    /\ UNCHANGED <<window, stage, late, invalid, att, scratch, receipts, reaped>>

Record(l, t, epoch, counter, key) ==
    [lane |-> l, visible |-> t, index |-> NextIndex(l), epoch |-> epoch, counter |-> counter,
     key |-> key, bad |-> FALSE]

(* A connection opens with a control record, and then carries frames the   *)
(* venue numbers; the venue may skip one.                                  *)
Connect(l) ==
    /\ stage = "capture"
    /\ \E t \in Instants(window) :
           /\ t >= live[l].visible
           /\ File(l, Record(l, t, live[l].epoch + 1, 1, 0))
    /\ mishaps' = mishaps + (IF live[l].epoch > 0 THEN 1 ELSE 0)
    /\ mishaps' <= MaxMishaps

Deliver(l) ==
    /\ stage = "capture"
    /\ live[l].epoch > 0
    /\ \E t \in Instants(window), skip \in 0 .. 1 :
           /\ t >= live[l].visible
           /\ File(l, Record(l, t, live[l].epoch, live[l].counter + 1, live[l].key + 1 + skip))
           /\ mishaps' = mishaps + skip
    /\ mishaps' <= MaxMishaps

(* A line the seal cannot speak for: its envelope does not parse, or it    *)
(* never reached the file its writer summed up.                            *)
Malform(l) ==
    /\ stage = "capture" /\ mishaps < MaxMishaps
    /\ tape[l] # <<>> /\ LastLine(l).visible \in Instants(window)
    /\ tape' = [tape EXCEPT ![l][Len(tape[l])].bad = TRUE]
    /\ mishaps' = mishaps + 1
    /\ UNCHANGED <<claims, live, window, stage, late, invalid, att, scratch, receipts, reaped>>

Misfile(l) ==
    /\ stage = "capture" /\ mishaps < MaxMishaps
    /\ tape[l] # <<>> /\ LastLine(l).visible \in Instants(window)
    /\ tape' = [tape EXCEPT ![l] = Front(@)]
    /\ mishaps' = mishaps + 1
    /\ UNCHANGED <<claims, live, window, stage, late, invalid, att, scratch, receipts, reaped>>

Seal ==
    /\ stage = "capture"
    /\ stage' = "merge"
    /\ UNCHANGED <<tape, claims, live, window, late, invalid, att, scratch, receipts, reaped, mishaps>>
-----------------------------------------------------------------------------
(* reader.rs and merge.rs: the next line of a lane, or what is wrong with  *)
(* it.  Past the last line the segment's summary is held against the seal. *)

Disagrees(l) ==
    LET seen == FoldLeft(Claimed, NoClaims, Lines(l, window)) IN seen # claims[l]

Follows(l, n) ==
    LET lines == Lines(l, window)
    IN n > 1 => /\ lines[n].index = lines[n - 1].index + 1
                /\ lines[n].visible >= lines[n - 1].visible

(* read_line and advance: does reading line n of the lane fail? *)
Faulty(l, n) ==
    IF n > Len(Lines(l, window)) THEN Disagrees(l)
    ELSE \/ Lines(l, window)[n].bad
         \/ n > claims[l].count
         \/ ~Follows(l, n)

(* Pending.key, compared lexicographically *)
Key(r) == <<r.visible, LaneRank(r.lane), r.index, NameOrder(r.lane)>>
Precedes(a, b) ==
    \E i \in 1 .. 4 : /\ a[i] < b[i]
                      /\ \A j \in 1 .. i - 1 : a[j] = b[j]

Heads == {l \in att.lanes : att.at[l] <= Len(Lines(l, window))}
Head1(l) == Lines(l, window)[att.at[l]]
Least == CHOOSE l \in Heads : \A m \in Heads \ {l} : Precedes(Key(Head1(l)), Key(Head1(m)))
-----------------------------------------------------------------------------
(* continuity.rs and the classifier *)

NewEpoch == [counter |-> None, key |-> None]

(* classify_cause *)
Cause(r, held) ==
    CASE held.counter # None /\ r.counter # held.counter + 1 -> "local_counter_broken"
      [] r.key = 0                                           -> "lifecycle"
      [] held.key = None                                     -> "bootstrap"
      [] r.key = held.key + 1                                -> "continuous"
      [] r.key <= held.key                                   -> "cursor_went_backwards"
      [] OTHER                                               -> "gap_proven"

(* An epoch identifier is fresh for every connection of every lane. *)
Epoch(r) == <<r.lane, r.epoch>>
HeldOf(state, r) == IF Epoch(r) \in DOMAIN state THEN state[Epoch(r)] ELSE NewEpoch
Id(r) == <<r.lane, r.epoch, r.counter>>

(* classify_with_identity: an id seen before touches nothing. *)
Classify(state, ids, r) == IF Id(r) \in ids THEN "duplicate" ELSE Cause(r, HeldOf(state, r))

(* ClassifierState.observe *)
Observe(state, r, cause) ==
    IF cause = "duplicate" THEN state
    ELSE LET held == HeldOf(state, r)
             key == IF r.key = 0 THEN held.key
                    ELSE IF held.key # None /\ held.key > r.key THEN held.key ELSE r.key
         IN [e \in DOMAIN state \cup {Epoch(r)} |->
                IF e = Epoch(r) THEN [counter |-> r.counter, key |-> key] ELSE state[e]]

(* OrderingState.seed *)
Seed(carry) == carry

(* OrderingState.capture: a lane's entry survives its own silence, and a   *)
(* lane that spoke keeps the epochs it spoke in.                           *)
Spoke(out) == {out[i].lane : i \in DOMAIN out}
\* mutant: only what this window saw is carried
CaptureSpoken(carry, state, out) ==
    [k \in {Epoch(out[i]) : i \in DOMAIN out} |-> state[k]]
Capture(carry, state, out) ==
    LET silent == {k \in DOMAIN carry : k[1] \notin Spoke(out)}
        spoken == {Epoch(out[i]) : i \in DOMAIN out}
    IN [k \in silent \cup spoken |-> IF k \in spoken THEN state[k] ELSE carry[k]]

Carried == IF receipts = <<>> THEN [ordering |-> << >>, clocks |-> << >>]
           ELSE receipts[Len(receipts)].carried
-----------------------------------------------------------------------------
(* The attempt *)

(* The next canonical position: past the highest any window assigned. *)
NextSeq == 1 + MapThenSumSet(LAMBDA w : Len(receipts[w].out), DOMAIN receipts)
Usable == LaneSet \ invalid

(* AttemptIdentity.create removes what a killed attempt left, and every    *)
(* attempt starts from the carried ordering state.                         *)
FreshScratch == {}

Begin ==
    /\ stage = "merge" /\ att = None
    /\ scratch' = FreshScratch
    /\ LET broken == {l \in Usable : Faulty(l, 1)}
       IN IF broken = {}
          THEN /\ att' = [lanes |-> Usable, at |-> [l \in LaneSet |-> 1], run |-> <<>>,
                          out |-> <<>>, state |-> Seed(Carried.ordering), closed |-> FALSE]
               /\ UNCHANGED invalid
          ELSE /\ invalid' = invalid \cup {CHOOSE l \in broken :
                                             \A m \in broken : NameOrder(l) <= NameOrder(m)}
               /\ UNCHANGED att
    /\ UNCHANGED <<tape, claims, live, window, stage, late, receipts, reaped, mishaps>>

(* One merged record: evidence line, verdict, provenance line, and only    *)
(* then the state and the identity index.                                  *)
Write(acc, r, tie) ==
    LET cause == Classify(acc.state, acc.ids, r)
    IN [out |-> Append(acc.out, [window |-> window, seq |-> NextSeq + Len(acc.out), lane |-> r.lane, epoch |-> r.epoch,
                                 counter |-> r.counter, visible |-> r.visible, index |-> r.index,
                                 verdict |-> cause, tie |-> tie]),
        state |-> Observe(acc.state, r, cause),
        ids |-> acc.ids \cup {Id(r)}]

(* close_run: the run is a tie exactly when it spans lanes. *)
CrossLane(run) == \E i \in DOMAIN run : run[i].lane # run[1].lane
CloseRun(run) ==
    FoldLeft(LAMBDA acc, r : Write(acc, r, CrossLane(run)),
             [out |-> att.out, state |-> att.state, ids |-> scratch], run)

(* Merge.next and TieGroups.next: the least head is taken and its lane     *)
(* advanced; a new instant settles the run before it.                      *)
Fail(l) ==
    /\ invalid' = invalid \cup {l}
    /\ att' = None
    /\ UNCHANGED scratch

Pop ==
    /\ stage = "merge" /\ att # None
    /\ Heads # {}
    /\ LET l == Least
           r == Head1(l)
           ends == att.run # <<>> /\ att.run[1].visible # r.visible
           done == IF ends THEN CloseRun(att.run)
                   ELSE [out |-> att.out, state |-> att.state, ids |-> scratch]
       IN IF Faulty(l, att.at[l] + 1) THEN Fail(l)
          ELSE /\ att' = [att EXCEPT !.at[l] = @ + 1,
                                     !.run = IF ends THEN <<r>> ELSE Append(@, r),
                                     !.out = done.out, !.state = done.state]
               /\ scratch' = done.ids
               /\ UNCHANGED invalid
    /\ UNCHANGED <<tape, claims, live, window, stage, late, receipts, reaped, mishaps>>

Drain ==
    /\ stage = "merge" /\ att # None
    /\ Heads = {} /\ ~att.closed
    /\ LET done == CloseRun(att.run)
       IN /\ att' = [att EXCEPT !.run = <<>>, !.out = done.out, !.state = done.state, !.closed = TRUE]
          /\ scratch' = done.ids
    /\ UNCHANGED <<tape, claims, live, window, stage, late, invalid, receipts, reaped, mishaps>>

(* Excluding a lane can leave a window short whose deadline still runs:    *)
(* nothing is published, and a later tick starts over.                     *)
Short == Expected \cap invalid # {}
Defer ==
    /\ stage = "merge" /\ att # None /\ att.closed
    /\ Short /\ ~late
    /\ att' = None
    /\ invalid' = {}
    /\ scratch' = {}
    /\ late' = TRUE
    /\ UNCHANGED <<tape, claims, live, window, stage, receipts, reaped, mishaps>>

(* clock_faults and the receipt *)
FirstClock(out, l) == out[Min({i \in DOMAIN out : out[i].lane = l})].visible
LastClock(out, l) == out[Max({i \in DOMAIN out : out[i].lane = l})].visible
ClockFaults(out) ==
    {l \in Spoke(out) \cap DOMAIN Carried.clocks : FirstClock(out, l) < Carried.clocks[l]}

Commit ==
    /\ stage = "merge" /\ att # None /\ att.closed
    /\ Short => late
    /\ receipts' = Append(receipts,
           [window |-> window, out |-> att.out, present |-> att.lanes,
            certified |-> ~Short /\ ClockFaults(att.out) = {},
            carried |-> [ordering |-> Capture(Carried.ordering, att.state, att.out),
                         clocks |-> [l \in DOMAIN Carried.clocks \cup Spoke(att.out) |->
                                        IF l \in Spoke(att.out) THEN LastClock(att.out, l)
                                        ELSE Carried.clocks[l]]]])
    /\ att' = None
    /\ scratch' = {}
    /\ invalid' = {}
    /\ late' = FALSE
    /\ window' = window + 1
    /\ stage' = IF window = LastWindow THEN "done" ELSE "capture"
    /\ claims' = [l \in LaneSet |-> NoClaims]
    /\ UNCHANGED <<tape, live, reaped, mishaps>>

(* The process is killed: the attempt is gone, its scratch file is not. *)
Crash ==
    /\ att # None /\ mishaps < MaxMishaps
    /\ att' = None
    /\ invalid' = {}
    /\ mishaps' = mishaps + 1
    /\ UNCHANGED <<tape, claims, live, window, stage, late, scratch, receipts, reaped>>

(* The canonical reaper deletes the outputs of an archived window. *)
Reap(w) ==
    /\ stage = "done"
    /\ w \in DOMAIN receipts
    /\ mishaps < MaxMishaps
    /\ reaped' = reaped \cup {w}
    /\ mishaps' = mishaps + 1
    /\ UNCHANGED <<tape, claims, live, window, stage, late, invalid, att, scratch, receipts>>
-----------------------------------------------------------------------------
(* audit.rs: the windows that cover [from, to) under a policy, and what    *)
(* reading them yields                                                     *)

(* SelectionPolicy: what becomes of a lower bound inside a window, and     *)
(* whether an uncertified window is refused.                               *)
Policies == {<<"require", TRUE>>, <<"clip", TRUE>>, <<"expand", FALSE>>}
Instant == Start(1) .. End(LastWindow)

(* select_canonical_windows: walk from the window that holds the lower     *)
(* bound, window by window, until the upper bound is covered.              *)
Containing(from) == {w \in DOMAIN receipts : Start(w) <= from /\ from < End(w)}
First(from) == CHOOSE w \in Containing(from) : TRUE
Walk(from, to) == {w \in 1 .. LastWindow : End(w) > from /\ Start(w) < to}
Adjacent(ws) ==
    \A v, w \in ws :
        (/\ v < w /\ receipts[v].out # <<>> /\ receipts[w].out # <<>>
         /\ \A u \in v + 1 .. w - 1 : receipts[u].out = <<>>)
            => receipts[w].out[1].seq = receipts[v].out[Len(receipts[v].out)].seq + 1
Selectable(from, to, bound, strict) ==
    /\ from < to
    /\ Containing(from) # {}
    /\ bound = "require" => Start(First(from)) = from
    /\ Walk(from, to) \subseteq DOMAIN receipts
    /\ to <= End(LastWindow)
    /\ \A w \in Walk(from, to) : w \notin reaped /\ (strict => receipts[w].certified)
    /\ Adjacent(Walk(from, to))

EffectiveStart(from, bound) == IF bound = "expand" THEN Start(First(from)) ELSE from

(* WindowReader.next: a line in its window, at its position, from a lane   *)
(* the receipt names.                                                      *)
LineHolds(w, i) ==
    LET line == receipts[w].out[i]
    IN /\ line.seq = receipts[w].out[1].seq + i - 1
       /\ line.lane \in receipts[w].present
       /\ line.visible \in Instants(w)

(* next_record and finish: every line audited, those inside the effective  *)
(* interval yielded; None when the audit fails.  stream is the lines of    *)
(* the committed windows, one window after the other.                      *)
Yielded(stream, from, to, bound) ==
    SelectSeq(stream, LAMBDA line : /\ line.window \in Walk(from, to)
                                    /\ line.visible >= EffectiveStart(from, bound)
                                    /\ line.visible < to)
Audit(stream, from, to, bound, strict) ==
    IF /\ Selectable(from, to, bound, strict)
       /\ \A w \in Walk(from, to) : \A i \in DOMAIN receipts[w].out : LineHolds(w, i)
    THEN Yielded(stream, from, to, bound) ELSE None
-----------------------------------------------------------------------------
Init ==
    /\ tape = [l \in LaneSet |-> <<>>]
    /\ claims = [l \in LaneSet |-> NoClaims]
    /\ live = [l \in LaneSet |-> [epoch |-> 0, counter |-> 0, index |-> 0, visible |-> 0, key |-> 0]]
    /\ window = 1 /\ stage = "capture" /\ late = FALSE /\ invalid = {} /\ att = None
    /\ scratch = {} /\ receipts = <<>> /\ reaped = {}
    /\ mishaps = 0

Next ==
    \/ \E l \in LaneSet : Connect(l) \/ Deliver(l) \/ Malform(l) \/ Misfile(l)
    \/ Seal \/ Begin \/ Pop \/ Drain \/ Defer \/ Commit \/ Crash
    \/ \E w \in 1 .. LastWindow : Reap(w)

Spec == Init /\ [][Next]_vars
-----------------------------------------------------------------------------
(* Every committed window is the key-ordered union of its present lanes:   *)
(* no line lost or written twice by the restarts of an attempt, no lane    *)
(* present whose lines do not parse or skip an index, and a tie marked     *)
(* exactly where two lanes met.                                                              *)
OutputIsCanonical ==
    \A w \in DOMAIN receipts :
        LET out == receipts[w].out
            all == UNION {Range(Lines(l, w)) : l \in receipts[w].present}
        IN /\ Len(out) = Cardinality(all)
           /\ {<<r.lane, r.index>> : r \in all} = {<<out[i].lane, out[i].index>> : i \in DOMAIN out}
           /\ \A i \in 1 .. Len(out) - 1 : Precedes(Key(out[i]), Key(out[i + 1]))
           /\ \A i \in DOMAIN out :
                  out[i].tie <=> \E r \in all : r.visible = out[i].visible /\ r.lane # out[i].lane
           /\ ~\E r \in all : r.bad
           /\ \A a, b \in all : (a.lane = b.lane /\ a.index < b.index)
                                  => \E c \in all : c.lane = a.lane /\ c.index = a.index + 1

(* The verdicts are a function of the committed history and of nothing     *)
(* else: the same as one classifier would give that had kept every         *)
(* connection it ever saw, wherever windows end, whoever was silent,       *)
(* whichever attempts were thrown away.                                    *)
History == FoldLeft(LAMBDA acc, r : acc \o r.out, <<>>, receipts)
LineOf(line) == CHOOSE r \in Range(tape[line.lane]) : r.index = line.index
Replayed ==
    FoldLeft(LAMBDA acc, line :
                 LET cause == Cause(LineOf(line), HeldOf(acc.state, LineOf(line)))
                 IN [state |-> Observe(acc.state, LineOf(line), cause),
                     verdicts |-> Append(acc.verdicts, cause)],
             [state |-> << >>, verdicts |-> <<>>], History).verdicts
VerdictsAreHistory == [i \in DOMAIN History |-> History[i].verdict] = Replayed

(* A finished audit has yielded exactly the committed lines of the         *)
(* interval it reports, in canonical order; and it refuses an interval     *)
(* exactly when a part of it is not committed, not present or, where       *)
(* certification is required, not certified.                               *)
Readable(t, strict) ==
    \E w \in DOMAIN receipts : t \in Instants(w) /\ w \notin reaped /\ (strict => receipts[w].certified)
AuditIsExact == stage = "done" =>
    LET history == History
        readable == [strict \in BOOLEAN |-> {t \in Instant : Readable(t, strict)}]
    IN \A from, to \in Instant : from < to =>
        \A policy \in Policies :
            LET bound == policy[1]
                strict == policy[2]
                begin == IF bound = "expand" /\ from % 2 = 0 THEN from - 1 ELSE from
            IN Audit(history, from, to, bound, strict) =
                   IF from .. to - 1 \subseteq readable[strict] /\ (bound = "require" => from % 2 = 1)
                   THEN SelectSeq(history, LAMBDA line : line.visible >= begin /\ line.visible < to)
                   ELSE None
=============================================================================
