--------------------------- MODULE IngestPartition ---------------------------
(***************************************************************************)
(* indexer-ingest: sealed segments are read in file order, a batch of      *)
(* lines a transaction, into the SQLite database of one UTC day            *)
(* (cli/main.rs, store/lib.rs), every line is classified against the       *)
(* state of its connection (continuity/), and at midnight the database is  *)
(* checkpointed, renamed and committed by a receipt whose carry seeds the  *)
(* next day (cli/ingest_partition.rs).  Old databases are reaped           *)
(* (cli/ingest_reaper.rs); receipts stay.  The process may be killed       *)
(* between any two steps and a power loss may take back transactions the   *)
(* write-ahead log had not reached the disk with.                          *)
(*                                                                         *)
(* A digest is the thing digested; lines, record identities and payloads   *)
(* are members of small sets.                                              *)
(***************************************************************************)
EXTENDS Integers, Sequences, FiniteSets, SequencesExt

CONSTANTS
    Segments,    \* 1 .. n, in filename order
    Lane,        \* Lane[s]
    Lines,       \* Lines[s]: sequence of [id, payload, conn, counter, kind, key]
    LastDay,     \* bound: days 1 .. LastDay
    Batch,       \* BATCH
    Retention,   \* days a closed database is kept
    MaxMishaps,  \* bound: kills and power losses
    MaxStepsBack,\* bound: times the clock steps back a day
    None

VARIABLES
    dirs,     \* dirs[day]: the files of partition date=day
    older,    \* earlier committed versions of the open database, not yet synced
    proc,     \* the ingester process
    sealed,   \* segments whose seal exists
    today,
    mishaps, stepsBack

vars == <<dirs, older, proc, sealed, today, mishaps, stepsBack>>

Days == 1 .. LastDay
NoFiles == [active |-> None, open |-> None, closed |-> None, receipt |-> None]
-----------------------------------------------------------------------------
(* The classifier's retained state: last counter of a connection, greatest *)
(* key of a connection on a lane                                           *)

NoCarry == [counters |-> << >>, keys |-> << >>]
Lookup(f, x) == IF x \in DOMAIN f THEN f[x] ELSE None
Insert(f, x, v) == [y \in DOMAIN f \cup {x} |-> IF y = x THEN v ELSE f[y]]

(* classify_cause *)
Cause(line, counter, key) ==
    CASE counter # None /\ line.counter # counter + 1      -> "local_counter_broken"
      [] line.kind = "lifecycle"                           -> "lifecycle"
      [] line.kind = "snapshot"                            -> "sparse_monotonic"
      [] line.key = None                                   -> "unsequenced_venue"
      [] key = None                                        -> "bootstrap"
      [] line.key = key + 1                                -> "continuous"
      [] line.key <= key                                   -> "cursor_went_backwards"
      [] OTHER                                             -> "gap_proven"

(* classify_with_identity: a record id this database knows is a duplicate, *)
(* or a conflict where the payload differs, and touches nothing.           *)
Known(db, line) == {i \in DOMAIN db.rows : db.rows[i].cause # None /\ db.rows[i].id = line.id}
Classify(db, state, lane, line) ==
    IF line.kind = "unparseable" THEN None
    ELSE IF Known(db, line) # {}
    THEN IF db.rows[Min(Known(db, line))].payload = line.payload THEN "duplicate" ELSE "conflict"
    ELSE Cause(line, Lookup(state.counters, line.conn), Lookup(state.keys, <<lane, line.conn>>))

(* ClassifierState.observe *)
Moves(cause) == cause \notin {None, "duplicate", "conflict"}
Observe(state, row) ==
    IF ~Moves(row.cause) THEN state
    ELSE [counters |-> Insert(state.counters, row.conn, row.counter),
          keys |-> LET k == <<row.lane, row.conn>>
                       old == Lookup(state.keys, k)
                   IN IF row.key = None THEN state.keys
                      ELSE Insert(state.keys, k, IF old # None /\ old > row.key THEN old ELSE row.key)]

(* recover_facts: the state is the fold of the fact log over the carry.    *)
\* mutant: recovery starts from nothing
FoldWithoutCarry(carry, rows) == FoldLeft(Observe, NoCarry, rows)
Recovered(carry, rows) == FoldLeft(Observe, carry, rows)

(* CarryTracker: connections with a parsed line in this partition. *)
Seen(rows) == {rows[i].conn : i \in {j \in DOMAIN rows : rows[j].cause # None}}
Restricted(f, keep(_)) == [x \in {y \in DOMAIN f : keep(y)} |-> f[x]]
Capture(state, seen) ==
    [counters |-> Restricted(state.counters, LAMBDA c : c \in seen),
     keys |-> Restricted(state.keys, LAMBDA k : k[2] \in seen)]
-----------------------------------------------------------------------------
(* The store *)

NewDb(first) == [first |-> first, rows |-> <<>>, cursor |-> [s \in Segments |-> 0], done |-> {}]
NextSeq(db) == db.first + Len(db.rows)

Row(db, state, s, n) ==
    LET line == Lines[s][n]
    IN [seq |-> NextSeq(db), seg |-> s, line |-> n, id |-> line.id, payload |-> line.payload,
        lane |-> Lane[s], conn |-> line.conn, counter |-> line.counter, key |-> line.key,
        cause |-> Classify(db, state, Lane[s], line)]

(* One line: captured, classified, its fact committed, the state moved. *)
Take(acc, sn) ==
    LET row == Row(acc.db, acc.state, sn[1], sn[2])
    IN [db |-> [acc.db EXCEPT !.rows = Append(@, row)], state |-> Observe(acc.state, row)]

(* commit_batch: lines from the cursor on, and the cursor, in one          *)
(* transaction.                                                            *)
BatchEnd(s, from) == IF from + Batch < Len(Lines[s]) THEN from + Batch ELSE Len(Lines[s])
Batched(db, state, s) ==
    LET to == BatchEnd(s, db.cursor[s])
        taken == FoldLeft(Take, [db |-> db, state |-> state],
                          [i \in 1 .. to - db.cursor[s] |-> <<s, db.cursor[s] + i>>])
    IN [taken EXCEPT !.db.cursor[s] = to]
-----------------------------------------------------------------------------
(* Receipts and seeds *)

Receipts == {d \in Days : dirs[d].receipt # None}
LastReceipt == IF Receipts = {} THEN None ELSE Max(Receipts)

NextFirst(r) == IF r.last = None THEN r.first ELSE r.last + 1
Seed ==
    IF LastReceipt = None THEN [first |-> 1, parent |-> None, carry |-> NoCarry]
    ELSE LET r == dirs[LastReceipt].receipt
         IN [first |-> NextFirst(r), parent |-> LastReceipt, carry |-> r.carry]

(* read_receipts: parents chain and sequence numbers continue. *)
ChainHolds ==
    \A d \in Receipts :
        LET before == {e \in Receipts : e < d}
            r == dirs[d].receipt
        IN IF before = {} THEN r.parent = None
           ELSE r.parent = Max(before) /\ r.first = NextFirst(dirs[Max(before)].receipt)

(* The skip ledger: what the receipts and the open database consumed. *)
Consumed(db) == db.done \cup UNION {dirs[d].receipt.segments : d \in Receipts}
-----------------------------------------------------------------------------
(* OpenPartition::open, one durable step at a time *)

Idle == [pc |-> "down", day |-> None, state |-> NoCarry, consumed |-> {}, seg |-> None, receipt |-> None]
Refuse == proc' = [Idle EXCEPT !.pc = "refused"]

Marked == {d \in Days : dirs[d].active # None}
Uncommitted == {d \in Days : /\ dirs[d].receipt = None
                             /\ dirs[d].active # None \/ dirs[d].open # None \/ dirs[d].closed # None}

(* What find_active and recover_active_database refuse to touch. *)
Refusable ==
    \/ ~ChainHolds
    \/ Cardinality(Marked) > 1
    \/ \E d \in Marked : dirs[d].receipt # None
    \/ Cardinality(Uncommitted) > 1
    \/ \E d \in Uncommitted : dirs[d].open # None /\ dirs[d].closed # None

(* The partition to open: the uncommitted one, renamed back and marked     *)
(* again where the close had got that far, or a new one for today.  (A     *)
(* date committed already, because the clock stepped back, is an exit.)    *)
OpenBegin ==
    /\ proc.pc = "down"
    /\ IF Refusable THEN Refuse /\ UNCHANGED dirs
       ELSE IF Uncommitted = {}
       THEN /\ dirs[today].receipt = None
            /\ dirs' = [dirs EXCEPT ![today].active = Seed]
            /\ proc' = [proc EXCEPT !.pc = "opening", !.day = today]
       ELSE LET d == Max(Uncommitted) IN
            IF dirs[d].closed # None
            THEN /\ dirs' = [dirs EXCEPT ![d].open = dirs[d].closed, ![d].closed = None]
                 /\ UNCHANGED proc
            ELSE /\ dirs' = [dirs EXCEPT ![d].active = IF @ = None THEN Seed ELSE @]
                 /\ proc' = [proc EXCEPT !.pc = "opening", !.day = d]
    /\ UNCHANGED <<older, sealed, today, mishaps, stepsBack>>

(* The marker must continue the latest receipt and agree with the database;*)
(* the state is recovered from the carry and the facts.                    *)
OpenStore ==
    /\ proc.pc = "opening"
    /\ LET d == proc.day
           marker == dirs[d].active
           db == IF dirs[d].open = None THEN NewDb(marker.first) ELSE dirs[d].open
       IN IF marker # Seed \/ db.first # marker.first
          THEN Refuse /\ UNCHANGED <<dirs, older>>
          ELSE IF d > today
          THEN proc' = Idle /\ UNCHANGED <<dirs, older>>
          ELSE /\ dirs' = [dirs EXCEPT ![d].open = db]
               /\ older' = IF dirs[d].open = None THEN {None} ELSE older
               /\ proc' = [proc EXCEPT !.pc = "ready", !.consumed = Consumed(db),
                                       !.state = Recovered(marker.carry, db.rows)]
    /\ UNCHANGED <<sealed, today, mishaps, stepsBack>>
-----------------------------------------------------------------------------
(* The ingest loop *)

Db == dirs[proc.day].open

(* Between segments: the clock decides. *)
ShouldRotate == today # proc.day

PickSegment ==
    /\ proc.pc = "ready" /\ ~ShouldRotate
    /\ sealed \ proc.consumed # {}
    /\ proc' = [proc EXCEPT !.pc = "ingest", !.seg = Min(sealed \ proc.consumed)]
    /\ UNCHANGED <<dirs, older, sealed, today, mishaps, stepsBack>>

CommitBatch ==
    /\ proc.pc = "ingest"
    /\ Db.cursor[proc.seg] < Len(Lines[proc.seg])
    /\ LET b == Batched(Db, proc.state, proc.seg)
       IN /\ dirs' = [dirs EXCEPT ![proc.day].open = b.db]
          /\ proc' = [proc EXCEPT !.state = b.state]
    /\ older' = older \cup {Db}
    /\ UNCHANGED <<sealed, today, mishaps, stepsBack>>

CompleteSegment ==
    /\ proc.pc = "ingest"
    /\ Db.cursor[proc.seg] = Len(Lines[proc.seg])
    /\ dirs' = [dirs EXCEPT ![proc.day].open.done = @ \cup {proc.seg}]
    /\ proc' = [proc EXCEPT !.pc = "ready", !.seg = None, !.consumed = @ \cup {proc.seg}]
    /\ older' = older \cup {Db}
    /\ UNCHANGED <<sealed, today, mishaps, stepsBack>>

(* should_rotate: a clock behind the partition's date stops the process. *)
ClockBehind ==
    /\ proc.pc = "ready" /\ today < proc.day
    /\ proc' = Idle
    /\ UNCHANGED <<dirs, older, sealed, today, mishaps, stepsBack>>
-----------------------------------------------------------------------------
(* OpenPartition::close, one durable step at a time *)

ReceiptOf(db) ==
    [first |-> db.first, last |-> IF db.rows = <<>> THEN None ELSE NextSeq(db) - 1,
     parent |-> dirs[proc.day].active.parent, carry |-> Capture(proc.state, Seen(db.rows)),
     segments |-> db.done, rows |-> db.rows, closedAt |-> today]

CloseCheckpoint ==
    /\ proc.pc = "ready" /\ today > proc.day
    /\ proc' = [proc EXCEPT !.pc = "rename", !.receipt = ReceiptOf(Db)]
    /\ older' = {}
    /\ UNCHANGED <<dirs, sealed, today, mishaps, stepsBack>>

CloseRename ==
    /\ proc.pc = "rename"
    /\ dirs' = [dirs EXCEPT ![proc.day].closed = Db, ![proc.day].open = None]
    /\ proc' = [proc EXCEPT !.pc = "unmark"]
    /\ UNCHANGED <<older, sealed, today, mishaps, stepsBack>>

CloseUnmark ==
    /\ proc.pc = "unmark"
    /\ dirs' = [dirs EXCEPT ![proc.day].active = None]
    /\ proc' = [proc EXCEPT !.pc = "commit"]
    /\ UNCHANGED <<older, sealed, today, mishaps, stepsBack>>

CloseCommit ==
    /\ proc.pc = "commit"
    /\ dirs' = [dirs EXCEPT ![proc.day].receipt = proc.receipt]
    /\ proc' = Idle
    /\ UNCHANGED <<older, sealed, today, mishaps, stepsBack>>
-----------------------------------------------------------------------------
(* The reaper, and the world *)

Reaped(d) == [dirs EXCEPT ![d].closed = None]

Reap(d) ==
    /\ dirs[d].receipt # None /\ dirs[d].closed # None
    /\ dirs[d].open = None /\ dirs[d].active = None
    /\ today - dirs[d].receipt.closedAt >= Retention
    /\ dirs' = Reaped(d)
    /\ UNCHANGED <<older, proc, sealed, today, mishaps, stepsBack>>

(* A lane seals its segments in order. *)
Seal(s) ==
    /\ s \notin sealed
    /\ \A r \in Segments : Lane[r] = Lane[s] /\ r < s => r \in sealed
    /\ sealed' = sealed \cup {s}
    /\ UNCHANGED <<dirs, older, proc, today, mishaps, stepsBack>>

Tick ==
    /\ today < LastDay
    /\ today' = today + 1
    /\ UNCHANGED <<dirs, older, proc, sealed, mishaps, stepsBack>>

StepBack ==
    /\ today > 1 /\ stepsBack < MaxStepsBack
    /\ today' = today - 1
    /\ stepsBack' = stepsBack + 1
    /\ UNCHANGED <<dirs, older, proc, sealed, mishaps>>

(* A kill loses the memory; what was committed stays.                      *)
Kill ==
    /\ proc.pc \notin {"down", "refused"} /\ mishaps < MaxMishaps
    /\ proc' = Idle
    /\ mishaps' = mishaps + 1
    /\ UNCHANGED <<dirs, older, sealed, today, stepsBack>>

(* synchronous = NORMAL: a power loss may also take back transactions.     *)
PowerLoss ==
    /\ proc.pc # "refused" /\ mishaps < MaxMishaps
    /\ \E d \in Days, version \in older :
          /\ dirs[d].open # None
          /\ dirs' = [dirs EXCEPT ![d].open = version]
          /\ older' = {v \in older : v = None \/ (version # None /\ Len(v.rows) < Len(version.rows))}
    /\ proc' = Idle
    /\ mishaps' = mishaps + 1
    /\ UNCHANGED <<sealed, today, stepsBack>>

Init ==
    /\ dirs = [d \in Days |-> NoFiles]
    /\ older = {}
    /\ proc = Idle
    /\ sealed = {}
    /\ today = 1
    /\ mishaps = 0 /\ stepsBack = 0

Next ==
    \/ OpenBegin \/ OpenStore \/ PickSegment \/ CommitBatch \/ CompleteSegment
    \/ ClockBehind \/ CloseCheckpoint \/ CloseRename \/ CloseUnmark \/ CloseCommit
    \/ Tick \/ StepBack \/ Kill \/ PowerLoss
    \/ \E d \in Days : Reap(d)
    \/ \E s \in Segments : Seal(s)

Spec == Init /\ [][Next]_vars
-----------------------------------------------------------------------------
(* The whole log: the rows of every partition, in chain order.  A receipt  *)
(* keeps only counts; its rows field is ghost.                             *)
PartRows(d) == CASE dirs[d].receipt # None -> dirs[d].receipt.rows
                 [] dirs[d].open # None    -> dirs[d].open.rows
                 [] dirs[d].closed # None  -> dirs[d].closed.rows
                 [] OTHER                  -> <<>>
Log == FoldLeft(LAMBDA acc, d : acc \o [i \in DOMAIN PartRows(d) |-> [row |-> PartRows(d)[i], part |-> d]],
                <<>>, [d \in Days |-> d])

LedgerOf(d) == IF dirs[d].receipt # None THEN dirs[d].receipt.segments
               ELSE IF dirs[d].open # None THEN dirs[d].open.done
               ELSE IF dirs[d].closed # None THEN dirs[d].closed.done ELSE {}

(***************************************************************************)
(* Over all partitions the file_order positions are 1, 2, 3, ... without a *)
(* hole; a segment is in the ledger of one partition, which has a row for  *)
(* each of its lines; and a line has two rows only in different partitions *)
(* and only where the first was closed with the segment unfinished,        *)
(* whatever was killed, taken back by a power loss or reaped (the skip     *)
(* ledger of ingest_partition.rs, ingest_file's cursor and ledger          *)
(* transactions, seed_from).                                               *)
(***************************************************************************)
EachLineOnce ==
    LET log == Log IN
    /\ \A i \in DOMAIN log : log[i].row.seq = i
    /\ \A i, j \in DOMAIN log :
          i < j /\ log[i].row.seg = log[j].row.seg /\ log[i].row.line = log[j].row.line
          => log[i].part # log[j].part /\ log[i].row.seg \notin LedgerOf(log[i].part)
    /\ \A d \in Days : \A s \in LedgerOf(d) :
          /\ \A e \in Days \ {d} : s \notin LedgerOf(e)
          /\ \A n \in DOMAIN Lines[s] :
                \E i \in DOMAIN log : log[i].part = d /\ log[i].row.seg = s /\ log[i].row.line = n

(***************************************************************************)
(* "Rollover never bisects a sealed segment even when ingestion spans UTC  *)
(* midnight" (cli/main.rs, the ingest loop): no committed partition holds  *)
(* some lines of a segment it did not finish.  It does not hold: a process *)
(* killed inside a segment and restarted after midnight rotates before it  *)
(* resumes, and the next partition reads the segment again from its start. *)
(***************************************************************************)
RolloverNeverBisects ==
    \A d \in Receipts : \A i \in DOMAIN dirs[d].receipt.rows :
        dirs[d].receipt.rows[i].seg \in dirs[d].receipt.segments

(***************************************************************************)
(* A verdict does not depend on where the process died or the day turned:  *)
(* the cause in every committed fact is the one an uninterrupted reader of *)
(* the whole log would give, comparing with the last accepted line of the  *)
(* connection, unless a whole partition passed without a line of that      *)
(* connection (classify_cause, IngestCarry, recover_facts).                *)
(***************************************************************************)
VerdictsAreExact ==
    LET log == Log
        Parts == {d \in Days : PartRows(d) # <<>> \/ dirs[d].receipt # None}
        Silent(d, c) == \A i \in DOMAIN PartRows(d) :
                            PartRows(d)[i].conn # c \/ PartRows(d)[i].cause = None
        Before(i, c) == {j \in 1 .. i - 1 :
                            /\ log[j].row.conn = c /\ Moves(log[j].row.cause)
                            /\ \A d \in Parts : log[j].part < d /\ d < log[i].part => ~Silent(d, c)}
    IN \A i \in DOMAIN log :
          LET row == log[i].row
              prior == Before(i, row.conn)
          IN Moves(row.cause) =>
               /\ row.cause = "local_counter_broken" <=>
                     prior # {} /\ row.counter # log[Max(prior)].row.counter + 1
               /\ row.cause = "continuous" =>
                     \E j \in prior : log[j].row.lane = row.lane /\ log[j].row.key = row.key - 1

(***************************************************************************)
(* The ingester can always be started again: no crash leaves partitions    *)
(* that open refuses, neither two uncommitted ones, nor a marker that does *)
(* not continue the chain, nor a date that is committed already            *)
(* (recover_active_database, validate_active, create_active).              *)
(***************************************************************************)
NeverRefused == proc.pc # "refused"
=============================================================================
