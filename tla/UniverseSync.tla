----------------------------- MODULE UniverseSync -----------------------------
(***************************************************************************)
(* Event Universe ingestion: universe/ingest/sync.py against the database  *)
(* of universe/store, one transaction a step.  The incremental sync        *)
(* catches up day by day and retries the failures of its ledger; the       *)
(* operator's backfill rebuilds a range oldest first; either may be        *)
(* killed.  A run brings candidates, bundles selected with complete        *)
(* context, and bundles retained or retired that rest on an older run,     *)
(* their origin, which is ingested first.                                  *)
(*                                                                         *)
(* Runs are numbered in generated time.  A candidate names the native      *)
(* events it joins (refs), who plays (keys) and its activation day; the    *)
(* umbrella event it becomes is <<keys, day, ordinal>>.                    *)
(***************************************************************************)
EXTENDS Integers, Sequences, FiniteSets, SequencesExt, FiniteSetsExt

CONSTANTS
    LastRun,          \* runs 1..LastRun are archived, in this order
    LastDay,
    Reports,          \* what the runs may report: functions from runs to reports
    RangeEnd,         \* the backfill's range: runs 1..RangeEnd
    BatchSize,        \* BACKFILL_BATCH_SIZE
    BootstrapBudget,  \* BOOTSTRAP_RUN_BUDGET
    MaxWait,          \* the longest wait of the ledger's backoff, in ticks
    MaxTroubles,      \* damage and kills, together
    LateArchival      \* whether a run may be archived after its day is over

VARIABLES
    report,           \* the reports of this behaviour
    store,            \* the runs whose manifest is in the object store
    damaged,          \* the runs with an object that does not verify
    today,
    db,               \* runs, events, aliases, occurrences: committed together
    ledger,           \* universe_sync_failures: the attempts and the wait of a run
    floor,            \* the incremental checkpoint, 0 when there is none
    lineage,          \* event_identity_lineage
    cursor,           \* the backfill's checkpoint
    job,              \* the two processes
    troubles,
    base,             \* history: the first floor
    rebuilt           \* history: the runs of the range there were when the
                      \* lineage was claimed, {} once the backfill met a failure

usvars == <<report, store, damaged, today, db, ledger, floor, lineage, cursor, job,
            troubles, base, rebuilt>>
world == <<report, store, damaged, today, troubles>>

Runs == 1..LastRun
ScanComplete == LastRun + 1
DateOf(r) == report[r].day
OfDay(d) == {r \in store : DateOf(r) = d}
Ascending(S) == SetToSortSeq(S, <)

Idle == [pc |-> "idle", then |-> "idle", fresh |-> FALSE, retried |-> {}, day |-> 0, ceiling |-> 0,
         after |-> 0, pending |-> <<>>, queue |-> <<>>, stack |-> <<>>, last |-> 0]
EmptyDb == [runs |-> {}, events |-> {}, alias |-> [a \in {} |-> 0], occurrences |-> {}]

Goto(j, r) == job' = [job EXCEPT ![j] = r]

\* project_market_universe: a run with incomplete input projects nothing.
Candidates(r) == IF report[r].complete THEN report[r].candidates ELSE <<>>

\* _project_candidate: the catalogue must have every native event it joins.
Projectable(r) == \A i \in DOMAIN Candidates(r) : Candidates(r)[i].refs \subseteq report[r].catalog

-----------------------------------------------------------------------------
(* The identity of umbrella events: derive/event_identity.py *)

\* The events that a candidate's aliases are bound to, stored or in this run.
Bound(d, local, c) ==
    {d.alias[a].event : a \in c.refs \cap DOMAIN d.alias} \cup {x[2] : x \in {x \in local : x[1] \in c.refs}}

Ordinals(d, local, c) ==
    {id[3] : id \in {id \in {e.id : e \in d.events} \cup {x[2] : x \in local} :
                        id[1] = c.keys /\ id[2] = c.day}}

\* canonical_event_id: the next ordinal of those participants on that day.
Allocate(d, local, c) ==
    <<c.keys, c.day, IF Ordinals(d, local, c) = {} THEN 0 ELSE Max(Ordinals(d, local, c)) + 1>>

\* resolve_market_projection: an alias that is known decides.  ok is FALSE where
\* the code raises: two events, one allocated by this very run, other participants.
Resolve(d, r) ==
    LET resolve(acc, c) ==
            LET bound == Bound(d, acc.local, c)
                id == IF bound = {} THEN Allocate(d, acc.local, c) ELSE CHOOSE e \in bound : TRUE
            IN [ok |-> /\ acc.ok /\ Cardinality(bound) <= 1
                       /\ bound # {} => /\ \E e \in d.events : e.id = id
                                        /\ id[1] = c.keys,
                local |-> acc.local \cup {<<a, id>> : a \in c.refs},
                events |-> acc.events \cup {id}]
    IN FoldLeft(resolve, [ok |-> TRUE, local |-> {}, events |-> {}], Candidates(r))

-----------------------------------------------------------------------------
(* The transaction: store/ingest_tx.py *)

\* _seen_run_ids: the bounds are by generated time, whatever the order of ingestion.
SeenRunIds(row, r) == [row EXCEPT !.first = Min({row.first, r}), !.last = Max({row.last, r})]

Seen(row, r) == SeenRunIds(row, r)

\* The rows of umbrella_events; activation_at is the one of the first run.
EventRows(d, r, ids) ==
    {IF e.id \in ids
     THEN [Seen(e, r) EXCEPT !.activation = IF Seen(e, r).first = r THEN r ELSE e.activation] ELSE e : e \in d.events}
    \cup {[id |-> id, first |-> r, last |-> r, activation |-> r] : id \in ids \ {e.id : e \in d.events}}

\* The rows of venue_events; a title is the one of the newest run.  The rows of
\* canonical_markets, venue_markets and market_claims are kept by the same rule.
AliasRows(d, r, local) ==
    [a \in DOMAIN d.alias \cup {x[1] : x \in local} |->
        IF a \notin DOMAIN d.alias
        THEN [event |-> (CHOOSE x \in local : x[1] = a)[2], first |-> r, last |-> r, title |-> r]
        ELSE IF \A x \in local : x[1] # a THEN d.alias[a]
        ELSE [Seen(d.alias[a], r) EXCEPT !.title = IF r > d.alias[a].last THEN r ELSE d.alias[a].title]]

\* _context_record: what a bundle was selected with, by its content.
ContextOf(c) == c.refs

\* project_selected_bundles and project_bundle_retirements: the rows of a run.
CompleteRows(r) ==
    {[run |-> r, bundle |-> c.bundle, kind |-> "complete", origin |-> r, context |-> ContextOf(c)] :
        c \in {c \in ToSet(Candidates(r)) : c.bundle \notin {x.bundle : x \in report[r].rested}}}

RestedRows(r) ==
    {[run |-> r, bundle |-> x.bundle, kind |-> x.kind, origin |-> x.origin, context |-> x.context] : x \in report[r].rested}

Rows(r) == IF report[r].complete THEN CompleteRows(r) \cup RestedRows(r) ELSE {}

\* origin_context: the complete occurrence that a retained or retired one names.
OriginContext(d, x) ==
    {o \in d.occurrences : o.run = x.origin /\ o.bundle = x.bundle /\ o.kind = "complete"}

HasExactOrigin(d, x) == \E o \in OriginContext(d, x) : o.context = x.context

\* ingest_run, once the lineage admits the job.
IngestRun(d, r) ==
    LET resolved == Resolve(d, r)
    IN [runs |-> d.runs \cup {r},
        events |-> EventRows(d, r, resolved.events),
        alias |-> AliasRows(d, r, resolved.local),
        occurrences |-> d.occurrences \cup Rows(r)]

\* The lineage, read inside the transaction.
LineageAdmits(j) == lineage = "running" => j = "backfill"

MayIngest(d, r, j) ==
    /\ LineageAdmits(j)
    /\ Resolve(d, r).ok
    /\ \A x \in Rows(r) : x.kind # "complete" => HasExactOrigin(d, x)

-----------------------------------------------------------------------------
(* Ingesting one manifest: _ingest_direct, _ingest_manifest *)

Top(j) == IF job[j].stack = <<>> THEN Head(job[j].queue) ELSE Last(job[j].stack)

\* The next key of the queue, or what follows the queue.
Settled(s, rest) == [s EXCEPT !.queue = rest, !.stack = <<>>, !.pc = IF rest = <<>> THEN s.then ELSE "verify"]

\* record_sync_failure: exponential backoff with a cap.
Failure(r) ==
    LET attempts == IF r \in DOMAIN ledger THEN Min({ledger[r].attempts + 1, MaxWait}) ELSE 1
    IN [k \in DOMAIN ledger \cup {r} |->
            IF k = r THEN [attempts |-> attempts, wait |-> Min({2^(attempts - 1), MaxWait})] ELSE ledger[k]]

Due == {r \in DOMAIN ledger : ledger[r].wait = 0}

\* Whatever is raised below, the source that was asked for goes to the ledger.
Fail(j) ==
    /\ ledger' = Failure(Head(job[j].queue))
    /\ Goto(j, Settled(job[j], Tail(job[j].queue)))
    /\ rebuilt' = IF j = "backfill" THEN {} ELSE rebuilt
    /\ UNCHANGED <<world, db, floor, lineage, cursor, base>>

Readable(r) == r \in store /\ r \notin damaged /\ Projectable(r)

\* known_manifest, then _verified_run: the manifest, every object, the report.
VerifyRun(j) ==
    /\ job[j].pc = "verify"
    /\ \/ Top(j) \in store /\ Top(j) \in db.runs
          /\ Goto(j, [job[j] EXCEPT !.pc = IF job[j].stack = <<>> THEN "clear" ELSE "resolve",
                                    !.stack = IF @ = <<>> THEN @ ELSE Front(@)])
          /\ UNCHANGED <<world, db, ledger, floor, lineage, cursor, base, rebuilt>>
       \/ Readable(Top(j)) /\ Top(j) \notin db.runs
          /\ Goto(j, [job[j] EXCEPT !.pc = "resolve"])
          /\ UNCHANGED <<world, db, ledger, floor, lineage, cursor, base, rebuilt>>
       \/ Top(j) \notin db.runs /\ ~Readable(Top(j)) /\ Fail(j)

Unresolved(r) == {x \in Rows(r) : x.kind # "complete" /\ OriginContext(db, x) = {}}

\* _resolve_origin_context: an origin that is not indexed is ingested first.
ResolveOrigin(j) ==
    /\ job[j].pc = "resolve"
    /\ LET r == Top(j) IN
       \/ /\ \E x \in Unresolved(r) : x.origin >= r \/ x.origin \in db.runs
          /\ Fail(j)
       \/ /\ Unresolved(r) # {}
          /\ \A x \in Unresolved(r) : x.origin < r /\ x.origin \notin db.runs
          /\ Goto(j, [job[j] EXCEPT !.pc = "verify",
                                    !.stack = Append(@, Min({x.origin : x \in Unresolved(r)}))])
          /\ UNCHANGED <<world, db, ledger, floor, lineage, cursor, base, rebuilt>>

\* The transaction.  The other job may have ingested the run meanwhile: skipped.
CommitRun(j) ==
    /\ job[j].pc = "resolve" /\ Unresolved(Top(j)) = {}
    /\ \/ ~MayIngest(db, Top(j), j) /\ Fail(j)
       \/ /\ MayIngest(db, Top(j), j)
          /\ db' = IF Top(j) \in db.runs THEN db ELSE IngestRun(db, Top(j))
          /\ Goto(j, [job[j] EXCEPT !.pc = IF job[j].stack = <<>> THEN "clear" ELSE "resolve",
                                    !.stack = IF @ = <<>> THEN @ ELSE Front(@)])
          /\ UNCHANGED <<world, ledger, floor, lineage, cursor, base, rebuilt>>

\* clear_sync_failure; a bootstrap ends at the first complete run it ingests.
ClearFailure(j) ==
    /\ job[j].pc = "clear"
    /\ LET r == Head(job[j].queue)
           found == job[j].then = "booted" /\ report[r].complete /\ r \in db.runs
       IN /\ ledger' = [k \in DOMAIN ledger \ {r} |-> ledger[k]]
          /\ Goto(j, Settled(job[j], IF found THEN <<>> ELSE Tail(job[j].queue)))
    /\ UNCHANGED <<world, db, floor, lineage, cursor, base, rebuilt>>

-----------------------------------------------------------------------------
(* Incremental sync *)

Queued(s, keys, then) == [s EXCEPT !.queue = keys, !.then = then, !.pc = IF keys = <<>> THEN then ELSE "verify"]

\* sync: blocked while a backfill runs; due failures first.
SyncStart ==
    /\ job["sync"].pc = "idle"
    /\ lineage # "running"
    /\ LET first == IF floor # 0 THEN floor ELSE IF db.runs = {} THEN 0 ELSE DateOf(Max(db.runs))
       IN Goto("sync", Queued([Idle EXCEPT !.fresh = floor = 0 /\ db.runs = {}, !.retried = Due,
                                           !.day = first, !.ceiling = Max({first, today})],
                              Ascending(Due), "discover"))
    /\ UNCHANGED <<world, db, ledger, floor, lineage, cursor, base, rebuilt>>

SetFloor(d) == floor' = d /\ base' = IF base = 0 THEN d ELSE base

\* _bootstrap_manifest_keys: the newest runs that have not failed, newest first.
BootstrapKeys ==
    LET known == (store \ DOMAIN ledger) \ job["sync"].retried
    IN {r \in known : Cardinality({k \in known : k > r}) < BootstrapBudget}

Bootstrap ==
    /\ job["sync"].pc = "discover" /\ job["sync"].fresh
    /\ \/ /\ BootstrapKeys = {}
          /\ SetFloor(today)
          /\ Goto("sync", Idle)
       \/ /\ BootstrapKeys # {}
          /\ Goto("sync", Queued([job["sync"] EXCEPT !.last = Max(BootstrapKeys)], Reverse(Ascending(BootstrapKeys)), "booted"))
          /\ UNCHANGED <<floor, base>>
    /\ UNCHANGED <<world, db, ledger, lineage, cursor, rebuilt>>

BootstrapEnds ==
    /\ job["sync"].pc = "booted"
    /\ SetFloor(DateOf(job["sync"].last))
    /\ Goto("sync", Idle)
    /\ UNCHANGED <<world, db, ledger, lineage, cursor, rebuilt>>

\* One day of the walk: the manifests listed, less the failures that wait.
ScanDay ==
    /\ job["sync"].pc = "discover" /\ ~job["sync"].fresh
    /\ Goto("sync", Queued(job["sync"],
                           Ascending((OfDay(job["sync"].day) \ DOMAIN ledger) \ job["sync"].retried), "scanned"))
    /\ UNCHANGED <<world, db, ledger, floor, lineage, cursor, base, rebuilt>>

\* Mutant: the day after today becomes the floor.
FloorPastToday(s) == s.day + 1

\* The floor never passes the last day of the walk.
NextFloor(s) == Min({s.day + 1, s.ceiling})

DayEnds ==
    /\ job["sync"].pc = "scanned"
    /\ SetFloor(NextFloor(job["sync"]))
    /\ Goto("sync", IF job["sync"].day < job["sync"].ceiling
                    THEN [job["sync"] EXCEPT !.day = @ + 1, !.pc = "discover"] ELSE Idle)
    /\ UNCHANGED <<world, db, ledger, lineage, cursor, rebuilt>>

-----------------------------------------------------------------------------
(* Backfill *)

\* begin_event_identity_backfill and the checkpoint.
BackfillStart ==
    /\ job["backfill"].pc = "idle"
    /\ \/ lineage = "none" /\ db.events = {}
          /\ lineage' = "running" /\ rebuilt' = store \cap 1..RangeEnd
       \/ lineage # "none" /\ UNCHANGED <<lineage, rebuilt>>
    /\ Goto("backfill",
            IF cursor = ScanComplete
            THEN Queued(Idle, Ascending(Due \cap 1..RangeEnd), "complete")
            ELSE [Idle EXCEPT !.pc = "list", !.after = cursor, !.day = IF cursor = 0 THEN 1 ELSE DateOf(cursor)])
    /\ UNCHANGED <<world, db, ledger, floor, cursor, base>>

\* The manifests of the next day of the range, after the cursor.
BackfillList ==
    /\ job["backfill"].pc = "list"
    /\ LET s == job["backfill"]
           more == {r \in OfDay(s.day) \cap 1..RangeEnd : r > s.after}
       IN Goto("backfill",
               IF Len(s.pending) >= BatchSize \/ (s.day > DateOf(RangeEnd) /\ s.pending # <<>>)
               THEN LET n == Min({BatchSize, Len(s.pending)})
                    IN Queued([s EXCEPT !.pending = SubSeq(@, n + 1, Len(@)), !.last = s.pending[n]],
                              SubSeq(s.pending, 1, n), "batched")
               ELSE IF s.day <= DateOf(RangeEnd)
               THEN [s EXCEPT !.pending = @ \o Ascending(more), !.day = @ + 1]
               ELSE [s EXCEPT !.pc = "walked"])
    /\ UNCHANGED <<world, db, ledger, floor, lineage, cursor, base, rebuilt>>

BatchEnds ==
    /\ job["backfill"].pc = "batched"
    /\ cursor' = job["backfill"].last
    /\ Goto("backfill", [job["backfill"] EXCEPT !.pc = "list"])
    /\ UNCHANGED <<world, db, ledger, floor, lineage, base, rebuilt>>

BackfillScanned ==
    /\ job["backfill"].pc = "walked"
    /\ cursor' = ScanComplete
    /\ Goto("backfill", [job["backfill"] EXCEPT !.pc = "complete"])
    /\ UNCHANGED <<world, db, ledger, floor, lineage, base, rebuilt>>

\* complete_event_identity_backfill
BackfillCompletes ==
    /\ job["backfill"].pc = "complete"
    /\ lineage' = "complete"
    /\ Goto("backfill", Idle)
    /\ UNCHANGED <<world, db, ledger, floor, cursor, base, rebuilt>>

-----------------------------------------------------------------------------
(* The archive, the clock and the machine *)

mine == <<db, ledger, floor, lineage, cursor, job, base, rebuilt>>

\* The Targeter's archiver commits a run (see TargeterRuns).
Archive ==
    /\ \E r \in Runs \ store :
        /\ \A k \in 1..r - 1 : k \in store
        /\ DateOf(r) <= today /\ (LateArchival \/ DateOf(r) = today)
        /\ store' = store \cup {r}
    /\ UNCHANGED <<report, damaged, today, troubles, mine>>

NextDay ==
    /\ today < LastDay /\ (LateArchival \/ \A r \in Runs : DateOf(r) = today => r \in store)
    /\ today' = today + 1
    /\ UNCHANGED <<report, store, damaged, troubles, mine>>

Damage ==
    /\ troubles < MaxTroubles
    /\ \E r \in store \ damaged : damaged' = damaged \cup {r}
    /\ troubles' = troubles + 1
    /\ UNCHANGED <<report, store, today, mine>>

Mend ==
    /\ damaged # {} /\ damaged' = {}
    /\ UNCHANGED <<report, store, today, troubles, mine>>

Tick ==
    /\ \E r \in DOMAIN ledger : ledger[r].wait > 0
    /\ ledger' = [r \in DOMAIN ledger |-> [ledger[r] EXCEPT !.wait = Max({@ - 1, 0})]]
    /\ UNCHANGED <<world, db, floor, lineage, cursor, job, base, rebuilt>>

Kill ==
    /\ troubles < MaxTroubles
    /\ troubles' = troubles + 1
    /\ \E j \in DOMAIN job : job[j].pc # "idle" /\ Goto(j, Idle)
    /\ UNCHANGED <<report, store, damaged, today, db, ledger, floor, lineage, cursor, base, rebuilt>>

-----------------------------------------------------------------------------
Init ==
    /\ report \in Reports
    /\ store = {} /\ damaged = {} /\ today = 1
    /\ db = EmptyDb /\ ledger = [r \in {} |-> 0]
    /\ floor = 0 /\ lineage = "none" /\ cursor = 0
    /\ job = [j \in {"sync", "backfill"} |-> Idle]
    /\ troubles = 0 /\ base = 0 /\ rebuilt = {}

Ingesting(j) == VerifyRun(j) \/ ResolveOrigin(j) \/ CommitRun(j) \/ ClearFailure(j)
Sync == SyncStart \/ Bootstrap \/ BootstrapEnds \/ ScanDay \/ DayEnds \/ Ingesting("sync")
Backfill == BackfillStart \/ BackfillList \/ BatchEnds \/ BackfillScanned \/ BackfillCompletes \/ Ingesting("backfill")
Next == Sync \/ Backfill \/ Archive \/ NextDay \/ Damage \/ Mend \/ Tick \/ Kill

Spec == Init /\ [][Next]_usvars

-----------------------------------------------------------------------------
(* Properties *)

Observers(id) == {r \in db.runs : \E c \in ToSet(Candidates(r)) :
                    \E a \in c.refs : db.alias[a].event = id}

\* The history does not depend on the order in which runs are ingested: the rows
\* of an event and of its aliases name the oldest and the newest run that saw
\* them, the activation is the oldest run's and the title is the newest run's
\* ("bounds resolve against generated time, never ingestion order").
HistoryIsByGeneratedTime ==
    /\ \A e \in db.events :
        /\ e.first = Min(Observers(e.id)) /\ e.last = Max(Observers(e.id))
        /\ e.activation = e.first
    /\ \A a \in DOMAIN db.alias :
        LET seen == {r \in db.runs : \E c \in ToSet(Candidates(r)) : a \in c.refs}
        IN db.alias[a].first = Min(seen) /\ db.alias[a].last = Max(seen) /\ db.alias[a].title = Max(seen)

\* No archived run is lost between the floor and the ledger: a run of a day that
\* the floor has passed is indexed or waits in the ledger, whatever failed and
\* whoever was killed (set_checkpoint after the day, record_sync_failure).
NothingForgotten ==
    \A r \in store : base <= DateOf(r) /\ DateOf(r) < floor => r \in db.runs \cup DOMAIN ledger

\* A rebuild repeats: as long as the backfill meets no failure, the ordinals of
\* same-day occurrences are in the order of the runs that were there, although a
\* sync may have been at work when the lineage was claimed.
OrdinalsFollowTime ==
    \A e, f \in {e \in db.events : e.first \in rebuilt} :
        e.id[1] = f.id[1] /\ e.id[2] = f.id[2] /\ e.id[3] < f.id[3] => e.first <= f.first
=============================================================================
