------------------------------ MODULE BookReplay ------------------------------
(***************************************************************************)
(* The replay read path: the walker over pinned derivatives                *)
(* (engine/crates/tape), the risk engine that rebuilds order books from    *)
(* the walked groups (engine/crates/risk), the cuts it puts on the wire    *)
(* (transport/wire.rs) and the Python decoder that follows them            *)
(* (replay/streams/protocol.py).  The venue's real books and the ways a    *)
(* message can go missing before the tape are ghost state.                 *)
(*                                                                         *)
(* Abstractions: one side of a ladder (the other is the same code with the *)
(* order of prices reversed); a delivery carries at most one record (two   *)
(* records of one delivery are two deliveries of one group that agree on   *)
(* epoch and verdict); time is a small integer; reasons, references and    *)
(* hashes are left out; a digest is the text it is computed from.          *)
(***************************************************************************)
EXTENDS Integers, Sequences, FiniteSets, SequencesExt

CONSTANTS
    Keys,           \* the planned books
    Plan,           \* Plan[k]: [lane, instrument, venue]
    Lanes,          \* planned and other lanes of the tape
    Layouts,        \* the sets of windows <<start, end>> a run may be given
    Requests,       \* [start, end, policy]
    Prices,         \* 0 .. 10^price_scale
    MaxQuantity,    \* MAX_QUANTITY_ATOMS
    LevelLimit,     \* max_levels_per_book
    ScanSlots,      \* BEST_SCAN_SLOTS
    FirstBook,      \* the venue's ladder of each book at the start
    None,
    Coverages,      \* what a window's evidence may say of a lane
    Verdicts,       \* the continuity verdicts of fresh deliveries
    GroupSize,      \* bound: deliveries in one tie group
    MaxDeliveries,  \* bound: deliveries on the tape
    MaxLosses,      \* bound: messages lost before the tape
    MaxEpoch        \* bound: connections of a lane

VARIABLES
    walk,    \* the walker: windows, position, effective start, what it read
    engine,  \* the risk engine: books, epochs, blocked, sequence, status
    group,   \* the atomic group being applied
    wire,    \* the record on its way to the decoder, or None
    dec,     \* the Python decoder
    truth,   \* ghost: the venue's ladder of every planned book
    owed,    \* ghost: per lane, a message was lost and no delivery has told yet
    hole,    \* ghost: a delivery of the tape is absent from the derivative
    conn,    \* ghost: the connection each lane is on
    losses   \* bound: messages lost so far

ghosts == <<truth, owed, hole, conn, losses>>
vars == <<walk, engine, group, wire, dec, ghosts>>
-----------------------------------------------------------------------------
(* Books *)

Empty == [p \in Prices |-> 0]
Levels(ladder) == {p \in Prices : ladder[p] > 0}

NewView == [revision |-> 0, validity |-> "not_initialized", ladder |-> None, epoch |-> None]

(* The ladders a change to one level leads to; the caller bounds it. *)
Changes == [kind : {"set"}, q : 1 .. MaxQuantity]
           \cup [kind : {"increase", "decrease"}, q : {1}] \cup {[kind |-> "delete", q |-> 0]}

NewQuantity(old, change) ==
    CASE change.kind = "delete"   -> 0
      [] change.kind = "set"      -> change.q
      [] change.kind = "increase" -> old + change.q
      [] change.kind = "decrease" -> old - change.q

(* Work: a book's view while a group is applied to it. *)
NewWork(view) == [view |-> view, operations |-> <<>>, full |-> FALSE, latched |-> FALSE]

Fail(w, latch) ==
    IF w.latched THEN w
    ELSE [view       |-> [w.view EXCEPT !.validity = "unusable", !.ladder = None, !.epoch = None],
          operations |-> <<>>, full |-> FALSE, latched |-> latch]

Entry(staged, k) == IF k \in DOMAIN staged THEN staged[k] ELSE NewWork(engine.books[k])

Put(staged, k, w) == [j \in DOMAIN staged \cup {k} |-> IF j = k THEN w ELSE staged[j]]

Invalidate(staged, keys, latch) ==
    [k \in DOMAIN staged \cup keys |->
        IF k \in keys THEN Fail(Entry(staged, k), latch) ELSE staged[k]]

(* apply: a Full replaces the ladder; a Delta needs a usable book and a    *)
(* result that is a quantity.                                              *)
Applies(view, e) ==
    /\ e.scaled
    /\ e.type = "delta" =>
          /\ view.validity = "usable"
          /\ NewQuantity(view.ladder[e.price], e.change) \in 0 .. MaxQuantity

Applied(view, e, epoch) ==
    IF e.type = "full"
    THEN [view EXCEPT !.validity = "usable", !.ladder = e.ladder, !.epoch = epoch]
    ELSE [view EXCEPT !.ladder[e.price] = NewQuantity(view.ladder[e.price], e.change)]
-----------------------------------------------------------------------------
(* The engine over one delivery *)

Relevant(lane) == {k \in Keys : Plan[k].lane = lane}
BrokenVerdicts == {"gap_proven", "cursor_went_backwards", "local_counter_broken", "conflict"}

(* What a delivery's header does to the books of its lane. *)
EpochChanged(d) ==
    /\ engine.epochs[d.lane] # None
    /\ engine.epochs[d.lane] # d.epoch

\* mutant: only the books that have a record in the delivery
OnlyNamed(d) == {k \in Relevant(d.lane) : d.record.key = k}
HeaderBooks(d) == Relevant(d.lane)

AfterHeader(staged, d) ==
    LET moved == IF EpochChanged(d) THEN Invalidate(staged, HeaderBooks(d), FALSE) ELSE staged
    IN IF d.verdict \in BrokenVerdicts THEN Invalidate(moved, HeaderBooks(d), TRUE) ELSE moved

(* A book record: not authoritative unless it comes on its planned lane.   *)
BookWork(staged, d) ==
    LET k == d.record.key
        w == IF d.lane \in engine.blocked THEN Fail(Entry(staged, k), TRUE) ELSE Entry(staged, k)
    IN CASE w.latched -> w
         [] ~w.latched /\ ~Applies(w.view, d.record) -> Fail(w, TRUE)
         [] OTHER -> [w EXCEPT !.view = Applied(w.view, d.record, d.epoch),
                               !.full = @ \/ d.record.type = "full",
                               !.operations = IF d.record.type = "delta"
                                              THEN Append(@, d.record) ELSE @]

(* The books a normalization fault puts in doubt. *)
FaultBooks(d) ==
    {k \in Relevant(d.lane) :
        CASE d.record.impact = "instrument" -> Plan[k].instrument = Plan[d.record.key].instrument
          [] d.record.impact = "venue"      -> Plan[k].venue = Plan[d.record.key].venue
          [] d.record.impact = "lane"       -> TRUE
          [] d.record.impact = "audit"      -> FALSE}

Latching == {"closed", "failed"}
Interrupting == {"opened", "closed", "failed", "subscription"}
Interrupts(c) == c \in Interrupting

AfterRecord(staged, d) ==
    LET r == d.record IN
    CASE r.type \in {"full", "delta"} /\ Plan[r.key].lane = d.lane
                             -> Put(staged, r.key, BookWork(staged, d))
      [] r.type = "fault"    -> Invalidate(staged, FaultBooks(d), TRUE)
      [] r.type = "control" /\ Interrupts(r.control)
                             -> Invalidate(staged, Relevant(d.lane), r.control \in Latching)
      [] OTHER               -> staged

(* MarketRecord: what the cut says became of a book record. *)
DispositionOf(staged, d) ==
    CASE d.verdict = "duplicate"                       -> "duplicate"
      [] d.record.type = "trade"                       -> "observed"
      [] Plan[d.record.key].lane # d.lane              -> "not_authority"
      [] staged[d.record.key].view.validity = "usable" -> "applied"
      [] OTHER                                         -> "invalidated"

(* Earlier accepted records of a book that ended the group unusable.       *)
Settled(e, staged) ==
    IF /\ e.disposition = "applied"
       /\ e.key \in DOMAIN staged
       /\ staged[e.key].view.validity # "usable"
    THEN [e EXCEPT !.disposition = "invalidated"] ELSE e
-----------------------------------------------------------------------------
(* commit: every staged book gets the next revision and one decision       *)

Decision(w) ==
    CASE w.view.validity = "usable" /\ w.full -> [kind |-> "snapshot", ladder |-> w.view.ladder]
      [] w.view.validity = "usable"           -> [kind |-> "operations", ops |-> w.operations]
      [] OTHER                                -> [kind |-> "invalidation"]

Committed(staged) ==
    [k \in Keys |-> IF k \in DOMAIN staged
                    THEN [staged[k].view EXCEPT !.revision = engine.books[k].revision + 1]
                    ELSE engine.books[k]]

Transitions(staged) ==
    [k \in DOMAIN staged |-> [previous |-> engine.books[k].revision,
                              revision |-> engine.books[k].revision + 1,
                              decision |-> Decision(staged[k])]]

Commit(staged, events, blocked) ==
    /\ engine' = [engine EXCEPT !.books = Committed(staged), !.sequence = @ + 1,
                                !.blocked = blocked]
    /\ wire' = [kind |-> "cut", sequence |-> engine.sequence + 1,
                transitions |-> Transitions(staged),
                events |-> {Settled(events[i], staged) : i \in DOMAIN events}]

NoGroup == [read |-> 0, included |-> FALSE, staged |-> << >>, events |-> <<>>]
-----------------------------------------------------------------------------
(* The walker *)

(* open: the windows are sorted, each meets the requested interval, they   *)
(* are adjacent and cover it; the policy fixes the effective start.        *)
Admissible(layout, r) ==
    /\ r.start < r.end
    /\ \A w \in layout : w[2] > r.start /\ w[1] < r.end
    /\ \A w \in layout : w[1] = Min({v[1] : v \in layout}) \/ \E v \in layout : v[2] = w[1]
    /\ \A v, w \in layout : v # w => v[1] # w[1] /\ (v[1] < w[1] => v[2] <= w[1])
    /\ Min({w[1] : w \in layout}) <= r.start
    /\ Max({w[2] : w \in layout}) >= r.end
    /\ r.policy = "require" => Min({w[1] : w \in layout}) = r.start

EffectiveStart(layout, r) ==
    IF r.policy = "clip" THEN r.start ELSE Min({w[1] : w \in layout})

Open ==
    /\ engine.status = "new"
    /\ \E layout \in Layouts, r \in Requests :
          IF Admissible(layout, r)
          THEN /\ walk' = [walk EXCEPT !.windows = layout, !.start = EffectiveStart(layout, r),
                                       !.end = r.end, !.at = Min({w[1] : w \in layout})]
               /\ engine' = [engine EXCEPT !.status = "open"]
               /\ wire' = [kind |-> "initial", sequence |-> 0]
          ELSE engine' = [engine EXCEPT !.status = "poisoned"] /\ UNCHANGED <<walk, wire>>
    /\ UNCHANGED <<group, dec, ghosts>>

Idle == engine.status = "open" /\ group = NoGroup /\ wire = None

(* next_inner, window: a new reader's coverage blocks the lanes whose      *)
(* window is not fully there, and every planned book of a blocked lane is  *)
(* invalidated.                                                            *)
Blocks(c) == c # "present"

OpenWindow ==
    /\ Idle
    /\ walk.window = None
    /\ \E w \in walk.windows :
          /\ w[1] = walk.at
          /\ \E coverage \in [{Plan[k].lane : k \in Keys} -> Coverages] :
                LET blocked == {l \in DOMAIN coverage : Blocks(coverage[l])}
                    books == {k \in Keys : Plan[k].lane \in blocked}
                    staged == [k \in books |-> Fail(NewWork(engine.books[k]), TRUE)]
                IN /\ walk' = [walk EXCEPT !.window = w, !.coverage = coverage, !.now = w[1]]
                   /\ Commit(staged, <<>>, blocked)
    /\ UNCHANGED <<group, dec, ghosts>>

(* finish of a window's reader: it verified that every delivery came. *)
CloseWindow ==
    /\ Idle
    /\ walk.window # None
    /\ IF hole
       THEN engine' = [engine EXCEPT !.status = "poisoned"] /\ UNCHANGED walk
       ELSE walk' = [walk EXCEPT !.window = None, !.at = walk.window[2]] /\ UNCHANGED engine
    /\ UNCHANGED <<group, wire, dec, ghosts>>

(* filter: the interval, then the scope.  A delivery of a planned lane is  *)
(* kept for its epoch even when none of its records is in scope.           *)
InInterval(t) == t >= walk.start /\ t < walk.end

InScope(d) ==
    \/ d.record.type \in {"full", "delta", "trade"}
    \/ d.record.type = "fault"
    \/ Relevant(d.lane) # {}

(* source: canonical sequence numbers are adjacent across the whole walk.  *)
Adjacent(skipped) == ~skipped

(* The engine stops at a Full or at a result with too many levels. *)
OverLimit(staged, d, t) ==
    /\ InInterval(t) /\ d.verdict # "duplicate"
    /\ d.record.type \in {"full", "delta"}
    /\ Plan[d.record.key].lane = d.lane
    /\ LET w == BookWork(AfterHeader(staged, d), d)
       IN w.view.ladder # None /\ Cardinality(Levels(w.view.ladder)) > LevelLimit

Stage(d) ==
    LET fresh == d.verdict # "duplicate"
        headed == IF fresh /\ Relevant(d.lane) # {} THEN AfterHeader(group.staged, d) ELSE group.staged
        staged == IF fresh THEN AfterRecord(headed, d) ELSE headed
        market == d.record.type \in {"full", "delta", "trade"}
    IN [read |-> group.read + 1, included |-> TRUE, staged |-> staged,
        events |-> IF market
                   THEN Append(group.events, [key |-> d.record.key,
                                              disposition |-> DispositionOf(staged, d)])
                   ELSE group.events]

NextEpochs(d) ==
    IF d.verdict # "duplicate" /\ Relevant(d.lane) # {}
    THEN [engine.epochs EXCEPT ![d.lane] = d.epoch] ELSE engine.epochs

Read(d, t) ==
    /\ walk' = [walk EXCEPT !.read = @ + 1, !.now = t]
    /\ IF ~Adjacent(hole) \/ (InScope(d) /\ OverLimit(group.staged, d, t))
       THEN engine' = [engine EXCEPT !.status = "poisoned"] /\ UNCHANGED group
       ELSE IF InInterval(t) /\ InScope(d)
       THEN /\ group' = Stage(d)
            /\ engine' = [engine EXCEPT !.epochs = NextEpochs(d)]
       ELSE group' = [group EXCEPT !.read = @ + 1] /\ UNCHANGED engine
    /\ UNCHANGED <<wire, dec>>
-----------------------------------------------------------------------------
(* The tape the walker reads: what the venue sent, and what got lost       *)

Change(k, p, c) == [truth EXCEPT ![k][p] = NewQuantity(@, c)]
Possible(k, p, c) == NewQuantity(truth[k][p], c) \in 0 .. MaxQuantity + 1

(* The venue changes one of the books and no delivery says so. *)
Unseen(keys) ==
    \E k \in keys :
        truth' = [truth EXCEPT ![k][Min(Prices)] = IF @ = 0 THEN 1 ELSE 0]

(* How a fresh delivery may be marked: a broken verdict, a new connection, *)
(* a wrong scale, or nothing.                                              *)
Plain == [verdict |-> "continuous", fresh |-> 0, scaled |-> TRUE]
Marks == {Plain, [Plain EXCEPT !.fresh = 1], [Plain EXCEPT !.scaled = FALSE]}
         \cup {[Plain EXCEPT !.verdict = v] : v \in Verdicts}

NoRecord(type) == [type |-> type, key |-> None]
BookDelta(k, p, c, scaled) ==
    [type |-> "delta", key |-> k, price |-> p, change |-> c, scaled |-> scaled]
BookFull(k, scaled) == [type |-> "full", key |-> k, ladder |-> truth[k], scaled |-> scaled]

CanRead ==
    /\ engine.status = "open" /\ wire = None /\ walk.window # None
    /\ group.read < GroupSize /\ walk.read < MaxDeliveries

Absent == {"missing", "not_expected"}
LaneIsThere(l) == l \in DOMAIN walk.coverage => walk.coverage[l] \notin Absent

(* A lane's next delivery tells that one was lost: the classifier proved a *)
(* gap, or the splice connected again and the epoch is new.                *)
Told(l, verdict, e) == owed[l] => verdict \in BrokenVerdicts \/ e # conn[l]

(* The next delivery of lane l, at the window's time or later. *)
Deliver(l, mark, record) ==
    /\ CanRead /\ LaneIsThere(l)
    /\ \E t \in {walk.now, walk.now + 1} :
          LET e == conn[l] + mark.fresh
              d == [lane |-> l, verdict |-> mark.verdict, epoch |-> e, record |-> record]
          IN /\ e <= MaxEpoch /\ t < walk.window[2]
             /\ group.read > 0 => t = walk.now
             /\ Told(l, mark.verdict, e)
             /\ Read(d, t)
             /\ conn' = [conn EXCEPT ![l] = e]
    /\ owed' = [owed EXCEPT ![l] = FALSE]
    /\ hole' = FALSE
    /\ UNCHANGED losses

DeliverDelta(k) ==
    /\ CanRead
    /\ \E p \in Prices, c \in Changes :
          /\ Possible(k, p, c)
          /\ \E m \in Marks : Deliver(Plan[k].lane, m, BookDelta(k, p, c, m.scaled))
          /\ truth' = Change(k, p, c)

DeliverFull(k) ==
    /\ CanRead
    /\ \A p \in Prices : truth[k][p] <= MaxQuantity
    /\ \E m \in Marks : Deliver(Plan[k].lane, m, BookFull(k, m.scaled))
    /\ UNCHANGED truth

(* A message the normalizer could not read; the venue's books it may have  *)
(* changed are the ones the fault names.                                   *)
DeliverFault(k) ==
    CanRead /\ \E impact \in {"instrument", "venue", "lane", "audit"} :
        LET r == [type |-> "fault", key |-> k, impact |-> impact]
        IN /\ Deliver(Plan[k].lane, Plain, r)
           /\ IF impact = "audit" THEN UNCHANGED truth
              ELSE Unseen(FaultBooks([lane |-> Plan[k].lane, record |-> r]))

(* A connection or subscription event: what the venue did meanwhile was    *)
(* not seen.                                                               *)
DeliverControl(l) ==
    CanRead /\ \E c \in Interrupting \cup {"metadata"} :
        /\ Deliver(l, Plain, [type |-> "control", key |-> None, control |-> c])
        /\ IF c = "metadata" \/ Relevant(l) = {} THEN UNCHANGED truth ELSE Unseen(Relevant(l))

(* A delivery with nothing in scope, or a trade. *)
DeliverOther(l) ==
    /\ CanRead
    /\ \E m \in Marks : /\ m.scaled /\ (Relevant(l) = {} => m = Plain)
                        /\ Deliver(l, m, NoRecord("other"))
    /\ UNCHANGED truth

DeliverTrade(k) ==
    /\ Deliver(Plan[k].lane, Plain, [type |-> "trade", key |-> k])
    /\ UNCHANGED truth

(* A book's records on a lane that is not its authority. *)
DeliverElsewhere(k) ==
    /\ \E l \in Lanes \ {Plan[k].lane} : Deliver(l, Plain, BookFull(k, TRUE))
    /\ UNCHANGED truth

(* A delivery of the tape came twice: it does not tell what was lost.      *)
DeliverAgain(k) ==
    /\ CanRead /\ LaneIsThere(Plan[k].lane)
    /\ Read([lane |-> Plan[k].lane, verdict |-> "duplicate", epoch |-> conn[Plan[k].lane],
             record |-> BookFull(k, TRUE)], walk.now)
    /\ hole' = FALSE
    /\ UNCHANGED <<truth, owed, conn, losses>>

(* Lost on the way to the splice, or with a lane that the window lacks. *)
Lose(l) ==
    /\ CanRead /\ group.read = 0 /\ losses < MaxLosses
    /\ Relevant(l) # {} /\ Unseen(Relevant(l))
    /\ owed' = [owed EXCEPT ![l] = @ \/ walk.coverage[l] = "present"]
    /\ losses' = losses + 1
    /\ UNCHANGED <<walk, engine, group, wire, dec, hole, conn>>

(* Present on the tape, absent from the derivative. *)
LoseFromDerivative(l) ==
    /\ CanRead /\ group.read = 0 /\ losses < MaxLosses
    /\ Relevant(l) # {} /\ Unseen(Relevant(l))
    /\ hole' = TRUE
    /\ losses' = losses + 1
    /\ UNCHANGED <<walk, engine, group, wire, dec, owed, conn>>
-----------------------------------------------------------------------------
(* The end of a group, and of the walk *)

EndGroup ==
    /\ engine.status = "open" /\ wire = None /\ group.read > 0
    /\ group' = NoGroup
    /\ IF group.included
       THEN Commit(group.staged, group.events, engine.blocked)
       ELSE UNCHANGED <<engine, wire>>
    /\ UNCHANGED <<walk, dec, ghosts>>

Shown(book) == [revision |-> book.revision, validity |-> book.validity,
                levels |-> IF book.validity = "usable" THEN book.ladder ELSE Empty]

books_sha256(books) == [k \in Keys |-> Shown(books[k])]

Finish ==
    /\ Idle /\ walk.window = None
    /\ \A w \in walk.windows : w[2] <= walk.at
    /\ engine' = [engine EXCEPT !.status = "finished"]
    /\ wire' = [kind |-> "terminal", sequence |-> engine.sequence + 1,
                cuts |-> engine.sequence, digest |-> books_sha256(engine.books)]
    /\ UNCHANGED <<walk, group, dec, ghosts>>
-----------------------------------------------------------------------------
(* The decoder: a Book keeps quantities, the occupied prices and the best  *)

NewBook == [revision |-> 0, validity |-> "not_initialized", ladder |-> Empty, best |-> None]

BestOf(prices) == IF prices = {} THEN None ELSE Max(prices)

(* _next_best scans ScanSlots prices below the removed one, then takes the *)
(* best of the occupied set.                                               *)
NextBest(ladder, removed) ==
    LET near == {p \in Levels(ladder) : p < removed /\ p >= removed - ScanSlots}
    IN IF near # {} THEN Max(near) ELSE BestOf(Levels(ladder))

Operation(book, op) ==
    LET new == NewQuantity(book.ladder[op.price], op.change)
        ladder == [book.ladder EXCEPT ![op.price] = new]
    IN [book EXCEPT
          !.ladder = ladder,
          !.best = IF new > 0
                   THEN IF @ = None \/ op.price > @ THEN op.price ELSE @
                   ELSE IF @ = op.price THEN NextBest(ladder, op.price) ELSE @]

(* A transition is refused on a revision that does not follow, and         *)
(* operations on a book that is not usable or with a negative result.      *)
Follows(book, t) ==
    /\ t.previous = book.revision /\ t.revision = book.revision + 1
    /\ t.decision.kind = "operations" => book.validity = "usable"

Decided(book, t) ==
    LET d == t.decision
        next == CASE d.kind = "operations" -> FoldLeft(Operation, book, d.ops)
                  [] d.kind = "snapshot"   -> [book EXCEPT !.validity = "usable",
                                                           !.ladder = d.ladder,
                                                           !.best = BestOf(Levels(d.ladder))]
                  [] OTHER                 -> [book EXCEPT !.validity = "unusable",
                                                           !.ladder = Empty, !.best = None]
    IN [next EXCEPT !.revision = t.revision]

Acceptable(r) ==
    /\ r.sequence = dec.sequence + 1
    /\ r.kind = "initial" <=> r.sequence = 0
    /\ r.kind = "cut" => \A k \in DOMAIN r.transitions : Follows(dec.books[k], r.transitions[k])
    /\ r.kind = "terminal" => r.cuts = r.sequence - 1 /\ r.digest = books_sha256(dec.books)

Decode ==
    /\ wire # None /\ dec.status = "open"
    /\ dec' = IF ~Acceptable(wire) THEN [dec EXCEPT !.status = "poisoned"]
              ELSE [sequence |-> wire.sequence,
                    status |-> IF wire.kind = "terminal" THEN "terminal" ELSE "open",
                    books |-> IF wire.kind # "cut" THEN dec.books
                              ELSE [k \in Keys |-> IF k \in DOMAIN wire.transitions
                                                   THEN Decided(dec.books[k], wire.transitions[k])
                                                   ELSE dec.books[k]]]
    /\ wire' = None
    /\ UNCHANGED <<walk, engine, group, ghosts>>
-----------------------------------------------------------------------------
Init ==
    /\ walk = [windows |-> {}, start |-> 0, end |-> 0, at |-> 0, now |-> 0, read |-> 0,
               window |-> None, coverage |-> << >>]
    /\ engine = [books |-> [k \in Keys |-> NewView], epochs |-> [l \in Lanes |-> None],
                 blocked |-> {}, sequence |-> 0, status |-> "new"]
    /\ group = NoGroup
    /\ wire = None
    /\ dec = [books |-> [k \in Keys |-> NewBook], sequence |-> -1, status |-> "open"]
    /\ truth = [k \in Keys |-> FirstBook]
    /\ owed = [l \in Lanes |-> FALSE]
    /\ hole = FALSE
    /\ conn = [l \in Lanes |-> 0]
    /\ losses = 0

Next ==
    \/ Open \/ OpenWindow \/ CloseWindow \/ EndGroup \/ Finish \/ Decode
    \/ \E k \in Keys : \/ DeliverDelta(k) \/ DeliverFull(k) \/ DeliverFault(k)
                       \/ DeliverTrade(k) \/ DeliverElsewhere(k) \/ DeliverAgain(k)
    \/ \E l \in Lanes : DeliverControl(l) \/ DeliverOther(l) \/ Lose(l) \/ LoseFromDerivative(l)

Spec == Init /\ [][Next]_vars
-----------------------------------------------------------------------------
(***************************************************************************)
(* A book the engine calls usable is the venue's book, as of the last      *)
(* delivery the walker read, whatever was lost before: every loss that a   *)
(* verdict, an epoch, a control event, a fault, a window's coverage or a   *)
(* hole in the sequence reveals has made the books it touches unusable,    *)
(* and only a full snapshot brings one back (risk group, window, apply).   *)
(***************************************************************************)
UsableMatchesVenue ==
    engine.status = "open" /\ group = NoGroup /\ ~hole /\ walk.now < walk.end =>
        \A k \in Keys :
            /\ engine.books[k].validity = "usable" /\ ~owed[Plan[k].lane]
                  => engine.books[k].ladder = truth[k]
            /\ engine.books[k].validity = "usable"
                  => engine.books[k].epoch = engine.epochs[Plan[k].lane]

(***************************************************************************)
(* The decoder never refuses what the engine publishes, and once it has    *)
(* taken a record its books are the engine's: same revision, validity and  *)
(* levels, and the best price it maintains by scanning is the best level   *)
(* (Decoder._cut, Book._operations, _next_best, the terminal digest).      *)
(***************************************************************************)
DecoderAgrees ==
    /\ dec.status # "poisoned"
    /\ wire = None => books_sha256(dec.books) = books_sha256(engine.books)
    /\ \A k \in Keys : dec.books[k].best = BestOf(Levels(dec.books[k].ladder))

(***************************************************************************)
(* A published book event is called applied exactly when its book came out *)
(* of the group usable; one that a later record of the group rolled back   *)
(* is called invalidated (risk group, the pass before commit).             *)
(***************************************************************************)
DispositionsAreFinal ==
    wire # None /\ wire.kind = "cut" =>
        \A e \in wire.events :
            /\ e.disposition = "applied" => engine.books[e.key].validity = "usable"
            /\ e.disposition = "invalidated" => engine.books[e.key].validity # "usable"
=============================================================================
