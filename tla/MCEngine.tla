------------------------------ MODULE MCEngine ------------------------------
(* From the sealed segments to the strategies: the merge into windows and  *)
(* their retention, the ingest store, the normalized derivatives, the      *)
(* engine's books and their decoder, and the economic runtime.             *)
EXTENDS CanonicalRetention, Sequences, TLC

CONSTANTS Nil, k1, k2

\* A variable belongs to every component that has one of its name; `part` is the
\* component a behaviour is about, and the others' variables hold Unused; the
\* retention of windows, whose variables are those of CanonicalRetention, stays in its
\* initial state.
VARIABLES
    part,
    tape, claims, live, window, stage, late, invalid, att, scratch, receipts, reaped,
    mishaps, dirs, older, proc, sealed, today, stepsBack, walk, engine, group, wire, dec,
    truth, owed, hole, conn, losses, rt, hist, cuts, phase,
    src, setup, lock, stages, final, safe, builder, kept, reader, dTrouble

Unused == "unused"

-----------------------------------------------------------------------------
\* Ingestion: two lanes; connection c1 goes on over two segments of the first, with a
\* lifecycle record, a retransmission, a reused record id and a line that does not parse.
Line(id, payload, socket, counter, kind, key) ==
    [id |-> id, payload |-> payload, conn |-> socket, counter |-> counter, kind |-> kind, key |-> key]
IngestLines ==
    << << Line("a", "p", "c1", 1, "lifecycle", Nil), Line("b", "p", "c1", 2, "frame", 1) >>,
       << Line("x", "p", "c2", 1, "snapshot", 7), Line("y", "p", Nil, 0, "unparseable", Nil),
          Line("x", "q", "c2", 2, "frame", Nil) >>,
       << Line("b", "p", "c1", 2, "frame", 1), Line("c", "p", "c1", 3, "frame", 2) >> >>

\* Books: two books on one lane, a second lane that is nobody's authority.
BookPlan == [k \in {k1, k2} |-> [lane |-> "l1", instrument |-> k, venue |-> "v"]]
BookLayouts == {{<<0, 2>>, <<2, 3>>}, {<<0, 1>>, <<2, 3>>}}
BookRequests == {[start |-> 1, end |-> 3, policy |-> p] : p \in {"clip", "require"}}
BookFirst == [p \in {1, 3} |-> 1]

\* Economics: two scopes, quotes 1 and 2, a gross and a net predicate.
EconomicClasses == [q \in {1, 2} \X {1, 2} |-> CASE q[1] + q[2] = 2 -> "none"
                                                 [] q[1] + q[2] = 3 -> "gross"
                                                 [] OTHER -> "net"]
EconomicKinds == << [name |-> "gross", classes |-> {"gross", "net"}], [name |-> "net", classes |-> {"net"}] >>

\* Derivatives: every window of two deliveries and many of three, valid and not, for
\* the checks; one valid window, two builders and two encoders for the publication.
Delivery(seq, lane, index, vis, tie, size, result) ==
    [seq |-> seq, lane |-> lane, index |-> index, vis |-> vis, tie |-> tie, size |-> size,
     result |-> result]
TwoDeliveries ==
    {<<Delivery(0, "a", 0, v1, t1, s1, "one"), Delivery(q, l, i, v2, t2, s2, "one")>> :
        v1 \in 0..2, t1 \in {Nil, 0, 1}, s1 \in 1..3,
        q \in 0..2, l \in {"a", "b"}, i \in 0..1, v2 \in 0..2, t2 \in {Nil, 0, 1}, s2 \in 1..2}
ThreeDeliveries ==
    {<<Delivery(0, "a", 0, v1, t1, s1, "one"), Delivery(1, l2, 1, v2, t2, 1, "one"),
       Delivery(2, l3, 2, v3, t3, s3, "one")>> :
        l2, l3 \in {"a", "b"}, v1, v2, v3 \in 0..1, t1, t2, t3 \in {Nil, 0, 1}, s1, s3 \in 1..2}
EveryResult ==
    {<<Delivery(0, "a", 0, 0, Nil, 1, r1), Delivery(1, "b", 0, 1, Nil, 1, r2)>> :
        r1, r2 \in {"one", "two", "none", "ignored", "reject", "fault"}}
TiedWindow == <<Delivery(0, "a", 0, 0, 0, 1, "two"), Delivery(1, "b", 0, 0, 0, 1, "reject")>>
OneSetup == [b \in {"b1"} |-> [address |-> "A", encoder |-> "v1"]]
TwoSetups ==
    {[b \in {"b1", "b2"} |-> IF b = "b1" THEN [address |-> "A", encoder |-> "v1"]
                             ELSE [address |-> a, encoder |-> e]] : a \in {"A", "B"}, e \in {"v1", "v2"}}

BookSymmetry == Permutations({k1, k2})

Merge == INSTANCE CanonicalMerge WITH
    Lanes <- <<"binance", "kalshi">>, Ranks <- [l \in {"kalshi"} |-> 10],
    Expected <- {"kalshi"}, LastWindow <- 3, MaxRecords <- 3, MaxMishaps <- 1, None <- Nil
Ingest == INSTANCE IngestPartition WITH
    Segments <- {1, 2, 3}, Lane <- <<"l1", "l2", "l1">>, Lines <- IngestLines, LastDay <- 3,
    Batch <- 1, Retention <- 1, MaxMishaps <- 1, MaxStepsBack <- 1, None <- Nil
Book == INSTANCE BookReplay WITH
    Keys <- {k1, k2}, Lanes <- {"l1", "l2"}, Plan <- BookPlan, Layouts <- BookLayouts,
    Requests <- BookRequests, FirstBook <- BookFirst, Prices <- {1, 3},
    Coverages <- {"present", "missing"}, Verdicts <- {"continuous", "gap_proven"},
    MaxQuantity <- 1, LevelLimit <- 2, ScanSlots <- 1, GroupSize <- 2, MaxDeliveries <- 3,
    MaxLosses <- 1, MaxEpoch <- 1, None <- Nil
Economic == INSTANCE EconomicRuntime WITH
    Quotes <- {1, 2}, ClassOf <- EconomicClasses, Kinds <- EconomicKinds, Ends <- <<1, 4>>,
    Shift <- 1, Tiers <- {1}, Edges <- <<1>>, MaxCuts <- 2, None <- Nil
Window == INSTANCE Materializer WITH
    Builders <- {"b1"}, Windows <- TwoDeliveries \cup ThreeDeliveries \cup EveryResult \cup {<<>>},
    Setups <- {OneSetup}, WindowEnd <- 2, MaxGroup <- 3, MaxTrouble <- 0, None <- Nil, trouble <- dTrouble
Build == INSTANCE Materializer WITH
    Builders <- {"b1", "b2"}, Windows <- {TiedWindow}, Setups <- TwoSetups,
    WindowEnd <- 2, MaxGroup <- 3, MaxTrouble <- 2, None <- Nil, trouble <- dTrouble

-----------------------------------------------------------------------------
\* The variables of one component alone.
MergeOwn == <<tape, claims, live, window, stage, late, invalid, att, scratch, receipts,
              reaped>>
IngestOwn == <<dirs, older, proc, sealed, today, stepsBack>>
BookOwn == <<walk, engine, group, wire, dec, truth, owed, hole, conn, losses>>
EconomicOwn == <<rt, hist, cuts, phase>>
DerivativeOwn == <<src, setup, lock, stages, final, safe, builder, kept, reader, dTrouble>>

MergeIdle ==
    /\ tape = Unused /\ claims = Unused /\ live = Unused /\ window = Unused
    /\ stage = Unused /\ late = Unused /\ invalid = Unused /\ att = Unused
    /\ scratch = Unused /\ receipts = Unused /\ reaped = Unused
IngestIdle ==
    /\ dirs = Unused /\ older = Unused /\ proc = Unused /\ sealed = Unused
    /\ today = Unused /\ stepsBack = Unused
BookIdle ==
    /\ walk = Unused /\ engine = Unused /\ group = Unused /\ wire = Unused
    /\ dec = Unused /\ truth = Unused /\ owed = Unused /\ hole = Unused /\ conn = Unused
    /\ losses = Unused
EconomicIdle ==
    /\ rt = Unused /\ hist = Unused /\ cuts = Unused /\ phase = Unused
DerivativeIdle ==
    /\ src = Unused /\ setup = Unused /\ lock = Unused /\ stages = Unused
    /\ final = Unused /\ safe = Unused /\ builder = Unused /\ kept = Unused
    /\ reader = Unused /\ dTrouble = Unused

PartInit ==
    \/ /\ part = "merge" /\ Merge!Init
       /\ IngestIdle /\ BookIdle /\ EconomicIdle /\ DerivativeIdle
    \/ /\ part = "ingest" /\ Ingest!Init
       /\ MergeIdle /\ BookIdle /\ EconomicIdle /\ DerivativeIdle
    \/ /\ part = "book" /\ Book!Init
       /\ MergeIdle /\ IngestIdle /\ EconomicIdle /\ DerivativeIdle /\ mishaps = Unused
    \/ /\ part = "economic" /\ Economic!Init
       /\ MergeIdle /\ IngestIdle /\ BookIdle /\ DerivativeIdle /\ mishaps = Unused
    \/ /\ \/ part = "window" /\ Window!Init
          \/ part = "build" /\ Build!Init
       /\ MergeIdle /\ IngestIdle /\ BookIdle /\ EconomicIdle /\ mishaps = Unused

MCInit ==
    /\ Init
    /\ \/ PartInit
       \/ /\ part = "retention" /\ mishaps = Unused
          /\ MergeIdle /\ IngestIdle /\ BookIdle /\ EconomicIdle /\ DerivativeIdle

PartNext ==
    \/ /\ part = "merge" /\ Merge!Next
       /\ UNCHANGED <<IngestOwn, BookOwn, EconomicOwn, DerivativeOwn>>
    \/ /\ part = "ingest" /\ Ingest!Next
       /\ UNCHANGED <<MergeOwn, BookOwn, EconomicOwn, DerivativeOwn>>
    \/ /\ part = "book" /\ Book!Next
       /\ UNCHANGED <<MergeOwn, IngestOwn, EconomicOwn, DerivativeOwn, mishaps>>
    \/ /\ part = "economic" /\ Economic!Next
       /\ UNCHANGED <<MergeOwn, IngestOwn, BookOwn, DerivativeOwn, mishaps>>
    \/ /\ \/ part = "window" /\ Window!Next
          \/ part = "build" /\ Build!Next
       /\ UNCHANGED <<MergeOwn, IngestOwn, BookOwn, EconomicOwn, mishaps>>

others == <<MergeOwn, IngestOwn, BookOwn, EconomicOwn, DerivativeOwn, mishaps>>
mcvars == <<part, vars, others>>

MCNext ==
    /\ UNCHANGED part
    /\ \/ part = "retention" /\ Next /\ UNCHANGED others
       \/ PartNext /\ UNCHANGED vars

MCSpec == MCInit /\ [][MCNext]_mcvars

-----------------------------------------------------------------------------
\* A window is the merge its inputs define whatever was lost and repeated on the way,
\* each connection verdict is what its history says, and the audit accepts exactly
\* the windows that were so made (merge, continuity, audit).
CanonicalIsExact ==
    part = "merge" => Merge!OutputIsCanonical /\ Merge!VerdictsAreHistory /\ Merge!AuditIsExact

\* Each line of a segment is stored once, its verdict is the one an uninterrupted
\* process gives, and no kill leaves a partition the next start refuses.
IngestIsExact ==
    part = "ingest" => Ingest!EachLineOnce /\ Ingest!VerdictsAreExact /\ Ingest!NeverRefused

\* A book that the engine calls usable is the venue's, the decoder of the stream holds
\* the engine's books, and the disposition sent with an event is the one its whole tie
\* group gives it (risk, book, protocol.py).
BooksAreTrue ==
    part = "book" => Book!UsableMatchesVenue /\ Book!DecoderAgrees /\ Book!DispositionsAreFinal

\* The intervals and the totals the runtime emits are those of the quotes it was
\* given, and the reader of its output accepts them (economic_sdk).
EconomicsAreExact == part = "economic" => Economic!OutputIsExact /\ Economic!ReaderAccepts

\* A build accepts exactly the windows the reader of its output accepts, which are the
\* valid ones; and whatever dies in between, a receipt stands over the bytes it names,
\* a committed derivative stays, no live builder's stage is swept, and a read that
\* reached its end gave every delivery of the pinned bytes (materialize).
DerivativesAreTrue ==
    /\ part = "window" => Window!WriterAgreesWithReader
    /\ part = "build" =>
         /\ Build!ReceiptIsTrue /\ Build!CommittedStays /\ Build!StagesAreOwned
         /\ Build!FinishedReadIsTrue

\* "rollover never bisects a sealed segment" (cli/main.rs).
RolloverNeverBisects == part = "ingest" => Ingest!RolloverNeverBisects
=============================================================================
