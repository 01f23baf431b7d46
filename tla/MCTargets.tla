----------------------------- MODULE MCTargets -----------------------------
(* The targeter, the object store that keeps its runs, and what reads its  *)
(* reports: matching, outcome claims, selection against the committed      *)
(* generation, the life of a run on disk, the splice that follows the      *)
(* targets, Universe's ingestion of the archived reports and the gamestate *)
(* fetch.                                                                  *)
EXTENDS ImmutableStore, TargeterRuns, GamestateFetch, SpliceConnection, TLC

ASSUME RunsConstants == RunsAssumption
ASSUME GamesConstants == GamesAssumption
ASSUME SpliceConstants == SpliceAssumption

\* A variable belongs to every component that has one of its name; `part` is the
\* component a behaviour is about, and the others' variables hold Unused; the object
\* store, the runs, the game fetches and the splice, whose variables are those of
\* ImmutableStore, TargeterRuns, GamestateFetch and SpliceConnection, stay in an
\* initial state.
VARIABLES
    part,
    strategy, generation, readable, stale, report, catalog, esports, matched, bundle, shape,
    cap, space, masks, decided, prefix, store, damaged, today, db, floor, lineage, cursor,
    job, troubles, base, rebuilt, retries

Unused == "unused"

-----------------------------------------------------------------------------
\* Selection: bundles 1 and 2 are one event before and after it is rescheduled.
SelVenue == [t \in {"k1", "p1", "k2", "p2", "l2"} |->
    CASE t \in {"k1", "k2"} -> "kalshi" [] t \in {"p1", "p2"} -> "polymarket" [] OTHER -> "limitless"]
SelSubs == [t \in DOMAIN SelVenue |-> IF t = "p1" THEN 2 ELSE 1]
Strategy(k, p, l, n, m) ==
    [budget |-> ("kalshi" :> k @@ "polymarket" :> p @@ "limitless" :> l), bundles |-> n, markets |-> m]
SelStrategies == {Strategy(2, 3, 1, 2, 5), Strategy(1, 2, 1, 2, 4), Strategy(2, 3, 0, 1, 5)}
Offer(ts, s, r, e) == [eligible |-> TRUE, markets |-> ts, score |-> s, rank |-> r, evidence |-> e]
SelOffers == <<
    {Offer({"k1", "p1"}, s, 3 - s, e) : s \in 1..2, e \in 1..2},
    {Offer({"k1", "p1"}, 2, 1, 1)},
    {Offer({"k2", "p2"}, 1, 2, 1), Offer({"k2", "p2", "l2"}, 2, 2, 1)}>>

\* Matching: three anchors and a sibling on three venues; one has two times.
One(t) == {[at |-> 4 * t, rank |-> 0]}
Two(t, u) == One(t) \cup {[at |-> 4 * u, rank |-> 1]}
Event(v, a, f, x) == [venue |-> v, anchor |-> a, format |-> f, evidence |-> x]
Times == 0..4
MatchCatalogs ==
    {<<Event("kalshi", TRUE, 0, One(t)), Event("polymarket", TRUE, f, x), Event(v, TRUE, 5, One(u)),
       Event("kalshi", FALSE, g, One(w))>> :
        t \in Times, f \in {0, 3}, x \in {Two(a, b) : a \in {1, 2}, b \in Times},
        v \in {"polymarket", "limitless"}, u \in Times, g \in {0, 3}, w \in {0, 3}}

\* Outcomes: one market of each slot, on maps or on goals.
Market(v, t, n, s, l, i) ==
    [venue |-> v, type |-> t, tokens |-> n, side |-> s, line |-> l, map |-> i, goals |-> <<1, 0>>,
     open |-> TRUE, inScope |-> TRUE, place |-> 1]
Slots == <<
    {Market("kalshi", "series_moneyline", 1, "home", 0, 1), Market("kalshi", "map_winner", 1, "away", 0, 3),
     Market("kalshi", "moneyline_3way", 1, "draw", 0, 1), Market("kalshi", "correct_score", 1, "home", 0, 1)},
    {Market("polymarket", "series_moneyline", 2, "home", 0, 1), Market("polymarket", "map_handicap", 2, "away", 3, 1),
     Market("polymarket", "total_maps", 2, "over", 5, 1), Market("polymarket", "spread", 2, "home", 3, 1)},
    {Market("limitless", "map_winner", 1, "home", 0, 1), [Market("limitless", "total_maps", 1, "under", 7, 1) EXCEPT !.place = 0],
     Market("limitless", "total_goals", 1, "over", 3, 1), Market("limitless", "both_teams_to_score", 1, "yes", 0, 1)},
    {[Market("polymarket", "map_winner", 2, "home", 0, 2) EXCEPT !.open = FALSE],
     [Market("polymarket", "total_maps", 2, "over", 9, 1) EXCEPT !.inScope = FALSE],
     Market("kalshi", "map_handicap", 1, "home", 3, 1), Market("polymarket", "moneyline_3way", 1, "home", 0, 1)}>>
OutcomeBundles == {<<a, b, c, d>> : a \in Slots[1], b \in Slots[2], c \in Slots[3], d \in Slots[4]}

\* Games: two bundles of one event, the second with a ticker more.
GameBundles == <<"b1", "b2">>
GameEvents == [b1 |-> "e1", b2 |-> "e1"]
GameTickers == [b1 |-> {"t1"}, b2 |-> {"t1", "t2"}]
GameReady == [b1 |-> 1, b2 |-> 2]

\* Universe: a rematch on the same day, then one bundle joins what were two events;
\* an incomplete run, then a retained bundle and a rematch that moves a day; an
\* origin that has no complete occurrence.
Cand(b, refs, keys, day) == [bundle |-> b, refs |-> refs, keys |-> keys, day |-> day]
Rep(day, cands, rested) ==
    [day |-> day, complete |-> TRUE, candidates |-> cands, rested |-> rested, catalog |-> {"a", "b", "c"}]
Rest(b, kind, origin, refs) == [bundle |-> b, kind |-> kind, origin |-> origin, context |-> refs]
First == Rep(1, <<Cand("x", {"a"}, "k", 5)>>, {})
Rematch == Rep(1, <<Cand("y", {"b"}, "k", 5)>>, {})
Joined == Rep(2, <<Cand("z", {"a", "b"}, "k", 5)>>, {})
Incomplete == [Rematch EXCEPT !.complete = FALSE]
Moved == Rep(2, <<Cand("y", {"b", "c"}, "k", 6)>>, {Rest("x", "retained", 1, {"a"})})
Orphan == Rep(2, <<>>, {Rest("y", "retired", 2, {"b"})})
SyncReports == {<<First, Rematch, Joined>>, <<First, Incomplete, Moved>>,
                <<[First EXCEPT !.catalog = {}], Incomplete, Orphan>>}

\* The targets file of a splice.
SpliceFiles == {{"m1"}, {"m2"}, {}, Unreadable}

\* One key of the store, two writers: a retry, other bytes, another type, none.
Request(bytes, type) == [bytes |-> bytes, attrs |-> type]
StoreRequests ==
    {[w1 |-> Request("x", "json"), w2 |-> p] :
        p \in {Request("x", "json"), Request("y", "json"), Request("x", "text"), Request("x", None)}}
    \cup {[w1 |-> Request("x", None), w2 |-> Request("x", None)]}

Selection == INSTANCE TargetSelection WITH
    Offers <- SelOffers, Venue <- SelVenue, Subs <- SelSubs, Strategies <- SelStrategies,
    MinimumVenues <- 2, old <- stale
Matching == INSTANCE EventMatching WITH
    Catalogs <- MatchCatalogs, Tolerance <- 4, MinimumVenues <- 2
Claims == INSTANCE OutcomeClaims WITH
    MarketBundles <- OutcomeBundles, Shapes <- {0, 1, 3, 5}, Caps <- {2, 3, 9}
Universe == INSTANCE UniverseSync WITH
    LastRun <- 3, LastDay <- 2, Reports <- SyncReports, RangeEnd <- 2, BatchSize <- 1,
    BootstrapBudget <- 2, MaxWait <- 1, MaxTroubles <- 1, LateArchival <- FALSE,
    ledger <- retries

-----------------------------------------------------------------------------
\* The variables of one component alone.
SelectionOwn == <<strategy, generation, readable>>
MatchingOwn == <<catalog, esports, matched>>
OutcomeOwn == <<bundle, shape, cap, space, masks, decided, prefix>>
UniverseOwn == <<store, damaged, today, db, floor, lineage, cursor, job, troubles, base,
                 rebuilt>>

SelectionIdle ==
    /\ strategy = Unused /\ generation = Unused /\ readable = Unused
MatchingIdle ==
    /\ catalog = Unused /\ esports = Unused /\ matched = Unused
OutcomeIdle ==
    /\ bundle = Unused /\ shape = Unused /\ cap = Unused /\ space = Unused
    /\ masks = Unused /\ decided = Unused /\ prefix = Unused
UniverseIdle ==
    /\ store = Unused /\ damaged = Unused /\ today = Unused /\ db = Unused
    /\ floor = Unused /\ lineage = Unused /\ cursor = Unused /\ job = Unused
    /\ troubles = Unused /\ base = Unused /\ rebuilt = Unused
SpliceIdle == SpliceInit /\ file.is = Unreadable
StoreIdle == Init /\ provider = "local" /\ request = [w \in Writers |-> Request("x", None)]

OthersIdle ==
    /\ SelectionIdle /\ MatchingIdle /\ OutcomeIdle /\ RunsInit /\ UniverseIdle /\ FetchInit
    /\ SpliceIdle /\ stale = Unused /\ report = Unused /\ retries = Unused

PartInit ==
    \/ /\ part = "selection" /\ Selection!Init
       /\ MatchingIdle /\ OutcomeIdle /\ RunsInit /\ UniverseIdle /\ FetchInit
       /\ SpliceIdle /\ retries = Unused
    \/ /\ part = "matching" /\ Matching!Init
       /\ SelectionIdle /\ OutcomeIdle /\ RunsInit /\ UniverseIdle /\ FetchInit
       /\ SpliceIdle /\ stale = Unused /\ report = Unused /\ retries = Unused
    \/ /\ part = "outcome" /\ Claims!Init
       /\ SelectionIdle /\ MatchingIdle /\ RunsInit /\ UniverseIdle /\ FetchInit
       /\ SpliceIdle /\ stale = Unused /\ report = Unused /\ retries = Unused
    \/ /\ part = "runs" /\ RunsInit
       /\ SelectionIdle /\ MatchingIdle /\ OutcomeIdle /\ UniverseIdle /\ FetchInit
       /\ SpliceIdle /\ stale = Unused /\ report = Unused /\ retries = Unused
    \/ /\ part = "universe" /\ Universe!Init
       /\ SelectionIdle /\ MatchingIdle /\ OutcomeIdle /\ RunsInit /\ FetchInit
       /\ SpliceIdle /\ stale = Unused
    \/ /\ part = "game" /\ FetchInit
       /\ SelectionIdle /\ MatchingIdle /\ OutcomeIdle /\ RunsInit /\ UniverseIdle
       /\ SpliceIdle /\ stale = Unused /\ report = Unused /\ retries = Unused
    \/ /\ part = "splice" /\ SpliceInit
       /\ SelectionIdle /\ MatchingIdle /\ OutcomeIdle /\ RunsInit /\ UniverseIdle
       /\ FetchInit /\ stale = Unused /\ report = Unused /\ retries = Unused

MCInit ==
    \/ part = "store" /\ Init /\ OthersIdle
    \/ PartInit /\ StoreIdle

PartNext ==
    \/ /\ part = "selection" /\ Selection!Next
       /\ UNCHANGED <<MatchingOwn, OutcomeOwn, trvars, UniverseOwn, gvars, svars,
                      retries>>
    \/ /\ part = "matching" /\ Matching!Next
       /\ UNCHANGED <<SelectionOwn, OutcomeOwn, trvars, UniverseOwn, gvars, svars,
                      stale, report, retries>>
    \/ /\ part = "outcome" /\ Claims!Next
       /\ UNCHANGED <<SelectionOwn, MatchingOwn, trvars, UniverseOwn, gvars,
                      svars, stale, report, retries>>
    \/ /\ part = "runs" /\ RunsNext
       /\ UNCHANGED <<SelectionOwn, MatchingOwn, OutcomeOwn, UniverseOwn, gvars,
                      svars, stale, report, retries>>
    \/ /\ part = "universe" /\ Universe!Next
       /\ UNCHANGED <<SelectionOwn, MatchingOwn, OutcomeOwn, trvars, gvars, svars,
                      stale>>
    \/ /\ part = "game" /\ FetchNext
       /\ UNCHANGED <<SelectionOwn, MatchingOwn, OutcomeOwn, trvars, UniverseOwn,
                      svars, stale, report, retries>>
    \/ /\ part = "splice" /\ SpliceNext
       /\ UNCHANGED <<SelectionOwn, MatchingOwn, OutcomeOwn, trvars, UniverseOwn,
                      gvars, stale, report, retries>>

others == <<SelectionOwn, MatchingOwn, OutcomeOwn, trvars, UniverseOwn, gvars, svars,
            stale, report, retries>>
mcvars == <<part, vars, others>>

MCNext ==
    /\ UNCHANGED part
    /\ \/ part = "store" /\ Next /\ UNCHANGED others
       \/ PartNext /\ UNCHANGED vars

MCSpec == MCInit /\ [][MCNext]_mcvars

-----------------------------------------------------------------------------
\* Publication accepts what selection selects: the allocation it recomputes from the
\* report agrees, but for the cases the property names (select_targets, verify).
SelectionIsPublishable == part = "selection" => Selection!SelectionIsPublishable

\* A subscription is never dropped or changed silently when a generation replaces
\* another (select_targets, verify_continuity_base).
ContinuityIsKept == [][part = "selection" => Selection!KeepsContinuity]_mcvars

\* Matching loses no event and uses none twice; a candidate keeps only markets with
\* a partner on another venue; Universe recomputes exactly the report's relations;
\* two tokens of a condition exclude each other; and a relation found before a map
\* is played holds after it (match_events, claim_projection.py, state timeline).
CandidatesAreSound ==
    /\ part = "matching" => Matching!EveryEventAccounted
    /\ part = "outcome" =>
         /\ Claims!KeptMarketsArePartnered /\ Claims!ClaimsReproduceReport
         /\ Claims!TokensExclude /\ Claims!FindingsSurvivePlay

\* The store says what the archived reports say in the order they were generated, no
\* archived report is left behind, and ordinals follow the days, for ingestion in
\* any order, with rebuilds, kills and two workers (UniverseSync).
UniverseIsExact ==
    part = "universe" =>
        Universe!HistoryIsByGeneratedTime /\ Universe!NothingForgotten /\ Universe!OrdinalsFollowTime
=============================================================================
