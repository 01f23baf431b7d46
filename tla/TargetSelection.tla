-------------------------- MODULE TargetSelection --------------------------
(***************************************************************************)
(* What the splices subscribe to: the targeter allocates bundles of        *)
(* cross-venue markets to venue budgets (targeter/v2/selection.py), holds  *)
(* on to the bundles of the committed generation (continuity.py, run.py),  *)
(* and publication recomputes that allocation from the archived report     *)
(* before it commits a new generation (publication_validation.py).         *)
(*                                                                         *)
(* Bundles are numbers in the order of their bundle ids.  The evidence of  *)
(* a bundle's targets (class, subscription ids, timing, source reference)  *)
(* is one version number.  Scores and ranks are small numbers.             *)
(***************************************************************************)
EXTENDS Integers, Sequences, FiniteSets, SequencesExt, FiniteSetsExt

CONSTANTS
    Offers,         \* the candidates discovery can make of a bundle, by bundle
    Venue, Subs,    \* the venue and the number of subscription ids of a target
    Strategies,     \* the budgets and limits a deployment can configure
    MinimumVenues

Bundles == DOMAIN Offers
Venues == {Venue[t] : t \in DOMAIN Venue}
NoCandidate == [eligible |-> FALSE, markets |-> {}, score |-> 0, rank |-> 0, evidence |-> 0]
NoReport == [made |-> FALSE]

VARIABLES
    strategy,       \* target_budgets, maximum_bundles, maximum_markets
    generation,     \* the committed generation: whether there is one, and its bundles
    readable,       \* load_continuity_bundles can load it
    old,            \* it is older than continuity_degraded_after_seconds
    report          \* the report of the run in progress, or NoReport

vars == <<strategy, generation, readable, old, report>>

-----------------------------------------------------------------------------
(* Allocation: select_targets *)

\* Higher scores first, then the bundle id.
ByScore(S, score) ==
    SetToSortSeq(S, LAMBDA b, c : score[b] > score[c] \/ (score[b] = score[c] /\ b < c))

\* How a prior bundle leaves whatever the budgets are, or "none".
Retirement(view, base, b) ==
    CASE b \in view.clamped -> "terminal_clamp_elapsed"
      [] b \notin view.clamped /\ base[b].targets \subseteq view.terminal -> "all_markets_terminal"
      [] OTHER -> "none"

\* The current candidate is what was published, and nothing of it is terminal.
IsHeld(view, base, b) ==
    /\ view.candidates[b].eligible
    /\ view.candidates[b].markets = base[b].targets
    /\ view.candidates[b].evidence = base[b].evidence
    /\ base[b].targets \cap view.terminal = {}

Increment(a, ts, v) == MapThenSumSet(LAMBDA t : Subs[t], {t \in ts \ DOMAIN a.targets : Venue[t] = v})

Fits(a, ts) == \A v \in Venues : a.used[v] + Increment(a, ts, v) <= strategy.budget[v]

Full(a) == Cardinality(a.selected) >= strategy.bundles

\* Bundle b with targets ts joins the allocation a.
Take(a, b, ts, score, evidence) ==
    [a EXCEPT !.selected = @ \cup {b},
              !.used = [v \in Venues |-> @[v] + Increment(a, ts, v)],
              !.targets = @ @@ [t \in ts |-> [bundle |-> b, score |-> score, evidence |-> evidence]]]

Reject(a, b, why) == [a EXCEPT !.rejected = @ @@ (b :> why)]

NothingAllocated ==
    [selected |-> {}, used |-> [v \in Venues |-> 0], targets |-> <<>>, rejected |-> <<>>]

\* Mutant: a bundle of the floor that is full is kept while its budget fits.
AllocateUnlimited(view, base) ==
    LET protected == {b \in DOMAIN base : Retirement(view, base, b) = "none"}
        take(a, b) ==
            IF ~Fits(a, base[b].targets) THEN Reject(a, b, "continuity_budget_trimmed")
            ELSE Take(a, b, base[b].targets, base[b].score, base[b].evidence)
    IN FoldLeft(take, NothingAllocated, ByScore(protected, [b \in protected |-> base[b].score]))

\* The protected floor: prior bundles that are not retired, best score first.
AllocateProtected(view, base) ==
    LET protected == {b \in DOMAIN base : Retirement(view, base, b) = "none"}
        take(a, b) ==
            IF ~Fits(a, base[b].targets) \/ Full(a) THEN Reject(a, b, "continuity_budget_trimmed")
            ELSE Take(a, b, base[b].targets,
                      IF IsHeld(view, base, b) THEN view.candidates[b].score ELSE base[b].score,
                      base[b].evidence)
    IN FoldLeft(take, NothingAllocated, ByScore(protected, [b \in protected |-> base[b].score]))

\* The rest of the eligible candidates, in the order of their rank.
AllocateAdditive(view, base, floor) ==
    LET additive == {b \in Bundles : view.candidates[b].eligible
                                     /\ ~(b \in DOMAIN base /\ Retirement(view, base, b) = "none")}
        blockedByFloor(a, ts) ==
            \A v \in Venues : a.used[v] - floor.used[v] + Increment(a, ts, v) <= strategy.budget[v]
        take(a, b) ==
            LET ts == view.candidates[b].markets
            IN CASE Full(a) ->
                      Reject(a, b, IF floor.selected # {} THEN "displaced_by_continuity_hold"
                                   ELSE "maximum_bundles_reached")
                 [] ~Full(a) /\ ts \cap DOMAIN a.targets # {} ->
                      Reject(a, b, "continuity_identity_collision")
                 [] ~Full(a) /\ ts \cap DOMAIN a.targets = {}
                      /\ Cardinality(DOMAIN a.targets) + Cardinality(ts) > strategy.markets ->
                      Reject(a, b, "maximum_markets_reached")
                 [] OTHER ->
                      IF Fits(a, ts)
                      THEN Take(a, b, ts, view.candidates[b].score, view.candidates[b].evidence)
                      ELSE Reject(a, b, IF blockedByFloor(a, ts) THEN "displaced_by_continuity_hold"
                                        ELSE "target_budget_exceeded")
    IN FoldLeft(take, floor, ByScore(additive, [b \in additive |-> view.candidates[b].rank]))

Disposition(view, base, floor, b) ==
    CASE Retirement(view, base, b) # "none" -> Retirement(view, base, b)
      [] b \in DOMAIN floor.rejected -> "continuity_budget_trimmed"
      [] IsHeld(view, base, b) /\ b \notin DOMAIN floor.rejected -> "held_current_candidate"
      [] OTHER -> "retained"

\* The selection report of one run.
SelectTargets(view, base, degraded) ==
    LET floor == AllocateProtected(view, base)
        all == AllocateAdditive(view, base, floor)
        dispositions == [b \in DOMAIN base |-> Disposition(view, base, floor, b)]
    IN [made |-> TRUE, view |-> view, base |-> base, degraded |-> degraded,
        dispositions |-> dispositions,
        retained |-> {b \in DOMAIN base : dispositions[b] = "retained"},
        selected |-> all.selected, targets |-> all.targets, rejected |-> all.rejected]

-----------------------------------------------------------------------------
(* Publication recomputes the report: verify_continuity_base and targets_from_report *)

Retirements == {"all_markets_terminal", "terminal_clamp_elapsed"}

\* Mutant: a generation that can be loaded again does not void a degraded report.
BaseUnchecked(rep) == rep.degraded => old

\* The base the report observed is the committed generation, or the report
\* proves that it was too damaged and too old to hold on to.
BaseMatches(rep) ==
    IF ~generation.committed THEN rep.base = <<>> /\ ~rep.degraded
    ELSE IF readable THEN rep.base = generation.bundles /\ ~rep.degraded
    ELSE rep.base = <<>> /\ rep.degraded /\ old

\* Every prior bundle is accounted for, by a reason its probes support.
DispositionsMatch(rep) ==
    \A b \in DOMAIN rep.base :
        LET expected == Retirement(rep.view, rep.base, b)
            given == rep.dispositions[b]
        IN /\ expected # "none" => given = expected
           /\ expected = "none" => given \notin Retirements
           /\ given = "retained" => b \in rep.retained /\ b \in rep.selected
           /\ given = "held_current_candidate" => b \in rep.selected

\* The floor, allocated again from the report's continuity evidence alone.
ExpectedTrimmed(rep) ==
    LET protected == {b \in DOMAIN rep.base : rep.dispositions[b] \notin Retirements}
        take(a, b) ==
            IF Full(a) \/ ~Fits(a, rep.base[b].targets) THEN Reject(a, b, "trimmed")
            ELSE Take(a, b, rep.base[b].targets, rep.base[b].score, 0)
    IN DOMAIN FoldLeft(take, NothingAllocated,
                       ByScore(protected, [b \in protected |-> rep.base[b].score])).rejected

TrimmingMatches(rep) ==
    {b \in DOMAIN rep.base : rep.dispositions[b] = "continuity_budget_trimmed"} = ExpectedTrimmed(rep)

TargetsOfBundle(rep, b) == {t \in DOMAIN rep.targets : rep.targets[t].bundle = b}

\* A selected bundle has exactly the targets of its evidence: those of the prior
\* generation when it is retained, those of an eligible candidate otherwise.
SelectionMatches(rep) ==
    \A b \in rep.selected :
        LET c == rep.view.candidates[b]
            prior(t) == b \in DOMAIN rep.base /\ t \in rep.base[b].targets
        IN /\ b \in rep.retained \/ c.eligible
           /\ TargetsOfBundle(rep, b) = IF b \in rep.retained THEN rep.base[b].targets ELSE c.markets
           /\ \A t \in TargetsOfBundle(rep, b) :
                rep.targets[t].evidence = IF prior(t) THEN rep.base[b].evidence ELSE c.evidence
           /\ Cardinality({Venue[t] : t \in TargetsOfBundle(rep, b)}) >= MinimumVenues

\* Watching nothing is published only when every prior bundle is explained.
TerminalEmpty(rep) ==
    /\ rep.selected = {} /\ rep.base # <<>>
    /\ \A b \in DOMAIN rep.base : rep.dispositions[b] \in Retirements \cup {"continuity_budget_trimmed"}

Accepts(rep) ==
    /\ BaseMatches(rep)
    /\ DispositionsMatch(rep) /\ TrimmingMatches(rep) /\ SelectionMatches(rep)
    /\ rep.selected # {} \/ TerminalEmpty(rep)

\* The generation a report publishes.
Generation(rep) ==
    [committed |-> TRUE,
     bundles |-> [b \in rep.selected |->
        LET ts == TargetsOfBundle(rep, b)
            any == CHOOSE t \in ts : TRUE
        IN [targets |-> ts, score |-> rep.targets[any].score, evidence |-> rep.targets[any].evidence]]]

-----------------------------------------------------------------------------
(* Runs *)

Init ==
    /\ strategy \in Strategies
    /\ generation = [committed |-> FALSE, bundles |-> <<>>]
    /\ readable = TRUE /\ old = FALSE
    /\ report = NoReport

\* What one discovery sees of the venues; a bundle past the terminal clamp is
\* past post_start_retention too, so it is no candidate.
Views(base) ==
    {v \in [candidates : {f \in [Bundles -> UNION {Offers[b] : b \in Bundles} \cup {NoCandidate}] :
                            \A b \in Bundles : f[b] \in Offers[b] \cup {NoCandidate}},
            terminal : SUBSET UNION {base[b].targets : b \in DOMAIN base},
            clamped : SUBSET DOMAIN base] :
        \A b \in v.clamped : ~v.candidates[b].eligible}

\* The bundles a run must account for: it fails closed on a damaged generation
\* until the generation is old.
ContinuityForRun == IF readable THEN generation.bundles ELSE <<>>

RunShadow ==
    /\ report = NoReport
    /\ readable \/ old
    /\ \E v \in Views(ContinuityForRun) :
        report' = SelectTargets(v, ContinuityForRun, ~readable)
    /\ UNCHANGED <<strategy, generation, readable, old>>

PublishRun ==
    /\ report # NoReport
    /\ Accepts(report)
    /\ generation' = Generation(report)
    /\ readable' = TRUE /\ old' = FALSE
    /\ report' = NoReport
    /\ UNCHANGED strategy

\* A refused report, an incomplete discovery or a killed run leaves the pointer.
RunEnds ==
    /\ report # NoReport
    /\ report' = NoReport
    /\ UNCHANGED <<strategy, generation, readable, old>>

\* The generation's files are damaged, or mended, at any time.
Damage ==
    /\ generation.committed
    /\ readable' = ~readable
    /\ UNCHANGED <<strategy, generation, old, report>>

GrowOld ==
    /\ generation.committed /\ ~old
    /\ old' = TRUE
    /\ UNCHANGED <<strategy, generation, readable, report>>

\* Another strategy file is deployed between two runs.
Deploy ==
    /\ report = NoReport
    /\ strategy' \in Strategies \ {strategy}
    /\ UNCHANGED <<generation, readable, old, report>>

Next == RunShadow \/ PublishRun \/ RunEnds \/ Damage \/ GrowOld \/ Deploy

Spec == Init /\ [][Next]_vars

-----------------------------------------------------------------------------
(* Properties *)

\* The prior bundles that come before b in the floor and stay leave it no room.
NoRoomFor(b, base, kept) ==
    LET before == {c \in kept : base[c].score > base[b].score \/ (base[c].score = base[b].score /\ c < b)}
        on(c, v) == MapThenSumSet(LAMBDA t : Subs[t], {t \in base[c].targets : Venue[t] = v})
    IN \/ Cardinality(before) >= strategy.bundles
       \/ \E v \in Venues : MapThenSumSet(LAMBDA c : on(c, v), before) + on(b, v) > strategy.budget[v]

\* A subscription is never dropped or changed silently: when a generation
\* replaces another, each bundle of the old one is in the new one with the same
\* targets and evidence, or it ended (clamp, or every market terminal), or better
\* bundles of the old one fill the budget, or the old one was damaged past its age.
KeepsContinuity ==
    (report # NoReport /\ report' = NoReport) =>
        LET base == generation.bundles
            kept == DOMAIN base \cap DOMAIN generation'.bundles
        IN \A b \in DOMAIN base :
            \/ /\ b \in kept
               /\ generation'.bundles[b].targets = base[b].targets
               /\ generation'.bundles[b].evidence = base[b].evidence
            \/ b \in report.view.clamped
            \/ base[b].targets \subseteq report.view.terminal
            \/ NoRoomFor(b, base, kept)
            \/ ~readable /\ old

\* Publication accepts what selection selects: the allocation it recomputes from
\* the report agrees with the allocation, unless the run selected nothing, the
\* generation was damaged or mended since, or a bundle reported terminal is
\* selected again with other evidence.
SelectionIsPublishable ==
    (report # NoReport /\ BaseMatches(report)) =>
        \/ Accepts(report)
        \/ report.selected = {}
        \/ \E b \in report.selected \cap DOMAIN report.base :
            /\ report.dispositions[b] \in Retirements
            /\ report.view.candidates[b].evidence # report.base[b].evidence
=============================================================================
