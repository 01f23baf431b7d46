---------------------------- MODULE OutcomeClaims ----------------------------
(***************************************************************************)
(* What the markets of one bundle say about the event, as sets of final    *)
(* outcomes (analysis/outcome_space.py, masks.py), how they relate and     *)
(* which of them a candidate keeps (targeter/v2/relationships.py,          *)
(* selection.py), and the claims Universe recomputes from the report and   *)
(* compares with it (analysis/claims.py, universe/claims).                 *)
(*                                                                         *)
(* Markets are numbered in the order of their target ids.  A market:       *)
(* venue, type, one or two tokens, the side or direction of a single       *)
(* token, its line doubled (so that half lines are whole), map or score,   *)
(* whether it is open, in the class scope, and its place in the cap order. *)
(***************************************************************************)
EXTENDS Integers, Sequences, FiniteSets, SequencesExt, FiniteSetsExt

CONSTANTS
    MarketBundles,  \* the bundles to decide on: sequences of markets
    Shapes,         \* the outcome spaces: best of n, or 0 for a score grid
    Caps            \* maximum_markets_per_bundle

VARIABLES
    bundle, shape, cap,
    space,          \* the final outcomes of the event
    masks,          \* the outcomes that settle each token of the bundle YES
    decided,        \* the candidate: exclusions, the markets kept, the relationships
    prefix          \* the maps played so far

event == <<bundle, shape, cap, space, masks>>
ocvars == <<event, decided, prefix>>

Markets == DOMAIN bundle
Undecided == [done |-> FALSE, exclusions |-> <<>>, kept |-> {}, relations |-> {}]

-----------------------------------------------------------------------------
(* Outcome spaces *)

Wins(s, side) == Cardinality({i \in DOMAIN s : s[i] = side})
Clinch(n) == n \div 2 + 1

\* series_sequences: the map winners, up to the map that decides.
SeriesSpace(n) ==
    {s \in UNION {[1..k -> {"home", "away"}] : k \in Clinch(n)..n} :
        \E side \in {"home", "away"} :
            /\ Wins(s, side) = Clinch(n)
            /\ s[Len(s)] = side
            /\ Wins(s, side) + Clinch(n) > Len(s)}

Lines(b) == {b[m].line \div 2 : m \in DOMAIN b} \cup {0}
Scores(b) == UNION {{b[m].goals[1], b[m].goals[2]} : m \in {m \in DOMAIN b : b[m].type = "correct_score"}}

\* _score_space: the happy-path grid, wide enough for the lines it must split.
ScoreCap(b) ==
    LET widest == Max(Lines(b) \cup Scores(b)) + 5
    IN IF widest > 20 THEN 20 ELSE IF widest < 8 THEN 8 ELSE widest

ScoreSpace(b) == (0..ScoreCap(b)) \X (0..ScoreCap(b))

\* _spaces: one space for the bundles of this model, by its format.
Spaces(b) == IF shape = 0 THEN ScoreSpace(b) ELSE SeriesSpace(shape)

-----------------------------------------------------------------------------
(* Masks *)

\* What a side is ahead by, in maps or goals.
Lead(o, side) ==
    LET d == IF shape = 0 THEN o[1] - o[2] ELSE Wins(o, "home") - Wins(o, "away")
    IN IF side = "home" THEN d ELSE 0 - d

\* _score_mask: the scores that settle a token YES.
ScoreMask(m, view) ==
    CASE m.type = "correct_score" -> {m.goals} \cap space
      [] m.type = "moneyline_3way" ->
            IF view = "draw" THEN {o \in space : o[1] = o[2]} ELSE {o \in space : Lead(o, view) > 0}
      [] m.type = "total_goals" ->
            IF view = "under" THEN {o \in space : 2 * (o[1] + o[2]) < m.line}
            ELSE {o \in space : 2 * (o[1] + o[2]) > m.line}
      [] m.type = "both_teams_to_score" -> {o \in space : o[1] >= 1 /\ o[2] >= 1}
      [] m.type = "spread" ->
            \* The side of the line gives the handicap, the other one receives it.
            {o \in space : 2 * Lead(o, view) + (IF view = m.side THEN 0 - m.line ELSE m.line) > 0}

\* Mutant: the underdog's token is read like the favourite's.
UnderdogCovers(m, view) ==
    CASE m.type = "series_moneyline" -> {o \in space : Lead(o, view) > 0}
      [] m.type = "map_winner" -> {o \in space : Len(o) >= m.map /\ o[m.map] = view}
      [] m.type = "total_maps" ->
            IF view = "under" THEN {o \in space : 2 * Len(o) < m.line} ELSE {o \in space : 2 * Len(o) > m.line}
      [] m.type = "map_handicap" -> {o \in space : 2 * Lead(o, m.side) > m.line}

\* _series_mask: the series that settle a token YES.
SeriesMask(m, view) ==
    CASE m.type = "series_moneyline" -> {o \in space : Lead(o, view) > 0}
      [] m.type = "map_winner" -> {o \in space : Len(o) >= m.map /\ o[m.map] = view}
      [] m.type = "total_maps" ->
            IF view = "under" THEN {o \in space : 2 * Len(o) < m.line} ELSE {o \in space : 2 * Len(o) > m.line}
      [] m.type = "map_handicap" ->
            LET covered == {o \in space : 2 * Lead(o, m.side) > m.line}
            IN IF view = m.side THEN covered ELSE space \ covered

\* compile_mask
MaskOf(m, view) == IF shape = 0 THEN ScoreMask(m, view) ELSE SeriesMask(m, view)

\* _market_views: the affirmative claims of a market, one for each token.
MarketViews(m) ==
    CASE m.type \in {"series_moneyline", "map_winner", "map_handicap", "spread"} ->
            IF m.tokens = 2 THEN <<"home", "away">> ELSE <<m.side>>
      [] m.type \in {"total_maps", "total_goals"} ->
            IF m.tokens = 2 THEN <<"over", "under">> ELSE <<m.side>>
      [] m.type = "moneyline_3way" -> <<m.side>>
      [] OTHER -> <<"yes">>

\* validate_esports_market: a product outside the format is dropped whole.
ProductRefused(m) ==
    \/ m.type = "map_winner" /\ m.map \notin 1..shape
    \/ /\ m.type \in {"total_maps", "map_handicap"}
       /\ \E i \in DOMAIN MarketViews(m) : MaskOf(m, MarketViews(m)[i]) \in {{}, space}

\* market_scope_masks: a mask is named by its market and the number of the claim.
ScopeMasks(b) ==
    UNION {{[key |-> <<k, i>>, venue |-> b[k].venue, yes |-> MaskOf(b[k], MarketViews(b[k])[i])] :
                i \in DOMAIN MarketViews(b[k])} :
            k \in {k \in DOMAIN b : shape = 0 \/ ~ProductRefused(b[k])}}

\* usable_masks: a token that is decided from the start makes no claim.
UsableMasks(excluded) == {x \in masks : x.key[1] \notin excluded /\ x.yes \notin {{}, space}}

-----------------------------------------------------------------------------
(* Relationships *)

\* relationship
Relation(a, b) ==
    CASE a = {} \/ b = {} -> "NONE"
      [] a = b /\ a # {} -> "IDENTITY"
      [] a # b /\ a \subseteq b /\ a # {} -> "IMPLICATION"
      [] a # b /\ b \subseteq a /\ b # {} -> "REVERSE_IMPLICATION"
      [] a # {} /\ b # {} /\ a \cap b = {} -> "MUTUAL_EXCLUSION"
      [] OTHER -> "OVERLAP"

Flip(kind) ==
    CASE kind = "IMPLICATION" -> "REVERSE_IMPLICATION"
      [] kind = "REVERSE_IMPLICATION" -> "IMPLICATION"
      [] OTHER -> kind

KeyLess(x, y) == x[1] < y[1] \/ (x[1] = y[1] /\ x[2] < y[2])

\* derive_bundle_relationships: every pair of usable masks.
BundleRelationships(excluded) ==
    {[left |-> xy[1].key, right |-> xy[2].key, kind |-> Relation(xy[1].yes, xy[2].yes)] :
        xy \in {xy \in UsableMasks(excluded) \X UsableMasks(excluded) : KeyLess(xy[1].key, xy[2].key)}}

\* _cross_relationships: between venues, and a finding.
CrossRelationships(rs) ==
    {r \in rs : bundle[r.left[1]].venue # bundle[r.right[1]].venue /\ r.kind # "OVERLAP"}

Partners(rs, k) == {r.right[1] : r \in {r \in rs : r.left[1] = k}} \cup {r.left[1] : r \in {r \in rs : r.right[1] = k}}

\* _relationship_participants
Participants(ms, rs) == {k \in ms : Partners(rs, k) # {}}

-----------------------------------------------------------------------------
(* The candidate: selection._candidate *)

IsMoneyline(k) == bundle[k].type \in {"moneyline_3way", "series_moneyline"}

\* Moneylines, then the priority of the class and the activity, then the id.
CapOrder(ms) ==
    SetToSortSeq(ms, LAMBDA j, k :
        \/ IsMoneyline(j) /\ ~IsMoneyline(k)
        \/ IsMoneyline(j) = IsMoneyline(k) /\ (bundle[j].place < bundle[k].place
                                               \/ (bundle[j].place = bundle[k].place /\ j < k)))

\* _capped_markets: a market joins a partner that is kept, or with one that fits.
CappedMarkets(ms, rs) ==
    LET order == CapOrder(ms)
        first(k, kept) == {i \in DOMAIN order : order[i] \in (Partners(rs, k) \ kept) \ {k}}
        take(kept, k) ==
            IF Cardinality(kept) >= cap \/ k \in kept THEN kept
            ELSE IF (Partners(rs, k) \ {k}) \cap kept # {} THEN kept \cup {k}
            ELSE IF first(k, kept) # {} /\ Cardinality(kept) + 2 <= cap
                 THEN kept \cup {k, order[Min(first(k, kept))]}
            ELSE kept
    IN FoldLeft(take, {}, order)

\* Formats' own bounds on a line: total maps and handicaps that nothing can meet.
OutsideFormat(m) ==
    /\ shape # 0
    /\ \/ m.type = "map_winner" /\ m.map \notin 1..shape
       \/ m.type = "total_maps" /\ ~(2 * Clinch(shape) <= m.line /\ m.line < 2 * shape)
       \/ m.type = "map_handicap" /\ m.line >= 2 * Clinch(shape)
       \/ ProductRefused(m)

\* Why a market is excluded before any relationship is derived.
EarlyExclusion(m) ==
    CASE ~m.open -> {"not_open_for_orders"}
      [] m.open /\ OutsideFormat(m) -> {"product_outside_series_format"}
      [] m.open /\ ~OutsideFormat(m) /\ ~m.inScope -> {"market_class_outside_scope"}
      [] OTHER -> {}

Candidate ==
    LET early == {k \in Markets : EarlyExclusion(bundle[k]) # {}}
        before == CrossRelationships(BundleRelationships(early))
        related == Participants(Markets \ early, before)
        kept == IF Cardinality(related) > cap THEN CappedMarkets(related, before) ELSE related
        excluded == early \cup (related \ kept)
        relations == BundleRelationships(excluded)
        markets == Participants(kept, CrossRelationships(relations))
    IN [done |-> TRUE,
        exclusions |-> [k \in Markets |->
            EarlyExclusion(bundle[k])
            \cup (IF k \in related \ kept THEN {"market_cap_per_bundle"} ELSE {})
            \cup (IF k \in ((Markets \ early) \ related) \cup (kept \ markets)
                  THEN {"no_modeled_cross_venue_relationship"} ELSE {})],
        kept |-> markets, relations |-> relations]

-----------------------------------------------------------------------------
(* Claims: analysis/claims.py and universe/claims/claim_projection.py *)

\* _excluded_markets: what was already out when the report derived its relations.
ExcludedMarkets(d) == {k \in Markets : d.exclusions[k] \ {"no_modeled_cross_venue_relationship"} # {}}

\* derive_claims: one claim for each set of outcomes, with its masks.
Claims(excluded) ==
    {[yes |-> y, members |-> {x \in UsableMasks(excluded) : x.yes = y}] : y \in {x.yes : x \in UsableMasks(excluded)}}

\* derive_claim_algebra: informative relations, implications from the narrower claim.
ClaimAlgebra(claims) ==
    {[left |-> cd[1], right |-> cd[2], kind |-> Relation(cd[1].yes, cd[2].yes)] :
        cd \in {cd \in claims \X claims : /\ cd[1] # cd[2]
                                          /\ Relation(cd[1].yes, cd[2].yes) \in {"IMPLICATION", "MUTUAL_EXCLUSION"}}}

\* A pair of masks with the lesser key first.
Ordered(x, y, kind) ==
    IF KeyLess(x.key, y.key) THEN [left |-> x.key, right |-> y.key, kind |-> kind]
    ELSE [left |-> y.key, right |-> x.key, kind |-> Flip(kind)]

\* implied_market_relations: identities inside a claim, its relations across claims.
ImpliedRelations(claims) ==
    UNION {{Ordered(xy[1], xy[2], "IDENTITY") :
                xy \in {xy \in c.members \X c.members : xy[1].venue # xy[2].venue}} : c \in claims}
    \cup UNION {{Ordered(xy[1], xy[2], r.kind) :
                xy \in {xy \in r.left.members \X r.right.members : xy[1].venue # xy[2].venue}} :
            r \in ClaimAlgebra(claims)}

-----------------------------------------------------------------------------
(* State conditioned relations *)

\* reachable_keys: a map played removes outcomes and adds none.
Reachable(p) == IF shape = 0 THEN space ELSE {o \in space : IsPrefix(p, o)}

RelationAt(p, x, y) == Relation(x.yes \cap Reachable(p), y.yes \cap Reachable(p))

-----------------------------------------------------------------------------
Init ==
    /\ bundle \in MarketBundles /\ shape \in Shapes
    /\ \A k \in Markets :
        (shape = 0) = (bundle[k].type \in {"correct_score", "moneyline_3way", "total_goals",
                                           "both_teams_to_score", "spread"})
    /\ space = Spaces(bundle)
    /\ masks = ScopeMasks(bundle)
    /\ cap \in Caps
    /\ decided = Undecided
    /\ prefix = <<>>

Decide ==
    /\ ~decided.done
    /\ decided' = Candidate
    /\ UNCHANGED <<event, prefix>>

\* build_state_timeline: the next map settles.
PlayMap ==
    /\ decided.done /\ shape # 0
    /\ \E side \in {"home", "away"} :
        /\ \E o \in Reachable(prefix) : IsPrefix(Append(prefix, side), o)
        /\ prefix' = Append(prefix, side)
    /\ UNCHANGED <<event, decided>>

Next == Decide \/ PlayMap

Spec == Init /\ [][Next]_ocvars

-----------------------------------------------------------------------------
(* Properties *)

\* No place is spent on a market that relates to nothing: each market a candidate
\* keeps has an informative relation to a kept market of another venue, and the
\* cap takes no market that the second derivation then finds without one
\* (_capped_markets, _relationship_participants).
KeptMarketsArePartnered ==
    decided.done =>
        /\ Cardinality(decided.kept) <= cap
        /\ \A k \in decided.kept :
            \E j \in decided.kept : j \in Partners(CrossRelationships(decided.relations), k)
        /\ LET early == {k \in Markets : EarlyExclusion(bundle[k]) # {}}
           IN \A k \in Participants(Markets \ early, CrossRelationships(BundleRelationships(early))) :
                "no_modeled_cross_venue_relationship" \notin decided.exclusions[k]

\* Universe neither invents nor misses a relation: the claims it recomputes from
\* the report's exclusions imply exactly the cross-venue relations of the report
\* (verify_claims raises on an invented one and counts a missed one).
ClaimsReproduceReport ==
    decided.done =>
        ImpliedRelations(Claims(ExcludedMarkets(decided))) = CrossRelationships(decided.relations)

\* A two-token condition settles one token at most, whatever is played.
TokensExclude ==
    decided.done => \A x, y \in UsableMasks({}) : x.key[1] = y.key[1] /\ x # y => x.yes \cap y.yes = {}

\* "Transitions never add outcomes": a finding made before a map is played still
\* holds after it, or one of the two claims is decided against.
FindingsSurvivePlay ==
    \A x, y \in UsableMasks({}) : \A n \in 0..(Len(prefix) - 1) :
        LET was == RelationAt(SubSeq(prefix, 1, n), x, y)
            is == RelationAt(prefix, x, y)
        IN \/ is = "NONE" \/ was \in {"NONE", "OVERLAP"} \/ is = was
           \/ was \in {"IMPLICATION", "REVERSE_IMPLICATION"} /\ is = "IDENTITY"
=============================================================================
