--------------------------- MODULE EventMatching ---------------------------
(***************************************************************************)
(* Cross-venue matching (targeter/v2/matching.py) and the markets of a     *)
(* candidate (targeter/v2/selection.py), for the events of one sport, game *)
(* and pair of participants: identities are matched exactly, so groups of  *)
(* events never meet.                                                      *)
(*                                                                         *)
(* An event: its venue, whether it owns a series moneyline (an anchor),    *)
(* its best-of format (0 is unknown), and its activation evidence, a set   *)
(* of instants with their precedence (0 is structured and primary).        *)
(* Instants are multiples of 4, which keeps every median whole.            *)
(***************************************************************************)
EXTENDS Integers, Sequences, FiniteSets, SequencesExt, FiniteSetsExt

CONSTANTS
    Catalogs,       \* the sets of events to match: functions from event ids
    Tolerance,      \* event_time_tolerance_seconds
    MinimumVenues

VARIABLES
    catalog,        \* the events of the group, by id (the order of their refs)
    esports,        \* whether they belong to a configured game
    matched         \* the bundles and the rejections, once match_events returned

vars == <<catalog, esports, matched>>

Events == DOMAIN catalog
VenuesOf(S) == {catalog[e].venue : e \in S}
Apart(a, b) == IF a < b THEN b - a ELSE a - b
Formats(S) == {catalog[e].format : e \in S} \ {0}
NotMatched == [bundles |-> {}, rejected |-> {}, done |-> FALSE]

-----------------------------------------------------------------------------
(* Evidence and clusters *)

\* The median of the values op(x) of the elements of S.
Median(S, op(_)) ==
    LET s == SetToSortSeq(S, LAMBDA x, y : op(x) < op(y))
        n == Len(s)
    IN IF n % 2 = 1 THEN op(s[(n + 1) \div 2]) ELSE (op(s[n \div 2]) + op(s[n \div 2 + 1])) \div 2

\* The evidence of e that supports an instant: the first in precedence, or none.
SupportingEvidence(e, instant) ==
    LET near == {x \in catalog[e].evidence : Apart(x.at, instant) <= Tolerance}
    IN {x \in near : \A y \in near : x.rank <= y.rank}

Supports(e, instant) == SupportingEvidence(e, instant) # {}

\* Pairs of evidence of two venues that agree within the tolerance.
Proposals(anchors) ==
    LET pairs == {<<l, r>> \in anchors \X anchors : l < r /\ catalog[l].venue # catalog[r].venue}
        agreeing(l, r) == {<<x, y>> \in catalog[l].evidence \X catalog[r].evidence :
                                Apart(x.at, y.at) <= Tolerance}
    IN UNION {{[at |-> (xy[1].at + xy[2].at) \div 2, of |-> lr, by |-> xy] : xy \in agreeing(lr[1], lr[2])} :
                lr \in pairs}

\* Runs of items within the tolerance of the first of the run.
Cluster(items, at(_)) ==
    LET add(cs, x) ==
            IF cs # <<>> /\ at(x) - at(Head(Last(cs))) <= Tolerance
            THEN [cs EXCEPT ![Len(cs)] = Append(@, x)]
            ELSE Append(cs, <<x>>)
        sorted == SetToSortSeq(items, LAMBDA x, y : at(x) < at(y))
    IN {ToSet(c) : c \in ToSet(FoldLeft(add, <<>>, sorted))}

ProposalClusters(anchors) ==
    {[at |-> Median(c, LAMBDA p : p.at), proposals |-> c] :
        c \in Cluster(Proposals(anchors), LAMBDA p : p.at)}

Activation(e) == (CHOOSE x \in catalog[e].evidence : x.rank = 0).at

LegacyClusters(anchors) == Cluster(anchors, Activation)

\* The venue's primary times all disagree with the bundle it supports.
ActivationConflict(e, at) ==
    \A x \in {x \in catalog[e].evidence : x.rank = 0} : Apart(x.at, at) > Tolerance

MakeBundle(S, at) ==
    [events |-> S, at |-> at, conflicts |-> {e \in S : ActivationConflict(e, at)}]

Rejection(S, why) == [events |-> S, reason |-> why]

-----------------------------------------------------------------------------
(* match_events *)

\* Events without a game: one bundle for each cluster of activation times.
MatchLegacy(anchors) ==
    LET clusters == LegacyClusters(anchors)
        few == {c \in clusters : Cardinality(VenuesOf(c)) < MinimumVenues}
        mixed == {c \in clusters \ few : Cardinality(Formats(c)) > 1}
    IN [bundles |-> {[events |-> c, at |-> Median(c, Activation), conflicts |-> {}] :
                        c \in clusters \ (few \cup mixed)},
        rejected |-> {Rejection(c, "fewer_than_minimum_venues") : c \in few}
                     \cup {Rejection(c, "competition_format_mismatch") : c \in mixed}]

\* Anchors that support more than one cluster.
Ambiguous(anchors, clusters) ==
    {e \in anchors : Cardinality({c \in clusters : Supports(e, c.at)}) > 1}

\* The anchors of a cluster, less those of a venue that has two of them.
ClusterEvents(anchors, c, ambiguous) ==
    LET supporting == {e \in anchors \ ambiguous : Supports(e, c.at)}
    IN {e \in supporting : ~\E f \in supporting \ {e} : catalog[f].venue = catalog[e].venue}

SameVenue(anchors, c, ambiguous) ==
    {e \in anchors \ ambiguous : Supports(e, c.at)} \ ClusterEvents(anchors, c, ambiguous)

\* The bundles of the clusters that have enough venues and one format, and why every
\* other anchor is in none; members[c] are the anchors of cluster c.
AnchorBundles(members, enough, mixed) ==
    LET chosen(e, c) == CHOOSE x \in SupportingEvidence(e, c.at) : TRUE
    IN {MakeBundle(members[c], Median(members[c], LAMBDA e : chosen(e, c).at)) : c \in enough \ mixed}

AnchorRejections(anchors, ambiguous, members, sameVenue, mixed, bundles) ==
    LET rejectedHere == ambiguous \cup UNION Range(sameVenue) \cup UNION {members[c] : c \in mixed}
        used == UNION {b.events : b \in bundles}
    IN {Rejection({e}, "activation_time_ambiguous") : e \in ambiguous}
       \cup {Rejection(S, "same_venue_anchor_ambiguous") : S \in Range(sameVenue) \ {{}}}
       \cup {Rejection(members[c], "competition_format_mismatch") : c \in mixed}
       \cup {Rejection({e}, IF bundles # {} THEN "activation_time_conflict"
                            ELSE "fewer_than_minimum_venues") :
                e \in anchors \ (used \cup rejectedHere)}

MatchClusters(anchors, ambiguous, members, sameVenue) ==
    LET enough == {c \in DOMAIN members : Cardinality(VenuesOf(members[c])) >= MinimumVenues}
        mixed == {c \in enough : Cardinality(Formats(members[c])) > 1}
        bundles == AnchorBundles(members, enough, mixed)
    IN [bundles |-> bundles,
        rejected |-> AnchorRejections(anchors, ambiguous, members, sameVenue, mixed, bundles)]

MatchAnchors(anchors) ==
    LET clusters == ProposalClusters(anchors)
        ambiguous == Ambiguous(anchors, clusters)
    IN MatchClusters(anchors, ambiguous,
                     [c \in clusters |-> ClusterEvents(anchors, c, ambiguous)],
                     [c \in clusters |-> SameVenue(anchors, c, ambiguous)])

\* A sibling joins the one bundle whose time and format it supports.
AttachSibling(m, e) ==
    LET fits == {b \in m.bundles :
                    /\ Supports(e, b.at)
                    /\ catalog[e].format = 0 \/ Formats(b.events) = {}
                       \/ catalog[e].format \in Formats(b.events)}
        b == CHOOSE b \in fits : TRUE
    IN IF Cardinality(fits) # 1
       THEN [m EXCEPT !.rejected = @ \cup
                {Rejection({e}, IF fits = {} THEN "sibling_no_anchor" ELSE "sibling_ambiguous")}]
       ELSE [m EXCEPT !.bundles = (@ \ {b}) \cup
                {[b EXCEPT !.events = @ \cup {e},
                           !.conflicts = IF ActivationConflict(e, b.at) THEN @ \cup {e} ELSE @]}]

Anchors == {e \in Events : catalog[e].anchor \/ ~esports}

MatchEvents ==
    LET anchored == IF esports THEN MatchAnchors(Anchors) ELSE MatchLegacy(Anchors)
        all == FoldLeft(AttachSibling, anchored, SetToSortSeq(Events \ Anchors, <))
    IN [bundles |-> all.bundles, rejected |-> all.rejected, done |-> TRUE]

Init ==
    /\ catalog \in Catalogs
    /\ esports \in BOOLEAN
    /\ matched = NotMatched

Match ==
    /\ ~matched.done
    /\ matched' = MatchEvents
    /\ UNCHANGED <<catalog, esports>>

Next == Match

Spec == Init /\ [][Next]_vars

-----------------------------------------------------------------------------
(* Properties *)

\* Matching loses no event and uses none twice: every event is in one bundle or
\* in a rejection, not in both, and each bundle's venues are enough.
EveryEventAccounted ==
    matched.done =>
        /\ \A e \in Events :
            LET in == {b \in matched.bundles : e \in b.events}
                out == {r \in matched.rejected : e \in r.events}
            IN (Cardinality(in) = 1 /\ out = {}) \/ (in = {} /\ out # {})
        /\ \A b \in matched.bundles : Cardinality(VenuesOf(b.events \cap Anchors)) >= MinimumVenues

\* Not an invariant (a cluster grows by its neighbours' times): "the span of a
\* whole cluster must stay within tolerance": the anchors of one
\* bundle have evidence times no further apart than the tolerance.
ClusterWithinTolerance ==
    \A b \in matched.bundles : \A e, f \in b.events \cap Anchors :
        \E x \in catalog[e].evidence, y \in catalog[f].evidence : Apart(x.at, y.at) <= Tolerance
=============================================================================
