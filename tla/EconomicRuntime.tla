--------------------------- MODULE EconomicRuntime ---------------------------
(***************************************************************************)
(* The economic strategy runtime (replay/economic_sdk/runtime.py, output   *)
(* layout 2, no fill checks): cuts arrive in time order and change books;  *)
(* the entities a change can reach are re-evaluated and staged, the last   *)
(* state at an instant is committed when time moves on, and committed      *)
(* states become durations per class, episodes and slices with the skew    *)
(* between the legs.  Between two cuts scope ends and the timers of the    *)
(* time-shifted control fall due.  The independent reader                  *)
(* (aggregate_reader.py) then accepts the files or fails the run.          *)
(*                                                                         *)
(* One basket of two books and its time_shift control, which reads the     *)
(* second book Shift ago.  A book is its usable quote, or 0.               *)
(***************************************************************************)
EXTENDS Integers, Sequences, FiniteSets, SequencesExt, Functions

CONSTANTS
    Quotes,     \* quotes of a usable book; 0 is a book that is not usable
    ClassOf,    \* ClassOf[<<q1, q2>>]: the strategy's value class
    Kinds,      \* sequence of [name, classes], sorted by name
    Ends,       \* Ends[s]: end of scope s; scope s + 1 starts there
    Shift,      \* shift_ns of the control
    Tiers,      \* latency tiers
    Edges,      \* skew_edges_ns
    MaxCuts,    \* bound
    None

VARIABLES
    rt,     \* the runtime
    hist,   \* ghost: hist[t] the books at the end of instant t
    cuts,   \* number of cuts received
    phase   \* "new", "run", "terminal"

vars == <<rt, hist, cuts, phase>>

End == Ends[Len(Ends)]
StartOf(s) == IF s = 1 THEN 0 ELSE Ends[s - 1]
Instants == 0 .. End - 1
Legs == 1 .. 2
Entities == {"real", "shifted"}
KindIx == DOMAIN Kinds
Classes == UNION {Kinds[k].classes : k \in KindIx} \cup {ClassOf[q] : q \in DOMAIN ClassOf}
Zero(S) == [x \in S |-> 0]
-----------------------------------------------------------------------------
(* Observations *)

Observation(vals) == [of |-> vals, class |-> IF 0 \in {vals[1], vals[2]} THEN None ELSE ClassOf[vals]]
In(obs, k) == obs.class \in Kinds[k].classes
Predicates(obs) == \E k \in KindIx : In(obs, k)
Value(vals) == vals[1] + vals[2]

Abs(n) == IF n < 0 THEN -n ELSE n
Skew(views) == Abs(views[1].change - views[2].change)
Bucket(skew) == Cardinality({i \in DOMAIN Edges : skew >= Edges[i]})

Shifted(r, t) ==
    LET ix == {i \in DOMAIN r.ring : r.ring[i].time <= t - Shift}
    IN IF ix = {} THEN 0 ELSE r.ring[Max(ix)].val

Views(r, e, t) == <<r.views[1].val, IF e = "shifted" THEN Shifted(r, t) ELSE r.views[2].val>>
Evaluate(r, e, t) ==
    LET obs == Observation(Views(r, e, t))
    IN [obs |-> obs, skew |-> IF Predicates(obs) THEN Skew(r.views) ELSE None]
-----------------------------------------------------------------------------
(* Staging *)

Latest(r, e) == IF r.staged[e] # None THEN r.staged[e] ELSE r.current[e]

RetainStaged(r, e, value, counts) ==
    LET superseded == counts /\ r.staged[e] # None /\ Predicates(r.staged[e].obs) /\ r.staged[e] # value
    IN [r EXCEPT !.staged[e] = value, !.instantaneous[e] = IF superseded THEN @ + 1 ELSE @]

Stage(r, t, es) ==
    FoldLeft(LAMBDA acc, e : IF e \in es THEN RetainStaged(acc, e, Evaluate(acc, e, t), TRUE) ELSE acc,
             [r EXCEPT !.stagedTime = t], <<"real", "shifted">>)

StageSkew(r, e, t) ==
    LET value == Latest(r, e) IN
    IF value.skew = Skew(r.views) THEN r
    ELSE RetainStaged([r EXCEPT !.stagedTime = t], e, [value EXCEPT !.skew = Skew(r.views)], FALSE)

WithoutInstant(ring, t) == IF ring # <<>> /\ ring[Len(ring)].time = t THEN Front(ring) ELSE ring
Pruned(ring, t) ==
    LET old == {i \in DOMAIN ring : ring[i].time <= t - Shift}
    IN IF old = {} THEN ring ELSE SubSeq(ring, Max(old), Len(ring))
RingAppend(r, t) ==
    [r EXCEPT !.ring = Append(Pruned(WithoutInstant(@, t), t), [time |-> t, val |-> r.views[2].val]),
              !.timers = IF t + Shift < End THEN @ \cup {t + Shift} ELSE @]
-----------------------------------------------------------------------------
(* Episodes and slices *)

NewEpisode(t, obs, skew) ==
    [start |-> t, skew |-> skew, class |-> obs.class, max |-> Value(obs.of), atMax |-> obs.of,
     sliceStart |-> t, sliceSkew |-> skew, quotes |-> obs.of, opening |-> None,
     classNow |-> obs.class, classSince |-> t, sliceClasses |-> Zero(Classes), classNs |-> Zero(Classes),
     points |-> <<[at |-> t, skew |-> skew]>>, viable |-> {}, qualified |-> Zero(Tiers),
     qualifying |-> [x \in Tiers |-> Zero(Classes)],
     bySkew |-> [x \in Tiers |-> Zero(0 .. Len(Edges))]]

ChargeClass(ep, t) ==
    [ep EXCEPT !.sliceClasses[ep.classNow] = @ + (t - ep.classSince), !.classSince = t]

(* Entry instants [slice start, end - tier), each at the skew in force. *)
EntryTime(ep, end, tier, b) ==
    FoldLeft(LAMBDA sum, i :
               LET until == IF i < Len(ep.points) THEN ep.points[i + 1].at ELSE end
                   upto == IF until < end - tier THEN until ELSE end - tier
               IN IF Bucket(ep.points[i].skew) = b /\ upto > ep.points[i].at
                  THEN sum + upto - ep.points[i].at ELSE sum,
             0, [i \in DOMAIN ep.points |-> i])

(* What the closing slice adds to its charged episode. *)
SliceFacts(ep, end, length) ==
    [ep EXCEPT
       !.opening = IF @ = None THEN length ELSE @,
       !.viable = @ \cup {x \in Tiers : length >= x},
       !.qualified = [x \in Tiers |-> @[x] + IF length > x THEN length - x ELSE 0],
       !.classNs = [c \in Classes |-> @[c] + ep.sliceClasses[c]],
       !.qualifying = [x \in Tiers |-> [c \in Classes |->
                          @[x][c] + IF length >= x THEN ep.sliceClasses[c] ELSE 0]],
       !.bySkew = [x \in Tiers |-> [b \in 0 .. Len(Edges) |-> @[x][b] + EntryTime(ep, end, x, b)]],
       !.sliceClasses = Zero(Classes)]
CloseSliceFacts(ep, end) == SliceFacts(ChargeClass(ep, end), end, end - ep.sliceStart)

(* [r, ep]: the slice [slice start, end) written, unless it is empty. *)
EmitSlice(r, e, k, ep, end, reason) ==
    IF ep.sliceStart >= end THEN [r |-> r, ep |-> ep]
    ELSE [r |-> [r EXCEPT !.slices[e] = Append(@,
                    [scope |-> r.scope, kind |-> k, episode |-> ep.start, start |-> ep.sliceStart,
                     end |-> end, reason |-> reason, skew |-> ep.sliceSkew, quotes |-> ep.quotes])],
          ep |-> CloseSliceFacts(ep, end)]

OpenEpisode(r, e, k, t, value) ==
    [r EXCEPT !.episodes[e][k] = NewEpisode(t, value.obs, value.skew)]

Reclassed(ep, t, class) ==
    IF class # ep.classNow THEN [ChargeClass(ep, t) EXCEPT !.classNow = class] ELSE ep
Reskewed(ep, t, skew) ==
    IF skew # ep.points[Len(ep.points)].skew
    THEN [ep EXCEPT !.points = Append(@, [at |-> t, skew |-> skew])] ELSE ep
Raised(ep, vals) ==
    IF Value(vals) > ep.max THEN [ep EXCEPT !.max = Value(vals), !.atMax = vals] ELSE ep

(* The consumed quotes changed: the next slice starts where one was cut. *)
NextSlice(cut, e, k, t, value) ==
    [cut.r EXCEPT !.episodes[e][k] =
        Raised([cut.ep EXCEPT !.sliceStart = t, !.quotes = value.obs.of, !.sliceSkew = value.skew,
                              !.points = <<[at |-> t, skew |-> value.skew]>>], value.obs.of)]
Continue(r, e, k, t, value, ep) ==
    IF value.obs.of # ep.quotes
    THEN NextSlice(EmitSlice(r, e, k, ep, t, "CONSUMED_CHANGED"), e, k, t, value)
    ELSE [r EXCEPT !.episodes[e][k] = Raised(Reskewed(ep, t, value.skew), value.obs.of)]
UpdateEpisode(r, e, k, t, value) ==
    Continue(r, e, k, t, value, Reclassed(r.episodes[e][k], t, value.obs.class))

EpisodeRow(scope, k, ep, t, reason) ==
    [scope |-> scope, kind |-> k, start |-> ep.start, end |-> t, reason |-> reason,
     skew |-> ep.skew, class |-> ep.class, max |-> ep.max, atMax |-> ep.atMax,
     opening |-> ep.opening, viable |-> ep.viable, qualified |-> ep.qualified,
     classNs |-> ep.classNs, qualifying |-> ep.qualifying, bySkew |-> ep.bySkew]
WriteEpisode(last, e, k, t, reason) ==
    [last.r EXCEPT !.episodes[e][k] = None,
                   !.rows[e] = IF last.ep.start < t
                               THEN Append(@, EpisodeRow(last.r.scope, k, last.ep, t, reason)) ELSE @]
CloseEpisode(r, e, k, t, reason) ==
    WriteEpisode(EmitSlice(r, e, k, r.episodes[e][k], t, reason), e, k, t, reason)
-----------------------------------------------------------------------------
(* Measurements, and the commit of one staged value *)

EmitMeasurement(r, e, t) ==
    LET m == r.open[e] IN
    IF m = None \/ m.start >= t THEN r ELSE [r EXCEPT !.totals[e][m.class] = @ + (t - m.start)]

CommitKind(r, e, k, t, value) ==
    CASE In(value.obs, k) /\ r.episodes[e][k] = None -> OpenEpisode(r, e, k, t, value)
      [] In(value.obs, k)                            -> UpdateEpisode(r, e, k, t, value)
      [] r.episodes[e][k] # None ->
            CloseEpisode(r, e, k, t, IF value.obs.class = None THEN "UNUSABLE" ELSE "PREDICATE_FALSE")
      [] OTHER -> r

Commit(r, e, t, value) ==
    LET same == r.open[e] # None /\ r.open[e].class = value.obs.class
        measured == IF same THEN r
                    ELSE [EmitMeasurement(r, e, t) EXCEPT !.open[e] = [start |-> t, class |-> value.obs.class]]
    IN FoldLeft(LAMBDA acc, k : CommitKind(acc, e, k, t, value),
                [measured EXCEPT !.current[e] = value], [k \in KindIx |-> k])

CommitStaged(r, t) ==
    FoldLeft(LAMBDA acc, e : IF r.staged[e] = None THEN acc ELSE Commit(acc, e, t, r.staged[e]),
             r, <<"real", "shifted">>)
Ringed(r, t) == IF r.stagedBook THEN RingAppend(r, t) ELSE r
FlushStage(r) ==
    IF r.stagedTime = None THEN r
    ELSE [Ringed(CommitStaged(r, r.stagedTime), r.stagedTime) EXCEPT
             !.staged = [e \in Entities |-> None], !.stagedBook = FALSE, !.stagedTime = None]
-----------------------------------------------------------------------------
(* Scopes and the passing of time *)

MeasureAll(r, t) == FoldLeft(LAMBDA acc, e : EmitMeasurement(acc, e, t), r, <<"real", "shifted">>)
EntityKinds ==
    [i \in 1 .. 2 * Len(Kinds) |-> IF i <= Len(Kinds) THEN <<"real", i>> ELSE <<"shifted", i - Len(Kinds)>>]
CloseEpisodes(r, t, reason) ==
    FoldLeft(LAMBDA acc, ek : IF acc.episodes[ek[1]][ek[2]] = None THEN acc
                              ELSE CloseEpisode(acc, ek[1], ek[2], t, reason), r, EntityKinds)
WriteDenominators(r) ==
    [r EXCEPT !.denominators = [e \in Entities |-> Append(@[e], [scope |-> r.scope, ns |-> r.totals[e]])],
              !.open = [e \in Entities |-> None],
              !.totals = [e \in Entities |-> Zero(Classes \cup {None})]]
CloseScope(r, t, reason) == WriteDenominators(CloseEpisodes(MeasureAll(r, t), t, reason))

EnterScope(r, s) == [r EXCEPT !.scope = s, !.current = [e \in Entities |-> None]]

(* One instant at which something falls due; [r, entered]. *)
AtBoundary(r, at) == r.scope < Len(Ends) /\ Ends[r.scope] = at
Entered(r, at) == IF AtBoundary(r, at) THEN Entities ELSE IF at \in r.timers THEN {"shifted"} ELSE {}
PassInstant(r, at) ==
    [(IF AtBoundary(r, at) THEN EnterScope(CloseScope(r, at, "SCOPE_END"), r.scope + 1) ELSE r)
     EXCEPT !.timers = @ \ {at}]
Arrive(r, at, t, entered) ==
    IF entered = {} THEN [r |-> r, entered |-> {}]
    ELSE IF at < t THEN [r |-> FlushStage(Stage(r, at, entered)), entered |-> {}]
    ELSE [r |-> Stage(r, at, entered), entered |-> entered]
AdvanceTo(r, at, t) == Arrive(PassInstant(r, at), at, t, Entered(r, at))

Advance(r, t) ==
    LET passed == FoldLeft(LAMBDA acc, at : AdvanceTo(acc.r, at, t), [r |-> r, entered |-> {}],
                           [i \in 1 .. t - r.time |-> r.time + i])
    IN [passed EXCEPT !.r.time = t]
-----------------------------------------------------------------------------
(* The callback *)

(* _select: entities a touched book can change, and the ones whose input   *)
(* is unchanged but whose skew may have moved.                             *)
Reads(b) == IF b = 1 THEN Entities ELSE {"real"}
Unchanged(r, e, t) == Latest(r, e) # None /\ Latest(r, e).obs.of = Views(r, e, t)
Affected(r, touched, entered, t) ==
    entered \cup {e \in Entities : \E b \in touched : e \in Reads(b) /\ ~Unchanged(r, e, t)}
\* mutant: a book that only the shifted leg reads does not move its skew
SkewOfReaders(r, touched, affected) ==
    {e \in Entities \ affected : /\ \E b \in touched : e \in Reads(b)
                                 /\ Predicates(Latest(r, e).obs)}
SkewOnly(r, touched, affected) ==
    {e \in Entities \ affected : /\ \E b \in touched : e \in Reads(b) \/ (b = 2 /\ e = "shifted")
                                 /\ Predicates(Latest(r, e).obs)}

NewRuntime ==
    [time |-> 0, scope |-> 1, views |-> [b \in Legs |-> [val |-> 0, change |-> 0]],
     ring |-> <<>>, timers |-> {}, stagedTime |-> None, stagedBook |-> FALSE,
     staged |-> [e \in Entities |-> None], current |-> [e \in Entities |-> None],
     open |-> [e \in Entities |-> None], totals |-> [e \in Entities |-> Zero(Classes \cup {None})],
     episodes |-> [e \in Entities |-> [k \in KindIx |-> None]],
     instantaneous |-> [e \in Entities |-> 0],
     rows |-> [e \in Entities |-> <<>>], slices |-> [e \in Entities |-> <<>>],
     denominators |-> [e \in Entities |-> <<>>]]

Initial ==
    /\ phase = "new"
    /\ \E vals \in [Legs -> Quotes \cup {0}] :
          LET views == [b \in Legs |-> [val |-> vals[b], change |-> 0]]
          IN /\ rt' = Stage(RingAppend([rt EXCEPT !.views = views], 0), 0, Entities)
             /\ hist' = [t \in Instants |-> views]
    /\ phase' = "run"
    /\ UNCHANGED cuts

SetViews(r, touched, vals, t) ==
    [r EXCEPT !.views = [b \in Legs |-> IF b \in touched THEN [val |-> vals[b], change |-> t] ELSE @[b]],
              !.stagedBook = @ \/ 2 \in touched]

Moved(r, t) ==
    IF r.stagedTime = None \/ t > r.stagedTime THEN Advance(FlushStage(r), t)
    ELSE [r |-> r, entered |-> {}]
StageSkews(r, t, es) ==
    FoldLeft(LAMBDA acc, e : IF e \in es THEN StageSkew(acc, e, t) ELSE acc, r, <<"real", "shifted">>)
Reskew(r, t, touched, affected) == StageSkews(r, t, SkewOnly(r, touched, affected))
StageAffected(r, t, touched, affected) ==
    Reskew(IF affected # {} \/ r.stagedBook THEN Stage(r, t, affected) ELSE r, t, touched, affected)
Select(r, t, touched, entered, early) ==
    StageAffected(r, t, touched, IF early THEN Entities ELSE Affected(r, touched, entered, t))
Touch(moved, t, touched, vals, early) ==
    Select(SetViews(moved.r, touched, vals, t), t, touched, moved.entered, early)
Apply(r, t, touched, vals, early) == Touch(Moved(r, t), t, touched, vals, early)

(* A cut touches books; a touch that leaves the quote as it was (a level    *)
(* beyond what the fills consume) still moves the book's last change.  A    *)
(* cut from before the start of the range takes effect at the start.        *)
Cut(t, touched, vals, early) ==
    /\ phase = "run" /\ cuts < MaxCuts
    /\ t >= rt.time
    /\ early => t = 0
    /\ rt' = Apply(rt, t, touched, vals, early)
    /\ hist' = [u \in Instants |-> IF u < t THEN hist[u]
                                   ELSE [b \in Legs |-> IF b \in touched THEN [val |-> vals[b], change |-> t]
                                                        ELSE hist[u][b]]]
    /\ cuts' = cuts + 1
    /\ UNCHANGED phase

Terminal ==
    /\ phase = "run"
    /\ rt' = CloseScope(Advance(FlushStage(rt), End).r, End, "RUN_END")
    /\ phase' = "terminal"
    /\ UNCHANGED <<hist, cuts>>

Init ==
    /\ rt = NewRuntime
    /\ hist = [t \in Instants |-> NewRuntime.views]
    /\ cuts = 0
    /\ phase = "new"

Next ==
    \/ Initial
    \/ \E t \in Instants, touched \in SUBSET Legs \ {{}}, early \in BOOLEAN :
         \E vals \in [touched -> Quotes \cup {0}] : Cut(t, touched, vals, early)
    \/ Terminal

Spec == Init /\ [][Next]_vars
-----------------------------------------------------------------------------
(* What the output means, read off the history *)

Books(e, u) == <<hist[u][1].val,
                 IF e = "real" THEN hist[u][2].val
                 ELSE IF u < Shift THEN 0 ELSE hist[u - Shift][2].val>>
At(e, u) == Observation(Books(e, u))
Span(s) == StartOf(s) .. Ends[s] - 1
Runs(e, s, k) ==
    {ab \in Span(s) \X (Span(s) \cup {Ends[s]}) :
        /\ ab[1] < ab[2]
        /\ \A u \in ab[1] .. ab[2] - 1 : In(At(e, u), k)
        /\ ab[1] > StartOf(s) => ~In(At(e, ab[1] - 1), k)
        /\ ab[2] < Ends[s] => ~In(At(e, ab[2]), k)}
SliceEnd(e, u, end) == Min({v \in u + 1 .. end : v = end \/ At(e, v).of # At(e, u).of})
SliceStart(e, u, start) == Max({v \in start .. u : v = start \/ At(e, v - 1).of # At(e, u).of})
Ending(e, s, end) == CASE end = End -> "RUN_END"
                       [] end = Ends[s] -> "SCOPE_END"
                       [] At(e, end).class = None -> "UNUSABLE"
                       [] OTHER -> "PREDICATE_FALSE"

EpisodeOf(e, s, k, a, b) ==
    LET us == a .. b - 1
        best == Max({Value(Books(e, u)) : u \in us})
        long(u, x) == SliceEnd(e, u, b) - SliceStart(e, u, a) >= x
        entry(u, x) == u < SliceEnd(e, u, b) - x
    IN [scope |-> s, kind |-> k, start |-> a, end |-> b, reason |-> Ending(e, s, b),
        skew |-> Skew(hist[a]), class |-> At(e, a).class, max |-> best,
        atMax |-> Books(e, Min({u \in us : Value(Books(e, u)) = best})),
        opening |-> SliceEnd(e, a, b) - a,
        viable |-> {x \in Tiers : \E u \in us : long(u, x)},
        qualified |-> [x \in Tiers |-> Cardinality({u \in us : entry(u, x)})],
        classNs |-> [c \in Classes |-> Cardinality({u \in us : At(e, u).class = c})],
        qualifying |-> [x \in Tiers |-> [c \in Classes |->
                           Cardinality({u \in us : At(e, u).class = c /\ long(u, x)})]],
        bySkew |-> [x \in Tiers |-> [i \in 0 .. Len(Edges) |->
                       Cardinality({u \in us : entry(u, x) /\ Bucket(Skew(hist[u])) = i})]]]

(***************************************************************************)
(* What the runtime writes is what the strategy means, whatever was        *)
(* evaluated, skipped, staged over or reused on the way: per scope the     *)
(* time of each class is the number of instants whose final books have it, *)
(* the episodes are the maximal runs of each predicate, with their exact   *)
(* facts, and the skew of an entry instant is the skew at that instant     *)
(* (runtime.py _select, _stage, _advance, _update_episode,                 *)
(* _close_slice_facts).                                                    *)
(***************************************************************************)
OutputIsExact ==
    phase = "terminal" =>
    \A e \in Entities :
       /\ Range(rt.rows[e]) =
             UNION {{EpisodeOf(e, sk[1], sk[2], ab[1], ab[2]) : ab \in Runs(e, sk[1], sk[2])} :
                    sk \in (DOMAIN Ends) \X KindIx}
       /\ \A s \in DOMAIN Ends : \A c \in Classes \cup {None} :
             rt.denominators[e][s].ns[c] = Cardinality({u \in Span(s) : At(e, u).class = c})
-----------------------------------------------------------------------------
(* aggregate_reader.py *)

Sum(f) == FoldFunction(LAMBDA a, b : a + b, 0, f)

DenominatorsAccepted(e) ==
    /\ Len(rt.denominators[e]) = Len(Ends)
    /\ \A s \in DOMAIN Ends : /\ rt.denominators[e][s].scope = s
                             /\ Sum(rt.denominators[e][s].ns) = Ends[s] - StartOf(s)

(* (end, kind, start): the order rows are closed in. *)
Precedes(p, q) == \/ p.end < q.end
                  \/ p.end = q.end /\ p.kind < q.kind
                  \/ p.end = q.end /\ p.kind = q.kind /\ p.start <= q.start
InCloseOrder(rows) == \A i \in 1 .. Len(rows) - 1 : Precedes(rows[i], rows[i + 1])

EpisodesAccepted(e) ==
    LET rows == rt.rows[e] IN
    /\ InCloseOrder(rows)
    /\ \A i, j \in DOMAIN rows :
          i < j /\ rows[i].kind = rows[j].kind => rows[i].end <= rows[j].start
    /\ \A i \in DOMAIN rows :
          LET row == rows[i] IN
          /\ StartOf(row.scope) <= row.start /\ row.start < row.end /\ row.end <= Ends[row.scope]
          /\ row.end = End <=> row.reason = "RUN_END"
          /\ row.end = Ends[row.scope] /\ row.end # End <=> row.reason = "SCOPE_END"
          /\ Sum(row.classNs) = row.end - row.start /\ row.classNs[row.class] > 0
          /\ \A x \in Tiers : /\ Sum(row.bySkew[x]) = row.qualified[x]
                             /\ \A c \in Classes : row.qualifying[x][c] <= row.classNs[c]
    /\ \A s \in DOMAIN Ends, k \in KindIx : \A c \in Kinds[k].classes :
          Sum([i \in DOMAIN rows |-> IF rows[i].scope = s /\ rows[i].kind = k THEN rows[i].classNs[c] ELSE 0])
          = rt.denominators[e][s].ns[c]

SlicesAccepted(e) ==
    LET mine(row) == SelectSeq(rt.slices[e], LAMBDA sl : sl.kind = row.kind /\ sl.episode = row.start)
    IN /\ InCloseOrder(rt.slices[e])
       /\ \A i \in DOMAIN rt.rows[e] :
             LET row == rt.rows[e][i]
                 ss == mine(row)
             IN /\ ss # <<>>
                /\ ss[1].start = row.start /\ ss[1].skew = row.skew /\ row.opening = ss[1].end - ss[1].start
                /\ ss[Len(ss)].end = row.end
                /\ \A j \in DOMAIN ss :
                      /\ ss[j].start < ss[j].end
                      /\ ss[j].reason = IF ss[j].end = row.end THEN row.reason ELSE "CONSUMED_CHANGED"
                      /\ j < Len(ss) => ss[j + 1].start = ss[j].end /\ ss[j + 1].quotes # ss[j].quotes
                /\ row.viable = {x \in Tiers : \E j \in DOMAIN ss : ss[j].end - ss[j].start >= x}
                /\ \A x \in Tiers :
                      row.qualified[x] = Sum([j \in DOMAIN ss |-> IF ss[j].end - ss[j].start > x
                                                                  THEN ss[j].end - ss[j].start - x ELSE 0])

(***************************************************************************)
(* A run that ends is never failed by its own reader: the rows, in the     *)
(* order they were written, pass every check the independent reader makes  *)
(* before the manifest is published (aggregate_reader.py _group).          *)
(***************************************************************************)
ReaderAccepts ==
    phase = "terminal" => \A e \in Entities : DenominatorsAccepted(e) /\ EpisodesAccepted(e) /\ SlicesAccepted(e)
=============================================================================
