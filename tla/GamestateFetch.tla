--------------------------- MODULE GamestateFetch ---------------------------
(***************************************************************************)
(* The game-state puller (gamestate/kalshi.py, run_scheduled.py,           *)
(* timeline.py).  A cron pass walks the retired bundles, finds the event   *)
(* of each, maps its Kalshi tickers to one milestone, fetches that         *)
(* milestone's live data and events, and archives the answers, a receipt   *)
(* and a timeline derived from the archived answers, in that order.  An    *)
(* append-only ledger says which events are settled and when a failed one  *)
(* is tried again.  The command line runs the same pull for several        *)
(* bundles at once, outside the ledger and in a namespace of its own.      *)
(*                                                                         *)
(* A pull here names bundles of one event, and an event has one milestone, *)
(* whose document the venue may edit between two requests.                 *)
(***************************************************************************)
EXTENDS Integers, Sequences, SequencesExt, FiniteSets, FiniteSetsExt, Functions

CONSTANTS
    BundleOrder,  \* the bundles in activation order
    EventOf,      \* bundle -> event
    TickersOf,    \* bundle -> its Kalshi event tickers
    ReadyAt,      \* bundle -> hour of its retirement plus the settle delay
    MaxTries,     \* MAX_TRIES
    RunCap,       \* max_bundles_per_run
    LastHour,     \* bound: the passes of a behaviour
    MaxMishaps,   \* bound: failed or odd answers, store failures and kills
    MaxPulls,     \* bound: fetches of the command line
    MaxEdits,     \* bound: edits of the venue's milestone documents
    Nothing

(* Bundles belong to events; what is Nothing is neither, nor an outcome. *)
GamesAssumption ==
    /\ BundleOrder \in Seq(DOMAIN EventOf)
    /\ \A b \in DOMAIN EventOf : EventOf[b] # Nothing
    /\ Nothing \notin DOMAIN EventOf \cup {"complete"}
    /\ MaxTries \in Nat /\ RunCap \in Nat /\ LastHour \in Nat /\ MaxMishaps \in Nat
    /\ MaxPulls \in Nat /\ MaxEdits \in Nat

VARIABLES
    hour,       \* the clock of the pass (now_ns)
    gpc,        \* "idle", "next", "map", "probe", "fetched", "responses", "receipt", "record"
    at,         \* position in BundleOrder
    attempted,  \* attempts of this pass
    pull,       \* the pull under way
    archive,    \* sequence of fetches, oldest first
    attempts,   \* the ledger, fetch_attempts
    known,      \* bundle_events
    edition,    \* the venue's current milestone document
    mishaps

gvars == <<hour, gpc, at, attempted, pull, archive, attempts, known, edition, mishaps>>

Bundles == Range(BundleOrder)
Events == {EventOf[b] : b \in Bundles}
(* Two disjoint namespaces of fetches: of the pass and of the command line *)
Keyed(e) == <<"event", e>>
Legacy(e) == <<"legacy", e>>
BundlesOf(e) == SelectSeq(BundleOrder, LAMBDA b : EventOf[b] = e)
Related(ns) == UNION {TickersOf[b] : b \in Range(BundlesOf(ns[2]))}
Retried == {"incomplete", "fetch_failed", "unavailable"}
NoPull == [ns |-> Nothing, owner |-> Nothing, left |-> <<>>, asked |-> <<>>, docs |-> <<>>, mapped |-> {},
           outcome |-> Nothing, got |-> <<>>]

-----------------------------------------------------------------------------
(* Client.get: a throttled, failed or timed-out attempt is repeated up to  *)
(* five times, and every attempt is a record; the request ends with a      *)
(* document, with one that validate_response refuses, or with none.        *)
Answers == {"ok", "odd", "failed"}
Valid(answer) == answer = "ok"

(* archive_fetch's receipt status, and derive's disqualifying issues *)
Urls(ns) == {"live"} \cup Related(ns)
Complete(got) == \A u \in DOMAIN got : Valid(got[u])
Disqualified(f) ==
    \/ \E u \in DOMAIN f.got : ~Valid(f.got[u])        \* response_shape, *_missing
    \/ \E i \in DOMAIN f.docs : f.docs[i] # f.docs[1]  \* milestone_changed

Sound(f) == f.receipt /\ Complete(f.got) /\ ~Disqualified(f)
Fetches(ns) == {i \in DOMAIN archive : archive[i].ns = ns}
Receipted(ns) == {i \in Fetches(ns) : archive[i].receipt}

(* existing_complete re-derives every receipt of the namespace. *)
\* mutant: a receipt is enough
AnyReceipt(ns) == Receipted(ns) # {}
ExistingComplete(ns) == \E i \in Receipted(ns) : Sound(archive[i])

(* timeline.latest: complete first, then newest; read_fetch, with and      *)
(* without the published timeline.                                         *)
Latest(ns) ==
    LET complete == {i \in Receipted(ns) : Complete(archive[i].got)}
    IN  IF complete # {} THEN Max(complete) ELSE Max(Receipted(ns))
ReadFetch(i) == IF Sound(archive[i]) THEN "ok" ELSE "incomplete"

-----------------------------------------------------------------------------
(* The ledger: rows keyed by event once it is known, by bundle before. *)
Rows(e, b) ==
    {i \in DOMAIN attempts : IF e # Nothing THEN attempts[i].event = e
                             ELSE attempts[i].event = Nothing /\ attempts[i].bundle = b}
Newest(e, b) == attempts[Max(Rows(e, b))]
Outcome(e, b) == IF Rows(e, b) = {} THEN Nothing ELSE Newest(e, b).outcome
Tries(e, b) == Cardinality({i \in Rows(e, b) : attempts[i].outcome \in Retried})

(* The wait doubles; its cap of 24 hours is not reached in MAX_TRIES = 5. *)
Due(e, b) ==
    \/ Outcome(e, b) = Nothing
    \/ /\ Outcome(e, b) \in Retried
       /\ Tries(e, b) < MaxTries
       /\ hour >= Newest(e, b).hour + 2 ^ (Tries(e, b) - 1)

Append1(e, b, outcome) == Append(attempts, [event |-> e, bundle |-> b, hour |-> hour, outcome |-> outcome])

Charge == mishaps < MaxMishaps /\ mishaps' = mishaps + 1
Free == UNCHANGED mishaps

Mapping(ns, owner, bundles) ==
    [NoPull EXCEPT !.ns = ns, !.owner = owner, !.left = bundles, !.asked = SetToSeq(TickersOf[Head(bundles)])]

-----------------------------------------------------------------------------
(* The pass: cron starts it, the lock keeps it alone. *)
StartPass ==
    /\ gpc = "idle" /\ hour < LastHour
    /\ hour' = hour + 1
    /\ gpc' = "next" /\ at' = 1 /\ attempted' = 0
    /\ UNCHANGED <<pull, archive, attempts, known, edition, mishaps>>

EndPass ==
    /\ gpc = "next" /\ at > Len(BundleOrder)
    /\ gpc' = "idle"
    /\ UNCHANGED <<hour, at, attempted, pull, archive, attempts, known, edition, mishaps>>

(* execute, one bundle: not due, or not retired long enough *)
SkipBundle ==
    /\ gpc = "next" /\ at <= Len(BundleOrder)
    /\ LET b == BundleOrder[at] IN
         \/ ~Due(known[b], b)
         \/ known[b] = Nothing /\ Due(Nothing, b) /\ hour < ReadyAt[b]
    /\ at' = at + 1
    /\ UNCHANGED <<hour, gpc, attempted, pull, archive, attempts, known, edition, mishaps>>

(* resolve_event, record_event and the second look at the ledger: another  *)
(* bundle of the event may have settled it.                                *)
StartBundle ==
    /\ gpc = "next" /\ at <= Len(BundleOrder)
    /\ LET b == BundleOrder[at]
           e == EventOf[b] IN
         /\ Due(known[b], b)
         /\ known[b] = Nothing => hour >= ReadyAt[b]
         /\ known' = [known EXCEPT ![b] = e]
         /\ IF Due(e, b)
            THEN gpc' = "map" /\ pull' = Mapping(Keyed(e), b, <<b>>) /\ UNCHANGED at
            ELSE at' = at + 1 /\ UNCHANGED <<gpc, pull>>
    /\ UNCHANGED <<hour, attempted, archive, attempts, edition, mishaps>>

(* The row of the attempt, and the cap of a scheduled pass *)
Row(e, b, outcome) ==
    /\ attempts' = Append1(e, b, outcome)
    /\ attempted' = attempted + 1
    /\ at' = at + 1
    /\ gpc' = IF attempted + 1 >= RunCap THEN "idle" ELSE "next"
    /\ pull' = NoPull

ResolveFails ==
    /\ gpc = "next" /\ at <= Len(BundleOrder)
    /\ LET b == BundleOrder[at] IN
         /\ known[b] = Nothing /\ Due(Nothing, b)
         /\ Row(Nothing, b, "unavailable")
    /\ Charge
    /\ UNCHANGED <<hour, archive, known, edition>>

-----------------------------------------------------------------------------
(* run: map_bundle asks for the milestone of each ticker of the bundle.    *)
(* What a bundle that cannot be mapped asked is not part of the evidence.  *)
NextBundle(p) ==
    IF Len(p.left) = 1 THEN [p EXCEPT !.left = <<>>]
    ELSE [p EXCEPT !.left = Tail(@), !.asked = SetToSeq(TickersOf[p.left[2]])]

MapAnswer ==
    /\ gpc = "map" /\ pull.left # <<>>
    /\ LET b == Head(pull.left)
           p == [pull EXCEPT !.asked = Tail(@), !.got = Append(@, edition)]
           changed == \E i \in DOMAIN p.got : p.got[i] # p.got[1]
       IN  pull' = IF p.asked # <<>> THEN p
                   ELSE NextBundle(IF changed
                        THEN [p EXCEPT !.got = <<>>, !.outcome = "fetch_failed"]
                        ELSE [p EXCEPT !.got = <<>>, !.docs = @ \o p.got, !.mapped = @ \cup {b}])
    /\ Free
    /\ UNCHANGED <<hour, gpc, at, attempted, archive, attempts, known, edition>>

(* ... or the request fails, or the venue names no milestone, or several *)
MapFails ==
    /\ gpc = "map" /\ pull.left # <<>>
    /\ \E reason \in {"fetch_failed", "no_milestone"} :
         pull' = NextBundle([pull EXCEPT !.got = <<>>, !.outcome = reason])
    /\ Charge
    /\ UNCHANGED <<hour, gpc, at, attempted, archive, attempts, known, edition>>

Mapped ==
    /\ gpc = "map" /\ pull.left = <<>>
    /\ gpc' = IF pull.mapped = {} THEN "record" ELSE "probe"
    /\ UNCHANGED <<hour, at, attempted, pull, archive, attempts, known, edition, mishaps>>

(* existing_complete: the milestone is skipped *)
Skip ==
    /\ gpc = "probe" /\ ExistingComplete(pull.ns)
    /\ gpc' = "record" /\ pull' = [pull EXCEPT !.outcome = "complete"]
    /\ UNCHANGED <<hour, at, attempted, archive, attempts, known, edition, mishaps>>

(* The requests; a failed one is noted and the others are still made. *)
FetchAll ==
    /\ gpc = "probe" /\ ~ExistingComplete(pull.ns)
    /\ \E got \in [Urls(pull.ns) -> Answers] :
         /\ pull' = [pull EXCEPT !.got = got]
         /\ mishaps' = mishaps + Cardinality({u \in DOMAIN got : got[u] # "ok"})
         /\ mishaps' <= MaxMishaps
    /\ gpc' = "fetched"
    /\ UNCHANGED <<hour, at, attempted, archive, attempts, known, edition>>

(* archive_fetch: the answers, then the receipt; regenerate: the timeline *)
PutResponses ==
    /\ gpc = "fetched"
    /\ archive' = Append(archive, [ns |-> pull.ns, docs |-> pull.docs, got |-> pull.got,
                                   receipt |-> FALSE, timeline |-> FALSE])
    /\ gpc' = "responses"
    /\ UNCHANGED <<hour, at, attempted, pull, attempts, known, edition, mishaps>>

PutReceipt ==
    /\ gpc = "responses"
    /\ archive' = [archive EXCEPT ![Len(archive)].receipt = TRUE]
    /\ gpc' = "receipt"
    /\ UNCHANGED <<hour, at, attempted, pull, attempts, known, edition, mishaps>>

(* pull_outcome of a pull whose timeline is written *)
Verdict(f) ==
    IF ~Complete(f.got) THEN "incomplete"
    ELSE IF Disqualified(f) THEN "complete_inconsistent" ELSE "complete"

PutTimeline ==
    /\ gpc = "receipt"
    /\ archive' = [archive EXCEPT ![Len(archive)].timeline = TRUE]
    /\ pull' = [pull EXCEPT !.outcome = Verdict(Last(archive))]
    /\ gpc' = "record"
    /\ UNCHANGED <<hour, at, attempted, attempts, known, edition, mishaps>>

(* An object-store failure: the pull reports it and ends.  An archived     *)
(* fetch without its timeline is left to offline regeneration.             *)
StoreFails ==
    /\ gpc \in {"probe", "fetched", "responses", "receipt"}
    /\ pull' = [pull EXCEPT !.outcome = IF gpc = "receipt" THEN "timeline_failed" ELSE "fetch_failed"]
    /\ gpc' = "record"
    /\ Charge
    /\ UNCHANGED <<hour, at, attempted, archive, attempts, known, edition>>

(* The pass appends its row; a pull of the command line ends. *)
Record ==
    /\ gpc = "record" /\ pull.owner # Nothing
    /\ Row(pull.ns[2], pull.owner, pull.outcome)
    /\ UNCHANGED <<hour, archive, known, edition, mishaps>>

Report ==
    /\ gpc = "record" /\ pull.owner = Nothing
    /\ gpc' = "idle" /\ pull' = NoPull
    /\ UNCHANGED <<hour, at, attempted, archive, attempts, known, edition, mishaps>>

-----------------------------------------------------------------------------
(* The command line: a pull of several bundles, and offline regeneration *)
StartPull ==
    /\ gpc = "idle"
    /\ \E e \in Events :
         /\ Cardinality(Fetches(Legacy(e))) < MaxPulls
         /\ pull' = Mapping(Legacy(e), Nothing, BundlesOf(e))
    /\ gpc' = "map"
    /\ UNCHANGED <<hour, at, attempted, archive, attempts, known, edition, mishaps>>

Regenerate ==
    /\ gpc = "idle"
    /\ \E i \in DOMAIN archive :
         /\ archive[i].receipt /\ ~archive[i].timeline
         /\ archive' = [archive EXCEPT ![i].timeline = TRUE]
    /\ UNCHANGED <<hour, gpc, at, attempted, pull, attempts, known, edition, mishaps>>

KillPull ==
    /\ gpc # "idle"
    /\ gpc' = "idle" /\ pull' = NoPull
    /\ Charge
    /\ UNCHANGED <<hour, at, attempted, archive, attempts, known, edition>>

(* Losing the ledger costs a remapping pass. *)
LoseLedger ==
    /\ gpc = "idle" /\ attempts # <<>>
    /\ attempts' = <<>> /\ known' = [b \in Bundles |-> Nothing]
    /\ Charge
    /\ UNCHANGED <<hour, gpc, at, attempted, pull, archive, edition>>

EditMilestone ==
    /\ edition < MaxEdits
    /\ gpc \in {"map", "idle"}
    /\ edition' = edition + 1
    /\ UNCHANGED <<hour, gpc, at, attempted, pull, archive, attempts, known, mishaps>>

FetchInit ==
    /\ hour = 0 /\ gpc = "idle" /\ at = 1 /\ attempted = 0 /\ pull = NoPull
    /\ archive = <<>> /\ attempts = <<>> /\ known = [b \in Bundles |-> Nothing]
    /\ edition = 0 /\ mishaps = 0

FetchNext ==
    \/ StartPass \/ EndPass \/ SkipBundle \/ StartBundle \/ ResolveFails
    \/ MapAnswer \/ MapFails \/ Mapped \/ Skip \/ FetchAll
    \/ PutResponses \/ PutReceipt \/ PutTimeline \/ StoreFails \/ Record \/ Report
    \/ StartPull \/ Regenerate \/ KillPull \/ LoseLedger \/ EditMilestone

FetchSpec == FetchInit /\ [][FetchNext]_gvars

-----------------------------------------------------------------------------
(* An event the ledger calls complete has, as the fetch the readers        *)
(* choose, a complete and consistent one - through kills between the       *)
(* archive's writes and the row, lost ledgers, retries and the other       *)
(* bundles of the event.                                                   *)
CompleteIsReadable ==
    \A b \in Bundles : Outcome(EventOf[b], b) = "complete" =>
        LET ns == Keyed(EventOf[b])
        IN  Receipted(ns) # {} /\ ReadFetch(Latest(ns)) = "ok"

(* A game the archive holds complete and consistent is not fetched again,  *)
(* whatever the ledger has forgotten.                                      *)
ArchivedIsNotRefetched ==
    \A ns \in {Keyed(e) : e \in Events} \cup {Legacy(e) : e \in Events} :
        \A i, j \in Fetches(ns) : Sound(archive[i]) => j <= i

(* A game the ledger calls complete can be read, and one that the archive  *)
(* holds whole is not fetched again (existing_complete, timeline.latest).  *)
GamesAreKept == CompleteIsReadable /\ ArchivedIsNotRefetched

(* Not a property: a pass killed between the receipt and the timeline      *)
(* finds its fetch complete next time, and records it so.                  *)
CompleteHasTimeline ==
    \A b \in Bundles : Outcome(EventOf[b], b) = "complete" =>
        archive[Latest(Keyed(EventOf[b]))].timeline
=============================================================================
