-------------------------- MODULE SpliceConnection --------------------------
(***************************************************************************)
(* The capture loop of a splice (common/base.py) as the Kalshi splice runs *)
(* it: load the targets, open a connection, subscribe, then turn by turn   *)
(* look for changed targets, ask again for books that went quiet, and take *)
(* one message; when anything ends the connection, back off and reconnect. *)
(* A turn without a message takes loop_wake_seconds, the unit of time.     *)
(***************************************************************************)
EXTENDS Integers, Sequences, FiniteSets, FiniteSetsExt

CONSTANTS
    Tickers,
    TargetFiles,   \* contents the targets file may have: sets of markets, or Unreadable
    Unreadable, Nil,
    TargetPoll,    \* target_poll_seconds
    MaxAge, SweepSeconds, MaxSweep, Cooldown,   \* the snapshot poller
    MaxBackoff,
    StopAfter,     \* stop_after_seconds
    MaxFrames,     \* bound on messages of the venue
    MaxUpsets      \* bound on edits, lost connections and commands refused or not sent

(* The poller is on (0 seconds turn it off), and Nil is no time or number. *)
SpliceAssumption ==
    /\ TargetFiles \subseteq (SUBSET Tickers) \cup {Unreadable}
    /\ Nil \notin Int
    /\ TargetPoll \in Nat /\ Cooldown \in Nat /\ MaxSweep \in Nat /\ MaxBackoff \in Nat
    /\ MaxAge \in Nat \ {0} /\ SweepSeconds \in Nat \ {0}

VARIABLES
    now,
    file,          \* the targets file, and since when it is so
    loop,          \* "top", "turn", "recv", "sleep", "stopped"
    attempt, wake, \* connection attempts since a clean end; end of the sleep
    ran,           \* an epoch has been opened: a bad targets file is waited out
    conn,          \* the open connection
    commands,      \* the last id put on a command
    wire,          \* messages of the venue not yet received
    venue,         \* the venue's side: commands unanswered, numbers given out
    last,          \* the message recorded last, and the classifier's verdict on it
    frames, upsets

svars == <<now, file, loop, attempt, wake, ran, conn, commands, wire, venue, last, frames, upsets>>

Streams == {"book", "trade"}
-----------------------------------------------------------------------------
(* Kalshi: what a command and a message do to the poller's bookkeeping     *)

(* _begin_snapshot_epoch *)
Opened(targets) ==
    [targets |-> targets, sid |-> FALSE, since |-> now,
     snapshot |-> [m \in Tickers |-> Nil], request |-> [m \in Tickers |-> Nil],
     asked |-> {}, disabled |-> FALSE, sweep |-> SweepSeconds,
     lastCheck |-> now, lastSweep |-> now,
     keys |-> [s \in Streams |-> Nil], seen |-> [m \in Tickers |-> now]]

(* request_stale_snapshots: the markets whose last snapshot is too old and *)
(* that were not asked for just now.                                       *)
Age(c, m) == now - (IF c.snapshot[m] = Nil THEN c.since ELSE c.snapshot[m])
Stale(c) ==
    {m \in c.targets : /\ Age(c, m) >= MaxAge
                       /\ c.request[m] = Nil \/ now - c.request[m] >= Cooldown}

(* A market asked for is left alone for the cooldown; only a snapshot      *)
(* makes it fresh.                                                         *)
\* mutant: a request counts as an answer
RequestIsAnswer(c, ms) ==
    [c EXCEPT !.request = [m \in Tickers |-> IF m \in ms THEN now ELSE @[m]],
              !.snapshot = [m \in Tickers |-> IF m \in ms THEN now ELSE @[m]]]
Requested(c, ms) == [c EXCEPT !.request = [m \in Tickers |-> IF m \in ms THEN now ELSE @[m]]]

(* An error reply is the poller's when it echoes the id of a command the   *)
(* poller issued on this connection.                                       *)
\* mutant: any error while a command of the poller is out
AttributedLoosely(c, f) == c.asked # {}
Attributed(c, f) == f.id \in c.asked

(* _snapshot_command_rejected: the rate limit widens the sweep up to the   *)
(* ceiling, any other code turns the poller off for the epoch.             *)
Least(a, b) == IF a < b THEN a ELSE b
Most(a, b) == IF a > b THEN a ELSE b
Rejected(c, f) ==
    IF f.code = "rate" THEN [c EXCEPT !.sweep = Most(@, Least(2 * @, MaxSweep))]
    ELSE [c EXCEPT !.disabled = TRUE]

(* after_frame; any other error reply is a protocol error and ends the epoch. *)
AfterFrame(c, f) ==
    CASE f.type = "subscribed" -> [c EXCEPT !.sid = TRUE]
      [] f.type = "snapshot"   -> [c EXCEPT !.snapshot[f.market] = now]
      [] f.type = "error"      -> Rejected(c, f)
      [] OTHER                 -> c
ProtocolError(c, f) == f.type = "error" /\ ~Attributed(c, f)
-----------------------------------------------------------------------------
(* Continuity evidence: the stream and the cursor recorded with a message, *)
(* and what the ingester makes of them                                     *)

(* stream_for *)
StreamFor(f) == IF f.type = "trade" THEN "trade" ELSE "book"

(* frame_cursor: the venue's own claim about what precedes this message *)
PreviousLast(c, f) == f.seq - 1

Numbered(f) == f.type \in {"snapshot", "delta", "trade"}
Cause(c, f) ==
    LET held == c.keys[StreamFor(f)]
    IN  IF ~Numbered(f) THEN "unsequenced"
        ELSE IF held = Nil THEN "bootstrap"
        ELSE IF PreviousLast(c, f) = held \/ f.seq = held + 1 THEN "continuous"
        ELSE IF f.seq <= held THEN "backwards" ELSE "gap"

(* _emit_frame: the record goes to the tape before the message is answered. *)
Recorded(c, f) ==
    IF Numbered(f)
    THEN [c EXCEPT !.keys[StreamFor(f)] = IF @ = Nil THEN f.seq ELSE Most(@, f.seq),
                   !.seen = IF f.type = "snapshot" THEN [@ EXCEPT ![f.market] = now] ELSE @]
    ELSE c
-----------------------------------------------------------------------------
(* The loop *)

(* BackoffPolicy.delay *)
Delay(n) == Least(IF n <= 1 THEN 1 ELSE 2 ^ (n - 1), MaxBackoff)

(* The end of _run_one_connection: connection_closed, and the sleep. *)
Close(clean) ==
    /\ conn' = Nil
    /\ wire' = <<>>
    /\ venue' = Nil
    /\ attempt' = IF clean THEN 0 ELSE attempt
    /\ wake' = now + Delay(attempt')
    /\ loop' = "sleep"

(* _run_until_stopped: a bad or empty targets file is waited out; before   *)
(* the first epoch a bad one is fatal.                                     *)
Fatal ==
    /\ loop = "top" /\ now < StopAfter
    /\ file.is = Unreadable /\ ~ran
    /\ loop' = "stopped"
    /\ UNCHANGED <<now, file, attempt, wake, ran, conn, commands, wire, venue, last, frames, upsets>>

AwaitTargets ==
    /\ loop = "top" /\ now < StopAfter
    /\ \/ file.is = Unreadable /\ ran
       \/ file.is = {}
    /\ loop' = "sleep"
    /\ wake' = now + TargetPoll
    /\ UNCHANGED <<now, file, attempt, ran, conn, commands, wire, venue, last, frames, upsets>>

(* open_connection and send_subscription succeed ... *)
Connect ==
    /\ loop = "top" /\ now < StopAfter
    /\ file.is \notin {Unreadable, {}}
    /\ attempt' = attempt + 1
    /\ ran' = TRUE
    /\ conn' = Opened(file.is)
    /\ commands' = commands + 1
    /\ venue' = [subscribe |-> commands + 1, snapshots |-> {}, seq |-> [s \in Streams |-> 0]]
    /\ loop' = "turn"
    /\ UNCHANGED <<now, file, wake, wire, last, frames, upsets>>

(* ... or the handshake fails. *)
ConnectFails ==
    /\ loop = "top" /\ now < StopAfter
    /\ file.is \notin {Unreadable, {}}
    /\ upsets < MaxUpsets
    /\ upsets' = upsets + 1
    /\ ran' = TRUE
    /\ attempt' = attempt + 1
    /\ wake' = now + Delay(attempt + 1)
    /\ loop' = "sleep"
    /\ UNCHANGED <<now, file, conn, commands, wire, venue, last, frames>>

(* One turn: the time limit, the targets, the sweep, in this order. *)
TimeLimit ==
    /\ \/ loop = "turn" \/ loop = "top"
    /\ now >= StopAfter
    /\ loop' = "stopped"
    /\ conn' = Nil /\ wire' = <<>> /\ venue' = Nil
    /\ UNCHANGED <<now, file, attempt, wake, ran, commands, last, frames, upsets>>

(* _reload_targets: an unreadable file leaves the subscription as it is. *)
Changed(c) == file.is # Unreadable /\ file.is # c.targets

CheckDue(c) == now - c.lastCheck >= TargetPoll
Retarget ==
    /\ loop = "turn" /\ now < StopAfter
    /\ CheckDue(conn) /\ Changed(conn)
    /\ Close(TRUE)
    /\ UNCHANGED <<now, file, ran, commands, last, frames, upsets>>

Checked(c) == IF CheckDue(c) THEN [c EXCEPT !.lastCheck = now] ELSE c
SweepDue(c) == now - c.lastSweep >= c.sweep
Sweeps(c) == SweepDue(c) /\ ~c.disabled
Turn(c, id, sent) ==
    /\ loop = "turn" /\ now < StopAfter
    /\ ~(CheckDue(conn) /\ Changed(conn))
    /\ conn' = c
    /\ commands' = id
    /\ venue' = IF sent = {} THEN venue
                ELSE [venue EXCEPT !.snapshots = @ \cup {[id |-> id, markets |-> sent]}]
    /\ loop' = "recv"
    /\ UNCHANGED <<now, file, attempt, wake, ran, wire, last, frames>>

Swept(c) == IF SweepDue(c) THEN [c EXCEPT !.lastSweep = now] ELSE c

(* No sweep, or one with nothing to ask, or nobody to ask it of. *)
QuietTurn ==
    /\ loop = "turn"
    /\ \/ ~Sweeps(conn) /\ Turn(Swept(Checked(conn)), commands, {})
       \/ Sweeps(conn) /\ ~conn.sid /\ Turn([Swept(Checked(conn)) EXCEPT !.disabled = TRUE], commands, {})
       \/ Sweeps(conn) /\ conn.sid /\ Stale(conn) = {} /\ Turn(Swept(Checked(conn)), commands, {})
    /\ UNCHANGED upsets

AskTurn ==
    /\ loop = "turn"
    /\ Sweeps(conn) /\ conn.sid /\ Stale(conn) # {}
    /\ LET c == [Swept(Checked(conn)) EXCEPT !.asked = @ \cup {commands + 1}]
       IN \/ Turn(Requested(c, Stale(conn)), commands + 1, Stale(conn)) /\ UNCHANGED upsets
          \/ /\ upsets < MaxUpsets
             /\ Turn([c EXCEPT !.disabled = TRUE], commands + 1, {})
             /\ upsets' = upsets + 1

Receive ==
    /\ loop = "recv" /\ wire # <<>>
    /\ LET f == Head(wire)
       IN /\ last' = [frame |-> f, cause |-> Cause(conn, f)]
          /\ IF ProtocolError(conn, f) THEN Close(FALSE)
             ELSE /\ conn' = AfterFrame(Recorded(conn, f), f)
                  /\ wire' = Tail(wire)
                  /\ loop' = "turn"
                  /\ UNCHANGED <<attempt, wake, venue>>
    /\ UNCHANGED <<now, file, ran, commands, frames, upsets>>

RecvTimeout ==
    /\ loop = "recv" /\ wire = <<>>
    /\ now' = now + 1
    /\ loop' = "turn"
    /\ UNCHANGED <<file, attempt, wake, ran, conn, commands, wire, venue, last, frames, upsets>>

(* asyncio.sleep, whose time may be up *)
Sleep ==
    /\ loop = "sleep"
    /\ now' = Most(now, wake)
    /\ loop' = "top"
    /\ UNCHANGED <<file, attempt, wake, ran, conn, commands, wire, venue, last, frames, upsets>>

(* The socket dies, or the writer fails and the capture task is cancelled. *)
Lost ==
    /\ loop = "recv" /\ upsets < MaxUpsets
    /\ upsets' = upsets + 1
    /\ Close(FALSE)
    /\ UNCHANGED <<now, file, ran, commands, last, frames>>

Cancel ==
    /\ loop \in {"turn", "recv", "sleep"} /\ upsets < MaxUpsets
    /\ upsets' = upsets + 1
    /\ loop' = "stopped"
    /\ conn' = Nil /\ wire' = <<>> /\ venue' = Nil
    /\ UNCHANGED <<now, file, attempt, wake, ran, commands, last, frames>>
-----------------------------------------------------------------------------
(* The venue, and whoever rewrites the targets file *)

Say(f) ==
    /\ loop = "recv" /\ wire = <<>>
    /\ frames < MaxFrames
    /\ frames' = frames + 1
    /\ wire' = <<f>>
    /\ UNCHANGED <<now, file, loop, attempt, wake, ran, conn, commands, last>>

Plain == [type |-> "delta", market |-> Nil, seq |-> 0, skipped |-> FALSE, id |-> 0,
          code |-> Nil, answers |-> Nil]

Acknowledge ==
    /\ venue # Nil /\ venue.subscribe # 0
    /\ Say([Plain EXCEPT !.type = "subscribed", !.id = venue.subscribe])
    /\ venue' = [venue EXCEPT !.subscribe = 0]
    /\ UNCHANGED upsets

(* An error reply echoes the id of the command it refuses; one about a     *)
(* subscription already acknowledged names no command.                     *)
Refuse ==
    /\ venue # Nil /\ upsets < MaxUpsets
    /\ \/ /\ Say([Plain EXCEPT !.type = "error", !.id = venue.subscribe, !.code = "other",
                               !.answers = "subscribe"])
          /\ venue' = [venue EXCEPT !.subscribe = 0]
       \/ \E c \in venue.snapshots, code \in {"rate", "other"} :
             /\ Say([Plain EXCEPT !.type = "error", !.id = c.id, !.code = code, !.answers = "snapshot"])
             /\ venue' = [venue EXCEPT !.snapshots = @ \ {c}]
    /\ upsets' = upsets + 1

(* A numbered message; the one before it may never have been sent to us. *)
Publish(f, s, skip) ==
    /\ upsets + skip <= MaxUpsets
    /\ upsets' = upsets + skip
    /\ Say([f EXCEPT !.seq = venue.seq[s] + 1 + skip, !.skipped = skip > 0])

(* Of a snapshot request, the markets the venue answers for; the rest of   *)
(* the answer is lost.                                                     *)
Answer ==
    /\ venue # Nil
    /\ \E c \in venue.snapshots : \E m \in c.markets :
           /\ Publish([Plain EXCEPT !.type = "snapshot", !.market = m], "book", 0)
           /\ venue' = [venue EXCEPT !.snapshots = @ \ {c}, !.seq["book"] = @ + 1]

InitialSnapshot ==
    /\ venue # Nil /\ venue.subscribe = 0
    /\ \E m \in conn.targets :
           /\ conn.snapshot[m] = Nil
           /\ Publish([Plain EXCEPT !.type = "snapshot", !.market = m], "book", 0)
    /\ venue' = [venue EXCEPT !.seq["book"] = @ + 1]

Update ==
    /\ venue # Nil /\ venue.subscribe = 0
    /\ \E type \in {"delta", "trade"}, skip \in 0 .. 1 :
           LET s == IF type = "trade" THEN "trade" ELSE "book"
           IN /\ Publish([Plain EXCEPT !.type = type], s, skip)
              /\ venue' = [venue EXCEPT !.seq[s] = @ + 1 + skip]

Edit ==
    /\ loop \in {"recv", "sleep"} /\ upsets < MaxUpsets
    /\ \E is \in TargetFiles \ {file.is} : file' = [is |-> is, since |-> now]
    /\ upsets' = upsets + 1
    /\ UNCHANGED <<now, loop, attempt, wake, ran, conn, commands, wire, venue, last, frames>>
-----------------------------------------------------------------------------
SpliceInit ==
    /\ now = 0
    /\ \E is \in TargetFiles : file = [is |-> is, since |-> 0]
    /\ loop = "top" /\ attempt = 0 /\ wake = 0 /\ ran = FALSE
    /\ conn = Nil /\ commands = 0 /\ wire = <<>> /\ venue = Nil
    /\ last = Nil /\ frames = 0 /\ upsets = 0

SpliceNext ==
    \/ Fatal \/ AwaitTargets \/ Connect \/ ConnectFails \/ TimeLimit
    \/ Retarget \/ QuietTurn \/ AskTurn \/ Receive \/ RecvTimeout \/ Sleep
    \/ Lost \/ Cancel
    \/ Acknowledge \/ Refuse \/ Answer \/ InitialSnapshot \/ Update \/ Edit

SpliceSpec == SpliceInit /\ [][SpliceNext]_svars
-----------------------------------------------------------------------------
(* While the poller is on, no book stays old in silence: a market whose    *)
(* last snapshot on this connection is older than the age and one sweep    *)
(* was asked for within the cooldown and one sweep, however many of the    *)
(* answers to earlier requests were lost.                                  *)
QuietBooksAreAskedFor ==
    (loop = "recv" /\ conn.sid /\ ~conn.disabled) =>
        \A m \in conn.targets :
            now - conn.seen[m] >= MaxAge + conn.sweep =>
                conn.request[m] # Nil /\ now - conn.request[m] < Cooldown + conn.sweep

(* A refused or revoked subscription always ends its epoch, a refused      *)
(* command of the poller never does, whatever else is outstanding.         *)
RefusalCostsWhatItShould ==
    \A f \in {wire[i] : i \in DOMAIN wire} :
        (Receive /\ f.type = "error") => (loop' = "sleep" <=> f.answers = "subscribe")
RefusalsCostWhatTheyShould == [][RefusalCostsWhatItShould]_svars

(* A connection follows the targets file: one that has been readable and   *)
(* different for a poll interval has ended the epoch.                      *)
TargetsAreFollowed ==
    (loop = "recv" /\ file.is # Unreadable /\ now - file.since > TargetPoll) =>
        conn.targets = file.is

(* The recorded evidence proves a loss exactly where the venue skipped a   *)
(* number: two counters of one socket never read as going backwards, and   *)
(* no hole is papered over.                                                *)
LossIsProven ==
    (last # Nil /\ Numbered(last.frame)) =>
        /\ last.cause # "backwards"
        /\ last.cause = "gap" => last.frame.skipped
        /\ last.frame.skipped => last.cause \in {"gap", "bootstrap"}

(* While a connection is open no book stays old in silence, the connection *)
(* follows the targets file, and the recorded counters prove a loss        *)
(* exactly where the venue skipped a number (SnapshotPoller,               *)
(* _run_connection, continuity evidence).                                  *)
CaptureIsHonest == QuietBooksAreAskedFor /\ TargetsAreFollowed /\ LossIsProven
=============================================================================
