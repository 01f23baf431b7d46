---------------------------- MODULE Materializer ----------------------------
(***************************************************************************)
(* Building and reading the normalized derivative of a canonical window    *)
(* (engine/crates/materialize).  Builders, perhaps of one address, stage   *)
(* their files, publish the directory and write its receipt last; a reader *)
(* streams a pinned derivative and checks it as it goes.  Builders and the *)
(* machine may die between any two durable steps, calls may fail, and a    *)
(* committed file may be damaged.                                          *)
(*                                                                         *)
(* A delivery of the window is its header, what the normalizer makes of it *)
(* and the bytes its lines take; the bytes of a derivative are named by    *)
(* the encoder that wrote them, which is not part of the address.          *)
(***************************************************************************)
EXTENDS Integers, Sequences, FiniteSets, FiniteSetsExt, SequencesExt

CONSTANTS
    Builders,
    Windows,      \* the canonical windows, each a sequence of deliveries
    Setups,       \* the address and the encoder of every builder
    WindowEnd,    \* the window is the times 0..WindowEnd - 1
    MaxGroup,     \* max_group_bytes
    MaxTrouble,   \* bound on kills, failures, power losses and damages
    None

VARIABLES
    src,       \* the canonical window
    setup,     \* builder -> its address and its encoder
    lock,      \* address -> the builder that holds its lock
    stages,    \* the stage directories, named by builder and attempt
    final,     \* address -> the published directory
    safe,      \* address -> what a power loss may leave of it instead
    builder,
    kept,      \* the pins of builds that committed
    reader,
    trouble

vars == <<src, setup, lock, stages, final, safe, builder, kept, reader, trouble>>

Addresses == {"A", "B"}
NoDirectory == [data |-> None, receipt |-> None]
IdleBuilder == [pc |-> "idle", attempt |-> 0, todo |-> {}, verdict |-> None]
NoReader == [pc |-> "idle", pin |-> None, address |-> None, copy |-> None, given |-> 0]

-----------------------------------------------------------------------------
(* The lines of a derivative *)

\* A reject gives a sidecar record and a fault event, a source without children an
\* ignored one.
Children(d) ==
    LET Event(i, fault) == [head |-> d, child |-> i, fault |-> fault]
    IN  CASE d.result = "one" -> <<Event(0, FALSE)>>
          [] d.result = "two" -> <<Event(0, FALSE), Event(1, FALSE)>>
          [] d.result \in {"reject", "fault"} -> <<Event(0, TRUE)>>
          [] OTHER -> <<>>
Sidecar(d) ==
    IF d.result \in {"none", "ignored", "reject"}
    THEN <<[head |-> d, parse |-> d.result = "reject"]>> ELSE <<>>

EventLines(w) == FlattenSeq([i \in DOMAIN w |-> Children(w[i])])
RejectLines(w) == FlattenSeq([i \in DOMAIN w |-> Sidecar(w[i])])

-----------------------------------------------------------------------------
(* What the writer checks as it writes, and the reader as it reads *)

NoChecks ==
    [ok |-> TRUE, first |-> None, prev |-> None, run |-> None, cross |-> FALSE, bytes |-> 0,
     index |-> <<>>, least |-> 0, most |-> 0]

\* validate_tie: a run of one time is tagged exactly when it crosses lanes.
ValidTie(run, cross) == run.tie = IF cross THEN run.vis ELSE None

LastIndex(c, lane) == IF lane \in DOMAIN c.index THEN c.index[lane] ELSE -1
LaneIndex(c, d) ==
    [l \in DOMAIN c.index \cup {d.lane} |-> IF l = d.lane THEN d.index ELSE c.index[l]]
FollowsPrevious(c, d) ==
    c.prev # None => d.seq = c.prev.seq + 1 /\ d.vis >= c.prev.vis

\* The run of equal times a delivery belongs to, and its charge to the group limit.
RunEnds(c, d) == c.run # None /\ c.run.vis # d.vis
RunAfter(c, d) ==
    IF c.run = None \/ RunEnds(c, d)
    THEN [run |-> d, cross |-> FALSE, bytes |-> IF d.tie # None THEN d.size ELSE 0]
    ELSE [run |-> c.run, cross |-> c.cross \/ c.run.lane # d.lane,
          bytes |-> c.bytes + IF d.tie # None THEN d.size ELSE 0]
RunOk(c, d) ==
    /\ RunEnds(c, d) => ValidTie(c.run, c.cross)
    /\ ~RunEnds(c, d) /\ c.run # None => c.run.tie = d.tie
    /\ RunAfter(c, d).bytes <= MaxGroup

Observed(c, d, ok) ==
    LET r == RunAfter(c, d)
    IN  [ok |-> ok, first |-> IF c.first = None THEN d.seq ELSE c.first, prev |-> d,
         run |-> r.run, cross |-> r.cross, bytes |-> r.bytes, index |-> LaneIndex(c, d),
         least |-> Min({d.vis} \cup IF c.prev = None THEN {} ELSE {c.least}),
         most |-> Max({d.vis} \cup IF c.prev = None THEN {} ELSE {c.most})]

\* CandidateLimits.delivery: the window's bounds are left to the end.
WriterChecks(c, d) ==
    Observed(c, d, /\ c.ok /\ d.size <= MaxGroup /\ LastIndex(c, d.lane) < d.index
                   /\ FollowsPrevious(c, d) /\ RunOk(c, d))

\* CandidateLimits.finish, with the coverage of the window's own receipt.
WriterFinish(c) ==
    /\ c.ok
    /\ c.run # None => ValidTie(c.run, c.cross)
    /\ c.prev # None => c.least >= 0 /\ c.most < WindowEnd

\* A fault among the children of an accepted source has no reject to pair with.
WriterAccepts(w) ==
    /\ \A i \in DOMAIN w : w[i].result # "fault"
    /\ WriterFinish(FoldLeft(WriterChecks, NoChecks, w))

\* DeliveryChecks.observe: the bounds at once, and a run that crossed lanes.
ReaderChecks(c, d) ==
    Observed(c, d, /\ c.ok /\ d.size <= MaxGroup /\ LastIndex(c, d.lane) < d.index
                   /\ d.vis >= 0 /\ d.vis < WindowEnd
                   /\ FollowsPrevious(c, d) /\ RunOk(c, d)
                   /\ LET r == RunAfter(c, d) IN r.cross => ValidTie(r.run, TRUE))

ReaderFinish(c) == c.ok /\ (c.run # None => ValidTie(c.run, c.cross))

\* verify_event_order and parse_reject.
EventsInOrder(events) ==
    \A i \in DOMAIN events :
        LET e == events[i]
        IN  IF i = 1 THEN e.child = 0
            ELSE LET p == events[i - 1]
                 IN  IF e.head.seq = p.head.seq THEN e.child = p.child + 1
                     ELSE e.head.seq > p.head.seq /\ e.child = 0
RejectsInOrder(rejects) ==
    \A i \in 1..(Len(rejects) - 1) : rejects[i].head.seq < rejects[i + 1].head.seq

\* Deliveries.next takes the lines of the smallest sequence of the two files.
DeliverySeqs(events, rejects) ==
    SetToSortSeq({e.head.seq : e \in Range(events)} \cup {r.head.seq : r \in Range(rejects)}, <)
EventsOf(events, n) == {e \in Range(events) : e.head.seq = n}
RejectsOf(rejects, n) == {r \in Range(rejects) : r.head.seq = n}
HeaderOf(events, rejects, n) ==
    IF EventsOf(events, n) # {} THEN (CHOOSE e \in EventsOf(events, n) : e.child = 0).head
    ELSE (CHOOSE r \in RejectsOf(rejects, n) : TRUE).head

\* verify_disposition: faults pair with parse rejects, and a source has one outcome.
Disposition(es, rs) ==
    LET faults == {e \in es : e.fault}
        parses == {r \in rs : r.parse}
    IN  /\ Cardinality(faults) <= 1 /\ {e.head : e \in faults} = {r.head : r \in parses}
        /\ rs # {} => \A e \in es : e.fault

\* verify_stream in either mode, for the lines as they were written.
ReaderAccepts(events, rejects, sources) ==
    LET seqs == DeliverySeqs(events, rejects)
    IN  /\ EventsInOrder(events) /\ RejectsInOrder(rejects)
        /\ Len(sources) = Len(seqs)
        /\ \A i \in DOMAIN seqs :
             /\ sources[i] = HeaderOf(events, rejects, seqs[i])
             /\ \A l \in EventsOf(events, seqs[i]) : l.head = sources[i]
             /\ \A l \in RejectsOf(rejects, seqs[i]) : l.head = sources[i]
             /\ Disposition(EventsOf(events, seqs[i]), RejectsOf(rejects, seqs[i]))
        /\ ReaderFinish(FoldLeft(ReaderChecks, NoChecks, sources))

-----------------------------------------------------------------------------
(* build_window *)

Address(b) == setup[b].address
Encoder(b) == setup[b].encoder
Stage(b) == <<b, builder[b].attempt>>

Trouble == trouble < MaxTrouble /\ trouble' = trouble + 1
Goto(b, label) == builder' = [builder EXCEPT ![b].pc = label]

\* The lock goes with the process or with the call; a stage that was not published
\* goes with the call only.
Unlock(b) == lock' = [a \in Addresses |-> IF lock[a] = b THEN None ELSE lock[a]]
Return(b, verdict) ==
    /\ builder' = [builder EXCEPT ![b].pc = "done", ![b].verdict = verdict]
    /\ Unlock(b) /\ stages' = stages \ {Stage(b)}

\* Mutant: the lock of the address is not waited for.
AcquireAnyway(b) == TRUE

\* acquire_lock
Free(b) == lock[Address(b)] = None

Begin(b) ==
    /\ builder[b].pc = "idle" /\ Free(b)
    /\ lock' = [lock EXCEPT ![Address(b)] = b] /\ Goto(b, "listing")
    /\ UNCHANGED <<src, setup, stages, final, safe, kept, reader, trouble>>

\* prune_abandoned_stages lists the stages of every address before it looks at one.
ListStages(b) ==
    /\ builder[b].pc = "listing"
    /\ builder' = [builder EXCEPT ![b].pc = "pruning", ![b].todo = stages]
    /\ UNCHANGED <<src, setup, lock, stages, final, safe, kept, reader, trouble>>

\* A stage of its own address, or of one nobody holds, has no builder.
MayPrune(b, s) == LET a == Address(s[1]) IN a = Address(b) \/ lock[a] = None

PruneStage(b) ==
    /\ builder[b].pc = "pruning"
    /\ \E s \in builder[b].todo :
         /\ builder' = [builder EXCEPT ![b].todo = @ \ {s}]
         /\ stages' = IF MayPrune(b, s) THEN stages \ {s} ELSE stages
    /\ UNCHANGED <<src, setup, lock, final, safe, kept, reader, trouble>>

CreateStage(b) ==
    /\ builder[b].pc = "pruning" /\ builder[b].todo = {}
    /\ Goto(b, "streaming") /\ stages' = stages \cup {Stage(b)}
    /\ UNCHANGED <<src, setup, lock, final, safe, kept, reader, trouble>>

\* The whole window, the normalizer's finish, the frames, their fsync and the
\* manifest: nothing of the stage counts before the receipt, so one step.
Stream(b) ==
    /\ builder[b].pc = "streaming"
    /\ IF WriterAccepts(src)
       THEN Goto(b, "verified") /\ UNCHANGED <<lock, stages>>
       ELSE Return(b, "rejected")
    /\ UNCHANGED <<src, setup, final, safe, kept, reader, trouble>>

\* An address that is committed: the same receipt is a no-op, another a conflict.
FindCommitted(b) ==
    /\ builder[b].pc = "verified" /\ final[Address(b)].receipt # None
    /\ LET d == final[Address(b)]
       IN  Return(b, IF d.data = d.receipt /\ d.receipt = Encoder(b) THEN "noop" ELSE "conflict")
    /\ UNCHANGED <<src, setup, final, safe, kept, reader, trouble>>

\* A directory without a receipt is an interrupted publication.
RemoveUncommitted(b) ==
    /\ builder[b].pc = "verified" /\ final[Address(b)].receipt = None
    /\ IF final[Address(b)] = NoDirectory
       THEN Goto(b, "publish") /\ UNCHANGED final
       ELSE Goto(b, "removed") /\ final' = [final EXCEPT ![Address(b)] = NoDirectory]
    /\ UNCHANGED <<src, setup, lock, stages, safe, kept, reader, trouble>>

\* sync_directory of the window root, after the removal and after the rename.
SyncRoot(b) ==
    /\ \/ builder[b].pc = "removed" /\ Goto(b, "publish")
       \/ builder[b].pc = "renamed" /\ Goto(b, "published")
    /\ safe' = [safe EXCEPT ![Address(b)] = final[Address(b)]]
    /\ UNCHANGED <<src, setup, lock, stages, final, kept, reader, trouble>>

PublishDirectory(b) ==
    /\ builder[b].pc = "publish" /\ Goto(b, "renamed")
    /\ final' = [final EXCEPT ![Address(b)] = [data |-> Encoder(b), receipt |-> None]]
    /\ stages' = stages \ {Stage(b)}
    /\ UNCHANGED <<src, setup, lock, safe, kept, reader, trouble>>

\* write_receipt_last: the fsynced temporary becomes the receipt.
RenameReceipt(b) ==
    /\ builder[b].pc = "published" /\ Goto(b, "receipted")
    /\ final' = [final EXCEPT ![Address(b)].receipt = Encoder(b)]
    /\ UNCHANGED <<src, setup, lock, stages, safe, kept, reader, trouble>>

SyncReceipt(b) ==
    /\ builder[b].pc = "receipted"
    /\ safe' = [safe EXCEPT ![Address(b)] = final[Address(b)]]
    /\ kept' = kept \cup {<<Address(b), Encoder(b)>>}
    /\ Return(b, "committed")
    /\ UNCHANGED <<src, setup, final, reader, trouble>>

\* A call of the file system fails: the guard removes what was not published.
BuildFails(b) ==
    /\ Trouble /\ builder[b].pc \notin {"idle", "done"}
    /\ builder' = [builder EXCEPT ![b] = [IdleBuilder EXCEPT !.attempt = builder[b].attempt + 1]]
    /\ Unlock(b) /\ stages' = stages \ {Stage(b)}
    /\ UNCHANGED <<src, setup, final, safe, kept, reader>>

-----------------------------------------------------------------------------
(* open_pinned and the stream *)

\* inspect_pinned: the receipt is the pinned one.
OpenPinned ==
    /\ reader.pc = "idle"
    /\ \E p \in kept :
         /\ final[p[1]].receipt = p[2]
         /\ reader' = [NoReader EXCEPT !.pc = "copying", !.address = p[1], !.pin = p[2]]
    /\ UNCHANGED <<src, setup, lock, stages, final, safe, builder, kept, trouble>>

\* copy_bound: only the length of a file is compared.
CopySnapshot ==
    /\ reader.pc = "copying"
    /\ reader' = IF final[reader.address].data \in {None, "short"} THEN NoReader
                 ELSE [reader EXCEPT !.pc = "reading", !.copy = final[reader.address].data]
    /\ UNCHANGED <<src, setup, lock, stages, final, safe, builder, kept, trouble>>

\* A damaged frame may decode for a while.
NextDelivery ==
    /\ reader.pc = "reading"
    /\ \/ reader.given < Len(src) /\ reader' = [reader EXCEPT !.given = @ + 1]
       \/ reader.copy = "altered" /\ reader' = [reader EXCEPT !.pc = "poisoned"]
    /\ UNCHANGED <<src, setup, lock, stages, final, safe, builder, kept, trouble>>

\* Deliveries.finish: every frame ends with the stored digest and length.
FramesMatch == reader.copy = reader.pin

FinishRead ==
    /\ reader.pc = "reading" /\ reader.given = Len(src)
    /\ reader' = [reader EXCEPT !.pc = IF FramesMatch THEN "finished" ELSE "poisoned"]
    /\ UNCHANGED <<src, setup, lock, stages, final, safe, builder, kept, trouble>>

-----------------------------------------------------------------------------
(* The world *)

Kill(b) ==
    /\ Trouble /\ builder[b].pc \notin {"idle", "done"}
    /\ builder' = [builder EXCEPT ![b] = [IdleBuilder EXCEPT !.attempt = builder[b].attempt + 1]]
    /\ Unlock(b)
    /\ UNCHANGED <<src, setup, stages, final, safe, kept, reader>>

\* A stage whose rename was lost is back under its own name.
PowerLoss ==
    /\ Trouble
    /\ \E left \in {f \in [Addresses -> Range(final) \cup Range(safe)] :
                      \A a \in Addresses : f[a] \in {final[a], safe[a]}} :
         /\ final' = left /\ safe' = left
         /\ stages' = stages \cup
              {Stage(b) : b \in {c \in Builders : builder[c].pc = "renamed"
                                                  /\ left[Address(c)] = NoDirectory}}
    /\ builder' = [b \in Builders |-> IF builder[b].pc \in {"idle", "done"} THEN builder[b]
                                     ELSE [IdleBuilder EXCEPT !.attempt = builder[b].attempt + 1]]
    /\ lock' = [a \in Addresses |-> None] /\ reader' = NoReader
    /\ UNCHANGED <<src, setup, kept>>

Damage(a) ==
    /\ Trouble /\ final[a].receipt # None
    /\ \E harm \in {"altered", "short"} :
         /\ final' = [final EXCEPT ![a].data = harm] /\ safe' = [safe EXCEPT ![a].data = harm]
    /\ UNCHANGED <<src, setup, lock, stages, builder, kept, reader>>

Init ==
    /\ src \in Windows /\ setup \in Setups
    /\ lock = [a \in Addresses |-> None] /\ stages = {}
    /\ final = [a \in Addresses |-> NoDirectory] /\ safe = final
    /\ builder = [b \in Builders |-> IdleBuilder]
    /\ kept = {} /\ reader = NoReader /\ trouble = 0

Build(b) ==
    \/ Begin(b) \/ ListStages(b) \/ PruneStage(b) \/ CreateStage(b) \/ Stream(b)
    \/ FindCommitted(b) \/ RemoveUncommitted(b) \/ SyncRoot(b) \/ PublishDirectory(b)
    \/ RenameReceipt(b) \/ SyncReceipt(b) \/ BuildFails(b)

Next ==
    \/ \E b \in Builders : Build(b) \/ Kill(b)
    \/ OpenPinned \/ CopySnapshot \/ NextDelivery \/ FinishRead
    \/ PowerLoss \/ \E a \in Addresses : Damage(a)

Spec == Init /\ [][Next]_vars

-----------------------------------------------------------------------------
\* A window the derivative may hold, said without the order of the checks.
Tied(w, i) == \E j \in DOMAIN w : w[j].vis = w[i].vis /\ w[j].lane # w[i].lane
WindowIsValid(w) ==
    /\ \A i \in DOMAIN w :
         /\ w[i].result # "fault" /\ w[i].size <= MaxGroup
         /\ w[i].vis \in 0..(WindowEnd - 1)
         /\ w[i].tie = IF Tied(w, i) THEN w[i].vis ELSE None
         /\ w[i].tie # None =>
              MapThenSumSet(LAMBDA j : w[j].size, {j \in DOMAIN w : w[j].vis = w[i].vis}) <= MaxGroup
    /\ \A i \in 1..(Len(w) - 1) : w[i + 1].seq = w[i].seq + 1 /\ w[i].vis <= w[i + 1].vis
    /\ \A i, j \in DOMAIN w : i < j /\ w[i].lane = w[j].lane => w[i].index < w[j].index

\* "a build accepts and rejects exactly the inputs the default reader would", and
\* both those a valid window is made of (CandidateLimits, DeliveryChecks).
WriterAgreesWithReader ==
    LET valid == WindowIsValid(src)
    IN  /\ ReaderAccepts(EventLines(src), RejectLines(src), src) = valid
        /\ \A b \in Builders : builder[b].verdict # None => (builder[b].verdict = "rejected") = ~valid

\* A receipt never stands over anything but the bytes it names, through kills,
\* failures, power losses and other builders: the receipt is the sole commit marker.
ReceiptIsTrue ==
    \A a \in Addresses : final[a].receipt # None =>
        final[a].data \in {final[a].receipt, "altered", "short"} /\ WindowIsValid(src)

\* What a build committed is never replaced or taken away.
CommittedStays == \A p \in kept : final[p[1]].receipt = p[2]

\* A live builder keeps its stage whoever sweeps, and what died is swept by the next
\* builder of its address.
StagesAreOwned ==
    \A b \in Builders :
        /\ builder[b].pc \in {"streaming", "verified", "removed", "publish"} => Stage(b) \in stages
        /\ builder[b].pc \in {"streaming", "verified", "removed", "publish"} =>
             \A s \in stages : Address(s[1]) = Address(b) => s = Stage(b)

\* A reader that reached its end gave every delivery of the pinned bytes.
FinishedReadIsTrue == reader.pc = "finished" => reader.copy = reader.pin /\ reader.given = Len(src)

\* Not an invariant (a receipt that a killed build renamed and did not fsync is taken
\* for committed, lib.rs:524): what a no-op reported stays.
NoOpStays ==
    \A b \in Builders : builder[b].verdict = "noop" => final[Address(b)].receipt # None
=============================================================================
