--------------------------- MODULE FinalizerProofs ---------------------------
(***************************************************************************)
(* Proofs about Finalizer, for any set of processes and lanes and any      *)
(* bounds.                                                                 *)
(***************************************************************************)
EXTENDS Finalizer, FiniteSetTheorems, WellFoundedInduction, TLAPS

-----------------------------------------------------------------------------
(* Least and greatest elements of sets of naturals                         *)

\* A nonempty set of naturals has a least element: the oldest window of a spool
\* exists (tile_absent_windows).
LEMMA HasLeast ==
    ASSUME NEW T \in SUBSET Nat, T # {}
    PROVE  \E x \in T : \A y \in T : x <= y
<1>1. PICK x \in T : \A y \in T : ~(<<y, x>> \in OpToRel(<, Nat))
  BY NatLessThanWellFounded, WFMin, Zenon
<1>2. \A y \in T : ~(y < x)
  BY <1>1 DEF OpToRel
<1> QED  BY <1>2

\* A nonempty bounded set of naturals has a greatest element: the newest receipt
\* and the last window of a ready prefix exist (load_or_rebuild, ready_windows).
LEMMA HasGreatest ==
    ASSUME NEW T \in SUBSET Nat, T # {}, NEW n \in Nat, \A x \in T : x <= n
    PROVE  \E x \in T : \A y \in T : y <= x
<1> DEFINE D == {d \in Nat : \E x \in T : d = n - x}
<1>1. D # {}
  <2>1. PICK x \in T : TRUE  OBVIOUS
  <2>2. n - x \in D  BY <2>1
  <2> QED  BY <2>2
<1>2. PICK d \in D : \A e \in D : d <= e
  BY <1>1, HasLeast
<1>3. PICK x \in T : d = n - x  BY <1>2
<1>4. \A y \in T : n - y \in D  OBVIOUS
<1> QED  BY <1>2, <1>3, <1>4

-----------------------------------------------------------------------------
(* The number of records merged is a natural number                        *)

\* A merge of finitely many sealed segments yields finitely many records, so the
\* positions finalize_window hands out are numbers.
LEMMA RecordsFinite ==
    ASSUME NEW S \in SUBSET Segment, IsFiniteSet(S)
    PROVE  Cardinality(Records(S)) \in Nat
<1> DEFINE N == NonEmpty(S)
           F == {RecordsOf(s) : s \in N}
           f == [s \in N |-> RecordsOf(s)]
<1>1. IsFiniteSet(N)  BY FS_Subset DEF NonEmpty
<1>2. f \in Surjection(N, F)  BY DEF Surjection
<1>3. IsFiniteSet(F)  BY <1>1, <1>2, FS_Surjection
<1>4. ASSUME NEW T \in F PROVE IsFiniteSet(T)
  <2>1. PICK s \in N : T = RecordsOf(s)  OBVIOUS
  <2>2. s \in Segment  BY DEF NonEmpty
  <2>3. IsFiniteSet(s.first..s.last)  BY <2>2, FS_Interval DEF Segment
  <2>4. IsFiniteSet({s.lane})  BY FS_Singleton
  <2> QED  BY <2>1, <2>3, <2>4, FS_Product DEF RecordsOf
<1>5. IsFiniteSet(UNION F)  BY <1>3, <1>4, FS_UNION
<1> QED  BY <1>5, FS_CardinalityType DEF Records

-----------------------------------------------------------------------------
(* What load_or_rebuild and tile_absent_windows compute                    *)

\* What load_or_rebuild returns: the newest receipt's window and the highest
\* position any receipt names, which one of them does name.
LEMMA RebuiltFacts ==
    ASSUME TypeOK, NewestExists, HighestExists
    PROVE  /\ Rebuilt \in [win : Nat \cup {-1}, seq : Nat]
           /\ Committed = {} => Rebuilt = NoMark
           /\ Committed # {} =>
                /\ Newest \in Committed /\ Rebuilt.win = Newest
                /\ \A v \in Committed : v <= Newest
                /\ \A v \in Committed : receipts[v].last <= Rebuilt.seq
                /\ \E v \in Committed : receipts[v].last = Rebuilt.seq
<1>1. CASE Committed = {}
  BY <1>1 DEF Rebuilt, NoMark
<1>2. CASE Committed # {}
  <2>1. Newest \in Committed /\ \A v \in Committed : v <= Newest
    BY <1>2 DEF Newest, NewestExists
  <2> DEFINE H == {receipts[w].last : w \in Committed}
  <2>2. PICK w \in Committed : \A v \in Committed : receipts[v].last <= receipts[w].last
    BY <1>2 DEF HighestExists
  <2>3. \E n \in H : \A v \in Committed : receipts[v].last <= n
    BY <2>2
  <2>4. Highest \in H /\ \A v \in Committed : receipts[v].last <= Highest
    BY <2>3 DEF Highest
  <2>5. H \subseteq Nat
    BY DEF TypeOK, Receipt
  <2>6. Rebuilt = [win |-> Newest, seq |-> Highest]
    BY <1>2 DEF Rebuilt
  <2>7. Newest \in Nat  BY <2>1 DEF TypeOK
  <2> QED  BY <1>2, <2>1, <2>4, <2>5, <2>6, <2>7
<1> QED  BY <1>1, <1>2

\* tile_absent_windows starts at the window after the newest receipt, and at an
\* existing window of the spool when nothing is committed.
LEMMA FirstOpenFacts ==
    ASSUME TypeOK, NewestExists, NEW S \in SUBSET Segment, Committed # {} \/ S # {}
    PROVE  /\ FirstOpen(S) \in Nat
           /\ Committed # {} => FirstOpen(S) = Newest + 1
<1>1. CASE Committed # {}
  <2>1. Newest \in Committed  BY <1>1 DEF Newest, NewestExists
  <2> QED  BY <1>1, <2>1 DEF FirstOpen, TypeOK
<1>2. CASE Committed = {}
  <2> DEFINE W == {s.win : s \in S}
  <2>1. W \in SUBSET Nat /\ W # {}
    BY <1>2, FinalizerAssumption DEF Segment
  <2>2. PICK x \in W : \A y \in W : x <= y
    BY <2>1, HasLeast
  <2>3. \A s \in S : x <= s.win  BY <2>2
  <2>4. FirstOpen(S) \in W
    BY <1>2, <2>2, <2>3 DEF FirstOpen
  <2> QED  BY <1>2, <2>1, <2>4
<1> QED  BY <1>1, <1>2

\* A sweep with ready windows starts at the first open one and its last ready
\* window exists (ready_windows).
LEMMA ReadyFacts ==
    ASSUME TypeOK, NewestExists, NEW S \in SUBSET Segment, NEW at \in Nat,
           Ready(S, at) # {}
    PROVE  /\ FirstOpen(S) \in Nat
           /\ Committed # {} => FirstOpen(S) = Newest + 1
           /\ (CHOOSE w \in Ready(S, at) : \A v \in Ready(S, at) : v <= w) \in Nat
           /\ (CHOOSE w \in Ready(S, at) : \A v \in Ready(S, at) : v <= w) \in Ready(S, at)
<1>1. ~NothingToTile(S, at)
  BY DEF Ready
<1>2. Committed # {} \/ S # {}
  BY <1>1 DEF NothingToTile
<1>3. /\ FirstOpen(S) \in Nat
      /\ Committed # {} => FirstOpen(S) = Newest + 1
  BY <1>2, FirstOpenFacts
<1> DEFINE first == FirstOpen(S)
           R == Reach(S, at)
<1>4. R \subseteq Nat /\ \A w \in R : w <= MaxTime + first + MaxSynth
  <2>1. {s.win : s \in S} \subseteq 0..MaxTime
    BY DEF Segment
  <2>2. Horizon(at, first) \subseteq Nat /\ \A w \in Horizon(at, first) : w <= first + MaxSynth
    <3>1. \A n \in Nat : n \div Period \in Int  BY FinalizerAssumption
    <3> QED  BY <1>3, <3>1, FinalizerAssumption DEF Horizon
  <2>3. R = {s.win : s \in S} \cup Horizon(at, first)  BY DEF Reach
  <2> QED  BY <1>3, <2>1, <2>2, <2>3, FinalizerAssumption
<1>5. R # {}  BY <1>1 DEF NothingToTile
<1>6. MaxTime + first + MaxSynth \in Nat  BY <1>3, FinalizerAssumption
<1>7. PICK m \in R : \A v \in R : v <= m
  <2> HIDE DEF R, first
  <2> QED  BY <1>4, <1>5, <1>6, HasGreatest
<1>8. LastOpen(S, at) \in Nat
  BY <1>4, <1>7 DEF LastOpen
<1>9. Ready(S, at) \subseteq first..LastOpen(S, at)
  BY <1>1 DEF Ready
<1>10. Ready(S, at) \in SUBSET Nat /\ \A w \in Ready(S, at) : w <= LastOpen(S, at)
  BY <1>3, <1>8, <1>9
<1>11. PICK w \in Ready(S, at) : \A v \in Ready(S, at) : v <= w
  BY <1>8, <1>10, HasGreatest
<1> QED  BY <1>3, <1>10, <1>11

-----------------------------------------------------------------------------
(* Type correctness                                                        *)

\* The receipt finalize_window writes is well formed, and its positions are either
\* absent or start at the position it was given.
LEMMA ReceiptType ==
    ASSUME NEW S \in SUBSET Segment, IsFiniteSet(S), NEW w, NEW e,
           NEW from \in Nat \ {0}, NEW at \in Nat
    PROVE  /\ ReceiptOf(S, w, e, from, at) \in Receipt
           /\ \/ /\ ReceiptOf(S, w, e, from, at).first = 0
                 /\ ReceiptOf(S, w, e, from, at).last = 0
              \/ /\ ReceiptOf(S, w, e, from, at).first = from
                 /\ ReceiptOf(S, w, e, from, at).last >= from
<1> DEFINE inputs == Inputs(S, w, e)
           count == Cardinality(Records(inputs))
           m == MergedLanes(S, w, e)
<1>1. inputs \in SUBSET Segment /\ inputs \in SUBSET S
  BY DEF Inputs
<1>2. count \in Nat
  BY <1>1, FS_Subset, RecordsFinite
<1>3. m \in SUBSET Lanes
  BY DEF MergedLanes, ValidLanes
<1> DEFINE fst == IF count > 0 THEN from ELSE 0
           lst == IF count > 0 THEN from + count - 1 ELSE 0
           cmp == Expected \subseteq m
<1>4. ReceiptOf(S, w, e, from, at) =
        [inputs |-> inputs, present |-> m, complete |-> cmp,
         first |-> fst, last |-> lst, at |-> at]
  BY DEF ReceiptOf
<1>5. /\ fst \in Nat /\ lst \in Nat
      /\ (fst = 0 /\ lst = 0) \/ (fst = from /\ lst >= from)
  BY <1>2
<1>6. cmp \in BOOLEAN  OBVIOUS
<1> HIDE DEF inputs, count, m, fst, lst, cmp
<1>7. ReceiptOf(S, w, e, from, at) \in Receipt
  BY <1>1, <1>3, <1>4, <1>5, <1>6 DEF Receipt
<1>8. /\ ReceiptOf(S, w, e, from, at).first = fst
      /\ ReceiptOf(S, w, e, from, at).last = lst
  BY <1>4
<1> QED  BY <1>5, <1>7, <1>8

\* The state before the first run, an empty canonical root, is well typed.
LEMMA TypeInit == Init => TypeOK
BY FS_EmptySet, FinalizerAssumption
   DEF Init, TypeOK, NoMark, NoEdge, PCs, Committed, Receipt

\* Every step of sweep_once, of the lanes, the operator and the host keeps the
\* state well typed.
LEMMA TypeStep ==
    ASSUME TypeOK, NewestExists, HighestExists, [Next]_vars
    PROVE  TypeOK'
<1> USE FinalizerAssumption
<1>1. ASSUME NEW p \in Procs, Start(p) PROVE TypeOK'
  BY <1>1 DEF Start, TypeOK, PCs, Committed, envVars, localVars, diskVars, outputVars
<1>2. ASSUME NEW p \in Procs, Stop(p) PROVE TypeOK'
  BY <1>2 DEF Stop, Exit, TypeOK, PCs, Committed, localVars, diskVars, outputVars
<1>3. ASSUME NEW p \in Procs, SampleClock(p) PROVE TypeOK'
  BY <1>3 DEF SampleClock, TypeOK, PCs, Committed, envVars, diskVars, outputVars
<1>4. ASSUME NEW p \in Procs, Assemble(p) PROVE TypeOK'
  BY <1>4 DEF Assemble, TypeOK, PCs, Committed, envVars, diskVars, outputVars
<1>5. ASSUME NEW p \in Procs, Load(p) PROVE TypeOK'
  <2>1. /\ mark' \in [win : Nat \cup {-1}, seq : Nat]
        /\ seq' \in [Procs -> Nat \ {0}]
    BY <1>5, RebuiltFacts DEF Load, TypeOK
  <2>2. cursor' \in [Procs -> Nat] /\ limit' \in [Procs -> Nat]
    <3>1. view[p] \in SUBSET Segment /\ t[p] \in Nat  BY DEF TypeOK
    <3>2. CASE Ready(view[p], t[p]) = {}
      BY <1>5, <3>2 DEF Load, TypeOK
    <3>3. CASE Ready(view[p], t[p]) # {}
      <4> DEFINE last == CHOOSE w \in Ready(view[p], t[p]) :
                             \A v \in Ready(view[p], t[p]) : v <= w
      <4>1. FirstOpen(view[p]) \in Nat /\ last \in Nat
        BY <3>1, <3>3, ReadyFacts
      <4>2. /\ cursor' = [cursor EXCEPT ![p] = FirstOpen(view[p])]
            /\ limit' = [limit EXCEPT ![p] = last]
        BY <1>5, <3>3 DEF Load
      <4> HIDE DEF last
      <4> QED  BY <4>1, <4>2 DEF TypeOK
    <3> QED  BY <3>2, <3>3
  <2>3. behind' \in [Procs -> BOOLEAN]
    <3>1. (BehindWindows(view[p]) # {}) \in BOOLEAN  OBVIOUS
    <3> QED  BY <1>5, <3>1, Zenon DEF Load, TypeOK
  <2>4. pc' \in [Procs -> PCs] /\ DOMAIN edge' = Procs
    BY <1>5 DEF Load, TypeOK, PCs
  <2> QED
    BY <1>5, <2>1, <2>2, <2>3, <2>4 DEF Load, TypeOK, Committed, envVars, outputVars
<1>6. ASSUME NEW p \in Procs, LoadRefused(p) PROVE TypeOK'
  <2>1. mark' \in [win : Nat \cup {-1}, seq : Nat]
    BY <1>6, RebuiltFacts DEF LoadRefused
  <2> QED
    BY <1>6, <2>1, FS_EmptySet
       DEF LoadRefused, Exit, Forget, TypeOK, PCs, Committed, envVars, outputVars
<1>7. ASSUME NEW p \in Procs,
             Defer(p) \/ PublishEvidence(p) \/ PublishProvenance(p) \/ SyncOutputs(p)
      PROVE  TypeOK'
  BY <1>7 DEF Defer, PublishEvidence, PublishProvenance, SyncOutputs, TypeOK, PCs,
              Committed, envVars, localVars, diskVars, outputVars
<1>8. ASSUME NEW p \in Procs, WriteReceipt(p) PROVE TypeOK'
  <2> DEFINE r == ReceiptOf(view[p], cursor[p], edge[p], seq[p], t[p])
  <2>1. r \in Receipt
    BY ReceiptType DEF TypeOK
  <2>2. receipts' = Put(receipts, cursor[p], r)
    BY <1>8 DEF WriteReceipt
  <2>3. /\ seq' = [seq EXCEPT ![p] = IF r.last > 0 THEN r.last + 1 ELSE seq[p]]
        /\ pc' = [pc EXCEPT ![p] = "mark"]
        /\ DOMAIN edge' = Procs
    BY <1>8 DEF WriteReceipt, TypeOK
  <2> HIDE DEF r
  <2>4. /\ Committed' = Committed \cup {cursor[p]}
        /\ receipts' = [w \in Committed' |-> receipts'[w]]
        /\ \A w \in Committed' : receipts'[w] \in Receipt
        /\ Committed' \subseteq Nat
    BY <2>1, <2>2 DEF Put, Committed, TypeOK
  <2>5. seq' \in [Procs -> Nat \ {0}] /\ pc' \in [Procs -> PCs]
    BY <2>1, <2>3 DEF TypeOK, Receipt, PCs
  <2> QED
    BY <1>8, <2>3, <2>4, <2>5 DEF WriteReceipt, TypeOK, envVars, outputVars
<1>9. ASSUME NEW p \in Procs, WriteMark(p) PROVE TypeOK'
  BY <1>9 DEF WriteMark, TypeOK, PCs, Committed, envVars, outputVars
<1>10. ASSUME NEW p \in Procs, Report(p) PROVE TypeOK'
  BY <1>10, FS_EmptySet
     DEF Report, Exit, Forget, TypeOK, PCs, Committed, envVars, diskVars, outputVars
<1>11. ASSUME NEW p \in Procs, Kill(p) PROVE TypeOK'
  BY <1>11, FS_EmptySet DEF Kill, Forget, TypeOK, PCs, Committed, diskVars, outputVars
<1>12. ASSUME PowerLoss PROVE TypeOK'
  BY <1>12, FS_EmptySet DEF PowerLoss, TypeOK, PCs, Committed
<1>13. ASSUME ClearLease PROVE TypeOK'
  BY <1>13 DEF ClearLease, TypeOK, Committed, envVars, localVars, diskVars, outputVars
<1>14. ASSUME Tick PROVE TypeOK'
  BY <1>14 DEF Tick, TypeOK, Committed, localVars, diskVars, outputVars
<1>15. ASSUME NEW l \in Lanes, NEW w \in 0..MaxTime, NEW first \in 0..MaxIndex,
              NEW n \in 0..MaxRecords, NEW fault \in {"none", "seal", "record"},
              Seal(l, w, first, n, fault)
       PROVE  TypeOK'
  <2>1. Cardinality(LaneSegs(spool, w, l)) \in Nat
    BY FS_Subset, FS_CardinalityType DEF LaneSegs, TypeOK
  <2> DEFINE new == [lane |-> l, win |-> w, index |-> Cardinality(LaneSegs(spool, w, l)),
                     first |-> first, last |-> IF n = 0 THEN 0 ELSE first + n - 1,
                     fault |-> fault]
  <2>2. first \in Nat /\ (IF n = 0 THEN 0 ELSE first + n - 1) \in Nat
    OBVIOUS
  <2>3. new \in Segment
    BY <2>1, <2>2 DEF Segment
  <2>4. spool' = spool \cup {new}
    BY <1>15 DEF Seal
  <2> HIDE DEF new
  <2>5. spool' \in SUBSET Segment /\ IsFiniteSet(spool')
    <3>1. spool \in SUBSET Segment /\ IsFiniteSet(spool)  BY DEF TypeOK
    <3>2. IsFiniteSet(spool \cup {new})  BY <3>1, FS_AddElement
    <3> QED  BY <2>3, <2>4, <3>1, <3>2
  <2> USE DEF new
  <2> QED
    BY <1>15, <2>5 DEF Seal, TypeOK, Committed, localVars, diskVars, outputVars
<1>16. CASE UNCHANGED vars
  BY <1>16 DEF vars, TypeOK, Committed, envVars, localVars, diskVars, outputVars
<1> QED
  BY <1>1, <1>2, <1>3, <1>4, <1>5, <1>6, <1>7, <1>8, <1>9, <1>10, <1>11, <1>12, <1>13,
     <1>14, <1>15, <1>16 DEF Next, Step

-----------------------------------------------------------------------------
(* One finalizer at a time                                                 *)

\* No step lets a second process past RootLease::acquire while a first is there.
LEMMA LeaseStep ==
    ASSUME TypeOK, LeaseExcludes, [Next]_vars
    PROVE  LeaseExcludes'
<1> USE FinalizerAssumption DEF LeaseExcludes, TypeOK
<1>1. ASSUME NEW p \in Procs, Start(p) PROVE LeaseExcludes'
  BY <1>1 DEF Start
<1>2. ASSUME NEW p \in Procs, Stop(p) PROVE LeaseExcludes'
  BY <1>2 DEF Stop, Exit
<1>3. ASSUME NEW p \in Procs, Step(p) PROVE LeaseExcludes'
  <2>1. CASE LoadRefused(p)
    BY <2>1 DEF LoadRefused, Exit
  <2>2. CASE Report(p)
    BY <2>2 DEF Report, Exit
  <2>3. CASE Load(p)
    BY <2>3 DEF Load
  <2>4. CASE SampleClock(p) \/ Assemble(p) \/ Defer(p) \/ PublishEvidence(p)
             \/ PublishProvenance(p) \/ SyncOutputs(p)
    BY <2>4 DEF SampleClock, Assemble, Defer, PublishEvidence, PublishProvenance, SyncOutputs
  <2>5. CASE WriteReceipt(p) \/ WriteMark(p)
    BY <2>5 DEF WriteReceipt, WriteMark
  <2> QED  BY <1>3, <2>1, <2>2, <2>3, <2>4, <2>5 DEF Step
<1>4. ASSUME NEW p \in Procs, Kill(p) PROVE LeaseExcludes'
  BY <1>4 DEF Kill
<1>5. CASE PowerLoss
  BY <1>5 DEF PowerLoss
<1>6. CASE ClearLease
  BY <1>6 DEF ClearLease
<1>7. CASE Tick
  BY <1>7 DEF Tick
<1>8. ASSUME NEW l \in Lanes, NEW w \in 0..MaxTime, NEW first \in 0..MaxIndex,
             NEW n \in 0..MaxRecords, NEW fault \in {"none", "seal", "record"},
             Seal(l, w, first, n, fault)
      PROVE  LeaseExcludes'
  BY <1>8 DEF Seal
<1>9. CASE UNCHANGED vars
  BY <1>9 DEF vars
<1> QED
  BY <1>1, <1>2, <1>3, <1>4, <1>5, <1>6, <1>7, <1>8, <1>9 DEF Next

-----------------------------------------------------------------------------
(* The canonical sequence                                                  *)

\* The step that commits a window: a new one, right after the newest, at the next
\* positions, and nothing committed earlier changes (write_receipt).
LEMMA CommitStep ==
    ASSUME CommitInv, NEW p \in Procs, WriteReceipt(p)
    PROVE  /\ cursor[p] \notin Committed
           /\ Committed = {} \/ (cursor[p] - 1) \in Committed
           /\ Committed' = Committed \cup {cursor[p]}
           /\ \A v \in Committed : v < cursor[p] /\ receipts'[v] = receipts[v]
           /\ receipts'[cursor[p]] \in Receipt
           /\ \/ /\ receipts'[cursor[p]].first = 0 /\ receipts'[cursor[p]].last = 0
                 /\ seq'[p] = seq[p]
              \/ /\ receipts'[cursor[p]].first = seq[p]
                 /\ receipts'[cursor[p]].last >= seq[p]
                 /\ seq'[p] = receipts'[cursor[p]].last + 1
<1> DEFINE w == cursor[p]
           r == ReceiptOf(view[p], cursor[p], edge[p], seq[p], t[p])
<1>1. TypeOK /\ CarriedInv  BY DEF CommitInv
<1>2. /\ r \in Receipt
      /\ (r.first = 0 /\ r.last = 0) \/ (r.first = seq[p] /\ r.last >= seq[p])
  <2>1. /\ view[p] \in SUBSET Segment /\ IsFiniteSet(view[p])
        /\ seq[p] \in Nat \ {0} /\ t[p] \in Nat
    BY <1>1 DEF TypeOK
  <2> QED  BY <2>1, ReceiptType
<1>3. /\ receipts' = Put(receipts, w, r)
      /\ seq' = [seq EXCEPT ![p] = IF r.last > 0 THEN r.last + 1 ELSE seq[p]]
      /\ pc[p] = "receipt"
  BY DEF WriteReceipt
<1> HIDE DEF r
<1>4. /\ \A v \in Committed : v < w
      /\ Committed = {} \/ (w - 1) \in Committed
  BY <1>1, <1>3 DEF CarriedInv, TypeOK
<1>5. /\ Committed' = Committed \cup {w}
      /\ receipts'[w] = r
      /\ \A v \in Committed : v # w => receipts'[v] = receipts[v]
  BY <1>3 DEF Put, Committed
<1>6. w \in Nat /\ seq[p] \in Nat \ {0} /\ Committed \subseteq Nat
  BY <1>1 DEF TypeOK
<1>7. seq'[p] = IF r.last > 0 THEN r.last + 1 ELSE seq[p]
  BY <1>1, <1>3 DEF TypeOK
<1>8. w \notin Committed  BY <1>4, <1>6
<1>9. \A v \in Committed : receipts'[v] = receipts[v]  BY <1>5, <1>8
<1>10. r.last \in Nat  BY <1>2 DEF Receipt
<1>11. \/ r.first = 0 /\ r.last = 0 /\ seq'[p] = seq[p]
       \/ r.first = seq[p] /\ r.last >= seq[p] /\ seq'[p] = r.last + 1
  BY <1>2, <1>6, <1>7, <1>10
<1> QED  BY <1>2, <1>4, <1>5, <1>8, <1>9, <1>11

\* Committing a window keeps the inductive invariant (write_receipt).
LEMMA ReceiptStep ==
    ASSUME CommitInv, TypeOK', LeaseExcludes', NEW p \in Procs, WriteReceipt(p)
    PROVE  CommitInv'
<1> DEFINE w == cursor[p]
           r == receipts'[w]
<1>1. /\ w \notin Committed
      /\ Committed = {} \/ (w - 1) \in Committed
      /\ Committed' = Committed \cup {w}
      /\ \A v \in Committed : v < w /\ receipts'[v] = receipts[v]
      /\ r \in Receipt
      /\ \/ r.first = 0 /\ r.last = 0 /\ seq'[p] = seq[p]
         \/ r.first = seq[p] /\ r.last >= seq[p] /\ seq'[p] = r.last + 1
  BY CommitStep
<1>2. /\ pc[p] = "receipt" /\ pc' = [pc EXCEPT ![p] = "mark"]
      /\ cursor' = cursor /\ mark' = mark /\ lease' = lease
  BY DEF WriteReceipt
<1>3. /\ w \in Nat /\ Committed \subseteq Nat
      /\ seq[p] \in Nat \ {0} /\ seq'[p] \in Nat \ {0}
      /\ \A v \in Committed : receipts[v].last \in Nat /\ receipts[v].first \in Nat
      /\ r.last \in Nat /\ r.first \in Nat
      /\ mark.win \in Nat \cup {-1} /\ mark.seq \in Nat
  BY <1>1 DEF CommitInv, TypeOK, Receipt
<1>4. SeqIsNext(p)
  BY <1>2 DEF CommitInv, CarriedInv
<1> HIDE DEF r
<1>5. /\ \A v \in Committed' : receipts'[v].last < seq'[p]
      /\ seq'[p] = 1 \/ \E v \in Committed' : receipts'[v].last + 1 = seq'[p]
  <2>1. \A v \in Committed : receipts'[v].last < seq'[p]
    BY <1>1, <1>3, <1>4 DEF SeqIsNext
  <2>2. r.last < seq'[p]
    BY <1>1, <1>3
  <2>3. seq'[p] = 1 \/ \E v \in Committed' : receipts'[v].last + 1 = seq'[p]
    <3>1. CASE seq'[p] = seq[p]
      BY <1>1, <1>4, <3>1 DEF SeqIsNext
    <3>2. CASE seq'[p] = r.last + 1
      BY <1>1, <3>2 DEF r
    <3> QED  BY <1>1, <3>1, <3>2
  <2> QED  BY <1>1, <2>1, <2>2, <2>3 DEF r
<1>6. NewestExists'
  BY <1>1, <1>3 DEF NewestExists
<1>7. HighestExists'
  <2>1. CASE r.first = seq[p] /\ r.last >= seq[p]
    <3>1. \A v \in Committed' : receipts'[v].last <= r.last
      <4>1. \A v \in Committed : receipts'[v].last <= r.last
        BY <1>1, <1>3, <1>4, <2>1 DEF SeqIsNext
      <4> QED  BY <1>1, <1>3, <4>1 DEF r
    <3> QED  BY <1>1, <3>1 DEF HighestExists, r
  <2>2. CASE r.last = 0
    <3>1. CASE Committed = {}
      BY <1>1, <1>3, <3>1 DEF HighestExists, r
    <3>2. CASE Committed # {}
      <4>1. PICK h \in Committed : \A v \in Committed : receipts[v].last <= receipts[h].last
        BY <3>2 DEF CommitInv, HighestExists
      <4>2. \A v \in Committed' : receipts'[v].last <= receipts'[h].last
        BY <1>1, <1>3, <2>2, <4>1 DEF r
      <4> QED  BY <1>1, <4>1, <4>2 DEF HighestExists
    <3> QED  BY <3>1, <3>2
  <2> QED  BY <1>1, <2>1, <2>2
<1>8. CanonicalChain'
  <2>1. \A u, v \in Committed' : u..v \subseteq Committed'
    <3> SUFFICES ASSUME NEW u \in Committed', NEW v \in Committed', NEW x \in u..v
                 PROVE  x \in Committed'
      OBVIOUS
    <3>1. u \in Nat /\ v \in Nat /\ x \in Int /\ u <= x /\ x <= v /\ v <= w
      BY <1>1, <1>3
    <3>2. CASE x = w  BY <1>1, <3>2
    <3>3. CASE x # w
      <4>1. x <= w - 1 /\ u # w  BY <1>3, <3>1, <3>3
      <4>2. u \in Committed /\ (w - 1) \in Committed  BY <1>1, <4>1
      <4>3. x \in u..(w - 1)  BY <1>3, <3>1, <4>1
      <4>4. x \in Committed  BY <4>2, <4>3 DEF CommitInv, CanonicalChain
      <4> QED  BY <1>1, <4>4
    <3> QED  BY <3>2, <3>3
  <2>2. ASSUME NEW v \in Committed'
        PROVE  LET s == receipts'[v]
               IN  \/ s.first = 0 /\ s.last = 0
                   \/ /\ 1 <= s.first /\ s.first <= s.last
                      /\ \A u \in Committed' : u < v => receipts'[u].last < s.first
                      /\ s.first = 1 \/ \E u \in Committed' : u < v /\ receipts'[u].last + 1 = s.first
    <3>1. CASE v = w
      <4>1. CASE r.first = 0 /\ r.last = 0
        BY <3>1, <4>1 DEF r
      <4>2. CASE r.first = seq[p] /\ r.last >= seq[p]
        <5>1. 1 <= r.first /\ r.first <= r.last
          BY <1>3, <4>2
        <5>2. \A u \in Committed' : u < w => receipts'[u].last < r.first
          BY <1>1, <1>3, <1>4, <4>2 DEF SeqIsNext
        <5>3. r.first = 1 \/ \E u \in Committed' : u < w /\ receipts'[u].last + 1 = r.first
          BY <1>1, <1>4, <4>2 DEF SeqIsNext
        <5> QED  BY <3>1, <5>1, <5>2, <5>3 DEF r
      <4> QED  BY <1>1, <4>1, <4>2
    <3>2. CASE v # w
      <4>1. v \in Committed /\ v < w /\ receipts'[v] = receipts[v]  BY <1>1, <3>2
      <4>2. \A u \in Committed' : u < v => u \in Committed /\ receipts'[u] = receipts[u]
        BY <1>1, <1>3, <4>1
      <4>3. \/ receipts[v].first = 0 /\ receipts[v].last = 0
            \/ /\ 1 <= receipts[v].first /\ receipts[v].first <= receipts[v].last
               /\ \A u \in Committed : u < v => receipts[u].last < receipts[v].first
               /\ \/ receipts[v].first = 1
                  \/ \E u \in Committed : u < v /\ receipts[u].last + 1 = receipts[v].first
        BY <4>1 DEF CommitInv, CanonicalChain
      <4> QED  BY <1>1, <4>1, <4>2, <4>3
    <3> QED  BY <3>1, <3>2
  <2> QED  BY <2>1, <2>2 DEF CanonicalChain
<1>9. CarriedInv'
  <2> SUFFICES ASSUME NEW q \in Procs
               PROVE  /\ pc'[q] \in {"window", "provenance", "sync", "receipt"} => FALSE
                      /\ pc'[q] = "mark" =>
                            /\ SeqIsNext(q)'
                            /\ cursor'[q] \in Committed'
                            /\ \A v \in Committed' : v <= cursor'[q]
    BY DEF CarriedInv
  <2>1. CASE q = p
    BY <1>1, <1>2, <1>3, <1>5, <2>1 DEF CommitInv, TypeOK, SeqIsNext
  <2>2. CASE q # p
    <3>1. pc'[q] = pc[q]  BY <1>2, <2>2 DEF CommitInv, TypeOK
    <3>2. pc[q] = "off"  BY <1>2, <2>2 DEF CommitInv, LeaseExcludes
    <3> QED  BY <3>1, <3>2
  <2> QED  BY <2>1, <2>2
<1>10. MarkNeverAhead'
  <2> SUFFICES ASSUME mark # NoMark
               PROVE  /\ mark.win \in Committed'
                      /\ Committed' \subseteq 0..(mark.win + 1)
                      /\ \A v \in Committed' : v <= mark.win => receipts'[v].last <= mark.seq
                      /\ \/ mark.seq = 0
                         \/ \E v \in Committed' : v <= mark.win /\ receipts'[v].last = mark.seq
    BY <1>2 DEF MarkNeverAhead, NoMark
  <2>1. /\ mark.win \in Committed
        /\ Committed \subseteq 0..(mark.win + 1)
        /\ \A v \in Committed : v <= mark.win => receipts[v].last <= mark.seq
        /\ mark.seq = 0 \/ \E v \in Committed : v <= mark.win /\ receipts[v].last = mark.seq
    BY DEF CommitInv, MarkNeverAhead
  <2>2. mark.win + 1 = w
    BY <1>2, <2>1 DEF CommitInv, CarriedInv
  <2>3. mark.win < w /\ w \in 0..(mark.win + 1)
    BY <1>3, <2>2
  <2>4. \A v \in Committed' : v <= mark.win => v \in Committed
    BY <1>1, <1>3, <2>3
  <2>5. mark.win \in Committed' /\ Committed' \subseteq 0..(mark.win + 1)
    BY <1>1, <2>1, <2>3
  <2>6. \A v \in Committed' : v <= mark.win => receipts'[v].last <= mark.seq
    BY <1>1, <2>1, <2>4
  <2>7. mark.seq = 0 \/ \E v \in Committed' : v <= mark.win /\ receipts'[v].last = mark.seq
    BY <1>1, <2>1
  <2> QED  BY <2>5, <2>6, <2>7
<1> QED  BY <1>6, <1>7, <1>8, <1>9, <1>10 DEF CommitInv

\* A step that writes neither a receipt nor the watermark, and takes no process
\* into the commit loop, keeps the invariant.
LEMMA QuietStep ==
    ASSUME CommitInv, TypeOK', LeaseExcludes', receipts' = receipts, mark' = mark,
           \A q \in Procs :
               /\ pc'[q] \in {"window", "provenance", "sync", "receipt"} =>
                      pc[q] \in {"window", "provenance", "sync", "receipt"}
               /\ pc'[q] = "mark" => pc[q] = "mark"
               /\ pc'[q] \in {"window", "provenance", "sync", "receipt", "mark"} =>
                      cursor'[q] = cursor[q] /\ seq'[q] = seq[q]
    PROVE  CommitInv'
<1>1. NewestExists' /\ HighestExists' /\ CanonicalChain' /\ MarkNeverAhead'
  BY DEF CommitInv, NewestExists, HighestExists, CanonicalChain, MarkNeverAhead, Committed, NoMark
<1>2. CarriedInv'
  BY DEF CommitInv, CarriedInv, SeqIsNext, Committed
<1> QED  BY <1>1, <1>2 DEF CommitInv

\* load_or_rebuild and the plan of a sweep keep the inductive invariant: the rebuilt
\* watermark is the one the commit loop starts from.
LEMMA LoadStep ==
    ASSUME CommitInv, TypeOK', LeaseExcludes', NEW p \in Procs, Load(p) \/ LoadRefused(p)
    PROVE  CommitInv'
<1>1. receipts' = receipts /\ Committed' = Committed /\ mark' = Rebuilt
  BY DEF Load, LoadRefused, Committed
<1>2. NewestExists' /\ HighestExists' /\ CanonicalChain'
  BY <1>1 DEF CommitInv, NewestExists, HighestExists, CanonicalChain
<1>3. TypeOK /\ NewestExists /\ HighestExists  BY DEF CommitInv
<1>4. /\ Rebuilt \in [win : Nat \cup {-1}, seq : Nat]
      /\ Committed = {} => Rebuilt = NoMark
      /\ Committed # {} =>
            /\ Newest \in Committed /\ Rebuilt.win = Newest
            /\ \A v \in Committed : v <= Newest
            /\ \A v \in Committed : receipts[v].last <= Rebuilt.seq
            /\ \E v \in Committed : receipts[v].last = Rebuilt.seq
  BY <1>3, RebuiltFacts
<1>5. /\ Committed \subseteq Nat
      /\ \A v \in Committed : receipts[v].last \in Nat
  BY <1>3 DEF TypeOK, Receipt
<1>6. MarkNeverAhead'
  <2> SUFFICES ASSUME Rebuilt # NoMark
               PROVE  /\ Rebuilt.win \in Committed
                      /\ Committed \subseteq 0..(Rebuilt.win + 1)
                      /\ \A w \in Committed : w <= Rebuilt.win => receipts[w].last <= Rebuilt.seq
                      /\ \/ Rebuilt.seq = 0
                         \/ \E w \in Committed : w <= Rebuilt.win /\ receipts[w].last = Rebuilt.seq
    BY <1>1 DEF MarkNeverAhead, NoMark
  <2> QED  BY <1>4, <1>5
<1>7. CASE LoadRefused(p)
  <2>1. pc[p] = "load" /\ pc' = [pc EXCEPT ![p] = "off"]
    BY <1>7 DEF LoadRefused, Exit
  <2>2. \A q \in Procs : pc'[q] = "off"
    <3>1. \A q \in Procs : q # p => pc[q] = "off"
      BY <2>1 DEF CommitInv, LeaseExcludes
    <3> QED  BY <1>3, <2>1, <3>1 DEF TypeOK
  <2>3. CarriedInv'
    BY <2>2 DEF CarriedInv
  <2> QED  BY <1>2, <1>6, <2>3 DEF CommitInv
<1>8. CASE Load(p)
  <2>1. \A q \in Procs : q # p => pc'[q] = "off"
    <3>1. \A q \in Procs : q # p => pc'[q] = pc[q]
      BY <1>3, <1>8 DEF Load, TypeOK
    <3>2. \A q \in Procs : q # p => pc[q] = "off"
      BY <1>8 DEF Load, CommitInv, LeaseExcludes
    <3> QED  BY <3>1, <3>2
  <2>2. pc'[p] # "mark" /\ seq'[p] = Rebuilt.seq + 1
    BY <1>3, <1>8 DEF Load, TypeOK
  <2>3. SeqIsNext(p)'
    <3>1. CASE Committed = {}
      BY <1>1, <1>4, <2>2, <3>1 DEF SeqIsNext, NoMark
    <3>2. CASE Committed # {}
      <4>1. \A v \in Committed : receipts[v].last < seq'[p]
        BY <1>4, <1>5, <2>2, <3>2
      <4>2. \E v \in Committed : receipts[v].last + 1 = seq'[p]
        BY <1>4, <2>2, <3>2
      <4> QED  BY <1>1, <4>1, <4>2 DEF SeqIsNext
    <3> QED  BY <3>1, <3>2
  <2>4. ASSUME pc'[p] \in {"window", "provenance", "sync", "receipt"}, Committed # {}
        PROVE  /\ mark'.win \in Committed /\ mark'.win + 1 = cursor'[p]
               /\ \A v \in Committed : v < cursor'[p]
    <3>1. Ready(view[p], t[p]) # {}
      BY <1>3, <1>8, <2>4 DEF Load, TypeOK
    <3>2. cursor'[p] = FirstOpen(view[p])
      BY <1>3, <1>8, <3>1 DEF Load, TypeOK
    <3>3. view[p] \in SUBSET Segment /\ t[p] \in Nat
      BY <1>3 DEF TypeOK
    <3>4. FirstOpen(view[p]) = Newest + 1
      BY <1>3, <2>4, <3>1, <3>3, ReadyFacts
    <3> QED  BY <1>1, <1>4, <1>5, <2>4, <3>2, <3>4
  <2>5. CarriedInv'
    BY <1>1, <2>1, <2>2, <2>3, <2>4 DEF CarriedInv
  <2> QED  BY <1>2, <1>6, <2>5 DEF CommitInv
<1> QED  BY <1>7, <1>8

\* Watermark::advance after the receipt keeps the inductive invariant.
LEMMA MarkStep ==
    ASSUME CommitInv, TypeOK', LeaseExcludes', NEW p \in Procs, WriteMark(p)
    PROVE  CommitInv'
<1>1. /\ receipts' = receipts /\ Committed' = Committed
      /\ mark' = [win |-> cursor[p], seq |-> seq[p] - 1]
      /\ pc[p] = "mark" /\ seq' = seq
  BY DEF WriteMark, Committed
<1>2. NewestExists' /\ HighestExists' /\ CanonicalChain'
  BY <1>1 DEF CommitInv, NewestExists, HighestExists, CanonicalChain
<1>3. /\ SeqIsNext(p)
      /\ cursor[p] \in Committed /\ \A v \in Committed : v <= cursor[p]
  BY <1>1 DEF CommitInv, CarriedInv
<1>4. /\ Committed \subseteq Nat /\ cursor[p] \in Nat /\ seq[p] \in Nat \ {0}
      /\ \A v \in Committed : receipts[v].last \in Nat
      /\ cursor'[p] = cursor[p] + 1 /\ pc'[p] # "mark"
  BY DEF CommitInv, TypeOK, Receipt, WriteMark
<1>5. MarkNeverAhead'
  <2>1. /\ mark'.win = cursor[p] /\ mark'.seq = seq[p] - 1  BY <1>1
  <2>2. Committed \subseteq 0..(cursor[p] + 1)  BY <1>3, <1>4
  <2>3. \A w \in Committed : receipts[w].last <= seq[p] - 1
    <3>1. \A w \in Committed : receipts[w].last < seq[p]  BY <1>3 DEF SeqIsNext
    <3> QED  BY <1>4, <3>1
  <2>4. seq[p] - 1 = 0 \/ \E w \in Committed : w <= cursor[p] /\ receipts[w].last = seq[p] - 1
    BY <1>3, <1>4 DEF SeqIsNext
  <2> QED  BY <1>1, <1>3, <2>1, <2>2, <2>3, <2>4 DEF MarkNeverAhead
<1>6. CarriedInv'
  <2>1. \A q \in Procs : q # p => pc'[q] = "off"
    <3>1. \A q \in Procs : q # p => pc'[q] = pc[q]
      BY DEF WriteMark, CommitInv, TypeOK
    <3>2. \A q \in Procs : q # p => pc[q] = "off"
      BY <1>1 DEF CommitInv, LeaseExcludes
    <3> QED  BY <3>1, <3>2
  <2>2. SeqIsNext(p)'
    BY <1>1, <1>3 DEF SeqIsNext
  <2>3. /\ mark'.win \in Committed /\ mark'.win + 1 = cursor'[p]
        /\ \A v \in Committed : v < cursor'[p]
    BY <1>1, <1>3, <1>4
  <2> QED  BY <1>1, <1>4, <2>1, <2>2, <2>3 DEF CarriedInv
<1> QED  BY <1>2, <1>5, <1>6 DEF CommitInv

\* The inductive invariant holds of an empty canonical root.
LEMMA CommitInit == Init => CommitInv
<1> SUFFICES ASSUME Init PROVE CommitInv
  OBVIOUS
<1>1. TypeOK  BY TypeInit
<1>2. Committed = {}  BY DEF Init, Committed
<1> QED  BY <1>1, <1>2 DEF Init, CommitInv, LeaseExcludes, NewestExists, HighestExists,
                           CanonicalChain, CarriedInv, MarkNeverAhead

\* Every step of the specification keeps the inductive invariant, action by action
\* of sweep_once and its environment.
LEMMA CommitInvStep == CommitInv /\ [Next]_vars => CommitInv'
<1> SUFFICES ASSUME CommitInv, [Next]_vars PROVE CommitInv'
  OBVIOUS
<1>1. TypeOK' /\ LeaseExcludes'
  BY TypeStep, LeaseStep DEF CommitInv
<1>2. TypeOK  BY DEF CommitInv
<1>3. ASSUME NEW p \in Procs, WriteReceipt(p) PROVE CommitInv'
  BY <1>1, <1>3, ReceiptStep
<1>4. ASSUME NEW p \in Procs, Load(p) \/ LoadRefused(p) PROVE CommitInv'
  BY <1>1, <1>4, LoadStep
<1>5. ASSUME NEW p \in Procs, WriteMark(p) PROVE CommitInv'
  BY <1>1, <1>5, MarkStep
<1>6. ASSUME NEW p \in Procs, Start(p) \/ Stop(p) \/ Report(p) \/ Kill(p) PROVE CommitInv'
  <2>1. /\ receipts' = receipts /\ mark' = mark
        /\ pc'[p] \in {"off", "idle"}
        /\ \A q \in Procs : q # p => /\ pc'[q] = pc[q]
                                     /\ cursor'[q] = cursor[q] /\ seq'[q] = seq[q]
    BY <1>2, <1>6 DEF Start, Stop, Report, Kill, Exit, Forget, TypeOK, localVars, diskVars
  <2> QED  BY <1>1, <2>1, QuietStep
<1>7. ASSUME NEW p \in Procs, SampleClock(p) \/ Assemble(p) \/ Defer(p) PROVE CommitInv'
  <2>1. /\ receipts' = receipts /\ mark' = mark
        /\ pc'[p] \in {"assemble", "load", "report"}
        /\ \A q \in Procs : /\ q # p => pc'[q] = pc[q]
                            /\ cursor'[q] = cursor[q] /\ seq'[q] = seq[q]
    BY <1>2, <1>7 DEF SampleClock, Assemble, Defer, TypeOK, localVars, diskVars
  <2> QED  BY <1>1, <2>1, QuietStep
<1>8. ASSUME NEW p \in Procs, PublishEvidence(p) \/ PublishProvenance(p) \/ SyncOutputs(p)
      PROVE  CommitInv'
  <2>1. /\ receipts' = receipts /\ mark' = mark
        /\ pc[p] \in {"window", "provenance", "sync"}
        /\ pc'[p] \in {"provenance", "sync", "receipt"}
        /\ \A q \in Procs : /\ q # p => pc'[q] = pc[q]
                            /\ cursor'[q] = cursor[q] /\ seq'[q] = seq[q]
    BY <1>2, <1>8 DEF PublishEvidence, PublishProvenance, SyncOutputs, TypeOK, localVars
  <2> QED  BY <1>1, <2>1, QuietStep
<1>9. ASSUME PowerLoss PROVE CommitInv'
  <2>1. receipts' = receipts /\ mark' = mark /\ \A q \in Procs : pc'[q] = "off"
    BY <1>9 DEF PowerLoss
  <2> QED  BY <1>1, <2>1, QuietStep
<1>10. ASSUME ClearLease \/ Tick \/ UNCHANGED vars PROVE CommitInv'
  <2>1. /\ receipts' = receipts /\ mark' = mark
        /\ pc' = pc /\ cursor' = cursor /\ seq' = seq
    BY <1>10 DEF ClearLease, Tick, vars, localVars, diskVars
  <2> QED  BY <1>1, <2>1, QuietStep
<1>11. ASSUME NEW l \in Lanes, NEW w \in 0..MaxTime, NEW first \in 0..MaxIndex,
              NEW n \in 0..MaxRecords, NEW fault \in {"none", "seal", "record"},
              Seal(l, w, first, n, fault)
       PROVE  CommitInv'
  <2>1. /\ receipts' = receipts /\ mark' = mark
        /\ pc' = pc /\ cursor' = cursor /\ seq' = seq
    BY <1>11 DEF Seal, localVars, diskVars
  <2> QED  BY <1>1, <2>1, QuietStep
<1> QED
  BY <1>3, <1>4, <1>5, <1>6, <1>7, <1>8, <1>9, <1>10, <1>11 DEF Next, Step

-----------------------------------------------------------------------------
(* Theorems                                                                *)

\* Every reachable state satisfies the inductive invariant: no step of any
\* number of finalizers, kills and power losses leaves it (sweep_once).
THEOREM CommitInvariance == Spec => []CommitInv
<1>1. Init => CommitInv  BY CommitInit
<1>2. CommitInv /\ [Next]_vars => CommitInv'  BY CommitInvStep
<1> QED  BY <1>1, <1>2, PTL DEF Spec

\* Type correctness of the finalizer (sweep_once, finalize_window).
THEOREM TypeCorrect == Spec => []TypeOK
<1>1. CommitInv => TypeOK  BY DEF CommitInv
<1> QED  BY <1>1, CommitInvariance, PTL

\* At most one finalizer works on a canonical root (RootLease).
THEOREM LeaseIsExclusive == Spec => []LeaseExcludes
<1>1. CommitInv => LeaseExcludes  BY DEF CommitInv
<1> QED  BY <1>1, CommitInvariance, PTL

\* The chain check of load_or_rebuild never fails: the committed windows have no
\* hole and their canonical positions are dense in window order.
THEOREM ChainIsDense == Spec => []CanonicalChain
<1>1. CommitInv => CanonicalChain  BY DEF CommitInv
<1> QED  BY <1>1, CommitInvariance, PTL

\* The watermark never names a window or a position no receipt stands for
\* (Watermark::advance, load_or_rebuild).
THEOREM MarkIsDerived == Spec => []MarkNeverAhead
<1>1. CommitInv => MarkNeverAhead  BY DEF CommitInv
<1> QED  BY <1>1, CommitInvariance, PTL

\* A step of the finalizer either leaves the receipts alone or commits the next
\* window at the next positions (write_receipt).
LEMMA LogStep ==
    ASSUME CommitInv, [Next]_vars
    PROVE  receipts' = receipts \/ \E w \in DOMAIN receipts' : Log!Commit(w)
<1>1. ASSUME NEW p \in Procs, WriteReceipt(p)
      PROVE  \E w \in DOMAIN receipts' : Log!Commit(w)
  <2> DEFINE w == cursor[p]
             r == receipts'[w]
  <2>1. /\ w \notin Committed
        /\ Committed = {} \/ (w - 1) \in Committed
        /\ Committed' = Committed \cup {w}
        /\ \A v \in Committed : v < w /\ receipts'[v] = receipts[v]
        /\ \/ r.first = 0 /\ r.last = 0 /\ seq'[p] = seq[p]
           \/ r.first = seq[p] /\ r.last >= seq[p] /\ seq'[p] = r.last + 1
    BY <1>1, CommitStep
  <2>2. SeqIsNext(p)
    BY <1>1 DEF CommitInv, CarriedInv, WriteReceipt
  <2>3. \/ r.first = 0 /\ r.last = 0
        \/ Log!NextPosition(r.first) /\ r.first <= r.last
    <3>1. CASE r.first = 0 /\ r.last = 0  BY <3>1
    <3>2. CASE r.first = seq[p] /\ r.last >= seq[p]
      <4>1. Log!NextPosition(r.first)
        BY <2>2, <3>2 DEF SeqIsNext, Log!NextPosition, Committed
      <4>2. r.last \in Nat /\ seq[p] \in Nat
        BY <1>1, CommitStep DEF CommitInv, TypeOK, Receipt
      <4> QED  BY <3>2, <4>1, <4>2
    <3> QED  BY <2>1, <3>1, <3>2
  <2>4. Log!Commit(w)
    BY <2>1, <2>3 DEF Log!Commit, Committed
  <2> QED  BY <2>1, <2>4 DEF Committed
<1>2. ASSUME NEW p \in Procs, Start(p) \/ Stop(p) \/ Kill(p) PROVE receipts' = receipts
  BY <1>2 DEF Start, Stop, Kill, diskVars
<1>3. ASSUME NEW p \in Procs, Step(p), ~WriteReceipt(p) PROVE receipts' = receipts
  BY <1>3 DEF Step, SampleClock, Assemble, Load, LoadRefused, Defer, PublishEvidence,
              PublishProvenance, SyncOutputs, WriteMark, Report, diskVars
<1>4. ASSUME PowerLoss \/ ClearLease \/ Tick \/ UNCHANGED vars PROVE receipts' = receipts
  BY <1>4 DEF PowerLoss, ClearLease, Tick, vars, diskVars
<1>5. ASSUME NEW l \in Lanes, NEW w \in 0..MaxTime, NEW first \in 0..MaxIndex,
             NEW n \in 0..MaxRecords, NEW fault \in {"none", "seal", "record"},
             Seal(l, w, first, n, fault)
      PROVE  receipts' = receipts
  BY <1>5 DEF Seal, diskVars
<1> QED  BY <1>1, <1>2, <1>3, <1>4, <1>5 DEF Next

\* The finalizer implements the canonical log: what is committed is never changed,
\* and positions are handed out once, in window order (write_receipt).
THEOREM Refinement == Spec => ImplementsCanonicalLog
<1>1. Init => Log!Init  BY DEF Init, Log!Init
<1>2. CommitInv /\ [Next]_vars => [\E w \in DOMAIN receipts' : Log!Commit(w)]_receipts
  BY LogStep
<1> QED  BY <1>1, <1>2, CommitInvariance, PTL DEF Spec, ImplementsCanonicalLog, Log!Spec

-----------------------------------------------------------------------------
(* What the commit loop carries and publishes: deadlines, output files,     *)
(* delivery boundaries and the records of a lane.                           *)

-----------------------------------------------------------------------------
(* delivery_continuity: the fold of advance over the receipts              *)

\* The fold over receipts of windows up to n is defined: a function that obeys its
\* recursion exists (delivery_continuity).
LEMMA FoldExists ==
    ASSUME NEW R, DOMAIN R \subseteq Nat, NEW n \in Nat, \A w \in DOMAIN R : w <= n
    PROVE  \E f : f = [w \in Int |-> IF w \notin DOMAIN R THEN NoEdge
                                     ELSE Advanced(f[w - 1], R[w], w)]
<1> DEFINE Next1(g, w) == IF w \notin DOMAIN R THEN NoEdge ELSE Advanced(g[w - 1], R[w], w)
           Upto(m, g) == /\ DOMAIN g = Int /\ g = [w \in Int |-> g[w]]
                         /\ \A w \in Int : w <= m => g[w] = Next1(g, w)
                         /\ \A w \in Int : w > m => g[w] = NoEdge
           T == {m \in Nat : ~\E g : Upto(m, g)}
<1>1. T = {}
  <2> SUFFICES ASSUME T # {} PROVE FALSE
    OBVIOUS
  <2>1. PICK m \in T : \A k \in T : m <= k
    BY HasLeast
  <2>2. PICK h : Upto(m - 1, h)
    <3>1. CASE m = 0
      <4> DEFINE z == [w \in Int |-> NoEdge]
      <4>1. \A w \in Int : w <= -1 => w \notin DOMAIN R  OBVIOUS
      <4>2. Upto(-1, z)  BY <4>1
      <4> QED  BY <3>1, <4>2
    <3>2. CASE m # 0
      <4>1. (m - 1) \in Nat /\ (m - 1) \notin T  BY <2>1, <3>2
      <4> HIDE DEF Upto
      <4> QED  BY <4>1
    <3> QED  BY <3>1, <3>2
  <2> DEFINE g == [w \in Int |-> IF w = m THEN Next1(h, m) ELSE h[w]]
  <2>3. \A w \in Int : w <= m => g[w - 1] = h[w - 1]
    BY <2>1
  <2>4. \A w \in Int : w <= m => Next1(g, w) = Next1(h, w)
    BY <2>3
  <2>5. \A w \in Int : w <= m => g[w] = Next1(h, w)
    <3> SUFFICES ASSUME NEW w \in Int, w <= m PROVE g[w] = Next1(h, w)
      OBVIOUS
    <3> HIDE DEF Next1
    <3>1. CASE w = m  BY <2>1, <3>1
    <3>2. CASE w # m
      <4>1. w <= m - 1  BY <2>1, <3>2
      <4>2. h[w] = Next1(h, w)  BY <2>2, <4>1
      <4> QED  BY <3>2, <4>2
    <3> QED  BY <3>1, <3>2
  <2>6. \A w \in Int : w > m => g[w] = NoEdge
    BY <2>1, <2>2
  <2>7. Upto(m, g)
    <3> HIDE DEF Next1
    <3> QED  BY <2>4, <2>5, <2>6
  <2> HIDE DEF Upto, g
  <2> QED  BY <2>1, <2>7
<1>2. PICK f : Upto(n, f)
  <2> HIDE DEF Upto
  <2> QED  BY <1>1
<1>3. \A w \in Int : f[w] = Next1(f, w)
  <2>1. \A w \in Int : w > n => w \notin DOMAIN R  OBVIOUS
  <2> QED  BY <1>2, <2>1
<1>4. f = [w \in Int |-> Next1(f, w)]
  <2> HIDE DEF Next1
  <2> QED  BY <1>2, <1>3
<1> QED  BY <1>4

\* The boundary after a window is advance of the one before it (delivery_continuity).
LEMMA EdgeUnfolds ==
    ASSUME NEW R, DOMAIN R \subseteq Nat, NEW n \in Nat, \A w \in DOMAIN R : w <= n,
           NEW w \in Int
    PROVE  EdgeAfter(R, w) = IF w \notin DOMAIN R THEN NoEdge
                             ELSE Advanced(EdgeAfter(R, w - 1), R[w], w)
<1> DEFINE f == CHOOSE f : f = [v \in Int |-> IF v \notin DOMAIN R THEN NoEdge
                                             ELSE Advanced(f[v - 1], R[v], v)]
<1>1. f = [v \in Int |-> IF v \notin DOMAIN R THEN NoEdge
                         ELSE Advanced(f[v - 1], R[v], v)]
  BY FoldExists
<1>2. \A v : EdgeAfter(R, v) = f[v]
  BY DEF EdgeAfter
<1> HIDE DEF f
<1> QED  BY <1>1, <1>2

\* Receipts that agree up to window m fold to the same boundaries up to m: a new
\* commit leaves the earlier boundaries alone (delivery_continuity).
LEMMA EdgeStable ==
    ASSUME NEW R, DOMAIN R \subseteq Nat, NEW Q, DOMAIN Q \subseteq Nat,
           NEW n \in Nat, \A w \in DOMAIN R : w <= n, \A w \in DOMAIN Q : w <= n,
           NEW m \in Int,
           \A w \in Int : w <= m => /\ w \in DOMAIN R <=> w \in DOMAIN Q
                                    /\ w \in DOMAIN R => R[w] = Q[w],
           NEW v \in Int, v <= m
    PROVE  EdgeAfter(R, v) = EdgeAfter(Q, v)
<1>1. \A w \in Int : EdgeAfter(R, w) = IF w \notin DOMAIN R THEN NoEdge
                                       ELSE Advanced(EdgeAfter(R, w - 1), R[w], w)
  BY EdgeUnfolds
<1>2. \A w \in Int : EdgeAfter(Q, w) = IF w \notin DOMAIN Q THEN NoEdge
                                       ELSE Advanced(EdgeAfter(Q, w - 1), Q[w], w)
  BY EdgeUnfolds
<1> DEFINE T == {w \in Nat : w <= m /\ EdgeAfter(R, w) # EdgeAfter(Q, w)}
<1>3. \A w \in Int : w < 0 /\ w <= m => EdgeAfter(R, w) = EdgeAfter(Q, w)
  BY <1>1, <1>2
<1>4. T = {}
  <2> SUFFICES ASSUME T # {} PROVE FALSE
    OBVIOUS
  <2>1. PICK w \in T : \A k \in T : w <= k
    BY HasLeast
  <2>2. (w - 1) \in Int /\ w - 1 <= m /\ (w - 1) \notin T
    BY <2>1
  <2>3. EdgeAfter(R, w - 1) = EdgeAfter(Q, w - 1)
    BY <1>3, <2>2
  <2>4. EdgeAfter(R, w) = EdgeAfter(Q, w)
    BY <1>1, <1>2, <2>1, <2>3
  <2> QED  BY <2>1, <2>4
<1> QED  BY <1>3, <1>4

-----------------------------------------------------------------------------
(* The records of one lane in one window                                   *)

\* Segments of one lane and window as SpoolInv has them.
Numbered(S) ==
    /\ S \subseteq Segment
    /\ \A s \in S : s.last > 0 => 1 <= s.first /\ s.first <= s.last
    /\ \A a, b \in S : a.index = b.index => a = b

\* Contiguous segments are in delivery order: what delivery_is_contiguous checks
\* of neighbours holds of any two.
LEMMA LaneOrder ==
    ASSUME NEW S, Numbered(S), Contiguous(S),
           NEW c \in NonEmpty(S), NEW d \in NonEmpty(S), c.index < d.index
    PROVE  c.last < d.first
<1> DEFINE N == NonEmpty(S)
           T == {k \in Nat : \E a, b \in N : /\ k = b.index - a.index
                                            /\ a.index < b.index /\ ~(a.last < b.first)}
<1>1. \A a \in N : /\ a.index \in Nat /\ a.first \in Nat /\ a.last \in Nat
                   /\ 1 <= a.first /\ a.first <= a.last
  BY DEF NonEmpty, Numbered, Segment
<1>2. T = {}
  <2> SUFFICES ASSUME T # {} PROVE FALSE
    OBVIOUS
  <2>1. PICK k \in T : \A j \in T : k <= j
    BY HasLeast
  <2>2. PICK a \in N, b \in N : /\ k = b.index - a.index
                                /\ a.index < b.index /\ ~(a.last < b.first)
    BY <2>1
  <2>3. CASE ~\E m \in N : a.index < m.index /\ m.index < b.index
    <3>1. b.first = a.last + 1  BY <2>2, <2>3 DEF Contiguous
    <3> QED  BY <1>1, <2>2, <3>1
  <2>4. CASE \E m \in N : a.index < m.index /\ m.index < b.index
    <3>1. PICK m \in N : a.index < m.index /\ m.index < b.index
      BY <2>4
    <3>2. a.last < m.first
      <4>1. (m.index - a.index) \in Nat /\ m.index - a.index < k
        BY <1>1, <2>2, <3>1
      <4>2. (m.index - a.index) \notin T  BY <2>1, <4>1
      <4> QED  BY <3>1, <4>1, <4>2
    <3>3. m.last < b.first
      <4>1. (b.index - m.index) \in Nat /\ b.index - m.index < k
        BY <1>1, <2>2, <3>1
      <4>2. (b.index - m.index) \notin T  BY <2>1, <4>1
      <4> QED  BY <3>1, <4>1, <4>2
    <3> QED  BY <1>1, <2>2, <3>2, <3>3
  <2> QED  BY <2>3, <2>4
<1>3. (d.index - c.index) \in Nat  BY <1>1
<1> QED  BY <1>2, <1>3

\* Contiguous segments leave no record out between any two of them.
LEMMA LaneCovers ==
    ASSUME NEW S, Numbered(S), Contiguous(S),
           NEW c \in NonEmpty(S), NEW d \in NonEmpty(S), c.index <= d.index,
           NEW i \in c.first..d.last
    PROVE  \E s \in NonEmpty(S) : s.first <= i /\ i <= s.last
<1> DEFINE N == NonEmpty(S)
           Held == \E s \in N : s.first <= i /\ i <= s.last
           T == {k \in Nat : \E a, b \in N : /\ k = b.index - a.index
                                            /\ a.index <= b.index /\ i \in a.first..b.last}
<1> SUFFICES ASSUME ~Held PROVE FALSE
  OBVIOUS
<1>1. \A a \in N : /\ a.index \in Nat /\ a.first \in Nat /\ a.last \in Nat
                   /\ 1 <= a.first /\ a.first <= a.last
  BY DEF NonEmpty, Numbered, Segment
<1>2. (d.index - c.index) \in T  BY <1>1
<1>3. PICK k \in T : \A j \in T : k <= j
  BY <1>2, HasLeast
<1>4. PICK a \in N, b \in N : k = b.index - a.index /\ a.index <= b.index /\ i \in a.first..b.last
  BY <1>3
<1>5. CASE a.index = b.index
  <2>1. a = b  BY <1>5 DEF Numbered, NonEmpty
  <2> QED  BY <1>1, <1>4, <2>1
<1>6. CASE a.index < b.index /\ ~\E m \in N : a.index < m.index /\ m.index < b.index
  <2>1. b.first = a.last + 1  BY <1>6 DEF Contiguous
  <2> QED  BY <1>1, <1>4, <2>1
<1>7. CASE \E m \in N : a.index < m.index /\ m.index < b.index
  <2>1. PICK m \in N : a.index < m.index /\ m.index < b.index
    BY <1>7
  <2>2. CASE i <= m.last
    <3>1. (m.index - a.index) \in T  BY <1>1, <1>4, <2>1, <2>2
    <3> QED  BY <1>1, <1>3, <1>4, <2>1, <3>1
  <2>3. CASE i > m.last
    <3>1. i \in m.first..b.last  BY <1>1, <1>4, <2>3
    <3>2. (b.index - m.index) \in T  BY <1>1, <2>1, <3>1
    <3> QED  BY <1>1, <1>3, <1>4, <2>1, <3>2
  <2> QED  BY <1>1, <1>4, <2>2, <2>3
<1> QED  BY <1>1, <1>4, <1>5, <1>6, <1>7

\* The records of a lane's contiguous segments are the ones from its first delivery
\* index to its last (LaneSegments.first_delivery_index, last_delivery_index).
LEMMA LaneSpan ==
    ASSUME NEW S, Numbered(S), Contiguous(S), NonEmpty(S) # {},
           NEW n \in Nat, \A s \in S : s.index <= n
    PROVE  /\ FirstIndex(S) \in Nat /\ LastIndex(S) \in Nat
           /\ 1 <= FirstIndex(S) /\ FirstIndex(S) <= LastIndex(S)
           /\ \A i \in Int : (\E s \in NonEmpty(S) : s.first <= i /\ i <= s.last)
                                <=> i \in FirstIndex(S)..LastIndex(S)
<1> DEFINE N == NonEmpty(S)
           K == {s.index : s \in N}
<1>1. \A a \in N : /\ a.index \in Nat /\ a.first \in Nat /\ a.last \in Nat
                   /\ 1 <= a.first /\ a.first <= a.last /\ a.index <= n
  BY DEF NonEmpty, Numbered, Segment
<1>2. K \in SUBSET Nat /\ K # {} /\ \A k \in K : k <= n
  BY <1>1
<1>3. PICK k \in K : \A j \in K : k <= j
  BY <1>2, HasLeast
<1>4. PICK h \in K : \A j \in K : j <= h
  BY <1>2, HasGreatest
<1> DEFINE a == CHOOSE s \in N : \A o \in N : s.index <= o.index
           b == CHOOSE s \in N : \A o \in N : o.index <= s.index
<1>5. a \in N /\ \A o \in N : a.index <= o.index
  BY <1>3
<1>6. b \in N /\ \A o \in N : o.index <= b.index
  BY <1>4
<1>7. FirstIndex(S) = a.first /\ LastIndex(S) = b.last
  BY DEF FirstIndex, LastIndex
<1> HIDE DEF a, b
<1>8. \A s \in N : a.first <= s.first /\ s.last <= b.last
  <2> SUFFICES ASSUME NEW s \in N PROVE a.first <= s.first /\ s.last <= b.last
    OBVIOUS
  <2>1. a.first <= s.first
    <3>1. CASE a.index < s.index
      <4>1. a.last < s.first  BY <1>5, <3>1, LaneOrder
      <4> QED  BY <1>1, <1>5, <4>1
    <3>2. CASE a.index = s.index
      <4>1. a = s  BY <1>5, <3>2 DEF Numbered, NonEmpty
      <4> QED  BY <1>1, <4>1
    <3> QED  BY <1>1, <1>5, <3>1, <3>2
  <2>2. s.last <= b.last
    <3>1. CASE s.index < b.index
      <4>1. s.last < b.first  BY <1>6, <3>1, LaneOrder
      <4> QED  BY <1>1, <1>6, <4>1
    <3>2. CASE s.index = b.index
      <4>1. s = b  BY <1>6, <3>2 DEF Numbered, NonEmpty
      <4> QED  BY <1>1, <4>1
    <3> QED  BY <1>1, <1>6, <3>1, <3>2
  <2> QED  BY <2>1, <2>2
<1>9. ASSUME NEW i \in Int
      PROVE  (\E s \in N : s.first <= i /\ i <= s.last) <=> i \in a.first..b.last
  <2>1. ASSUME NEW s \in N, s.first <= i, i <= s.last PROVE i \in a.first..b.last
    BY <1>1, <1>5, <1>6, <1>8, <2>1
  <2>2. ASSUME i \in a.first..b.last PROVE \E s \in N : s.first <= i /\ i <= s.last
    BY <1>5, <1>6, <2>2, LaneCovers
  <2> QED  BY <2>1, <2>2
<1>10. a.first \in Nat /\ b.last \in Nat /\ 1 <= a.first /\ a.first <= b.last
  BY <1>1, <1>5, <1>6, <1>8
<1> QED  BY <1>7, <1>9, <1>10

-----------------------------------------------------------------------------
(* Frames                                                                  *)

\* While one process is past RootLease::acquire, every other one is off.
LEMMA OthersOff ==
    ASSUME CommitInv, NEW p \in Procs, pc[p] # "off"
    PROVE  \A q \in Procs : q # p => pc[q] = "off"
BY DEF CommitInv, LeaseExcludes

\* What a commit does to the boundaries: the earlier ones stay, the new window's is
\* the one the loop carries on (write_receipt, delivery_continuity).
LEMMA EdgeCommit ==
    ASSUME CommitInv, EdgeInv, NEW p \in Procs, WriteReceipt(p)
    PROVE  /\ EdgeAfter(receipts, cursor[p] - 1) = edge[p]
           /\ \A u \in Int : u < cursor[p] => EdgeAfter(receipts', u) = EdgeAfter(receipts, u)
           /\ EdgeAfter(receipts', cursor[p]) = edge'[p]
           /\ edge'[p] = Advanced(edge[p], receipts'[cursor[p]], cursor[p])
           /\ Rebuilt'.win = cursor[p]
<1> DEFINE w == cursor[p]
<1>1. /\ Committed' = Committed \cup {w} /\ w \notin Committed
      /\ Committed = {} \/ (w - 1) \in Committed
      /\ \A v \in Committed : v < w /\ receipts'[v] = receipts[v]
  BY CommitStep
<1>2. w \in Nat /\ Committed \subseteq Nat  BY DEF CommitInv, TypeOK
<1>3. /\ DOMAIN receipts \subseteq Nat /\ \A v \in DOMAIN receipts : v <= w
      /\ DOMAIN receipts' \subseteq Nat /\ \A v \in DOMAIN receipts' : v <= w
  BY <1>1, <1>2 DEF Committed
<1>4. Newest' = w
  <2>1. w \in Committed' /\ \A v \in Committed' : v <= w
    BY <1>1, <1>2
  <2>2. Newest' \in Committed' /\ \A v \in Committed' : v <= Newest'
    BY <2>1 DEF Newest
  <2> QED  BY <1>1, <1>2, <2>1, <2>2
<1>5. Rebuilt'.win = w
  BY <1>1, <1>4 DEF Rebuilt
<1>6. EdgeAfter(receipts, w - 1) = edge[p]
  <2>1. edge[p] = EdgeAfter(receipts, Rebuilt.win)
    BY DEF EdgeInv, WriteReceipt, Looping
  <2>2. CASE Committed = {}
    <3>1. Rebuilt.win = -1  BY <2>2 DEF Rebuilt, NoMark
    <3>2. \A u \in Int : EdgeAfter(receipts, u) = NoEdge
      BY <1>2, <1>3, <2>2, EdgeUnfolds DEF Committed
    <3> QED  BY <1>2, <2>1, <3>1, <3>2
  <2>3. CASE Committed # {}
    <3>1. /\ Newest \in Committed /\ Rebuilt.win = Newest
          /\ \A v \in Committed : v <= Newest
      BY <2>3, RebuiltFacts DEF CommitInv
    <3>2. Newest = w - 1  BY <1>1, <1>2, <2>3, <3>1
    <3> QED  BY <2>1, <3>1, <3>2
  <2> QED  BY <2>2, <2>3
<1>7. ASSUME NEW u \in Int, u < w PROVE EdgeAfter(receipts', u) = EdgeAfter(receipts, u)
  <2>1. \A v \in Int : v <= w - 1 => /\ v \in DOMAIN receipts' <=> v \in DOMAIN receipts
                                     /\ v \in DOMAIN receipts' => receipts'[v] = receipts[v]
    BY <1>1, <1>2 DEF Committed
  <2>2. u <= w - 1 /\ (w - 1) \in Int  BY <1>2, <1>7
  <2> QED  BY <1>2, <1>3, <2>1, <2>2, EdgeStable
<1>8. EdgeAfter(receipts', w) = Advanced(EdgeAfter(receipts', w - 1), receipts'[w], w)
  <2>1. w \in DOMAIN receipts'  BY <1>1 DEF Committed
  <2> QED  BY <1>2, <1>3, <2>1, EdgeUnfolds
<1>9. EdgeAfter(receipts', w) = Advanced(edge[p], receipts'[w], w)
  <2>1. EdgeAfter(receipts', w - 1) = EdgeAfter(receipts, w - 1)
    BY <1>2, <1>7
  <2> QED  BY <1>6, <1>8, <2>1
<1>10. edge'[p] = Advanced(edge[p], receipts'[w], w)
  <2> DEFINE r == ReceiptOf(view[p], cursor[p], edge[p], seq[p], t[p])
  <2>1. /\ receipts' = Put(receipts, w, r)
        /\ edge' = [edge EXCEPT ![p] = Advanced(edge[p], r, w)]
    BY DEF WriteReceipt
  <2> HIDE DEF r
  <2>2. receipts'[w] = r  BY <2>1 DEF Put
  <2> QED  BY <2>1, <2>2 DEF CommitInv, TypeOK
<1> QED  BY <1>5, <1>6, <1>7, <1>9, <1>10

\* A step that changes no receipt or output file and nothing a process in the commit
\* loop carries.
Quiet ==
    /\ receipts' = receipts
    /\ evidence' = evidence /\ provenance' = provenance /\ synced' = synced
    /\ \A q \in Procs : pc'[q] \in Looping =>
          /\ pc'[q] = pc[q]
          /\ t'[q] = t[q] /\ view'[q] = view[q] /\ cursor'[q] = cursor[q]
          /\ limit'[q] = limit[q] /\ seq'[q] = seq[q] /\ edge'[q] = edge[q]

\* The steps of sweep_once that matter to the commit loop; every other step of the
\* system is quiet.
LEMMA StepKinds ==
    ASSUME TypeOK, [Next]_vars
    PROVE  \/ Quiet \/ PowerLoss
           \/ \E p \in Procs : \/ Load(p) \/ PublishEvidence(p) \/ PublishProvenance(p)
                               \/ SyncOutputs(p) \/ WriteReceipt(p) \/ WriteMark(p)
<1>1. ASSUME NEW p \in Procs, Start(p) \/ Stop(p) \/ Kill(p) PROVE Quiet
  BY <1>1 DEF Start, Stop, Kill, Exit, Forget, TypeOK, Quiet, Looping, localVars, diskVars,
              outputVars
<1>2. ASSUME NEW p \in Procs, SampleClock(p) \/ Assemble(p) \/ Defer(p) PROVE Quiet
  BY <1>2 DEF SampleClock, Assemble, Defer, TypeOK, Quiet, Looping, localVars, diskVars,
              outputVars
<1>3. ASSUME NEW p \in Procs, LoadRefused(p) \/ Report(p) PROVE Quiet
  BY <1>3 DEF LoadRefused, Report, Exit, Forget, TypeOK, Quiet, Looping, diskVars, outputVars
<1>4. ASSUME ClearLease \/ Tick \/ UNCHANGED vars PROVE Quiet
  BY <1>4 DEF ClearLease, Tick, vars, Quiet, localVars, diskVars, outputVars
<1>5. ASSUME NEW l \in Lanes, NEW w \in 0..MaxTime, NEW first \in 0..MaxIndex,
             NEW n \in 0..MaxRecords, NEW fault \in {"none", "seal", "record"},
             Seal(l, w, first, n, fault)
      PROVE  Quiet
  BY <1>5 DEF Seal, Quiet, localVars, diskVars, outputVars
<1> QED  BY <1>1, <1>2, <1>3, <1>4, <1>5 DEF Next, Step

-----------------------------------------------------------------------------
(* Deadlines                                                               *)

\* Every window of a ready prefix is over by the clock the sweep sampled, and the
\* prefix starts at the window the loop starts at (ready_windows, eligibility).
LEMMA ReadyEnded ==
    ASSUME TypeOK, NewestExists, NEW S \in SUBSET Segment, NEW at \in Nat,
           Ready(S, at) # {}, NEW last,
           last = CHOOSE w \in Ready(S, at) : \A v \in Ready(S, at) : v <= w
    PROVE  /\ FirstOpen(S) <= last
           /\ \A v \in FirstOpen(S)..last : WindowEnd(v) <= at
<1>1. FirstOpen(S) \in Nat /\ last \in Nat /\ last \in Ready(S, at)
  BY ReadyFacts
<1>2. ~NothingToTile(S, at)
  BY <1>1 DEF Ready
<1>3. /\ last \in FirstOpen(S)..LastOpen(S, at)
      /\ \A v \in FirstOpen(S)..last : Eligible(S, v, at)
  BY <1>1, <1>2 DEF Ready
<1>4. ASSUME NEW v \in FirstOpen(S)..last PROVE WindowEnd(v) <= at
  <2>1. WindowEnd(v) \in Int
    BY <1>1, FinalizerAssumption DEF WindowEnd
  <2>2. at >= WindowEnd(v)
    BY <1>3 DEF Eligible
  <2> QED  BY <2>1, <2>2
<1>5. FirstOpen(S) <= last
  BY <1>1, <1>3
<1> QED  BY <1>4, <1>5

\* The commit loop stays inside its ready prefix, and no step between the merge and
\* the receipt can make the window short again (sweep_once, finalize_window).
LEMMA EndedStep ==
    ASSUME CommitInv, EndedInv, [Next]_vars
    PROVE  EndedInv'
<1>0. TypeOK /\ NewestExists  BY DEF CommitInv
<1>1. CASE Quiet
  BY <1>1 DEF Quiet, EndedInv, Short, Looping
<1>2. CASE PowerLoss
  BY <1>2 DEF PowerLoss, EndedInv, Looping
<1>3. ASSUME NEW p \in Procs, Load(p) PROVE EndedInv'
  <2>1. \A q \in Procs : q # p => pc'[q] = "off"
    BY <1>0, <1>3, OthersOff DEF Load, TypeOK
  <2>2. pc'[p] \in {"report", "window"}
    BY <1>0, <1>3 DEF Load, TypeOK
  <2>3. CASE pc'[p] = "report"
    BY <2>1, <2>3 DEF EndedInv, Looping
  <2>4. CASE pc'[p] = "window"
    <3>1. Ready(view[p], t[p]) # {}
      BY <1>0, <1>3, <2>4 DEF Load, TypeOK
    <3>2. /\ cursor'[p] = FirstOpen(view[p]) /\ t' = t
          /\ limit'[p] = CHOOSE w \in Ready(view[p], t[p]) : \A v \in Ready(view[p], t[p]) : v <= w
      BY <1>0, <1>3, <3>1 DEF Load, TypeOK
    <3>3. view[p] \in SUBSET Segment /\ t[p] \in Nat
      BY <1>0 DEF TypeOK
    <3>4. /\ FirstOpen(view[p]) <= limit'[p]
          /\ \A v \in FirstOpen(view[p])..limit'[p] : WindowEnd(v) <= t[p]
      BY <1>0, <3>1, <3>2, <3>3, ReadyEnded
    <3> QED  BY <2>1, <2>4, <3>2, <3>4 DEF EndedInv, Looping, WindowEnd
  <2> QED  BY <2>2, <2>3, <2>4
<1>4. ASSUME NEW p \in Procs, PublishEvidence(p) \/ PublishProvenance(p) \/ SyncOutputs(p)
      PROVE  EndedInv'
  <2>1. /\ t' = t /\ view' = view /\ cursor' = cursor /\ limit' = limit /\ edge' = edge
        /\ pc[p] \in Looping
        /\ pc[p] = "window" => ~Short(p)
        /\ \A q \in Procs : q # p => pc'[q] = pc[q]
    BY <1>0, <1>4 DEF PublishEvidence, PublishProvenance, SyncOutputs, TypeOK, localVars,
                      Looping
  <2>2. pc[p] \in {"window", "provenance", "sync"}
    BY <1>4 DEF PublishEvidence, PublishProvenance, SyncOutputs
  <2> QED  BY <2>1, <2>2 DEF EndedInv, Short, Looping
<1>5. ASSUME NEW p \in Procs, WriteReceipt(p) PROVE EndedInv'
  <2>1. /\ t' = t /\ cursor' = cursor /\ limit' = limit
        /\ pc[p] = "receipt" /\ pc'[p] = "mark"
        /\ \A q \in Procs : q # p => pc'[q] = "off"
    BY <1>0, <1>5, OthersOff DEF WriteReceipt, TypeOK
  <2> QED  BY <2>1 DEF EndedInv, Looping
<1>6. ASSUME NEW p \in Procs, WriteMark(p) PROVE EndedInv'
  <2>1. /\ t' = t /\ cursor'[p] = cursor[p] + 1 /\ limit' = limit
        /\ pc[p] = "mark"
        /\ pc'[p] = IF cursor[p] < limit[p] THEN "window" ELSE "report"
        /\ cursor[p] \in Nat /\ limit[p] \in Nat
        /\ \A q \in Procs : q # p => pc'[q] = "off"
    BY <1>0, <1>6, OthersOff DEF WriteMark, TypeOK
  <2>2. \A v \in cursor[p]..limit[p] : WindowEnd(v) <= t[p]
    BY <2>1 DEF EndedInv, Looping
  <2>3. cursor[p] < limit[p] =>
            /\ cursor'[p] <= limit[p]
            /\ \A v \in cursor'[p]..limit[p] : WindowEnd(v) <= t[p]
    BY <2>1, <2>2
  <2> QED  BY <2>1, <2>3 DEF EndedInv, Looping, WindowEnd
<1> QED  BY <1>0, <1>1, <1>2, <1>3, <1>4, <1>5, <1>6, StepKinds

\* A receipt is written only once its window is over, and without an expected lane
\* only after the deadline (eligibility, finalize_window).
LEMMA DeadlineStep ==
    ASSUME CommitInv, EndedInv, IncompleteOnlyAfterDeadline, [Next]_vars
    PROVE  IncompleteOnlyAfterDeadline'
<1>1. CASE receipts' = receipts
  BY <1>1 DEF IncompleteOnlyAfterDeadline, Committed, WindowEnd
<1>2. ASSUME NEW p \in Procs, WriteReceipt(p) PROVE IncompleteOnlyAfterDeadline'
  <2> DEFINE w == cursor[p]
             r == ReceiptOf(view[p], cursor[p], edge[p], seq[p], t[p])
  <2>1. /\ Committed' = Committed \cup {w}
        /\ \A v \in Committed : receipts'[v] = receipts[v]
    BY <1>2, CommitStep
  <2>2. receipts'[w] = r
    BY <1>2 DEF WriteReceipt, Put
  <2>3. r.at = t[p] /\ r.complete = (Expected \subseteq MergedLanes(view[p], w, edge[p]))
    BY DEF ReceiptOf
  <2>4. w \in Nat /\ t[p] \in Nat /\ WindowEnd(w) \in Int /\ Deadline \in Nat
    BY FinalizerAssumption DEF CommitInv, TypeOK, WindowEnd
  <2>5. w <= limit[p] /\ limit[p] \in Nat /\ \A v \in w..limit[p] : WindowEnd(v) <= t[p]
    BY <1>2 DEF EndedInv, Looping, WriteReceipt, CommitInv, TypeOK
  <2>6. t[p] >= WindowEnd(w)
    BY <2>4, <2>5
  <2>7. ~Short(p)
    BY <1>2 DEF EndedInv, WriteReceipt
  <2>8. ~r.complete => t[p] >= WindowEnd(w) + Deadline
    <3>1. ~r.complete => ~(Expected \subseteq MergedLanes(view[p], w, edge[p]))
      BY <2>3, Zenon
    <3>2. ~r.complete => ~(t[p] < WindowEnd(w) + Deadline)
      BY <2>7, <3>1, Zenon DEF Short
    <3> QED  BY <2>4, <3>2
  <2> HIDE DEF r
  <2> QED  BY <2>1, <2>2, <2>3, <2>6, <2>8 DEF IncompleteOnlyAfterDeadline, WindowEnd
<1>3. receipts' = receipts \/ \E p \in Procs : WriteReceipt(p)
  <2>1. TypeOK  BY DEF CommitInv
  <2> QED  BY <2>1, StepKinds DEF Quiet, PowerLoss, Load, PublishEvidence, PublishProvenance,
                                  SyncOutputs, WriteMark
<1> QED  BY <1>1, <1>2, <1>3

-----------------------------------------------------------------------------
(* Output files                                                            *)

\* The window the commit loop is publishing has no receipt yet (sweep_once).
LEMMA CursorIsOpen ==
    ASSUME CommitInv, NEW p \in Procs, pc[p] \in {"window", "provenance", "sync", "receipt"}
    PROVE  cursor[p] \notin Committed
<1>1. cursor[p] \in Nat  BY DEF CommitInv, TypeOK
<1>2. \A v \in Committed : v < cursor[p]  BY DEF CommitInv, CarriedInv
<1> QED  BY <1>1, <1>2

\* The files of committed windows stay what their receipts say, whatever order the
\* renames, the fsync, the receipt and a power loss come in (finalize_window).
LEMMA OutputsStep ==
    ASSUME CommitInv, OutputsInv, [Next]_vars
    PROVE  OutputsInv'
<1>0. TypeOK  BY DEF CommitInv
<1>1. CASE Quiet
  <2>1. /\ receipts' = receipts
        /\ evidence' = evidence /\ provenance' = provenance /\ synced' = synced
    BY <1>1 DEF Quiet
  <2>2. /\ EvidenceMatches(evidence)' /\ EvidenceMatches(synced.evidence)'
        /\ ProvenanceMatches(provenance)' /\ ProvenanceMatches(synced.provenance)'
    BY <2>1 DEF OutputsInv, EvidenceMatches, ProvenanceMatches, Committed
  <2> QED  BY <1>1, <2>1, <2>2 DEF Quiet, OutputsInv, Looping
<1>2. CASE PowerLoss
  <2>1. /\ receipts' = receipts /\ \A q \in Procs : pc'[q] = "off"
        /\ evidence' \in {evidence, synced.evidence}
        /\ provenance' \in {provenance, synced.provenance}
        /\ synced'.evidence = evidence' /\ synced'.provenance = provenance'
    BY <1>2 DEF PowerLoss
  <2>2. EvidenceMatches(evidence)' /\ ProvenanceMatches(provenance)'
    BY <2>1 DEF OutputsInv, EvidenceMatches, ProvenanceMatches, Committed
  <2>3. EvidenceMatches(synced.evidence)' /\ ProvenanceMatches(synced.provenance)'
    BY <2>1, <2>2 DEF EvidenceMatches, ProvenanceMatches
  <2> QED  BY <2>1, <2>2, <2>3 DEF OutputsInv
<1>3. ASSUME NEW p \in Procs, Load(p) \/ WriteMark(p) PROVE OutputsInv'
  <2>1. /\ receipts' = receipts
        /\ evidence' = evidence /\ provenance' = provenance /\ synced' = synced
        /\ pc'[p] \in {"window", "report"}
        /\ \A q \in Procs : q # p => pc'[q] = "off"
    BY <1>0, <1>3, OthersOff DEF Load, WriteMark, TypeOK, outputVars
  <2>2. /\ EvidenceMatches(evidence)' /\ EvidenceMatches(synced.evidence)'
        /\ ProvenanceMatches(provenance)' /\ ProvenanceMatches(synced.provenance)'
    BY <2>1 DEF OutputsInv, EvidenceMatches, ProvenanceMatches, Committed
  <2> QED  BY <2>1, <2>2 DEF OutputsInv
<1>4. ASSUME NEW p \in Procs, PublishEvidence(p) PROVE OutputsInv'
  <2>1. /\ receipts' = receipts /\ provenance' = provenance /\ synced' = synced
        /\ evidence' = Put(evidence, cursor[p], Inputs(view[p], cursor[p], edge[p]))
        /\ view' = view /\ cursor' = cursor /\ edge' = edge
        /\ pc[p] = "window" /\ pc'[p] = "provenance"
        /\ \A q \in Procs : q # p => pc'[q] = "off"
    BY <1>0, <1>4, OthersOff DEF PublishEvidence, TypeOK, localVars
  <2>2. cursor[p] \notin Committed
    BY <2>1, CursorIsOpen
  <2>3. /\ cursor[p] \in DOMAIN evidence'
        /\ evidence'[cursor[p]] = Inputs(view[p], cursor[p], edge[p])
        /\ \A w \in DOMAIN evidence : w \in DOMAIN evidence'
        /\ \A w \in DOMAIN evidence : w # cursor[p] => evidence'[w] = evidence[w]
    BY <2>1 DEF Put
  <2>4. EvidenceMatches(evidence)'
    BY <2>1, <2>2, <2>3 DEF OutputsInv, EvidenceMatches, Committed
  <2>5. /\ EvidenceMatches(synced.evidence)'
        /\ ProvenanceMatches(provenance)' /\ ProvenanceMatches(synced.provenance)'
    BY <2>1 DEF OutputsInv, EvidenceMatches, ProvenanceMatches, Committed
  <2> QED  BY <2>1, <2>3, <2>4, <2>5 DEF OutputsInv
<1>5. ASSUME NEW p \in Procs, PublishProvenance(p) PROVE OutputsInv'
  <2> DEFINE new == [inputs |-> Inputs(view[p], cursor[p], edge[p]), from |-> seq[p]]
  <2>1. /\ receipts' = receipts /\ evidence' = evidence /\ synced' = synced
        /\ provenance' = Put(provenance, cursor[p], new)
        /\ view' = view /\ cursor' = cursor /\ edge' = edge /\ seq' = seq
        /\ pc[p] = "provenance" /\ pc'[p] = "sync"
        /\ \A q \in Procs : q # p => pc'[q] = "off"
    BY <1>0, <1>5, OthersOff DEF PublishProvenance, TypeOK, localVars
  <2>2. cursor[p] \notin Committed
    BY <2>1, CursorIsOpen
  <2>3. /\ cursor[p] \in DOMAIN provenance' /\ provenance'[cursor[p]] = new
        /\ \A w \in DOMAIN provenance : w \in DOMAIN provenance'
        /\ \A w \in DOMAIN provenance : w # cursor[p] => provenance'[w] = provenance[w]
    <3> HIDE DEF new
    <3> QED  BY <2>1 DEF Put
  <2>4. ProvenanceMatches(provenance)'
    BY <2>1, <2>2, <2>3 DEF OutputsInv, ProvenanceMatches, Committed
  <2>5. /\ EvidenceMatches(evidence)' /\ EvidenceMatches(synced.evidence)'
        /\ ProvenanceMatches(synced.provenance)'
    BY <2>1 DEF OutputsInv, EvidenceMatches, ProvenanceMatches, Committed
  <2> QED  BY <2>1, <2>3, <2>4, <2>5 DEF OutputsInv
<1>6. ASSUME NEW p \in Procs, SyncOutputs(p) PROVE OutputsInv'
  <2>1. /\ receipts' = receipts /\ evidence' = evidence /\ provenance' = provenance
        /\ synced'.evidence = evidence /\ synced'.provenance = provenance
        /\ view' = view /\ cursor' = cursor /\ edge' = edge /\ seq' = seq
        /\ pc[p] = "sync" /\ pc'[p] = "receipt"
        /\ \A q \in Procs : q # p => pc'[q] = "off"
    BY <1>0, <1>6, OthersOff DEF SyncOutputs, TypeOK, localVars
  <2>2. /\ EvidenceMatches(evidence)' /\ EvidenceMatches(synced.evidence)'
        /\ ProvenanceMatches(provenance)' /\ ProvenanceMatches(synced.provenance)'
    BY <2>1 DEF OutputsInv, EvidenceMatches, ProvenanceMatches, Committed
  <2> QED  BY <2>1, <2>2 DEF OutputsInv
<1>7. ASSUME NEW p \in Procs, WriteReceipt(p) PROVE OutputsInv'
  <2> DEFINE w == cursor[p]
             r == ReceiptOf(view[p], cursor[p], edge[p], seq[p], t[p])
  <2>1. /\ evidence' = evidence /\ provenance' = provenance /\ synced' = synced
        /\ pc[p] = "receipt" /\ pc'[p] = "mark"
        /\ \A q \in Procs : q # p => pc'[q] = "off"
    BY <1>0, <1>7, OthersOff DEF WriteReceipt, TypeOK, outputVars
  <2>2. /\ Committed' = Committed \cup {w}
        /\ \A v \in Committed : receipts'[v] = receipts[v]
        /\ receipts'[w].first = 0 \/ receipts'[w].first = seq[p]
    BY <1>7, CommitStep
  <2>3. receipts'[w].inputs = Inputs(view[p], w, edge[p])
    <3>1. receipts'[w] = r  BY <1>7 DEF WriteReceipt, Put
    <3>2. r.inputs = Inputs(view[p], w, edge[p])  BY DEF ReceiptOf
    <3> QED  BY <3>1, <3>2
  <2>4. /\ w \in DOMAIN evidence /\ evidence[w] = Inputs(view[p], w, edge[p])
        /\ w \in DOMAIN provenance
        /\ provenance[w].inputs = Inputs(view[p], w, edge[p])
        /\ provenance[w].from = seq[p]
        /\ synced.evidence = evidence /\ synced.provenance = provenance
    <3> DEFINE made == [inputs |-> Inputs(view[p], w, edge[p]), from |-> seq[p]]
    <3>1. /\ w \in DOMAIN evidence /\ evidence[w] = Inputs(view[p], w, edge[p])
          /\ w \in DOMAIN provenance /\ provenance[w] = made
          /\ synced.evidence = evidence /\ synced.provenance = provenance
      BY <2>1 DEF OutputsInv
    <3>2. made.inputs = Inputs(view[p], w, edge[p]) /\ made.from = seq[p]
      OBVIOUS
    <3> HIDE DEF made
    <3> QED  BY <3>1, <3>2
  <2>5. EvidenceMatches(evidence)' /\ EvidenceMatches(synced.evidence)'
    BY <2>1, <2>2, <2>3, <2>4 DEF OutputsInv, EvidenceMatches
  <2>6. ProvenanceMatches(provenance)' /\ ProvenanceMatches(synced.provenance)'
    BY <2>1, <2>2, <2>3, <2>4 DEF OutputsInv, ProvenanceMatches
  <2> QED  BY <2>1, <2>5, <2>6 DEF OutputsInv
<1> QED  BY <1>0, <1>1, <1>2, <1>3, <1>4, <1>5, <1>6, <1>7, StepKinds

-----------------------------------------------------------------------------
(* Delivery boundaries                                                     *)

\* The commit loop carries the boundaries a restart would fold out of the receipts
\* (sweep_once, delivery_continuity).
LEMMA EdgeStep ==
    ASSUME CommitInv, EdgeInv, [Next]_vars
    PROVE  EdgeInv'
<1>0. TypeOK  BY DEF CommitInv
<1>1. CASE Quiet
  BY <1>1 DEF Quiet, EdgeInv, Rebuilt, Newest, Highest, Committed
<1>2. CASE PowerLoss
  BY <1>2 DEF PowerLoss, EdgeInv, Looping
<1>3. ASSUME NEW p \in Procs, Load(p) PROVE EdgeInv'
  <2>1. /\ receipts' = receipts /\ edge'[p] = EdgeAfter(receipts, Rebuilt.win)
        /\ \A q \in Procs : q # p => pc'[q] = "off"
    BY <1>0, <1>3, OthersOff DEF Load, TypeOK
  <2>2. Rebuilt' = Rebuilt
    BY <2>1 DEF Rebuilt, Newest, Highest, Committed
  <2> QED  BY <2>1, <2>2 DEF EdgeInv, Looping
<1>4. ASSUME NEW p \in Procs, PublishEvidence(p) \/ PublishProvenance(p) \/ SyncOutputs(p)
                              \/ WriteMark(p)
      PROVE  EdgeInv'
  <2>1. /\ receipts' = receipts /\ edge' = edge /\ pc[p] \in Looping
        /\ \A q \in Procs : q # p => pc'[q] = "off"
    BY <1>0, <1>4, OthersOff DEF PublishEvidence, PublishProvenance, SyncOutputs, WriteMark,
                                 TypeOK, localVars, Looping
  <2>2. Rebuilt' = Rebuilt
    BY <2>1 DEF Rebuilt, Newest, Highest, Committed
  <2> QED  BY <2>1, <2>2 DEF EdgeInv, Looping
<1>5. ASSUME NEW p \in Procs, WriteReceipt(p) PROVE EdgeInv'
  <2>1. \A q \in Procs : q # p => pc'[q] = "off"
    BY <1>0, <1>5, OthersOff DEF WriteReceipt, TypeOK
  <2>2. EdgeAfter(receipts', cursor[p]) = edge'[p] /\ Rebuilt'.win = cursor[p]
    BY <1>5, EdgeCommit
  <2> QED  BY <2>1, <2>2 DEF EdgeInv, Looping
<1> QED  BY <1>0, <1>1, <1>2, <1>3, <1>4, <1>5, StepKinds

-----------------------------------------------------------------------------
(* The spool                                                               *)

\* A lane numbers the segments of a window apart and its records from 1, and a sweep
\* sees segments of the spool only (assemble).
LEMMA SpoolStep ==
    ASSUME CommitInv, SpoolInv, [Next]_vars
    PROVE  SpoolInv'
<1>0. TypeOK  BY DEF CommitInv
<1>1. ASSUME spool' = spool, \A q \in Procs : view'[q] \in {view[q], spool, {}}
      PROVE  SpoolInv'
  BY <1>1 DEF SpoolInv
<1>2. ASSUME NEW l \in Lanes, NEW w \in 0..MaxTime, NEW first \in 0..MaxIndex,
             NEW n \in 0..MaxRecords, NEW fault \in {"none", "seal", "record"},
             Seal(l, w, first, n, fault)
      PROVE  SpoolInv'
  <2> DEFINE L == LaneSegs(spool, w, l)
             new == [lane |-> l, win |-> w, index |-> Cardinality(L),
                     first |-> first, last |-> IF n = 0 THEN 0 ELSE first + n - 1,
                     fault |-> fault]
  <2>1. spool' = spool \cup {new} /\ view' = view
    BY <1>2 DEF Seal, localVars
  <2>2. IsFiniteSet(L) /\ Cardinality(L) \in Nat
    BY <1>0, FS_Subset, FS_CardinalityType DEF LaneSegs, TypeOK
  <2>3. MaxIndex \in Nat /\ MaxRecords \in Nat
    BY FinalizerAssumption DEF MaxIndex
  <2>4. /\ new.lane = l /\ new.win = w /\ new.index = Cardinality(L)
        /\ new.last > 0 =>
              /\ 1 <= new.first /\ new.first <= new.last
              /\ new.last <= MaxIndex + MaxRecords
    <3>1. n # 0 => first > 0
      BY <1>2 DEF Seal
    <3> QED  BY <2>3, <3>1
  <2>5. \A s \in spool : s.index \in Nat /\ s.lane \in Lanes
    BY <1>0 DEF TypeOK, Segment
  <2>6. \A s \in L : s \in spool /\ s.win = w /\ s.lane = l /\ s.index < Cardinality(L)
    BY DEF SpoolInv, LaneSegs
  <2> HIDE DEF new
  <2>7. LaneSegs(spool', w, l) = L \cup {new} /\ new \notin L
    BY <2>1, <2>2, <2>4, <2>5, <2>6 DEF LaneSegs
  <2>8. Cardinality(LaneSegs(spool', w, l)) = Cardinality(L) + 1
    BY <2>2, <2>7, FS_AddElement
  <2>9. \A s \in spool : ~(s.win = w /\ s.lane = l) =>
            LaneSegs(spool', s.win, s.lane) = LaneSegs(spool, s.win, s.lane)
    BY <2>1, <2>4 DEF LaneSegs
  <2>10. \A s \in spool' : s.index < Cardinality(LaneSegs(spool', s.win, s.lane))
    <3> SUFFICES ASSUME NEW s \in spool'
                 PROVE  s.index < Cardinality(LaneSegs(spool', s.win, s.lane))
      OBVIOUS
    <3>1. CASE s = new
      BY <2>2, <2>4, <2>8, <3>1
    <3>2. CASE s \in L
      BY <2>2, <2>5, <2>6, <2>8, <3>2
    <3>3. CASE s \in spool /\ s \notin L
      <4>1. ~(s.win = w /\ s.lane = l)  BY <3>3 DEF LaneSegs
      <4> QED  BY <2>9, <3>3, <4>1 DEF SpoolInv
    <3> QED  BY <2>1, <3>1, <3>2, <3>3
  <2>11. \A s \in spool' : s.last > 0 =>
             1 <= s.first /\ s.first <= s.last /\ s.last <= MaxIndex + MaxRecords
    BY <2>1, <2>4 DEF SpoolInv
  <2>12. \A a, b \in spool' : a.lane = b.lane /\ a.win = b.win /\ a.index = b.index => a = b
    <3>1. \A s \in spool : s.lane = l /\ s.win = w => s.index # Cardinality(L)
      <4>1. \A s \in spool : s.lane = l /\ s.win = w => s \in L  BY DEF LaneSegs
      <4> QED  BY <2>2, <2>5, <2>6, <4>1
    <3> QED  BY <2>1, <2>4, <3>1 DEF SpoolInv
  <2>13. \A q \in Procs : view'[q] \subseteq spool'
    BY <2>1 DEF SpoolInv
  <2> QED  BY <2>10, <2>11, <2>12, <2>13 DEF SpoolInv
<1>3. ASSUME NEW p \in Procs, Start(p) \/ Stop(p) \/ Kill(p) \/ Step(p)
      PROVE  spool' = spool /\ \A q \in Procs : view'[q] \in {view[q], spool, {}}
  BY <1>0, <1>3 DEF Start, Stop, Kill, Step, SampleClock, Assemble, Load, LoadRefused, Defer,
                    PublishEvidence, PublishProvenance, SyncOutputs, WriteReceipt, WriteMark,
                    Report, Forget, TypeOK, envVars, localVars
<1>4. ASSUME PowerLoss \/ ClearLease \/ Tick \/ UNCHANGED vars
      PROVE  spool' = spool /\ \A q \in Procs : view'[q] \in {view[q], spool, {}}
  BY <1>4 DEF PowerLoss, ClearLease, Tick, vars, envVars, localVars
<1> QED  BY <1>1, <1>2, <1>3, <1>4 DEF Next

-----------------------------------------------------------------------------
(* No silent gap                                                           *)

\* The delivery indices of a lane that a set of segments holds.
HeldBy(I, l) ==
    {i \in 1..(MaxIndex + MaxRecords) :
        \E s \in I : s.lane = l /\ s.last > 0 /\ s.first <= i /\ i <= s.last}

\* The records a lane's segments hold follow the boundary before them and end at the
\* boundary after them; without records the boundary stays.
Spanned(held, segs, before, after) ==
    \/ held = {} /\ after = before
    \/ /\ FirstIndex(segs) \in Nat /\ LastIndex(segs) \in Nat
       /\ 1 <= FirstIndex(segs) /\ FirstIndex(segs) <= LastIndex(segs)
       /\ held = FirstIndex(segs)..LastIndex(segs)
       /\ before = 0 \/ FirstIndex(segs) = before + 1
       /\ after = LastIndex(segs)

\* The records a merged lane contributes to its window are the ones from its first to
\* its last delivery index, the first follows the lane's boundary and the last is
\* its next one (delivery_is_contiguous, check_spans, advance).
LEMMA WindowSpan ==
    ASSUME CommitInv, SpoolInv, NEW p \in Procs, NEW w \in Nat, NEW e, NEW l \in Lanes,
           l \in MergedLanes(view[p], w, e)
    PROVE  Spanned(HeldBy(ReceiptOf(view[p], w, e, seq[p], t[p]).inputs, l),
                   LaneSegs(ReceiptOf(view[p], w, e, seq[p], t[p]).inputs, w, l),
                   e[l], Advanced(e, ReceiptOf(view[p], w, e, seq[p], t[p]), w)[l])
<1> DEFINE r == ReceiptOf(view[p], w, e, seq[p], t[p])
           segs == LaneSegs(r.inputs, w, l)
           B == MaxIndex + MaxRecords
           held == HeldBy(r.inputs, l)
<1>1. r.inputs = Inputs(view[p], w, e) /\ r.present = MergedLanes(view[p], w, e)
  BY DEF ReceiptOf
<1>2. segs = LaneSegs(view[p], w, l)
  BY <1>1 DEF LaneSegs, Inputs
<1>3. l \in Lanes /\ ValidLane(view[p], w, l) /\ ~EdgeFault(view[p], w, l, e)
  BY DEF MergedLanes, ValidLanes
<1>4. Contiguous(segs)
  BY <1>2, <1>3 DEF ValidLane
<1>5. /\ view[p] \subseteq spool /\ spool \subseteq Segment /\ IsFiniteSet(spool)
  BY DEF CommitInv, TypeOK, SpoolInv
<1>6. Numbered(segs)
  BY <1>2, <1>5 DEF Numbered, LaneSegs, SpoolInv
<1>7. MaxIndex \in Nat /\ MaxRecords \in Nat
  BY FinalizerAssumption DEF MaxIndex
<1>8. \A s \in segs : s.last > 0 => s.last <= B
  BY <1>2, <1>5 DEF LaneSegs, SpoolInv
<1>9. \A s \in r.inputs : s.lane = l => s \in segs
  BY <1>1 DEF LaneSegs, Inputs
<1>10. held = {i \in 1..B : \E s \in NonEmpty(segs) : s.first <= i /\ i <= s.last}
  BY <1>9 DEF NonEmpty, LaneSegs, HeldBy
<1>11. Advanced(e, r, w)[l] = IF LastIndex(segs) = 0 THEN e[l] ELSE LastIndex(segs)
  BY <1>1, <1>3 DEF Advanced
<1> HIDE DEF r, segs, held
<1>12. CASE NonEmpty(segs) = {}
  <2>1. held = {}  BY <1>10, <1>12
  <2>2. LastIndex(segs) = 0  BY <1>12 DEF LastIndex
  <2> QED  BY <1>11, <2>1, <2>2 DEF r, segs, held, Spanned
<1>13. CASE NonEmpty(segs) # {}
  <2>1. Cardinality(LaneSegs(spool, w, l)) \in Nat
    BY <1>5, FS_Subset, FS_CardinalityType DEF LaneSegs
  <2>2. \A s \in segs : s.index <= Cardinality(LaneSegs(spool, w, l))
    <3> SUFFICES ASSUME NEW s \in segs PROVE s.index <= Cardinality(LaneSegs(spool, w, l))
      OBVIOUS
    <3>1. s \in spool /\ s.win = w /\ s.lane = l /\ s.index \in Nat
      BY <1>2, <1>5 DEF LaneSegs, Segment
    <3>2. s.index < Cardinality(LaneSegs(spool, w, l))
      BY <3>1 DEF SpoolInv
    <3> QED  BY <2>1, <3>1, <3>2
  <2>3. /\ FirstIndex(segs) \in Nat /\ LastIndex(segs) \in Nat
        /\ 1 <= FirstIndex(segs) /\ FirstIndex(segs) <= LastIndex(segs)
        /\ \A i \in Int : (\E s \in NonEmpty(segs) : s.first <= i /\ i <= s.last)
                             <=> i \in FirstIndex(segs)..LastIndex(segs)
    BY <1>4, <1>6, <1>13, <2>1, <2>2, LaneSpan
  <2>4. LastIndex(segs) <= B
    <3>1. LastIndex(segs) \in FirstIndex(segs)..LastIndex(segs)  BY <2>3
    <3>2. PICK s \in NonEmpty(segs) : s.first <= LastIndex(segs) /\ LastIndex(segs) <= s.last
      BY <2>3, <3>1
    <3>3. s.last \in Nat /\ s.last <= B
      BY <1>2, <1>5, <1>8, <3>2 DEF NonEmpty, LaneSegs, Segment
    <3> QED  BY <1>7, <2>3, <3>2, <3>3
  <2>5. held = FirstIndex(segs)..LastIndex(segs)
    BY <1>7, <1>10, <2>3, <2>4
  <2>6. e[l] = 0 \/ FirstIndex(segs) = e[l] + 1
    BY <1>2, <1>3, <2>3 DEF EdgeFault
  <2>7. Advanced(e, r, w)[l] = LastIndex(segs)
    BY <1>11, <2>3
  <2> QED  BY <2>3, <2>5, <2>6, <2>7 DEF r, segs, held, Spanned
<1> QED  BY <1>12, <1>13

\* Committing a window extends every run of windows that name a lane without a gap:
\* the new records start right after the lane's boundary (check_spans, advance).
LEMMA GapCommit ==
    ASSUME CommitInv, EdgeInv, SpoolInv, GapInv, NEW p \in Procs, WriteReceipt(p),
           NEW w \in Nat, w = cursor[p], NEW l \in Lanes, NEW v \in Committed', v <= w,
           \A x \in v..w : l \in receipts'[x].present
    PROVE  LET D == Delivered(l, v, w)'
               E == EdgeAfter(receipts', w)[l]
           IN  /\ \A i, j \in D : i..j \subseteq D
               /\ D # {} => E \in D /\ \A i \in D : i <= E
<1> DEFINE r == ReceiptOf(view[p], w, edge[p], seq[p], t[p])
           segs == LaneSegs(r.inputs, w, l)
           first == FirstIndex(segs)
           last == LastIndex(segs)
           B == MaxIndex + MaxRecords
           held == HeldBy(r.inputs, l)
           D == Delivered(l, v, w)'
           Old == Delivered(l, v, w - 1)
           E == EdgeAfter(receipts', w)[l]
<1>1. /\ Committed' = Committed \cup {w} /\ w \notin Committed
      /\ Committed = {} \/ (w - 1) \in Committed
      /\ \A x \in Committed : x < w /\ receipts'[x] = receipts[x]
  BY CommitStep
<1>2. Committed \subseteq Nat /\ v \in Nat
  BY <1>1 DEF CommitInv, TypeOK
<1>3. receipts'[w] = r
  BY DEF WriteReceipt, Put
<1>4. l \in MergedLanes(view[p], w, edge[p])
  <2>1. w \in v..w  BY <1>2
  <2>2. r.present = MergedLanes(view[p], w, edge[p])  BY DEF ReceiptOf
  <2> QED  BY <1>3, <2>1, <2>2
<1>5. /\ EdgeAfter(receipts, w - 1) = edge[p]
      /\ EdgeAfter(receipts', w) = Advanced(edge[p], r, w)
  BY <1>3, EdgeCommit
<1>6. \/ held = {} /\ E = edge[p][l]
      \/ /\ first \in Nat /\ last \in Nat /\ 1 <= first /\ first <= last
         /\ held = first..last
         /\ edge[p][l] = 0 \/ first = edge[p][l] + 1
         /\ E = last
  <2>1. E = Advanced(edge[p], r, w)[l]
    BY <1>5
  <2>2. \/ held = {} /\ Advanced(edge[p], r, w)[l] = edge[p][l]
        \/ /\ first \in Nat /\ last \in Nat /\ 1 <= first /\ first <= last
           /\ held = first..last
           /\ edge[p][l] = 0 \/ first = edge[p][l] + 1
           /\ Advanced(edge[p], r, w)[l] = last
    <3>1. Spanned(held, segs, edge[p][l], Advanced(edge[p], r, w)[l])
      BY <1>4, WindowSpan
    <3> QED  BY <3>1 DEF Spanned
  <2> HIDE DEF E, held, first, last, r
  <2> QED  BY <2>1, <2>2
<1>7. v < w => /\ \A i, j \in Old : i..j \subseteq Old
               /\ Old # {} => edge[p][l] \in Old /\ \A i \in Old : i <= edge[p][l]
  <2> SUFFICES ASSUME v < w
               PROVE  /\ \A i, j \in Old : i..j \subseteq Old
                      /\ Old # {} => edge[p][l] \in Old /\ \A i \in Old : i <= edge[p][l]
    OBVIOUS
  <2>1. v \in Committed /\ (w - 1) \in Committed /\ v <= w - 1
    BY <1>1, <1>2
  <2>2. \A x \in v..(w - 1) : x \in Committed
    BY <2>1 DEF CommitInv, CanonicalChain
  <2>3. \A x \in v..(w - 1) : l \in receipts[x].present
    BY <1>1, <1>2, <2>2
  <2> HIDE DEF Old
  <2> QED  BY <1>5, <2>1, <2>3 DEF GapInv, Old
<1>8. D = IF v < w THEN Old \cup held ELSE held
  <2>1. \A x \in v..w : x = w \/ (x \in v..(w - 1) /\ x \in Committed /\ v < w)
    <3> SUFFICES ASSUME NEW x \in v..w, x # w
                 PROVE  x \in v..(w - 1) /\ x \in Committed /\ v < w
      OBVIOUS
    <3>1. x \in v..(w - 1) /\ v < w  BY <1>2
    <3>2. v \in Committed /\ (w - 1) \in Committed  BY <1>1, <1>2, <3>1
    <3> QED  BY <3>1, <3>2 DEF CommitInv, CanonicalChain
  <2>2. \A x \in v..(w - 1) : x \in v..w /\ x # w
    BY <1>2
  <2>3. w \in v..w  BY <1>2
  <2>4. D = {i \in 1..B : \E x \in v..w : \E s \in receipts'[x].inputs :
                s.lane = l /\ s.last > 0 /\ s.first <= i /\ i <= s.last}
    BY DEF Delivered
  <2>5. Old = {i \in 1..B : \E x \in v..(w - 1) : \E s \in receipts[x].inputs :
                  s.lane = l /\ s.last > 0 /\ s.first <= i /\ i <= s.last}
    BY DEF Delivered
  <2>9. held = {i \in 1..B : \E s \in r.inputs :
                   s.lane = l /\ s.last > 0 /\ s.first <= i /\ i <= s.last}
    BY DEF HeldBy
  <2> HIDE DEF D, Old, r, held
  <2>6. ASSUME NEW i \in D PROVE IF v < w THEN i \in Old \cup held ELSE i \in held
    <3>1. PICK x \in v..w : \E s \in receipts'[x].inputs :
              s.lane = l /\ s.last > 0 /\ s.first <= i /\ i <= s.last
      BY <2>4
    <3>2. CASE x = w
      BY <1>3, <2>4, <2>9, <3>1, <3>2
    <3>3. CASE x # w
      <4>1. x \in v..(w - 1) /\ receipts'[x] = receipts[x] /\ v < w
        BY <1>1, <2>1, <3>3
      <4> QED  BY <2>4, <2>5, <3>1, <4>1
    <3> QED  BY <3>2, <3>3
  <2>7. held \subseteq D
    BY <1>3, <2>3, <2>4, <2>9
  <2>8. v < w => Old \subseteq D
    <3> SUFFICES ASSUME v < w, NEW i \in Old PROVE i \in D
      OBVIOUS
    <3>1. PICK x \in v..(w - 1) : \E s \in receipts[x].inputs :
              s.lane = l /\ s.last > 0 /\ s.first <= i /\ i <= s.last
      BY <2>5
    <3>2. x \in v..w /\ receipts'[x] = receipts[x]
      BY <1>1, <2>1, <2>2
    <3> QED  BY <2>4, <2>5, <3>1, <3>2
  <2> QED  BY <2>6, <2>7, <2>8
<1>9. Old \subseteq 1..B /\ held \subseteq 1..B /\ B \in Int
  BY FinalizerAssumption DEF Delivered, MaxIndex, HeldBy
<1> HIDE DEF D, Old, held, first, last, E, B
<1>10. CASE held = {} /\ E = edge[p][l]
  <2>1. CASE v < w
    <3>1. D = Old  BY <1>8, <1>10, <2>1
    <3> QED  BY <1>7, <1>10, <2>1, <3>1 DEF D, E
  <2>2. CASE ~(v < w)
    <3>1. D = {}  BY <1>8, <1>10, <2>2
    <3> QED  BY <3>1 DEF D
  <2> QED  BY <2>1, <2>2
<1>11. CASE /\ first \in Nat /\ last \in Nat /\ 1 <= first /\ first <= last
            /\ held = first..last
            /\ edge[p][l] = 0 \/ first = edge[p][l] + 1
            /\ E = last
  <2>1. CASE v < w /\ Old # {}
    <3>1. edge[p][l] \in Old /\ \A i \in Old : i <= edge[p][l]
      BY <1>7, <2>1
    <3>2. edge[p][l] \in Int /\ edge[p][l] >= 1
      <4>1. edge[p][l] \in 1..B  BY <1>9, <3>1
      <4> QED  BY <1>9, <4>1
    <3>3. first = edge[p][l] + 1
      BY <1>11, <3>2
    <3>4. D = Old \cup (first..last)
      BY <1>8, <1>11, <2>1
    <3>5. ASSUME NEW i \in D, NEW j \in D, NEW k \in i..j PROVE k \in D
      <4>1. i \in Int /\ j \in Int /\ k \in Int /\ i <= k /\ k <= j
        BY <1>9, <1>11, <3>4
      <4>2. CASE k >= first
        <5>1. j <= last  BY <1>9, <1>11, <3>1, <3>2, <3>3, <3>4, <4>1
        <5> QED  BY <1>11, <3>4, <4>1, <4>2, <5>1
      <4>3. CASE k < first
        <5>1. i \in Old  BY <1>11, <3>4, <4>1, <4>3
        <5>2. k \in i..edge[p][l]  BY <1>11, <3>2, <3>3, <4>1, <4>3
        <5> QED  BY <1>7, <2>1, <3>1, <3>4, <5>1, <5>2
      <4> QED  BY <1>11, <4>1, <4>2, <4>3
    <3>6. E \in D /\ \A i \in D : i <= E
      <4>1. \A i \in Old : i \in Int /\ i <= last
        BY <1>9, <1>11, <3>1, <3>2, <3>3
      <4> QED  BY <1>11, <3>4, <4>1
    <3> QED  BY <3>5, <3>6 DEF D, E
  <2>2. CASE ~(v < w /\ Old # {})
    <3>1. D = first..last  BY <1>8, <1>11, <2>2
    <3>2. /\ \A i, j \in D : i..j \subseteq D
          /\ E \in D /\ \A i \in D : i <= E
      BY <1>11, <3>1
    <3> QED  BY <3>2 DEF D, E
  <2> QED  BY <2>1, <2>2
<1> QED  BY <1>6, <1>10, <1>11

\* No step opens a gap in what the receipts vouch for (finalize_window).
LEMMA GapStep ==
    ASSUME CommitInv, EdgeInv, SpoolInv, GapInv, [Next]_vars
    PROVE  GapInv'
<1>1. CASE receipts' = receipts
  BY <1>1 DEF GapInv, Delivered, Committed
<1>2. ASSUME NEW p \in Procs, WriteReceipt(p) PROVE GapInv'
  <2> DEFINE c == cursor[p]
  <2>1. /\ Committed' = Committed \cup {c} /\ c \notin Committed
        /\ \A x \in Committed : x < c /\ receipts'[x] = receipts[x]
    BY <1>2, CommitStep
  <2>2. c \in Nat /\ Committed \subseteq Nat  BY DEF CommitInv, TypeOK
  <2> SUFFICES ASSUME NEW l \in Lanes, NEW v \in Committed', NEW w \in Committed',
                      v <= w, \A x \in v..w : l \in receipts'[x].present
               PROVE  LET D == Delivered(l, v, w)'
                          E == EdgeAfter(receipts', w)[l]
                      IN  /\ \A i, j \in D : i..j \subseteq D
                          /\ D # {} => E \in D /\ \A i \in D : i <= E
    BY DEF GapInv
  <2>3. CASE w = c
    BY <1>2, <2>2, <2>3, GapCommit
  <2>4. CASE w # c
    <3>1. w \in Committed /\ w < c /\ v \in Committed
      <4>1. w \in Committed /\ w < c  BY <2>1, <2>4
      <4>2. w \in Nat /\ v \in Nat  BY <2>1, <2>2
      <4>3. v # c  BY <2>2, <4>1, <4>2
      <4> QED  BY <2>1, <4>1, <4>3
    <3>2. \A x \in v..w : x \in Committed /\ receipts'[x] = receipts[x]
      BY <2>1, <3>1 DEF CommitInv, CanonicalChain
    <3>3. Delivered(l, v, w)' = Delivered(l, v, w)
      BY <3>2 DEF Delivered
    <3>4. EdgeAfter(receipts', w) = EdgeAfter(receipts, w)
      <4>1. \A u \in Int : u < c => EdgeAfter(receipts', u) = EdgeAfter(receipts, u)
        BY <1>2, EdgeCommit
      <4>2. w \in Int /\ w < c  BY <2>2, <3>1
      <4> QED  BY <4>1, <4>2, Zenon
    <3>5. \A x \in v..w : l \in receipts[x].present
      BY <3>2
    <3> QED  BY <3>1, <3>3, <3>4, <3>5 DEF GapInv
  <2> QED  BY <2>3, <2>4
<1>3. receipts' = receipts \/ \E p \in Procs : WriteReceipt(p)
  <2>1. TypeOK  BY DEF CommitInv
  <2> QED  BY <2>1, StepKinds DEF Quiet, PowerLoss, Load, PublishEvidence, PublishProvenance,
                                  SyncOutputs, WriteMark
<1> QED  BY <1>1, <1>2, <1>3

-----------------------------------------------------------------------------
(* Theorems                                                                *)

\* The invariant of the whole sweep holds of an empty canonical root.
LEMMA IInvInit == Init => IInv
<1> SUFFICES ASSUME Init PROVE IInv
  OBVIOUS
<1>1. CommitInv  BY CommitInit
<1>2. Committed = {} /\ spool = {} /\ \A p \in Procs : pc[p] = "off" /\ view[p] = {}
  BY DEF Init, Committed
<1> QED
  BY <1>1, <1>2 DEF IInv, EndedInv, IncompleteOnlyAfterDeadline, OutputsInv, EvidenceMatches,
                    ProvenanceMatches, EdgeInv, SpoolInv, GapInv, Looping

\* Every reachable state satisfies the invariant of the whole sweep: no step of any
\* number of finalizers, lanes, kills and power losses leaves it (sweep_once).
THEOREM Invariance == Spec => []IInv
<1>1. Init => IInv  BY IInvInit
<1>2. IInv /\ [Next]_vars => IInv'
  <2> SUFFICES ASSUME IInv, [Next]_vars PROVE IInv'
    OBVIOUS
  <2>1. CommitInv'  BY CommitInvStep DEF IInv
  <2>2. EndedInv' /\ IncompleteOnlyAfterDeadline'  BY EndedStep, DeadlineStep DEF IInv
  <2>3. OutputsInv'  BY OutputsStep DEF IInv
  <2>4. EdgeInv' /\ SpoolInv' /\ GapInv'  BY EdgeStep, SpoolStep, GapStep DEF IInv
  <2> QED  BY <2>1, <2>2, <2>3, <2>4 DEF IInv
<1> QED  BY <1>1, <1>2, PTL DEF Spec

\* A window commits short of an expected lane only after its deadline, also when the
\* merge is what finds the lane unusable (eligibility, finalize_window).
THEOREM DeadlineIsKept == Spec => []IncompleteOnlyAfterDeadline
<1>1. IInv => IncompleteOnlyAfterDeadline  BY DEF IInv
<1> QED  BY <1>1, Invariance, PTL

\* A restart after any kill or power loss rebuilds what the killed process carried,
\* from receipts whose output files are there (load_or_rebuild, finalize_window).
THEOREM RestartRebuilds == Spec => []RestartIsFaithful
<1>1. IInv => RestartIsFaithful
  <2> SUFFICES ASSUME IInv PROVE RestartIsFaithful
    OBVIOUS
  <2>1. OutputsMatchReceipt
    BY DEF IInv, OutputsInv, EvidenceMatches, ProvenanceMatches, OutputsMatchReceipt
  <2>2. ASSUME NEW p \in Procs, pc[p] \in {"window", "provenance", "sync", "receipt"}
        PROVE  /\ seq[p] = Rebuilt.seq + 1
               /\ edge[p] = EdgeAfter(receipts, Rebuilt.win)
               /\ Committed # {} => cursor[p] = Rebuilt.win + 1
    <3>1. TypeOK /\ NewestExists /\ HighestExists  BY DEF IInv, CommitInv
    <3>2. /\ SeqIsNext(p)
          /\ Committed # {} => /\ mark.win \in Committed /\ mark.win + 1 = cursor[p]
                               /\ \A v \in Committed : v < cursor[p]
      BY <2>2 DEF IInv, CommitInv, CarriedInv
    <3>3. /\ seq[p] \in Nat \ {0} /\ cursor[p] \in Nat /\ Committed \subseteq Nat
          /\ \A v \in Committed : receipts[v].last \in Nat
      BY <3>1 DEF TypeOK, Receipt
    <3>4. edge[p] = EdgeAfter(receipts, Rebuilt.win)
      BY <2>2 DEF IInv, EdgeInv, Looping
    <3>5. CASE Committed = {}
      <4>1. Rebuilt.seq = 0  BY <3>5 DEF Rebuilt, NoMark
      <4>2. seq[p] = 1  BY <3>2, <3>5 DEF SeqIsNext
      <4> QED  BY <3>4, <3>5, <4>1, <4>2
    <3>6. CASE Committed # {}
      <4>1. /\ Newest \in Committed /\ Rebuilt.win = Newest /\ Rebuilt.seq \in Nat
            /\ \A v \in Committed : v <= Newest
            /\ \A v \in Committed : receipts[v].last <= Rebuilt.seq
            /\ \E v \in Committed : receipts[v].last = Rebuilt.seq
        BY <3>1, <3>6, RebuiltFacts
      <4>2. seq[p] = Rebuilt.seq + 1
        <5>1. PICK h \in Committed : receipts[h].last = Rebuilt.seq  BY <4>1
        <5>2. Rebuilt.seq < seq[p]  BY <3>2, <5>1 DEF SeqIsNext
        <5>3. seq[p] <= Rebuilt.seq + 1
          BY <3>2, <3>3, <4>1 DEF SeqIsNext
        <5> QED  BY <3>3, <4>1, <5>2, <5>3
      <4>3. cursor[p] = Rebuilt.win + 1
        <5>1. mark.win \in Nat /\ Newest \in Nat /\ mark.win <= Newest /\ Newest < cursor[p]
          BY <3>2, <3>3, <3>6, <4>1
        <5>2. Newest = mark.win  BY <3>2, <3>3, <3>6, <5>1
        <5> QED  BY <3>2, <3>6, <4>1, <5>2
      <4> QED  BY <3>4, <4>2, <4>3
    <3> QED  BY <3>5, <3>6
  <2> QED  BY <2>1, <2>2 DEF RestartIsFaithful, RestartEquivalence
<1> QED  BY <1>1, Invariance, PTL

\* A lane's lost or late records never vanish silently: the windows that name it as
\* present hold its records without a gap (DeliveryContinuity, delivery_is_contiguous).
THEOREM GapsAreVisible == Spec => []NoSilentGap
<1>1. IInv => NoSilentGap  BY DEF IInv, GapInv, NoSilentGap
<1> QED  BY <1>1, Invariance, PTL

=============================================================================
