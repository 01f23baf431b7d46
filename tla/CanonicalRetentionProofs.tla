---------------------- MODULE CanonicalRetentionProofs ----------------------
(***************************************************************************)
(* Proofs about committed canonical windows: for any number of windows and *)
(* generations, kills, power losses, failing calls and decayed or lost     *)
(* copies, archiving, reaping and restoring keep what a receipt names.     *)
(***************************************************************************)
EXTENDS CanonicalRetention, WellFoundedInduction, TLAPS

-----------------------------------------------------------------------------
(* The inductive invariant                                                 *)

NoEntries == [n \in Names |-> None]
Publishing == Objects \cup {"verify", "write"}
Receipt(w) == mem[w]["receipt"]

\* Whatever a power loss leaves of the window has the receipt and a marker for it.
Tombstoned(w) ==
    /\ w \in aged /\ Receipt(w) # None
    /\ \A d \in disk[w] : d["receipt"] = Receipt(w) /\ d["marker"] \in {Receipt(w), Rotten}

\* What may survive in a window's directory: only the receipt that is there, no
\* deletion that has not happened, evidence only with its provenance, and a
\* missing frame only under a durable tombstone.
EntryInv(w, d) ==
    /\ d["receipt"] \in {None, Receipt(w)}
    /\ \A n \in Frames : d[n] = None => mem[w][n] = None
    /\ d["evidence"] # None => d["provenance"] # None
    /\ gen[w] > 0 /\ (\E n \in Frames : d[n] = None) => Tombstoned(w)

WindowInv(w) ==
    /\ Receipt(w) \in 0..gen[w]
    /\ gen[w] = 0 => disk[w] = {NoEntries}
    /\ \A d \in disk[w] : EntryInv(w, d)
    /\ Receipt(w) # None /\ w \notin excused =>
          \A n \in Frames : mem[w][n] = None => store[w][n] = body[w][Receipt(w)]

\* The archiver publishes only windows without a marker, and none of age.
ArchiverInv ==
    /\ \A w \in aged : mem[w]["marker"] # None
    /\ apc \in Publishing \cup {"sync"} => aw \in Windows \ aged /\ Receipt(aw) # None
    /\ apc \in Publishing => mem[aw]["marker"] = None

\* What consider and confirm_durable established while the deletion goes on.
ReaperInv ==
    rpc # "idle" =>
        /\ rw \in aged /\ Receipt(rw) # None /\ mem[rw]["marker"] \in {Receipt(rw), Rotten}
        /\ rw \notin excused => \A n \in Frames : store[rw][n] = body[rw][Receipt(rw)]
        /\ rpc # "confirm" => Tombstoned(rw)
        /\ rpc = "evidence" => disk[rw] = {mem[rw]}
        /\ rpc = "syncEvidence" => mem[rw]["evidence"] = None
        /\ rpc \in {"provenance", "syncProvenance"} => \A d \in disk[rw] : d["evidence"] = None

\* A receipt is restored last, and names a generation that will not change.
RestoreInv ==
    /\ \A w \in Windows :
          /\ store[w]["receipt"] \in 0..gen[w] /\ dest[w]["receipt"] \in 0..gen[w]
          /\ dest[w]["receipt"] # None => \A n \in Frames : dest[w][n] = body[w][dest[w]["receipt"]]
    /\ spc # "idle" =>
          /\ sw.window \in Windows /\ sw.gen \in 1..gen[sw.window]
          /\ dest[sw.window]["receipt"] = None
          /\ spc # "evidence" => dest[sw.window]["evidence"] = body[sw.window][sw.gen]
          /\ spc = "receipt" => dest[sw.window]["provenance"] = body[sw.window][sw.gen]

IInv ==
    /\ TypeOK /\ ArchiverInv /\ ReaperInv /\ RestoreInv
    /\ \A w \in Windows : WindowInv(w)

-----------------------------------------------------------------------------
(* Constants and types                                                     *)

LEMMA ConstantFacts ==
    ASSUME ProperBounds
    PROVE  /\ MaxGenerations \in Nat /\ Rotten \in Nat /\ Rotten = MaxGenerations + 1
           /\ Generations = 1..MaxGenerations /\ None = 0
           /\ Windows = 1..MaxWindows /\ Windows \subseteq Nat
           /\ None \in 0..Rotten /\ Rotten \in 0..Rotten /\ Rotten # None
           /\ \A g \in 0..MaxGenerations : g \in 0..Rotten /\ g # Rotten
           /\ "evidence" \in Frames /\ "provenance" \in Frames
           /\ \A n \in Frames : n \in Names /\ n \in Objects /\ n # "receipt" /\ n # "marker"
           /\ "receipt" \in Names /\ "receipt" \in Objects /\ "marker" \in Names
BY DEF ProperBounds, MaxGenerations, Rotten, Generations, None, Windows, Frames, Names, Objects

LEMMA TypeFacts ==
    ASSUME IInv, ProperBounds, NEW w \in Windows
    PROVE  /\ WindowInv(w)
           /\ mem[w] \in [Names -> 0..Rotten] /\ mem[w] \in disk[w]
           /\ disk[w] \subseteq [Names -> 0..Rotten]
           /\ gen[w] \in 0..MaxGenerations /\ gen[w] \in Nat
           /\ Receipt(w) \in 0..gen[w] /\ Receipt(w) \in 0..MaxGenerations
           /\ Receipt(w) # None => Receipt(w) \in Generations
<1>1. WindowInv(w) /\ mem[w] \in [Names -> 0..Rotten] /\ mem[w] \in disk[w]
      /\ disk[w] \subseteq [Names -> 0..Rotten] /\ gen[w] \in 0..MaxGenerations
  BY DEF IInv, TypeOK
<1>2. Receipt(w) \in 0..gen[w]  BY <1>1 DEF WindowInv
<1> QED  BY <1>1, <1>2, ConstantFacts

\* A sweep takes the oldest window that is left (sweep).
LEMMA MinMember ==
    ASSUME NEW T \in SUBSET Nat, T # {}
    PROVE  Min(T) \in T
<1>1. PICK x \in T : \A y \in T : ~(<<y, x>> \in OpToRel(<, Nat))
  BY NatLessThanWellFounded, WFMin, Zenon
<1>2. \A y \in T : ~(y < x)  BY <1>1 DEF OpToRel
<1>3. \A y \in T : x <= y  BY <1>2
<1> QED  BY <1>3 DEF Min

-----------------------------------------------------------------------------
(* Frames                                                                  *)

\* A step that leaves a window alone keeps what holds of it.
LEMMA OtherWindow ==
    ASSUME NEW v \in Windows, WindowInv(v), mem'[v] = mem[v], disk'[v] = disk[v],
           gen'[v] = gen[v], body'[v] = body[v],
           \A n \in Frames : store'[v][n] = store[v][n],
           v \in aged => v \in aged', v \in excused => v \in excused'
    PROVE  WindowInv(v)'
BY DEF WindowInv, EntryInv, Tombstoned, Receipt

\* So does the fsync of its directory (FinalizeSync, SyncMarker, confirm_durable).
LEMMA SyncedWindow ==
    ASSUME IInv, ProperBounds, NEW w \in Windows, mem'[w] = mem[w], disk'[w] = {mem[w]},
           gen'[w] = gen[w], body'[w] = body[w],
           \A n \in Frames : store'[w][n] = store[w][n],
           w \in aged => w \in aged', w \in excused => w \in excused'
    PROVE  WindowInv(w)'
<1>1. WindowInv(w) /\ mem[w] \in disk[w]  BY TypeFacts
<1>2. EntryInv(w, mem[w])  BY <1>1 DEF WindowInv
<1> QED  BY <1>1, <1>2 DEF WindowInv, EntryInv, Tombstoned, Receipt

\* Steps that leave directories, keys and generations alone.
LEMMA QuietStep ==
    ASSUME IInv, UNCHANGED <<mem, disk, gen, body, store, aged, excused>>,
           TypeOK', ArchiverInv', ReaperInv', RestoreInv'
    PROVE  IInv'
<1>1. ASSUME NEW v \in Windows PROVE WindowInv(v)'
  <2>1. WindowInv(v)  BY DEF IInv
  <2> QED  BY <2>1, OtherWindow
<1> QED  BY <1>1 DEF IInv

\* The restore reads generations that do not change.
LEMMA RestoreFrame ==
    ASSUME IInv, UNCHANGED <<spc, sw, dest>>,
           \A v \in Windows : /\ gen'[v] = gen[v] /\ body'[v] = body[v]
                              /\ store'[v]["receipt"] \in 0..gen[v]
    PROVE  RestoreInv'
BY DEF IInv, RestoreInv

-----------------------------------------------------------------------------
(* The reader and the restore                                              *)

LEMMA ReaderStep ==
    ASSUME IInv, ProperBounds, Reader
    PROVE  IInv'
<1>1. UNCHANGED <<mem, disk, gen, body, store, aged, apc, aw, atodo, halted, rpc, rw, spc, sw, dest,
                  excused, trouble>>
  BY DEF Reader, ReadStart, ReadFrame, ReadDecide, finalizerVars, archiverVars, reaperVars, restoreVars
<1>2. /\ qpc' \in Frames \cup {"idle", "decide"} /\ qw' \in 0..MaxWindows /\ qsaw' \subseteq Frames
      /\ verdict' \in {"none", "accepted", "fault"}
  <2>1. ASSUME NEW w \in Windows, ReadStart(w)
        PROVE  qpc' = "evidence" /\ qw' \in 0..MaxWindows /\ qsaw' = {} /\ verdict' = "none"
    BY <2>1 DEF ReadStart, Windows
  <2>2. CASE ReadFrame
    <3>1. qsaw' \subseteq Frames  BY <2>2 DEF IInv, TypeOK, ReadFrame
    <3> QED  BY <2>2, <3>1, ConstantFacts DEF IInv, TypeOK, ReadFrame
  <2>3. CASE ReadDecide
    <3>1. 0 \in 0..MaxWindows  BY DEF ProperBounds
    <3> QED  BY <2>3, <3>1 DEF ReadDecide, None
  <2> QED  BY <2>1, <2>2, <2>3, ConstantFacts DEF Reader
<1>3. TypeOK'  BY <1>1, <1>2 DEF IInv, TypeOK
<1>4. ArchiverInv' /\ ReaperInv' /\ RestoreInv'
  BY <1>1 DEF IInv, ArchiverInv, ReaperInv, RestoreInv, Receipt, Tombstoned
<1> QED  BY <1>1, <1>3, <1>4, QuietStep

LEMMA RestoreStartStep ==
    ASSUME IInv, ProperBounds, NEW w \in Windows, RestoreStart(w)
    PROVE  IInv'
<1>1. UNCHANGED <<mem, disk, gen, body, store, aged, apc, aw, atodo, halted, rpc, rw, qpc, qw, qsaw,
                  verdict, excused, trouble>>
  BY DEF RestoreStart, finalizerVars, archiverVars, reaperVars, readerVars
<1>2. /\ store[w]["receipt"] \in 1..gen[w] /\ store[w]["receipt"] \in 0..MaxGenerations
      /\ None \in 0..MaxGenerations /\ w \in 0..MaxWindows
  BY TypeFacts, ConstantFacts DEF RestoreStart, Preflighted, IInv, RestoreInv, ProperBounds
<1>3. dest' = [dest EXCEPT ![w] = [n \in Objects |-> None]]  BY DEF RestoreStart
<1>4. sw' = [window |-> w, gen |-> store[w]["receipt"]] /\ spc' = "evidence"  BY DEF RestoreStart
<1>5. TypeOK'
  <2>1. dest' \in [Windows -> [Objects -> 0..MaxGenerations]]  BY <1>2, <1>3 DEF IInv, TypeOK
  <2>2. sw' \in [window : 0..MaxWindows, gen : 0..MaxGenerations]  BY <1>2, <1>4
  <2> QED  BY <1>1, <1>4, <2>1, <2>2, ConstantFacts DEF IInv, TypeOK
<1>6. ArchiverInv' /\ ReaperInv'
  BY <1>1 DEF IInv, ArchiverInv, ReaperInv, Receipt, Tombstoned
<1>7. RestoreInv'
  <2>1. ASSUME NEW v \in Windows
        PROVE  /\ store'[v]["receipt"] \in 0..gen'[v] /\ dest'[v]["receipt"] \in 0..gen'[v]
               /\ dest'[v]["receipt"] # None =>
                     \A n \in Frames : dest'[v][n] = body'[v][dest'[v]["receipt"]]
    <3>1. CASE v = w
      <4>1. dest'[w]["receipt"] = None  BY <1>3, ConstantFacts DEF IInv, TypeOK
      <4>2. 0 \in 0..gen[w]  BY TypeFacts
      <4> QED  BY <1>1, <3>1, <4>1, <4>2, ConstantFacts DEF IInv, RestoreInv
    <3>2. CASE v # w
      BY <1>1, <1>3, <3>2 DEF IInv, TypeOK, RestoreInv
    <3> QED  BY <3>1, <3>2
  <2>2. dest'[w]["receipt"] = None  BY <1>3, ConstantFacts DEF IInv, TypeOK
  <2>3. sw'.window = w /\ sw'.gen = store[w]["receipt"]  BY <1>4
  <2> QED  BY <1>1, <1>2, <1>4, <2>1, <2>2, <2>3 DEF RestoreInv
<1> QED  BY <1>1, <1>5, <1>6, <1>7, QuietStep

LEMMA RestoreObjectStep ==
    ASSUME IInv, ProperBounds, RestoreObject
    PROVE  IInv'
<1>0. PICK w \in Windows : w = sw.window
  BY DEF IInv, RestoreInv, RestoreObject, Objects, Frames
<1>1. PICK g \in 1..gen[w] : g = sw.gen
  BY <1>0 DEF IInv, RestoreInv, RestoreObject, Objects, Frames
<1>2. UNCHANGED <<mem, disk, gen, body, store, aged, apc, aw, atodo, halted, rpc, rw, qpc, qw, qsaw,
                  verdict, sw, excused, trouble>>
  BY DEF RestoreObject, finalizerVars, archiverVars, reaperVars, readerVars
<1>3. /\ spc \in {"evidence", "provenance", "receipt"} /\ dest[w]["receipt"] = None
      /\ spc # "evidence" => dest[w]["evidence"] = body[w][g]
      /\ spc = "receipt" => dest[w]["provenance"] = body[w][g]
  BY <1>0, <1>1 DEF IInv, RestoreInv, RestoreObject, Objects, Frames
<1>4. /\ g \in Generations /\ g \in 0..gen[w] /\ g \in 0..MaxGenerations
      /\ body[w][g] \in 0..MaxGenerations /\ 0 \in 0..gen[w]
  <2>1. g \in Generations /\ g \in 0..gen[w] /\ g \in 0..MaxGenerations /\ 0 \in 0..gen[w]
    BY TypeFacts, ConstantFacts
  <2> QED  BY <2>1 DEF IInv, TypeOK
<1>5. /\ dest' \in [Windows -> [Objects -> 0..MaxGenerations]]
      /\ spc' \in Objects \cup {"idle"}
      /\ \A v \in Windows : v # w => dest'[v] = dest[v]
      /\ \/ spc' = "idle" /\ dest'[w]["receipt"] = None
         \/ /\ spc' = "provenance" /\ dest'[w]["receipt"] = None
            /\ dest'[w]["evidence"] = body[w][g]
         \/ /\ spc' = "receipt" /\ dest'[w]["receipt"] = None
            /\ dest'[w]["evidence"] = body[w][g] /\ dest'[w]["provenance"] = body[w][g]
         \/ /\ spc' = "idle" /\ dest'[w]["receipt"] = g
            /\ dest'[w]["evidence"] = body[w][g] /\ dest'[w]["provenance"] = body[w][g]
  <2> DEFINE want == IF spc = "receipt" THEN sw.gen ELSE body[w][sw.gen]
  <2>0. want \in 0..MaxGenerations /\ None \in 0..MaxGenerations /\ spc \in Objects
        /\ dest \in [Windows -> [Objects -> 0..MaxGenerations]]
    <3>1. want \in 0..MaxGenerations /\ None \in 0..MaxGenerations  BY <1>1, <1>4, ConstantFacts
    <3>2. spc \in Objects  BY <1>3 DEF Objects, Frames
    <3> QED  BY <3>1, <3>2 DEF IInv, TypeOK
  <2> HIDE DEF want
  <2>1. CASE spc = "receipt" \/ store[w][spc] = want
    <3>1. /\ dest' = [dest EXCEPT ![w][spc] = want]
          /\ spc' = IF spc = "receipt" THEN "idle" ELSE AfterPut[spc]
      BY <1>0, <2>1 DEF RestoreObject, want
    <3>2. spc' \in {"idle", "provenance", "receipt"}
          /\ (spc = "evidence" => spc' = "provenance") /\ (spc = "provenance" => spc' = "receipt")
          /\ (spc = "receipt" => spc' = "idle")
      BY <1>3, <3>1 DEF AfterPut
    <3>3. dest' \in [Windows -> [Objects -> 0..MaxGenerations]] /\ dest'[w][spc] = want
          /\ (\A n \in Objects : n # spc => dest'[w][n] = dest[w][n])
          /\ (\A v \in Windows : v # w => dest'[v] = dest[v])
      BY <2>0, <3>1
    <3>4. want = (IF spc = "receipt" THEN g ELSE body[w][g])  BY <1>1 DEF want
    <3> QED  BY <1>3, <3>2, <3>3, <3>4, ConstantFacts
  <2>2. CASE ~(spc = "receipt" \/ store[w][spc] = want)
    <3>1. dest' = [dest EXCEPT ![w] = [n \in Objects |-> None]] /\ spc' = "idle"
      BY <1>0, <2>2 DEF RestoreObject, want
    <3> QED  BY <2>0, <3>1, ConstantFacts
  <2> QED  BY <2>1, <2>2
<1>6. TypeOK'  BY <1>2, <1>5 DEF IInv, TypeOK
<1>7. ArchiverInv' /\ ReaperInv'
  BY <1>2 DEF IInv, ArchiverInv, ReaperInv, Receipt, Tombstoned
<1>8. RestoreInv'
  <2>1. \A n \in Frames : n = "evidence" \/ n = "provenance"  BY DEF Frames
  <2>2. ASSUME NEW v \in Windows
        PROVE  /\ store'[v]["receipt"] \in 0..gen'[v] /\ dest'[v]["receipt"] \in 0..gen'[v]
               /\ dest'[v]["receipt"] # None =>
                     \A n \in Frames : dest'[v][n] = body'[v][dest'[v]["receipt"]]
    <3>1. CASE v = w  BY <1>2, <1>4, <1>5, <2>1, <3>1, ConstantFacts DEF IInv, RestoreInv
    <3>2. CASE v # w  BY <1>2, <1>5, <3>2 DEF IInv, RestoreInv
    <3> QED  BY <3>1, <3>2
  <2> QED  BY <1>0, <1>1, <1>2, <1>5, <2>2 DEF RestoreInv
<1> QED  BY <1>2, <1>6, <1>7, <1>8, QuietStep

LEMMA KillRestoreStep ==
    ASSUME IInv, ProperBounds, KillRestore
    PROVE  IInv'
<1>1. /\ UNCHANGED <<mem, disk, gen, body, store, aged, apc, aw, atodo, halted, rpc, rw, qpc, qw, qsaw,
                     verdict, sw, dest, excused>>
      /\ spc' = "idle" /\ trouble' \in 0..MaxTrouble
  BY DEF KillRestore, finalizerVars, archiverVars, reaperVars, readerVars, Trouble, IInv, TypeOK, ProperBounds
<1>2. TypeOK' /\ ArchiverInv' /\ ReaperInv' /\ RestoreInv'
  BY <1>1 DEF IInv, TypeOK, ArchiverInv, ReaperInv, RestoreInv, Receipt, Tombstoned
<1> QED  BY <1>1, <1>2, QuietStep

-----------------------------------------------------------------------------
(* Directory syncs and the finalizer                                       *)

\* The reaper's facts survive what leaves its window alone, and an fsync of it.
LEMMA ReaperFrame ==
    ASSUME IInv, UNCHANGED <<rpc, rw>>,
           rpc # "idle" =>
               /\ mem'[rw] = mem[rw] /\ (disk'[rw] = disk[rw] \/ disk'[rw] = {mem[rw]})
               /\ mem[rw] \in disk[rw] /\ body'[rw] = body[rw]
               /\ \A n \in Frames : store'[rw][n] = store[rw][n]
               /\ rw \in aged' /\ (rw \in excused => rw \in excused')
    PROVE  ReaperInv'
<1>1. CASE rpc = "idle"  BY <1>1 DEF ReaperInv
<1>2. CASE rpc # "idle"
  <2>1. ReaperInv  BY DEF IInv
  <2>2. /\ mem'[rw] = mem[rw] /\ (disk'[rw] = disk[rw] \/ disk'[rw] = {mem[rw]})
        /\ mem[rw] \in disk[rw] /\ body'[rw] = body[rw]
        /\ \A n \in Frames : store'[rw][n] = store[rw][n]
        /\ rw \in aged' /\ (rw \in excused => rw \in excused')
    BY <1>2
  <2>3. CASE disk'[rw] = disk[rw]  BY <1>2, <2>1, <2>2, <2>3 DEF ReaperInv, Receipt, Tombstoned
  <2>4. CASE disk'[rw] = {mem[rw]}  BY <1>2, <2>1, <2>2, <2>4 DEF ReaperInv, Receipt, Tombstoned
  <2> QED  BY <2>2, <2>3, <2>4
<1> QED  BY <1>1, <1>2

LEMMA SyncStep ==
    ASSUME IInv, ProperBounds, NEW w \in Windows, disk' = [disk EXCEPT ![w] = {mem[w]}],
           UNCHANGED <<mem, gen, body, store, aged, rpc, rw, spc, sw, dest, excused>>
    PROVE  /\ disk' \in [Windows -> SUBSET [Names -> 0..Rotten]]
           /\ \A v \in Windows : mem'[v] \in disk'[v]
           /\ ReaperInv' /\ RestoreInv' /\ \A v \in Windows : WindowInv(v)'
<1>0. disk \in [Windows -> SUBSET [Names -> 0..Rotten]] /\ aged \subseteq Windows  BY DEF IInv, TypeOK
<1>1. disk'[w] = {mem[w]} /\ \A v \in Windows : v # w => disk'[v] = disk[v]  BY <1>0
<1>2. mem[w] \in [Names -> 0..Rotten] /\ \A v \in Windows : mem[v] \in disk[v]  BY DEF IInv, TypeOK
<1>3. disk' \in [Windows -> SUBSET [Names -> 0..Rotten]]  BY <1>0, <1>2
<1>4. \A v \in Windows : mem'[v] \in disk'[v]  BY <1>1, <1>2
<1>5. ReaperInv'
  <2>1. rpc # "idle" => rw \in aged /\ rw \in Windows  BY <1>0 DEF IInv, ReaperInv
  <2> QED  BY <1>1, <1>2, <2>1, ReaperFrame
<1>6. RestoreInv'
  <2>1. \A v \in Windows : store[v]["receipt"] \in 0..gen[v]  BY DEF IInv, RestoreInv
  <2> QED  BY <2>1, RestoreFrame
<1>7. ASSUME NEW v \in Windows PROVE WindowInv(v)'
  <2>1. CASE v = w  BY <1>1, <2>1, SyncedWindow
  <2>2. CASE v # w
    <3>1. WindowInv(v)  BY DEF IInv
    <3> QED  BY <1>1, <2>2, <3>1, OtherWindow
  <2> QED  BY <2>1, <2>2
<1> QED  BY <1>3, <1>4, <1>5, <1>6, <1>7

LEMMA FinalizeSyncStep ==
    ASSUME IInv, ProperBounds, NEW w \in Windows, FinalizeSync(w)
    PROVE  IInv'
<1>1. /\ UNCHANGED <<mem, gen, body, store, aged, apc, aw, atodo, halted, rpc, rw, qpc, qw, qsaw,
                     verdict, spc, sw, dest, excused, trouble>>
      /\ disk' = [disk EXCEPT ![w] = {mem[w]}]
  BY DEF FinalizeSync, Synced, finalizerVars, archiverVars, reaperVars, readerVars, restoreVars
<1>2. TypeOK'
  <2>1. /\ disk' \in [Windows -> SUBSET [Names -> 0..Rotten]]
        /\ \A v \in Windows : mem'[v] \in disk'[v]
    BY <1>1, SyncStep
  <2> QED  BY <1>1, <2>1 DEF IInv, TypeOK
<1>3. ArchiverInv'  BY <1>1 DEF IInv, ArchiverInv, Receipt
<1> QED  BY <1>1, <1>2, <1>3, SyncStep DEF IInv

LEMMA FinalizeStep ==
    ASSUME IInv, ProperBounds, NEW w \in Windows, NEW c \in Generations, Finalize(w, c)
    PROVE  IInv'
<1>0. PICK g \in Generations : g = gen[w] + 1
  BY TypeFacts, ConstantFacts DEF Finalize
<1>1. PICK whole : whole = [mem[w] EXCEPT !["evidence"] = c, !["provenance"] = c]  OBVIOUS
<1>2. PICK final : final = [whole EXCEPT !["receipt"] = g]  OBVIOUS
<1>3. /\ Receipt(w) = None
      /\ gen' = [gen EXCEPT ![w] = g] /\ body' = [body EXCEPT ![w][g] = c]
      /\ mem' = [mem EXCEPT ![w] = final] /\ disk' = [disk EXCEPT ![w] = {whole, final}]
      /\ UNCHANGED <<store, aged, apc, aw, atodo, halted, rpc, rw, qpc, qw, qsaw,
                     verdict, spc, sw, dest, excused, trouble>>
  BY <1>0, <1>1, <1>2 DEF Finalize, Present, Receipt, archiverVars, reaperVars, readerVars, restoreVars
<1>4. /\ mem[w] \in [Names -> 0..Rotten] /\ gen[w] \in Nat /\ g \in 0..MaxGenerations
      /\ c \in 0..Rotten /\ g \in 0..Rotten /\ c \in 0..MaxGenerations /\ c # None /\ g # None
  BY <1>0, TypeFacts, ConstantFacts
<1>5. /\ whole \in [Names -> 0..Rotten] /\ final \in [Names -> 0..Rotten]
      /\ whole["receipt"] = None /\ final["receipt"] = g
      /\ \A n \in Frames : whole[n] = c /\ final[n] = c
      /\ whole["marker"] = mem[w]["marker"] /\ final["marker"] = mem[w]["marker"]
  <2>1. Receipt(w) = mem[w]["receipt"]  BY DEF Receipt
  <2> QED  BY <1>1, <1>2, <1>3, <1>4, <2>1 DEF Names, Frames
<1>6. /\ mem \in [Windows -> [Names -> 0..Rotten]]
      /\ disk \in [Windows -> SUBSET [Names -> 0..Rotten]]
      /\ gen \in [Windows -> 0..MaxGenerations]
      /\ body \in [Windows -> [Generations -> 0..MaxGenerations]] /\ aged \subseteq Windows
  BY DEF IInv, TypeOK
<1>7. /\ mem'[w] = final /\ disk'[w] = {whole, final} /\ gen'[w] = g
      /\ \A v \in Windows : v # w =>
            mem'[v] = mem[v] /\ disk'[v] = disk[v] /\ gen'[v] = gen[v] /\ body'[v] = body[v]
      /\ \A h \in Generations : h # g => body'[w][h] = body[w][h]
  BY <1>3, <1>6
<1>8. TypeOK'
  <2>1. mem' \in [Windows -> [Names -> 0..Rotten]]  BY <1>3, <1>5, <1>6
  <2>2. disk' \in [Windows -> SUBSET [Names -> 0..Rotten]]  BY <1>3, <1>5, <1>6
  <2>3. \A v \in Windows : mem'[v] \in disk'[v]  BY <1>7 DEF IInv, TypeOK
  <2>4. gen' \in [Windows -> 0..MaxGenerations]  BY <1>3, <1>4, <1>6
  <2>5. body' \in [Windows -> [Generations -> 0..MaxGenerations]]  BY <1>3, <1>4, <1>6
  <2> QED  BY <1>3, <2>1, <2>2, <2>3, <2>4, <2>5 DEF IInv, TypeOK
<1>9. ArchiverInv'
  <2>1. \A v \in aged : mem'[v]["marker"] = mem[v]["marker"]  BY <1>5, <1>6, <1>7
  <2>2. apc \in Publishing \cup {"sync"} =>
           aw \in Windows \ aged /\ Receipt(aw) # None /\ aw # w /\ mem'[aw] = mem[aw]
    BY <1>3, <1>7 DEF IInv, ArchiverInv
  <2> QED  BY <1>3, <2>1, <2>2 DEF IInv, ArchiverInv, Receipt
<1>10. ReaperInv'
  <2>1. rpc # "idle" => rw \in aged /\ rw \in Windows /\ rw # w
    BY <1>3, <1>6 DEF IInv, ReaperInv
  <2>2. \A v \in Windows : mem[v] \in disk[v]  BY DEF IInv, TypeOK
  <2> QED  BY <1>3, <1>7, <2>1, <2>2, ReaperFrame
<1>11. RestoreInv'
  <2>1. ASSUME NEW v \in Windows
        PROVE  /\ gen[v] \in Nat /\ gen[v] \in 0..MaxGenerations
               /\ gen'[v] \in Nat /\ gen[v] <= gen'[v]
               /\ \A h \in 1..gen[v] : h \in 1..gen'[v] /\ h \in Generations /\ body'[v][h] = body[v][h]
    <3>1. gen[v] \in Nat /\ gen[v] \in 0..MaxGenerations  BY TypeFacts
    <3>2. \A h \in 1..gen[v] : h \in Generations  BY <3>1, ConstantFacts
    <3>3. CASE v = w  BY <1>0, <1>7, <3>1, <3>2, <3>3
    <3>4. CASE v # w  BY <1>7, <3>1, <3>2, <3>4
    <3> QED  BY <3>3, <3>4
  <2>2. ASSUME NEW v \in Windows
        PROVE  /\ store'[v]["receipt"] \in 0..gen'[v] /\ dest'[v]["receipt"] \in 0..gen'[v]
               /\ dest'[v]["receipt"] # None =>
                     \A n \in Frames : dest'[v][n] = body'[v][dest'[v]["receipt"]]
    <3>1. store[v]["receipt"] \in 0..gen[v] /\ dest[v]["receipt"] \in 0..gen[v]
          /\ (dest[v]["receipt"] # None => \A n \in Frames : dest[v][n] = body[v][dest[v]["receipt"]])
      BY DEF IInv, RestoreInv
    <3>2. dest[v]["receipt"] # None => dest[v]["receipt"] \in 1..gen[v]
      BY <2>1, <3>1, ConstantFacts
    <3>3. store[v]["receipt"] \in 0..gen'[v] /\ dest[v]["receipt"] \in 0..gen'[v]  BY <2>1, <3>1
    <3> QED  BY <1>3, <2>1, <3>1, <3>2, <3>3
  <2>3. spc # "idle" =>
          /\ sw.window \in Windows /\ sw.gen \in 1..gen'[sw.window]
          /\ body'[sw.window][sw.gen] = body[sw.window][sw.gen]
    BY <2>1 DEF IInv, RestoreInv
  <2> QED  BY <1>3, <2>2, <2>3 DEF IInv, RestoreInv
<1>12. ASSUME NEW v \in Windows PROVE WindowInv(v)'
  <2>1. CASE v = w
    <3>1. Receipt(w)' = g /\ g \in 0..g  BY <1>0, <1>4, <1>5, <1>7 DEF Receipt
    <3>2. \A n \in Frames : mem'[w][n] # None  BY <1>4, <1>5, <1>7
    <3>3. ASSUME NEW d \in disk'[w] PROVE EntryInv(w, d)'
      <4>1. d["receipt"] \in {None, g} /\ \A n \in Frames : d[n] # None
        BY <1>4, <1>5, <1>7, <3>3
      <4> QED  BY <3>1, <4>1, ConstantFacts DEF EntryInv
    <3>4. gen'[w] = g /\ g # 0  BY <1>0, <1>4, <1>7
    <3> QED  BY <2>1, <3>1, <3>2, <3>3, <3>4 DEF WindowInv
  <2>2. CASE v # w
    <3>1. WindowInv(v)  BY DEF IInv
    <3> QED  BY <1>3, <1>7, <2>2, <3>1, OtherWindow
  <2> QED  BY <2>1, <2>2
<1> QED  BY <1>8, <1>9, <1>10, <1>11, <1>12 DEF IInv

-----------------------------------------------------------------------------
(* The canonical archiver                                                  *)

\* Archiver steps that change no directory and no key.
LEMMA ArchiverQuiet ==
    ASSUME IInv, ProperBounds,
           UNCHANGED <<mem, disk, gen, body, store, aged, rpc, rw, qpc, qw, qsaw, verdict,
                       spc, sw, dest, excused>>,
           apc' \in Objects \cup {"idle", "next", "verify", "write", "sync"},
           aw' \in 0..MaxWindows, atodo' \subseteq Windows, halted' \in BOOLEAN,
           trouble' \in 0..MaxTrouble,
           apc' \in Publishing \cup {"sync"} => aw' \in Windows \ aged /\ Receipt(aw') # None,
           apc' \in Publishing => mem[aw']["marker"] = None
    PROVE  IInv'
<1>1. TypeOK'  BY DEF IInv, TypeOK
<1>2. ArchiverInv'  BY DEF IInv, ArchiverInv, Receipt
<1>3. ReaperInv' /\ RestoreInv'  BY DEF IInv, ReaperInv, RestoreInv, Receipt, Tombstoned
<1> QED  BY <1>1, <1>2, <1>3, QuietStep

LEMMA TroubleType ==
    ASSUME IInv, ProperBounds
    PROVE  /\ trouble \in 0..MaxTrouble
           /\ Trouble => trouble' \in 0..MaxTrouble
BY DEF IInv, TypeOK, Trouble, ProperBounds

LEMMA ArchiverIdleSteps ==
    ASSUME IInv, ProperBounds,
           ArchiveSweep \/ ArchiveSweepEnds \/ StoreCallFails \/ KillArchiver
    PROVE  IInv'
<1>1. UNCHANGED <<mem, disk, gen, body, store, aged, rpc, rw, qpc, qw, qsaw, verdict,
                  spc, sw, dest, excused>>
  BY DEF ArchiveSweep, ArchiveSweepEnds, StoreCallFails, KillArchiver, finalizerVars, reaperVars,
         readerVars, restoreVars
<1>2. /\ apc' \in {"idle", "next"} /\ aw' \in {aw, None} /\ atodo' \in {atodo, {}, Committed}
      /\ halted' \in {halted, FALSE} /\ (trouble' = trouble \/ Trouble)
  BY DEF ArchiveSweep, ArchiveSweepEnds, StoreCallFails, KillArchiver, StopArchiver
<1>3. /\ Committed \subseteq Windows /\ None \in 0..MaxWindows
      /\ "idle" \notin Publishing \cup {"sync"} /\ "next" \notin Publishing \cup {"sync"}
  BY DEF Committed, None, ProperBounds, Publishing, Objects, Frames
<1>4. aw \in 0..MaxWindows /\ atodo \subseteq Windows /\ halted \in BOOLEAN  BY DEF IInv, TypeOK
<1>5. trouble' \in 0..MaxTrouble  BY <1>2, TroubleType
<1>6. halted' \in BOOLEAN  BY <1>2, <1>4
<1> QED  BY <1>1, <1>2, <1>3, <1>4, <1>5, <1>6, ArchiverQuiet

LEMMA ArchiveWindowStep ==
    ASSUME IInv, ProperBounds, ArchiveWindow
    PROVE  IInv'
<1>1. /\ UNCHANGED <<mem, gen, body, store, aged, halted, rpc, rw, qpc, qw, qsaw, verdict,
                     spc, sw, dest, excused, trouble>>
      /\ atodo # {}
  BY DEF ArchiveWindow, finalizerVars, reaperVars, readerVars, restoreVars
<1>2. atodo \subseteq Windows /\ atodo \subseteq Nat  BY ConstantFacts DEF IInv, TypeOK
<1>3. PICK w \in atodo : w = Min(atodo)  BY <1>1, <1>2, MinMember
<1>4. /\ aw' = w /\ atodo' = atodo \ {w}
      /\ IF Present(w, "marker")
         THEN /\ apc' = "next"
              /\ \/ Synced(w)
                 \/ UNCHANGED disk
         ELSE /\ apc' = IF ReadCanonicalReceipt(w) /\ \A n \in Frames : VerifyLocalFrame(w, n)
                        THEN "evidence" ELSE "next"
              /\ UNCHANGED disk
  BY <1>3 DEF ArchiveWindow
<1>5. w \in Windows /\ w \in 0..MaxWindows /\ atodo' \subseteq Windows  BY <1>2, <1>4, ConstantFacts
<1>6. "next" \notin Publishing \cup {"sync"}  BY DEF Publishing, Objects, Frames
<1>7. CASE UNCHANGED disk
  <2>1. apc' \in {"next", "evidence"} /\ (apc' = "evidence" => ~Present(w, "marker") /\ Receipt(w) # None)
    BY <1>4 DEF ReadCanonicalReceipt, Present, Receipt
  <2>2. /\ apc' \in Objects \cup {"idle", "next", "verify", "write", "sync"}
        /\ halted' \in BOOLEAN /\ trouble' \in 0..MaxTrouble
    BY <1>1, <2>1, ConstantFacts DEF IInv, TypeOK
  <2>3. apc' = "evidence" => w \notin aged /\ mem[w]["marker"] = None
    BY <2>1 DEF IInv, ArchiverInv, Present
  <2> QED  BY <1>1, <1>4, <1>5, <1>6, <1>7, <2>1, <2>2, <2>3, ArchiverQuiet
<1>8. CASE Synced(w) /\ apc' = "next"
  <2>1. disk' = [disk EXCEPT ![w] = {mem[w]}]  BY <1>8 DEF Synced
  <2>2. /\ disk' \in [Windows -> SUBSET [Names -> 0..Rotten]]
        /\ \A v \in Windows : mem'[v] \in disk'[v]
        /\ ReaperInv' /\ RestoreInv' /\ \A v \in Windows : WindowInv(v)'
    BY <1>1, <1>5, <2>1, SyncStep
  <2>3. TypeOK'  BY <1>1, <1>4, <1>5, <1>8, <2>2 DEF IInv, TypeOK
  <2>4. ArchiverInv'  BY <1>1, <1>6, <1>8 DEF IInv, ArchiverInv
  <2> QED  BY <2>2, <2>3, <2>4 DEF IInv
<1> QED  BY <1>4, <1>7, <1>8

LEMMA VerifyPutStep ==
    ASSUME IInv, ProperBounds, VerifyPut
    PROVE  IInv'
<1>1. /\ UNCHANGED <<mem, disk, gen, body, store, aged, aw, atodo, halted, rpc, rw, qpc, qw, qsaw,
                     verdict, spc, sw, dest, excused, trouble>>
      /\ apc = "verify" /\ apc' \in {"write", "next"}
  BY DEF VerifyPut, finalizerVars, reaperVars, readerVars, restoreVars
<1>2. "next" \notin Publishing \cup {"sync"} /\ "verify" \in Publishing  BY DEF Publishing, Objects, Frames
<1>3. aw \in Windows \ aged /\ Receipt(aw) # None /\ mem[aw]["marker"] = None
  BY <1>1, <1>2 DEF IInv, ArchiverInv
<1>4. /\ aw \in 0..MaxWindows /\ atodo \subseteq Windows /\ halted \in BOOLEAN /\ trouble \in 0..MaxTrouble
  BY DEF IInv, TypeOK
<1> QED  BY <1>1, <1>2, <1>3, <1>4, ArchiverQuiet

\* A put that adds an object to the window the archiver is at: its frames are
\* compared with the receipt, so a frame that is missing was never there to put.
LEMMA PutObjectStep ==
    ASSUME IInv, ProperBounds, PutObject
    PROVE  IInv'
<1>1. /\ UNCHANGED <<mem, disk, gen, body, aged, aw, atodo, rpc, rw, qpc, qw, qsaw, verdict,
                     spc, sw, dest, excused, trouble>>
      /\ apc \in Objects
  BY DEF PutObject, finalizerVars, reaperVars, readerVars, restoreVars
<1>2. "next" \notin Publishing \cup {"sync"} /\ apc \in Publishing  BY <1>1 DEF Publishing, Objects, Frames
<1>3. aw \in Windows \ aged /\ Receipt(aw) # None /\ mem[aw]["marker"] = None
  BY <1>2 DEF IInv, ArchiverInv
<1>4. /\ aw \in 0..MaxWindows /\ atodo \subseteq Windows /\ halted \in BOOLEAN /\ trouble \in 0..MaxTrouble
      /\ store \in [Windows -> [Objects -> 0..MaxGenerations]]
      /\ body \in [Windows -> [Generations -> 0..MaxGenerations]] /\ aged \subseteq Windows
  BY DEF IInv, TypeOK
<1>5. CASE /\ apc' = "next" /\ UNCHANGED store /\ halted' \in BOOLEAN
  BY <1>1, <1>2, <1>4, <1>5, ArchiverQuiet
<1>6. CASE /\ apc' = AfterPut[apc] /\ store' = [store EXCEPT ![aw][apc] = Named(aw, apc)]
           /\ UNCHANGED halted
  <2>1. apc' \in Publishing /\ apc' \in Objects \cup {"verify"}
    BY <1>1, <1>6 DEF AfterPut, Publishing, Objects, Frames
  <2>2. PICK w \in Windows : w = aw  BY <1>3
  <2>3. PICK n \in Objects : n = apc  BY <1>1
  <2>4. PICK v : v = Named(w, n)  OBVIOUS
  <2>5. v \in 0..MaxGenerations /\ (n = "receipt" => v = Receipt(w)) /\ (n \in Frames => v = body[w][Receipt(w)])
    <3>1. Receipt(w) \in Generations /\ Receipt(w) \in 0..MaxGenerations  BY <1>3, <2>2, TypeFacts
    <3> QED  BY <1>4, <2>4, <3>1, ConstantFacts DEF Named, Receipt
  <2>6. store' = [store EXCEPT ![w][n] = v]  BY <1>6, <2>2, <2>3, <2>4
  <2>7. /\ store' \in [Windows -> [Objects -> 0..MaxGenerations]]
        /\ store'[w][n] = v /\ \A m \in Objects : m # n => store'[w][m] = store[w][m]
        /\ \A u \in Windows : u # w => store'[u] = store[u]
    BY <1>4, <2>5, <2>6
  <2>8. TypeOK'  BY <1>1, <1>4, <1>6, <2>1, <2>7 DEF IInv, TypeOK
  <2>9. ArchiverInv'  BY <1>1, <1>3, <2>1 DEF IInv, ArchiverInv, Receipt
  <2>10. ReaperInv'
    <3>1. rpc # "idle" => rw \in aged /\ rw \in Windows /\ rw # w /\ mem[rw] \in disk[rw]
      BY <1>3, <1>4, <2>2 DEF IInv, ReaperInv, TypeOK
    <3> QED  BY <1>1, <2>7, <3>1, ReaperFrame
  <2>11. RestoreInv'
    <3>1. ASSUME NEW u \in Windows PROVE store'[u]["receipt"] \in 0..gen[u]
      <4>1. store[u]["receipt"] \in 0..gen[u] /\ Receipt(u) \in 0..gen[u]
        BY TypeFacts DEF IInv, RestoreInv
      <4> QED  BY <2>5, <2>7, <4>1, ConstantFacts
    <3> QED  BY <1>1, <3>1, RestoreFrame
  <2>12. ASSUME NEW u \in Windows PROVE WindowInv(u)'
    <3>1. WindowInv(u)  BY DEF IInv
    <3>2. CASE u # w  BY <1>1, <2>7, <3>1, <3>2, OtherWindow
    <3>3. CASE u = w
      <4>1. Receipt(w)' = Receipt(w)  BY <1>1 DEF Receipt
      <4>2. \A m \in Frames : store'[w][m] = store[w][m] \/ store'[w][m] = body[w][Receipt(w)]
        BY <2>5, <2>7, ConstantFacts
      <4>3. \A d \in disk[w] : EntryInv(w, d)'
        BY <1>1, <3>1, <3>3 DEF WindowInv, EntryInv, Tombstoned, Receipt
      <4> QED  BY <1>1, <3>1, <3>3, <4>1, <4>2, <4>3 DEF WindowInv
    <3> QED  BY <3>2, <3>3
  <2> QED  BY <2>8, <2>9, <2>10, <2>11, <2>12 DEF IInv
<1> QED  BY <1>4, <1>5, <1>6 DEF PutObject

\* What one changed entry leaves of a directory, in memory and after a power loss.
LEMMA PendingFacts ==
    ASSUME IInv, ProperBounds, NEW w \in Windows, NEW n \in Names, NEW x \in 0..Rotten,
           Put(w, n, x), Pending(w, n, x)
    PROVE  /\ mem' \in [Windows -> [Names -> 0..Rotten]]
           /\ disk' \in [Windows -> SUBSET [Names -> 0..Rotten]]
           /\ \A v \in Windows : mem'[v] \in disk'[v]
           /\ mem'[w] = [mem[w] EXCEPT ![n] = x]
           /\ \A v \in Windows : v # w => mem'[v] = mem[v] /\ disk'[v] = disk[v]
           /\ \A d \in disk'[w] : \/ d \in disk[w]
                                  \/ \E e \in disk[w] : d = [e EXCEPT ![n] = x]
<1>1. /\ mem \in [Windows -> [Names -> 0..Rotten]] /\ disk \in [Windows -> SUBSET [Names -> 0..Rotten]]
      /\ \A v \in Windows : mem[v] \in disk[v]
  BY DEF IInv, TypeOK
<1>2. mem' = [mem EXCEPT ![w][n] = x]  BY DEF Put
<1>3. PICK S : S = IF OrderedDirs THEN {[mem[w] EXCEPT ![n] = x]}
                                  ELSE {[d EXCEPT ![n] = x] : d \in disk[w]}
  OBVIOUS
<1>4. disk' = [disk EXCEPT ![w] = disk[w] \cup S]  BY <1>1, <1>3 DEF Pending
<1>5. /\ [mem[w] EXCEPT ![n] = x] \in S
      /\ \A d \in S : \E e \in disk[w] : d = [e EXCEPT ![n] = x]
  BY <1>1, <1>3
<1>6. S \subseteq [Names -> 0..Rotten]  BY <1>1, <1>5
<1>7. /\ mem' \in [Windows -> [Names -> 0..Rotten]] /\ mem'[w] = [mem[w] EXCEPT ![n] = x]
      /\ \A v \in Windows : v # w => mem'[v] = mem[v]
  BY <1>1, <1>2
<1>8. /\ disk' \in [Windows -> SUBSET [Names -> 0..Rotten]] /\ disk'[w] = disk[w] \cup S
      /\ \A v \in Windows : v # w => disk'[v] = disk[v]
  BY <1>1, <1>4, <1>6
<1>9. \A v \in Windows : mem'[v] \in disk'[v]
  <2>1. mem'[w] \in disk'[w]  BY <1>5, <1>7, <1>8
  <2>2. \A v \in Windows : v # w => mem'[v] \in disk'[v]  BY <1>1, <1>7, <1>8
  <2> QED  BY <2>1, <2>2
<1>10. \A d \in disk'[w] : d \in disk[w] \/ \E e \in disk[w] : d = [e EXCEPT ![n] = x]
  <2>1. ASSUME NEW d \in disk'[w], d \notin disk[w]
        PROVE  \E e \in disk[w] : d = [e EXCEPT ![n] = x]
    <3>1. d \in S  BY <1>8, <2>1
    <3> QED  BY <1>5, <3>1
  <2> QED  BY <2>1
<1> QED  BY <1>7, <1>8, <1>9, <1>10, Zenon

\* A marker that comes or goes changes nothing else of a window that is not of age.
LEMMA MarkerStep ==
    ASSUME IInv, ProperBounds, NEW w \in Windows \ aged, Receipt(w) # None,
           UNCHANGED <<gen, body, store, aged, rpc, rw, spc, sw, dest, excused>>,
           \A v \in Windows : v # w => mem'[v] = mem[v] /\ disk'[v] = disk[v],
           \A n \in Names \ {"marker"} : mem'[w][n] = mem[w][n],
           \A d \in disk'[w] : \E e \in disk[w] : \A n \in Names \ {"marker"} : d[n] = e[n]
    PROVE  ReaperInv' /\ RestoreInv' /\ \A v \in Windows : WindowInv(v)'
<1>0. aged \subseteq Windows /\ \A v \in Windows : mem[v] \in disk[v]  BY DEF IInv, TypeOK
<1>1. ReaperInv'
  <2>1. rpc # "idle" => rw \in aged /\ rw \in Windows /\ rw # w  BY <1>0 DEF IInv, ReaperInv
  <2> QED  BY <1>0, <2>1, ReaperFrame
<1>2. RestoreInv'
  <2>1. \A v \in Windows : store[v]["receipt"] \in 0..gen[v]  BY DEF IInv, RestoreInv
  <2> QED  BY <2>1, RestoreFrame
<1>3. ASSUME NEW v \in Windows PROVE WindowInv(v)'
  <2>1. WindowInv(v)  BY DEF IInv
  <2>2. CASE v # w  BY <2>1, <2>2, OtherWindow
  <2>3. CASE v = w
    <3>1. "receipt" \in Names \ {"marker"} /\ Frames \subseteq Names \ {"marker"}  BY DEF Names, Frames
    <3>2. Receipt(w)' = Receipt(w)  BY <3>1 DEF Receipt
    <3>3. gen[w] # 0 /\ gen[w] > 0
      BY TypeFacts, ConstantFacts
    <3>4. ~Tombstoned(w)  BY DEF Tombstoned
    <3>5. ASSUME NEW d \in disk'[w] PROVE EntryInv(w, d)'
      <4>1. PICK e \in disk[w] : \A n \in Names \ {"marker"} : d[n] = e[n]  OBVIOUS
      <4>2. EntryInv(w, e)  BY <2>1, <2>3 DEF WindowInv
      <4>3. \A n \in Frames : d[n] # None  BY <3>1, <3>3, <3>4, <4>1, <4>2 DEF EntryInv
      <4>4. d["receipt"] \in {None, Receipt(w)}  BY <3>1, <4>1, <4>2 DEF EntryInv
      <4> QED  BY <3>2, <4>3, <4>4, ConstantFacts DEF EntryInv
    <3>6. \A n \in Frames : mem'[w][n] = mem[w][n]  BY <3>1
    <3> QED  BY <2>1, <2>3, <3>2, <3>3, <3>5, <3>6 DEF WindowInv
  <2> QED  BY <2>2, <2>3
<1> QED  BY <1>1, <1>2, <1>3

LEMMA WriteMarkerStep ==
    ASSUME IInv, ProperBounds, WriteMarker
    PROVE  IInv'
<1>1. /\ UNCHANGED <<gen, body, store, aged, aw, atodo, halted, rpc, rw, qpc, qw, qsaw,
                     verdict, spc, sw, dest, excused, trouble>>
      /\ apc = "write" /\ apc' = "sync"
  BY DEF WriteMarker, finalizerVars, reaperVars, readerVars, restoreVars
<1>2. "write" \in Publishing /\ "sync" \notin Publishing  BY DEF Publishing, Objects, Frames
<1>3. PICK w \in Windows \ aged : w = aw /\ Receipt(w) # None
  BY <1>1, <1>2 DEF IInv, ArchiverInv
<1>4. PICK x \in 0..Rotten : x = Receipt(w)  BY TypeFacts, ConstantFacts
<1>5. Put(w, "marker", x) /\ Pending(w, "marker", x)
  BY <1>3, <1>4 DEF WriteMarker, BuildReceipt, Receipt
<1>6. /\ mem' \in [Windows -> [Names -> 0..Rotten]]
      /\ disk' \in [Windows -> SUBSET [Names -> 0..Rotten]]
      /\ \A v \in Windows : mem'[v] \in disk'[v]
      /\ mem'[w] = [mem[w] EXCEPT !["marker"] = x]
      /\ \A v \in Windows : v # w => mem'[v] = mem[v] /\ disk'[v] = disk[v]
      /\ \A d \in disk'[w] : \/ d \in disk[w]
                             \/ \E e \in disk[w] : d = [e EXCEPT !["marker"] = x]
  BY <1>5, PendingFacts, ConstantFacts
<1>7. /\ \A n \in Names \ {"marker"} : mem'[w][n] = mem[w][n]
      /\ \A d \in disk'[w] : \E e \in disk[w] : \A n \in Names \ {"marker"} : d[n] = e[n]
  BY <1>6, TypeFacts
<1>8. TypeOK'  BY <1>1, <1>6 DEF IInv, TypeOK
<1>9. ArchiverInv'
  <2>1. \A v \in aged : mem'[v] = mem[v]  BY <1>6 DEF IInv, TypeOK
  <2>2. mem'[w]["receipt"] = mem[w]["receipt"]  BY <1>7, ConstantFacts
  <2> QED  BY <1>1, <1>2, <1>3, <2>1, <2>2 DEF IInv, ArchiverInv, Receipt
<1>10. ReaperInv' /\ RestoreInv' /\ \A v \in Windows : WindowInv(v)'
  BY <1>1, <1>3, <1>6, <1>7, MarkerStep
<1> QED  BY <1>8, <1>9, <1>10 DEF IInv

LEMMA SyncMarkerStep ==
    ASSUME IInv, ProperBounds, SyncMarker
    PROVE  IInv'
<1>1. /\ UNCHANGED <<mem, gen, body, store, aged, aw, atodo, halted, rpc, rw, qpc, qw, qsaw,
                     verdict, spc, sw, dest, excused, trouble>>
      /\ apc = "sync" /\ apc' = "next" /\ disk' = [disk EXCEPT ![aw] = {mem[aw]}]
  BY DEF SyncMarker, Synced, finalizerVars, reaperVars, readerVars, restoreVars
<1>2. "next" \notin Publishing \cup {"sync"}  BY DEF Publishing, Objects, Frames
<1>3. aw \in Windows  BY <1>1 DEF IInv, ArchiverInv
<1>4. /\ disk' \in [Windows -> SUBSET [Names -> 0..Rotten]]
      /\ \A v \in Windows : mem'[v] \in disk'[v]
      /\ ReaperInv' /\ RestoreInv' /\ \A v \in Windows : WindowInv(v)'
  BY <1>1, <1>3, SyncStep
<1>5. TypeOK'  BY <1>1, <1>4 DEF IInv, TypeOK
<1>6. ArchiverInv'  BY <1>1, <1>2 DEF IInv, ArchiverInv
<1> QED  BY <1>4, <1>5, <1>6 DEF IInv

LEMMA SyncMarkerFailsStep ==
    ASSUME IInv, ProperBounds, SyncMarkerFails
    PROVE  IInv'
<1>1. /\ UNCHANGED <<gen, body, store, aged, aw, atodo, halted, rpc, rw, qpc, qw, qsaw,
                     verdict, spc, sw, dest, excused>>
      /\ apc = "sync" /\ apc' = "next" /\ trouble' \in 0..MaxTrouble
  BY TroubleType DEF SyncMarkerFails, finalizerVars, reaperVars, readerVars, restoreVars
<1>2. "next" \notin Publishing \cup {"sync"}  BY DEF Publishing, Objects, Frames
<1>3. PICK w \in Windows \ aged : w = aw /\ Receipt(w) # None
  BY <1>1 DEF IInv, ArchiverInv
<1>4. /\ Put(w, "marker", None)
      /\ Pending(w, "marker", None) \/ disk' = [disk EXCEPT ![w] = {mem'[w]}]
  BY <1>3 DEF SyncMarkerFails
<1>5. /\ mem' \in [Windows -> [Names -> 0..Rotten]]
      /\ disk' \in [Windows -> SUBSET [Names -> 0..Rotten]]
      /\ \A v \in Windows : mem'[v] \in disk'[v]
      /\ mem'[w] = [mem[w] EXCEPT !["marker"] = None]
      /\ \A v \in Windows : v # w => mem'[v] = mem[v] /\ disk'[v] = disk[v]
      /\ \A d \in disk'[w] : \/ d \in disk[w]
                             \/ \E e \in disk[w] : d = [e EXCEPT !["marker"] = None]
  <2>1. CASE Pending(w, "marker", None)  BY <1>4, <2>1, PendingFacts, ConstantFacts
  <2>2. CASE disk' = [disk EXCEPT ![w] = {mem'[w]}]
    <3>1. /\ mem \in [Windows -> [Names -> 0..Rotten]] /\ disk \in [Windows -> SUBSET [Names -> 0..Rotten]]
          /\ \A v \in Windows : mem[v] \in disk[v]
      BY DEF IInv, TypeOK
    <3>2. /\ mem' \in [Windows -> [Names -> 0..Rotten]]
          /\ mem'[w] = [mem[w] EXCEPT !["marker"] = None]
          /\ \A v \in Windows : v # w => mem'[v] = mem[v]
      BY <1>4, <3>1, ConstantFacts DEF Put
    <3>3. PICK x \in [Names -> 0..Rotten] : x = mem'[w]  BY <3>2
    <3>4. disk' = [disk EXCEPT ![w] = {x}]  BY <2>2, <3>3
    <3>5. /\ disk' \in [Windows -> SUBSET [Names -> 0..Rotten]] /\ disk'[w] = {x}
          /\ \A v \in Windows : v # w => disk'[v] = disk[v]
      BY <3>1, <3>3, <3>4
    <3> QED  BY <3>1, <3>2, <3>3, <3>5
  <2> QED  BY <1>4, <2>1, <2>2
<1>6. /\ \A n \in Names \ {"marker"} : mem'[w][n] = mem[w][n]
      /\ \A d \in disk'[w] : \E e \in disk[w] : \A n \in Names \ {"marker"} : d[n] = e[n]
  BY <1>5, TypeFacts
<1>7. TypeOK'  BY <1>1, <1>5 DEF IInv, TypeOK
<1>8. ArchiverInv'
  <2>1. \A v \in aged : mem'[v] = mem[v]  BY <1>5 DEF IInv, TypeOK
  <2> QED  BY <1>1, <1>2, <2>1 DEF IInv, ArchiverInv
<1>9. ReaperInv' /\ RestoreInv' /\ \A v \in Windows : WindowInv(v)'
  BY <1>1, <1>3, <1>5, <1>6, MarkerStep
<1> QED  BY <1>7, <1>8, <1>9 DEF IInv

-----------------------------------------------------------------------------
(* The canonical reaper                                                    *)

LEMMA ConsiderStep ==
    ASSUME IInv, ProperBounds, NEW w \in Windows, Consider(w)
    PROVE  IInv'
<1>1. /\ UNCHANGED <<mem, disk, gen, body, store, aged, apc, aw, atodo, halted, qpc, qw, qsaw,
                     verdict, spc, sw, dest, excused, trouble>>
      /\ rpc' = "confirm" /\ rw' = w /\ w \in aged
      /\ MarkerBinds(w) /\ ArchiveVerified(w) /\ Present(w, "receipt")
  BY DEF Consider, ReadCanonicalReceipt, ValidateBinding, finalizerVars, archiverVars, readerVars, restoreVars
<1>2. TypeOK'
  <2>1. w \in 0..MaxWindows  BY DEF Windows, ProperBounds
  <2> QED  BY <1>1, <2>1 DEF IInv, TypeOK
<1>3. ArchiverInv' /\ RestoreInv'  BY <1>1 DEF IInv, ArchiverInv, RestoreInv, Receipt
<1>4. ReaperInv'
  <2>1. Receipt(w) # None /\ mem[w]["marker"] = Receipt(w)  BY <1>1 DEF MarkerBinds, Present, Receipt
  <2>2. \A n \in Frames : store[w][n] = body[w][Receipt(w)]
    BY <1>1, ConstantFacts DEF ArchiveVerified, Named, Receipt
  <2> QED  BY <1>1, <2>1, <2>2 DEF ReaperInv, Receipt
<1> QED  BY <1>1, <1>2, <1>3, <1>4, QuietStep

\* The reaper stops, or goes on without a change of directory.
LEMMA ReaperStops ==
    ASSUME IInv, ProperBounds, ReaperSyncFails \/ KillReaper
    PROVE  IInv'
<1>1. /\ UNCHANGED <<mem, disk, gen, body, store, aged, apc, aw, atodo, halted, qpc, qw, qsaw,
                     verdict, spc, sw, dest, excused>>
      /\ rpc' = "idle" /\ rw' = None /\ trouble' \in 0..MaxTrouble
  BY TroubleType DEF ReaperSyncFails, KillReaper, StopReaper, finalizerVars, archiverVars, readerVars, restoreVars
<1>2. TypeOK'
  <2>1. None \in 0..MaxWindows  BY DEF None, ProperBounds
  <2> QED  BY <1>1, <2>1 DEF IInv, TypeOK
<1>3. ArchiverInv' /\ ReaperInv' /\ RestoreInv'
  BY <1>1 DEF IInv, ArchiverInv, ReaperInv, RestoreInv, Receipt
<1> QED  BY <1>1, <1>2, <1>3, QuietStep

\* An fsync of the reaper's directory, and the next thing it does there.
LEMMA ReaperSyncs ==
    ASSUME IInv, ProperBounds, ConfirmReceipts \/ SyncRemoval
    PROVE  IInv'
<1>1. /\ UNCHANGED <<mem, gen, body, store, aged, apc, aw, atodo, halted, rw, qpc, qw, qsaw,
                     verdict, spc, sw, dest, excused, trouble>>
      /\ disk' = [disk EXCEPT ![rw] = {mem[rw]}]
      /\ \/ rpc = "confirm" /\ rpc' = "evidence"
         \/ rpc = "syncEvidence" /\ rpc' = "provenance"
         \/ rpc = "syncProvenance" /\ rpc' = "idle"
  BY DEF ConfirmReceipts, SyncRemoval, Synced, finalizerVars, archiverVars, readerVars, restoreVars
<1>2. PICK w \in Windows : w = rw /\ w \in aged
  BY <1>1 DEF IInv, ReaperInv, TypeOK
<1>3. /\ mem[w] \in [Names -> 0..Rotten] /\ disk \in [Windows -> SUBSET [Names -> 0..Rotten]]
      /\ \A v \in Windows : mem[v] \in disk[v]
  BY DEF IInv, TypeOK
<1>4. /\ disk' \in [Windows -> SUBSET [Names -> 0..Rotten]] /\ disk'[w] = {mem[w]}
      /\ \A v \in Windows : v # w => disk'[v] = disk[v]
  BY <1>1, <1>2, <1>3
<1>5. TypeOK'
  <2>1. \A v \in Windows : mem'[v] \in disk'[v]  BY <1>1, <1>3, <1>4
  <2>2. rpc' \in Frames \cup {"idle", "confirm", "syncEvidence", "syncProvenance"}
    BY <1>1, ConstantFacts
  <2> QED  BY <1>1, <1>4, <2>1, <2>2 DEF IInv, TypeOK
<1>6. ArchiverInv' /\ RestoreInv'  BY <1>1 DEF IInv, ArchiverInv, RestoreInv, Receipt
<1>7. ReaperInv'
  <2>1. /\ Receipt(w) # None /\ mem[w]["marker"] \in {Receipt(w), Rotten}
        /\ w \notin excused => \A n \in Frames : store[w][n] = body[w][Receipt(w)]
        /\ rpc = "syncEvidence" => mem[w]["evidence"] = None
    BY <1>1, <1>2 DEF IInv, ReaperInv
  <2>2. Receipt(w)' = Receipt(w)  BY <1>1 DEF Receipt
  <2>3. Tombstoned(w)'  BY <1>1, <1>2, <1>4, <2>1, <2>2 DEF Tombstoned, Receipt
  <2> QED  BY <1>1, <1>2, <1>4, <2>1, <2>2, <2>3 DEF ReaperInv
<1>8. ASSUME NEW v \in Windows PROVE WindowInv(v)'
  <2>1. CASE v = w  BY <1>1, <1>4, <2>1, SyncedWindow
  <2>2. CASE v # w
    <3>1. WindowInv(v)  BY DEF IInv
    <3> QED  BY <1>1, <1>4, <2>2, <3>1, OtherWindow
  <2> QED  BY <2>1, <2>2
<1> QED  BY <1>5, <1>6, <1>7, <1>8 DEF IInv

\* A frame goes only under a durable tombstone, evidence before provenance.
LEMMA RemoveFrameStep ==
    ASSUME IInv, ProperBounds, RemoveFrame
    PROVE  IInv'
<1>1. /\ UNCHANGED <<gen, body, store, aged, apc, aw, atodo, halted, rw, qpc, qw, qsaw,
                     verdict, spc, sw, dest, excused, trouble>>
      /\ rpc \in Frames /\ rpc # "idle" /\ rpc # "confirm"
  BY DEF RemoveFrame, Frames, finalizerVars, archiverVars, readerVars, restoreVars
<1>2. PICK w \in Windows : w = rw /\ w \in aged
  BY <1>1 DEF IInv, ReaperInv, TypeOK
<1>3. PICK n \in Frames : n = rpc  BY <1>1
<1>4. /\ Receipt(w) # None /\ mem[w]["marker"] \in {Receipt(w), Rotten}
      /\ w \notin excused => \A f \in Frames : store[w][f] = body[w][Receipt(w)]
      /\ Tombstoned(w)
      /\ n = "evidence" => disk[w] = {mem[w]}
      /\ n = "provenance" => \A d \in disk[w] : d["evidence"] = None
  BY <1>1, <1>2, <1>3 DEF IInv, ReaperInv
<1>5. n = "evidence" \/ n = "provenance"  BY DEF Frames
<1>6. CASE ~Present(w, n)
  <2>1. UNCHANGED <<mem, disk>> /\ rpc' = (IF n = "evidence" THEN "provenance" ELSE "idle")
    BY <1>2, <1>3, <1>6 DEF RemoveFrame
  <2>2. TypeOK'
    <3>1. rpc' \in Frames \cup {"idle"}  BY <2>1, ConstantFacts
    <3> QED  BY <1>1, <2>1, <3>1 DEF IInv, TypeOK
  <2>3. ArchiverInv' /\ RestoreInv'  BY <1>1, <2>1 DEF IInv, ArchiverInv, RestoreInv, Receipt
  <2>4. n = "evidence" => \A d \in disk[w] : d["evidence"] = None  BY <1>4, <1>6 DEF Present
  <2>5. Receipt(w)' = Receipt(w) /\ Tombstoned(w)'  BY <1>1, <1>4, <2>1 DEF Receipt, Tombstoned
  <2>6. ReaperInv'  BY <1>1, <1>2, <1>4, <2>1, <2>4, <2>5 DEF ReaperInv
  <2> QED  BY <1>1, <2>1, <2>2, <2>3, <2>6, QuietStep
<1>7. CASE Present(w, n)
  <2>1. /\ rpc' = IF n = "evidence" THEN "syncEvidence" ELSE "syncProvenance"
        /\ Put(w, n, None) /\ Pending(w, n, None)
    BY <1>2, <1>3, <1>5, <1>7 DEF RemoveFrame, AfterRemove
  <2>2. /\ mem' \in [Windows -> [Names -> 0..Rotten]]
        /\ disk' \in [Windows -> SUBSET [Names -> 0..Rotten]]
        /\ \A v \in Windows : mem'[v] \in disk'[v]
        /\ mem'[w] = [mem[w] EXCEPT ![n] = None]
        /\ \A v \in Windows : v # w => mem'[v] = mem[v] /\ disk'[v] = disk[v]
        /\ \A d \in disk'[w] : \/ d \in disk[w]
                               \/ \E e \in disk[w] : d = [e EXCEPT ![n] = None]
    BY <2>1, PendingFacts, ConstantFacts
  <2>3. mem'[w][n] = None /\ \A m \in Names : m # n => mem'[w][m] = mem[w][m]
    BY <2>2, ConstantFacts DEF IInv, TypeOK
  <2>4. \A d \in disk'[w] : \E e \in disk[w] :
            /\ \A m \in Names : m # n => d[m] = e[m]
            /\ d[n] = e[n] \/ d[n] = None
    <3>1. disk[w] \subseteq [Names -> 0..Rotten]  BY TypeFacts
    <3>2. ASSUME NEW d \in disk'[w]
          PROVE  \E e \in disk[w] : /\ \A m \in Names : m # n => d[m] = e[m]
                                    /\ d[n] = e[n] \/ d[n] = None
      <4>1. CASE d \in disk[w]  BY <4>1
      <4>2. CASE d \notin disk[w]
        <5>1. PICK e \in disk[w] : d = [e EXCEPT ![n] = None]  BY <2>2, <4>2
        <5>2. e \in [Names -> 0..Rotten] /\ n \in Names  BY <3>1, ConstantFacts
        <5>3. d[n] = None /\ \A m \in Names : m # n => d[m] = e[m]  BY <5>1, <5>2
        <5> QED  BY <5>3
      <4> QED  BY <4>1, <4>2
    <3> QED  BY <3>2
  <2>5. "receipt" \in Names /\ "marker" \in Names /\ n # "receipt" /\ n # "marker"
        /\ Frames \subseteq Names /\ "evidence" \in Frames /\ "provenance" \in Frames
    BY ConstantFacts
  <2>6. Receipt(w)' = Receipt(w) /\ mem'[w]["marker"] = mem[w]["marker"]
    BY <2>3, <2>5 DEF Receipt
  <2>7. Tombstoned(w)'
    <3>1. \A d \in disk'[w] : d["receipt"] = Receipt(w) /\ d["marker"] \in {Receipt(w), Rotten}
      BY <1>4, <2>4, <2>5 DEF Tombstoned
    <3> QED  BY <1>1, <1>2, <1>4, <2>6, <3>1 DEF Tombstoned
  <2>8. TypeOK'
    <3>1. rpc' \in {"syncEvidence", "syncProvenance"}  BY <2>1
    <3> QED  BY <1>1, <2>2, <3>1 DEF IInv, TypeOK
  <2>9. ArchiverInv'
    <3>0. aged \subseteq Windows  BY DEF IInv, TypeOK
    <3>1. \A v \in aged : mem'[v]["marker"] = mem[v]["marker"]  BY <2>2, <2>6, <3>0
    <3>2. apc \in Publishing \cup {"sync"} => mem'[aw] = mem[aw]
      BY <1>2, <2>2 DEF IInv, ArchiverInv
    <3> QED  BY <1>1, <3>1, <3>2 DEF IInv, ArchiverInv, Receipt, Publishing
  <2>10. n = "provenance" => \A d \in disk'[w] : d["evidence"] = None
    BY <1>4, <2>4, <2>5
  <2>11. ReaperInv'
    <3>1. rpc' = "syncEvidence" => mem'[w]["evidence"] = None  BY <1>5, <2>1, <2>3
    <3>2. rpc' = "syncProvenance" => \A d \in disk'[w] : d["evidence"] = None  BY <1>5, <2>1, <2>10
    <3> QED  BY <1>1, <1>2, <1>4, <2>1, <2>6, <2>7, <3>1, <3>2 DEF ReaperInv
  <2>12. RestoreInv'
    <3>1. \A v \in Windows : store[v]["receipt"] \in 0..gen[v]  BY DEF IInv, RestoreInv
    <3> QED  BY <1>1, <3>1, RestoreFrame
  <2>13. ASSUME NEW v \in Windows PROVE WindowInv(v)'
    <3>1. WindowInv(v)  BY DEF IInv
    <3>2. CASE v # w  BY <1>1, <2>2, <3>1, <3>2, OtherWindow
    <3>3. CASE v = w
      <4>1. ASSUME NEW d \in disk'[w] PROVE EntryInv(w, d)'
        <5>1. PICK e \in disk[w] : /\ \A m \in Names : m # n => d[m] = e[m]
                                   /\ d[n] = e[n] \/ d[n] = None
          BY <2>4
        <5>2. EntryInv(w, e)  BY <3>1, <3>3 DEF WindowInv
        <5>3. d["receipt"] \in {None, Receipt(w)}  BY <2>5, <5>1, <5>2 DEF EntryInv
        <5>4. \A m \in Frames : d[m] = None => mem'[w][m] = None
          BY <2>3, <2>5, <5>1, <5>2 DEF EntryInv
        <5>5. d["evidence"] # None => d["provenance"] # None
          BY <1>5, <2>5, <2>10, <5>1, <5>2 DEF EntryInv
        <5> QED  BY <2>6, <2>7, <5>3, <5>4, <5>5 DEF EntryInv
      <4>2. gen[w] # 0  BY <1>4, TypeFacts, ConstantFacts
      <4> QED  BY <1>1, <1>4, <2>6, <3>1, <3>3, <4>1, <4>2 DEF WindowInv
    <3> QED  BY <3>2, <3>3
  <2> QED  BY <2>8, <2>9, <2>11, <2>12, <2>13 DEF IInv
<1> QED  BY <1>6, <1>7

-----------------------------------------------------------------------------
(* The environment                                                         *)

LEMMA WindowAgesStep ==
    ASSUME IInv, ProperBounds, NEW w \in Windows, WindowAges(w)
    PROVE  IInv'
<1>1. /\ UNCHANGED <<mem, disk, gen, body, store, apc, aw, atodo, halted, rpc, rw, qpc, qw, qsaw,
                     verdict, spc, sw, dest, excused, trouble>>
      /\ aged' = aged \cup {w} /\ mem[w]["marker"] # None /\ ~(apc = "sync" /\ aw = w)
  BY DEF WindowAges, Present, finalizerVars, archiverVars, reaperVars, readerVars, restoreVars
<1>2. TypeOK'  BY <1>1 DEF IInv, TypeOK
<1>3. ArchiverInv'
  <2>1. apc \in Publishing \cup {"sync"} => aw # w  BY <1>1 DEF IInv, ArchiverInv
  <2> QED  BY <1>1, <2>1 DEF IInv, ArchiverInv, Receipt
<1>4. ReaperInv' /\ RestoreInv'
  BY <1>1 DEF IInv, ReaperInv, RestoreInv, Receipt, Tombstoned
<1>5. ASSUME NEW v \in Windows PROVE WindowInv(v)'
  <2>1. WindowInv(v)  BY DEF IInv
  <2> QED  BY <1>1, <2>1, OtherWindow
<1> QED  BY <1>2, <1>3, <1>4, <1>5 DEF IInv

LEMMA StoreLosesStep ==
    ASSUME IInv, ProperBounds, NEW w \in Windows, NEW n \in Objects, StoreLoses(w, n)
    PROVE  IInv'
<1>1. /\ UNCHANGED <<mem, disk, gen, body, aged, apc, aw, atodo, halted, rpc, rw, qpc, qw, qsaw,
                     verdict, spc, sw, dest>>
      /\ trouble' \in 0..MaxTrouble /\ store' = [store EXCEPT ![w][n] = None]
  BY TroubleType DEF StoreLoses, finalizerVars, archiverVars, reaperVars, readerVars, restoreVars
<1>2. /\ excused \subseteq excused' /\ excused' \subseteq excused \cup {w}
      /\ (\E f \in Frames : mem[w][f] = None) \/ (rw = w /\ rpc # "idle") => w \in excused'
  BY DEF StoreLoses, Present
<1>3. store \in [Windows -> [Objects -> 0..MaxGenerations]] /\ None \in 0..MaxGenerations
  BY ConstantFacts DEF IInv, TypeOK
<1>4. /\ store' \in [Windows -> [Objects -> 0..MaxGenerations]]
      /\ store'[w][n] = None /\ \A m \in Objects : m # n => store'[w][m] = store[w][m]
      /\ \A v \in Windows : v # w => store'[v] = store[v]
  BY <1>1, <1>3
<1>5. TypeOK'  BY <1>1, <1>2, <1>4 DEF IInv, TypeOK
<1>6. ArchiverInv'  BY <1>1 DEF IInv, ArchiverInv, Receipt
<1>7. ReaperInv'
  <2>1. CASE rpc = "idle"  BY <1>1, <2>1 DEF ReaperInv
  <2>2. CASE rpc # "idle" /\ rw # w
    <3>1. rw \in aged /\ rw \in Windows /\ mem[rw] \in disk[rw]  BY <2>2 DEF IInv, ReaperInv, TypeOK
    <3> QED  BY <1>1, <1>2, <1>4, <2>2, <3>1, ReaperFrame
  <2>3. CASE rpc # "idle" /\ rw = w
    <3>1. w \in excused'  BY <1>2, <2>3
    <3> QED  BY <1>1, <2>3, <3>1 DEF IInv, ReaperInv, Receipt, Tombstoned
  <2> QED  BY <2>1, <2>2, <2>3
<1>8. RestoreInv'
  <2>1. ASSUME NEW v \in Windows PROVE store'[v]["receipt"] \in 0..gen[v]
    <3>1. store[v]["receipt"] \in 0..gen[v] /\ 0 \in 0..gen[v]  BY TypeFacts DEF IInv, RestoreInv
    <3> QED  BY <1>4, <3>1, ConstantFacts
  <2> QED  BY <1>1, <2>1, RestoreFrame
<1>9. ASSUME NEW v \in Windows PROVE WindowInv(v)'
  <2>1. WindowInv(v)  BY DEF IInv
  <2>2. CASE v # w  BY <1>1, <1>2, <1>4, <2>1, <2>2, OtherWindow
  <2>3. CASE v = w
    <3>1. \A d \in disk[w] : EntryInv(w, d)'
      BY <1>1, <2>1, <2>3 DEF WindowInv, EntryInv, Tombstoned, Receipt
    <3>2. Receipt(w)' = Receipt(w)  BY <1>1 DEF Receipt
    <3>3. w \notin excused' => \A f \in Frames : mem[w][f] # None  BY <1>2
    <3> QED  BY <1>1, <2>1, <2>3, <3>1, <3>2, <3>3 DEF WindowInv
  <2> QED  BY <2>2, <2>3
<1> QED  BY <1>5, <1>6, <1>7, <1>8, <1>9 DEF IInv

\* A decayed entry stays an entry, in memory and in whatever may survive.
LEMMA DecayStep ==
    ASSUME IInv, ProperBounds, NEW w \in Windows, NEW n \in Frames \cup {"marker"}, Decay(w, n)
    PROVE  IInv'
<1> DEFINE rot(d) == [d EXCEPT ![n] = IF d[n] = None THEN d[n] ELSE Rotten]
<1>1. /\ UNCHANGED <<gen, body, store, aged, apc, aw, atodo, halted, rpc, rw, qpc, qw, qsaw,
                     verdict, spc, sw, dest, excused>>
      /\ trouble' \in 0..MaxTrouble /\ mem[w][n] # None
      /\ mem' = [mem EXCEPT ![w][n] = Rotten]
      /\ disk' = [disk EXCEPT ![w] = {rot(d) : d \in disk[w]}]
  <2>1. disk' = [disk EXCEPT ![w] = {rot(d) : d \in disk[w]}]
    BY DEF Decay
  <2> QED
    BY <2>1, TroubleType DEF Decay, Present, finalizerVars, archiverVars, reaperVars, readerVars, restoreVars
<1>2. /\ mem \in [Windows -> [Names -> 0..Rotten]] /\ disk \in [Windows -> SUBSET [Names -> 0..Rotten]]
      /\ (\A v \in Windows : mem[v] \in disk[v]) /\ aged \subseteq Windows
  BY DEF IInv, TypeOK
<1>3. /\ n \in Names /\ n # "receipt" /\ "receipt" \in Names /\ "marker" \in Names
      /\ Frames \subseteq Names /\ Rotten # None /\ Rotten \in 0..Rotten
  BY ConstantFacts DEF Frames
<1>4. ASSUME NEW d \in disk[w]
      PROVE  /\ rot(d) \in [Names -> 0..Rotten]
             /\ \A m \in Names : m # n => rot(d)[m] = d[m]
             /\ \A m \in Names : rot(d)[m] = None <=> d[m] = None
             /\ \A m \in Names : rot(d)[m] = d[m] \/ rot(d)[m] = Rotten
  <2>1. d \in [Names -> 0..Rotten]  BY <1>2
  <2> QED  BY <1>3, <2>1
<1>5. mem'[w] = rot(mem[w]) /\ \A v \in Windows : v # w => mem'[v] = mem[v]
  <2>1. mem'[w] = [mem[w] EXCEPT ![n] = Rotten]  BY <1>1, <1>2
  <2> QED  BY <1>1, <1>2, <2>1
<1> HIDE DEF rot
<1>6. disk'[w] = {rot(d) : d \in disk[w]} /\ \A v \in Windows : v # w => disk'[v] = disk[v]
  BY <1>1, <1>2
<1>7. /\ mem'[w]["receipt"] = mem[w]["receipt"]
      /\ \A m \in Names : mem'[w][m] = None <=> mem[w][m] = None
  BY <1>2, <1>3, <1>4, <1>5
<1>8. TypeOK'
  <2>1. mem' \in [Windows -> [Names -> 0..Rotten]]  BY <1>1, <1>2, <1>3
  <2>2. disk' \in [Windows -> SUBSET [Names -> 0..Rotten]]
    <3>1. PICK S : S = {rot(d) : d \in disk[w]}  OBVIOUS
    <3>2. S \subseteq [Names -> 0..Rotten]  BY <1>4, <3>1
    <3> QED  BY <1>1, <1>2, <3>1, <3>2
  <2>3. \A v \in Windows : mem'[v] \in disk'[v]  BY <1>2, <1>5, <1>6
  <2> QED  BY <1>1, <2>1, <2>2, <2>3 DEF IInv, TypeOK
<1>9. ArchiverInv'
  <2>1. \A v \in Windows : mem'[v]["receipt"] = mem[v]["receipt"]
                           /\ (mem'[v]["marker"] = None <=> mem[v]["marker"] = None)
    BY <1>3, <1>5, <1>7
  <2> QED  BY <1>1, <1>2, <2>1 DEF IInv, ArchiverInv, Receipt, Publishing
<1>10. \A v \in Windows : Tombstoned(v) => Tombstoned(v)'
  <2>1. ASSUME NEW v \in Windows, Tombstoned(v) PROVE Tombstoned(v)'
    <3>1. CASE v # w  BY <1>1, <1>5, <1>6, <2>1, <3>1 DEF Tombstoned, Receipt
    <3>2. CASE v = w
      <4>1. \A d \in disk[w] : rot(d)["receipt"] = Receipt(w) /\ rot(d)["marker"] \in {Receipt(w), Rotten}
        BY <1>3, <1>4, <2>1, <3>2 DEF Tombstoned
      <4>2. Receipt(w)' = Receipt(w)  BY <1>7 DEF Receipt
      <4> QED  BY <1>1, <1>6, <2>1, <3>2, <4>1, <4>2 DEF Tombstoned
    <3> QED  BY <3>1, <3>2
  <2> QED  BY <2>1
<1>11. ReaperInv'
  <2>1. CASE rpc = "idle"  BY <1>1, <2>1 DEF ReaperInv
  <2>2. CASE rpc # "idle" /\ rw # w
    <3>1. rw \in aged /\ rw \in Windows /\ mem[rw] \in disk[rw]  BY <1>2, <2>2 DEF IInv, ReaperInv
    <3> QED  BY <1>1, <1>5, <1>6, <2>2, <3>1, ReaperFrame
  <2>3. CASE rpc # "idle" /\ rw = w
    <3>1. /\ w \in aged /\ Receipt(w) # None /\ mem[w]["marker"] \in {Receipt(w), Rotten}
          /\ w \notin excused => \A f \in Frames : store[w][f] = body[w][Receipt(w)]
          /\ rpc # "confirm" => Tombstoned(w)
          /\ rpc = "evidence" => disk[w] = {mem[w]}
          /\ rpc = "syncEvidence" => mem[w]["evidence"] = None
          /\ rpc \in {"provenance", "syncProvenance"} => \A d \in disk[w] : d["evidence"] = None
      BY <2>3 DEF IInv, ReaperInv
    <3>2. Receipt(w)' = Receipt(w)  BY <1>7 DEF Receipt
    <3>3. mem'[w]["marker"] \in {Receipt(w), Rotten}  BY <1>2, <1>3, <1>4, <1>5, <3>1
    <3>4. rpc # "confirm" => Tombstoned(w)'  BY <1>10, <3>1
    <3>5. rpc = "evidence" => disk'[w] = {mem'[w]}  BY <1>5, <1>6, <3>1
    <3>6. "evidence" \in Names  BY ConstantFacts
    <3>7. rpc = "syncEvidence" => mem'[w]["evidence"] = None  BY <1>7, <3>1, <3>6
    <3>8. rpc \in {"provenance", "syncProvenance"} => \A d \in disk'[w] : d["evidence"] = None
      BY <1>4, <1>6, <3>1, <3>6
    <3> QED  BY <1>1, <2>3, <3>1, <3>2, <3>3, <3>4, <3>5, <3>7, <3>8 DEF ReaperInv
  <2> QED  BY <2>1, <2>2, <2>3
<1>12. RestoreInv'
  <2>1. \A v \in Windows : store[v]["receipt"] \in 0..gen[v]  BY DEF IInv, RestoreInv
  <2> QED  BY <1>1, <2>1, RestoreFrame
<1>13. ASSUME NEW v \in Windows PROVE WindowInv(v)'
  <2>1. WindowInv(v)  BY DEF IInv
  <2>2. CASE v # w  BY <1>1, <1>5, <1>6, <2>1, <2>2, OtherWindow
  <2>3. CASE v = w
    <3>1. Receipt(w)' = Receipt(w)  BY <1>7 DEF Receipt
    <3>2. gen[w] # 0
      <4>1. ASSUME gen[w] = 0 PROVE FALSE
        <5>1. mem[w] = NoEntries  BY <1>2, <2>1, <2>3, <4>1 DEF WindowInv
        <5> QED  BY <1>1, <1>3, <5>1 DEF NoEntries
      <4> QED  BY <4>1
    <3>3. ASSUME NEW e \in disk'[w] PROVE EntryInv(w, e)'
      <4>1. PICK d \in disk[w] : e = rot(d)  BY <1>6
      <4>2. EntryInv(w, d)  BY <2>1, <2>3 DEF WindowInv
      <4>3. e["receipt"] = d["receipt"] /\ \A m \in Names : e[m] = None <=> d[m] = None
        BY <1>3, <1>4, <4>1
      <4>4. "evidence" \in Names /\ "provenance" \in Names  BY ConstantFacts
      <4> QED  BY <1>1, <1>3, <1>7, <1>10, <3>1, <4>2, <4>3, <4>4 DEF EntryInv
    <3> QED  BY <1>1, <1>3, <1>7, <2>1, <2>3, <3>1, <3>2, <3>3 DEF WindowInv
  <2> QED  BY <2>2, <2>3
<1> QED  BY <1>8, <1>9, <1>11, <1>12, <1>13 DEF IInv

\* A power loss leaves one of the directories that may survive: the receipt that
\* was there or none, and a missing frame only under its tombstone.
LEMMA PowerLossStep ==
    ASSUME IInv, ProperBounds, PowerLoss
    PROVE  IInv'
<1>1. /\ UNCHANGED <<gen, body, store, spc, sw, dest, excused>>
      /\ trouble' \in 0..MaxTrouble
      /\ apc' = "idle" /\ atodo' = {} /\ aw' = None /\ halted' = FALSE
      /\ rpc' = "idle" /\ rw' = None
      /\ qpc' = "idle" /\ qw' = None /\ qsaw' = {} /\ verdict' = "none"
      /\ aged' = {w \in aged : mem'[w]["marker"] # None}
  BY TroubleType DEF PowerLoss, StopArchiver, StopReaper, StopReader, finalizerVars, restoreVars
<1>2. PICK m \in [Windows -> UNION {disk[w] : w \in Windows}] :
          m = mem' /\ \A w \in Windows : m[w] \in disk[w]
  BY DEF PowerLoss
<1>3. disk' = [w \in Windows |-> {m[w]}]  BY <1>2 DEF PowerLoss
<1>4. disk \in [Windows -> SUBSET [Names -> 0..Rotten]]  BY DEF IInv, TypeOK
<1>5. TypeOK'
  <2>1. m \in [Windows -> [Names -> 0..Rotten]]  BY <1>2, <1>4
  <2>2. disk' \in [Windows -> SUBSET [Names -> 0..Rotten]]  BY <1>3, <2>1
  <2>3. \A w \in Windows : mem'[w] \in disk'[w]  BY <1>2, <1>3
  <2>4. None \in 0..MaxWindows  BY DEF None, ProperBounds
  <2> QED  BY <1>1, <1>2, <2>1, <2>2, <2>3, <2>4 DEF IInv, TypeOK
<1>6. ArchiverInv' /\ ReaperInv'
  <2>1. "idle" \notin Publishing \cup {"sync"}  BY DEF Publishing, Objects, Frames
  <2> QED  BY <1>1, <2>1 DEF ArchiverInv, ReaperInv
<1>7. RestoreInv'
  <2>1. \A v \in Windows : store[v]["receipt"] \in 0..gen[v]  BY DEF IInv, RestoreInv
  <2> QED  BY <1>1, <2>1, RestoreFrame
<1>8. ASSUME NEW w \in Windows PROVE WindowInv(w)'
  <2>1. PICK d \in disk[w] : d = m[w]  BY <1>2
  <2>2. mem'[w] = d /\ disk'[w] = {d} /\ Receipt(w)' = d["receipt"]
    BY <1>2, <1>3, <2>1 DEF Receipt
  <2>3. WindowInv(w)  BY DEF IInv
  <2>4. EntryInv(w, d)  BY <2>3 DEF WindowInv
  <2>5. d["receipt"] \in 0..gen[w]
    <3>1. Receipt(w) \in 0..gen[w] /\ None \in 0..gen[w]  BY TypeFacts DEF None
    <3> QED  BY <2>4, <3>1 DEF EntryInv
  <2>6. gen[w] = 0 => disk'[w] = {NoEntries}  BY <2>2, <2>3 DEF WindowInv
  <2>7. Tombstoned(w) => Tombstoned(w)'
    <3>1. ASSUME Tombstoned(w) PROVE Tombstoned(w)'
      <4>1. /\ w \in aged /\ Receipt(w) # None /\ d["receipt"] = Receipt(w)
            /\ d["marker"] \in {Receipt(w), Rotten}
        BY <3>1 DEF Tombstoned
      <4>2. w \in aged'  BY <1>1, <2>2, <4>1, ConstantFacts
      <4> QED  BY <2>2, <4>1, <4>2 DEF Tombstoned
    <3> QED  BY <3>1
  <2>8. EntryInv(w, d)'  BY <1>1, <2>2, <2>4, <2>7 DEF EntryInv
  <2>9. NoEntries' = NoEntries  BY DEF NoEntries
  <2>10. d["receipt"] # None /\ w \notin excused =>
            \A n \in Frames : d[n] = None => store[w][n] = body[w][d["receipt"]]
    BY <2>3, <2>4 DEF WindowInv, EntryInv
  <2> QED  BY <1>1, <2>2, <2>5, <2>6, <2>8, <2>9, <2>10 DEF WindowInv
<1> QED  BY <1>5, <1>6, <1>7, <1>8 DEF IInv

-----------------------------------------------------------------------------
(* Theorems                                                                *)

LEMMA InitInv ==
    ASSUME ProperBounds, Init
    PROVE  IInv
<1>1. TypeOK
  <2>1. /\ None \in 0..Rotten /\ None \in 0..MaxGenerations /\ None \in 0..MaxWindows /\ 0 \in 0..MaxTrouble
        /\ 0 \in 0..MaxGenerations
    BY ConstantFacts DEF ProperBounds, None
  <2>2. /\ mem \in [Windows -> [Names -> 0..Rotten]] /\ disk \in [Windows -> SUBSET [Names -> 0..Rotten]]
        /\ \A w \in Windows : mem[w] \in disk[w]
    BY <2>1 DEF Init
  <2>3. /\ gen \in [Windows -> 0..MaxGenerations]
        /\ body \in [Windows -> [Generations -> 0..MaxGenerations]]
        /\ store \in [Windows -> [Objects -> 0..MaxGenerations]]
        /\ dest \in [Windows -> [Objects -> 0..MaxGenerations]]
    BY <2>1 DEF Init
  <2>4. sw \in [window : 0..MaxWindows, gen : 0..MaxGenerations]  BY <2>1 DEF Init
  <2> QED  BY <2>1, <2>2, <2>3, <2>4 DEF Init, TypeOK
<1>2. ArchiverInv /\ ReaperInv
  <2>1. "idle" \notin Publishing \cup {"sync"}  BY DEF Publishing, Objects, Frames
  <2> QED  BY <2>1 DEF Init, ArchiverInv, ReaperInv
<1>3. RestoreInv
  BY ConstantFacts DEF Init, RestoreInv
<1>4. ASSUME NEW w \in Windows PROVE WindowInv(w)
  <2>1. disk[w] = {NoEntries} /\ mem[w] = NoEntries /\ gen[w] = 0  BY DEF Init, NoEntries
  <2>2. \A n \in Names : mem[w][n] = None  BY <2>1 DEF NoEntries
  <2>3. Receipt(w) = None  BY <2>2, ConstantFacts DEF Receipt
  <2>4. EntryInv(w, mem[w])  BY <2>1, <2>2, <2>3, ConstantFacts DEF EntryInv
  <2> QED  BY <2>1, <2>3, <2>4, ConstantFacts DEF WindowInv
<1> QED  BY <1>1, <1>2, <1>3, <1>4 DEF IInv

LEMMA StepInv ==
    ASSUME ProperBounds, IInv, [Next]_vars
    PROVE  IInv'
<1>1. CASE Finalizer  BY <1>1, FinalizeStep, FinalizeSyncStep DEF Finalizer
<1>2. CASE Archiver
  BY <1>2, ArchiverIdleSteps, ArchiveWindowStep, PutObjectStep, VerifyPutStep, WriteMarkerStep,
     SyncMarkerStep DEF Archiver
<1>3. CASE Reaper  BY <1>3, ConsiderStep, ReaperSyncs, RemoveFrameStep DEF Reaper
<1>4. CASE Reader  BY <1>4, ReaderStep
<1>5. CASE Restore  BY <1>5, RestoreStartStep, RestoreObjectStep DEF Restore
<1>6. CASE Environment
  BY <1>6, SyncMarkerFailsStep, ArchiverIdleSteps, ReaperStops, KillRestoreStep, PowerLossStep,
     WindowAgesStep, DecayStep, StoreLosesStep DEF Environment
<1>7. CASE UNCHANGED vars
  <2>1. UNCHANGED <<mem, disk, gen, body, store, aged, apc, aw, atodo, halted, rpc, rw, qpc, qw, qsaw,
                    verdict, spc, sw, dest, excused, trouble>>
    BY <1>7 DEF vars, finalizerVars, archiverVars, reaperVars, readerVars, restoreVars
  <2>2. TypeOK' /\ ArchiverInv' /\ ReaperInv' /\ RestoreInv'
    BY <2>1 DEF IInv, TypeOK, ArchiverInv, ReaperInv, RestoreInv, Receipt, Tombstoned
  <2> QED  BY <2>1, <2>2, QuietStep
<1> QED  BY <1>1, <1>2, <1>3, <1>4, <1>5, <1>6, <1>7 DEF Next

\* The inductive invariant, for any number of windows and of troubles, whether or
\* not the file system orders directory changes.
THEOREM Invariance == Spec => []IInv
<1>1. Init => IInv  BY InitInv, BoundsAssumption
<1>2. IInv /\ [Next]_vars => IInv'  BY StepInv, BoundsAssumption
<1> QED  BY <1>1, <1>2, PTL DEF Spec

LEMMA KeptFacts ==
    ASSUME ProperBounds, IInv
    PROVE  WindowsAreKept
<1>1. ASSUME NEW w \in Committed
      PROVE  /\ w \in Windows /\ WindowInv(w) /\ EntryInv(w, mem[w]) /\ mem[w] \in disk[w]
             /\ Receipt(w) # None /\ Receipt(w) \in Generations /\ gen[w] > 0
  <2>1. w \in Windows /\ Receipt(w) # None  BY DEF Committed, Present, Receipt
  <2>2. WindowInv(w) /\ mem[w] \in disk[w] /\ Receipt(w) \in 0..gen[w] /\ gen[w] \in Nat
        /\ Receipt(w) \in Generations
    BY <2>1, TypeFacts
  <2>3. EntryInv(w, mem[w])  BY <2>2 DEF WindowInv
  <2> QED  BY <2>1, <2>2, <2>3, ConstantFacts
<1>2. WindowNeverLost
  BY <1>1, ConstantFacts DEF WindowNeverLost, WindowInv, Present, Named, Receipt
<1>3. EvidenceGoesFirst
  BY <1>1 DEF EvidenceGoesFirst, EntryInv, Present
<1>4. TombstoneExplainsAbsence
  <2>1. ASSUME NEW w \in Committed, \E n \in Frames : ~Present(w, n)
        PROVE  /\ MarkerBinds(w) \/ mem[w]["marker"] = Rotten
               /\ Durable(w, "marker") /\ Durable(w, "receipt")
    <3>1. Tombstoned(w)  BY <1>1, <2>1 DEF EntryInv, Present
    <3>2. mem[w]["marker"] \in {Receipt(w), Rotten}  BY <1>1, <3>1 DEF Tombstoned
    <3>3. MarkerBinds(w) \/ mem[w]["marker"] = Rotten  BY <1>1, <3>2 DEF MarkerBinds, Receipt
    <3>4. Durable(w, "marker") /\ Durable(w, "receipt")
      BY <1>1, <3>1, ConstantFacts DEF Durable, Tombstoned
    <3> QED  BY <3>3, <3>4
  <2> QED  BY <2>1 DEF TombstoneExplainsAbsence
<1>5. RestoredWindowIsWhole  BY DEF RestoredWindowIsWhole, IInv, RestoreInv
<1> QED  BY <1>2, <1>3, <1>4, <1>5 DEF WindowsAreKept

\* WindowsAreKept for every number of windows: no frame that a receipt names is
\* ever gone from both the disk and the store, a missing frame has a durable marker
\* for its receipt, evidence goes before provenance, and a restored receipt has
\* both frames (archiver/canonical.py, reaper/canonical.py, canonical_restore.py).
THEOREM WindowsKept == Spec => []WindowsAreKept
<1>1. IInv => WindowsAreKept  BY KeptFacts, BoundsAssumption
<1> QED  BY <1>1, Invariance, PTL
=============================================================================
