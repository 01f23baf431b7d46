------------------------ MODULE ImmutableStoreProofs ------------------------
(***************************************************************************)
(* Proofs about one key of the object store: for any number of writers,    *)
(* requests, kills, failing calls, power losses and changes by others,     *)
(* what a put returned stays, a conflict is a real one, and a verified     *)
(* retrieval ends with the object its receipt names.                       *)
(***************************************************************************)
EXTENDS ImmutableStore, TLAPS

-----------------------------------------------------------------------------
(* The inductive invariant                                                 *)

Bytes  == {None, Torn, Foreign} \cup {r[w].bytes : r \in Requests, w \in Writers}
Types  == {None, DefaultContentType} \cup {r[w].attrs : r \in Requests, w \in Writers}
Object == [bytes : Bytes, synced : BOOLEAN, gen : Nat]
Ended  == {"idle", "failed", "stored", "conflict"}
Local  == {"head", "mkdir", "mkdirSync", "stage", "link", "linkSync", "attributes", "metaSync",
           "replace", "replaceSync", "repaired", "check", "resync"}
Remote == {"upload", "uploaded", "resolve"}

\* Steps of a put that follow its link or its match with the object.
Holding == {"linkSync", "attributes", "metaSync", "replace", "replaceSync", "repaired",
            "check", "resync"}
Attributing == {"attributes", "metaSync", "replace", "replaceSync"}

TypeOK ==
    /\ provider \in {"local", "gcs"} /\ request \in Requests
    /\ object \in Object /\ attrs \in Types /\ safe \in [object : Object, attrs : Types]
    /\ dirs \in [Dirs -> {"absent", "made", "durable"}]
    /\ writer \in [Writers -> [pc : Ended \cup Local \cup Remote,
                               then : {None, "repaired", "check"}, temp : BOOLEAN]]
    /\ reader = [pc |-> reader.pc, want |-> reader.want, gen |-> reader.gen, bytes |-> reader.bytes]
    /\ reader.pc \in {"idle", "reading", "recheck", "verified"}
    /\ reader.gen \in Nat
    /\ promised \subseteq [bytes : Bytes, attrs : Types]

\* Nobody but the store touched the object.
Ours == "object" \notin lost

\* Where a put can be, and what it relies on there.
PutInv(w, r) ==
    /\ provider = "local" => r.pc \notin Remote
    /\ provider = "gcs" => r.pc \notin Local
    /\ r.pc = "link" => r.temp
    /\ r.pc = "check" => r.then = "check"
    /\ r.pc \in Attributing => r.then # None /\ request[w].attrs # None
    /\ Ours /\ r.pc \in Holding => object.bytes = request[w].bytes
    /\ r.then = "check" /\ r.pc \in Attributing \cup {"check"} => safe.object = object
    /\ r.pc \in Holding \cup {"resolve"} => object.bytes # None
    /\ Ours /\ Agreed =>
         /\ r.pc \in {"replaceSync", "repaired", "resync"} => attrs = request[w].attrs
         /\ r.pc = "check" /\ request[w].attrs # None =>
               attrs = request[w].attrs /\ safe.attrs = attrs
    /\ r.pc = "conflict" => ~Ours \/ \E v \in Writers : request[v] # request[w]

\* What is stored, or was fsynced, was put by a writer.
StoredInv ==
    /\ object.bytes # None => object.synced
    /\ safe.object.bytes # None => safe.object.synced
    /\ attrs = None => safe.attrs = None
    /\ Ours =>
         /\ object.bytes # None => \E v \in Writers : object.bytes = request[v].bytes
         /\ safe.object.bytes # None => \E v \in Writers : safe.object.bytes = request[v].bytes
         /\ attrs # None => \E v \in Writers : attrs = Wanted(v)
         /\ safe.attrs # None => \E v \in Writers : safe.attrs = Wanted(v)
    /\ provider = "gcs" =>
         /\ lost \subseteq {"object"} /\ safe.object = object /\ safe.attrs = attrs
         /\ Ours /\ object.bytes # None =>
               \E v \in Writers : object.bytes = request[v].bytes /\ attrs = Wanted(v)

\* A put that returned is on disk as it is in the directories.
PromiseInv ==
    \A p \in promised :
        /\ \E v \in Writers : p.bytes = request[v].bytes /\ p.attrs = Wanted(v)
        /\ Ours /\ "data" \notin lost => object.bytes = p.bytes /\ safe.object = object
        /\ lost = {} /\ Agreed => attrs = p.attrs /\ safe.attrs = attrs

\* The generation a retrieval opened is not reused.
ReadInv ==
    /\ reader.pc # "idle" => reader.want \in promised /\ reader.gen <= object.gen
    /\ reader.pc \in {"recheck", "verified"} => reader.bytes = reader.want.bytes
    /\ reader.pc = "recheck" /\ reader.gen = object.gen => object.bytes = reader.want.bytes
    /\ reader.pc = "verified" => object.bytes = reader.want.bytes

IInv ==
    /\ TypeOK /\ StoredInv /\ PromiseInv /\ ReadInv
    /\ \A w \in Writers : PutInv(w, writer[w])

-----------------------------------------------------------------------------
(* Records                                                                 *)

Put == [pc : Ended \cup Local \cup Remote, then : {None, "repaired", "check"}, temp : BOOLEAN]

\* Goto changes the step and nothing else (put_immutable).
LEMMA GotoFacts ==
    ASSUME NEW x \in Put, NEW l \in Ended \cup Local \cup Remote
    PROVE  /\ [x EXCEPT !.pc = l] \in Put
           /\ [x EXCEPT !.pc = l].pc = l
           /\ [x EXCEPT !.pc = l].then = x.then
           /\ [x EXCEPT !.pc = l].temp = x.temp
BY Zenon DEF Put

\* The head and the fsync of the link also choose what follows the sidecar.
LEMMA GotoThenFacts ==
    ASSUME NEW x \in Put, NEW l \in Ended \cup Local \cup Remote, NEW n \in {None, "repaired", "check"}
    PROVE  /\ [x EXCEPT !.pc = l, !.then = n] \in Put
           /\ [x EXCEPT !.pc = l, !.then = n].pc = l
           /\ [x EXCEPT !.pc = l, !.then = n].then = n
           /\ [x EXCEPT !.pc = l, !.then = n].temp = x.temp
BY Zenon DEF Put

\* The temporary of a put is there (_stage).
LEMMA StageFacts ==
    ASSUME NEW x \in Put
    PROVE  /\ [x EXCEPT !.pc = "link", !.temp = TRUE] \in Put
           /\ [x EXCEPT !.pc = "link", !.temp = TRUE].pc = "link"
           /\ [x EXCEPT !.pc = "link", !.temp = TRUE].temp
<1>1. "link" \in Ended \cup Local \cup Remote  BY DEF Local
<1> QED  BY <1>1, Zenon DEF Put

\* A put that is over (put_immutable returns or raises).
LEMMA RestFacts ==
    ASSUME NEW l \in Ended
    PROVE  /\ [Resting EXCEPT !.pc = l] \in Put
           /\ [Resting EXCEPT !.pc = l].pc = l /\ [Resting EXCEPT !.pc = l].then = None
<1>1. l \in Ended \cup Local \cup Remote  OBVIOUS
<1>2. Resting \in Put
  <2>1. "idle" \in Ended \cup Local \cup Remote  BY DEF Ended
  <2> QED  BY <2>1, Zenon DEF Put, Resting
<1>3. Resting.then = None  BY DEF Resting
<1> QED  BY <1>1, <1>2, <1>3, GotoFacts

LEMMA RestingFacts == Resting \in Put /\ Resting.pc = "idle" /\ Resting.then = None
<1>1. "idle" \in Ended \cup Local \cup Remote  BY DEF Ended
<1>2. Resting \in Put  BY <1>1, Zenon DEF Put, Resting
<1> QED  BY <1>2 DEF Resting

\* A put that is over relies on nothing.
LEMMA EndedPut ==
    ASSUME NEW w \in Writers, NEW r, r.pc \in {"idle", "failed", "stored"}
    PROVE  PutInv(w, r)
BY DEF PutInv, Local, Remote, Holding, Attributing

-----------------------------------------------------------------------------
(* Steps that move one put and nothing it could disturb                    *)

LEMMA WriterStep ==
    ASSUME IInv, NEW w \in Writers, NEW r \in Put, PutInv(w, r),
           writer' = [writer EXCEPT ![w] = r],
           UNCHANGED <<provider, request, object, attrs, safe, reader, promised, lost>>,
           dirs' \in [Dirs -> {"absent", "made", "durable"}]
    PROVE  IInv'
<1>1. TypeOK'
  <2>1. writer' \in [Writers -> Put]  BY DEF IInv, TypeOK, Put
  <2> QED  BY <2>1 DEF IInv, TypeOK, Put
<1>2. StoredInv' /\ PromiseInv' /\ ReadInv'
  BY DEF IInv, StoredInv, PromiseInv, ReadInv, Ours, Wanted, Agreed
<1>3. ASSUME NEW v \in Writers PROVE PutInv(v, writer[v])'
  <2>1. PICK s : s = writer'[v]  OBVIOUS
  <2>2. PutInv(v, s)
    BY <2>1 DEF IInv, TypeOK
  <2>3. PutInv(v, s)'
    BY <2>2 DEF PutInv, Ours, Agreed
  <2> QED  BY <2>1, <2>3 DEF PutInv
<1> QED  BY <1>1, <1>2, <1>3 DEF IInv

-----------------------------------------------------------------------------
(* One lemma per operation.  First those that only move a put.             *)

LEMMA TypeFacts ==
    ASSUME IInv, NEW w \in Writers
    PROVE  /\ writer[w] \in Put /\ PutInv(w, writer[w])
           /\ writer[w].pc \in Ended \cup Local \cup Remote
           /\ writer[w].then \in {None, "repaired", "check"}
<1>1. writer[w] \in Put /\ PutInv(w, writer[w])  BY DEF IInv, TypeOK, Put
<1> QED  BY <1>1 DEF Put

\* What callers put is no marker of the model, and is of its type.
LEMMA RequestFacts ==
    ASSUME IInv, ProperRequests, NEW w \in Writers
    PROVE  /\ request[w].bytes \in Bytes /\ request[w].attrs \in Types /\ Wanted(w) \in Types
           /\ request[w].bytes # None
<1>1. request \in Requests  BY DEF IInv, TypeOK
<1>2. request[w].bytes \in Bytes  BY <1>1 DEF Bytes
<1>3. request[w].attrs \in Types /\ DefaultContentType \in Types  BY <1>1 DEF Types
<1> QED  BY <1>1, <1>2, <1>3 DEF ProperRequests, Wanted

\* A put that returns without a promise leaves everything to the others.
LEMMA ReturnStep ==
    ASSUME IInv, NEW w \in Writers, NEW l \in {"failed", "conflict"}, Return(w, l),
           l = "conflict" => ~Ours \/ \E v \in Writers : request[v] # request[w],
           UNCHANGED <<provider, request, disk, reader, promised, lost>>
    PROVE  IInv'
<1>0. PICK r : r = [Resting EXCEPT !.pc = l]  OBVIOUS
<1>1. r \in Put /\ r.pc = l  BY <1>0, RestFacts DEF Ended
<1>2. PutInv(w, r)
  <2>1. CASE l = "failed"  BY <1>1, <2>1, EndedPut
  <2>2. CASE l = "conflict"
    BY <1>1, <2>2 DEF PutInv, Local, Remote, Holding, Attributing
  <2> QED  BY <2>1, <2>2
<1>3. writer' = [writer EXCEPT ![w] = r]  BY <1>0 DEF Return
<1> QED  BY <1>1, <1>2, <1>3, WriterStep DEF disk, IInv, TypeOK

LEMMA BeginStep ==
    ASSUME IInv, NEW w \in Writers, Begin(w)
    PROVE  IInv'
<1> DEFINE l == IF provider = "local" THEN "head" ELSE "upload"
<1>1. l \in Ended \cup Local \cup Remote  BY DEF Local, Remote
<1> DEFINE r == [writer[w] EXCEPT !.pc = l]
<1>2. r \in Put /\ r.pc = l /\ r.then = writer[w].then  BY <1>1, TypeFacts, GotoFacts
<1>3. provider \in {"local", "gcs"}  BY DEF IInv, TypeOK
<1>4. PutInv(w, r)
  BY <1>2, <1>3 DEF PutInv, Local, Remote, Holding, Attributing
<1>5. PICK s : s = r  OBVIOUS
<1>6. s \in Put /\ PutInv(w, s)  BY <1>2, <1>4, <1>5
<1>7. writer' = [writer EXCEPT ![w] = s]
  BY <1>5, TypeFacts DEF Begin, Goto, IInv, TypeOK
<1> QED  BY <1>6, <1>7, WriterStep DEF disk, IInv, TypeOK, Begin

\* With one request for all, the object is the one everybody asks for.
LEMMA NoFalseConflict ==
    ASSUME IInv, NEW w \in Writers, provider = "local", object.bytes # None, Ours,
           \A v \in Writers : request[v] = request[w]
    PROVE  Matches(w) /\ attrs \in {None, request[w].attrs}
BY DEF IInv, StoredInv, Matches, Wanted

LEMMA HeadStep ==
    ASSUME IInv, NEW w \in Writers, HeadObject(w)
    PROVE  IInv'
<1> DEFINE l == IF object.bytes = None THEN "mkdir" ELSE Existing(w)
<1>1. l \in {"mkdir", "resync", "attributes", "conflict"}
  BY DEF Existing
<1>2. l \in Ended \cup Local \cup Remote  BY <1>1 DEF Local, Ended
<1> DEFINE r == [writer[w] EXCEPT !.pc = l, !.then = "repaired"]
<1>3. r \in Put /\ r.pc = l /\ r.then = "repaired"
  <2>1. writer[w] \in Put /\ "repaired" \in {None, "repaired", "check"}  BY TypeFacts
  <2> HIDE DEF l
  <2> QED  BY <1>2, <2>1, GotoThenFacts
<1>4. provider = "local"
  BY TypeFacts DEF HeadObject, PutInv, Local, IInv, TypeOK
<1>5. l = "resync" => Matches(w) /\ attrs = request[w].attrs /\ object.bytes # None
  BY DEF Existing, Matches
<1>6. l = "attributes" => Matches(w) /\ request[w].attrs # None /\ object.bytes # None
  BY DEF Existing, Matches
<1>7. l = "conflict" => ~Ours \/ \E v \in Writers : request[v] # request[w]
  <2> SUFFICES ASSUME l = "conflict", Ours, \A v \in Writers : request[v] = request[w]
               PROVE  FALSE
    OBVIOUS
  <2>1. object.bytes # None /\ Existing(w) = "conflict"  OBVIOUS
  <2>2. Matches(w) /\ attrs \in {None, request[w].attrs}
    BY <1>4, <2>1, NoFalseConflict
  <2> QED  BY <2>1, <2>2 DEF Existing
<1>8. PutInv(w, r)
  BY <1>1, <1>3, <1>4, <1>5, <1>6, <1>7
     DEF PutInv, Local, Remote, Holding, Attributing, Matches, None
<1>9. PICK s : s = r  OBVIOUS
<1>10. s \in Put /\ PutInv(w, s)  BY <1>3, <1>8, <1>9
<1>11. writer' = [writer EXCEPT ![w] = s]
  BY <1>9 DEF HeadObject, IInv, TypeOK
<1> QED  BY <1>10, <1>11, WriterStep DEF disk, IInv, TypeOK, HeadObject

\* A put moves to a step that relies on no more than the one before.
LEMMA GotoStep ==
    ASSUME IInv, NEW w \in Writers, NEW l \in Ended \cup Local \cup Remote, Goto(w, l),
           NEW s, s = [writer[w] EXCEPT !.pc = l], PutInv(w, s),
           UNCHANGED <<provider, request, object, attrs, safe, reader, promised, lost>>,
           dirs' \in [Dirs -> {"absent", "made", "durable"}]
    PROVE  IInv'
<1>1. s \in Put  BY TypeFacts, GotoFacts
<1>2. writer' = [writer EXCEPT ![w] = s]  BY DEF Goto, IInv, TypeOK
<1> QED  BY <1>1, <1>2, WriterStep

LEMMA DirectoryStep ==
    ASSUME IInv, NEW w \in Writers,
           MakeDataDirectory(w) \/ MakeMetaDirectory(w) \/ SyncNewDirectory(w)
    PROVE  IInv'
<1> DEFINE Old == writer[w].pc
           Labels == {"mkdirSync", "stage", "metaSync", "replace"}
<1>1. PICK l \in Labels :
        /\ Goto(w, l)
        /\ l \in {"mkdirSync", "stage"} => Old \in {"mkdir", "mkdirSync"}
        /\ l \in {"metaSync", "replace"} => Old \in {"attributes", "metaSync"}
  BY DEF MakeDataDirectory, MakeMetaDirectory, SyncNewDirectory, MakeDirectory
<1>2. dirs' \in [Dirs -> {"absent", "made", "durable"}]
  BY DEF MakeDataDirectory, MakeMetaDirectory, SyncNewDirectory, MakeDirectory, IInv, TypeOK, Dirs
<1>3. UNCHANGED <<provider, request, object, attrs, safe, reader, promised, lost>>
  BY DEF MakeDataDirectory, MakeMetaDirectory, SyncNewDirectory
<1>4. l \in Ended \cup Local \cup Remote  BY DEF Local
<1>5. PICK s : s = [writer[w] EXCEPT !.pc = l]  OBVIOUS
<1>6. s \in Put /\ s.pc = l /\ s.then = writer[w].then  BY <1>4, <1>5, TypeFacts, GotoFacts
<1>7. PutInv(w, s)
  BY <1>1, <1>6, TypeFacts DEF PutInv, Local, Remote, Holding, Attributing
<1> QED  BY <1>1, <1>2, <1>3, <1>4, <1>5, <1>7, GotoStep

LEMMA StageStep ==
    ASSUME IInv, NEW w \in Writers, Stage(w)
    PROVE  IInv'
<1>1. PICK s : s = [writer[w] EXCEPT !.pc = "link", !.temp = TRUE]  OBVIOUS
<1>2. s \in Put /\ s.pc = "link" /\ s.temp  BY <1>1, TypeFacts, StageFacts
<1>3. provider = "local"  BY TypeFacts DEF Stage, PutInv, Local, IInv, TypeOK
<1>4. PutInv(w, s)  BY <1>2, <1>3 DEF PutInv, Local, Remote, Holding, Attributing
<1>5. writer' = [writer EXCEPT ![w] = s]  BY <1>1 DEF Stage, IInv, TypeOK
<1> QED  BY <1>2, <1>4, <1>5, WriterStep DEF disk, IInv, TypeOK, Stage

LEMMA RepairedStep ==
    ASSUME IInv, NEW w \in Writers, Repaired(w)
    PROVE  IInv'
<1> DEFINE L == IF MatchesRequest(w) THEN "resync" ELSE IF object.bytes = None THEN "failed" ELSE "conflict"
<1>1. PICK l \in {"resync", "failed", "conflict"} : l = L  OBVIOUS
<1>2. l \in Ended \cup Local \cup Remote  BY DEF Local, Ended
<1>3. PICK s : s = [writer[w] EXCEPT !.pc = l]  OBVIOUS
<1>4. s \in Put /\ s.pc = l /\ s.then = writer[w].then  BY <1>2, <1>3, TypeFacts, GotoFacts
<1>5. provider = "local"  BY TypeFacts DEF Repaired, PutInv, Local, IInv, TypeOK
<1>6. l = "conflict" => ~Ours \/ \E v \in Writers : request[v] # request[w]
  <2> SUFFICES ASSUME l = "conflict", Ours, \A v \in Writers : request[v] = request[w]
               PROVE  FALSE
    OBVIOUS
  <2>1. Agreed  BY DEF Agreed
  <2>2. object.bytes = request[w].bytes /\ attrs = request[w].attrs
    BY <2>1, TypeFacts DEF Repaired, PutInv, Holding
  <2> QED  BY <1>1, <1>5, <2>2 DEF MatchesRequest, Matches, Wanted
<1>7. l = "resync" => Matches(w) /\ attrs = request[w].attrs /\ object.bytes # None
  BY <1>1, <1>5, TypeFacts DEF MatchesRequest, Wanted, Repaired, PutInv, Holding
<1>8. PutInv(w, s)
  BY <1>1, <1>4, <1>5, <1>6, <1>7 DEF PutInv, Local, Remote, Holding, Attributing, Matches
<1>9. Goto(w, l)  BY <1>1 DEF Repaired
<1> QED  BY <1>2, <1>3, <1>8, <1>9, GotoStep DEF disk, IInv, TypeOK, Repaired

LEMMA FailStep ==
    ASSUME IInv, NEW w \in Writers, LocalFails(w) \/ GcsFails(w)
    PROVE  IInv'
<1>1. Return(w, "failed") /\ UNCHANGED <<provider, request, disk, reader, promised, lost>>
  BY DEF LocalFails, GcsFails
<1> QED  BY <1>1, ReturnStep

LEMMA KillStep ==
    ASSUME IInv, NEW w \in Writers, Kill(w)
    PROVE  IInv'
<1>1. PICK s : s = Resting  OBVIOUS
<1>2. s \in Put /\ PutInv(w, s)  BY <1>1, RestingFacts, EndedPut
<1>3. writer' = [writer EXCEPT ![w] = s]  BY <1>1 DEF Kill
<1> QED  BY <1>2, <1>3, WriterStep DEF disk, IInv, TypeOK, Kill

-----------------------------------------------------------------------------
(* Operations that change what is stored                                   *)

\* A writer is past its link only where its bytes are those of the key.
LEMMA EmptyKey ==
    ASSUME IInv, ProperRequests, object.bytes = None
    PROVE  /\ \A w \in Writers : writer[w].pc \notin Holding
           /\ Ours /\ "data" \notin lost => promised = {}
<1>1. \A w \in Writers : writer[w].pc \notin Holding  BY TypeFacts DEF PutInv
<1>2. \A w \in Writers : request[w].bytes # None  BY DEF IInv, TypeOK, ProperRequests
<1>3. ASSUME NEW p \in promised, Ours, "data" \notin lost PROVE FALSE
  BY <1>2, <1>3 DEF IInv, PromiseInv
<1> QED  BY <1>1, <1>3

LEMMA LinkStep ==
    ASSUME IInv, ProperRequests, NEW w \in Writers, LinkExclusive(w)
    PROVE  IInv'
<1>0. provider = "local" /\ writer[w].temp
  BY TypeFacts DEF LinkExclusive, PutInv, Local, IInv, TypeOK
<1>1. CASE object.bytes # None
  <2>1. PICK l \in {"resync", "head", "conflict"} : l = Published(w)
    BY DEF Published
  <2>2. l \in Ended \cup Local \cup Remote  BY DEF Local, Ended
  <2>3. PICK s : s = [writer[w] EXCEPT !.pc = l]  OBVIOUS
  <2>4. s \in Put /\ s.pc = l /\ s.then = writer[w].then  BY <2>2, <2>3, TypeFacts, GotoFacts
  <2>5. l = "conflict" => ~Ours \/ \E v \in Writers : request[v] # request[w]
    <3> SUFFICES ASSUME l = "conflict", Ours, \A v \in Writers : request[v] = request[w]
                 PROVE  FALSE
      OBVIOUS
    <3>1. Matches(w) /\ attrs \in {None, request[w].attrs}  BY <1>0, <1>1, NoFalseConflict
    <3> QED  BY <1>0, <2>1, <3>1 DEF Published, MatchesRequest, Wanted
  <2>6. l = "resync" => Matches(w) /\ attrs = request[w].attrs
    BY <1>0, <2>1 DEF Published, MatchesRequest, Wanted
  <2>7. PutInv(w, s)
    BY <1>0, <1>1, <2>1, <2>4, <2>5, <2>6 DEF PutInv, Local, Remote, Holding, Attributing, Matches
  <2>8. Goto(w, l) /\ UNCHANGED object  BY <1>1, <2>1 DEF LinkExclusive
  <2> QED  BY <2>2, <2>3, <2>7, <2>8, GotoStep DEF IInv, TypeOK, LinkExclusive
<1>2. CASE object.bytes = None
  <2>1. /\ object' = [bytes |-> request[w].bytes, synced |-> TRUE, gen |-> object.gen + 1]
        /\ Goto(w, "linkSync")
        /\ UNCHANGED <<provider, request, attrs, safe, dirs, reader, promised, lost>>
    BY <1>0, <1>2 DEF LinkExclusive
  <2>2. PICK s : s = [writer[w] EXCEPT !.pc = "linkSync"]  OBVIOUS
  <2>3. s \in Put /\ s.pc = "linkSync"
    BY <2>2, TypeFacts, GotoFacts DEF Local
  <2>4. writer' = [writer EXCEPT ![w] = s]  BY <2>1, <2>2 DEF Goto, IInv, TypeOK
  <2>5. TypeOK'
    <3>1. writer' \in [Writers -> Put]  BY <2>3, <2>4 DEF IInv, TypeOK, Put
    <3>2. object' \in Object
      <4>1. request[w].bytes \in Bytes /\ object.gen + 1 \in Nat
        BY RequestFacts DEF IInv, TypeOK, Object
      <4> QED  BY <2>1, <4>1 DEF Object
    <3> QED  BY <2>1, <3>1, <3>2 DEF IInv, TypeOK, Put
  <2>6. request[w].bytes # None /\ object'.bytes = request[w].bytes /\ object'.synced
    BY <2>1 DEF IInv, TypeOK, ProperRequests
  <2>7. StoredInv'
    BY <1>0, <2>1, <2>6 DEF IInv, StoredInv, Ours, Wanted
  <2>8. PromiseInv'
    BY <1>2, <2>1, EmptyKey DEF IInv, PromiseInv, Ours, Wanted, Agreed
  <2>9. ReadInv'
    <3>1. reader.pc # "verified"
      <4> SUFFICES ASSUME reader.pc = "verified" PROVE FALSE
        OBVIOUS
      <4>1. reader.want \in promised /\ object.bytes = reader.want.bytes  BY DEF IInv, ReadInv
      <4>2. PICK v \in Writers : reader.want.bytes = request[v].bytes
        BY <4>1 DEF IInv, PromiseInv
      <4> QED  BY <1>2, <4>1, <4>2 DEF IInv, TypeOK, ProperRequests
    <3>2. object'.gen = object.gen + 1 /\ object.gen \in Nat /\ reader.gen \in Nat
      BY <2>1 DEF IInv, TypeOK, Object
    <3> QED  BY <2>1, <3>1, <3>2 DEF IInv, ReadInv
  <2>10. ASSUME NEW v \in Writers PROVE PutInv(v, writer[v])'
    <3>1. PICK u : u = writer'[v]  OBVIOUS
    <3>2. CASE v = w
      <4>1. u = s  BY <2>4, <3>1, <3>2 DEF IInv, TypeOK
      <4>2. PutInv(w, u)'
        BY <1>0, <2>1, <2>3, <2>6, <4>1
           DEF PutInv, Local, Remote, Holding, Attributing, Ours
      <4> QED  BY <3>1, <3>2, <4>2 DEF PutInv
    <3>3. CASE v # w
      <4>1. u = writer[v]  BY <2>4, <3>1, <3>3 DEF IInv, TypeOK
      <4>2. PutInv(v, u) /\ u.pc \in Ended \cup Local \cup Remote  BY <4>1, TypeFacts
      <4>3. u.pc \notin Holding  BY <1>2, <4>1, EmptyKey
      <4>4. PutInv(v, u)'
        BY <1>0, <2>1, <2>6, <4>2, <4>3
           DEF PutInv, Local, Remote, Holding, Attributing, Ours, Agreed
      <4> QED  BY <3>1, <4>4 DEF PutInv
    <3> QED  BY <3>2, <3>3
  <2> QED  BY <2>5, <2>7, <2>8, <2>9, <2>10 DEF IInv
<1> QED  BY <1>1, <1>2

\* The directory of the key is fsynced.
LEMMA SyncLinkStep ==
    ASSUME IInv, NEW w \in Writers, SyncLink(w)
    PROVE  IInv'
<1>0. provider = "local" /\ writer[w].pc = "linkSync"
  BY TypeFacts DEF SyncLink, PutInv, Local, IInv, TypeOK
<1>1. PICK l \in {"check", "attributes"} : l = IF request[w].attrs = None THEN "check" ELSE "attributes"
  OBVIOUS
<1>2. l \in Ended \cup Local \cup Remote /\ "check" \in {None, "repaired", "check"}  BY DEF Local
<1>3. PICK s : s = [writer[w] EXCEPT !.pc = l, !.then = "check"]  OBVIOUS
<1>4. s \in Put /\ s.pc = l /\ s.then = "check"
  <2>1. writer[w] \in Put  BY TypeFacts
  <2> QED  BY <1>2, <1>3, <2>1, GotoThenFacts
<1>5. writer' = [writer EXCEPT ![w] = s]  BY <1>1, <1>3 DEF SyncLink, IInv, TypeOK
<1>6. /\ safe'.object = object /\ safe'.attrs = safe.attrs
      /\ safe' \in [object : Object, attrs : Types]
  BY DEF SyncLink, IInv, TypeOK
<1>7. UNCHANGED <<provider, request, object, attrs, dirs, reader, promised, lost>>
  BY DEF SyncLink
<1>8. TypeOK'
  <2>1. writer' \in [Writers -> Put]  BY <1>4, <1>5 DEF IInv, TypeOK, Put
  <2> QED  BY <1>6, <1>7, <2>1 DEF IInv, TypeOK, Put
<1>9. StoredInv'  BY <1>0, <1>6, <1>7 DEF IInv, StoredInv, Ours, Wanted
<1>10. PromiseInv'  BY <1>6, <1>7 DEF IInv, PromiseInv, Ours, Wanted, Agreed
<1>11. ReadInv'  BY <1>7 DEF IInv, ReadInv
<1>12. ASSUME NEW v \in Writers PROVE PutInv(v, writer[v])'
  <2>1. PICK u : u = writer'[v]  OBVIOUS
  <2>2. CASE v = w
    <3>1. u = s  BY <1>5, <2>1, <2>2 DEF IInv, TypeOK
    <3>2. Ours => object.bytes = request[w].bytes  BY <1>0, TypeFacts DEF PutInv, Holding
    <3>3. object.bytes # None  BY <1>0, TypeFacts DEF PutInv, Holding
    <3>4. l = "check" => request[w].attrs = None  BY <1>1
    <3>5. l = "attributes" => request[w].attrs # None  BY <1>1
    <3>6. PutInv(w, u)'
      BY <1>0, <1>1, <1>4, <1>6, <1>7, <3>1, <3>2, <3>3, <3>4, <3>5
         DEF PutInv, Local, Remote, Holding, Attributing, Ours, None
    <3> QED  BY <2>1, <2>2, <3>6 DEF PutInv
  <2>3. CASE v # w
    <3>1. u = writer[v]  BY <1>5, <2>1, <2>3 DEF IInv, TypeOK
    <3>2. PutInv(v, u)  BY <3>1, TypeFacts
    <3>3. PutInv(v, u)'
      BY <1>6, <1>7, <3>2 DEF PutInv, Ours, Agreed
    <3> QED  BY <2>1, <3>3 DEF PutInv
  <2> QED  BY <2>2, <2>3
<1> QED  BY <1>8, <1>9, <1>10, <1>11, <1>12 DEF IInv

\* Writers that hold the key and agree ask for the same attributes.
LEMMA HoldersAgree ==
    ASSUME IInv, NEW v \in Writers, NEW w \in Writers, Ours, Agreed,
           writer[v].pc \in Holding, writer[w].pc \in Holding
    PROVE  request[v] = request[w]
<1>1. object.bytes = request[v].bytes /\ object.bytes = request[w].bytes
  BY TypeFacts DEF PutInv
<1> QED  BY <1>1 DEF Agreed

\* The sidecar takes the place of the one that was there.
LEMMA ReplaceStep ==
    ASSUME IInv, ProperRequests, NEW w \in Writers, ReplaceAttributes(w)
    PROVE  IInv'
<1>0. provider = "local" /\ writer[w].pc = "replace" /\ writer[w].pc \in Holding
  BY TypeFacts DEF ReplaceAttributes, PutInv, Local, Holding, IInv, TypeOK
<1>1. PICK s : s = [writer[w] EXCEPT !.pc = "replaceSync"]  OBVIOUS
<1>2. s \in Put /\ s.pc = "replaceSync" /\ s.then = writer[w].then
  BY <1>1, TypeFacts, GotoFacts DEF Local
<1>3. writer' = [writer EXCEPT ![w] = s]  BY <1>1 DEF ReplaceAttributes, Goto, IInv, TypeOK
<1>4. /\ attrs' = request[w].attrs /\ attrs' \in Types /\ attrs' # None
      /\ Wanted(w) = request[w].attrs
      /\ UNCHANGED <<provider, request, object, safe, dirs, reader, promised, lost>>
  BY <1>0, TypeFacts, RequestFacts
     DEF ReplaceAttributes, PutInv, Attributing, Wanted
<1>5. TypeOK'
  <2>1. writer' \in [Writers -> Put]  BY <1>2, <1>3 DEF IInv, TypeOK, Put
  <2> QED  BY <1>4, <2>1 DEF IInv, TypeOK, Put
<1>6. StoredInv'  BY <1>0, <1>4 DEF IInv, StoredInv, Ours, Wanted
<1>7. PromiseInv'
  <2> SUFFICES ASSUME NEW p \in promised, lost = {}, Agreed
               PROVE  attrs' = p.attrs /\ safe.attrs = attrs'
    BY <1>4 DEF IInv, PromiseInv, Ours, Wanted, Agreed
  <2>1. /\ object.bytes = p.bytes /\ attrs = p.attrs /\ safe.attrs = attrs
        /\ \E v \in Writers : p.bytes = request[v].bytes /\ p.attrs = Wanted(v)
    BY DEF IInv, PromiseInv, Ours
  <2>2. PICK v \in Writers : p.bytes = request[v].bytes /\ p.attrs = Wanted(v)  BY <2>1
  <2>3. object.bytes = request[w].bytes  BY <1>0, TypeFacts DEF PutInv, Ours
  <2>4. request[v] = request[w]  BY <2>1, <2>2, <2>3 DEF Agreed
  <2> QED  BY <1>0, <1>4, <2>1, <2>2, <2>4 DEF Wanted
<1>8. ReadInv'  BY <1>4 DEF IInv, ReadInv
<1>9. ASSUME NEW v \in Writers PROVE PutInv(v, writer[v])'
  <2>1. PICK u : u = writer'[v]  OBVIOUS
  <2>2. CASE v = w
    <3>1. u = s  BY <1>3, <2>1, <2>2 DEF IInv, TypeOK
    <3>2. PutInv(w, writer[w])  BY TypeFacts
    <3>3. PutInv(w, u)'
      BY <1>0, <1>2, <1>4, <3>1, <3>2
         DEF PutInv, Local, Remote, Holding, Attributing, Ours
    <3> QED  BY <2>1, <2>2, <3>3 DEF PutInv
  <2>3. CASE v # w
    <3>1. u = writer[v]  BY <1>3, <2>1, <2>3 DEF IInv, TypeOK
    <3>2. PutInv(v, u)  BY <3>1, TypeFacts
    <3>3. Ours /\ Agreed /\ u.pc \in Holding => request[v] = request[w]
      BY <1>0, <3>1, HoldersAgree
    <3>4. PutInv(v, u)'
      BY <1>4, <3>2, <3>3 DEF PutInv, Holding, Ours, Agreed
    <3> QED  BY <2>1, <3>4 DEF PutInv
  <2> QED  BY <2>2, <2>3
<1> QED  BY <1>5, <1>6, <1>7, <1>8, <1>9 DEF IInv

\* The directory of the sidecars is fsynced.
LEMMA SyncAttributesStep ==
    ASSUME IInv, NEW w \in Writers, SyncAttributes(w)
    PROVE  IInv'
<1>0. provider = "local" /\ writer[w].pc = "replaceSync" /\ PutInv(w, writer[w])
  BY TypeFacts DEF SyncAttributes, PutInv, Local, IInv, TypeOK
<1>1. PICK l \in {"check", "repaired"} : l = writer[w].then
  BY <1>0, TypeFacts DEF PutInv, Attributing
<1>2. l \in Ended \cup Local \cup Remote  BY DEF Local
<1>3. PICK s : s = [writer[w] EXCEPT !.pc = l]  OBVIOUS
<1>4. s \in Put /\ s.pc = l /\ s.then = l  BY <1>1, <1>2, <1>3, TypeFacts, GotoFacts
<1>5. writer' = [writer EXCEPT ![w] = s]  BY <1>1, <1>3 DEF SyncAttributes, Goto, IInv, TypeOK
<1>6. /\ safe'.attrs = attrs /\ safe'.object = safe.object
      /\ safe' \in [object : Object, attrs : Types]
  BY DEF SyncAttributes, IInv, TypeOK
<1>7. UNCHANGED <<provider, request, object, attrs, dirs, reader, promised, lost>>
  BY DEF SyncAttributes
<1>8. TypeOK'
  <2>1. writer' \in [Writers -> Put]  BY <1>4, <1>5 DEF IInv, TypeOK, Put
  <2> QED  BY <1>6, <1>7, <2>1 DEF IInv, TypeOK, Put
<1>9. StoredInv'  BY <1>0, <1>6, <1>7 DEF IInv, StoredInv, Ours, Wanted
<1>10. PromiseInv'  BY <1>6, <1>7 DEF IInv, PromiseInv, Ours, Wanted, Agreed
<1>11. ReadInv'  BY <1>7 DEF IInv, ReadInv
<1>12. ASSUME NEW v \in Writers PROVE PutInv(v, writer[v])'
  <2>1. PICK u : u = writer'[v]  OBVIOUS
  <2>2. CASE v = w
    <3>1. u = s  BY <1>5, <2>1, <2>2 DEF IInv, TypeOK
    <3>2. l = "check" => safe.object = object  BY <1>0, <1>1 DEF PutInv, Attributing
    <3>3. PutInv(w, u)'
      BY <1>0, <1>1, <1>4, <1>6, <1>7, <3>1, <3>2
         DEF PutInv, Local, Remote, Holding, Attributing, Ours, Agreed
    <3> QED  BY <2>1, <2>2, <3>3 DEF PutInv
  <2>3. CASE v # w
    <3>1. u = writer[v]  BY <1>5, <2>1, <2>3 DEF IInv, TypeOK
    <3>2. PutInv(v, u)  BY <3>1, TypeFacts
    <3>3. PutInv(v, u)'
      BY <1>6, <1>7, <3>2 DEF PutInv, Ours, Agreed
    <3> QED  BY <2>1, <3>3 DEF PutInv
  <2> QED  BY <2>2, <2>3
<1> QED  BY <1>8, <1>9, <1>10, <1>11, <1>12 DEF IInv

\* put_immutable returns: what it promises is stored, and is fsynced.
LEMMA SucceedStep ==
    ASSUME IInv, ProperRequests, NEW w \in Writers, Succeed(w),
           UNCHANGED <<provider, request, object, attrs, dirs, reader, lost>>,
           safe' \in [object : Object, attrs : Types],
           safe'.object = object, safe'.attrs \in {safe.attrs, attrs},
           Ours => Matches(w),
           lost = {} /\ Agreed => attrs = Wanted(w) /\ safe'.attrs = attrs
    PROVE  IInv'
<1>1. PICK s : s = [Resting EXCEPT !.pc = "stored"]  OBVIOUS
<1>2. s \in Put /\ s.pc = "stored"  BY <1>1, RestFacts DEF Ended
<1>3. writer' = [writer EXCEPT ![w] = s]  BY <1>1 DEF Succeed, Return
<1>4. PICK q : q = [bytes |-> request[w].bytes, attrs |-> Wanted(w)]  OBVIOUS
<1>5. promised' = promised \cup {q}  BY <1>4 DEF Succeed
<1>6. q \in [bytes : Bytes, attrs : Types] /\ q.bytes = request[w].bytes /\ q.attrs = Wanted(w)
  <2>1. request[w].bytes \in Bytes /\ Wanted(w) \in Types  BY RequestFacts
  <2> QED  BY <1>4, <2>1
<1>7. TypeOK'
  <2>1. writer' \in [Writers -> Put]  BY <1>2, <1>3 DEF IInv, TypeOK, Put
  <2> QED  BY <1>5, <1>6, <2>1 DEF IInv, TypeOK, Put
<1>8. StoredInv'  BY DEF IInv, StoredInv, Ours, Wanted
<1>9. PromiseInv'
  <2> SUFFICES ASSUME NEW p \in promised \cup {q}
               PROVE  /\ \E v \in Writers : p.bytes = request[v].bytes /\ p.attrs = Wanted(v)
                      /\ Ours /\ "data" \notin lost => object.bytes = p.bytes
                      /\ lost = {} /\ Agreed => attrs = p.attrs
    BY <1>5 DEF PromiseInv, Ours, Wanted, Agreed
  <2>1. CASE p \in promised  BY <2>1 DEF IInv, PromiseInv
  <2>2. CASE p = q  BY <1>6, <2>2 DEF Matches
  <2> QED  BY <2>1, <2>2
<1>10. ReadInv'  BY <1>5 DEF IInv, ReadInv
<1>11. ASSUME NEW v \in Writers PROVE PutInv(v, writer[v])'
  <2>1. PICK u : u = writer'[v]  OBVIOUS
  <2>2. CASE v = w
    <3>1. u = s  BY <1>3, <2>1, <2>2 DEF IInv, TypeOK
    <3>2. PutInv(w, u)'
      BY <1>2, <3>1 DEF PutInv, Local, Remote, Holding, Attributing
    <3> QED  BY <2>1, <2>2, <3>2 DEF PutInv
  <2>3. CASE v # w
    <3>1. u = writer[v]  BY <1>3, <2>1, <2>3 DEF IInv, TypeOK
    <3>2. PutInv(v, u)  BY <3>1, TypeFacts
    <3>3. PutInv(v, u)'
      BY <3>2 DEF PutInv, Ours, Agreed
    <3> QED  BY <2>1, <3>3 DEF PutInv
  <2> QED  BY <2>2, <2>3
<1> QED  BY <1>7, <1>8, <1>9, <1>10, <1>11 DEF IInv

LEMMA ResyncStep ==
    ASSUME IInv, ProperRequests, NEW w \in Writers, Resync(w)
    PROVE  IInv'
<1>1. provider = "local" /\ writer[w].pc = "resync" /\ PutInv(w, writer[w])
  BY TypeFacts DEF Resync, PutInv, Local, IInv, TypeOK
<1>2. /\ safe' \in [object : Object, attrs : Types]
      /\ safe'.object = object /\ safe'.attrs = attrs
  BY DEF Resync, Resynced, IInv, TypeOK
<1>3. Ours => Matches(w)  BY <1>1 DEF PutInv, Holding, Matches
<1>4. lost = {} /\ Agreed => attrs = Wanted(w)  BY <1>1 DEF PutInv, Ours, Wanted
<1> QED  BY <1>2, <1>3, <1>4, SucceedStep DEF Resync

\* The three heads that end a put.
LEMMA CheckStep ==
    ASSUME IInv, ProperRequests, NEW w \in Writers, Check(w) \/ Uploaded(w) \/ ResolveExisting(w)
    PROVE  IInv'
<1>0. PutInv(w, writer[w]) /\ provider \in {"local", "gcs"}  BY TypeFacts DEF IInv, TypeOK
<1>1. CASE ~MatchesRequest(w)
  <2>1. PICK l \in {"failed", "conflict"} :
          /\ Return(w, l) /\ UNCHANGED <<provider, request, disk, reader, promised, lost>>
          /\ l = "conflict" => ResolveExisting(w)
    BY <1>1 DEF Check, Uploaded, ResolveExisting
  <2>2. l = "conflict" => ~Ours \/ \E v \in Writers : request[v] # request[w]
    <3> SUFFICES ASSUME l = "conflict", Ours, \A v \in Writers : request[v] = request[w]
                 PROVE  FALSE
      OBVIOUS
    <3>1. provider = "gcs" /\ object.bytes # None
      BY <1>0, <2>1 DEF ResolveExisting, PutInv, Remote
    <3>2. PICK v \in Writers : object.bytes = request[v].bytes /\ attrs = Wanted(v)
      BY <3>1 DEF IInv, StoredInv
    <3>3. MatchesRequest(w)  BY <3>2 DEF MatchesRequest, Matches, Wanted
    <3> QED  BY <1>1, <3>3
  <2> QED  BY <2>1, <2>2, ReturnStep
<1>2. CASE MatchesRequest(w)
  <2>1. Succeed(w) /\ UNCHANGED <<provider, request, disk, reader, lost>>
    BY <1>2 DEF Check, Uploaded, ResolveExisting
  <2>2. safe.object = object
    <3>1. CASE provider = "gcs"  BY <3>1 DEF IInv, StoredInv
    <3>2. CASE provider = "local"
      BY <1>0, <3>2 DEF PutInv, Remote, Attributing, Check, Uploaded, ResolveExisting
    <3> QED  BY <1>0, <3>1, <3>2
  <2>3. Matches(w) /\ attrs = Wanted(w)  BY <1>2 DEF MatchesRequest
  <2>4. lost = {} /\ Agreed => safe.attrs = attrs
    <3>1. CASE provider = "gcs"  BY <3>1 DEF IInv, StoredInv
    <3>2. CASE provider = "local"
      <4>1. writer[w].pc = "check"
        BY <1>0, <3>2 DEF PutInv, Remote, Check, Uploaded, ResolveExisting
      <4>2. CASE request[w].attrs # None  BY <1>0, <4>1, <4>2 DEF PutInv, Ours
      <4>3. CASE request[w].attrs = None
        BY <2>3, <3>2, <4>3 DEF IInv, StoredInv, Wanted
      <4> QED  BY <4>2, <4>3
    <3> QED  BY <1>0, <3>1, <3>2
  <2> QED  BY <2>1, <2>2, <2>3, <2>4, SucceedStep DEF disk, IInv, TypeOK
<1> QED  BY <1>1, <1>2

\* The conditional create of the object and its metadata.
LEMMA UploadStep ==
    ASSUME IInv, ProperRequests, NEW w \in Writers, Upload(w)
    PROVE  IInv'
<1>0. provider = "gcs" /\ PutInv(w, writer[w])
  BY TypeFacts DEF Upload, PutInv, Remote, IInv, TypeOK
<1>1. CASE object.bytes # None
  <2>1. Goto(w, "resolve") /\ UNCHANGED <<provider, request, object, attrs, dirs, reader, promised, lost>>
    BY <1>1 DEF Upload
  <2>2. safe' = safe
    BY <1>0, <1>1 DEF Upload, IInv, TypeOK, StoredInv
  <2>3. PICK l : l = "resolve"  OBVIOUS
  <2>4. PICK s : s = [writer[w] EXCEPT !.pc = l]  OBVIOUS
  <2>5. l \in Ended \cup Local \cup Remote  BY <2>3 DEF Remote
  <2>6. s.pc = "resolve"  BY <2>3, <2>4, <2>5, TypeFacts, GotoFacts
  <2>7. PutInv(w, s)  BY <1>0, <1>1, <2>6 DEF PutInv, Local, Remote, Holding, Attributing
  <2> QED  BY <2>1, <2>2, <2>3, <2>4, <2>5, <2>7, GotoStep DEF IInv, TypeOK
<1>2. CASE object.bytes = None
  <2>1. /\ object' = [bytes |-> request[w].bytes, synced |-> TRUE, gen |-> object.gen + 1]
        /\ attrs' = Wanted(w) /\ safe' = [object |-> object', attrs |-> attrs']
        /\ Goto(w, "uploaded")
        /\ UNCHANGED <<provider, request, dirs, reader, promised, lost>>
    BY <1>2 DEF Upload
  <2>2. PICK s : s = [writer[w] EXCEPT !.pc = "uploaded"]  OBVIOUS
  <2>3. s \in Put /\ s.pc = "uploaded"
    BY <2>2, TypeFacts, GotoFacts DEF Remote
  <2>4. writer' = [writer EXCEPT ![w] = s]  BY <2>1, <2>2 DEF Goto, IInv, TypeOK
  <2>5. request[w].bytes \in Bytes /\ request[w].bytes # None /\ Wanted(w) \in Types
    BY RequestFacts
  <2>6. TypeOK'
    <3>1. writer' \in [Writers -> Put]  BY <2>3, <2>4 DEF IInv, TypeOK, Put
    <3>2. object' \in Object
      <4>1. object.gen + 1 \in Nat  BY DEF IInv, TypeOK, Object
      <4> QED  BY <2>1, <2>5, <4>1 DEF Object
    <3>3. safe' \in [object : Object, attrs : Types]  BY <2>1, <2>5, <3>2
    <3> QED  BY <2>1, <2>5, <3>1, <3>2, <3>3 DEF IInv, TypeOK, Put
  <2>7. /\ object'.bytes = request[w].bytes /\ object'.synced
        /\ safe'.object = object' /\ safe'.attrs = attrs' /\ attrs' = Wanted(w)
    BY <2>1
  <2>8. StoredInv'
    <3>1. lost \subseteq {"object"}  BY <1>0 DEF IInv, StoredInv
    <3> QED  BY <1>0, <2>1, <2>7, <3>1 DEF StoredInv, Ours, Wanted
  <2>9. PromiseInv'
    <3>1. lost \subseteq {"object"}  BY <1>0 DEF IInv, StoredInv
    <3>2. Ours => promised = {}  BY <1>2, <3>1, EmptyKey DEF Ours
    <3> QED  BY <2>1, <3>2 DEF IInv, PromiseInv, Ours, Wanted, Agreed
  <2>10. ReadInv'
    <3>1. reader.pc # "verified"
      <4> SUFFICES ASSUME reader.pc = "verified" PROVE FALSE
        OBVIOUS
      <4>1. reader.want \in promised /\ object.bytes = reader.want.bytes  BY DEF IInv, ReadInv
      <4>2. PICK v \in Writers : reader.want.bytes = request[v].bytes
        BY <4>1 DEF IInv, PromiseInv
      <4> QED  BY <1>2, <4>1, <4>2 DEF IInv, TypeOK, ProperRequests
    <3>2. object'.gen = object.gen + 1 /\ object.gen \in Nat /\ reader.gen \in Nat
      BY <2>1 DEF IInv, TypeOK, Object
    <3> QED  BY <2>1, <3>1, <3>2 DEF IInv, ReadInv
  <2>11. ASSUME NEW v \in Writers PROVE PutInv(v, writer[v])'
    <3>1. PICK u : u = writer'[v]  OBVIOUS
    <3>2. u.pc \notin Local /\ u.pc \in {"uploaded", writer[v].pc}
      BY <1>0, <2>3, <2>4, <3>1, TypeFacts DEF IInv, TypeOK, PutInv, Local
    <3>3. u.pc = "resolve" \/ u.pc = "conflict" => PutInv(v, u)
      BY <2>3, <2>4, <3>1, TypeFacts DEF IInv, TypeOK
    <3>4. PutInv(v, u)'
      BY <1>0, <2>1, <2>5, <2>7, <3>2, <3>3
         DEF PutInv, Local, Remote, Holding, Attributing, Ours
    <3> QED  BY <3>1, <3>4 DEF PutInv
  <2> QED  BY <2>6, <2>8, <2>9, <2>10, <2>11 DEF IInv
<1> QED  BY <1>1, <1>2

-----------------------------------------------------------------------------
(* The verified retrieval                                                  *)

\* The reader's steps touch nothing of the store's.
LEMMA ReaderFrame ==
    ASSUME IInv, UNCHANGED <<provider, request, disk, writer, promised, lost>>,
           ReadInv', NEW r, reader' = r,
           r = [pc |-> r.pc, want |-> r.want, gen |-> r.gen, bytes |-> r.bytes],
           r.pc \in {"idle", "reading", "recheck", "verified"}, r.gen \in Nat
    PROVE  IInv'
<1>1. TypeOK'  BY DEF IInv, TypeOK, disk
<1>2. StoredInv' /\ PromiseInv'
  BY DEF IInv, StoredInv, PromiseInv, Ours, Wanted, Agreed, disk
<1>3. ASSUME NEW v \in Writers PROVE PutInv(v, writer[v])'
  <2>1. PICK u : u = writer[v]  OBVIOUS
  <2>2. PutInv(v, u)  BY <2>1, TypeFacts
  <2>3. PutInv(v, u)'  BY <2>2 DEF PutInv, Ours, Agreed, disk
  <2> QED  BY <2>1, <2>3 DEF PutInv
<1> QED  BY <1>1, <1>2, <1>3 DEF IInv

LEMMA ReaderStep ==
    ASSUME IInv, OpenVerified \/ Consume \/ FinishRead \/ CloseRead
    PROVE  IInv'
<1>0. /\ reader = [pc |-> reader.pc, want |-> reader.want, gen |-> reader.gen, bytes |-> reader.bytes]
      /\ reader.gen \in Nat /\ object.gen \in Nat
  BY DEF IInv, TypeOK, Object
<1>1. PICK r : r = reader'  OBVIOUS
<1>2. CASE OpenVerified
  <2>1. PICK p \in promised : r = [pc |-> "reading", want |-> p, gen |-> object.gen, bytes |-> None]
    BY <1>1, <1>2 DEF OpenVerified
  <2>2. ReadInv'  BY <1>0, <1>1, <1>2, <2>1 DEF OpenVerified, disk, ReadInv
  <2> QED  BY <1>0, <1>1, <1>2, <2>1, <2>2, ReaderFrame DEF OpenVerified
<1>3. CASE Consume
  <2>1. PICK b \in {object.bytes} \cup (IF reader.gen = object.gen THEN {} ELSE {reader.want.bytes}) :
          r = [reader EXCEPT !.pc = IF b = reader.want.bytes THEN "recheck" ELSE "idle", !.bytes = b]
    BY <1>1, <1>3 DEF Consume
  <2>2. /\ r.pc = (IF b = reader.want.bytes THEN "recheck" ELSE "idle")
        /\ r.want = reader.want /\ r.gen = reader.gen /\ r.bytes = b
        /\ r = [pc |-> r.pc, want |-> r.want, gen |-> r.gen, bytes |-> r.bytes]
    BY <1>0, <2>1
  <2>3. reader.want \in promised /\ reader.gen <= object.gen  BY <1>3 DEF Consume, IInv, ReadInv
  <2>4. ReadInv'  BY <1>1, <1>3, <2>1, <2>2, <2>3 DEF Consume, disk, ReadInv
  <2> QED  BY <1>0, <1>1, <1>3, <2>2, <2>4, ReaderFrame DEF Consume
<1>4. CASE FinishRead
  <2>1. CASE Recheck
    <3>1. r = [reader EXCEPT !.pc = "verified"]  BY <1>1, <1>4, <2>1 DEF FinishRead
    <3>2. /\ r.pc = "verified" /\ r.want = reader.want /\ r.gen = reader.gen /\ r.bytes = reader.bytes
          /\ r = [pc |-> r.pc, want |-> r.want, gen |-> r.gen, bytes |-> r.bytes]
      BY <1>0, <3>1
    <3>3. object.bytes = reader.want.bytes /\ reader.bytes = reader.want.bytes
      BY <1>4, <2>1 DEF FinishRead, Recheck, IInv, ReadInv
    <3>4. ReadInv'
      BY <1>1, <1>4, <3>2, <3>3 DEF FinishRead, disk, IInv, ReadInv
    <3> QED  BY <1>0, <1>1, <1>4, <3>2, <3>4, ReaderFrame DEF FinishRead
  <2>2. CASE ~Recheck
    <3>1. r = NoRead  BY <1>1, <1>4, <2>2 DEF FinishRead
    <3>2. ReadInv'  BY <1>1, <3>1 DEF NoRead, ReadInv
    <3> QED  BY <1>1, <1>4, <3>1, <3>2, ReaderFrame DEF FinishRead, NoRead
  <2> QED  BY <2>1, <2>2
<1>5. CASE CloseRead
  <2>1. r = NoRead  BY <1>1, <1>5 DEF CloseRead
  <2>2. ReadInv'  BY <1>1, <2>1 DEF NoRead, ReadInv
  <2> QED  BY <1>1, <1>5, <2>1, <2>2, ReaderFrame DEF CloseRead, NoRead
<1> QED  BY <1>2, <1>3, <1>4, <1>5

-----------------------------------------------------------------------------
(* The world                                                               *)

LEMMA TamperStep ==
    ASSUME IInv, Tamper
    PROVE  IInv'
<1>1. /\ object' = [bytes |-> Foreign, synced |-> TRUE, gen |-> object.gen + 1]
      /\ safe' = [safe EXCEPT !.object = object'] /\ lost' = lost \cup {"object"}
      /\ reader.pc # "verified"
      /\ UNCHANGED <<provider, request, attrs, dirs, writer, reader, promised>>
  BY DEF Tamper
<1>2. object.gen \in Nat /\ reader.gen \in Nat /\ safe \in [object : Object, attrs : Types]
  BY DEF IInv, TypeOK, Object
<1>3. object' \in Object
  <2>1. Foreign \in Bytes /\ object.gen + 1 \in Nat  BY <1>2 DEF Bytes
  <2> QED  BY <1>1, <2>1 DEF Object
<1>4. /\ safe' \in [object : Object, attrs : Types]
      /\ safe'.object = object' /\ safe'.attrs = safe.attrs
  BY <1>1, <1>2, <1>3
<1>5. object'.bytes = Foreign /\ object'.synced /\ object'.gen = object.gen + 1
  BY <1>1
<1>6. "object" \in lost'  BY <1>1
<1>7. TypeOK'  BY <1>1, <1>3, <1>4 DEF IInv, TypeOK
<1>8. StoredInv'
  <2>1. provider = "gcs" => lost' \subseteq {"object"} /\ safe.attrs = attrs
    BY <1>1 DEF IInv, StoredInv
  <2>2. attrs = None => safe.attrs = None  BY DEF IInv, StoredInv
  <2> QED  BY <1>1, <1>4, <1>5, <1>6, <2>1, <2>2 DEF StoredInv, Ours
<1>9. PromiseInv'  BY <1>1, <1>6 DEF IInv, PromiseInv, Ours, Wanted
<1>10. ReadInv'  BY <1>1, <1>2, <1>5 DEF IInv, ReadInv
<1>11. ASSUME NEW v \in Writers PROVE PutInv(v, writer[v])'
  <2>1. PICK u : u = writer[v]  OBVIOUS
  <2>2. PutInv(v, u)  BY <2>1, TypeFacts
  <2>3. Foreign # None  BY DEF Foreign, None
  <2>4. PutInv(v, u)'  BY <1>1, <1>4, <1>5, <1>6, <2>2, <2>3 DEF PutInv, Ours
  <2> QED  BY <1>1, <2>1, <2>4 DEF PutInv
<1> QED  BY <1>7, <1>8, <1>9, <1>10, <1>11 DEF IInv

\* Names that were not fsynced may be gone, files that were are whole.
LEMMA PowerLossStep ==
    ASSUME IInv, PowerLoss
    PROVE  IInv'
<1>0. provider = "local" /\ UNCHANGED <<provider, request, promised>> /\ reader' = NoRead
  BY DEF PowerLoss
<1>1. PICK gone \in SUBSET {d \in Dirs : dirs[d] = "made"},
           o \in {object, safe.object}, a \in {attrs, safe.attrs} :
        /\ dirs' = [d \in Dirs |-> CASE d \in gone -> "absent"
                                     [] d \notin gone /\ dirs[d] = "made" -> "durable"
                                     [] OTHER -> dirs[d]]
        /\ object' = IF "data" \in gone \/ o.bytes = None THEN [NoObject EXCEPT !.gen = object.gen]
                     ELSE [o EXCEPT !.bytes = IF o.synced THEN @ ELSE Torn]
        /\ attrs' = IF "meta" \in gone THEN None ELSE a
        /\ safe' = [object |-> object', attrs |-> attrs']
        /\ lost' = lost \cup gone
  BY DEF PowerLoss
<1>2. o \in Object /\ object \in Object /\ object.gen \in Nat /\ a \in Types /\ (o.bytes # None => o.synced)
  <2>1. object \in Object /\ safe.object \in Object /\ attrs \in Types /\ safe.attrs \in Types
    BY DEF IInv, TypeOK
  <2>2. object.gen \in Nat  BY <2>1 DEF Object
  <2> QED  BY <2>1, <2>2 DEF IInv, StoredInv
<1>3. /\ object' \in Object
      /\ \/ object'.bytes = None
         \/ "data" \notin gone /\ object' = o /\ object'.synced
  <2>1. CASE "data" \in gone \/ o.bytes = None
    <3>1. object' = [bytes |-> None, synced |-> FALSE, gen |-> object.gen]
      BY <1>1, <2>1 DEF NoObject
    <3>2. None \in Bytes  BY DEF Bytes
    <3> QED  BY <1>2, <3>1, <3>2 DEF Object
  <2>2. CASE ~("data" \in gone \/ o.bytes = None)
    <3>1. object' = [o EXCEPT !.bytes = o.bytes]  BY <1>1, <1>2, <2>2
    <3>2. object' = o  BY <1>2, <3>1 DEF Object
    <3> QED  BY <1>2, <2>2, <3>2
  <2> QED  BY <2>1, <2>2
<1>4. safe'.object = object' /\ safe'.attrs = attrs' /\ attrs' \in {None, attrs, safe.attrs}
  BY <1>1
<1>5. TypeOK'
  <2>1. attrs' \in Types
    <3>1. None \in Types  BY DEF Types
    <3> QED  BY <1>1, <1>2, <3>1
  <2>2. safe' \in [object : Object, attrs : Types]  BY <1>1, <1>3, <2>1
  <2>3. dirs' \in [Dirs -> {"absent", "made", "durable"}]  BY <1>1 DEF IInv, TypeOK
  <2>4. writer' \in [Writers -> Put]  BY RestingFacts, TypeFacts DEF PowerLoss
  <2>5. reader' = NoRead /\ 0 \in Nat  BY <1>0
  <2> QED  BY <1>0, <1>3, <2>1, <2>2, <2>3, <2>4, <2>5 DEF IInv, TypeOK, Put, NoRead
<1>6. "object" \in lost' <=> "object" \in lost
  BY <1>1 DEF Dirs
<1>7. StoredInv'
  <2>1. object'.bytes # None => object'.synced  BY <1>3
  <2>2. ASSUME Ours, object'.bytes # None
        PROVE  \E v \in Writers : object'.bytes = request[v].bytes
    <3>1. object' = o  BY <1>3, <2>2
    <3>2. o = object \/ o = safe.object  OBVIOUS
    <3> QED  BY <2>2, <3>1, <3>2 DEF IInv, StoredInv
  <2>3. ASSUME Ours, attrs' # None
        PROVE  \E v \in Writers : attrs' = Wanted(v)
    BY <1>4, <2>3 DEF IInv, StoredInv
  <2> QED  BY <1>0, <1>4, <1>6, <2>1, <2>2, <2>3 DEF StoredInv, Ours, Wanted
<1>8. PromiseInv'
  <2> SUFFICES ASSUME NEW p \in promised
               PROVE  /\ Ours /\ "data" \notin lost' => object'.bytes = p.bytes
                      /\ lost' = {} /\ Agreed => attrs' = p.attrs
    BY <1>0, <1>4, <1>6 DEF IInv, PromiseInv, Ours, Wanted, Agreed
  <2>1. ASSUME Ours, "data" \notin lost' PROVE object'.bytes = p.bytes
    <3>1. "data" \notin gone /\ "data" \notin lost  BY <1>1, <2>1
    <3>2. object.bytes = p.bytes /\ o = object  BY <2>1, <3>1 DEF IInv, PromiseInv
    <3> QED  BY <1>1, <1>2, <3>1, <3>2 DEF Object, NoObject
  <2>2. ASSUME lost' = {}, Agreed PROVE attrs' = p.attrs
    <3>1. gone = {} /\ lost = {}  BY <1>1, <2>2
    <3> QED  BY <1>1, <2>2, <3>1 DEF IInv, PromiseInv
  <2> QED  BY <2>1, <2>2
<1>9. ReadInv'  BY <1>0 DEF ReadInv, NoRead
<1>10. ASSUME NEW v \in Writers PROVE PutInv(v, writer[v])'
  <2>1. PICK u : u = writer'[v]  OBVIOUS
  <2>2. u.pc \in {"idle", "stored"} \/ (u.pc = "conflict" /\ u = writer[v])
    BY <2>1, RestingFacts DEF PowerLoss
  <2>3. u.pc = "conflict" => ~Ours \/ \E x \in Writers : request[x] # request[v]
    BY <2>2, TypeFacts DEF PutInv
  <2>4. PutInv(v, u)'
    BY <1>0, <1>6, <2>2, <2>3 DEF PutInv, Local, Remote, Holding, Attributing, Ours
  <2> QED  BY <2>1, <2>4 DEF PutInv
<1> QED  BY <1>5, <1>7, <1>8, <1>9, <1>10 DEF IInv

-----------------------------------------------------------------------------
(* Theorems                                                                *)

LEMMA InitInv ==
    ASSUME Init
    PROVE  IInv
<1>1. NoObject \in Object
  <2>1. None \in Bytes  BY DEF Bytes
  <2> QED  BY <2>1 DEF NoObject, Object
<1>2. TypeOK
  <2>1. None \in Types  BY DEF Types
  <2>2. safe \in [object : Object, attrs : Types]  BY <1>1, <2>1 DEF Init
  <2>3. writer \in [Writers -> Put]  BY RestingFacts DEF Init
  <2>4. dirs \in [Dirs -> {"absent", "made", "durable"}]  BY DEF Init
  <2> QED  BY <1>1, <2>1, <2>2, <2>3, <2>4 DEF Init, TypeOK, Put, NoRead
<1>3. StoredInv  BY DEF Init, StoredInv, NoObject
<1>4. PromiseInv  BY DEF Init, PromiseInv
<1>5. ReadInv  BY DEF Init, ReadInv, NoRead
<1>6. \A w \in Writers : PutInv(w, writer[w])  BY RestingFacts, EndedPut DEF Init
<1> QED  BY <1>2, <1>3, <1>4, <1>5, <1>6 DEF IInv

\* The inductive invariant of a key holds in every reachable state: what each put
\* relies on between two of its steps is not disturbed by any other step of any
\* writer, by a kill or by a power loss (LocalObjectStore and GCSObjectStore).
THEOREM Invariance == Spec => []IInv
<1>1. ASSUME ProperRequests, IInv, [Next]_vars PROVE IInv'
  <2>1. CASE UNCHANGED vars
    <3>1. ReadInv'  BY <1>1, <2>1 DEF vars, disk, IInv, ReadInv
    <3>2. PICK r : r = reader'  OBVIOUS
    <3> QED  BY <1>1, <2>1, <3>1, <3>2, ReaderFrame DEF vars, IInv, TypeOK
  <2>2. ASSUME NEW w \in Writers, PutStep(w) \/ Kill(w) PROVE IInv'
    BY <1>1, <2>2, BeginStep, HeadStep, DirectoryStep, StageStep, LinkStep, SyncLinkStep,
       ReplaceStep, SyncAttributesStep, RepairedStep, ResyncStep, CheckStep, FailStep,
       UploadStep, KillStep
       DEF PutStep
  <2> QED  BY <1>1, <2>1, <2>2, ReaderStep, PowerLossStep, TamperStep DEF Next
<1>2. IInv /\ [Next]_vars => IInv'  BY <1>1, RequestsAssumption
<1>3. Init => IInv  BY InitInv
<1> QED  BY <1>2, <1>3, PTL DEF Spec

\* Whatever is killed, repeated, raced or loses power: what put_immutable accepted
\* stays under its key, identical puts never conflict, and a verified retrieval ends
\* with the key still holding what its receipt says.
THEOREM ObjectsKept == Spec => []ObjectsAreKept
<1>1. IInv => ObjectsAreKept
  <2> SUFFICES ASSUME IInv PROVE ObjectsAreKept
    OBVIOUS
  <2>1. PutsAreKept  BY DEF IInv, PromiseInv, PutsAreKept, Ours
  <2>2. ConflictIsReal  BY DEF IInv, PutInv, ConflictIsReal, Ours
  <2>3. VerifiedIsCurrent  BY DEF IInv, ReadInv, VerifiedIsCurrent
  <2> QED  BY <2>1, <2>2, <2>3 DEF ObjectsAreKept
<1> QED  BY <1>1, Invariance, PTL
=============================================================================
