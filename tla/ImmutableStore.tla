--------------------------- MODULE ImmutableStore ---------------------------
(***************************************************************************)
(* One key of the object store (archive/storage): writers that put it,     *)
(* with LocalObjectStore's files or with GCSObjectStore's conditional      *)
(* create, and a reader that retrieves it against a receipt.  A put may be *)
(* killed between any two of its durable steps, a call may fail, having    *)
(* landed or not, the machine may lose power, and somebody else may change *)
(* the object.                                                             *)
(*                                                                         *)
(* On a local disk the key is a name in one directory ("data") and its     *)
(* content type and encoding a sidecar in another ("meta"); a name, also a *)
(* directory's, is safe from a power loss once its parent is fsynced.      *)
(***************************************************************************)
EXTENDS Integers, FiniteSets

CONSTANTS
    Writers,
    Requests,     \* functions from Writers to what each of them puts
    MaxTrouble    \* bound on kills, failing calls, power losses and changes

None == "none"
Torn == "torn"
Foreign == "foreign"
Dirs == {"data", "meta"}
DefaultContentType == "octet_stream"

\* Callers put real bytes: none that stand for no object, for a file a power loss
\* tore or for what somebody else put there.
ProperRequests == \A r \in Requests, w \in Writers : r[w].bytes \notin {None, Torn, Foreign}

ASSUME RequestsAssumption == ProperRequests

VARIABLES
    provider,   \* "local" or "gcs"
    request,    \* what each writer puts: bytes, and content type and encoding
    object,     \* the key: bytes, whether they are fsynced, and its generation
    attrs,      \* its stored content type and encoding, or None
    safe,       \* what a power loss leaves: the key's name and the sidecar
    dirs,       \* each directory: absent, made, or durable
    writer,     \* where each put is
    reader,     \* the verified retrieval
    promised,   \* the requests whose put returned
    lost,       \* the directories a power loss took; "object" once somebody changed it
    trouble

disk == <<object, attrs, safe, dirs>>
vars == <<provider, request, disk, writer, reader, promised, lost, trouble>>

NoObject == [bytes |-> None, synced |-> FALSE, gen |-> 0]
Resting == [pc |-> "idle", then |-> None, temp |-> FALSE]
NoRead == [pc |-> "idle", want |-> None, gen |-> 0, bytes |-> None]

Trouble == trouble < MaxTrouble /\ trouble' = trouble + 1

Goto(w, label) == writer' = [writer EXCEPT ![w].pc = label]
\* Every way out of put_immutable drops the temporary name.
Return(w, result) == writer' = [writer EXCEPT ![w] = [Resting EXCEPT !.pc = result]]

\* ObjectMetadata.matches and matches_request; GCS stores a content type always.
Wanted(w) ==
    IF provider = "gcs" /\ request[w].attrs = None THEN DefaultContentType ELSE request[w].attrs
Matches(w) == object.bytes = request[w].bytes
MatchesRequest(w) == Matches(w) /\ attrs = Wanted(w)

Succeed(w) ==
    /\ Return(w, "stored")
    /\ promised' = promised \cup {[bytes |-> request[w].bytes, attrs |-> Wanted(w)]}

-----------------------------------------------------------------------------
(* LocalObjectStore.put_immutable *)

Begin(w) ==
    /\ writer[w].pc \in {"idle", "failed"}
    /\ Goto(w, IF provider = "local" THEN "head" ELSE "upload")
    /\ UNCHANGED <<provider, request, disk, reader, promised, lost, trouble>>

\* head, and what an object that is already there means: a retry, a put that died
\* before its sidecar, or a conflict.
Existing(w) ==
    CASE ~Matches(w) -> "conflict"
      [] Matches(w) /\ attrs = request[w].attrs -> "resync"
      [] Matches(w) /\ attrs = None /\ request[w].attrs # None -> "attributes"
      [] OTHER -> "conflict"

HeadObject(w) ==
    /\ writer[w].pc = "head"
    /\ writer' = [writer EXCEPT ![w].pc = IF object.bytes = None THEN "mkdir" ELSE Existing(w),
                                ![w].then = "repaired"]
    /\ UNCHANGED <<provider, request, disk, reader, promised, lost, trouble>>

\* _create_directories_durable: a directory that is there is taken as it is.
MakeDirectory(w, d, next) ==
    IF dirs[d] = "absent"
    THEN dirs' = [dirs EXCEPT ![d] = "made"] /\ Goto(w, IF d = "data" THEN "mkdirSync" ELSE "metaSync")
    ELSE UNCHANGED dirs /\ Goto(w, next)

MakeDataDirectory(w) ==
    /\ writer[w].pc = "mkdir" /\ MakeDirectory(w, "data", "stage")
    /\ UNCHANGED <<provider, request, object, attrs, safe, reader, promised, lost, trouble>>

MakeMetaDirectory(w) ==
    /\ writer[w].pc = "attributes" /\ MakeDirectory(w, "meta", "replace")
    /\ UNCHANGED <<provider, request, object, attrs, safe, reader, promised, lost, trouble>>

SyncNewDirectory(w) ==
    /\ \/ /\ writer[w].pc = "mkdirSync" /\ Goto(w, "stage")
          /\ dirs' = [dirs EXCEPT !["data"] = "durable"]
       \/ /\ writer[w].pc = "metaSync" /\ Goto(w, "replace")
          /\ dirs' = [dirs EXCEPT !["meta"] = "durable"]
    /\ UNCHANGED <<provider, request, object, attrs, safe, reader, promised, lost, trouble>>

\* The temporary is written, fsynced and compared with what the caller promised.
Stage(w) ==
    /\ writer[w].pc = "stage"
    /\ writer' = [writer EXCEPT ![w].pc = "link", ![w].temp = TRUE]
    /\ UNCHANGED <<provider, request, disk, reader, promised, lost, trouble>>

\* _link_exclusive fails when another writer published in between; the recursive
\* call for an object without attributes begins with head.
Published(w) ==
    CASE MatchesRequest(w) -> "resync"
      [] Matches(w) /\ attrs = None /\ request[w].attrs # None -> "head"
      [] OTHER -> "conflict"

LinkExclusive(w) ==
    /\ writer[w].pc = "link"
    /\ IF object.bytes = None
       THEN /\ object' = [bytes |-> request[w].bytes, synced |-> writer[w].temp, gen |-> object.gen + 1]
            /\ Goto(w, "linkSync")
       ELSE Goto(w, Published(w)) /\ UNCHANGED object
    /\ UNCHANGED <<provider, request, attrs, safe, dirs, reader, promised, lost, trouble>>

\* The directory of the key, then the sidecar.
SyncLink(w) ==
    /\ writer[w].pc = "linkSync"
    /\ safe' = [safe EXCEPT !.object = object]
    /\ writer' = [writer EXCEPT ![w].pc = IF request[w].attrs = None THEN "check" ELSE "attributes",
                                ![w].then = "check"]
    /\ UNCHANGED <<provider, request, object, attrs, dirs, reader, promised, lost, trouble>>

\* _write_attributes: os.replace, then the fsync of its directory.
ReplaceAttributes(w) ==
    /\ writer[w].pc = "replace"
    /\ attrs' = request[w].attrs /\ Goto(w, "replaceSync")
    /\ UNCHANGED <<provider, request, object, safe, dirs, reader, promised, lost, trouble>>

SyncAttributes(w) ==
    /\ writer[w].pc = "replaceSync"
    /\ safe' = [safe EXCEPT !.attrs = attrs] /\ Goto(w, writer[w].then)
    /\ UNCHANGED <<provider, request, object, attrs, dirs, reader, promised, lost, trouble>>

\* The head after the attributes of an object that was there before were written.
Repaired(w) ==
    /\ writer[w].pc = "repaired"
    /\ Goto(w, IF MatchesRequest(w) THEN "resync" ELSE IF object.bytes = None THEN "failed" ELSE "conflict")
    /\ UNCHANGED <<provider, request, disk, reader, promised, lost, trouble>>

\* Mutant: an object that is there is taken for a durable one.
ResyncSkipped == safe

\* "Accepting it as a successful put is a promise about durability": the directories
\* are fsynced again.
Resynced == [safe EXCEPT !.object = object, !.attrs = attrs]

Resync(w) ==
    /\ writer[w].pc = "resync"
    /\ safe' = Resynced /\ Succeed(w)
    /\ UNCHANGED <<provider, request, object, attrs, dirs, reader, lost, trouble>>

\* The head after publication.
Check(w) ==
    /\ writer[w].pc = "check"
    /\ IF MatchesRequest(w) THEN Succeed(w) ELSE Return(w, "failed") /\ UNCHANGED promised
    /\ UNCHANGED <<provider, request, disk, reader, lost, trouble>>

\* Any step of the file system may raise; the put reports it and may be repeated.
LocalFails(w) ==
    /\ Trouble /\ provider = "local" /\ writer[w].pc \notin {"idle", "failed", "stored", "conflict"}
    /\ Return(w, "failed")
    /\ UNCHANGED <<provider, request, disk, reader, promised, lost>>

-----------------------------------------------------------------------------
(* GCSObjectStore.put_immutable *)

\* if_generation_match=0: the object and its metadata appear in one step, or not.
Upload(w) ==
    /\ writer[w].pc = "upload"
    /\ IF object.bytes = None
       THEN /\ object' = [bytes |-> request[w].bytes, synced |-> TRUE, gen |-> object.gen + 1]
            /\ attrs' = Wanted(w)
            /\ Goto(w, "uploaded")
       ELSE Goto(w, "resolve") /\ UNCHANGED <<object, attrs>>
    /\ safe' = [object |-> object', attrs |-> attrs']
    /\ UNCHANGED <<provider, request, dirs, reader, promised, lost, trouble>>

\* blob.reload and _uploaded_metadata.
Uploaded(w) ==
    /\ writer[w].pc = "uploaded"
    /\ IF MatchesRequest(w) THEN Succeed(w) ELSE Return(w, "failed") /\ UNCHANGED promised
    /\ UNCHANGED <<provider, request, disk, reader, lost, trouble>>

\* _resolve_existing: the generation's bytes are read and compared.
ResolveExisting(w) ==
    /\ writer[w].pc = "resolve"
    /\ IF MatchesRequest(w) THEN Succeed(w) ELSE Return(w, "conflict") /\ UNCHANGED promised
    /\ UNCHANGED <<provider, request, disk, reader, lost, trouble>>

\* A call fails, before or after the service acted on it.
GcsFails(w) ==
    /\ Trouble /\ writer[w].pc \in {"upload", "uploaded", "resolve"}
    /\ Return(w, "failed")
    /\ UNCHANGED <<provider, request, disk, reader, promised, lost>>

-----------------------------------------------------------------------------
(* open_verified and VerifiedReader *)

\* What is compared with the receipt before the first byte: the length and the
\* sidecar of a local file, or the whole identity that GCS holds.
LocalOpens(p) == object.bytes # None /\ attrs = p.attrs
GcsOpens(p) == object.bytes = p.bytes /\ attrs = p.attrs

OpenVerified ==
    /\ reader.pc = "idle"
    /\ \E p \in promised :
         /\ IF provider = "local" THEN LocalOpens(p) ELSE GcsOpens(p)
         /\ reader' = [pc |-> "reading", want |-> p, gen |-> object.gen, bytes |-> None]
    /\ UNCHANGED <<provider, request, disk, writer, promised, lost, trouble>>

\* A generation is pinned; a local file may be read before or after it changed.
Consume ==
    /\ reader.pc = "reading"
    /\ \E b \in {object.bytes} \cup (IF reader.gen = object.gen THEN {} ELSE {reader.want.bytes}) :
         reader' = [reader EXCEPT !.pc = IF b = reader.want.bytes THEN "recheck" ELSE "idle", !.bytes = b]
    /\ UNCHANGED <<provider, request, disk, writer, promised, lost, trouble>>

\* recheck: the object is still the one that was opened.
Recheck == object.gen = reader.gen /\ attrs = reader.want.attrs

FinishRead ==
    /\ reader.pc = "recheck"
    /\ reader' = IF Recheck THEN [reader EXCEPT !.pc = "verified"] ELSE NoRead
    /\ UNCHANGED <<provider, request, disk, writer, promised, lost, trouble>>

CloseRead ==
    /\ reader.pc = "verified" /\ reader' = NoRead
    /\ UNCHANGED <<provider, request, disk, writer, promised, lost, trouble>>

-----------------------------------------------------------------------------
(* The world *)

Kill(w) ==
    /\ Trouble /\ writer[w].pc \notin {"idle", "failed", "stored", "conflict"}
    /\ writer' = [writer EXCEPT ![w] = Resting]
    /\ UNCHANGED <<provider, request, disk, reader, promised, lost>>

\* Every process ends; a directory whose own name was not fsynced may be gone with
\* what is in it, and any other name is the new one or the last one fsynced.
PowerLoss ==
    /\ Trouble /\ provider = "local"
    /\ \E gone \in SUBSET {d \in Dirs : dirs[d] = "made"},
         o \in {object, safe.object}, a \in {attrs, safe.attrs} :
         /\ dirs' = [d \in Dirs |-> CASE d \in gone -> "absent"
                                      [] d \notin gone /\ dirs[d] = "made" -> "durable"
                                      [] OTHER -> dirs[d]]
         /\ object' = IF "data" \in gone \/ o.bytes = None THEN [NoObject EXCEPT !.gen = object.gen]
                      ELSE [o EXCEPT !.bytes = IF o.synced THEN @ ELSE Torn]
         /\ attrs' = IF "meta" \in gone THEN None ELSE a
         /\ safe' = [object |-> object', attrs |-> attrs']
         /\ lost' = lost \cup gone
    /\ writer' = [w \in Writers |-> IF writer[w].pc \in {"stored", "conflict"} THEN writer[w] ELSE Resting]
    /\ reader' = NoRead
    /\ UNCHANGED <<provider, request, promised>>

\* Somebody changes the object behind the store's back.
Tamper ==
    /\ Trouble /\ object.bytes # None /\ reader.pc # "verified"
    /\ object' = [bytes |-> Foreign, synced |-> TRUE, gen |-> object.gen + 1]
    /\ safe' = [safe EXCEPT !.object = object']
    /\ lost' = lost \cup {"object"}
    /\ UNCHANGED <<provider, request, attrs, dirs, writer, reader, promised>>

Init ==
    /\ provider \in {"local", "gcs"} /\ request \in Requests
    /\ object = NoObject /\ attrs = None
    /\ safe = [object |-> NoObject, attrs |-> None]
    /\ dirs = [d \in Dirs |-> "absent"]
    /\ writer = [w \in Writers |-> Resting]
    /\ reader = NoRead /\ promised = {} /\ lost = {} /\ trouble = 0

PutStep(w) ==
    \/ Begin(w) \/ HeadObject(w) \/ MakeDataDirectory(w) \/ MakeMetaDirectory(w) \/ SyncNewDirectory(w)
    \/ Stage(w) \/ LinkExclusive(w) \/ SyncLink(w) \/ ReplaceAttributes(w) \/ SyncAttributes(w)
    \/ Repaired(w) \/ Resync(w) \/ Check(w) \/ LocalFails(w)
    \/ Upload(w) \/ Uploaded(w) \/ ResolveExisting(w) \/ GcsFails(w)

Next ==
    \/ \E w \in Writers : PutStep(w) \/ Kill(w)
    \/ OpenVerified \/ Consume \/ FinishRead \/ CloseRead
    \/ PowerLoss \/ Tamper

Spec == Init /\ [][Next]_vars

-----------------------------------------------------------------------------
\* Writers that put the same bytes ask for the same content type and encoding.
Agreed == \A v, w \in Writers : request[v].bytes = request[w].bytes => request[v] = request[w]

\* What a put returned stays, through kills, retries, concurrent writers and power
\* losses, unless a power loss took the directory or somebody else changed the
\* object: a key is written once (put_immutable of both stores).
PutsAreKept ==
    "object" \notin lost =>
      \A p \in promised : /\ "data" \notin lost => object.bytes = p.bytes
                          /\ lost = {} /\ Agreed => attrs = p.attrs

\* A conflict is reported only when somebody asked for something else or changed
\* the object: retries and racing writers of one request never meet one.
ConflictIsReal ==
    \A w \in Writers : writer[w].pc = "conflict" =>
        "object" \in lost \/ \E v \in Writers : request[v] # request[w]

\* When a verified retrieval ends, the key still holds what the receipt says.
VerifiedIsCurrent ==
    reader.pc = "verified" => reader.bytes = reader.want.bytes /\ object.bytes = reader.want.bytes

\* What put_immutable accepted stays under its key whatever is killed, repeated or
\* raced; identical puts never conflict; a verified retrieval ends with the key
\* still holding what its receipt says (put_immutable, open_verified, VerifiedReader).
ObjectsAreKept == PutsAreKept /\ ConflictIsReal /\ VerifiedIsCurrent

\* Not an invariant (a directory that a killed or concurrent put made and did not
\* fsync is taken as it is, local.py:140): no power loss takes an object whose put
\* returned, "Accepting it as a successful put is a promise about durability".
SuccessIsDurable == "object" \in lost \/ \A p \in promised : object.bytes = p.bytes
=============================================================================
