--------------------------- MODULE ParameterCache ---------------------------
(***************************************************************************)
(* destatis/core/cache.py: the cache of GENESIS replies, keyed by the      *)
(* request, with the fetch of destatis/core/api.py under it and the reader *)
(* of destatis/reader.py on top.  Several readers that share a cache       *)
(* directory run get_or_fetch at once and then parse the file they were    *)
(* given; a step is one access to the file system or one exchange with     *)
(* the host.                                                               *)
(*                                                                         *)
(* A key stands for host, endpoint and canonical parameters.  Files are    *)
(* laid out and written as in DownloadCache, under other names, but a POST *)
(* reply has no validators: a hit wins without a request, and only         *)
(* refresh=True asks again.                                                *)
(***************************************************************************)
EXTENDS Naturals, Functions

CONSTANTS
    Readers, Keys,
    Bodies,         \* the tables a host can send
    Torn,           \* a damaged or partial file: no host sends it
    Digests, Sha256,
    MaxTampers,     \* bound: changes made to files behind the cache's back
    MaxCrashes,     \* bound: processes that die
    None

Contents == Bodies \cup {Torn}

ASSUME CollisionFree == Sha256 \in [Contents -> Digests] /\ IsInjective(Sha256)
ASSUME NoneIsNothing == None \notin Contents \cup Digests \cup Keys /\ Torn \notin Bodies
ASSUME BoundsAreNat == MaxTampers \in Nat /\ MaxCrashes \in Nat

VARIABLES
    content, sent,      \* the hosts: the table behind each key, now and ever
    blob,               \* <cache_dir>/post-<digest>.bin
    metaFile,           \* <cache_dir>/<key>.meta.json
    call,               \* per reader: the locals of get_or_fetch
    outcome,            \* per reader: how its last get_or_fetch ended
    parsed,             \* per reader: the bytes its last _parse was given
    seen,               \* per reader: history, read by properties only
    tampers, crashes

hosts == <<content, sent>>
disk == <<blob, metaFile>>
faults == <<tampers, crashes>>
vars == <<hosts, disk, call, outcome, parsed, seen, faults>>

-----------------------------------------------------------------------------
\* Types

\* What a metadata file parses to; no_timestamp also stands for one without a
\* time zone.
MetaKinds == {"missing", "undecodable", "bad_hash", "no_timestamp", "entry"}
Metas == [kind : MetaKinds, sha : Digests \cup {None}]
Missing == [kind |-> "missing", sha |-> None]

\* What resolve_credentials would find for a reader's host.
Credentials == {"found", "missing", "of_other_host"}

Running == {"read_meta", "verify", "fetch", "store_blob", "store_meta"}
Errors == {"missing_credentials", "wrong_host", "no_reply", "not_a_table", "empty_reply",
           "write_error", "crashed"}

\* A digest is never mistaken for how a call ended otherwise.
ASSUME DigestsAreNoWords == Digests \cap (Errors \cup {"none", "idle", "pending", "failed"}) = {}

\* at: the next step.  sha: the digest read from the metadata.  reply: the body
\* to store.
Calls == [at : Running \cup {"parse", "idle"}, key : Keys \cup {None}, refresh : BOOLEAN,
          credentials : Credentials, meta : Metas, reply : Bodies \cup {None}]

Idle == [at |-> "idle", key |-> None, refresh |-> FALSE, credentials |-> "missing",
         meta |-> Missing, reply |-> None]

\* window: tables current since the call began.  hit: a usable entry existed
\* when it began.  asked: it sent a request.  wrote: it replaced a file.  before:
\* tampers when it began.
Seens == [window : SUBSET Bodies, hit : BOOLEAN, asked : BOOLEAN, wrote : BOOLEAN,
          before : 0..MaxTampers]

TypeOK ==
    /\ content \in [Keys -> Bodies]
    /\ sent \in [Keys -> SUBSET Bodies]
    /\ blob \in [Digests -> Contents \cup {None}]
    /\ metaFile \in [Keys -> Metas]
    /\ call \in [Readers -> Calls]
    /\ outcome \in [Readers -> Errors \cup {"none"} \cup Digests]
    /\ parsed \in [Readers -> Contents \cup {None, "no_file"}]
    /\ seen \in [Readers -> Seens]
    /\ tampers \in 0..MaxTampers
    /\ crashes \in 0..MaxCrashes

-----------------------------------------------------------------------------
\* The cache directory starts empty.
Init ==
    /\ content \in [Keys -> Bodies]
    /\ sent = [k \in Keys |-> {content[k]}]
    /\ blob = [d \in Digests |-> None]
    /\ metaFile = [k \in Keys |-> Missing]
    /\ call = [r \in Readers |-> Idle]
    /\ outcome = [r \in Readers |-> "none"]
    /\ parsed = [r \in Readers |-> None]
    /\ seen = [r \in Readers |-> [window |-> {}, hit |-> FALSE, asked |-> FALSE,
                                  wrote |-> FALSE, before |-> 0]]
    /\ tampers = 0
    /\ crashes = 0

\* The entry of k is whole: readable metadata that names an undamaged blob.
Usable(k) ==
    LET m == metaFile[k] IN
    m.kind = "entry" /\ blob[m.sha] # None /\ Sha256[blob[m.sha]] = m.sha

\* The call goes on with the fields of k.  It ends, raising how; or it returns
\* the file of digest d, which the reader goes on to parse.
Continue(r, k) == call' = [call EXCEPT ![r] = k] /\ UNCHANGED outcome

Ask(r, step) == [Idle EXCEPT !.at = step, !.key = call[r].key, !.refresh = call[r].refresh]

Raise(r, how) ==
    /\ call' = [call EXCEPT ![r] = Ask(r, "idle")]
    /\ outcome' = [outcome EXCEPT ![r] = how]

Return(r, d) ==
    /\ call' = [call EXCEPT ![r] = Ask(r, "parse")]
    /\ outcome' = [outcome EXCEPT ![r] = d]

\* get_or_fetch: a refresh goes straight to the host.
FirstStep(refresh) == IF refresh THEN "fetch" ELSE "read_meta"

Begin(r) ==
    /\ call[r].at = "idle"
    /\ \E k \in Keys, refresh \in BOOLEAN, found \in Credentials :
        /\ call' = [call EXCEPT ![r] = [Idle EXCEPT
              !.at = FirstStep(refresh),
              !.key = k, !.refresh = refresh, !.credentials = found]]
        /\ seen' = [seen EXCEPT ![r] = [window |-> {content[k]}, hit |-> Usable(k),
                        asked |-> FALSE, wrote |-> FALSE, before |-> tampers]]
    /\ outcome' = [outcome EXCEPT ![r] = "none"]
    /\ parsed' = [parsed EXCEPT ![r] = None]
    /\ UNCHANGED <<hosts, disk, faults>>

Miss(r) == Continue(r, [call[r] EXCEPT !.at = "fetch", !.meta = Missing])

\* _read_meta, and the test of the digest's form: whatever is wrong is a miss.
ReadMeta(r) ==
    /\ call[r].at = "read_meta"
    /\ LET m == metaFile[call[r].key] IN
        IF m.kind \in {"no_timestamp", "entry"}
        THEN Continue(r, [call[r] EXCEPT !.at = "verify", !.meta = m])
        ELSE Miss(r)
    /\ UNCHANGED <<hosts, disk, parsed, seen, faults>>

\* The blob is there, has the digest of its name, and the timestamp is good.
Hit(m) == m.kind = "entry" /\ blob[m.sha] # None /\ Sha256[blob[m.sha]] = m.sha

\* _payload_from_meta, from the opening of the blob on.
Verify(r) ==
    /\ call[r].at = "verify"
    /\ IF Hit(call[r].meta) THEN Return(r, call[r].meta.sha) ELSE Miss(r)
    /\ UNCHANGED <<hosts, disk, parsed, seen, faults>>

-----------------------------------------------------------------------------
\* fetch_tablefile: GenesisClient.call, and the test for a zip

\* Credentials are resolved by the first request: nothing is sent without them.
NoCredentials(r) ==
    /\ call[r].at = "fetch"
    /\ \/ call[r].credentials = "missing" /\ Raise(r, "missing_credentials")
       \/ call[r].credentials = "of_other_host" /\ Raise(r, "wrong_host")
    /\ UNCHANGED <<hosts, disk, parsed, seen, faults>>

Request(r) ==
    /\ call[r].at = "fetch"
    /\ call[r].credentials = "found"
    /\ seen' = [seen EXCEPT ![r].asked = TRUE]
    /\ UNCHANGED <<hosts, disk, parsed, faults>>

\* The host sends the table: the body store will write.
AnswerTable(r) ==
    /\ Request(r)
    /\ Continue(r, [call[r] EXCEPT !.at = "store_blob", !.reply = content[call[r].key]])

\* No answer, or none that counts: a transport error, a lock or an attempt that
\* times out, a redirect, an error status, a reply that is JSON or HTML.
AnswerError(r) == Request(r) /\ \E how \in {"no_reply", "not_a_table"} : Raise(r, how)

\* A fetch callback that hands back an empty body: store refuses it before it
\* touches a file.  fetch_tablefile never does, other callbacks may.
AnswerEmpty(r) == Request(r) /\ Raise(r, "empty_reply")

-----------------------------------------------------------------------------
\* store: the blob, then the metadata

Storing(r, step) ==
    /\ call[r].at = step
    /\ seen' = [seen EXCEPT ![r].wrote = TRUE]
    /\ UNCHANGED <<hosts, parsed, faults>>

\* write_atomic of the blob, and of the metadata file.
PutBlob(r, x) == blob' = [blob EXCEPT ![Sha256[call[r].reply]] = x]
PutMeta(r) == metaFile' = [metaFile EXCEPT
                  ![call[r].key] = [kind |-> "entry", sha |-> Sha256[call[r].reply]]]
BlobDone(r) == Continue(r, [call[r] EXCEPT !.at = "store_meta"])

\* Fault: the blob is written in place, half of it first.
StoreBlobInPlace(r) ==
    LET half == blob[Sha256[call[r].reply]] = Torn IN
    /\ Storing(r, "store_blob") /\ UNCHANGED metaFile
    /\ PutBlob(r, IF half THEN call[r].reply ELSE Torn)
    /\ IF half THEN BlobDone(r) ELSE UNCHANGED <<call, outcome>>

\* Fault: the blob of the entry's last table is cleared away with the store.
StoreBlobPrune(r) ==
    /\ Storing(r, "store_blob") /\ UNCHANGED metaFile
    /\ blob' = [d \in Digests |-> IF d = Sha256[call[r].reply] THEN call[r].reply
                                  ELSE IF d = metaFile[call[r].key].sha THEN None ELSE blob[d]]
    /\ BlobDone(r)

\* Fault: a blob that exists is not written again.
StoreBlobOnce(r) ==
    /\ Storing(r, "store_blob") /\ UNCHANGED metaFile
    /\ IF blob[Sha256[call[r].reply]] = None THEN PutBlob(r, call[r].reply) ELSE UNCHANGED blob
    /\ BlobDone(r)

StoreBlob(r) ==
    /\ Storing(r, "store_blob")
    /\ PutBlob(r, call[r].reply)
    /\ BlobDone(r)
    /\ UNCHANGED metaFile

\* Fault: the host is left out of the key, so two hosts share one entry.
StoreMetaOneKey(r) ==
    /\ Storing(r, "store_meta") /\ UNCHANGED blob
    /\ metaFile' = [k \in Keys |-> [kind |-> "entry", sha |-> Sha256[call[r].reply]]]
    /\ Return(r, Sha256[call[r].reply])

\* Fault: the return names what the entry held before.
StoreMetaReturnOld(r) ==
    /\ Storing(r, "store_meta") /\ UNCHANGED blob
    /\ PutMeta(r)
    /\ Return(r, IF metaFile[call[r].key].kind = "entry" THEN metaFile[call[r].key].sha
                 ELSE Sha256[call[r].reply])

StoreMeta(r) ==
    /\ Storing(r, "store_meta")
    /\ PutMeta(r)
    /\ Return(r, Sha256[call[r].reply])
    /\ UNCHANGED blob

\* The disk refuses: write_atomic removes the temporary file and raises.
WriteFails(r) ==
    /\ call[r].at \in {"store_blob", "store_meta"}
    /\ Raise(r, "write_error")
    /\ UNCHANGED <<hosts, disk, parsed, seen, faults>>

\* DestatisReader._parse: the file is read by its path, not from memory, and its
\* digest is not looked at again.
Parse(r) ==
    /\ call[r].at = "parse"
    /\ parsed' = [parsed EXCEPT ![r] = IF blob[outcome[r]] = None THEN "no_file" ELSE blob[outcome[r]]]
    /\ Continue(r, [call[r] EXCEPT !.at = "idle"])
    /\ UNCHANGED <<hosts, disk, seen, faults>>

-----------------------------------------------------------------------------
\* What the cache does not control

Crash(r) ==
    /\ call[r].at \in Running
    /\ crashes < MaxCrashes
    /\ crashes' = crashes + 1
    /\ Raise(r, "crashed")
    /\ UNCHANGED <<hosts, disk, parsed, seen, tampers>>

\* A blob or a metadata file is damaged, edited or deleted.
Tamper ==
    /\ tampers < MaxTampers
    /\ tampers' = tampers + 1
    /\ \/ /\ \E d \in Digests, x \in {Torn, None} :
              blob[d] # None /\ blob' = [blob EXCEPT ![d] = x]
          /\ UNCHANGED metaFile
       \/ /\ \E k \in Keys, kind \in MetaKinds \ {"entry"} :
              /\ metaFile[k].kind = "entry"
              /\ metaFile' = [metaFile EXCEPT ![k] =
                    IF kind = "no_timestamp" THEN [@ EXCEPT !.kind = kind]
                    ELSE [kind |-> kind, sha |-> None]]
          /\ UNCHANGED blob
    /\ UNCHANGED <<hosts, call, outcome, parsed, seen, crashes>>

\* The office revises the table behind k.
Revise(k) ==
    /\ \E b \in Bodies :
        /\ content' = [content EXCEPT ![k] = b]
        /\ sent' = [sent EXCEPT ![k] = @ \cup {b}]
        /\ seen' = [r \in Readers |->
              IF call[r].at \in Running /\ call[r].key = k
              THEN [seen[r] EXCEPT !.window = @ \cup {b}] ELSE seen[r]]
    /\ UNCHANGED <<disk, call, outcome, parsed, faults>>

Lookup(r) == ReadMeta(r) \/ Verify(r)
Fetch(r) == NoCredentials(r) \/ AnswerTable(r) \/ AnswerError(r) \/ AnswerEmpty(r)
Store(r) == StoreBlob(r) \/ StoreMeta(r) \/ WriteFails(r)

Next ==
    \/ \E r \in Readers :
          Begin(r) \/ Lookup(r) \/ Fetch(r) \/ Store(r) \/ Parse(r) \/ Crash(r)
    \/ \E k \in Keys : Revise(k)
    \/ Tamper

Spec == Init /\ [][Next]_vars

-----------------------------------------------------------------------------
\* Properties

Returned(r) == outcome[r] \in Digests

\* "a hit wins with no request" and "Credentials are needed on a cache miss
\* only": a reader that does not refresh, over a stored entry, is given a table
\* whatever its credentials and whatever is being stored over the entry
\* meanwhile, and sends nothing.
HitWins ==
    \A r \in Readers :
        tampers = 0 /\ seen[r].hit /\ ~call[r].refresh
            => ~seen[r].asked /\ outcome[r] \in Digests \cup {"none", "crashed"}

\* "refresh=True fetches again": a refresh returns a table that was behind the
\* key during the call, never the stored one of before it.
RefreshIsCurrent ==
    \A r \in Readers :
        Returned(r) /\ call[r].refresh => \E b \in seen[r].window : Sha256[b] = outcome[r]

\* No reader is given bytes its host never sent for that request: not those of
\* another host or selection, not a damaged file, whatever was done to the files.
OnlySentTables ==
    \A r \in Readers :
        Returned(r) => \E b \in sent[call[r].key] : Sha256[b] = outcome[r]

\* "must raise for a reply that is not the payload" and test_failed_or_empty_
\* fetch_keeps_the_entry: a call that ends in an error of the credentials or the
\* host has replaced no file.
FailedFetchKeepsEntry ==
    \A r \in Readers :
        outcome[r] \in Errors \ {"write_error", "crashed"} => ~seen[r].wrote

\* Crashes, failed writes and concurrent stores leave no entry whose blob is
\* missing or incomplete.  Only files changed from outside can.
EntriesAreWhole ==
    tampers = 0 => \A k \in Keys : metaFile[k].kind = "missing" \/ Usable(k)

\* The bytes that are parsed have the digest the payload reports, although the
\* file is read again, later, by its path, while others store and refresh.  Files
\* changed before the call are no excuse, only files changed since it began.
ParsedIsReported ==
    \A r \in Readers :
        seen[r].before = tampers /\ Returned(r) /\ parsed[r] # None
            => parsed[r] \in Bodies /\ Sha256[parsed[r]] = outcome[r]

\* "corrupted body: fetched again", "unreadable meta: a miss, the entry is fetched
\* again": whatever happened to the files before it, a call that returns leaves a
\* whole entry behind.  Claimed of a reader that is alone: a store that began
\* before the damage may publish the metadata of a blob damaged since.
CallRepairsEntry ==
    \A r \in Readers :
        seen[r].before = tampers /\ Returned(r) => Usable(call[r].key)

-----------------------------------------------------------------------------
\* Refinement: what Fetching promises the callers of the download cache, this
\* cache promises too, a refresh being a call that revalidates.

Answer(r) ==
    IF call[r].at \in Running THEN "pending"
    ELSE IF outcome[r] = "none" THEN "idle"
    ELSE IF outcome[r] \in Errors THEN "failed" ELSE outcome[r]

Mode(k) ==
    IF k.key = None THEN "offline" ELSE IF k.refresh THEN "revalidate" ELSE "offline_first"

Promise == INSTANCE Fetching WITH
    Callers <- Readers, Urls <- Keys, Pins <- {None}, served <- sent,
    window <- [r \in Readers |-> seen[r].window],
    ask <- [r \in Readers |->
        [url |-> call[r].key, mode |-> Mode(call[r]), pin |-> None]],
    answer <- [r \in Readers |-> Answer(r)]

PromiseKept == Promise!Spec
=============================================================================
