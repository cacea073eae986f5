--------------------------- MODULE DownloadCache ---------------------------
(***************************************************************************)
(* govdata/core/cache.py: the content-addressed download cache, with the   *)
(* retry policy of govdata/core/client.py under it and offline_first of    *)
(* harmonization/base.py on top.  Several callers (threads, or processes   *)
(* that share the cache directory) run get_or_download at once; a step is  *)
(* one access to the file system or one exchange with the publisher.       *)
(*                                                                         *)
(* Two kinds of file: a blob is named by the SHA-256 of its body, and one  *)
(* metadata file per URL names the blob that answers the URL.              *)
(* write_atomic fills a temporary file and renames it, so a file changes   *)
(* in one step or not at all; the temporary files are never read and are   *)
(* left out.                                                               *)
(***************************************************************************)
EXTENDS Naturals, Functions

CONSTANTS
    Callers, Urls,
    Bodies,         \* what a publisher can serve
    Torn,           \* a damaged or partial file: no publisher serves it
    Digests, Sha256,
    Pins,           \* the sha256= arguments callers use, None among them
    HeaderSets,     \* which of ETag and Last-Modified a 200 may carry
    MaxAttempts,    \* client.MAX_ATTEMPTS
    MaxTampers,     \* bound: changes made to files behind the cache's back
    MaxCrashes,     \* bound: processes that die
    None

Contents == Bodies \cup {Torn}

ASSUME CollisionFree == Sha256 \in [Contents -> Digests] /\ IsInjective(Sha256)
ASSUME PinsAreDigests == Pins \subseteq {Sha256[b] : b \in Bodies} \cup {None}
ASSUME NoneIsNothing == None \notin Contents \cup Digests \cup Urls /\ Torn \notin Bodies
ASSUME HeadersAreNamed == HeaderSets \subseteq SUBSET {"etag", "last_modified"}
ASSUME BoundsAreNat ==
    MaxAttempts \in Nat \ {0} /\ MaxTampers \in Nat /\ MaxCrashes \in Nat

VARIABLES
    content, served,    \* the publisher: the body behind each URL, now and ever
    blob,               \* <cache_dir>/<digest>.bin
    metaFile,           \* <cache_dir>/<sha256 of the url>.meta.json
    call,               \* per caller: the locals of get_or_download
    outcome,            \* per caller: how its last call ended
    seen,               \* per caller: history, read by properties only
    tampers, crashes

publisher == <<content, served>>
disk == <<blob, metaFile>>
faults == <<tampers, crashes>>
vars == <<publisher, disk, call, outcome, seen, faults>>

-----------------------------------------------------------------------------
\* Types

\* What a metadata file parses to.  A validator is stored with the body it was
\* sent with and is represented by that body: validators are strong.
MetaKinds == {"missing", "not_json", "not_utf8", "bad_hash", "no_timestamp", "entry"}
Metas == [kind : MetaKinds, sha : Digests \cup {None},
          etag : Bodies \cup {None}, last_modified : Bodies \cup {None}]
Blank(kind) == [kind |-> kind, sha |-> None, etag |-> None, last_modified |-> None]
Missing == Blank("missing")

Modes == {"revalidate", "offline", "offline_first"}
Running == {"read_meta", "exists", "verify", "request", "store_blob", "store_meta"}
Errors == {"decode_error", "os_error", "cache_miss", "gave_up", "http_error",
           "no_body", "pin_mismatch", "write_error", "crashed"}

\* A digest is never mistaken for how a call ended otherwise.
ASSUME DigestsAreNoWords == Digests \cap (Errors \cup {"none", "idle", "pending", "failed"}) = {}

\* at: the next step.  online: revalidate= of this get_or_download.  meta: the
\* metadata it read.  cached: the verified hit.  reply, new: a 200's body and
\* the metadata to store for it.
Calls == [at : Running \cup {"idle"}, url : Urls \cup {None}, mode : Modes, pin : Pins \cup {None},
          online : BOOLEAN, meta : Metas, cached : Digests \cup {None},
          attempt : 1..MaxAttempts, reply : Bodies \cup {None}, new : Metas]

Idle == [at |-> "idle", url |-> None, mode |-> "offline", pin |-> None,
         online |-> FALSE, meta |-> Missing, cached |-> None,
         attempt |-> 1, reply |-> None, new |-> Missing]

\* window: bodies current since the call began.  hit: a usable entry existed
\* when it began.  asked: it sent a request.  wrote: it replaced a file.  before:
\* tampers when it began.
Seens == [window : SUBSET Bodies, hit : BOOLEAN, asked : BOOLEAN, wrote : BOOLEAN,
          before : 0..MaxTampers]

TypeOK ==
    /\ content \in [Urls -> Bodies]
    /\ served \in [Urls -> SUBSET Bodies]
    /\ blob \in [Digests -> Contents \cup {None}]
    /\ metaFile \in [Urls -> Metas]
    /\ call \in [Callers -> Calls]
    /\ outcome \in [Callers -> Errors \cup {"none"} \cup Digests]
    /\ seen \in [Callers -> Seens]
    /\ tampers \in 0..MaxTampers
    /\ crashes \in 0..MaxCrashes

-----------------------------------------------------------------------------
\* The cache directory starts empty.
Init ==
    /\ content \in [Urls -> Bodies]
    /\ served = [u \in Urls |-> {content[u]}]
    /\ blob = [d \in Digests |-> None]
    /\ metaFile = [u \in Urls |-> Missing]
    /\ call = [c \in Callers |-> Idle]
    /\ outcome = [c \in Callers |-> "none"]
    /\ seen = [c \in Callers |-> [window |-> {}, hit |-> FALSE, asked |-> FALSE,
                                  wrote |-> FALSE, before |-> 0]]
    /\ tampers = 0
    /\ crashes = 0

\* The entry of u is whole: readable metadata that names an undamaged blob.
Usable(u) ==
    LET m == metaFile[u] IN
    m.kind = "entry" /\ blob[m.sha] # None /\ Sha256[blob[m.sha]] = m.sha

\* The call goes on with the fields of k; it ends, returning or raising how.
Continue(c, k) == call' = [call EXCEPT ![c] = k] /\ UNCHANGED outcome

End(c, how) ==
    /\ call' = [call EXCEPT ![c] =
          [Idle EXCEPT !.url = call[c].url, !.mode = call[c].mode, !.pin = call[c].pin]]
    /\ outcome' = [outcome EXCEPT ![c] = how]

Begin(c) ==
    /\ call[c].at = "idle"
    /\ \E u \in Urls, m \in Modes, p \in Pins :
        /\ call' = [call EXCEPT ![c] = [Idle EXCEPT !.at = "read_meta", !.url = u,
              !.mode = m, !.pin = p, !.online = (m = "revalidate")]]
        /\ seen' = [seen EXCEPT ![c] = [window |-> {content[u]}, hit |-> Usable(u),
                        asked |-> FALSE, wrote |-> FALSE, before |-> tampers]]
    /\ outcome' = [outcome EXCEPT ![c] = "none"]
    /\ UNCHANGED <<publisher, disk, faults>>

PinAllows(k, d) == k.pin \in {None, d}

\* What follows the look into the cache, found being the hit or None: a request
\* online, the hit or CacheMissError offline; offline_first turns the miss into
\* a second, online, get_or_download.
Decide(c, found) ==
    LET k == call[c] IN
    \/ k.online /\ Continue(c, [k EXCEPT !.at = "request", !.cached = found])
    \/ ~k.online /\ found # None /\ End(c, found)
    \/ ~k.online /\ found = None /\ k.mode = "offline" /\ End(c, "cache_miss")
    \/ /\ ~k.online /\ found = None /\ k.mode = "offline_first"
       /\ Continue(c, [k EXCEPT !.at = "read_meta", !.online = TRUE, !.meta = Missing])

\* _read_meta.  Metadata that is not UTF-8 raises UnicodeDecodeError, which is
\* neither JSONDecodeError nor OSError.
ReadMeta(c) ==
    /\ call[c].at = "read_meta"
    /\ LET m == metaFile[call[c].url] IN
        \/ m.kind \in {"missing", "not_json", "bad_hash"} /\ Decide(c, None)
        \/ m.kind = "not_utf8" /\ End(c, "decode_error")
        \/ /\ m.kind \in {"no_timestamp", "entry"}
           /\ Continue(c, [call[c] EXCEPT !.at = "exists", !.meta = m])
    /\ UNCHANGED <<publisher, disk, seen, faults>>

\* _cached_from_meta, the existence test.
Exists(c) ==
    /\ call[c].at = "exists"
    /\ \/ blob[call[c].meta.sha] = None /\ Decide(c, None)
       \/ /\ blob[call[c].meta.sha] # None
          /\ Continue(c, [call[c] EXCEPT !.at = "verify"])
    /\ UNCHANGED <<publisher, disk, seen, faults>>

\* _cached_from_meta, the rest: read_bytes, the digest, the timestamp; then the
\* pin.  A blob deleted since the existence test raises FileNotFoundError.
Verify(c) ==
    /\ call[c].at = "verify"
    /\ LET m == call[c].meta
           valid == /\ Sha256[blob[m.sha]] = m.sha
                    /\ m.kind = "entry"
                    /\ PinAllows(call[c], m.sha)
       IN  \/ blob[m.sha] = None /\ End(c, "os_error")
           \/ blob[m.sha] # None /\ valid /\ Decide(c, m.sha)
           \/ blob[m.sha] # None /\ ~valid /\ Decide(c, None)
    /\ UNCHANGED <<publisher, disk, seen, faults>>

-----------------------------------------------------------------------------
\* One attempt of request_with_retry

\* Fault: the headers are sent although the body is damaged or gone.
HeadersAlways(k) ==
    [Missing EXCEPT !.etag = k.meta.etag, !.last_modified = k.meta.last_modified]

\* The conditional headers: only with a hit to fall back on.
Headers(k) ==
    IF k.cached = None THEN Missing
    ELSE [Missing EXCEPT !.etag = k.meta.etag, !.last_modified = k.meta.last_modified]

\* The publisher's side: may it answer 304 while b is current?  If-None-Match
\* takes precedence over If-Modified-Since.
NotModified(h, b) ==
    IF h.etag # None THEN h.etag = b ELSE h.last_modified = b

Request(c) ==
    /\ call[c].at = "request"
    /\ seen' = [seen EXCEPT ![c].asked = TRUE]
    /\ UNCHANGED <<publisher, disk, faults>>

\* Fault: a 304 returns what the metadata names by now.
Answer304Reread(c) ==
    /\ Request(c)
    /\ NotModified(Headers(call[c]), content[call[c].url])
    /\ End(c, metaFile[call[c].url].sha)

Answer304(c) ==
    /\ Request(c)
    /\ NotModified(Headers(call[c]), content[call[c].url])
    /\ End(c, IF call[c].cached # None THEN call[c].cached ELSE "no_body")

\* A 200 whose body is stored, with the validators that came with it.
Answer200(c) ==
    LET b == content[call[c].url] IN
    /\ Request(c)
    /\ PinAllows(call[c], Sha256[b])
    /\ \E hs \in HeaderSets :
          Continue(c, [call[c] EXCEPT !.at = "store_blob", !.reply = b,
              !.new = [kind |-> "entry", sha |-> Sha256[b],
                       etag |-> IF "etag" \in hs THEN b ELSE None,
                       last_modified |-> IF "last_modified" \in hs THEN b ELSE None]])

\* Fault: the body is written before its digest is compared with the pin.
RefuseLate(c) ==
    LET b == content[call[c].url] IN
    /\ call[c].at = "request" /\ ~PinAllows(call[c], Sha256[b])
    /\ blob' = [blob EXCEPT ![Sha256[b]] = b] /\ End(c, "pin_mismatch")
    /\ seen' = [seen EXCEPT ![c].asked = TRUE, ![c].wrote = TRUE]
    /\ UNCHANGED <<publisher, metaFile, faults>>

\* A 200 with another body than the pinned one: _store raises PinMismatchError
\* before the cache is touched.
AnswerOtherBody(c) ==
    /\ Request(c)
    /\ ~PinAllows(call[c], Sha256[content[call[c].url]])
    /\ End(c, "pin_mismatch")

AttemptsLeft(k) == k.attempt < MaxAttempts

\* A transport error or a retryable status: the next attempt, or, after the
\* last, the error of this one.
AnswerRetryable(c) ==
    /\ Request(c)
    /\ \/ AttemptsLeft(call[c]) /\ Continue(c, [call[c] EXCEPT !.attempt = @ + 1])
       \/ ~AttemptsLeft(call[c]) /\ End(c, "gave_up")

\* Any other status: raise_for_status.
AnswerError(c) == Request(c) /\ End(c, "http_error")

-----------------------------------------------------------------------------
\* _store: the blob, then the metadata

Storing(c, step) ==
    /\ call[c].at = step
    /\ seen' = [seen EXCEPT ![c].wrote = TRUE]
    /\ UNCHANGED <<publisher, faults>>

\* write_atomic of a blob, and of a metadata file.
PutBlob(c, x) == blob' = [blob EXCEPT ![call[c].new.sha] = x]
PutMeta(c, m) == metaFile' = [metaFile EXCEPT ![call[c].url] = m]
BlobDone(c) == Continue(c, [call[c] EXCEPT !.at = "store_meta"])

\* Fault: the blob is written in place, half of it first.
StoreBlobInPlace(c) ==
    LET half == blob[call[c].new.sha] = Torn IN
    /\ Storing(c, "store_blob") /\ UNCHANGED metaFile
    /\ PutBlob(c, IF half THEN call[c].reply ELSE Torn)
    /\ IF half THEN BlobDone(c) ELSE UNCHANGED <<call, outcome>>

\* Fault: metadata first, then the blob.
StoreMetaFirst(c) ==
    LET half == metaFile[call[c].url] = call[c].new IN
    /\ Storing(c, "store_blob") /\ PutMeta(c, call[c].new)
    /\ IF half THEN PutBlob(c, call[c].reply) /\ BlobDone(c) ELSE UNCHANGED <<blob, call, outcome>>

\* Fault: the old entry is dropped before the new one is stored.
StoreBlobDropOld(c) ==
    Storing(c, "store_blob") /\ PutBlob(c, call[c].reply) /\ PutMeta(c, Missing) /\ BlobDone(c)

\* Fault: a blob that exists is not written again.
StoreBlobOnce(c) ==
    /\ Storing(c, "store_blob") /\ UNCHANGED metaFile
    /\ IF blob[call[c].new.sha] = None THEN PutBlob(c, call[c].reply) ELSE UNCHANGED blob
    /\ BlobDone(c)

StoreBlob(c) ==
    /\ Storing(c, "store_blob")
    /\ PutBlob(c, call[c].reply)
    /\ BlobDone(c)
    /\ UNCHANGED metaFile

\* Fault: the metadata key does not tell the URLs apart.
StoreMetaOneKey(c) ==
    /\ Storing(c, "store_meta") /\ UNCHANGED blob
    /\ metaFile' = [u \in Urls |-> call[c].new] /\ End(c, call[c].new.sha)

StoreMeta(c) ==
    /\ Storing(c, "store_meta")
    /\ PutMeta(c, call[c].new)
    /\ End(c, call[c].new.sha)
    /\ UNCHANGED blob

\* The disk refuses: write_atomic removes the temporary file and raises.
WriteFails(c) ==
    /\ call[c].at \in {"store_blob", "store_meta"}
    /\ End(c, "write_error")
    /\ UNCHANGED <<publisher, disk, seen, faults>>

-----------------------------------------------------------------------------
\* What the cache does not control

Crash(c) ==
    /\ call[c].at # "idle"
    /\ crashes < MaxCrashes
    /\ crashes' = crashes + 1
    /\ End(c, "crashed")
    /\ UNCHANGED <<publisher, disk, seen, tampers>>

\* A blob or a metadata file is damaged, edited or deleted.
Tamper ==
    /\ tampers < MaxTampers
    /\ tampers' = tampers + 1
    /\ \/ /\ \E d \in Digests, x \in {Torn, None} :
              blob[d] # None /\ blob' = [blob EXCEPT ![d] = x]
          /\ UNCHANGED metaFile
       \/ /\ \E u \in Urls, kind \in MetaKinds \ {"entry"} :
              /\ metaFile[u].kind = "entry"
              /\ metaFile' = [metaFile EXCEPT ![u] =
                    IF kind = "no_timestamp" THEN [@ EXCEPT !.kind = kind] ELSE Blank(kind)]
          /\ UNCHANGED blob
    /\ UNCHANGED <<publisher, call, outcome, seen, crashes>>

\* The publisher replaces the body behind u.
Publish(u) ==
    /\ \E b \in Bodies :
        /\ content' = [content EXCEPT ![u] = b]
        /\ served' = [served EXCEPT ![u] = @ \cup {b}]
        /\ seen' = [c \in Callers |->
              IF call[c].at # "idle" /\ call[c].url = u
              THEN [seen[c] EXCEPT !.window = @ \cup {b}] ELSE seen[c]]
    /\ UNCHANGED <<disk, call, outcome, faults>>

Lookup(c) == ReadMeta(c) \/ Exists(c) \/ Verify(c)
Exchange(c) ==
    \/ Answer304(c) \/ Answer200(c) \/ AnswerOtherBody(c)
    \/ AnswerRetryable(c) \/ AnswerError(c)
Store(c) == StoreBlob(c) \/ StoreMeta(c) \/ WriteFails(c)

Next ==
    \/ \E c \in Callers : Begin(c) \/ Lookup(c) \/ Exchange(c) \/ Store(c) \/ Crash(c)
    \/ \E u \in Urls : Publish(u)
    \/ Tamper

Spec == Init /\ [][Next]_vars

-----------------------------------------------------------------------------
\* Properties

Returned(c) == call[c].at = "idle" /\ outcome[c] \in Digests

\* A call that revalidated hands back a body that was behind the URL at some
\* moment of the call, whichever of a 200 and a 304 answered it and whatever
\* the other callers stored meanwhile ("a 304 reuses the stored body").
FreshWhenRevalidated ==
    \A c \in Callers :
        Returned(c) /\ call[c].mode = "revalidate"
            => \E b \in seen[c].window : Sha256[b] = outcome[c]

\* No call, offline ones included, hands back bytes the publisher never served
\* at that URL, even after files were damaged ("sha256-verified").
OnlyServedBodies ==
    \A c \in Callers :
        Returned(c) => \E b \in served[call[c].url] : Sha256[b] = outcome[c]

\* "sha256 pins the body": a pinned call returns that body or raises, although
\* callers that do not pin store other bodies under the same URL.
PinHonoured ==
    \A c \in Callers : Returned(c) => call[c].pin \in {None, outcome[c]}

\* A publisher that answers 304 only to a matching conditional request never
\* leaves get_or_download without a body ("Only revalidate conditionally when
\* there is a valid body to fall back on").
No304WithoutBody == \A c \in Callers : outcome[c] # "no_body"

\* "Meta last: an orphan blob reads back as a miss, never a truncated hit":
\* crashes, failed writes and concurrent stores leave no entry whose blob is
\* missing or incomplete.  Only files changed from outside can.
EntriesAreWhole ==
    tampers = 0 => \A u \in Urls : metaFile[u].kind = "missing" \/ Usable(u)

\* The path a call returned holds the body with the digest it returned, from the
\* return on: no later store of anything, by anyone, changes it.  Files changed
\* before the call are no excuse, only files changed since it began.
ReturnedPathHoldsBody ==
    \A c \in Callers :
        seen[c].before = tampers /\ Returned(c)
            => blob[outcome[c]] # None /\ Sha256[blob[outcome[c]]] = outcome[c]

\* Whatever happened to the files before it, an online call that returns leaves
\* a whole entry behind ("corrupted cache; force re-download").  Claimed of a caller
\* that is alone: a store that began before the damage may publish the metadata of
\* a blob damaged since.
OnlineCallRepairs ==
    \A c \in Callers :
        seen[c].before = tampers /\ Returned(c) /\ call[c].mode = "revalidate"
            => Usable(call[c].url)

\* "the cache is left as it was": a call that ends in a refused body, a miss or
\* a server error has replaced no file.
FailedCallWroteNothing ==
    \A c \in Callers :
        outcome[c] \in Errors \ {"write_error", "crashed"} => ~seen[c].wrote

\* Once an entry is stored, an unpinned offline or offline-first call neither
\* misses nor sends a request, whatever is being stored over it meanwhile.
StoredEntryServesOffline ==
    \A c \in Callers :
        (/\ tampers = 0 /\ seen[c].hit
         /\ call[c].mode # "revalidate" /\ call[c].pin = None)
            => outcome[c] # "cache_miss" /\ ~seen[c].asked

\* "unreadable metadata: treat as a cache miss and re-download" (the comment at
\* _read_meta): no call ends because it could not decode the metadata.
UnreadableMetaIsAMiss == \A c \in Callers : outcome[c] # "decode_error"

-----------------------------------------------------------------------------
\* Refinement: the cache hands out bodies as Fetching promises.

Answer(c) ==
    IF call[c].at # "idle" THEN "pending"
    ELSE IF outcome[c] = "none" THEN "idle"
    ELSE IF outcome[c] \in Errors THEN "failed" ELSE outcome[c]

Promise == INSTANCE Fetching WITH
    window <- [c \in Callers |-> seen[c].window],
    ask <- [c \in Callers |->
        [url |-> call[c].url, mode |-> call[c].mode, pin |-> call[c].pin]],
    answer <- [c \in Callers |-> Answer(c)]

PromiseKept == Promise!Spec
=============================================================================
