------------------------ MODULE DownloadCacheProofs ------------------------
(***************************************************************************)
(* Proofs about DownloadCache.tla: type correctness, the invariant behind  *)
(* its safety properties, and that it implements Fetching.tla.             *)
(*                                                                         *)
(* The invariant follows a body from the publisher to the caller.  A body  *)
(* and the validators stored with it stay together: in a metadata file, in *)
(* a caller's snapshot of one, and in the reply a caller is storing; and a *)
(* body a caller may return was behind the URL, during its call if a 200   *)
(* or a 304 vouched for it.                                                *)
(***************************************************************************)
EXTENDS DownloadCache, TLAPS

Outcomes == Errors \cup {"none"} \cup Digests

Whole(d) == blob[d] # None /\ Sha256[blob[d]] = d

\* Metadata m describes a body of S, and its validators are that body's.
Describes(m, S) ==
    m.kind \in {"no_timestamp", "entry"} =>
        \E b \in S : /\ m.sha = Sha256[b]
                     /\ m.etag \in {None, b}
                     /\ m.last_modified \in {None, b}

\* What holds of a call k, with history s, that has not ended.
RunningOK(k, s) ==
    /\ k.url \in Urls
    /\ content[k.url] \in s.window
    /\ k.mode = "revalidate" => k.online
    /\ Describes(k.meta, served[k.url])
    /\ k.at \in {"exists", "verify"} => k.meta.kind \in {"no_timestamp", "entry"}
    /\ k.at = "request" /\ k.cached # None =>
          /\ k.meta.kind = "entry"
          /\ k.cached = k.meta.sha
          /\ PinAllows(k, k.cached)
          /\ s.before = tampers => Whole(k.cached)
    /\ k.at \in {"store_blob", "store_meta"} =>
          /\ k.reply \in s.window
          /\ k.new.kind = "entry"
          /\ k.new.sha = Sha256[k.reply]
          /\ k.new.etag \in {None, k.reply}
          /\ k.new.last_modified \in {None, k.reply}
          /\ PinAllows(k, k.new.sha)
    /\ k.at = "store_meta" /\ s.before = tampers => Whole(k.new.sha)
    /\ s.wrote => k.at = "store_meta"

\* What holds of a call that returned the digest o.
ReturnedOK(k, s, o) ==
    /\ k.url \in Urls
    /\ PinAllows(k, o)
    /\ \E b \in IF k.mode = "revalidate" THEN s.window ELSE served[k.url] : o = Sha256[b]
    /\ s.before = tampers => Whole(o)

CallOK(k, s, o) ==
    /\ k.url \in Urls => s.window \subseteq served[k.url]
    /\ s.before <= tampers
    /\ k.at # "idle" => RunningOK(k, s) /\ o = "none"
    /\ k.at = "idle" /\ o \in Digests => ReturnedOK(k, s, o)
    /\ o # "no_body"
    /\ o \in Errors \ {"write_error", "crashed"} => ~s.wrote

Inv ==
    /\ TypeOK
    /\ \A u \in Urls : content[u] \in served[u] /\ Describes(metaFile[u], served[u])
    /\ tampers = 0 => \A u \in Urls :
          \/ metaFile[u].kind = "missing"
          \/ metaFile[u].kind = "entry" /\ Whole(metaFile[u].sha)
    /\ \A c \in Callers : CallOK(call[c], seen[c], outcome[c])

-----------------------------------------------------------------------------
\* Records

LEMMA BlankIsMeta ==
  ASSUME NEW kind \in MetaKinds
  PROVE  Blank(kind) \in Metas
  BY DEF Blank, Metas

LEMMA MissingIsMeta == Missing \in Metas /\ Missing.kind = "missing"
  BY BlankIsMeta DEF Missing, MetaKinds, Blank

LEMMA IdleIsCall == Idle \in Calls
  BY BoundsAreNat, MissingIsMeta DEF Idle, Calls, Modes, Running

LEMMA InitInv == Init => Inv
  <1> SUFFICES ASSUME Init PROVE Inv
    OBVIOUS
  <1>1. TypeOK
    BY MissingIsMeta, IdleIsCall, BoundsAreNat DEF Init, TypeOK, Seens
  <1>2. \A u \in Urls : content[u] \in served[u] /\ Describes(metaFile[u], served[u])
    BY MissingIsMeta DEF Init, Describes
  <1>3. \A u \in Urls : metaFile[u].kind = "missing"
    BY MissingIsMeta DEF Init
  <1>4. ASSUME NEW c \in Callers PROVE CallOK(call[c], seen[c], outcome[c])
    <2>1. call[c].at = "idle" /\ call[c].url = None /\ outcome[c] = "none"
      BY DEF Init, Idle
    <2>2. "none" \notin Digests
      BY DigestsAreNoWords
    <2>3. seen[c].before = 0 /\ tampers = 0 /\ ~seen[c].wrote
      BY DEF Init
    <2>4. "none" \notin Errors
      BY DEF Errors
    <2>5. QED
      BY <2>1, <2>2, <2>3, <2>4, NoneIsNothing DEF CallOK
  <1>5. QED
    BY <1>1, <1>2, <1>3, <1>4 DEF Inv
-----------------------------------------------------------------------------
\* One caller's step

\* What an unfinished call may rely on.
LEMMA RunningType ==
  ASSUME Inv, NEW c \in Callers, call[c].at # "idle"
  PROVE  /\ call[c] \in Calls /\ seen[c] \in Seens
         /\ RunningOK(call[c], seen[c]) /\ outcome[c] = "none"
         /\ call[c].url \in Urls /\ metaFile[call[c].url] \in Metas
         /\ content[call[c].url] \in Bodies
         /\ call[c].at \in {"exists", "verify"} => call[c].meta.sha \in Digests
  <1>1. /\ call[c] \in Calls /\ seen[c] \in Seens
        /\ RunningOK(call[c], seen[c]) /\ outcome[c] = "none"
    BY DEF Inv, TypeOK, CallOK
  <1>2. /\ call[c].url \in Urls /\ metaFile[call[c].url] \in Metas
        /\ content[call[c].url] \in Bodies /\ served[call[c].url] \subseteq Bodies
    BY <1>1 DEF RunningOK, Inv, TypeOK
  <1>3. \A b \in Bodies : Sha256[b] \in Digests
    BY CollisionFree DEF Contents
  <1>4. QED
    BY <1>1, <1>2, <1>3 DEF RunningOK, Describes

\* A step of one caller that leaves the publisher and the other callers alone and
\* keeps whole blobs whole.
LEMMA CallerStep ==
  ASSUME Inv, TypeOK', NEW c \in Callers,
         UNCHANGED <<content, served, tampers>>,
         \A d \in Digests : Whole(d) => Whole(d)',
         \A u \in Urls : Describes(metaFile[u], served[u])',
         tampers = 0 => \A u \in Urls :
             (\/ metaFile[u].kind = "missing"
              \/ metaFile[u].kind = "entry" /\ Whole(metaFile[u].sha))',
         \A o \in Callers \ {c} :
             call'[o] = call[o] /\ seen'[o] = seen[o] /\ outcome'[o] = outcome[o],
         CallOK(call[c], seen[c], outcome[c])'
  PROVE  Inv'
  <1>1. ASSUME NEW o \in Callers \ {c}
        PROVE  CallOK(call[o], seen[o], outcome[o])'
    <2>1. CallOK(call[o], seen[o], outcome[o]) /\ call[o] \in Calls /\ seen[o] \in Seens
      BY DEF Inv, TypeOK
    <2>2. ASSUME RunningOK(call[o], seen[o]), call[o].at # "idle"
          PROVE  RunningOK(call[o], seen[o])'
      <3>1. call[o].at = "store_meta" => call[o].new.sha \in Digests
        <4>1. call[o].at = "store_meta" => call[o].reply \in Bodies
          BY <2>1, <2>2 DEF RunningOK, Seens
        <4>2. QED
          BY <2>2, <4>1, CollisionFree DEF RunningOK, Contents
      <3>2. call[o].cached # None => call[o].cached \in Digests
        BY <2>1 DEF Calls
      <3>3. QED
        BY <2>2, <3>1, <3>2 DEF RunningOK
    <2>3. ASSUME ReturnedOK(call[o], seen[o], outcome[o]), outcome[o] \in Digests
          PROVE  ReturnedOK(call[o], seen[o], outcome[o])'
      BY <2>3 DEF ReturnedOK
    <2>4. QED
      BY <2>1, <2>2, <2>3 DEF CallOK
  <1>2. QED
    BY <1>1 DEF Inv

\* Ending a call well.
LEMMA EndOK ==
  ASSUME Inv, NEW c \in Callers, call[c].at # "idle",
         NEW how \in Errors \cup Digests, End(c, how),
         UNCHANGED <<content, served, blob, tampers>>,
         seen' \in [Callers -> Seens],
         seen'[c].window = seen[c].window, seen'[c].before = seen[c].before,
         how # "no_body",
         how \in Digests => ReturnedOK(call[c], seen[c], how),
         how \in Errors \ {"write_error", "crashed"} => ~seen'[c].wrote
  PROVE  /\ call' \in [Callers -> Calls] /\ outcome' \in [Callers -> Outcomes]
         /\ CallOK(call[c], seen[c], outcome[c])'
  <1> DEFINE k == [Idle EXCEPT !.url = call[c].url, !.mode = call[c].mode, !.pin = call[c].pin]
  <1>1. call[c] \in Calls /\ call \in [Callers -> Calls] /\ outcome \in [Callers -> Outcomes]
    BY RunningType DEF Inv, TypeOK, Outcomes
  <1>2. k \in Calls /\ k.at = "idle" /\ k.url = call[c].url /\ k.mode = call[c].mode /\ k.pin = call[c].pin
    BY <1>1, IdleIsCall DEF Calls, Idle
  <1>3. call' = [call EXCEPT ![c] = k] /\ outcome' = [outcome EXCEPT ![c] = how]
    BY DEF End
  <1>4. call'[c] = k /\ outcome'[c] = how
    BY <1>1, <1>3
  <1>5. call' \in [Callers -> Calls] /\ outcome' \in [Callers -> Outcomes]
    BY <1>1, <1>2, <1>3 DEF Outcomes
  <1>6. ASSUME how \in Digests PROVE ReturnedOK(call[c], seen[c], outcome[c])'
    BY <1>2, <1>4, <1>6 DEF ReturnedOK, PinAllows, Whole
  <1>7. (call[c].url \in Urls => seen[c].window \subseteq served[call[c].url])'
    BY <1>2, <1>4 DEF Inv, CallOK
  <1>8. (seen[c].before <= tampers)'
    BY DEF Inv, CallOK
  <1>9. QED
    BY <1>2, <1>4, <1>5, <1>6, <1>7, <1>8, DigestsAreNoWords DEF CallOK

\* Going on with a call.
LEMMA ContinueOK ==
  ASSUME Inv, NEW c \in Callers, call[c].at # "idle",
         NEW k \in Calls, Continue(c, k), k.url = call[c].url, k.at # "idle",
         UNCHANGED <<content, served, tampers>>,
         seen' \in [Callers -> Seens],
         seen'[c].window = seen[c].window, seen'[c].before = seen[c].before,
         RunningOK(call[c], seen[c])'
  PROVE  /\ call' \in [Callers -> Calls] /\ outcome' \in [Callers -> Outcomes]
         /\ CallOK(call[c], seen[c], outcome[c])'
  <1>1. call[c] \in Calls /\ call \in [Callers -> Calls] /\ outcome \in [Callers -> Outcomes]
    BY RunningType DEF Inv, TypeOK, Outcomes
  <1>2. call' = [call EXCEPT ![c] = k] /\ outcome' = outcome
    BY DEF Continue
  <1>3. call'[c] = k /\ outcome'[c] = "none"
    BY <1>1, <1>2, RunningType
  <1>4. QED
    BY <1>1, <1>2, <1>3 DEF CallOK, Inv, Errors

\* What follows the look into the cache, of a caller that has sent no request.
LEMMA DecideOK ==
  ASSUME Inv, NEW c \in Callers, call[c].at \in {"read_meta", "exists", "verify"},
         NEW found \in Digests \cup {None}, Decide(c, found),
         UNCHANGED <<content, served, blob, tampers, seen>>,
         found # None => /\ call[c].meta.kind = "entry"
                         /\ found = call[c].meta.sha
                         /\ PinAllows(call[c], found)
                         /\ Whole(found)
  PROVE  /\ call' \in [Callers -> Calls] /\ outcome' \in [Callers -> Outcomes]
         /\ CallOK(call[c], seen[c], outcome[c])'
  <1> DEFINE k == call[c]
  <1>1. k \in Calls /\ RunningOK(k, seen[c]) /\ k.at # "idle" /\ ~seen[c].wrote
    BY RunningType DEF RunningOK
  <1>2. call \in [Callers -> Calls] /\ seen \in [Callers -> Seens]
    BY DEF Inv, TypeOK
  <1>3. CASE k.online /\ Continue(c, [k EXCEPT !.at = "request", !.cached = found])
    <2> DEFINE n == [k EXCEPT !.at = "request", !.cached = found]
    <2>1. n \in Calls
      BY <1>1 DEF Calls, Running
    <2>2. call'[c] = n
      BY <1>2, <1>3 DEF Continue
    <2>3. RunningOK(call[c], seen[c])'
      BY <1>1, <2>2 DEF RunningOK, Calls, PinAllows, Whole
    <2>4. QED
      BY <1>1, <1>2, <1>3, <2>1, <2>3, ContinueOK DEF Calls
  <1>4. CASE ~k.online /\ found # None /\ End(c, found)
    <2>1. ReturnedOK(k, seen[c], found)
      BY <1>1, <1>4 DEF RunningOK, ReturnedOK, Describes
    <2>2. found # "no_body" /\ found \in Digests /\ found \notin Errors
      BY <1>4, DigestsAreNoWords DEF Errors
    <2>3. QED
      BY <1>1, <1>2, <1>4, <2>1, <2>2, EndOK
  <1>5. CASE End(c, "cache_miss")
    <2>1. "cache_miss" \in Errors /\ "cache_miss" \notin Digests
      BY DigestsAreNoWords DEF Errors
    <2>2. QED
      BY <1>1, <1>2, <1>5, <2>1, EndOK
  <1>6. CASE Continue(c, [k EXCEPT !.at = "read_meta", !.online = TRUE, !.meta = Missing])
    <2> DEFINE n == [k EXCEPT !.at = "read_meta", !.online = TRUE, !.meta = Missing]
    <2>1. n \in Calls
      BY <1>1, MissingIsMeta DEF Calls, Running
    <2>2. call'[c] = n
      BY <1>2, <1>6 DEF Continue
    <2>3. RunningOK(call[c], seen[c])'
      BY <1>1, <2>2, MissingIsMeta DEF RunningOK, Calls, Describes
    <2>4. QED
      BY <1>1, <1>2, <1>6, <2>1, <2>3, ContinueOK DEF Calls
  <1>7. QED
    BY <1>3, <1>4, <1>5, <1>6 DEF Decide

\* A step that changes no file and leaves the other callers alone.
LEMMA QuietStep ==
  ASSUME Inv, NEW c \in Callers,
         UNCHANGED <<publisher, disk, tampers>>, crashes' \in 0..MaxCrashes,
         seen' \in [Callers -> Seens], call' \in [Callers -> Calls],
         outcome' \in [Callers -> Outcomes],
         \A o \in Callers \ {c} :
             call'[o] = call[o] /\ seen'[o] = seen[o] /\ outcome'[o] = outcome[o],
         CallOK(call[c], seen[c], outcome[c])'
  PROVE  Inv'
  <1>1. UNCHANGED <<content, served, blob, metaFile, tampers>>
    BY DEF publisher, disk
  <1>2. TypeOK'
    BY <1>1 DEF Inv, TypeOK, Outcomes
  <1>3. /\ \A d \in Digests : Whole(d) => Whole(d)'
        /\ \A u \in Urls : Describes(metaFile[u], served[u])'
        /\ tampers = 0 => \A u \in Urls :
             (\/ metaFile[u].kind = "missing"
              \/ metaFile[u].kind = "entry" /\ Whole(metaFile[u].sha))'
    BY <1>1 DEF Inv, Whole
  <1>4. QED
    BY <1>1, <1>2, <1>3, CallerStep

-----------------------------------------------------------------------------
\* The actions

LEMMA OthersByEnd ==
  ASSUME Inv, NEW c \in Callers, NEW how, End(c, how)
  PROVE  \A o \in Callers \ {c} : call'[o] = call[o] /\ outcome'[o] = outcome[o]
  BY DEF End, Inv, TypeOK

LEMMA OthersByContinue ==
  ASSUME Inv, NEW c \in Callers, NEW k, Continue(c, k)
  PROVE  \A o \in Callers \ {c} : call'[o] = call[o] /\ outcome'[o] = outcome[o]
  BY DEF Continue, Inv, TypeOK

LEMMA OthersByDecide ==
  ASSUME Inv, NEW c \in Callers, NEW found, Decide(c, found)
  PROVE  \A o \in Callers \ {c} : call'[o] = call[o] /\ outcome'[o] = outcome[o]
  BY OthersByEnd, OthersByContinue DEF Decide

LEMMA BeginStep ==
  ASSUME Inv, NEW c \in Callers, Begin(c)
  PROVE  Inv'
  <1>1. PICK u \in Urls, m \in Modes, p \in Pins :
          /\ call' = [call EXCEPT ![c] = [Idle EXCEPT !.at = "read_meta", !.url = u,
                !.mode = m, !.pin = p, !.online = (m = "revalidate")]]
          /\ seen' = [seen EXCEPT ![c] = [window |-> {content[u]}, hit |-> Usable(u),
                asked |-> FALSE, wrote |-> FALSE, before |-> tampers]]
    BY DEF Begin
  <1>2. outcome' = [outcome EXCEPT ![c] = "none"] /\ UNCHANGED <<publisher, disk, faults>>
    BY DEF Begin
  <1> DEFINE k == [Idle EXCEPT !.at = "read_meta", !.url = u, !.mode = m, !.pin = p,
                               !.online = (m = "revalidate")]
             s == [window |-> {content[u]}, hit |-> Usable(u),
                   asked |-> FALSE, wrote |-> FALSE, before |-> tampers]
  <1>3. k \in Calls /\ s \in Seens
    <2>1. k \in Calls
      BY IdleIsCall DEF Calls, Idle, Running
    <2>2. Usable(u) \in BOOLEAN /\ content[u] \in Bodies /\ tampers \in 0..MaxTampers
      BY DEF Usable, Inv, TypeOK
    <2>3. QED
      BY <2>1, <2>2 DEF Seens
  <1>4. call'[c] = k /\ seen'[c] = s /\ outcome'[c] = "none"
    BY <1>1, <1>2 DEF Inv, TypeOK
  <1>5. content[u] \in served[u] /\ tampers \in Nat
    BY BoundsAreNat DEF Inv, TypeOK
  <1>6. k.at = "read_meta" /\ k.url = u /\ (k.mode = "revalidate" => k.online) /\ k.meta.kind = "missing"
    BY MissingIsMeta DEF Idle
  <1>7. CallOK(call[c], seen[c], outcome[c])'
    BY <1>2, <1>4, <1>5, <1>6 DEF CallOK, RunningOK, Describes, Errors, publisher, faults
  <1>8. call' \in [Callers -> Calls] /\ seen' \in [Callers -> Seens] /\ outcome' \in [Callers -> Outcomes]
    BY <1>1, <1>2, <1>3 DEF Inv, TypeOK, Outcomes
  <1>9. \A o \in Callers \ {c} :
          call'[o] = call[o] /\ seen'[o] = seen[o] /\ outcome'[o] = outcome[o]
    BY <1>1, <1>2 DEF Inv, TypeOK
  <1>10. QED
    BY <1>2, <1>7, <1>8, <1>9, QuietStep DEF faults, Inv, TypeOK

LEMMA LookupStep ==
  ASSUME Inv, NEW c \in Callers, Lookup(c)
  PROVE  Inv'
  <1> DEFINE k == call[c]
             m == metaFile[k.url]
             Kept == /\ call' \in [Callers -> Calls] /\ outcome' \in [Callers -> Outcomes]
                     /\ CallOK(call[c], seen[c], outcome[c])'
                     /\ \A o \in Callers \ {c} : call'[o] = call[o] /\ outcome'[o] = outcome[o]
  <1>1. k.at \in {"read_meta", "exists", "verify"} /\ UNCHANGED <<publisher, disk, seen, faults>>
    BY DEF Lookup, ReadMeta, Exists, Verify
  <1>2. /\ k \in Calls /\ RunningOK(k, seen[c]) /\ k.url \in Urls /\ m \in Metas
        /\ k.at \in {"exists", "verify"} => k.meta.sha \in Digests
    BY <1>1, RunningType
  <1>3. UNCHANGED <<content, served, blob, metaFile, tampers, seen>> /\ k.at # "idle"
    BY <1>1 DEF publisher, disk, faults
  <1>4. seen' \in [Callers -> Seens] /\ seen'[c] = seen[c]
    BY <1>3 DEF Inv, TypeOK
  <1>5. ASSUME Decide(c, None) PROVE Kept
    BY <1>1, <1>3, <1>5, DecideOK, OthersByDecide
  <1>6. CASE ReadMeta(c)
    <2>1. CASE End(c, "decode_error")
      <3>1. "decode_error" \in Errors /\ "decode_error" \notin Digests
        BY DigestsAreNoWords DEF Errors
      <3>2. ~seen[c].wrote
        BY <1>2, <1>6 DEF ReadMeta, RunningOK
      <3>3. Kept
        BY <1>3, <1>4, <2>1, <3>1, <3>2, EndOK, OthersByEnd
      <3>4. QED
        BY <1>1, <1>3, <1>4, <3>3, QuietStep DEF faults, Inv, TypeOK
    <2>2. CASE m.kind \in {"no_timestamp", "entry"} /\ Continue(c, [k EXCEPT !.at = "exists", !.meta = m])
      <3> DEFINE n == [k EXCEPT !.at = "exists", !.meta = m]
      <3>1. n \in Calls
        BY <1>2 DEF Calls, Running
      <3>2. call'[c] = n
        BY <2>2 DEF Continue, Inv, TypeOK
      <3>3. Describes(m, served[k.url])
        BY <1>2 DEF Inv
      <3>4. RunningOK(call[c], seen[c])'
        BY <1>2, <1>3, <1>6, <2>2, <3>2, <3>3 DEF ReadMeta, RunningOK, Calls, Describes
      <3>5. Kept
        BY <1>2, <1>3, <1>4, <2>2, <3>1, <3>4, ContinueOK, OthersByContinue DEF Calls
      <3>6. QED
        BY <1>1, <1>3, <1>4, <3>5, QuietStep DEF faults, Inv, TypeOK
    <2>3. QED
      BY <1>1, <1>3, <1>4, <1>5, <1>6, <2>1, <2>2, QuietStep DEF ReadMeta, faults, Inv, TypeOK
  <1>7. CASE Exists(c)
    <2>1. CASE Continue(c, [k EXCEPT !.at = "verify"])
      <3> DEFINE n == [k EXCEPT !.at = "verify"]
      <3>1. n \in Calls
        BY <1>2 DEF Calls, Running
      <3>2. call'[c] = n
        BY <2>1 DEF Continue, Inv, TypeOK
      <3>3. RunningOK(call[c], seen[c])'
        BY <1>2, <1>3, <1>7, <3>2 DEF Exists, RunningOK, Calls
      <3>4. Kept
        BY <1>2, <1>3, <1>4, <2>1, <3>1, <3>3, ContinueOK, OthersByContinue DEF Calls
      <3>5. QED
        BY <1>1, <1>3, <1>4, <3>4, QuietStep DEF faults, Inv, TypeOK
    <2>2. QED
      BY <1>1, <1>3, <1>4, <1>5, <1>7, <2>1, QuietStep DEF Exists, faults, Inv, TypeOK
  <1>8. CASE Verify(c)
    <2>1. CASE End(c, "os_error")
      <3>1. "os_error" \in Errors /\ "os_error" \notin Digests
        BY DigestsAreNoWords DEF Errors
      <3>2. ~seen[c].wrote
        BY <1>2, <1>8 DEF Verify, RunningOK
      <3>3. Kept
        BY <1>3, <1>4, <2>1, <3>1, <3>2, EndOK, OthersByEnd
      <3>4. QED
        BY <1>1, <1>3, <1>4, <3>3, QuietStep DEF faults, Inv, TypeOK
    <2>2. CASE /\ blob[k.meta.sha] # None /\ Sha256[blob[k.meta.sha]] = k.meta.sha
               /\ k.meta.kind = "entry" /\ PinAllows(k, k.meta.sha)
               /\ Decide(c, k.meta.sha)
      <3>1. Kept
        BY <1>1, <1>2, <1>3, <1>8, <2>2, DecideOK, OthersByDecide DEF Whole, Verify
      <3>2. QED
        BY <1>1, <1>3, <1>4, <3>1, QuietStep DEF faults, Inv, TypeOK
    <2>3. QED
      BY <1>1, <1>3, <1>4, <1>5, <1>8, <2>1, <2>2, QuietStep DEF Verify, faults, Inv, TypeOK
  <1>9. QED
    BY <1>6, <1>7, <1>8 DEF Lookup

\* A request leaves in the history that it was sent, and nothing else.
LEMMA SeenAsked ==
  ASSUME Inv, NEW c \in Callers,
         seen' = seen \/ seen' = [seen EXCEPT ![c].asked = TRUE]
  PROVE  /\ seen' \in [Callers -> Seens]
         /\ seen'[c].window = seen[c].window /\ seen'[c].before = seen[c].before
         /\ seen'[c].wrote = seen[c].wrote
         /\ \A o \in Callers \ {c} : seen'[o] = seen[o]
  <1>1. seen \in [Callers -> Seens] /\ seen[c] \in Seens
    BY DEF Inv, TypeOK
  <1> DEFINE s == [seen[c] EXCEPT !.asked = TRUE]
  <1>2. /\ s \in Seens /\ s.window = seen[c].window
        /\ s.before = seen[c].before /\ s.wrote = seen[c].wrote
    BY <1>1 DEF Seens
  <1>3. CASE seen' = seen
    BY <1>1, <1>3
  <1>4. CASE seen' = [seen EXCEPT ![c] = s]
    BY <1>1, <1>2, <1>4
  <1>5. QED
    BY <1>3, <1>4

\* Two helpers of ExchangeStep and StoreStep: a step that ends a call, or goes on
\* with it, and changes no file.
LEMMA QuietEnd ==
  ASSUME Inv, NEW c \in Callers, call[c].at # "idle",
         NEW how \in Errors \cup Digests, End(c, how),
         UNCHANGED <<publisher, disk, tampers>>, crashes' \in 0..MaxCrashes,
         seen' = seen \/ seen' = [seen EXCEPT ![c].asked = TRUE],
         how # "no_body",
         how \in Digests => ReturnedOK(call[c], seen[c], how),
         how \in Errors \ {"write_error", "crashed"} => ~seen[c].wrote
  PROVE  Inv'
  <1>1. /\ seen' \in [Callers -> Seens]
        /\ seen'[c].window = seen[c].window /\ seen'[c].before = seen[c].before
        /\ seen'[c].wrote = seen[c].wrote
        /\ \A o \in Callers \ {c} : seen'[o] = seen[o]
    BY SeenAsked
  <1>2. UNCHANGED <<content, served, blob>>
    BY DEF publisher, disk
  <1>3. /\ call' \in [Callers -> Calls] /\ outcome' \in [Callers -> Outcomes]
        /\ CallOK(call[c], seen[c], outcome[c])'
    BY <1>1, <1>2, EndOK
  <1>4. QED
    BY <1>1, <1>3, OthersByEnd, QuietStep

LEMMA QuietContinue ==
  ASSUME Inv, NEW c \in Callers, call[c].at # "idle",
         NEW k \in Calls, Continue(c, k), k.url = call[c].url, k.at # "idle",
         UNCHANGED <<publisher, disk, faults>>,
         seen' = [seen EXCEPT ![c].asked = TRUE],
         RunningOK(k, seen[c])
  PROVE  Inv'
  <1>1. /\ seen' \in [Callers -> Seens]
        /\ seen'[c].window = seen[c].window /\ seen'[c].before = seen[c].before
        /\ seen'[c].wrote = seen[c].wrote
        /\ \A o \in Callers \ {c} : seen'[o] = seen[o]
    BY SeenAsked
  <1>2. UNCHANGED <<content, served, blob, tampers, crashes>>
    BY DEF publisher, disk, faults
  <1>3. call'[c] = k
    BY DEF Continue, Inv, TypeOK
  <1>4. RunningOK(call[c], seen[c])'
    BY <1>1, <1>2, <1>3 DEF RunningOK, Whole
  <1>5. /\ call' \in [Callers -> Calls] /\ outcome' \in [Callers -> Outcomes]
        /\ CallOK(call[c], seen[c], outcome[c])'
    BY <1>1, <1>2, <1>4, ContinueOK
  <1>6. crashes' \in 0..MaxCrashes
    BY <1>2 DEF Inv, TypeOK
  <1>7. \A o \in Callers \ {c} :
          call'[o] = call[o] /\ seen'[o] = seen[o] /\ outcome'[o] = outcome[o]
    BY <1>1, OthersByContinue
  <1>8. QED
    BY <1>2, <1>1, <1>5, <1>6, <1>7, QuietStep

LEMMA ExchangeStep ==
  ASSUME Inv, NEW c \in Callers, Exchange(c)
  PROVE  Inv'
  <1> DEFINE k == call[c]
             b == content[k.url]
  <1>1. Request(c)
    BY DEF Exchange, Answer304, Answer200, AnswerOtherBody, AnswerRetryable, AnswerError
  <1>2. /\ k.at = "request" /\ k.at # "idle"
        /\ seen' = [seen EXCEPT ![c].asked = TRUE]
        /\ UNCHANGED <<publisher, disk, faults, tampers>>
    BY <1>1 DEF Request, faults
  <1>3. crashes' \in 0..MaxCrashes
    BY <1>2 DEF Inv, TypeOK, faults
  <1>4. /\ k \in Calls /\ seen[c] \in Seens /\ RunningOK(k, seen[c])
        /\ k.url \in Urls /\ b \in Bodies
    BY <1>2, RunningType
  <1>5. b \in seen[c].window /\ ~seen[c].wrote
    BY <1>2, <1>4 DEF RunningOK
  <1>6. ASSUME NEW how \in Errors \ {"no_body"}, End(c, how) PROVE Inv'
    BY <1>2, <1>3, <1>5, <1>6, DigestsAreNoWords, QuietEnd
  <1>7. CASE Answer304(c)
    <2>1. k.cached # None
      <3>1. SUFFICES ASSUME k.cached = None PROVE FALSE
        OBVIOUS
      <3>2. Missing.etag = None /\ Missing.last_modified = None
        BY DEF Missing, Blank
      <3>3. NotModified(Missing, b)
        BY <1>7, <3>1 DEF Answer304, Headers
      <3>4. QED
        BY <1>4, <3>2, <3>3, NoneIsNothing DEF NotModified, Contents
    <2>2. /\ k.meta.kind = "entry" /\ k.cached = k.meta.sha /\ PinAllows(k, k.cached)
          /\ seen[c].before = tampers => Whole(k.cached)
      BY <1>2, <1>4, <2>1 DEF RunningOK
    <2>3. PICK x \in served[k.url] : /\ k.meta.sha = Sha256[x]
                                     /\ k.meta.etag \in {None, x}
                                     /\ k.meta.last_modified \in {None, x}
      BY <1>4, <2>2 DEF RunningOK, Describes
    <2>4. x = b
      <3> DEFINE h == Headers(k)
      <3>1. h.etag = k.meta.etag /\ h.last_modified = k.meta.last_modified
        BY <2>1 DEF Headers, Missing, Blank
      <3>2. NotModified(h, b)
        BY <1>7 DEF Answer304
      <3>3. QED
        BY <1>4, <2>3, <3>1, <3>2, NoneIsNothing DEF NotModified, Contents
    <2>5. k.cached \in Digests
      BY <1>4, <2>1 DEF Calls
    <2>6. b \in served[k.url]
      BY <1>4 DEF Inv
    <2>7. ReturnedOK(k, seen[c], k.cached)
      BY <1>4, <1>5, <2>2, <2>3, <2>4, <2>6 DEF ReturnedOK
    <2>8. k.cached \notin Errors
      BY <2>5, DigestsAreNoWords
    <2>9. End(c, k.cached)
      BY <1>7, <2>1 DEF Answer304
    <2>10. "no_body" \in Errors
      BY DEF Errors
    <2>11. QED
      BY <1>2, <1>3, <2>5, <2>7, <2>8, <2>9, <2>10, QuietEnd
  <1>8. CASE Answer200(c)
    <2>1. PICK hs \in HeaderSets :
          Continue(c, [k EXCEPT !.at = "store_blob", !.reply = b,
              !.new = [kind |-> "entry", sha |-> Sha256[b],
                       etag |-> IF "etag" \in hs THEN b ELSE None,
                       last_modified |-> IF "last_modified" \in hs THEN b ELSE None]])
      BY <1>8 DEF Answer200
    <2> DEFINE new == [kind |-> "entry", sha |-> Sha256[b],
                       etag |-> IF "etag" \in hs THEN b ELSE None,
                       last_modified |-> IF "last_modified" \in hs THEN b ELSE None]
               n == [k EXCEPT !.at = "store_blob", !.reply = b, !.new = new]
    <2>2. new \in Metas
      BY <1>4, CollisionFree DEF Metas, MetaKinds, Contents
    <2>3. n \in Calls
      BY <1>4, <2>2 DEF Calls, Running
    <2>4. PinAllows(k, Sha256[b])
      BY <1>8 DEF Answer200
    <2>5. RunningOK(n, seen[c])
      BY <1>4, <1>5, <2>4 DEF RunningOK, Calls, PinAllows
    <2>6. n.url = k.url /\ n.at # "idle"
      BY <1>4 DEF Calls
    <2>7. QED
      BY <1>2, <2>1, <2>3, <2>5, <2>6, QuietContinue
  <1>9. CASE AnswerOtherBody(c)
    BY <1>6, <1>9 DEF AnswerOtherBody, Errors
  <1>10. CASE AnswerRetryable(c)
    <2>1. CASE AttemptsLeft(k) /\ Continue(c, [k EXCEPT !.attempt = @ + 1])
      <3> DEFINE n == [k EXCEPT !.attempt = k.attempt + 1]
      <3>1. n \in Calls
        BY <1>4, <2>1, BoundsAreNat DEF Calls, AttemptsLeft
      <3>2. RunningOK(n, seen[c]) /\ n.url = k.url /\ n.at # "idle"
        BY <1>2, <1>4 DEF RunningOK, Calls, PinAllows
      <3>3. QED
        BY <1>2, <2>1, <3>1, <3>2, QuietContinue
    <2>2. QED
      BY <1>6, <1>10, <2>1 DEF AnswerRetryable, Errors
  <1>11. CASE AnswerError(c)
    BY <1>6, <1>11 DEF AnswerError, Errors
  <1>12. QED
    BY <1>7, <1>8, <1>9, <1>10, <1>11 DEF Exchange

LEMMA StoreBlobStep ==
  ASSUME Inv, NEW c \in Callers, StoreBlob(c)
  PROVE  Inv'
  <1> DEFINE k == call[c]
             n == [k EXCEPT !.at = "store_meta"]
  <1>1. /\ k.at = "store_blob" /\ k.at # "idle"
        /\ seen' = [seen EXCEPT ![c].wrote = TRUE]
        /\ blob' = [blob EXCEPT ![k.new.sha] = k.reply]
        /\ Continue(c, n)
        /\ UNCHANGED <<content, served, metaFile, tampers, crashes>>
    BY DEF StoreBlob, Storing, PutBlob, BlobDone, publisher, faults
  <1>2. k \in Calls /\ seen[c] \in Seens /\ RunningOK(k, seen[c])
    BY <1>1, RunningType
  <1>3. /\ k.reply \in seen[c].window /\ k.new.kind = "entry" /\ k.new.sha = Sha256[k.reply]
        /\ k.reply \in Bodies
    BY <1>1, <1>2 DEF RunningOK, Seens
  <1>4. k.new.sha \in Digests /\ k.reply \in Contents /\ k.reply # None
    BY <1>3, CollisionFree, NoneIsNothing DEF Contents
  <1>5. blob' \in [Digests -> Contents \cup {None}]
    BY <1>1, <1>4 DEF Inv, TypeOK
  <1>6. \A d \in Digests : Whole(d) \/ d = k.new.sha => Whole(d)'
    BY <1>1, <1>3, <1>4 DEF Whole, Inv, TypeOK
  <1>7. /\ seen' \in [Callers -> Seens] /\ seen'[c] \in Seens
        /\ seen'[c].window = seen[c].window /\ seen'[c].before = seen[c].before
        /\ \A o \in Callers \ {c} : seen'[o] = seen[o]
    BY <1>1 DEF Inv, TypeOK, Seens
  <1>8. n \in Calls /\ n.at = "store_meta" /\ n.url = k.url
    BY <1>2 DEF Calls, Running
  <1>9. call'[c] = n
    BY <1>1 DEF Continue, Inv, TypeOK
  <1>10. RunningOK(call[c], seen[c])'
    BY <1>1, <1>2, <1>3, <1>4, <1>6, <1>7, <1>8, <1>9 DEF RunningOK, Calls, PinAllows
  <1>11. /\ call' \in [Callers -> Calls] /\ outcome' \in [Callers -> Outcomes]
         /\ CallOK(call[c], seen[c], outcome[c])'
    BY <1>1, <1>7, <1>8, <1>10, ContinueOK
  <1>12. TypeOK'
    BY <1>1, <1>5, <1>7, <1>11 DEF Inv, TypeOK, Outcomes
  <1>13. /\ \A u \in Urls : Describes(metaFile[u], served[u])'
         /\ tampers = 0 => \A u \in Urls :
             (\/ metaFile[u].kind = "missing"
              \/ metaFile[u].kind = "entry" /\ Whole(metaFile[u].sha))'
    <2>1. \A u \in Urls : Describes(metaFile[u], served[u])'
      BY <1>1 DEF Inv
    <2>2. ASSUME NEW u \in Urls, metaFile[u].kind = "entry" PROVE metaFile[u].sha \in Digests
      <3>1. \A b \in served[u] : Sha256[b] \in Digests
        BY CollisionFree DEF Inv, TypeOK, Contents
      <3>2. QED
        BY <2>2, <3>1 DEF Inv, Describes
    <2>3. QED
      BY <1>1, <1>6, <2>1, <2>2 DEF Inv
  <1>14. \A o \in Callers \ {c} :
          call'[o] = call[o] /\ seen'[o] = seen[o] /\ outcome'[o] = outcome[o]
    BY <1>1, <1>7, OthersByContinue
  <1>15. UNCHANGED <<content, served, tampers>> /\ \A d \in Digests : Whole(d) => Whole(d)'
    BY <1>1, <1>6
  <1>16. QED
    BY <1>11, <1>12, <1>13, <1>14, <1>15, CallerStep

LEMMA StoreMetaStep ==
  ASSUME Inv, NEW c \in Callers, StoreMeta(c)
  PROVE  Inv'
  <1> DEFINE k == call[c]
  <1>1. /\ k.at = "store_meta" /\ k.at # "idle"
        /\ seen' = [seen EXCEPT ![c].wrote = TRUE]
        /\ metaFile' = [metaFile EXCEPT ![k.url] = k.new]
        /\ End(c, k.new.sha)
        /\ UNCHANGED <<content, served, blob, tampers, crashes>>
    BY DEF StoreMeta, Storing, PutMeta, publisher, faults
  <1>2. k \in Calls /\ seen[c] \in Seens /\ RunningOK(k, seen[c]) /\ k.url \in Urls
    BY <1>1, RunningType
  <1>3. /\ k.reply \in seen[c].window /\ k.new.kind = "entry" /\ k.new.sha = Sha256[k.reply]
        /\ k.reply \in Bodies /\ k.new \in Metas
        /\ seen[c].before = tampers => Whole(k.new.sha)
    BY <1>1, <1>2 DEF RunningOK, Seens, Calls
  <1>4. k.new.sha \in Digests /\ k.new.sha \notin Errors
    BY <1>3, CollisionFree, DigestsAreNoWords DEF Contents
  <1>5. seen[c].window \subseteq served[k.url] /\ (tampers = 0 => seen[c].before = tampers)
    BY <1>2 DEF Inv, CallOK, Seens
  <1>6. /\ seen' \in [Callers -> Seens] /\ seen'[c] \in Seens
        /\ seen'[c].window = seen[c].window /\ seen'[c].before = seen[c].before
        /\ \A o \in Callers \ {c} : seen'[o] = seen[o]
    BY <1>1 DEF Inv, TypeOK, Seens
  <1>7. ReturnedOK(k, seen[c], k.new.sha)
    BY <1>1, <1>2, <1>3, <1>5 DEF ReturnedOK, RunningOK
  <1>8. /\ call' \in [Callers -> Calls] /\ outcome' \in [Callers -> Outcomes]
        /\ CallOK(call[c], seen[c], outcome[c])'
    <2>1. "no_body" \in Errors
      BY DEF Errors
    <2>2. QED
      BY <1>1, <1>4, <1>6, <1>7, <2>1, EndOK
  <1>9. metaFile' \in [Urls -> Metas] /\ metaFile'[k.url] = k.new
    BY <1>1, <1>2, <1>3 DEF Inv, TypeOK
  <1>10. TypeOK'
    BY <1>1, <1>6, <1>8, <1>9 DEF Inv, TypeOK, Outcomes
  <1>11. Describes(k.new, served[k.url])
    BY <1>1, <1>2, <1>3, <1>5 DEF RunningOK, Describes
  <1>12. \A u \in Urls : Describes(metaFile[u], served[u])'
    BY <1>1, <1>9, <1>11 DEF Inv, TypeOK
  <1>13. tampers = 0 => \A u \in Urls :
             (\/ metaFile[u].kind = "missing"
              \/ metaFile[u].kind = "entry" /\ Whole(metaFile[u].sha))'
    BY <1>1, <1>3, <1>5, <1>9 DEF Inv, TypeOK, Whole
  <1>14. \A d \in Digests : Whole(d) => Whole(d)'
    BY <1>1 DEF Whole
  <1>15. \A o \in Callers \ {c} :
          call'[o] = call[o] /\ seen'[o] = seen[o] /\ outcome'[o] = outcome[o]
    BY <1>1, <1>6, OthersByEnd
  <1>16. UNCHANGED <<content, served, tampers>>
    BY <1>1
  <1>17. QED
    BY <1>8, <1>10, <1>12, <1>13, <1>14, <1>15, <1>16, CallerStep

LEMMA StoreStep ==
  ASSUME Inv, NEW c \in Callers, Store(c)
  PROVE  Inv'
  <1>1. CASE WriteFails(c)
    <2>1. /\ call[c].at # "idle" /\ End(c, "write_error") /\ seen' = seen
          /\ UNCHANGED <<publisher, disk, tampers>> /\ crashes' \in 0..MaxCrashes
      BY <1>1 DEF WriteFails, faults, Inv, TypeOK
    <2>2. "write_error" \in Errors /\ "write_error" \notin Digests
      BY DigestsAreNoWords DEF Errors
    <2>3. QED
      BY <2>1, <2>2, QuietEnd
  <1>2. QED
    BY <1>1, StoreBlobStep, StoreMetaStep DEF Store

LEMMA CrashStep ==
  ASSUME Inv, NEW c \in Callers, Crash(c)
  PROVE  Inv'
  <1>1. /\ call[c].at # "idle" /\ End(c, "crashed") /\ seen' = seen
        /\ UNCHANGED <<publisher, disk, tampers>>
    BY DEF Crash
  <1>2. crashes' \in 0..MaxCrashes
    BY BoundsAreNat DEF Crash, Inv, TypeOK
  <1>3. "crashed" \in Errors /\ "crashed" \notin Digests
    BY DigestsAreNoWords DEF Errors
  <1>4. QED
    BY <1>1, <1>2, <1>3, QuietEnd

\* After a change behind the cache's back nothing is claimed of whole blobs.
LEMMA TamperStep ==
  ASSUME Inv, Tamper
  PROVE  Inv'
  <1>1. /\ tampers' = tampers + 1 /\ tampers' \in 0..MaxTampers /\ tampers \in Nat
        /\ UNCHANGED <<content, served, call, outcome, seen, crashes>>
    BY BoundsAreNat DEF Tamper, publisher, Inv, TypeOK
  <1>2. /\ blob' \in [Digests -> Contents \cup {None}] /\ metaFile' \in [Urls -> Metas]
        /\ \A u \in Urls : Describes(metaFile'[u], served[u])
    <2>1. CASE /\ UNCHANGED metaFile
               /\ \E d \in Digests, x \in {Torn, None} : blob' = [blob EXCEPT ![d] = x]
      BY <2>1 DEF Inv, TypeOK, Contents
    <2>2. CASE /\ UNCHANGED blob
               /\ \E u \in Urls, kind \in MetaKinds \ {"entry"} :
                    /\ metaFile[u].kind = "entry"
                    /\ metaFile' = [metaFile EXCEPT ![u] =
                         IF kind = "no_timestamp" THEN [@ EXCEPT !.kind = kind] ELSE Blank(kind)]
      <3>1. PICK u \in Urls, kind \in MetaKinds \ {"entry"} :
                    /\ metaFile[u].kind = "entry"
                    /\ metaFile' = [metaFile EXCEPT ![u] =
                         IF kind = "no_timestamp" THEN [@ EXCEPT !.kind = kind] ELSE Blank(kind)]
        BY <2>2
      <3> DEFINE m == IF kind = "no_timestamp" THEN [metaFile[u] EXCEPT !.kind = kind] ELSE Blank(kind)
      <3>2. metaFile[u] \in Metas /\ Describes(metaFile[u], served[u])
        BY DEF Inv, TypeOK
      <3>3. m \in Metas
        BY <3>2, BlankIsMeta DEF Metas
      <3>4. Describes(m, served[u])
        BY <3>1, <3>2 DEF Describes, Blank, MetaKinds, Metas
      <3>5. QED
        BY <2>2, <3>1, <3>3, <3>4 DEF Inv, TypeOK
    <2>3. QED
      BY <2>1, <2>2 DEF Tamper
  <1>3. TypeOK'
    BY <1>1, <1>2 DEF Inv, TypeOK
  <1>4. ASSUME NEW c \in Callers PROVE CallOK(call[c], seen[c], outcome[c])'
    <2>1. /\ CallOK(call[c], seen[c], outcome[c])
          /\ seen[c].before \in Nat /\ seen[c].before <= tampers
      BY BoundsAreNat DEF Inv, TypeOK, Seens, CallOK
    <2>2. seen[c].before <= tampers' /\ seen[c].before # tampers'
      BY <1>1, <2>1
    <2>3. RunningOK(call[c], seen[c]) => RunningOK(call[c], seen[c])'
      BY <1>1, <2>2 DEF RunningOK
    <2>4. ReturnedOK(call[c], seen[c], outcome[c]) => ReturnedOK(call[c], seen[c], outcome[c])'
      BY <1>1, <2>2 DEF ReturnedOK
    <2>5. QED
      BY <1>1, <2>1, <2>2, <2>3, <2>4 DEF CallOK
  <1>5. QED
    BY <1>1, <1>2, <1>3, <1>4 DEF Inv

\* A publication widens what was served and what a running call may return.
LEMMA PublishStep ==
  ASSUME Inv, NEW u \in Urls, Publish(u)
  PROVE  Inv'
  <1>1. PICK b \in Bodies :
        /\ content' = [content EXCEPT ![u] = b]
        /\ served' = [served EXCEPT ![u] = @ \cup {b}]
        /\ seen' = [c \in Callers |->
              IF call[c].at # "idle" /\ call[c].url = u
              THEN [seen[c] EXCEPT !.window = @ \cup {b}] ELSE seen[c]]
    BY DEF Publish
  <1>2. UNCHANGED <<blob, metaFile, call, outcome, tampers, crashes>>
    BY DEF Publish, disk, faults
  <1>3. /\ content' \in [Urls -> Bodies] /\ served' \in [Urls -> SUBSET Bodies]
        /\ \A v \in Urls : served[v] \subseteq served'[v] /\ content'[v] \in served'[v]
        /\ \A v \in Urls : v # u => content'[v] = content[v]
        /\ content'[u] = b /\ b \in served'[u]
    BY <1>1 DEF Inv, TypeOK
  <1>4. ASSUME NEW c \in Callers
        PROVE  /\ seen'[c] \in Seens /\ seen[c] \in Seens
               /\ seen'[c].before = seen[c].before /\ seen'[c].wrote = seen[c].wrote
               /\ seen[c].window \subseteq seen'[c].window
               /\ seen'[c].window \subseteq seen[c].window \cup {b}
               /\ call[c].at = "idle" \/ call[c].url # u => seen'[c] = seen[c]
               /\ call[c].at # "idle" /\ call[c].url = u => b \in seen'[c].window
    BY <1>1 DEF Inv, TypeOK, Seens
  <1>5. seen' \in [Callers -> Seens]
    BY <1>1, <1>4
  <1>6. TypeOK'
    BY <1>2, <1>3, <1>5 DEF Inv, TypeOK
  <1>7. ASSUME NEW m, NEW v \in Urls, Describes(m, served[v]) PROVE Describes(m, served'[v])
    BY <1>3, <1>7 DEF Describes
  <1>8. \A v \in Urls : content'[v] \in served'[v] /\ Describes(metaFile'[v], served'[v])
    BY <1>2, <1>3, <1>7 DEF Inv
  <1>9. ASSUME NEW c \in Callers PROVE CallOK(call[c], seen[c], outcome[c])'
    <2>1. CallOK(call[c], seen[c], outcome[c])
      BY DEF Inv
    <2>2. (call[c].url \in Urls => seen[c].window \subseteq served[call[c].url])'
      BY <1>2, <1>3, <1>4, <2>1 DEF CallOK
    <2>3. ASSUME call[c].at # "idle", RunningOK(call[c], seen[c])
          PROVE  RunningOK(call[c], seen[c])'
      <3>1. call[c].url \in Urls /\ content'[call[c].url] \in seen'[c].window
        BY <1>3, <1>4, <2>3 DEF RunningOK
      <3>2. Describes(call[c].meta, served'[call[c].url])
        BY <1>7, <2>3, <3>1 DEF RunningOK
      <3>3. QED
        BY <1>2, <1>4, <2>3, <3>1, <3>2 DEF RunningOK, Whole
    <2>4. ASSUME call[c].at = "idle", ReturnedOK(call[c], seen[c], outcome[c])
          PROVE  ReturnedOK(call[c], seen[c], outcome[c])'
      BY <1>2, <1>3, <1>4, <2>4 DEF ReturnedOK, Whole
    <2>5. QED
      BY <1>2, <1>4, <2>1, <2>2, <2>3, <2>4 DEF CallOK
  <1>10. QED
    BY <1>2, <1>6, <1>8, <1>9 DEF Inv, Whole

LEMMA StutterStep ==
  ASSUME Inv, UNCHANGED vars
  PROVE  Inv'
  <1>1. UNCHANGED <<content, served, blob, metaFile, call, outcome, seen, tampers, crashes>>
    BY DEF vars, publisher, disk, faults
  <1>2. TypeOK'
    BY <1>1 DEF Inv, TypeOK
  <1>4. /\ \A u \in Urls : content[u] \in served[u] /\ Describes(metaFile[u], served[u])
        /\ tampers = 0 => \A u \in Urls :
              \/ metaFile[u].kind = "missing"
              \/ metaFile[u].kind = "entry" /\ Whole(metaFile[u].sha)
        /\ \A c \in Callers : CallOK(call[c], seen[c], outcome[c])
    BY DEF Inv
  <1>5. \A u \in Urls : content'[u] \in served'[u] /\ Describes(metaFile[u], served[u])'
    BY <1>1, <1>4 DEF Describes
  <1>6. tampers' = 0 => \A u \in Urls :
          \/ metaFile'[u].kind = "missing"
          \/ metaFile'[u].kind = "entry" /\ Whole(metaFile[u].sha)'
    BY <1>1, <1>4 DEF Whole
  <1>7. ASSUME NEW c \in Callers PROVE CallOK(call[c], seen[c], outcome[c])'
    <2>1. CallOK(call[c], seen[c], outcome[c])
      BY <1>4
    <2>2. RunningOK(call[c], seen[c]) => RunningOK(call[c], seen[c])'
      BY <1>1 DEF RunningOK, Describes, Whole
    <2>3. ReturnedOK(call[c], seen[c], outcome[c]) => ReturnedOK(call[c], seen[c], outcome[c])'
      BY <1>1 DEF ReturnedOK, Whole
    <2> QED
      BY <1>1, <2>1, <2>2, <2>3 DEF CallOK
  <1> QED
    BY <1>2, <1>5, <1>6, <1>7 DEF Inv

LEMMA NextInv == Inv /\ [Next]_vars => Inv'
  <1> SUFFICES ASSUME Inv, [Next]_vars PROVE Inv'
    OBVIOUS
  <1>1. ASSUME NEW c \in Callers, Begin(c) \/ Lookup(c) \/ Exchange(c) \/ Store(c) \/ Crash(c)
        PROVE  Inv'
    BY <1>1, BeginStep, LookupStep, ExchangeStep, StoreStep, CrashStep
  <1>2. QED
    BY <1>1, PublishStep, TamperStep, StutterStep DEF Next

-----------------------------------------------------------------------------
\* What the invariant gives

\* The invariant holds in every state of every behaviour: what the cache stores,
\* what a call holds and what it returned belong together at every moment.
THEOREM Invariance == Spec => []Inv
  <1>1. Init => Inv
    BY InitInv
  <1>2. Inv /\ [Next]_vars => Inv'
    BY NextInv
  <1>3. QED
    BY <1>1, <1>2, PTL DEF Spec

\* Every variable keeps its type: no step leaves the attempt counter, a file or a
\* call's locals outside the values the code can give them.
THEOREM TypeCorrect == Spec => []TypeOK
  <1>1. Inv => TypeOK
    BY DEF Inv
  <1>2. QED
    BY <1>1, Invariance, PTL

\* A revalidating call returns a body that was current during the call, for any
\* number of callers, URLs, bodies and attempts.
THEOREM Freshness == Spec => []FreshWhenRevalidated
  <1>1. Inv => FreshWhenRevalidated
    BY DEF Inv, CallOK, ReturnedOK, FreshWhenRevalidated, Returned
  <1>2. QED
    BY <1>1, Invariance, PTL

\* No call returns bytes the publisher never served at its URL, whatever was done
\* to the files.
THEOREM Authenticity == Spec => []OnlyServedBodies
  <1>1. Inv => OnlyServedBodies
    <2> SUFFICES ASSUME Inv, NEW c \in Callers, Returned(c)
                 PROVE  \E b \in served[call[c].url] : Sha256[b] = outcome[c]
      BY DEF OnlyServedBodies
    <2>1. /\ ReturnedOK(call[c], seen[c], outcome[c])
          /\ call[c].url \in Urls => seen[c].window \subseteq served[call[c].url]
      BY DEF Inv, CallOK, Returned
    <2>2. QED
      BY <2>1 DEF ReturnedOK
  <1>2. QED
    BY <1>1, Invariance, PTL

\* A pinned call returns the pinned body or raises.
THEOREM Pinning == Spec => []PinHonoured
  <1>1. Inv => PinHonoured
    BY DEF Inv, CallOK, ReturnedOK, PinHonoured, Returned, PinAllows
  <1>2. QED
    BY <1>1, Invariance, PTL

\* A conditional request is sent only with a body to fall back on, so a 304 never
\* leaves a call empty-handed.
THEOREM AlwaysABody == Spec => []No304WithoutBody
  <1>1. Inv => No304WithoutBody
    BY DEF Inv, CallOK, No304WithoutBody
  <1>2. QED
    BY <1>1, Invariance, PTL

\* Crashes, failed writes and concurrent stores leave no entry without its blob.
THEOREM MetaLast == Spec => []EntriesAreWhole
  <1>1. Inv => EntriesAreWhole
    BY DEF Inv, EntriesAreWhole, Usable, Whole
  <1>2. QED
    BY <1>1, Invariance, PTL

\* The file a call returned keeps holding the body it returned.
THEOREM PathStaysGood == Spec => []ReturnedPathHoldsBody
  <1>1. Inv => ReturnedPathHoldsBody
    BY DEF Inv, CallOK, ReturnedOK, ReturnedPathHoldsBody, Returned, Whole
  <1>2. QED
    BY <1>1, Invariance, PTL

\* A call that ends in a miss, a refused body or a server's error changed no file.
THEOREM FailureIsClean == Spec => []FailedCallWroteNothing
  <1>1. Inv => FailedCallWroteNothing
    BY DEF Inv, CallOK, FailedCallWroteNothing
  <1>2. QED
    BY <1>1, Invariance, PTL

-----------------------------------------------------------------------------
\* Offline callers of a stored entry

\* Call c was made offline, or offline first, unpinned, over a whole entry.
Covered(c) == seen[c].hit /\ call[c].mode # "revalidate" /\ call[c].pin = None

\* It never gets beyond the look into the cache, because the entry it looks at
\* stays whole whatever is stored over it.
CoveredOK(c) ==
    /\ outcome[c] # "cache_miss" /\ ~seen[c].asked
    /\ call[c].at # "idle" =>
          /\ call[c].at \in {"read_meta", "exists", "verify"} /\ ~call[c].online
          /\ metaFile[call[c].url].kind = "entry"
          /\ call[c].at \in {"exists", "verify"} =>
                call[c].meta.kind = "entry" /\ Whole(call[c].meta.sha)

OfflineInv == tampers = 0 => \A c \in Callers : Covered(c) => CoveredOK(c)

Step(c) == Begin(c) \/ Lookup(c) \/ Exchange(c) \/ Store(c) \/ Crash(c)

LEMMA OneCaller ==
  ASSUME Inv, NEW c \in Callers, Step(c)
  PROVE  /\ \A o \in Callers \ {c} :
              call'[o] = call[o] /\ seen'[o] = seen[o] /\ outcome'[o] = outcome[o]
         /\ UNCHANGED <<publisher, tampers>>
  <1>0. seen \in [Callers -> Seens] /\ outcome \in [Callers -> Outcomes] /\ call \in [Callers -> Calls]
    BY DEF Inv, TypeOK, Outcomes
  <1>1. CASE Begin(c)
    BY <1>0, <1>1 DEF Begin, faults
  <1>2. CASE Lookup(c)
    <2>1. seen' = seen /\ UNCHANGED <<publisher, tampers>>
      BY <1>2 DEF Lookup, ReadMeta, Exists, Verify, faults
    <2>2. (\E found \in Digests \cup {None} : Decide(c, found)) \/ (\E k : Continue(c, k)) \/ (\E how : End(c, how))
      <3>1. call[c].at = "verify" => call[c].meta.sha \in Digests
        BY RunningType
      <3>2. QED
        BY <1>2, <3>1 DEF Lookup, ReadMeta, Exists, Verify
    <2>3. QED
      BY <2>1, <2>2, OthersByDecide, OthersByContinue, OthersByEnd
  <1>3. CASE Exchange(c)
    <2>1. Request(c)
      BY <1>3 DEF Exchange, Answer304, Answer200, AnswerOtherBody, AnswerRetryable, AnswerError
    <2>2. (\E k : Continue(c, k)) \/ (\E how : End(c, how))
      BY <1>3 DEF Exchange, Answer304, Answer200, AnswerOtherBody, AnswerRetryable, AnswerError
    <2>3. \A o \in Callers \ {c} : seen'[o] = seen[o]
      BY <1>0, <2>1 DEF Request
    <2>4. UNCHANGED <<publisher, tampers>>
      BY <2>1 DEF Request, faults
    <2>5. QED
      BY <2>2, <2>3, <2>4, OthersByContinue, OthersByEnd
  <1>4. CASE Store(c)
    <2>1. /\ \A o \in Callers \ {c} : seen'[o] = seen[o]
          /\ UNCHANGED <<publisher, tampers>>
      BY <1>0, <1>4 DEF Store, StoreBlob, StoreMeta, WriteFails, Storing, faults
    <2>2. (\E k : Continue(c, k)) \/ (\E how : End(c, how))
      BY <1>4 DEF Store, StoreBlob, StoreMeta, WriteFails, BlobDone
    <2>3. QED
      BY <2>1, <2>2, OthersByContinue, OthersByEnd
  <1>5. CASE Crash(c)
    BY <1>5, OthersByEnd DEF Crash
  <1>6. QED
    BY <1>1, <1>2, <1>3, <1>4, <1>5 DEF Step

\* Only StoreBlob and StoreMeta touch the disk, and they replace whole by whole.
LEMMA EntriesStay ==
  ASSUME Inv, NEW c \in Callers, Step(c)
  PROVE  /\ \A d \in Digests : Whole(d) => Whole(d)'
         /\ \A u \in Urls : metaFile[u].kind = "entry" => metaFile'[u].kind = "entry"
  <1>1. CASE StoreBlob(c)
    <2>1. /\ call[c].at = "store_blob" /\ blob' = [blob EXCEPT ![call[c].new.sha] = call[c].reply]
          /\ metaFile' = metaFile
      BY <1>1 DEF StoreBlob, Storing, PutBlob
    <2>2. call[c].new.sha = Sha256[call[c].reply] /\ call[c].reply \in Bodies
      BY <2>1, RunningType DEF RunningOK, Seens
    <2>3. QED
      BY <2>1, <2>2, NoneIsNothing DEF Whole, Contents, Inv, TypeOK
  <1>2. CASE StoreMeta(c)
    <2>1. /\ call[c].at = "store_meta" /\ metaFile' = [metaFile EXCEPT ![call[c].url] = call[c].new]
          /\ blob' = blob
      BY <1>2 DEF StoreMeta, Storing, PutMeta
    <2>2. call[c].new.kind = "entry"
      BY <2>1, RunningType DEF RunningOK
    <2>3. QED
      BY <2>1, <2>2 DEF Whole, Inv, TypeOK
  <1>3. CASE UNCHANGED disk
    BY <1>3 DEF disk, Whole
  <1>4. QED
    BY <1>1, <1>2, <1>3 DEF Step, Begin, Lookup, ReadMeta, Exists, Verify, Exchange, Answer304,
       Answer200, AnswerOtherBody, AnswerRetryable, AnswerError, Request, Store, WriteFails, Crash

\* A covered call's own step after the first.
LEMMA CoveredLookup ==
  ASSUME Inv, NEW c \in Callers, tampers = 0, Covered(c), CoveredOK(c),
         call[c].at # "idle", Step(c)
  PROVE  CoveredOK(c)'
  <1> DEFINE k == call[c]
             m == metaFile[k.url]
  <1>1. /\ k.at \in {"read_meta", "exists", "verify"} /\ ~k.online
        /\ m.kind = "entry" /\ ~seen[c].asked
        /\ k.at \in {"exists", "verify"} => k.meta.kind = "entry" /\ Whole(k.meta.sha)
        /\ k.pin = None
    BY DEF CoveredOK, Covered
  <1>2. /\ k \in Calls /\ k.url \in Urls /\ Whole(m.sha)
        /\ k.at \in {"exists", "verify"} => k.meta.sha \in Digests
    BY <1>1, RunningType DEF Inv
  <1>3. call \in [Callers -> Calls] /\ outcome \in [Callers -> Outcomes]
    BY DEF Inv, TypeOK, Outcomes
  <1>4. ASSUME NEW how, End(c, how), how # "cache_miss", seen' = seen PROVE CoveredOK(c)'
    <2>1. call'[c].at = "idle" /\ outcome'[c] = how
      BY <1>3, <1>4 DEF End, Idle
    <2>2. QED
      BY <1>1, <1>4, <2>1 DEF CoveredOK
  <1>5. CASE Crash(c)
    BY <1>4, <1>5 DEF Crash
  <1>6. CASE ReadMeta(c)
    <2>1. Continue(c, [k EXCEPT !.at = "exists", !.meta = m]) /\ UNCHANGED <<seen, disk>>
      BY <1>1, <1>6 DEF ReadMeta
    <2>2. /\ call'[c] = [k EXCEPT !.at = "exists", !.meta = m]
          /\ outcome'[c] = outcome[c] /\ UNCHANGED <<seen, blob, metaFile>>
      BY <1>3, <2>1 DEF Continue, disk
    <2>3. QED
      BY <1>1, <1>2, <2>2 DEF Calls, CoveredOK, Whole
  <1>7. CASE Exists(c)
    <2>1. Continue(c, [k EXCEPT !.at = "verify"]) /\ UNCHANGED <<seen, disk>>
      BY <1>1, <1>7 DEF Exists, Whole
    <2>2. /\ call'[c] = [k EXCEPT !.at = "verify"]
          /\ outcome'[c] = outcome[c] /\ UNCHANGED <<seen, blob, metaFile>>
      BY <1>3, <2>1 DEF Continue, disk
    <2>3. QED
      BY <1>1, <1>2, <1>7, <2>2 DEF Calls, CoveredOK, Whole, Exists
  <1>8. CASE Verify(c)
    <2>1. Decide(c, k.meta.sha) /\ seen' = seen
      BY <1>1, <1>8 DEF Verify, Whole, PinAllows
    <2>2. k.meta.sha \in Digests /\ k.meta.sha # None
      BY <1>2, <1>8, NoneIsNothing DEF Verify
    <2>3. End(c, k.meta.sha) /\ k.meta.sha # "cache_miss"
      BY <1>1, <2>1, <2>2, DigestsAreNoWords DEF Decide, Errors
    <2>4. QED
      BY <1>4, <2>1, <2>3
  <1>9. ~Begin(c) /\ ~Exchange(c) /\ ~Store(c)
    BY <1>1 DEF Begin, Exchange, Answer304, Answer200, AnswerOtherBody, AnswerRetryable,
       AnswerError, Request, Store, StoreBlob, StoreMeta, Storing, WriteFails
  <1>10. QED
    BY <1>5, <1>6, <1>7, <1>8, <1>9 DEF Step, Lookup

\* A step of a running call keeps what was asked for and, if it ends the call,
\* ends it with an error or a digest.
LEMMA OwnStep ==
  ASSUME Inv, NEW c \in Callers, Step(c), ~Begin(c)
  PROVE  /\ call[c].at # "idle"
         /\ call'[c].url = call[c].url /\ call'[c].mode = call[c].mode /\ call'[c].pin = call[c].pin
         /\ seen'[c].hit = seen[c].hit /\ seen'[c].window = seen[c].window
         /\ call'[c].at # "idle" \/ outcome'[c] \in Errors \cup Digests
  <1> DEFINE Kept == /\ call'[c].url = call[c].url /\ call'[c].mode = call[c].mode
                     /\ call'[c].pin = call[c].pin
                     /\ call'[c].at # "idle" \/ outcome'[c] \in Errors \cup Digests
  <1>1. call[c] \in Calls /\ seen[c] \in Seens /\ call \in [Callers -> Calls]
        /\ seen \in [Callers -> Seens] /\ outcome \in [Callers -> Outcomes]
    BY DEF Inv, TypeOK, Outcomes
  <1>2. call[c].at # "idle"
    BY DEF Step, Lookup, ReadMeta, Exists, Verify, Exchange, Answer304, Answer200,
       AnswerOtherBody, AnswerRetryable, AnswerError, Request, Store, StoreBlob, StoreMeta,
       Storing, WriteFails, Crash
  <1>3. seen'[c].hit = seen[c].hit /\ seen'[c].window = seen[c].window
    BY <1>1 DEF Step, Lookup, ReadMeta, Exists, Verify, Exchange, Answer304, Answer200,
       AnswerOtherBody, AnswerRetryable, AnswerError, Request, Store, StoreBlob, StoreMeta,
       Storing, WriteFails, Crash, Seens
  <1>4. ASSUME NEW how, End(c, how), how \in Errors \cup Digests PROVE Kept
    BY <1>1, <1>4 DEF End, Idle
  <1>5. ASSUME NEW k, Continue(c, k), k.url = call[c].url, k.mode = call[c].mode,
               k.pin = call[c].pin, k.at # "idle"
        PROVE  Kept
    BY <1>1, <1>5 DEF Continue
  <1>6. ASSUME NEW how, End(c, how), how \in {"decode_error", "os_error", "cache_miss", "gave_up",
               "http_error", "no_body", "pin_mismatch", "write_error", "crashed"}
        PROVE  Kept
    BY <1>4, <1>6 DEF Errors
  <1>7. ASSUME NEW found \in Digests \cup {None}, Decide(c, found) PROVE Kept
    <2>1. CASE \E x : Continue(c, [call[c] EXCEPT !.at = "request", !.cached = x])
      <3>1. PICK x : Continue(c, [call[c] EXCEPT !.at = "request", !.cached = x])
        BY <2>1
      <3>2. QED
        BY <1>1, <1>5, <3>1 DEF Calls
    <2>2. CASE Continue(c, [call[c] EXCEPT !.at = "read_meta", !.online = TRUE, !.meta = Missing])
      BY <1>1, <1>5, <2>2 DEF Calls
    <2>3. QED
      BY <1>4, <1>6, <1>7, <2>1, <2>2 DEF Decide
  <1>8. ASSUME Lookup(c) PROVE Kept
    <2>1. ASSUME ReadMeta(c) PROVE Kept
      <3>1. ASSUME Continue(c, [call[c] EXCEPT !.at = "exists", !.meta = metaFile[call[c].url]])
            PROVE  Kept
        BY <1>1, <1>5, <3>1 DEF Calls
      <3>2. QED
        BY <1>6, <1>7, <2>1, <3>1 DEF ReadMeta
    <2>2. ASSUME Exists(c) PROVE Kept
      <3>1. ASSUME Continue(c, [call[c] EXCEPT !.at = "verify"]) PROVE Kept
        BY <1>1, <1>5, <3>1 DEF Calls
      <3>2. QED
        BY <1>7, <2>2, <3>1 DEF Exists
    <2>3. ASSUME Verify(c) PROVE Kept
      <3>1. call[c].meta.sha \in Digests
        BY <1>2, <2>3, RunningType DEF Verify
      <3>2. QED
        BY <1>6, <1>7, <2>3, <3>1 DEF Verify
    <2>4. QED
      BY <1>8, <2>1, <2>2, <2>3 DEF Lookup
  <1>9. ASSUME Exchange(c) PROVE Kept
    <2>1. ASSUME Answer200(c) PROVE Kept
      <3>1. ASSUME NEW r, NEW n,
                   Continue(c, [call[c] EXCEPT !.at = "store_blob", !.reply = r, !.new = n])
            PROVE  Kept
        BY <1>1, <1>5, <3>1 DEF Calls
      <3>2. QED
        BY <2>1, <3>1 DEF Answer200
    <2>2. ASSUME AnswerRetryable(c) PROVE Kept
      <3>1. ASSUME Continue(c, [call[c] EXCEPT !.attempt = @ + 1]) PROVE Kept
        BY <1>1, <1>2, <1>5, <3>1 DEF Calls
      <3>2. QED
        BY <1>6, <2>2, <3>1 DEF AnswerRetryable
    <2>3. ASSUME Answer304(c) PROVE Kept
      <3>1. call[c].cached # None => call[c].cached \in Digests
        BY <1>1 DEF Calls
      <3>2. QED
        BY <1>4, <1>6, <2>3, <3>1 DEF Answer304
    <2>4. QED
      BY <1>6, <1>9, <2>1, <2>2, <2>3 DEF Exchange, AnswerOtherBody, AnswerError
  <1>10. ASSUME Store(c) \/ Crash(c) PROVE Kept
    <2>1. ASSUME StoreBlob(c) PROVE Kept
      <3>1. ASSUME Continue(c, [call[c] EXCEPT !.at = "store_meta"]) PROVE Kept
        BY <1>1, <1>5, <3>1 DEF Calls
      <3>2. QED
        BY <2>1, <3>1 DEF StoreBlob, BlobDone
    <2>2. ASSUME StoreMeta(c) PROVE Kept
      <3>1. call[c].at = "store_meta"
        BY <2>2 DEF StoreMeta, Storing
      <3>2. call[c].new.sha = Sha256[call[c].reply] /\ call[c].reply \in Bodies
        BY <3>1, RunningType DEF RunningOK, Seens
      <3>3. call[c].new.sha \in Digests
        BY <3>2, CollisionFree DEF Contents
      <3>4. QED
        BY <1>4, <2>2, <3>3 DEF StoreMeta
    <2>3. QED
      BY <1>6, <1>10, <2>1, <2>2 DEF Store, WriteFails, Crash
  <1>11. QED
    BY <1>2, <1>3, <1>8, <1>9, <1>10 DEF Step

LEMMA OfflineStep ==
  ASSUME Inv, OfflineInv, [Next]_vars
  PROVE  OfflineInv'
  <1>1. CASE UNCHANGED vars
    BY <1>1 DEF vars, disk, publisher, faults, OfflineInv, Covered, CoveredOK, Whole
  <1>2. ASSUME NEW u \in Urls, Publish(u) PROVE OfflineInv'
    <2>1. UNCHANGED <<blob, metaFile, call, outcome, tampers>>
      BY <1>2 DEF Publish, disk, faults
    <2>2. ASSUME NEW c \in Callers PROVE seen'[c].hit = seen[c].hit /\ seen'[c].asked = seen[c].asked
      BY <1>2 DEF Publish, Inv, TypeOK, Seens
    <2>3. QED
      BY <2>1, <2>2 DEF OfflineInv, Covered, CoveredOK, Whole
  <1>3. CASE Tamper
    BY <1>3, BoundsAreNat DEF Tamper, OfflineInv, Inv, TypeOK
  <1>4. ASSUME NEW a \in Callers, Step(a), NEW c \in Callers, tampers' = 0, Covered(c)'
        PROVE  CoveredOK(c)'
    <2>1. tampers = 0 /\ UNCHANGED publisher
      BY <1>4, OneCaller
    <2>2. CASE c # a
      <3>1. call'[c] = call[c] /\ seen'[c] = seen[c] /\ outcome'[c] = outcome[c]
        BY <1>4, <2>2, OneCaller
      <3>2. CoveredOK(c)
        BY <1>4, <2>1, <3>1 DEF OfflineInv, Covered
      <3>3. call[c].at # "idle" =>
              /\ call[c].url \in Urls
              /\ call[c].at \in {"exists", "verify"} => call[c].meta.sha \in Digests
        BY RunningType
      <3>4. /\ \A d \in Digests : Whole(d) => Whole(d)'
            /\ \A u \in Urls : metaFile[u].kind = "entry" => metaFile'[u].kind = "entry"
        BY <1>4, EntriesStay
      <3>5. ASSUME call'[c].at \in {"exists", "verify"} PROVE Whole(call[c].meta.sha)'
        <4>1. Whole(call[c].meta.sha) /\ call[c].meta.sha \in Digests
          BY <3>1, <3>2, <3>3, <3>5 DEF CoveredOK
        <4>2. QED
          BY <3>1, <3>4, <4>1 DEF Whole
      <3>6. QED
        BY <3>1, <3>2, <3>3, <3>4, <3>5 DEF CoveredOK
    <2>3. CASE c = a /\ Begin(c)
      <3>1. PICK u \in Urls, m \in Modes, p \in Pins :
          /\ call' = [call EXCEPT ![c] = [Idle EXCEPT !.at = "read_meta", !.url = u,
                !.mode = m, !.pin = p, !.online = (m = "revalidate")]]
          /\ seen' = [seen EXCEPT ![c] = [window |-> {content[u]}, hit |-> Usable(u),
                asked |-> FALSE, wrote |-> FALSE, before |-> tampers]]
        BY <2>3 DEF Begin
      <3>2. /\ call'[c] = [Idle EXCEPT !.at = "read_meta", !.url = u, !.mode = m, !.pin = p,
                               !.online = (m = "revalidate")]
            /\ seen'[c].hit = Usable(u) /\ ~seen'[c].asked
            /\ outcome'[c] = "none" /\ metaFile' = metaFile
        BY <2>3, <3>1 DEF Begin, disk, Inv, TypeOK
      <3>3. /\ call'[c].at = "read_meta" /\ call'[c].url = u /\ call'[c].mode = m
            /\ call'[c].online = (m = "revalidate")
        BY <3>2 DEF Idle
      <3>4. Usable(u) /\ m # "revalidate"
        BY <1>4, <3>2, <3>3 DEF Covered
      <3>5. QED
        BY <3>2, <3>3, <3>4 DEF CoveredOK, Usable
    <2>4. CASE c = a /\ ~Begin(c)
      <3>1. Covered(c)
        BY <1>4, <2>4, OwnStep DEF Covered
      <3>2. CoveredOK(c)
        BY <2>1, <3>1 DEF OfflineInv
      <3>3. call[c].at # "idle"
        BY <1>4, <2>4, OwnStep
      <3>4. QED
        BY <1>4, <2>1, <2>4, <3>1, <3>2, <3>3, CoveredLookup
    <2>5. QED
      BY <2>2, <2>3, <2>4
  <1>5. ASSUME NEW a \in Callers, Step(a) PROVE OfflineInv'
    BY <1>4, <1>5 DEF OfflineInv
  <1>6. QED
    BY <1>1, <1>2, <1>3, <1>5 DEF Next, Step

\* An offline or offline-first call over a stored entry neither misses nor asks
\* the network, however the entry is being replaced at the time.
THEOREM OfflineServes == Spec => []StoredEntryServesOffline
  <1>1. Init => OfflineInv
    BY DEF Init, OfflineInv, Covered
  <1>2. Inv /\ OfflineInv /\ [Next]_vars => OfflineInv'
    BY OfflineStep
  <1>3. OfflineInv => StoredEntryServesOffline
    BY DEF OfflineInv, Covered, CoveredOK, StoredEntryServesOffline
  <1>4. QED
    BY <1>1, <1>2, <1>3, Invariance, PTL DEF Spec

-----------------------------------------------------------------------------
\* A caller that is alone

\* The metadata it has read is the metadata on disk until it replaces it, so what
\* it returns after a request is behind a whole entry, unless files were changed
\* since it began.
RepairOK(c) ==
    seen[c].before = tampers =>
        /\ call[c].at \in {"exists", "verify"} => call[c].meta = metaFile[call[c].url]
        /\ call[c].at = "request" /\ call[c].cached # None => call[c].meta = metaFile[call[c].url]
        /\ Returned(c) /\ call[c].mode = "revalidate" => Usable(call[c].url)

LEMMA RepairEnd ==
  ASSUME NEW c \in Callers, TypeOK, NEW how, End(c, how), how \notin Digests \/ call[c].mode # "revalidate"
  PROVE  RepairOK(c)'
  <1>1. call'[c].at = "idle" /\ call'[c].mode = call[c].mode /\ outcome'[c] = how
    BY DEF End, Idle, TypeOK
  <1>2. QED
    BY <1>1 DEF RepairOK, Returned

\* A step that leaves the files alone and goes on.
LEMMA RepairContinue ==
  ASSUME NEW c \in Callers, TypeOK, NEW k, Continue(c, k), UNCHANGED <<disk, tampers>>,
         k.at # "idle", k.url = call[c].url,
         k.at \in {"exists", "verify"} \/ (k.at = "request" /\ k.cached # None) => k.meta = metaFile[k.url]
  PROVE  RepairOK(c)'
  <1>1. call'[c] = k /\ metaFile' = metaFile
    BY DEF Continue, TypeOK, disk
  <1>2. QED
    BY <1>1 DEF RepairOK, Returned

LEMMA RepairDecide ==
  ASSUME NEW c \in Callers, Inv, call[c].at # "idle", NEW found, Decide(c, found), UNCHANGED <<disk, tampers>>,
         found # None => call[c].meta = metaFile[call[c].url]
  PROVE  RepairOK(c)'
  <1> DEFINE k == call[c]
  <1>1. TypeOK /\ k \in Calls /\ (k.mode = "revalidate" => k.online)
    BY RunningType DEF Inv, RunningOK
  <1>2. CASE k.online /\ Continue(c, [k EXCEPT !.at = "request", !.cached = found])
    <2> DEFINE next == [k EXCEPT !.at = "request", !.cached = found]
    <2>1. next.at = "request" /\ next.cached = found /\ next.url = k.url /\ next.meta = k.meta
      BY <1>1 DEF Calls
    <2>2. Continue(c, next)
      BY <1>2
    <2> HIDE DEF next
    <2>3. QED
      BY <1>1, <2>1, <2>2, RepairContinue
  <1>3. CASE ~k.online /\ found # None /\ End(c, found)
    BY <1>1, <1>3, RepairEnd
  <1>4. CASE End(c, "cache_miss")
    BY <1>1, <1>4, DigestsAreNoWords, RepairEnd DEF Errors
  <1>5. CASE Continue(c, [k EXCEPT !.at = "read_meta", !.online = TRUE, !.meta = Missing])
    <2> DEFINE next == [k EXCEPT !.at = "read_meta", !.online = TRUE, !.meta = Missing]
    <2>1. next.at = "read_meta" /\ next.url = k.url
      BY <1>1 DEF Calls
    <2>2. Continue(c, next)
      BY <1>5
    <2> HIDE DEF next
    <2>3. QED
      BY <1>1, <2>1, <2>2, RepairContinue
  <1>6. QED
    BY <1>2, <1>3, <1>4, <1>5 DEF Decide

LEMMA RepairLookup ==
  ASSUME Inv, NEW c \in Callers, Lookup(c), RepairOK(c) PROVE RepairOK(c)'
  <1> DEFINE k == call[c]
             m == metaFile[k.url]
  <1>1. k.at # "idle" /\ UNCHANGED <<disk, tampers, seen>>
    BY DEF Lookup, ReadMeta, Exists, Verify, faults
  <1>2. TypeOK /\ k \in Calls /\ \A how \in Errors : how \notin Digests
    BY <1>1, RunningType, DigestsAreNoWords DEF Inv
  <1>2a. CASE seen[c].before # tampers
    <2>1. seen'[c].before # tampers'
      BY <1>1, <1>2a
    <2>2. QED
      BY <2>1 DEF RepairOK
  <1>2b. CASE seen[c].before = tampers
    <2>0. k.at \in {"exists", "verify"} => k.meta = m
      BY <1>2b DEF RepairOK
    <2>1. CASE ReadMeta(c)
      <3>1. CASE Decide(c, None)
        BY <1>1, <3>1, RepairDecide
      <3>2. CASE End(c, "decode_error")
        BY <1>2, <3>2, RepairEnd DEF Errors
      <3>3. CASE Continue(c, [k EXCEPT !.at = "exists", !.meta = m])
        <4> DEFINE next == [k EXCEPT !.at = "exists", !.meta = m]
        <4>1. next.at = "exists" /\ next.url = k.url /\ next.meta = m
          BY <1>2 DEF Calls
        <4>2. Continue(c, next)
          BY <3>3
        <4> HIDE DEF next
        <4>3. QED
          BY <1>1, <1>2, <4>1, <4>2, RepairContinue
      <3>4. QED
        BY <2>1, <3>1, <3>2, <3>3 DEF ReadMeta
    <2>2. CASE Exists(c)
      <3>1. CASE Decide(c, None)
        BY <1>1, <3>1, RepairDecide
      <3>2. CASE Continue(c, [k EXCEPT !.at = "verify"])
        <4> DEFINE next == [k EXCEPT !.at = "verify"]
        <4>1. next.at = "verify" /\ next.url = k.url /\ next.meta = m
          BY <1>2, <2>0, <2>2 DEF Calls, Exists
        <4>2. Continue(c, next)
          BY <3>2
        <4> HIDE DEF next
        <4>3. QED
          BY <1>1, <1>2, <4>1, <4>2, RepairContinue
      <3>3. QED
        BY <2>2, <3>1, <3>2 DEF Exists
    <2>3. CASE Verify(c)
      <3>1. k.meta = m
        BY <2>0, <2>3 DEF Verify
      <3>2. CASE End(c, "os_error")
        BY <1>2, <3>2, RepairEnd DEF Errors
      <3>3. CASE \E found : Decide(c, found)
        BY <1>1, <3>1, <3>3, RepairDecide
      <3>4. QED
        BY <2>3, <3>2, <3>3 DEF Verify
    <2>4. QED
      BY <2>1, <2>2, <2>3 DEF Lookup
  <1>3. QED
    BY <1>2a, <1>2b

LEMMA RepairExchange ==
  ASSUME Inv, NEW c \in Callers, Exchange(c), RepairOK(c) PROVE RepairOK(c)'
  <1> DEFINE k == call[c]
  <1>1. Request(c)
    BY DEF Exchange, Answer304, Answer200, AnswerOtherBody, AnswerRetryable, AnswerError
  <1>2. k.at = "request" /\ UNCHANGED <<disk, tampers>> /\ seen' = [seen EXCEPT ![c].asked = TRUE]
    BY <1>1 DEF Request, faults
  <1>3. /\ TypeOK /\ k \in Calls /\ seen[c] \in Seens /\ RunningOK(k, seen[c])
        /\ \A how \in Errors : how \notin Digests
    BY <1>2, RunningType, DigestsAreNoWords DEF Inv
  <1>4. seen'[c].before = seen[c].before
    BY <1>2, <1>3 DEF TypeOK, Seens
  <1>5. CASE seen[c].before # tampers
    <2>1. seen'[c].before # tampers'
      BY <1>2, <1>4, <1>5
    <2>2. QED
      BY <2>1 DEF RepairOK
  <1>6. CASE seen[c].before = tampers
    <2>0. k.cached # None => k.meta = metaFile[k.url]
      BY <1>2, <1>6 DEF RepairOK
    <2>1. CASE Answer304(c) /\ k.cached # None
      <3>1. k.meta = metaFile[k.url] /\ k.meta.kind = "entry" /\ Whole(k.meta.sha)
        BY <1>2, <1>3, <1>6, <2>0, <2>1 DEF RunningOK
      <3>2. Usable(k.url)
        BY <3>1 DEF Usable, Whole
      <3>3. End(c, k.cached)
        BY <2>1 DEF Answer304
      <3>4. call'[c].url = k.url /\ call'[c].at = "idle"
        BY <1>3, <3>3 DEF End, Idle, TypeOK
      <3>5. Usable(k.url)'
        BY <1>2, <3>2, <3>4 DEF Usable, disk
      <3>6. QED
        BY <3>4, <3>5 DEF RepairOK, Usable
    <2>2. CASE Answer304(c) /\ k.cached = None
      BY <1>3, <2>2, RepairEnd DEF Answer304, Errors
    <2>3. CASE Answer200(c)
      <3>1. PICK next : Continue(c, next) /\ next.at = "store_blob" /\ next.url = k.url
        <4> DEFINE b == content[k.url]
                   next(hs) == [k EXCEPT !.at = "store_blob", !.reply = b,
                                  !.new = [kind |-> "entry", sha |-> Sha256[b],
                                           etag |-> IF "etag" \in hs THEN b ELSE None,
                                           last_modified |-> IF "last_modified" \in hs THEN b ELSE None]]
        <4>1. PICK hs : Continue(c, next(hs))
          BY <2>3 DEF Answer200
        <4>2. next(hs).at = "store_blob" /\ next(hs).url = k.url
          BY <1>3 DEF Calls
        <4>3. QED
          BY <4>1, <4>2
      <3>2. QED
        BY <1>2, <1>3, <3>1, RepairContinue
    <2>4. CASE AnswerOtherBody(c)
      BY <1>3, <2>4, RepairEnd DEF AnswerOtherBody, Errors
    <2>5. CASE AnswerRetryable(c)
      <3>1. CASE End(c, "gave_up")
        BY <1>3, <3>1, RepairEnd DEF Errors
      <3>2. CASE Continue(c, [k EXCEPT !.attempt = @ + 1])
        <4> DEFINE next == [k EXCEPT !.attempt = @ + 1]
        <4>1. next.at = k.at /\ next.url = k.url /\ next.meta = k.meta /\ next.cached = k.cached
          BY <1>3 DEF Calls
        <4>2. Continue(c, next)
          BY <3>2
        <4> HIDE DEF next
        <4>3. QED
          BY <1>2, <1>3, <2>0, <4>1, <4>2, RepairContinue
      <3>3. QED
        BY <2>5, <3>1, <3>2 DEF AnswerRetryable
    <2>6. CASE AnswerError(c)
      BY <1>3, <2>6, RepairEnd DEF AnswerError, Errors
    <2>7. QED
      BY <2>1, <2>2, <2>3, <2>4, <2>5, <2>6 DEF Exchange
  <1>7. QED
    BY <1>5, <1>6

LEMMA RepairStore ==
  ASSUME Inv, NEW c \in Callers, Store(c), RepairOK(c) PROVE RepairOK(c)'
  <1> DEFINE k == call[c]
  <1>1. k.at \in {"store_blob", "store_meta"} /\ UNCHANGED tampers
    BY DEF Store, StoreBlob, StoreMeta, Storing, WriteFails, faults
  <1>2. /\ TypeOK /\ k \in Calls /\ seen[c] \in Seens /\ RunningOK(k, seen[c]) /\ k.url \in Urls
        /\ \A how \in Errors : how \notin Digests
    BY <1>1, RunningType, DigestsAreNoWords DEF Inv
  <1>3. CASE StoreBlob(c)
    <2>1. BlobDone(c)
      BY <1>3 DEF StoreBlob
    <2>2. call'[c].at = "store_meta"
      BY <1>2, <2>1 DEF BlobDone, Continue, TypeOK, Calls
    <2>3. QED
      BY <2>2 DEF RepairOK, Returned
  <1>4. CASE StoreMeta(c)
    <2>1. /\ k.at = "store_meta" /\ metaFile' = [metaFile EXCEPT ![k.url] = k.new] /\ blob' = blob
          /\ End(c, k.new.sha) /\ seen' = [seen EXCEPT ![c].wrote = TRUE]
      BY <1>4 DEF StoreMeta, Storing, PutMeta
    <2>2. call'[c].at = "idle" /\ call'[c].url = k.url
      BY <1>2, <2>1 DEF End, Idle, TypeOK
    <2>3. seen'[c].before = seen[c].before
      BY <1>2, <2>1 DEF TypeOK, Seens
    <2>4. metaFile'[k.url] = k.new /\ k.new.kind = "entry"
      BY <1>2, <2>1 DEF TypeOK, RunningOK
    <2>5. ASSUME seen'[c].before = tampers' PROVE Usable(k.url)'
      <3>1. Whole(k.new.sha)
        BY <1>1, <1>2, <2>1, <2>3, <2>5 DEF RunningOK
      <3>2. PICK new : new = k.new
        OBVIOUS
      <3>3. PICK u : u = k.url
        OBVIOUS
      <3>4. metaFile'[u] = new /\ new.kind = "entry" /\ blob'[new.sha] # None /\ Sha256[blob'[new.sha]] = new.sha
        BY <2>1, <2>4, <3>1, <3>2, <3>3 DEF Whole
      <3>5. call'[c].url = u
        BY <2>2, <3>3
      <3>6. QED
        BY <2>2, <3>3, <3>4, <3>5 DEF Usable
    <2>6. QED
      BY <2>2, <2>5 DEF RepairOK, Usable
  <1>5. CASE WriteFails(c)
    BY <1>2, <1>5, RepairEnd DEF WriteFails, Errors
  <1>6. QED
    BY <1>3, <1>4, <1>5 DEF Store

\* Only the caller's own steps and a change of files can touch it.
LEMMA RepairNext ==
  ASSUME \A c, d \in Callers : c = d, Inv, \A c \in Callers : RepairOK(c), [Next]_vars
  PROVE  \A c \in Callers : RepairOK(c)'
  <1> SUFFICES ASSUME NEW c \in Callers PROVE RepairOK(c)'
    OBVIOUS
  <1>0. TypeOK /\ RepairOK(c) /\ \A how \in Errors : how \notin Digests
    BY DigestsAreNoWords DEF Inv
  <1>1. CASE Begin(c)
    <2>1. call'[c].at = "read_meta"
      BY <1>0, <1>1 DEF Begin, TypeOK, Idle
    <2>2. QED
      BY <2>1 DEF RepairOK, Returned
  <1>2. CASE Crash(c)
    BY <1>0, <1>2, RepairEnd DEF Crash, Errors
  <1>3. CASE Tamper
    <2>1. seen' = seen /\ tampers' = tampers + 1 /\ tampers \in Nat
      BY <1>0, <1>3, BoundsAreNat DEF Tamper, TypeOK
    <2>2. seen[c].before <= tampers /\ seen[c].before \in Nat
      BY <1>0, BoundsAreNat DEF Inv, CallOK, TypeOK, Seens
    <2>3. seen'[c].before # tampers'
      BY <2>1, <2>2
    <2>4. QED
      BY <2>3 DEF RepairOK
  <1>4. CASE \E u \in Urls : Publish(u)
    <2>1. UNCHANGED <<disk, call, outcome, tampers>>
      BY <1>4 DEF Publish, faults
    <2>2. seen'[c].before = seen[c].before
      BY <1>0, <1>4 DEF Publish, TypeOK, Seens
    <2>3. QED
      BY <1>0, <2>1, <2>2 DEF RepairOK, Returned, Usable, disk
  <1>5. CASE UNCHANGED vars
    BY <1>0, <1>5 DEF vars, disk, faults, RepairOK, Returned, Usable
  <1>6. CASE \E d \in Callers : Lookup(d) \/ Exchange(d) \/ Store(d)
    <2>1. Lookup(c) \/ Exchange(c) \/ Store(c)
      BY <1>6
    <2>2. QED
      BY <1>0, <2>1, RepairLookup, RepairExchange, RepairStore
  <1>7. QED
    BY <1>1, <1>2, <1>3, <1>4, <1>5, <1>6 DEF Next

\* On any URLs, with any pins, validators and damage: after an online call of the
\* only caller there is a whole entry ("corrupted cache; force re-download").
THEOREM SoleCallRepairs ==
  ASSUME \A c, d \in Callers : c = d PROVE Spec => []OnlineCallRepairs
  <1> DEFINE AllOK == \A c \in Callers : RepairOK(c)
  <1>1. Init => AllOK
    BY DigestsAreNoWords DEF Init, Idle, RepairOK, Returned
  <1>2. Inv /\ AllOK /\ [Next]_vars => AllOK'
    BY RepairNext
  <1>3. AllOK => OnlineCallRepairs
    BY DEF RepairOK, OnlineCallRepairs
  <1>4. QED
    BY <1>1, <1>2, <1>3, Invariance, PTL DEF Spec

-----------------------------------------------------------------------------
\* Refinement

LEMMA PromiseInit == Init => Promise!Init
  <1> SUFFICES ASSUME Init PROVE Promise!Init
    OBVIOUS
  <1>1. \A c \in Callers :
          /\ call[c] = Idle /\ outcome[c] = "none" /\ seen[c].window = {}
    BY DEF Init
  <1>2. \A c \in Callers : Answer(c) = "idle"
    BY <1>1 DEF Answer, Idle
  <1>3. \A c \in Callers :
          [url |-> call[c].url, mode |-> call[c].mode, pin |-> call[c].pin] = Promise!NoAsk
    BY <1>1 DEF Idle, Promise!NoAsk
  <1>4. QED
    BY <1>1, <1>2, <1>3 DEF Init, Promise!Init

LEMMA PromiseBegin ==
  ASSUME Inv, NEW c \in Callers, Begin(c)
  PROVE  Promise!Ask(c)
  <1>1. PICK u \in Urls, m \in Modes, p \in Pins :
          /\ call' = [call EXCEPT ![c] = [Idle EXCEPT !.at = "read_meta", !.url = u,
                !.mode = m, !.pin = p, !.online = (m = "revalidate")]]
          /\ seen' = [seen EXCEPT ![c] = [window |-> {content[u]}, hit |-> Usable(u),
                asked |-> FALSE, wrote |-> FALSE, before |-> tampers]]
    BY DEF Begin
  <1> DEFINE a == [url |-> u, mode |-> m, pin |-> p]
  <1>2. /\ \A o \in Callers \ {c} :
              call'[o] = call[o] /\ seen'[o] = seen[o] /\ outcome'[o] = outcome[o]
        /\ UNCHANGED <<content, served>>
    BY OneCaller DEF Step, publisher
  <1>3. /\ call'[c] = [Idle EXCEPT !.at = "read_meta", !.url = u, !.mode = m, !.pin = p,
                                   !.online = (m = "revalidate")]
        /\ seen'[c].window = {content[u]}
    BY <1>1 DEF Inv, TypeOK
  <1>4. call'[c].at = "read_meta" /\ call'[c].url = u /\ call'[c].mode = m /\ call'[c].pin = p
    BY <1>3 DEF Idle
  <1>5. Answer(c) # "pending" /\ Answer(c)' = "pending"
    <2>1. call[c].at = "idle"
      BY DEF Begin
    <2>2. outcome[c] \in Digests => outcome[c] # "pending"
      BY DigestsAreNoWords
    <2>3. outcome[c] \in Errors \cup {"none"} \cup Digests
      BY DEF Inv, TypeOK
    <2>4. QED
      BY <1>4, <2>1, <2>2, <2>3 DEF Answer
  <1>6. \A o \in Callers \ {c} : Answer(o)' = Answer(o)
    BY <1>2 DEF Answer
  <1>7. a \in Promise!Asks /\ a.url = u
    BY DEF Promise!Asks, Modes, Promise!Modes
  <1>8. /\ [o \in Callers |-> [url |-> call[o].url, mode |-> call[o].mode, pin |-> call[o].pin]]'
             = [[o \in Callers |-> [url |-> call[o].url, mode |-> call[o].mode, pin |-> call[o].pin]]
                  EXCEPT ![c] = a]
        /\ [o \in Callers |-> seen[o].window]'
             = [[o \in Callers |-> seen[o].window] EXCEPT ![c] = {content[a.url]}]
    <2>1. \A o \in Callers : [url |-> call'[o].url, mode |-> call'[o].mode, pin |-> call'[o].pin]
             = IF o = c THEN a ELSE [url |-> call[o].url, mode |-> call[o].mode, pin |-> call[o].pin]
      BY <1>2, <1>4
    <2>2. \A o \in Callers : seen'[o].window = IF o = c THEN {content[a.url]} ELSE seen[o].window
      BY <1>2, <1>3, <1>7
    <2> HIDE DEF a
    <2> QED
      BY <2>1, <2>2
  <1>9. [o \in Callers |-> Answer(o)]' = [[o \in Callers |-> Answer(o)] EXCEPT ![c] = "pending"]
    BY <1>5, <1>6
  <1>10. QED
    BY <1>2, <1>5, <1>7, <1>8, <1>9 DEF Promise!Ask

\* A running call's step is a delivery, a failure or a stutter of Fetching.
LEMMA PromiseStep ==
  ASSUME Inv, Inv', NEW c \in Callers, Step(c), ~Begin(c)
  PROVE  Promise!Deliver(c) \/ Promise!Fail(c) \/ UNCHANGED Promise!vars
  <1>1. /\ \A o \in Callers \ {c} :
              call'[o] = call[o] /\ seen'[o] = seen[o] /\ outcome'[o] = outcome[o]
        /\ UNCHANGED <<content, served>>
    BY OneCaller DEF publisher
  <1>2. /\ call[c].at # "idle"
        /\ call'[c].url = call[c].url /\ call'[c].mode = call[c].mode /\ call'[c].pin = call[c].pin
        /\ seen'[c].window = seen[c].window
        /\ call'[c].at # "idle" \/ outcome'[c] \in Errors \cup Digests
    BY OwnStep
  <1>3. /\ [o \in Callers |-> [url |-> call[o].url, mode |-> call[o].mode, pin |-> call[o].pin]]'
             = [o \in Callers |-> [url |-> call[o].url, mode |-> call[o].mode, pin |-> call[o].pin]]
        /\ [o \in Callers |-> seen[o].window]' = [o \in Callers |-> seen[o].window]
    BY <1>1, <1>2
  <1>4. Answer(c) = "pending" /\ \A o \in Callers \ {c} : Answer(o)' = Answer(o)
    BY <1>1, <1>2 DEF Answer
  <1>5. CASE call'[c].at # "idle"
    <2>1. Answer(c)' = "pending"
      BY <1>5 DEF Answer
    <2>2. [o \in Callers |-> Answer(o)]' = [o \in Callers |-> Answer(o)]
      BY <1>4, <2>1
    <2>3. QED
      BY <1>1, <1>3, <2>2 DEF Promise!vars
  <1>6. CASE call'[c].at = "idle" /\ outcome'[c] \in Errors
    <2>1. Answer(c)' = "failed"
      BY <1>6 DEF Answer, Errors
    <2>2. [o \in Callers |-> Answer(o)]' = [[o \in Callers |-> Answer(o)] EXCEPT ![c] = "failed"]
      BY <1>4, <2>1
    <2>3. QED
      BY <1>1, <1>3, <1>4, <2>2 DEF Promise!Fail
  <1>7. CASE call'[c].at = "idle" /\ outcome'[c] \in Digests
    <2>1. Answer(c)' = outcome'[c]
      BY <1>7, DigestsAreNoWords DEF Answer
    <2>2. [o \in Callers |-> Answer(o)]' = [[o \in Callers |-> Answer(o)] EXCEPT ![c] = outcome'[c]]
      BY <1>4, <2>1
    <2>3. ReturnedOK(call[c], seen[c], outcome[c])'
      BY <1>7 DEF Inv, CallOK
    <2>4. PICK b \in IF call[c].mode = "revalidate" THEN seen[c].window ELSE served[call[c].url] :
            outcome'[c] = Sha256[b]
      BY <1>1, <1>2, <2>3 DEF ReturnedOK
    <2>5. b \in Promise!Acceptable(c)
      BY <1>1, <1>2, <2>3, <2>4 DEF Promise!Acceptable, ReturnedOK, PinAllows
    <2>6. QED
      BY <1>1, <1>3, <1>4, <2>2, <2>4, <2>5 DEF Promise!Deliver
  <1>8. QED
    BY <1>2, <1>5, <1>6, <1>7

LEMMA PromisePublish ==
  ASSUME Inv, NEW u \in Urls, Publish(u)
  PROVE  Promise!Publish(u)
  <1>1. PICK b \in Bodies :
        /\ content' = [content EXCEPT ![u] = b]
        /\ served' = [served EXCEPT ![u] = @ \cup {b}]
        /\ seen' = [c \in Callers |->
              IF call[c].at # "idle" /\ call[c].url = u
              THEN [seen[c] EXCEPT !.window = @ \cup {b}] ELSE seen[c]]
    BY DEF Publish
  <1>2. UNCHANGED <<call, outcome>>
    BY DEF Publish
  <1>3. \A c \in Callers : Answer(c)' = Answer(c)
    BY <1>2 DEF Answer
  <1>4. \A c \in Callers : (Answer(c) = "pending") = (call[c].at # "idle")
    <2>1. \A c \in Callers : outcome[c] \in Errors \cup {"none"} \cup Digests
      BY DEF Inv, TypeOK
    <2>2. "pending" \notin Digests
      BY DigestsAreNoWords
    <2>3. QED
      BY <2>1, <2>2 DEF Answer
  <1>5. \A c \in Callers : seen'[c].window =
          IF Answer(c) = "pending" /\ call[c].url = u
          THEN seen[c].window \cup {b} ELSE seen[c].window
    BY <1>1, <1>4 DEF Inv, TypeOK, Seens
  <1>6. QED
    BY <1>1, <1>2, <1>3, <1>5 DEF Promise!Publish

LEMMA PromiseNext == Inv /\ Inv' /\ [Next]_vars => [Promise!Next]_Promise!vars
  <1> SUFFICES ASSUME Inv, Inv', [Next]_vars PROVE Promise!Next \/ UNCHANGED Promise!vars
    OBVIOUS
  <1>1. ASSUME NEW c \in Callers, Step(c) PROVE Promise!Next \/ UNCHANGED Promise!vars
    BY <1>1, PromiseBegin, PromiseStep DEF Promise!Next
  <1>2. ASSUME NEW u \in Urls, Publish(u) PROVE Promise!Next \/ UNCHANGED Promise!vars
    BY <1>2, PromisePublish DEF Promise!Next
  <1>3. CASE Tamper \/ UNCHANGED vars
    BY <1>3 DEF Tamper, vars, publisher, Promise!vars, Answer
  <1>4. QED
    BY <1>1, <1>2, <1>3 DEF Next, Step

\* The cache hands out bodies as Fetching promises: to every behaviour of the
\* cache, crashes and damage included, there is one of Fetching with the same
\* questions, answers and publications.
THEOREM Implements == Spec => PromiseKept
  <1>1. Init => Promise!Init
    BY PromiseInit
  <1>2. Inv /\ Inv' /\ [Next]_vars => [Promise!Next]_Promise!vars
    BY PromiseNext
  <1>3. QED
    BY <1>1, <1>2, Invariance, PTL DEF Spec, PromiseKept, Promise!Spec
=============================================================================
