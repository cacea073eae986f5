------------------------ MODULE ParameterCacheProofs ------------------------
(***************************************************************************)
(* Proofs about ParameterCache.tla: type correctness, the invariant behind *)
(* its safety properties, and that it implements Fetching.tla as the       *)
(* download cache does.                                                    *)
(*                                                                         *)
(* There are no validators here, so the invariant is about digests only:   *)
(* a metadata file, a reader's snapshot of one and a returned digest name  *)
(* tables the host sent for that key.  What is new is the last leg, from   *)
(* the digest that is returned to the bytes that are parsed: it needs the  *)
(* digests to be free of collisions.                                       *)
(***************************************************************************)
EXTENDS ParameterCache, TLAPS

Outcomes == Errors \cup {"none"} \cup Digests
Parses == Contents \cup {None, "no_file"}

Whole(d) == blob[d] # None /\ Sha256[blob[d]] = d

\* Metadata m names a table of S.
Names(m, S) == m.kind \in {"no_timestamp", "entry"} => \E b \in S : m.sha = Sha256[b]

\* What holds of a call k, with history s, that has not ended.
RunningOK(k, s) ==
    /\ k.key \in Keys
    /\ content[k.key] \in s.window
    /\ k.at \in {"read_meta", "verify"} => ~k.refresh
    /\ k.at = "verify" =>
          k.meta.kind \in {"no_timestamp", "entry"} /\ Names(k.meta, sent[k.key])
    /\ k.at \in {"store_blob", "store_meta"} => k.reply \in s.window
    /\ k.at = "store_meta" /\ s.before = tampers => Whole(Sha256[k.reply])
    /\ s.wrote => k.at = "store_meta"

\* What holds of a call that returned the digest o and whose reader parsed p.
ReturnedOK(k, s, o, p) ==
    /\ k.key \in Keys
    /\ \E b \in IF k.refresh THEN s.window ELSE sent[k.key] : o = Sha256[b]
    /\ s.before = tampers =>
          Whole(o) /\ (p # None => p \in Bodies /\ Sha256[p] = o)

CallOK(k, s, o, p) ==
    /\ k.key \in Keys => s.window \subseteq sent[k.key]
    /\ s.before <= tampers
    /\ k.at \in Running => RunningOK(k, s) /\ o = "none" /\ p = None
    /\ k.at = "parse" => o \in Digests /\ p = None
    /\ o \in Digests => ReturnedOK(k, s, o, p)
    /\ o \in Errors \ {"write_error", "crashed"} => ~s.wrote

Inv ==
    /\ TypeOK
    /\ \A k \in Keys : content[k] \in sent[k] /\ Names(metaFile[k], sent[k])
    /\ tampers = 0 => \A k \in Keys :
          \/ metaFile[k].kind = "missing"
          \/ metaFile[k].kind = "entry" /\ Whole(metaFile[k].sha)
    /\ \A r \in Readers : CallOK(call[r], seen[r], outcome[r], parsed[r])

-----------------------------------------------------------------------------
\* Records

LEMMA MissingIsMeta == Missing \in Metas /\ Missing.kind = "missing"
  BY DEF Missing, Metas, MetaKinds

LEMMA IdleIsCall == Idle \in Calls
  BY MissingIsMeta DEF Idle, Calls, Running, Credentials

LEMMA AskIsCall ==
  ASSUME TypeOK, NEW r \in Readers, NEW step \in Running \cup {"parse", "idle"}
  PROVE  /\ Ask(r, step) \in Calls
         /\ Ask(r, step).at = step
         /\ Ask(r, step).key = call[r].key
         /\ Ask(r, step).refresh = call[r].refresh
  <1>1. call[r] \in Calls
    BY DEF TypeOK
  <1>2. QED
    BY <1>1, IdleIsCall DEF Ask, Calls, Idle

LEMMA InitInv == Init => Inv
  <1> SUFFICES ASSUME Init PROVE Inv
    OBVIOUS
  <1>1. TypeOK
    BY MissingIsMeta, IdleIsCall, BoundsAreNat DEF Init, TypeOK, Seens
  <1>2. \A k \in Keys : content[k] \in sent[k] /\ Names(metaFile[k], sent[k])
    BY MissingIsMeta DEF Init, Names
  <1>3. \A k \in Keys : metaFile[k].kind = "missing"
    BY MissingIsMeta DEF Init
  <1>4. ASSUME NEW r \in Readers PROVE CallOK(call[r], seen[r], outcome[r], parsed[r])
    <2>1. /\ call[r].at = "idle" /\ call[r].key = None /\ outcome[r] = "none"
          /\ seen[r].before = 0 /\ tampers = 0
      BY <1>4 DEF Init, Idle
    <2>2. "none" \notin Digests /\ "none" \notin Errors /\ "idle" \notin Running
      BY DigestsAreNoWords DEF Errors, Running
    <2>3. QED
      BY <2>1, <2>2, NoneIsNothing DEF CallOK
  <1>5. QED
    BY <1>1, <1>2, <1>3, <1>4 DEF Inv

-----------------------------------------------------------------------------
\* One reader's step

\* What an unfinished call may rely on.
LEMMA RunningType ==
  ASSUME Inv, NEW r \in Readers, call[r].at \in Running
  PROVE  /\ call[r] \in Calls /\ seen[r] \in Seens
         /\ RunningOK(call[r], seen[r]) /\ outcome[r] = "none" /\ parsed[r] = None
         /\ call[r].key \in Keys /\ metaFile[call[r].key] \in Metas
         /\ content[call[r].key] \in Bodies
         /\ call[r].at = "verify" => call[r].meta.sha \in Digests
         /\ call[r].at \in {"store_blob", "store_meta"} =>
               call[r].reply \in Bodies /\ Sha256[call[r].reply] \in Digests
  <1>1. /\ call[r] \in Calls /\ seen[r] \in Seens
        /\ RunningOK(call[r], seen[r]) /\ outcome[r] = "none" /\ parsed[r] = None
    BY DEF Inv, TypeOK, CallOK
  <1>2. /\ call[r].key \in Keys /\ metaFile[call[r].key] \in Metas
        /\ content[call[r].key] \in Bodies /\ sent[call[r].key] \subseteq Bodies
    BY <1>1 DEF RunningOK, Inv, TypeOK
  <1>3. \A b \in Bodies : Sha256[b] \in Digests
    BY CollisionFree DEF Contents
  <1>4. QED
    BY <1>1, <1>2, <1>3 DEF RunningOK, Names, Seens

\* A step of reader r that leaves the hosts and the other readers alone and keeps
\* whole blobs whole.
LEMMA ReaderStep ==
  ASSUME Inv, TypeOK', NEW r \in Readers,
         UNCHANGED <<content, sent, tampers>>,
         \A d \in Digests : Whole(d) => Whole(d)',
         \A k \in Keys : Names(metaFile[k], sent[k])',
         tampers = 0 => \A k \in Keys :
             (\/ metaFile[k].kind = "missing"
              \/ metaFile[k].kind = "entry" /\ Whole(metaFile[k].sha))',
         \A o \in Readers \ {r} :
             /\ call'[o] = call[o] /\ seen'[o] = seen[o]
             /\ outcome'[o] = outcome[o] /\ parsed'[o] = parsed[o],
         CallOK(call[r], seen[r], outcome[r], parsed[r])'
  PROVE  Inv'
  <1>1. ASSUME NEW o \in Readers \ {r}
        PROVE  CallOK(call[o], seen[o], outcome[o], parsed[o])'
    <2>1. CallOK(call[o], seen[o], outcome[o], parsed[o])
      BY DEF Inv
    <2>2. ASSUME RunningOK(call[o], seen[o]), call[o].at \in Running
          PROVE  RunningOK(call[o], seen[o])'
      <3>1. call[o].at = "store_meta" => Sha256[call[o].reply] \in Digests
        BY <2>2, RunningType
      <3>2. QED
        BY <2>2, <3>1 DEF RunningOK
    <2>3. ASSUME ReturnedOK(call[o], seen[o], outcome[o], parsed[o]), outcome[o] \in Digests
          PROVE  ReturnedOK(call[o], seen[o], outcome[o], parsed[o])'
      BY <2>3 DEF ReturnedOK
    <2>4. QED
      BY <2>1, <2>2, <2>3 DEF CallOK
  <1>2. QED
    BY <1>1 DEF Inv

\* A step that changes no file: the reader's new locals, history, outcome and parsed
\* bytes have only to be right for the files as they are.
LEMMA QuietStep ==
  ASSUME Inv, NEW r \in Readers,
         NEW k \in Calls, NEW s \in Seens, NEW o \in Outcomes, NEW p \in Parses,
         call' = [call EXCEPT ![r] = k], seen' = [seen EXCEPT ![r] = s],
         outcome' = [outcome EXCEPT ![r] = o], parsed' = [parsed EXCEPT ![r] = p],
         UNCHANGED <<hosts, disk, tampers>>, crashes' \in 0..MaxCrashes,
         CallOK(k, s, o, p)
  PROVE  Inv'
  <1>1. UNCHANGED <<content, sent, blob, metaFile, tampers>>
    BY DEF hosts, disk
  <1>2. /\ call' \in [Readers -> Calls] /\ seen' \in [Readers -> Seens]
        /\ outcome' \in [Readers -> Outcomes] /\ parsed' \in [Readers -> Parses]
    BY DEF Inv, TypeOK, Outcomes, Parses
  <1>3. TypeOK'
    BY <1>1, <1>2 DEF Inv, TypeOK, Outcomes, Parses
  <1>4. call'[r] = k /\ seen'[r] = s /\ outcome'[r] = o /\ parsed'[r] = p
    BY DEF Inv, TypeOK
  <1>5. CallOK(call[r], seen[r], outcome[r], parsed[r])'
    BY <1>1, <1>4 DEF CallOK, RunningOK, ReturnedOK, Whole
  <1>6. \A x \in Readers \ {r} :
          /\ call'[x] = call[x] /\ seen'[x] = seen[x]
          /\ outcome'[x] = outcome[x] /\ parsed'[x] = parsed[x]
    BY DEF Inv, TypeOK
  <1>7. /\ \A d \in Digests : Whole(d) => Whole(d)'
        /\ \A x \in Keys : Names(metaFile[x], sent[x])'
        /\ tampers = 0 => \A x \in Keys :
             (\/ metaFile[x].kind = "missing"
              \/ metaFile[x].kind = "entry" /\ Whole(metaFile[x].sha))'
    BY <1>1 DEF Inv, Whole
  <1>8. QED
    BY <1>1, <1>3, <1>5, <1>6, <1>7, ReaderStep

\* What becomes of the history in a step that writes no file.
Asked(r, s) == s = seen[r] \/ s = [seen[r] EXCEPT !.asked = TRUE]

LEMMA AskedSeen ==
  ASSUME TypeOK, NEW r \in Readers, NEW s, Asked(r, s)
  PROVE  /\ s \in Seens /\ s.window = seen[r].window /\ s.before = seen[r].before
         /\ s.wrote = seen[r].wrote /\ s.hit = seen[r].hit
  BY DEF Asked, TypeOK, Seens

LEMMA QuietRaise ==
  ASSUME Inv, NEW r \in Readers, call[r].at \in Running,
         NEW how \in Errors, Raise(r, how), NEW s, Asked(r, s), seen' = [seen EXCEPT ![r] = s],
         UNCHANGED <<hosts, disk, parsed, tampers>>, crashes' \in 0..MaxCrashes,
         how \in {"write_error", "crashed"} \/ ~seen[r].wrote
  PROVE  Inv'
  <1> DEFINE k == Ask(r, "idle")
  <1>1. k \in Calls /\ k.at = "idle" /\ k.key = call[r].key
    BY AskIsCall DEF Inv
  <1>2. s \in Seens /\ s.window = seen[r].window /\ s.before = seen[r].before /\ s.wrote = seen[r].wrote
    BY AskedSeen DEF Inv
  <1>3. call' = [call EXCEPT ![r] = k] /\ outcome' = [outcome EXCEPT ![r] = how]
    BY DEF Raise
  <1>4. parsed[r] \in Parses /\ parsed' = [parsed EXCEPT ![r] = parsed[r]]
    BY DEF Inv, TypeOK, Parses
  <1>5. CallOK(k, s, how, parsed[r])
    BY <1>1, <1>2, DigestsAreNoWords DEF Inv, CallOK, Running
  <1>6. QED
    BY <1>1, <1>2, <1>3, <1>4, <1>5, QuietStep DEF Outcomes

LEMMA QuietContinue ==
  ASSUME Inv, NEW r \in Readers, call[r].at \in Running,
         NEW k \in Calls, Continue(r, k), k.key = call[r].key, k.at \in Running,
         NEW s, Asked(r, s), seen' = [seen EXCEPT ![r] = s],
         UNCHANGED <<hosts, disk, parsed, faults>>,
         RunningOK(k, seen[r])
  PROVE  Inv'
  <1>1. s \in Seens /\ s.window = seen[r].window /\ s.before = seen[r].before /\ s.wrote = seen[r].wrote
    BY AskedSeen DEF Inv
  <1>2. /\ call' = [call EXCEPT ![r] = k]
        /\ outcome' = [outcome EXCEPT ![r] = outcome[r]]
        /\ parsed' = [parsed EXCEPT ![r] = parsed[r]]
    BY DEF Continue, Inv, TypeOK
  <1>3. outcome[r] = "none" /\ parsed[r] = None
    BY RunningType
  <1>4. CallOK(k, s, "none", None)
    <2>1. RunningOK(k, s)
      BY <1>1 DEF RunningOK
    <2>2. "none" \notin Digests \cup Errors /\ k.at # "parse"
      BY DigestsAreNoWords DEF Errors, Running
    <2>3. QED
      BY <1>1, <2>1, <2>2 DEF CallOK, Inv
  <1>5. "none" \in Outcomes /\ None \in Parses
    BY DEF Outcomes, Parses
  <1>6. UNCHANGED <<hosts, disk, tampers>> /\ crashes' \in 0..MaxCrashes
    BY DEF faults, Inv, TypeOK
  <1>7. QED
    BY <1>1, <1>2, <1>3, <1>4, <1>5, <1>6, QuietStep

-----------------------------------------------------------------------------
\* The actions

LEMMA BeginStep ==
  ASSUME Inv, NEW r \in Readers, Begin(r)
  PROVE  Inv'
  <1>1. PICK key \in Keys, refresh \in BOOLEAN, found \in Credentials :
        /\ call' = [call EXCEPT ![r] = [Idle EXCEPT
              !.at = FirstStep(refresh),
              !.key = key, !.refresh = refresh, !.credentials = found]]
        /\ seen' = [seen EXCEPT ![r] = [window |-> {content[key]}, hit |-> Usable(key),
                        asked |-> FALSE, wrote |-> FALSE, before |-> tampers]]
    BY DEF Begin
  <1> DEFINE k == [Idle EXCEPT !.at = FirstStep(refresh), !.key = key,
                               !.refresh = refresh, !.credentials = found]
             s == [window |-> {content[key]}, hit |-> Usable(key),
                   asked |-> FALSE, wrote |-> FALSE, before |-> tampers]
  <1>2. k \in Calls /\ k.at = FirstStep(refresh) /\ k.key = key /\ k.refresh = refresh
    BY IdleIsCall DEF Calls, Idle, FirstStep, Running
  <1>3. s \in Seens
    BY DEF Seens, Usable, Inv, TypeOK
  <1>4. k.at \in {"read_meta", "fetch"} /\ (k.at = "read_meta" => ~k.refresh)
    BY <1>2 DEF FirstStep
  <1>5. content[key] \in sent[key] /\ tampers \in Nat
    BY BoundsAreNat DEF Inv, TypeOK
  <1>6. RunningOK(k, s)
    BY <1>2, <1>4 DEF RunningOK
  <1>7. "none" \notin Digests \cup Errors
    BY DigestsAreNoWords DEF Errors
  <1>8. CallOK(k, s, "none", None)
    BY <1>2, <1>4, <1>5, <1>6, <1>7 DEF CallOK
  <1>9. /\ outcome' = [outcome EXCEPT ![r] = "none"] /\ parsed' = [parsed EXCEPT ![r] = None]
        /\ UNCHANGED <<hosts, disk, tampers>> /\ crashes' \in 0..MaxCrashes
    BY DEF Begin, faults, Inv, TypeOK
  <1>10. QED
    BY <1>1, <1>2, <1>3, <1>8, <1>9, QuietStep DEF Outcomes, Parses

LEMMA LookupStep ==
  ASSUME Inv, NEW r \in Readers, Lookup(r)
  PROVE  Inv'
  <1> DEFINE k == call[r]
             m == metaFile[k.key]
  <1>1. /\ k.at \in {"read_meta", "verify"} /\ k.at \in Running
        /\ UNCHANGED <<hosts, disk, parsed, seen, faults>>
    BY DEF Lookup, ReadMeta, Verify, Running
  <1>2. /\ k \in Calls /\ RunningOK(k, seen[r]) /\ k.key \in Keys /\ m \in Metas
        /\ k.at = "verify" => k.meta.sha \in Digests
    BY <1>1, RunningType
  <1>3. Asked(r, seen[r]) /\ seen' = [seen EXCEPT ![r] = seen[r]]
    BY <1>1 DEF Asked, Inv, TypeOK
  <1>4. CASE Miss(r)
    <2> DEFINE n == [k EXCEPT !.at = "fetch", !.meta = Missing]
    <2>1. n \in Calls /\ n.at = "fetch" /\ n.key = k.key
      BY <1>2, MissingIsMeta DEF Calls, Running
    <2>2. RunningOK(n, seen[r])
      BY <1>1, <1>2, <2>1 DEF RunningOK
    <2>3. QED
      BY <1>1, <1>3, <1>4, <2>1, <2>2, QuietContinue DEF Miss, Running
  <1>5. CASE ReadMeta(r) /\ ~Miss(r)
    <2> DEFINE n == [k EXCEPT !.at = "verify", !.meta = m]
    <2>1. m.kind \in {"no_timestamp", "entry"} /\ Continue(r, n) /\ k.at = "read_meta"
      BY <1>5 DEF ReadMeta
    <2>2. /\ n \in Calls /\ n.at = "verify" /\ n.key = k.key /\ n.meta = m
          /\ n.refresh = k.refresh
      BY <1>2 DEF Calls, Running
    <2>3. Names(m, sent[k.key])
      BY <1>2 DEF Inv
    <2>4. RunningOK(n, seen[r])
      BY <1>1, <1>2, <2>1, <2>2, <2>3 DEF RunningOK
    <2>5. QED
      BY <1>1, <1>3, <2>1, <2>2, <2>4, QuietContinue DEF Running
  <1>6. CASE Verify(r) /\ ~Miss(r)
    <2> DEFINE d == k.meta.sha
               n == Ask(r, "parse")
    <2>1. k.at = "verify" /\ Hit(k.meta) /\ Return(r, d)
      BY <1>6 DEF Verify
    <2>2. d \in Digests /\ Whole(d) /\ k.meta.kind = "entry"
      BY <1>2, <2>1 DEF Hit, Whole
    <2>3. n \in Calls /\ n.at = "parse" /\ n.key = k.key /\ n.refresh = k.refresh
      BY AskIsCall DEF Inv
    <2>4. ReturnedOK(n, seen[r], d, None)
      BY <1>2, <2>1, <2>2, <2>3 DEF ReturnedOK, RunningOK, Names
    <2>5. CallOK(n, seen[r], d, None)
      BY <2>2, <2>3, <2>4, DigestsAreNoWords DEF CallOK, Inv, Running
    <2>6. parsed' = [parsed EXCEPT ![r] = None]
      BY <1>1, RunningType DEF Inv, TypeOK
    <2>7. QED
      <3>1. call' = [call EXCEPT ![r] = n] /\ outcome' = [outcome EXCEPT ![r] = d]
        BY <2>1 DEF Return
      <3>2. d \in Outcomes /\ None \in Parses /\ seen[r] \in Seens
        BY <2>2 DEF Outcomes, Parses, Inv, TypeOK
      <3>3. UNCHANGED <<hosts, disk, tampers>> /\ crashes' \in 0..MaxCrashes
        BY <1>1 DEF faults, Inv, TypeOK
      <3>4. QED
        BY <1>3, <2>3, <2>5, <2>6, <3>1, <3>2, <3>3, QuietStep
  <1>7. QED
    BY <1>4, <1>5, <1>6 DEF Lookup

LEMMA FetchStep ==
  ASSUME Inv, NEW r \in Readers, Fetch(r)
  PROVE  Inv'
  <1> DEFINE k == call[r]
             b == content[k.key]
  <1>1. /\ k.at = "fetch" /\ k.at \in Running
        /\ UNCHANGED <<hosts, disk, parsed, faults>>
        /\ UNCHANGED tampers /\ crashes' \in 0..MaxCrashes
    BY DEF Fetch, NoCredentials, AnswerTable, AnswerError, AnswerEmpty, Request, Running,
           faults, Inv, TypeOK
  <1>2. PICK s : Asked(r, s) /\ seen' = [seen EXCEPT ![r] = s]
    <2>1. CASE seen' = seen
      BY <2>1 DEF Asked, Inv, TypeOK
    <2>2. CASE seen' = [seen EXCEPT ![r].asked = TRUE]
      BY <2>2 DEF Asked
    <2>3. QED
      BY <2>1, <2>2 DEF Fetch, NoCredentials, AnswerTable, AnswerError, AnswerEmpty, Request
  <1>3. k \in Calls /\ RunningOK(k, seen[r]) /\ b \in Bodies
    BY <1>1, RunningType
  <1>4. ~seen[r].wrote /\ b \in seen[r].window
    BY <1>1, <1>3 DEF RunningOK
  <1>5. ASSUME NEW how \in Errors, Raise(r, how) PROVE Inv'
    BY <1>1, <1>2, <1>4, <1>5, QuietRaise
  <1>6. CASE AnswerTable(r)
    <2> DEFINE n == [k EXCEPT !.at = "store_blob", !.reply = b]
    <2>1. n \in Calls /\ n.at = "store_blob" /\ n.key = k.key /\ n.reply = b
      BY <1>3 DEF Calls, Running
    <2>2. RunningOK(n, seen[r])
      BY <1>1, <1>3, <1>4, <2>1 DEF RunningOK
    <2>3. Continue(r, n)
      BY <1>6 DEF AnswerTable
    <2>4. QED
      BY <1>1, <1>2, <2>1, <2>2, <2>3, QuietContinue DEF Running
  <1>7. QED
    BY <1>5, <1>6 DEF Fetch, NoCredentials, AnswerError, AnswerEmpty, Errors

LEMMA StoreBlobStep ==
  ASSUME Inv, NEW r \in Readers, StoreBlob(r)
  PROVE  Inv'
  <1> DEFINE k == call[r]
             d == Sha256[k.reply]
             n == [k EXCEPT !.at = "store_meta"]
  <1>1. /\ k.at = "store_blob" /\ k.at \in Running
        /\ seen' = [seen EXCEPT ![r].wrote = TRUE]
        /\ blob' = [blob EXCEPT ![d] = k.reply]
        /\ call' = [call EXCEPT ![r] = n]
        /\ UNCHANGED <<content, sent, metaFile, outcome, parsed, tampers, crashes>>
    BY DEF StoreBlob, Storing, PutBlob, BlobDone, Continue, hosts, faults, Running
  <1>2. /\ k \in Calls /\ seen[r] \in Seens /\ RunningOK(k, seen[r])
        /\ k.reply \in Bodies /\ d \in Digests /\ outcome[r] = "none" /\ parsed[r] = None
    BY <1>1, RunningType
  <1>3. k.reply \in Contents /\ k.reply # None
    BY <1>2, NoneIsNothing DEF Contents
  <1>4. \A x \in Digests : Whole(x) \/ x = d => Whole(x)'
    BY <1>1, <1>2, <1>3 DEF Whole, Inv, TypeOK
  <1>5. n \in Calls /\ n.at = "store_meta" /\ n.key = k.key /\ n.reply = k.reply
    BY <1>2 DEF Calls, Running
  <1>6. /\ seen' \in [Readers -> Seens]
        /\ seen'[r].window = seen[r].window /\ seen'[r].before = seen[r].before
        /\ seen'[r].wrote /\ \A o \in Readers \ {r} : seen'[o] = seen[o]
    BY <1>1 DEF Inv, TypeOK, Seens
  <1>7. call' \in [Readers -> Calls] /\ call'[r] = n /\ \A o \in Readers \ {r} : call'[o] = call[o]
    BY <1>1, <1>5 DEF Inv, TypeOK
  <1>8. RunningOK(call[r], seen[r])'
    BY <1>1, <1>2, <1>4, <1>5, <1>6, <1>7 DEF RunningOK
  <1>9. CallOK(call[r], seen[r], outcome[r], parsed[r])'
    <2>1. "none" \notin Digests \cup Errors
      BY DigestsAreNoWords DEF Errors
    <2>2. QED
      BY <1>1, <1>2, <1>5, <1>6, <1>7, <1>8, <2>1 DEF CallOK, Inv
  <1>10. TypeOK'
    BY <1>1, <1>2, <1>3, <1>6, <1>7 DEF Inv, TypeOK
  <1>11. \A x \in Keys : metaFile[x].kind = "entry" => metaFile[x].sha \in Digests
    <2>1. \A x \in Keys : \A b \in sent[x] : Sha256[b] \in Digests
      BY CollisionFree DEF Inv, TypeOK, Contents
    <2>2. QED
      BY <2>1 DEF Inv, Names
  <1>12. /\ \A x \in Keys : Names(metaFile[x], sent[x])'
         /\ tampers = 0 => \A x \in Keys :
             (\/ metaFile[x].kind = "missing"
              \/ metaFile[x].kind = "entry" /\ Whole(metaFile[x].sha))'
    BY <1>1, <1>4, <1>11 DEF Inv
  <1>13. \A x \in Digests : Whole(x) => Whole(x)'
    BY <1>4
  <1>14. \A o \in Readers \ {r} :
             /\ call'[o] = call[o] /\ seen'[o] = seen[o]
             /\ outcome'[o] = outcome[o] /\ parsed'[o] = parsed[o]
    BY <1>1, <1>6, <1>7
  <1>15. QED
    BY <1>1, <1>9, <1>10, <1>12, <1>13, <1>14, ReaderStep

LEMMA StoreMetaStep ==
  ASSUME Inv, NEW r \in Readers, StoreMeta(r)
  PROVE  Inv'
  <1> DEFINE k == call[r]
             d == Sha256[k.reply]
             m == [kind |-> "entry", sha |-> d]
             n == Ask(r, "parse")
  <1>1. /\ k.at = "store_meta" /\ k.at \in Running
        /\ seen' = [seen EXCEPT ![r].wrote = TRUE]
        /\ metaFile' = [metaFile EXCEPT ![k.key] = m]
        /\ call' = [call EXCEPT ![r] = n]
        /\ outcome' = [outcome EXCEPT ![r] = d]
        /\ UNCHANGED <<content, sent, blob, parsed, tampers, crashes>>
    BY DEF StoreMeta, Storing, PutMeta, Return, hosts, faults, Running
  <1>2. /\ k \in Calls /\ seen[r] \in Seens /\ RunningOK(k, seen[r]) /\ k.key \in Keys
        /\ k.reply \in Bodies /\ d \in Digests /\ parsed[r] = None
    BY <1>1, RunningType
  <1>3. /\ k.reply \in seen[r].window /\ (seen[r].before = tampers => Whole(d))
        /\ seen[r].window \subseteq sent[k.key] /\ (tampers = 0 => seen[r].before = tampers)
    BY <1>1, <1>2 DEF RunningOK, Inv, CallOK, Seens
  <1>4. n \in Calls /\ n.at = "parse" /\ n.key = k.key /\ n.refresh = k.refresh
    BY AskIsCall DEF Inv
  <1>5. /\ seen' \in [Readers -> Seens]
        /\ seen'[r].window = seen[r].window /\ seen'[r].before = seen[r].before
        /\ \A o \in Readers \ {r} : seen'[o] = seen[o]
    BY <1>1 DEF Inv, TypeOK, Seens
  <1>6. /\ call' \in [Readers -> Calls] /\ call'[r] = n
        /\ outcome' \in [Readers -> Outcomes] /\ outcome'[r] = d
        /\ \A o \in Readers \ {r} : call'[o] = call[o] /\ outcome'[o] = outcome[o]
    BY <1>1, <1>2, <1>4 DEF Inv, TypeOK, Outcomes
  <1>7. m \in Metas /\ metaFile' \in [Keys -> Metas] /\ metaFile'[k.key] = m
    BY <1>1, <1>2 DEF Metas, MetaKinds, Inv, TypeOK
  <1>8. TypeOK'
    BY <1>1, <1>5, <1>6, <1>7 DEF Inv, TypeOK, Outcomes
  <1>9. ReturnedOK(call[r], seen[r], outcome[r], parsed[r])'
    BY <1>1, <1>2, <1>3, <1>4, <1>5, <1>6 DEF ReturnedOK, Whole
  <1>10. CallOK(call[r], seen[r], outcome[r], parsed[r])'
    BY <1>1, <1>2, <1>3, <1>4, <1>5, <1>6, <1>9, DigestsAreNoWords DEF CallOK, Inv, Running
  <1>11. \A x \in Keys : Names(metaFile[x], sent[x])'
    BY <1>1, <1>2, <1>3, <1>7 DEF Names, Inv, TypeOK
  <1>12. tampers = 0 => \A x \in Keys :
             (\/ metaFile[x].kind = "missing"
              \/ metaFile[x].kind = "entry" /\ Whole(metaFile[x].sha))'
    BY <1>1, <1>3, <1>7 DEF Inv, TypeOK, Whole
  <1>13. \A x \in Digests : Whole(x) => Whole(x)'
    BY <1>1 DEF Whole
  <1>14. \A o \in Readers \ {r} :
             /\ call'[o] = call[o] /\ seen'[o] = seen[o]
             /\ outcome'[o] = outcome[o] /\ parsed'[o] = parsed[o]
    BY <1>1, <1>5, <1>6
  <1>15. QED
    BY <1>1, <1>8, <1>10, <1>11, <1>12, <1>13, <1>14, ReaderStep

\* A write that fails and a process that dies: the call ends, the files stay.
LEMMA StopStep ==
  ASSUME Inv, NEW r \in Readers, WriteFails(r) \/ Crash(r)
  PROVE  Inv'
  <1>1. call[r].at \in Running /\ UNCHANGED <<hosts, disk, parsed, tampers>>
    BY DEF WriteFails, Crash, Running, faults
  <1>2. Asked(r, seen[r]) /\ seen' = [seen EXCEPT ![r] = seen[r]]
    BY DEF WriteFails, Crash, Asked, Inv, TypeOK
  <1>3. crashes' \in 0..MaxCrashes
    BY BoundsAreNat DEF WriteFails, Crash, faults, Inv, TypeOK
  <1>4. QED
    BY <1>1, <1>2, <1>3, QuietRaise DEF WriteFails, Crash, Errors

\* The bytes parsed have the digest returned: the file is whole, and no other
\* content has its digest.
LEMMA ParseStep ==
  ASSUME Inv, NEW r \in Readers, Parse(r)
  PROVE  Inv'
  <1> DEFINE k == call[r]
             d == outcome[r]
             n == [k EXCEPT !.at = "idle"]
             p == IF blob[d] = None THEN "no_file" ELSE blob[d]
  <1>1. /\ k.at = "parse" /\ call' = [call EXCEPT ![r] = n] /\ outcome' = [outcome EXCEPT ![r] = d]
        /\ parsed' = [parsed EXCEPT ![r] = p] /\ seen' = [seen EXCEPT ![r] = seen[r]]
        /\ UNCHANGED <<hosts, disk, tampers, crashes>>
    BY DEF Parse, Continue, faults, Inv, TypeOK
  <1>2. /\ k \in Calls /\ seen[r] \in Seens /\ d \in Digests /\ d \in Outcomes
        /\ CallOK(k, seen[r], d, parsed[r]) /\ ReturnedOK(k, seen[r], d, parsed[r])
    BY <1>1 DEF Inv, TypeOK, CallOK, Outcomes
  <1>3. blob[d] \in Contents \cup {None} /\ p \in Parses
    BY <1>2 DEF Inv, TypeOK, Parses
  <1>4. /\ n \in Calls /\ n.at = "idle" /\ n.key = k.key /\ n.refresh = k.refresh
    BY <1>2 DEF Calls
  <1>5. PICK b \in IF k.refresh THEN seen[r].window ELSE sent[k.key] : d = Sha256[b]
    BY <1>2 DEF ReturnedOK
  <1>6. b \in Bodies
    BY <1>2, <1>5 DEF ReturnedOK, Seens, Inv, TypeOK
  <1>7. Whole(d) => p \in Bodies /\ Sha256[p] = d
    <2>1. SUFFICES ASSUME Whole(d) PROVE p = b
      BY <1>5, <1>6
    <2>2. p \in Contents /\ b \in Contents /\ Sha256[p] = Sha256[b]
      BY <1>3, <1>5, <1>6, <2>1 DEF Whole, Contents
    <2>3. QED
      BY <2>2, CollisionFree DEF IsInjective
  <1>8. ReturnedOK(n, seen[r], d, p)
    BY <1>2, <1>4, <1>7 DEF ReturnedOK
  <1>9. CallOK(n, seen[r], d, p)
    BY <1>2, <1>4, <1>8, DigestsAreNoWords DEF CallOK, Running
  <1>10. crashes' \in 0..MaxCrashes
    BY <1>1 DEF Inv, TypeOK
  <1>11. UNCHANGED <<hosts, disk, tampers>>
    BY <1>1
  <1>12. QED
    BY <1>1, <1>2, <1>3, <1>4, <1>9, <1>10, <1>11, QuietStep

\* After a change behind the cache's back nothing is claimed of whole blobs.
LEMMA TamperStep ==
  ASSUME Inv, Tamper
  PROVE  Inv'
  <1>1. /\ tampers' = tampers + 1 /\ tampers' \in 0..MaxTampers /\ tampers \in Nat
        /\ UNCHANGED <<content, sent, call, outcome, parsed, seen, crashes>>
    BY BoundsAreNat DEF Tamper, hosts, Inv, TypeOK
  <1>2. /\ blob' \in [Digests -> Contents \cup {None}] /\ metaFile' \in [Keys -> Metas]
        /\ \A k \in Keys : Names(metaFile'[k], sent[k])
    <2>1. CASE /\ UNCHANGED metaFile
               /\ \E d \in Digests, x \in {Torn, None} : blob' = [blob EXCEPT ![d] = x]
      BY <2>1 DEF Inv, TypeOK, Contents
    <2>2. CASE \E k \in Keys, kind \in MetaKinds \ {"entry"} :
                    /\ metaFile[k].kind = "entry" /\ UNCHANGED blob
                    /\ metaFile' = [metaFile EXCEPT ![k] =
                         IF kind = "no_timestamp" THEN [@ EXCEPT !.kind = kind]
                         ELSE [kind |-> kind, sha |-> None]]
      <3>1. PICK k \in Keys, kind \in MetaKinds \ {"entry"} :
                    /\ metaFile[k].kind = "entry" /\ UNCHANGED blob
                    /\ metaFile' = [metaFile EXCEPT ![k] =
                         IF kind = "no_timestamp" THEN [@ EXCEPT !.kind = kind]
                         ELSE [kind |-> kind, sha |-> None]]
        BY <2>2
      <3> DEFINE m == IF kind = "no_timestamp" THEN [metaFile[k] EXCEPT !.kind = kind]
                      ELSE [kind |-> kind, sha |-> None]
      <3>2. metaFile[k] \in Metas /\ Names(metaFile[k], sent[k])
        BY DEF Inv, TypeOK
      <3>3. m \in Metas
        BY <3>2 DEF Metas
      <3>4. Names(m, sent[k])
        BY <3>1, <3>2 DEF Names, MetaKinds, Metas
      <3>5. QED
        BY <3>1, <3>3, <3>4 DEF Inv, TypeOK
    <2>3. QED
      BY <2>1, <2>2 DEF Tamper
  <1>3. TypeOK'
    BY <1>1, <1>2 DEF Inv, TypeOK
  <1>4. ASSUME NEW r \in Readers PROVE CallOK(call[r], seen[r], outcome[r], parsed[r])'
    <2>1. /\ CallOK(call[r], seen[r], outcome[r], parsed[r])
          /\ seen[r].before \in Nat /\ seen[r].before <= tampers
      BY BoundsAreNat DEF Inv, TypeOK, Seens, CallOK
    <2>2. seen[r].before <= tampers' /\ seen[r].before # tampers'
      BY <1>1, <2>1
    <2>3. RunningOK(call[r], seen[r]) => RunningOK(call[r], seen[r])'
      BY <1>1, <2>2 DEF RunningOK
    <2>4. ReturnedOK(call[r], seen[r], outcome[r], parsed[r])
            => ReturnedOK(call[r], seen[r], outcome[r], parsed[r])'
      BY <1>1, <2>2 DEF ReturnedOK
    <2>5. QED
      BY <1>1, <2>1, <2>2, <2>3, <2>4 DEF CallOK
  <1>5. tampers' # 0
    BY <1>1
  <1>6. QED
    BY <1>1, <1>2, <1>3, <1>4, <1>5 DEF Inv

\* A revision widens what was sent and what a running call may return.
LEMMA ReviseStep ==
  ASSUME Inv, NEW k \in Keys, Revise(k)
  PROVE  Inv'
  <1>1. PICK b \in Bodies :
        /\ content' = [content EXCEPT ![k] = b]
        /\ sent' = [sent EXCEPT ![k] = @ \cup {b}]
        /\ seen' = [r \in Readers |->
              IF call[r].at \in Running /\ call[r].key = k
              THEN [seen[r] EXCEPT !.window = @ \cup {b}] ELSE seen[r]]
    BY DEF Revise
  <1>2. UNCHANGED <<blob, metaFile, call, outcome, parsed, tampers, crashes>>
    BY DEF Revise, disk, faults
  <1>3. /\ content' \in [Keys -> Bodies] /\ sent' \in [Keys -> SUBSET Bodies]
        /\ \A x \in Keys : sent[x] \subseteq sent'[x] /\ content'[x] \in sent'[x]
        /\ \A x \in Keys : x # k => content'[x] = content[x]
        /\ content'[k] = b /\ b \in sent'[k]
    BY <1>1 DEF Inv, TypeOK
  <1>4. ASSUME NEW r \in Readers
        PROVE  /\ seen'[r] \in Seens /\ seen[r] \in Seens
               /\ seen'[r].before = seen[r].before /\ seen'[r].wrote = seen[r].wrote
               /\ seen[r].window \subseteq seen'[r].window
               /\ seen'[r].window \subseteq seen[r].window \cup {b}
               /\ call[r].at \notin Running \/ call[r].key # k => seen'[r] = seen[r]
               /\ call[r].at \in Running /\ call[r].key = k => b \in seen'[r].window
    BY <1>1 DEF Inv, TypeOK, Seens
  <1>5. seen' \in [Readers -> Seens]
    BY <1>1, <1>4
  <1>6. TypeOK'
    BY <1>2, <1>3, <1>5 DEF Inv, TypeOK
  <1>7. ASSUME NEW m, NEW x \in Keys, Names(m, sent[x]) PROVE Names(m, sent'[x])
    BY <1>3, <1>7 DEF Names
  <1>8. \A x \in Keys : content'[x] \in sent'[x] /\ Names(metaFile'[x], sent'[x])
    BY <1>2, <1>3, <1>7 DEF Inv
  <1>9. ASSUME NEW r \in Readers PROVE CallOK(call[r], seen[r], outcome[r], parsed[r])'
    <2>1. CallOK(call[r], seen[r], outcome[r], parsed[r])
      BY DEF Inv
    <2>2. (call[r].key \in Keys => seen[r].window \subseteq sent[call[r].key])'
      BY <1>2, <1>3, <1>4, <2>1 DEF CallOK
    <2>3. ASSUME call[r].at \in Running, RunningOK(call[r], seen[r])
          PROVE  RunningOK(call[r], seen[r])'
      <3>1. call[r].key \in Keys /\ content'[call[r].key] \in seen'[r].window
        BY <1>3, <1>4, <2>3 DEF RunningOK
      <3>2. call[r].at = "verify" => Names(call[r].meta, sent'[call[r].key])
        BY <1>7, <2>3, <3>1 DEF RunningOK
      <3>3. QED
        BY <1>2, <1>4, <2>3, <3>1, <3>2 DEF RunningOK, Whole
    <2>4. ASSUME ReturnedOK(call[r], seen[r], outcome[r], parsed[r])
          PROVE  ReturnedOK(call[r], seen[r], outcome[r], parsed[r])'
      BY <1>2, <1>3, <1>4, <2>4 DEF ReturnedOK, Whole
    <2>5. QED
      BY <1>2, <1>4, <2>1, <2>2, <2>3, <2>4 DEF CallOK
  <1>10. QED
    BY <1>2, <1>6, <1>8, <1>9 DEF Inv, Whole

LEMMA StutterStep ==
  ASSUME Inv, UNCHANGED vars
  PROVE  Inv'
  BY DEF vars, hosts, disk, faults, Inv, TypeOK, Names, Whole, CallOK, RunningOK, ReturnedOK

LEMMA NextInv == Inv /\ [Next]_vars => Inv'
  <1> SUFFICES ASSUME Inv, [Next]_vars PROVE Inv'
    OBVIOUS
  <1>1. ASSUME NEW r \in Readers,
               Begin(r) \/ Lookup(r) \/ Fetch(r) \/ Store(r) \/ Parse(r) \/ Crash(r)
        PROVE  Inv'
    BY <1>1, BeginStep, LookupStep, FetchStep, StoreBlobStep, StoreMetaStep, StopStep,
       ParseStep DEF Store
  <1>2. QED
    BY <1>1, ReviseStep, TamperStep, StutterStep DEF Next

-----------------------------------------------------------------------------
\* What the invariant gives

\* The invariant holds in every state of every behaviour: what the cache stores, what
\* a call holds, what it returned and what was parsed belong together.
THEOREM Invariance == Spec => []Inv
  <1>1. Init => Inv
    BY InitInv
  <1>2. Inv /\ [Next]_vars => Inv'
    BY NextInv
  <1>3. QED
    BY <1>1, <1>2, PTL DEF Spec

\* Every variable keeps its type: no reply without a body is stored, and no file or
\* local leaves the values the code can give it.
THEOREM TypeCorrect == Spec => []TypeOK
  <1>1. Inv => TypeOK
    BY DEF Inv
  <1>2. QED
    BY <1>1, Invariance, PTL

\* A refresh returns a table that was behind the key during the call, for any number
\* of readers, keys and tables.
THEOREM Refreshing == Spec => []RefreshIsCurrent
  <1>1. Inv => RefreshIsCurrent
    BY DEF Inv, CallOK, ReturnedOK, RefreshIsCurrent, Returned
  <1>2. QED
    BY <1>1, Invariance, PTL

\* No reader is given bytes its host never sent for its request, whatever was done to
\* the files.
THEOREM Authenticity == Spec => []OnlySentTables
  <1>1. Inv => OnlySentTables
    <2> SUFFICES ASSUME Inv, NEW r \in Readers, Returned(r)
                 PROVE  \E b \in sent[call[r].key] : Sha256[b] = outcome[r]
      BY DEF OnlySentTables
    <2>1. /\ ReturnedOK(call[r], seen[r], outcome[r], parsed[r])
          /\ call[r].key \in Keys => seen[r].window \subseteq sent[call[r].key]
      BY DEF Inv, CallOK, Returned
    <2>2. QED
      BY <2>1 DEF ReturnedOK
  <1>2. QED
    BY <1>1, Invariance, PTL

\* A call that the credentials or the host made fail has replaced no file.
THEOREM FailureIsClean == Spec => []FailedFetchKeepsEntry
  <1>1. Inv => FailedFetchKeepsEntry
    BY DEF Inv, CallOK, FailedFetchKeepsEntry
  <1>2. QED
    BY <1>1, Invariance, PTL

\* Crashes, failed writes and concurrent stores leave no entry without its blob.
THEOREM MetaLast == Spec => []EntriesAreWhole
  <1>1. Inv => EntriesAreWhole
    BY DEF Inv, EntriesAreWhole, Usable, Whole
  <1>2. QED
    BY <1>1, Invariance, PTL

\* What is parsed has the digest that is reported, although the file is read again
\* after the lookup or the store.
THEOREM ReportIsTrue == Spec => []ParsedIsReported
  <1>1. Inv => ParsedIsReported
    BY DEF Inv, CallOK, ReturnedOK, ParsedIsReported, Returned
  <1>2. QED
    BY <1>1, Invariance, PTL

-----------------------------------------------------------------------------
\* Hits

Step(r) == Begin(r) \/ Lookup(r) \/ Fetch(r) \/ Store(r) \/ Parse(r) \/ Crash(r)

\* The reader asked without refresh, over a whole entry.
Covered(r) == seen[r].hit /\ ~call[r].refresh

\* It never gets beyond the lookup, because the entry it looks at stays whole
\* whatever is stored over it.
CoveredOK(r) ==
    /\ outcome[r] \in Digests \cup {"none", "crashed"} /\ ~seen[r].asked
    /\ call[r].at \in Running =>
          /\ call[r].at \in {"read_meta", "verify"}
          /\ metaFile[call[r].key].kind = "entry"
          /\ call[r].at = "verify" => call[r].meta.kind = "entry" /\ Whole(call[r].meta.sha)

HitInv == tampers = 0 => \A r \in Readers : Covered(r) => CoveredOK(r)

\* A step of r leaves the other readers and the hosts alone; unless it begins a call,
\* it keeps what was asked for and the history but for asked and wrote.
LEMMA OneReader ==
  ASSUME Inv, NEW r \in Readers, Step(r)
  PROVE  /\ \A o \in Readers \ {r} :
              /\ call'[o] = call[o] /\ seen'[o] = seen[o]
              /\ outcome'[o] = outcome[o] /\ parsed'[o] = parsed[o]
         /\ UNCHANGED <<hosts, tampers>>
  <1>1. /\ call \in [Readers -> Calls] /\ seen \in [Readers -> Seens]
        /\ outcome \in [Readers -> Outcomes] /\ parsed \in [Readers -> Parses]
    BY DEF Inv, TypeOK, Outcomes, Parses
  <1>2. UNCHANGED <<hosts, tampers>>
    BY DEF Step, Begin, Lookup, ReadMeta, Verify, Fetch, NoCredentials, AnswerTable,
       AnswerError, AnswerEmpty, Request, Store, StoreBlob, StoreMeta, Storing, WriteFails,
       Parse, Crash, faults
  <1>3. \A o \in Readers \ {r} : seen'[o] = seen[o] /\ parsed'[o] = parsed[o]
    BY <1>1 DEF Step, Begin, Lookup, ReadMeta, Verify, Fetch, NoCredentials, AnswerTable,
       AnswerError, AnswerEmpty, Request, Store, StoreBlob, StoreMeta, Storing, WriteFails,
       Parse, Crash
  <1>4. \/ Begin(r) \/ (\E k : Continue(r, k)) \/ (\E how : Raise(r, how)) \/ (\E d : Return(r, d))
    BY DEF Step, Lookup, ReadMeta, Verify, Miss, Fetch, NoCredentials, AnswerTable,
       AnswerError, AnswerEmpty, Store, StoreBlob, BlobDone, StoreMeta, WriteFails, Parse, Crash
  <1>5. \A o \in Readers \ {r} : call'[o] = call[o] /\ outcome'[o] = outcome[o]
    BY <1>1, <1>4 DEF Begin, Continue, Raise, Return
  <1>6. QED
    BY <1>2, <1>3, <1>5

LEMMA OwnStep ==
  ASSUME Inv, NEW r \in Readers, Step(r), ~Begin(r)
  PROVE  /\ call[r].at # "idle"
         /\ call'[r].key = call[r].key /\ call'[r].refresh = call[r].refresh
         /\ seen'[r].hit = seen[r].hit /\ seen'[r].window = seen[r].window
  <1>1. /\ call \in [Readers -> Calls] /\ seen \in [Readers -> Seens]
        /\ call[r] \in Calls /\ seen[r] \in Seens
    BY DEF Inv, TypeOK
  <1>2. call[r].at # "idle"
    BY DEF Step, Lookup, ReadMeta, Verify, Fetch, NoCredentials, AnswerTable,
       AnswerError, AnswerEmpty, Request, Store, StoreBlob, StoreMeta, Storing, WriteFails,
       Parse, Crash, Running
  <1>3. seen'[r].hit = seen[r].hit /\ seen'[r].window = seen[r].window
    BY <1>1 DEF Step, Lookup, ReadMeta, Verify, Fetch, NoCredentials, AnswerTable,
       AnswerError, AnswerEmpty, Request, Store, StoreBlob, StoreMeta, Storing, WriteFails,
       Parse, Crash, Seens
  <1> DEFINE Kept == call'[r].key = call[r].key /\ call'[r].refresh = call[r].refresh
  <1>4. ASSUME \E step \in {"idle", "parse"} : call' = [call EXCEPT ![r] = Ask(r, step)] PROVE Kept
    BY <1>1, <1>4, AskIsCall DEF Inv
  <1>5. ASSUME NEW k, Continue(r, k), k.key = call[r].key, k.refresh = call[r].refresh PROVE Kept
    BY <1>1, <1>5 DEF Continue
  <1>6. ASSUME Miss(r) PROVE Kept
    BY <1>1, <1>5, <1>6 DEF Miss, Calls
  <1>7. ASSUME ReadMeta(r) PROVE Kept
    <2>1. ASSUME NEW m, Continue(r, [call[r] EXCEPT !.at = "verify", !.meta = m]) PROVE Kept
      BY <1>1, <1>5, <2>1 DEF Calls
    <2>2. QED
      BY <1>6, <1>7, <2>1 DEF ReadMeta
  <1>8. ASSUME AnswerTable(r) PROVE Kept
    <2>1. ASSUME NEW b, Continue(r, [call[r] EXCEPT !.at = "store_blob", !.reply = b]) PROVE Kept
      BY <1>1, <1>5, <2>1 DEF Calls
    <2>2. QED
      BY <1>8, <2>1 DEF AnswerTable
  <1>9. ASSUME StoreBlob(r) \/ Parse(r) PROVE Kept
    <2>1. ASSUME NEW at, Continue(r, [call[r] EXCEPT !.at = at]) PROVE Kept
      BY <1>1, <1>5, <2>1 DEF Calls
    <2>2. QED
      BY <1>9, <2>1 DEF StoreBlob, BlobDone, Parse
  <1>10. ASSUME Verify(r) PROVE Kept
    BY <1>4, <1>6, <1>10 DEF Verify, Return
  <1>11. ASSUME NoCredentials(r) \/ AnswerError(r) \/ AnswerEmpty(r) \/ WriteFails(r)
                \/ Crash(r) \/ StoreMeta(r)
         PROVE  Kept
    BY <1>4, <1>11 DEF NoCredentials, AnswerError, AnswerEmpty, WriteFails, Crash, StoreMeta,
       Raise, Return
  <1>12. QED
    BY <1>2, <1>3, <1>7, <1>8, <1>9, <1>10, <1>11 DEF Step, Lookup, Fetch, Store

\* Only StoreBlob and StoreMeta touch the disk, and they replace whole by whole.
LEMMA EntriesStay ==
  ASSUME Inv, NEW r \in Readers, Step(r)
  PROVE  /\ \A d \in Digests : Whole(d) => Whole(d)'
         /\ \A k \in Keys : metaFile[k].kind = "entry" => metaFile'[k].kind = "entry"
  <1>1. CASE StoreBlob(r)
    <2>1. /\ call[r].at = "store_blob" /\ call[r].at \in Running
          /\ blob' = [blob EXCEPT ![Sha256[call[r].reply]] = call[r].reply]
          /\ metaFile' = metaFile
      BY <1>1 DEF StoreBlob, Storing, PutBlob, Running
    <2>2. call[r].reply \in Bodies
      BY <2>1, RunningType
    <2>3. QED
      BY <2>1, <2>2, NoneIsNothing DEF Whole, Contents, Inv, TypeOK
  <1>2. CASE StoreMeta(r)
    BY <1>2 DEF StoreMeta, PutMeta, Whole, Inv, TypeOK
  <1>3. CASE UNCHANGED disk
    BY <1>3 DEF disk, Whole
  <1>4. QED
    BY <1>1, <1>2, <1>3 DEF Step, Begin, Lookup, ReadMeta, Verify, Fetch, NoCredentials,
       AnswerTable, AnswerError, AnswerEmpty, Request, Store, WriteFails, Parse, Crash

\* A covered reader's own step after the first.
LEMMA CoveredStep ==
  ASSUME Inv, NEW r \in Readers, tampers = 0, Covered(r), CoveredOK(r), Step(r), ~Begin(r)
  PROVE  CoveredOK(r)'
  <1> DEFINE k == call[r]
             m == metaFile[k.key]
  <1>1. /\ k \in Calls /\ call \in [Readers -> Calls] /\ outcome \in [Readers -> Outcomes]
        /\ ~seen[r].asked /\ outcome[r] \in Digests \cup {"none", "crashed"}
    BY DEF Inv, TypeOK, Outcomes, CoveredOK
  <1>2. k.at \in Running => /\ k.at \in {"read_meta", "verify"} /\ m.kind = "entry"
                            /\ k.key \in Keys /\ Whole(m.sha)
                            /\ k.at = "verify" => /\ k.meta.kind = "entry" /\ Whole(k.meta.sha)
                                                  /\ k.meta.sha \in Digests
    BY RunningType DEF CoveredOK, Inv
  <1>3. CASE Crash(r)
    <2>1. k.at \in Running /\ Raise(r, "crashed") /\ seen' = seen
      BY <1>3 DEF Crash
    <2>2. call'[r].at = "idle" /\ outcome'[r] = "crashed"
      BY <1>1, <2>1, AskIsCall DEF Raise, Inv
    <2>3. QED
      BY <1>1, <2>1, <2>2 DEF CoveredOK, Running
  <1>4. CASE ReadMeta(r)
    <2>1. k.at = "read_meta" /\ k.at \in Running /\ UNCHANGED <<seen, blob, metaFile>>
      BY <1>4 DEF ReadMeta, Running, disk
    <2>2. Continue(r, [k EXCEPT !.at = "verify", !.meta = m])
      BY <1>2, <1>4, <2>1 DEF ReadMeta
    <2>3. call'[r] = [k EXCEPT !.at = "verify", !.meta = m] /\ outcome'[r] = outcome[r]
      BY <1>1, <2>2 DEF Continue
    <2>4. QED
      BY <1>1, <1>2, <2>1, <2>3 DEF Calls, CoveredOK, Whole
  <1>5. CASE Verify(r)
    <2>1. k.at = "verify" /\ k.at \in Running /\ seen' = seen
      BY <1>5 DEF Verify, Running
    <2>2. Return(r, k.meta.sha)
      BY <1>2, <1>5, <2>1 DEF Verify, Hit, Whole
    <2>3. call'[r].at = "parse" /\ outcome'[r] = k.meta.sha
      BY <1>1, <2>2, AskIsCall DEF Return, Inv
    <2>4. QED
      BY <1>1, <1>2, <2>1, <2>3 DEF CoveredOK, Running
  <1>6. CASE Parse(r)
    <2>1. /\ call'[r] = [k EXCEPT !.at = "idle"] /\ UNCHANGED <<outcome, seen>>
      BY <1>1, <1>6 DEF Parse, Continue
    <2>2. QED
      BY <1>1, <2>1 DEF Calls, CoveredOK, Running
  <1>7. ~Fetch(r) /\ ~Store(r)
    BY <1>2 DEF Fetch, NoCredentials, AnswerTable, AnswerError, AnswerEmpty, Request, Store,
       StoreBlob, StoreMeta, Storing, WriteFails, Running
  <1>8. QED
    BY <1>3, <1>4, <1>5, <1>6, <1>7 DEF Step, Lookup

LEMMA HitStep ==
  ASSUME Inv, HitInv, [Next]_vars
  PROVE  HitInv'
  <1>1. CASE UNCHANGED vars
    BY <1>1 DEF vars, disk, hosts, faults, HitInv, Covered, CoveredOK, Whole
  <1>2. ASSUME NEW k \in Keys, Revise(k) PROVE HitInv'
    <2>1. UNCHANGED <<blob, metaFile, call, outcome, tampers>>
      BY <1>2 DEF Revise, disk, faults
    <2>2. \A r \in Readers : seen'[r].hit = seen[r].hit /\ seen'[r].asked = seen[r].asked
      BY <1>2 DEF Revise, Inv, TypeOK, Seens
    <2>3. QED
      BY <2>1, <2>2 DEF HitInv, Covered, CoveredOK, Whole
  <1>3. CASE Tamper
    BY <1>3, BoundsAreNat DEF Tamper, HitInv, Inv, TypeOK
  <1>4. ASSUME NEW a \in Readers, Step(a), NEW r \in Readers, tampers' = 0, Covered(r)'
        PROVE  CoveredOK(r)'
    <2>1. tampers = 0
      BY <1>4, OneReader
    <2>2. CASE r # a
      <3>1. call'[r] = call[r] /\ seen'[r] = seen[r] /\ outcome'[r] = outcome[r]
        BY <1>4, <2>2, OneReader
      <3>2. CoveredOK(r)
        BY <1>4, <2>1, <3>1 DEF HitInv, Covered
      <3>3. call[r].at \in Running =>
              call[r].key \in Keys /\ (call[r].at = "verify" => call[r].meta.sha \in Digests)
        BY RunningType
      <3>4. /\ \A d \in Digests : Whole(d) => Whole(d)'
            /\ \A k \in Keys : metaFile[k].kind = "entry" => metaFile'[k].kind = "entry"
        BY <1>4, EntriesStay
      <3>5. ASSUME call[r].at \in Running, call[r].at = "verify" PROVE Whole(call[r].meta.sha)'
        <4>1. Whole(call[r].meta.sha) /\ call[r].meta.sha \in Digests
          BY <3>2, <3>3, <3>5 DEF CoveredOK
        <4>2. QED
          BY <3>1, <3>4, <4>1 DEF Whole
      <3>6. QED
        BY <3>1, <3>2, <3>3, <3>4, <3>5 DEF CoveredOK
    <2>3. CASE r = a /\ Begin(r)
      <3>1. PICK key \in Keys, refresh \in BOOLEAN, found \in Credentials :
            /\ call' = [call EXCEPT ![r] = [Idle EXCEPT
                  !.at = FirstStep(refresh),
                  !.key = key, !.refresh = refresh, !.credentials = found]]
            /\ seen' = [seen EXCEPT ![r] = [window |-> {content[key]}, hit |-> Usable(key),
                            asked |-> FALSE, wrote |-> FALSE, before |-> tampers]]
        BY <2>3 DEF Begin
      <3>2. /\ call'[r] = [Idle EXCEPT !.at = FirstStep(refresh), !.key = key,
                               !.refresh = refresh, !.credentials = found]
            /\ seen'[r].hit = Usable(key) /\ ~seen'[r].asked
            /\ outcome'[r] = "none" /\ metaFile' = metaFile
        BY <2>3, <3>1 DEF Begin, disk, Inv, TypeOK
      <3>3. call'[r].at = FirstStep(refresh) /\ call'[r].key = key /\ call'[r].refresh = refresh
        BY <3>2 DEF Idle
      <3>4. Usable(key) /\ ~refresh
        BY <1>4, <3>2, <3>3 DEF Covered
      <3>5. QED
        BY <3>2, <3>3, <3>4 DEF CoveredOK, Usable, FirstStep
    <2>4. CASE r = a /\ ~Begin(r)
      <3>1. Covered(r) /\ CoveredOK(r)
        BY <1>4, <2>1, <2>4, OwnStep DEF Covered, HitInv
      <3>2. QED
        BY <1>4, <2>1, <2>4, <3>1, CoveredStep
    <2>5. QED
      BY <2>2, <2>3, <2>4
  <1>5. ASSUME NEW a \in Readers, Step(a) PROVE HitInv'
    BY <1>4, <1>5 DEF HitInv
  <1>6. QED
    BY <1>1, <1>2, <1>3, <1>5 DEF Next, Step

\* A reader that does not refresh is given the stored entry, without a request and
\* without credentials, however the entry is being replaced at the time.
THEOREM HitsStayOffline == Spec => []HitWins
  <1>1. Init => HitInv
    BY DEF Init, HitInv, Covered
  <1>2. Inv /\ HitInv /\ [Next]_vars => HitInv'
    BY HitStep
  <1>3. HitInv => HitWins
    BY DEF HitInv, Covered, CoveredOK, HitWins
  <1>4. QED
    BY <1>1, <1>2, <1>3, Invariance, PTL DEF Spec

-----------------------------------------------------------------------------
\* A reader that is alone

\* The metadata it has read is the metadata on disk, so a hit is a whole entry,
\* and so is what it has stored, unless files were changed since it began.
RepairOK(r) ==
    seen[r].before = tampers =>
        /\ call[r].at = "verify" => call[r].meta = metaFile[call[r].key]
        /\ Returned(r) => Usable(call[r].key)

\* A step that ends in no digest and after which nothing is to be verified.
LEMMA RepairOpen ==
  ASSUME NEW r \in Readers, call'[r].at # "verify", outcome'[r] \notin Digests
  PROVE  RepairOK(r)'
  BY DEF RepairOK, Returned

LEMMA RepairRaise ==
  ASSUME NEW r \in Readers, TypeOK, NEW how \in Errors, Raise(r, how) PROVE RepairOK(r)'
  <1>1. call'[r] = Ask(r, "idle") /\ outcome'[r] = how
    BY DEF Raise, TypeOK
  <1>2. Ask(r, "idle").at = "idle"
    BY AskIsCall
  <1>3. QED
    BY <1>1, <1>2, DigestsAreNoWords, RepairOpen

LEMMA RepairLookup ==
  ASSUME Inv, NEW r \in Readers, Lookup(r), RepairOK(r) PROVE RepairOK(r)'
  <1> DEFINE k == call[r]
  <1>1. k.at \in {"read_meta", "verify"} /\ UNCHANGED <<disk, tampers, seen>>
    BY DEF Lookup, ReadMeta, Verify, faults
  <1>2. TypeOK /\ k \in Calls /\ outcome[r] = "none" /\ outcome[r] \notin Digests
    BY <1>1, RunningType, DigestsAreNoWords DEF Inv, Running
  <1>3. CASE Miss(r)
    <2>1. call'[r].at = "fetch" /\ outcome'[r] = outcome[r]
      BY <1>2, <1>3 DEF Miss, Continue, TypeOK, Calls
    <2>2. QED
      BY <1>2, <2>1, RepairOpen
  <1>4. CASE ReadMeta(r) /\ Continue(r, [k EXCEPT !.at = "verify", !.meta = metaFile[k.key]])
    <2>1. /\ call'[r].meta = metaFile[k.key] /\ call'[r].key = k.key /\ outcome'[r] = outcome[r]
          /\ metaFile' = metaFile
      BY <1>1, <1>2, <1>4 DEF Continue, TypeOK, Calls, disk
    <2>2. QED
      BY <1>2, <2>1 DEF RepairOK, Returned
  <1>5. CASE Verify(r) /\ Hit(k.meta) /\ Return(r, k.meta.sha)
    <2>1. call'[r] = Ask(r, "parse")
      BY <1>2, <1>5 DEF Return, TypeOK
    <2>2. call'[r].at = "parse" /\ call'[r].key = k.key
      BY <1>2, <2>1, AskIsCall
    <2>3. ASSUME seen'[r].before = tampers' PROVE Usable(k.key)'
      <3>1. k.meta = metaFile[k.key]
        BY <1>1, <1>5, <2>3 DEF RepairOK, Verify
      <3>2. Usable(k.key)
        BY <1>5, <3>1 DEF Hit, Usable
      <3>3. QED
        BY <1>1, <2>2, <3>2 DEF Usable, disk
    <2>4. QED
      BY <2>2, <2>3 DEF RepairOK, Usable
  <1>6. QED
    BY <1>3, <1>4, <1>5 DEF Lookup, ReadMeta, Verify

LEMMA RepairFetch ==
  ASSUME Inv, NEW r \in Readers, Fetch(r) PROVE RepairOK(r)'
  <1>1. call[r].at = "fetch"
    BY DEF Fetch, NoCredentials, AnswerTable, AnswerError, AnswerEmpty, Request
  <1>2. TypeOK /\ call[r] \in Calls /\ outcome[r] = "none" /\ outcome[r] \notin Digests
    BY <1>1, RunningType, DigestsAreNoWords DEF Inv, Running
  <1>3. CASE \E how \in Errors : Raise(r, how)
    BY <1>2, <1>3, RepairRaise
  <1>4. CASE AnswerTable(r)
    <2>1. call'[r].at = "store_blob" /\ outcome'[r] = outcome[r]
      BY <1>2, <1>4 DEF AnswerTable, Continue, TypeOK, Calls
    <2>2. QED
      BY <1>2, <2>1, RepairOpen
  <1>5. QED
    BY <1>3, <1>4 DEF Fetch, NoCredentials, AnswerError, AnswerEmpty, Errors

LEMMA RepairStore ==
  ASSUME Inv, NEW r \in Readers, Store(r) PROVE RepairOK(r)'
  <1> DEFINE k == call[r]
             d == Sha256[k.reply]
  <1>1. k.at \in {"store_blob", "store_meta"} /\ UNCHANGED tampers
    BY DEF Store, StoreBlob, StoreMeta, Storing, WriteFails, faults
  <1>2. /\ TypeOK /\ k \in Calls /\ seen[r] \in Seens /\ RunningOK(k, seen[r]) /\ k.key \in Keys
        /\ outcome[r] = "none" /\ outcome[r] \notin Digests
    BY <1>1, RunningType, DigestsAreNoWords DEF Inv, Running
  <1>3. CASE StoreBlob(r)
    <2>1. BlobDone(r)
      BY <1>3 DEF StoreBlob
    <2>2. call'[r].at = "store_meta" /\ outcome'[r] = outcome[r]
      BY <1>2, <2>1 DEF BlobDone, Continue, TypeOK, Calls
    <2>3. QED
      BY <1>2, <2>2, RepairOpen
  <1>4. CASE StoreMeta(r)
    <2>1. /\ k.at = "store_meta" /\ blob' = blob /\ Return(r, d)
          /\ metaFile' = [metaFile EXCEPT ![k.key] = [kind |-> "entry", sha |-> d]]
          /\ seen' = [seen EXCEPT ![r].wrote = TRUE]
      BY <1>4 DEF StoreMeta, Storing, PutMeta
    <2>2. call'[r] = Ask(r, "parse")
      BY <1>2, <2>1 DEF Return, TypeOK
    <2>3. call'[r].at = "parse" /\ call'[r].key = k.key
      BY <1>2, <2>2, AskIsCall
    <2>4. seen'[r].before = seen[r].before
      BY <1>2, <2>1 DEF TypeOK, Seens
    <2>5. metaFile'[k.key] = [kind |-> "entry", sha |-> d]
      BY <1>2, <2>1 DEF TypeOK
    <2>6. ASSUME seen'[r].before = tampers' PROVE Usable(k.key)'
      <3>1. Whole(d)
        BY <1>1, <1>2, <2>1, <2>4, <2>6 DEF RunningOK
      <3>2. PICK key : key = k.key
        OBVIOUS
      <3>3. PICK digest : digest = d
        OBVIOUS
      <3>4. /\ metaFile'[key].kind = "entry" /\ metaFile'[key].sha = digest
            /\ blob'[digest] # None /\ Sha256[blob'[digest]] = digest
        BY <2>1, <2>5, <3>1, <3>2, <3>3 DEF Whole
      <3>5. call'[r].key = key
        BY <2>3, <3>2
      <3>6. QED
        BY <2>3, <3>2, <3>4, <3>5 DEF Usable
    <2>7. QED
      BY <2>3, <2>6 DEF RepairOK, Usable
  <1>5. CASE WriteFails(r)
    BY <1>2, <1>5, RepairRaise DEF WriteFails, Errors
  <1>6. QED
    BY <1>3, <1>4, <1>5 DEF Store

\* Only the reader's own steps and a change of files can touch it.
LEMMA RepairNext ==
  ASSUME \A r, s \in Readers : r = s, Inv, \A r \in Readers : RepairOK(r), [Next]_vars
  PROVE  \A r \in Readers : RepairOK(r)'
  <1> SUFFICES ASSUME NEW r \in Readers PROVE RepairOK(r)'
    OBVIOUS
  <1>0. TypeOK /\ RepairOK(r)
    BY DEF Inv
  <1>1. CASE Begin(r)
    <2>1. call'[r].at # "verify" /\ outcome'[r] = "none"
      BY <1>0, <1>1 DEF Begin, TypeOK, Idle, FirstStep
    <2>2. QED
      BY <2>1, DigestsAreNoWords, RepairOpen
  <1>2. CASE Crash(r)
    BY <1>0, <1>2, RepairRaise DEF Crash, Errors
  <1>3. CASE Tamper
    <2>1. seen' = seen /\ tampers' = tampers + 1 /\ tampers \in Nat
      BY <1>0, <1>3, BoundsAreNat DEF Tamper, TypeOK
    <2>2. seen[r].before <= tampers /\ seen[r].before \in Nat
      BY <1>0, BoundsAreNat DEF Inv, CallOK, TypeOK, Seens
    <2>3. seen'[r].before # tampers'
      BY <2>1, <2>2
    <2>4. QED
      BY <2>3 DEF RepairOK
  <1>4. CASE \E k \in Keys : Revise(k)
    <2>1. UNCHANGED <<disk, call, outcome, tampers>>
      BY <1>4 DEF Revise, faults
    <2>2. seen'[r].before = seen[r].before
      BY <1>0, <1>4 DEF Revise, TypeOK, Seens
    <2>3. QED
      BY <1>0, <2>1, <2>2 DEF RepairOK, Returned, Usable, disk
  <1>5. CASE UNCHANGED vars
    BY <1>0, <1>5 DEF vars, disk, faults, RepairOK, Returned, Usable
  <1>6. CASE Parse(r)
    <2>1. /\ call'[r].at = "idle" /\ call'[r].key = call[r].key /\ outcome'[r] = outcome[r]
          /\ UNCHANGED <<disk, seen, tampers>>
      BY <1>0, <1>6 DEF Parse, Continue, TypeOK, Calls, faults
    <2>2. QED
      BY <1>0, <2>1 DEF RepairOK, Returned, Usable, disk
  <1>7. CASE \E s \in Readers : Lookup(s) \/ Fetch(s) \/ Store(s)
    <2>1. Lookup(r) \/ Fetch(r) \/ Store(r)
      BY <1>7
    <2>2. QED
      BY <1>0, <2>1, RepairLookup, RepairFetch, RepairStore
  <1>8. QED
    BY <1>1, <1>2, <1>3, <1>4, <1>5, <1>6, <1>7 DEF Next

\* For any keys and any damage: after a call of the only reader that returned there
\* is a whole entry under its key ("corrupted body: fetched again").
THEOREM SoleCallRepairs ==
  ASSUME \A r, s \in Readers : r = s PROVE Spec => []CallRepairsEntry
  <1> DEFINE AllOK == \A r \in Readers : RepairOK(r)
  <1>1. Init => AllOK
    BY DigestsAreNoWords DEF Init, Idle, RepairOK, Returned
  <1>2. Inv /\ AllOK /\ [Next]_vars => AllOK'
    BY RepairNext
  <1>3. AllOK => CallRepairsEntry
    BY DEF RepairOK, CallRepairsEntry
  <1>4. QED
    BY <1>1, <1>2, <1>3, Invariance, PTL DEF Spec

-----------------------------------------------------------------------------
\* Refinement

LEMMA PromiseInit == Init => Promise!Init
  <1> SUFFICES ASSUME Init PROVE Promise!Init
    OBVIOUS
  <1>1. \A r \in Readers : call[r] = Idle /\ outcome[r] = "none" /\ seen[r].window = {}
    BY DEF Init
  <1>2. \A r \in Readers : Answer(r) = "idle"
    BY <1>1 DEF Answer, Idle, Running
  <1>3. \A r \in Readers :
          [url |-> call[r].key, mode |-> Mode(call[r]), pin |-> None] = Promise!NoAsk
    BY <1>1 DEF Idle, Mode, Promise!NoAsk
  <1>4. QED
    BY <1>1, <1>2, <1>3 DEF Init, Promise!Init

LEMMA PromiseBegin ==
  ASSUME Inv, NEW r \in Readers, Begin(r)
  PROVE  Promise!Ask(r)
  <1>1. PICK key \in Keys, refresh \in BOOLEAN, found \in Credentials :
        /\ call' = [call EXCEPT ![r] = [Idle EXCEPT
              !.at = FirstStep(refresh),
              !.key = key, !.refresh = refresh, !.credentials = found]]
        /\ seen' = [seen EXCEPT ![r] = [window |-> {content[key]}, hit |-> Usable(key),
                        asked |-> FALSE, wrote |-> FALSE, before |-> tampers]]
    BY DEF Begin
  <1> DEFINE a == [url |-> key, mode |-> IF refresh THEN "revalidate" ELSE "offline_first",
                   pin |-> None]
  <1>2. /\ \A o \in Readers \ {r} :
              call'[o] = call[o] /\ seen'[o] = seen[o] /\ outcome'[o] = outcome[o]
        /\ UNCHANGED <<content, sent>>
    BY OneReader DEF Step, hosts
  <1>3. /\ call'[r] = [Idle EXCEPT !.at = FirstStep(refresh), !.key = key,
                               !.refresh = refresh, !.credentials = found]
        /\ seen'[r].window = {content[key]}
    BY <1>1 DEF Inv, TypeOK
  <1>4. call'[r].at \in Running /\ call'[r].key = key /\ call'[r].refresh = refresh
    BY <1>3 DEF Idle, FirstStep, Running
  <1>5. Answer(r) # "pending" /\ Answer(r)' = "pending"
    <2>1. call[r].at = "idle" /\ "idle" \notin Running
      BY DEF Begin, Running
    <2>2. outcome[r] \in Errors \cup {"none"} \cup Digests /\ "pending" \notin Digests
      BY DigestsAreNoWords DEF Inv, TypeOK
    <2>3. QED
      BY <1>4, <2>1, <2>2 DEF Answer
  <1>6. \A o \in Readers \ {r} : Answer(o)' = Answer(o)
    BY <1>2 DEF Answer
  <1>7. a \in Promise!Asks /\ a.url = key
    BY DEF Promise!Asks, Promise!Modes
  <1>8. key # None
    BY NoneIsNothing
  <1>9. /\ [o \in Readers |-> [url |-> call[o].key, mode |-> Mode(call[o]), pin |-> None]]'
             = [[o \in Readers |-> [url |-> call[o].key, mode |-> Mode(call[o]), pin |-> None]]
                  EXCEPT ![r] = a]
        /\ [o \in Readers |-> seen[o].window]'
             = [[o \in Readers |-> seen[o].window] EXCEPT ![r] = {content[a.url]}]
    <2>1. \A o \in Readers : [url |-> call[o].key, mode |-> Mode(call[o]), pin |-> None]'
            = IF o = r THEN a
              ELSE [url |-> call[o].key, mode |-> Mode(call[o]), pin |-> None]
      BY <1>2, <1>4, <1>8 DEF Mode
    <2>2. \A o \in Readers : seen'[o].window = IF o = r THEN {content[a.url]} ELSE seen[o].window
      BY <1>2, <1>3, <1>7
    <2>3. QED
      BY <2>1, <2>2
  <1>10. [o \in Readers |-> Answer(o)]' = [[o \in Readers |-> Answer(o)] EXCEPT ![r] = "pending"]
    BY <1>5, <1>6
  <1>11. QED
    BY <1>2, <1>5, <1>7, <1>9, <1>10 DEF Promise!Ask

\* A call that ends without returning raises an error.
LEMMA EndsInError ==
  ASSUME Inv, NEW r \in Readers, Step(r), ~Begin(r), ~Parse(r)
  PROVE  call'[r].at \in Running \cup {"parse"} \/ outcome'[r] \in Errors
  <1>1. /\ call \in [Readers -> Calls] /\ outcome \in [Readers -> Outcomes] /\ call[r] \in Calls
    BY DEF Inv, TypeOK, Outcomes
  <1>2. ASSUME NEW k, Continue(r, k), k.at \in Running PROVE call'[r].at \in Running
    BY <1>1, <1>2 DEF Continue
  <1>3. ASSUME NEW d, Return(r, d) PROVE call'[r].at = "parse"
    BY <1>1, <1>3, AskIsCall DEF Return, Inv
  <1>4. ASSUME NEW how \in Errors, Raise(r, how) PROVE outcome'[r] \in Errors
    BY <1>1, <1>4 DEF Raise
  <1>5. ASSUME Miss(r) PROVE call'[r].at \in Running
    BY <1>1, <1>2, <1>5 DEF Miss, Calls, Running
  <1>6. ASSUME ReadMeta(r) PROVE call'[r].at \in Running
    <2>1. ASSUME NEW m, Continue(r, [call[r] EXCEPT !.at = "verify", !.meta = m])
          PROVE  call'[r].at \in Running
      BY <1>1, <1>2, <2>1 DEF Calls, Running
    <2>2. QED
      BY <1>5, <1>6, <2>1 DEF ReadMeta
  <1>7. ASSUME AnswerTable(r) PROVE call'[r].at \in Running
    <2>1. ASSUME NEW b, Continue(r, [call[r] EXCEPT !.at = "store_blob", !.reply = b])
          PROVE  call'[r].at \in Running
      BY <1>1, <1>2, <2>1 DEF Calls, Running
    <2>2. QED
      BY <1>7, <2>1 DEF AnswerTable
  <1>8. ASSUME StoreBlob(r) PROVE call'[r].at \in Running
    BY <1>1, <1>2, <1>8 DEF StoreBlob, BlobDone, Calls, Running
  <1>9. ASSUME NoCredentials(r) \/ AnswerError(r) \/ AnswerEmpty(r) \/ WriteFails(r) \/ Crash(r)
        PROVE  outcome'[r] \in Errors
    BY <1>4, <1>9 DEF NoCredentials, AnswerError, AnswerEmpty, WriteFails, Crash, Errors
  <1>10. QED
    BY <1>3, <1>5, <1>6, <1>7, <1>8, <1>9 DEF Step, Lookup, Verify, Fetch, Store, StoreMeta

\* A running call's step is a delivery, a failure or a stutter of Fetching; so is the
\* parsing after it.
LEMMA PromiseStep ==
  ASSUME Inv, Inv', NEW r \in Readers, Step(r), ~Begin(r)
  PROVE  Promise!Deliver(r) \/ Promise!Fail(r) \/ UNCHANGED Promise!vars
  <1>1. /\ \A o \in Readers \ {r} :
              call'[o] = call[o] /\ seen'[o] = seen[o] /\ outcome'[o] = outcome[o]
        /\ UNCHANGED <<content, sent>>
    BY OneReader DEF hosts
  <1>2. /\ call'[r].key = call[r].key /\ call'[r].refresh = call[r].refresh
        /\ seen'[r].window = seen[r].window
    BY OwnStep
  <1>3. /\ [o \in Readers |-> [url |-> call[o].key, mode |-> Mode(call[o]), pin |-> None]]'
             = [o \in Readers |-> [url |-> call[o].key, mode |-> Mode(call[o]), pin |-> None]]
        /\ [o \in Readers |-> seen[o].window]' = [o \in Readers |-> seen[o].window]
    BY <1>1, <1>2 DEF Mode
  <1>4. \A o \in Readers \ {r} : Answer(o)' = Answer(o)
    BY <1>1 DEF Answer
  <1>5. outcome'[r] \in Errors \cup {"none"} \cup Digests
    BY DEF Inv, TypeOK
  <1>6. CASE Parse(r)
    <2>1. call[r].at = "parse" /\ outcome'[r] = outcome[r] /\ call'[r].at = "idle"
      BY <1>6 DEF Parse, Continue, Inv, TypeOK, Calls
    <2>2. Answer(r)' = Answer(r)
      BY <2>1 DEF Answer, Running
    <2>3. [o \in Readers |-> Answer(o)]' = [o \in Readers |-> Answer(o)]
      BY <1>4, <2>2
    <2>4. QED
      BY <1>1, <1>3, <2>3 DEF Promise!vars
  <1>7. CASE ~Parse(r)
    <2>1. call[r].at \in Running
      BY <1>7 DEF Step, Lookup, ReadMeta, Verify, Fetch, NoCredentials, AnswerTable,
         AnswerError, AnswerEmpty, Request, Store, StoreBlob, StoreMeta, Storing, WriteFails,
         Crash, Running
    <2>2. Answer(r) = "pending"
      BY <2>1 DEF Answer
    <2>3. CASE call'[r].at \in Running
      <3>1. Answer(r)' = "pending"
        BY <2>3 DEF Answer
      <3>2. [o \in Readers |-> Answer(o)]' = [o \in Readers |-> Answer(o)]
        BY <1>4, <2>2, <3>1
      <3>3. QED
        BY <1>1, <1>3, <3>2 DEF Promise!vars
    <2>4. CASE call'[r].at \notin Running /\ outcome'[r] \in Errors
      <3>1. Answer(r)' = "failed"
        BY <2>4 DEF Answer, Errors
      <3>2. [o \in Readers |-> Answer(o)]' = [[o \in Readers |-> Answer(o)] EXCEPT ![r] = "failed"]
        BY <1>4, <3>1
      <3>3. QED
        BY <1>1, <1>3, <2>2, <3>2 DEF Promise!Fail
    <2>5. CASE call'[r].at \notin Running /\ outcome'[r] \in Digests
      <3>1. Answer(r)' = outcome'[r]
        BY <2>5, DigestsAreNoWords DEF Answer
      <3>2. [o \in Readers |-> Answer(o)]'
              = [[o \in Readers |-> Answer(o)] EXCEPT ![r] = outcome'[r]]
        BY <1>4, <3>1
      <3>3. ReturnedOK(call[r], seen[r], outcome[r], parsed[r])'
        BY <2>5 DEF Inv, CallOK
      <3>4. PICK b \in IF call[r].refresh THEN seen[r].window ELSE sent[call[r].key] :
              outcome'[r] = Sha256[b]
        BY <1>1, <1>2, <3>3 DEF ReturnedOK
      <3>5. call[r].key \in Keys /\ call[r].key # None
        BY <1>2, <3>3, NoneIsNothing DEF ReturnedOK
      <3>6. b \in Promise!Acceptable(r)
        BY <3>4, <3>5 DEF Promise!Acceptable, Mode
      <3>7. QED
        BY <1>1, <1>3, <2>2, <3>2, <3>4, <3>6 DEF Promise!Deliver
    <2>6. outcome'[r] = "none" => call'[r].at \in Running
      <3>1. "none" \notin Errors \cup Digests
        BY DigestsAreNoWords DEF Errors
      <3>2. CallOK(call[r], seen[r], outcome[r], parsed[r])'
        BY DEF Inv
      <3>3. QED
        BY <1>7, <3>1, <3>2, EndsInError DEF CallOK
    <2>7. QED
      BY <1>5, <2>3, <2>4, <2>5, <2>6
  <1>8. QED
    BY <1>6, <1>7

LEMMA PromiseRevise ==
  ASSUME Inv, NEW k \in Keys, Revise(k)
  PROVE  Promise!Publish(k)
  <1>1. PICK b \in Bodies :
        /\ content' = [content EXCEPT ![k] = b]
        /\ sent' = [sent EXCEPT ![k] = @ \cup {b}]
        /\ seen' = [r \in Readers |->
              IF call[r].at \in Running /\ call[r].key = k
              THEN [seen[r] EXCEPT !.window = @ \cup {b}] ELSE seen[r]]
    BY DEF Revise
  <1>2. UNCHANGED <<call, outcome>>
    BY DEF Revise
  <1>3. \A r \in Readers : Answer(r)' = Answer(r)
    BY <1>2 DEF Answer
  <1>4. \A r \in Readers : (Answer(r) = "pending") = (call[r].at \in Running)
    <2>1. \A r \in Readers : outcome[r] \in Errors \cup {"none"} \cup Digests
      BY DEF Inv, TypeOK
    <2>2. "pending" \notin Digests
      BY DigestsAreNoWords
    <2>3. QED
      BY <2>1, <2>2 DEF Answer
  <1>5. \A r \in Readers : seen'[r].window =
          IF Answer(r) = "pending" /\ call[r].key = k
          THEN seen[r].window \cup {b} ELSE seen[r].window
    BY <1>1, <1>4 DEF Inv, TypeOK, Seens
  <1>6. QED
    BY <1>1, <1>2, <1>3, <1>5 DEF Promise!Publish

LEMMA PromiseNext == Inv /\ Inv' /\ [Next]_vars => [Promise!Next]_Promise!vars
  <1> SUFFICES ASSUME Inv, Inv', [Next]_vars PROVE Promise!Next \/ UNCHANGED Promise!vars
    OBVIOUS
  <1>1. ASSUME NEW r \in Readers, Step(r) PROVE Promise!Next \/ UNCHANGED Promise!vars
    BY <1>1, PromiseBegin, PromiseStep DEF Promise!Next
  <1>2. ASSUME NEW k \in Keys, Revise(k) PROVE Promise!Next \/ UNCHANGED Promise!vars
    BY <1>2, PromiseRevise DEF Promise!Next
  <1>3. CASE Tamper \/ UNCHANGED vars
    BY <1>3 DEF Tamper, vars, hosts, Promise!vars, Answer
  <1>4. QED
    BY <1>1, <1>2, <1>3 DEF Next, Step

\* This cache too hands out bodies as Fetching promises, a refresh being a call that
\* revalidates.
THEOREM Implements == Spec => PromiseKept
  <1>1. Init => Promise!Init
    BY PromiseInit
  <1>2. Inv /\ Inv' /\ [Next]_vars => [Promise!Next]_Promise!vars
    BY PromiseNext
  <1>3. QED
    BY <1>1, <1>2, Invariance, PTL DEF Spec, PromiseKept, Promise!Spec
=============================================================================
