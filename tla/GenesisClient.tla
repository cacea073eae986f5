--------------------------- MODULE GenesisClient ---------------------------
(***************************************************************************)
(* destatis/core/api.py: GenesisClient.request, one request at a time.     *)
(*                                                                         *)
(* Every attempt of a request runs under two locks: a threading.Lock per   *)
(* process and host, waited for without limit, and then a file lock per    *)
(* lock directory and host name, waited for at most LOCK_TIMEOUT_SECONDS.  *)
(* Between the attempts of one request (send_with_retry of                 *)
(* govdata/core/client.py) both are released.  The operating system drops  *)
(* the file lock of a process that dies.                                   *)
(*                                                                         *)
(* Time is counted in ticks.  The order in which waiters get a lock is not *)
(* fixed: neither kind of lock queues its waiters.                         *)
(***************************************************************************)
EXTENDS Naturals

CONSTANTS
    Threads,        \* each makes requests of its own client
    ProcOf,         \* the process of a thread
    HostOf,         \* the GenesisHost of its client: [name, base_url]
    DirOf,          \* its lock_dir
    MaxAttempts,    \* client.MAX_ATTEMPTS
    HoldLimit,      \* ticks: connect plus read timeout of a healthy attempt
    LockTimeout,    \* ticks: LOCK_TIMEOUT_SECONDS
    MaxRequests,    \* bound: requests of one thread
    MaxHangs,       \* bound: attempts that never come back
    MaxCrashes,     \* bound: processes that die
    None

ASSUME LimitsAreNat ==
    /\ MaxAttempts \in Nat \ {0} /\ HoldLimit \in Nat \ {0} /\ LockTimeout \in Nat \ {0}
    /\ MaxRequests \in Nat /\ MaxHangs \in Nat /\ MaxCrashes \in Nat
ASSUME NoneIsNoThread == None \notin Threads

Procs == {ProcOf[t] : t \in Threads}

\* Fault: one file lock per process.
OwnLockFile(t) == <<DirOf[t], HostOf[t].name, ProcOf[t]>>

\* The keys of the two locks: _process_locks[(name, base_url)] and lock_path.
ProcLock(t) == <<ProcOf[t], HostOf[t]>>
LockFile(t) == <<DirOf[t], HostOf[t].name>>

ProcLocks == {ProcLock(t) : t \in Threads}
LockFiles == {LockFile(t) : t \in Threads}

VARIABLES
    at,         \* per thread: where in request() it is
    attempt,    \* per thread: the attempt it is on
    reply,      \* per thread: how the attempt ended that it is leaving
    outcome,    \* per thread: how its last request ended
    sent,       \* per thread: history, attempts of this request put on the wire
    requests,   \* per thread: requests made
    procHeld, fileHeld,     \* per lock: its holder or None
    waited,     \* per thread: ticks at the file lock
    held,       \* per thread: ticks of its present attempt, at most HoldLimit
    hung,       \* threads whose attempt does not come back
    hangs, crashes

locks == <<procHeld, fileHeld>>
clocks == <<waited, held>>
faults == <<hung, hangs, crashes>>
vars == <<at, attempt, reply, outcome, sent, requests, locks, clocks, faults>>

Places == {"idle", "proc_lock", "file_lock", "sending", "leaving", "backoff"}
Replies == {"none", "response", "retryable_status", "transport_error"}
Outcomes == {"none", "response", "backend_error", "transport_error", "lock_timeout",
             "os_error", "crashed"}

TypeOK ==
    /\ at \in [Threads -> Places]
    /\ attempt \in [Threads -> 1..MaxAttempts]
    /\ reply \in [Threads -> Replies]
    /\ outcome \in [Threads -> Outcomes]
    /\ sent \in [Threads -> 0..MaxAttempts]
    /\ requests \in [Threads -> 0..MaxRequests]
    /\ procHeld \in [ProcLocks -> Threads \cup {None}]
    /\ fileHeld \in [LockFiles -> Threads \cup {None}]
    /\ waited \in [Threads -> 0..LockTimeout]
    /\ held \in [Threads -> 0..HoldLimit]
    /\ hung \subseteq Threads
    /\ hangs \in 0..MaxHangs
    /\ crashes \in 0..MaxCrashes

Init ==
    /\ at = [t \in Threads |-> "idle"]
    /\ attempt = [t \in Threads |-> 1]
    /\ reply = [t \in Threads |-> "none"]
    /\ outcome = [t \in Threads |-> "none"]
    /\ sent = [t \in Threads |-> 0]
    /\ requests = [t \in Threads |-> 0]
    /\ procHeld = [l \in ProcLocks |-> None]
    /\ fileHeld = [l \in LockFiles |-> None]
    /\ waited = [t \in Threads |-> 0]
    /\ held = [t \in Threads |-> 0]
    /\ hung = {}
    /\ hangs = 0
    /\ crashes = 0

-----------------------------------------------------------------------------
\* One request

Goto(t, place) == at' = [at EXCEPT ![t] = place]
End(t, how) == Goto(t, "idle") /\ outcome' = [outcome EXCEPT ![t] = how]
FreeProc(t) == procHeld' = [procHeld EXCEPT ![ProcLock(t)] = None]
FreeFile(t) == fileHeld' = [fileHeld EXCEPT ![LockFile(t)] = None]

\* The arguments are accepted and the credentials resolve.
Start(t) ==
    /\ at[t] = "idle" /\ requests[t] < MaxRequests
    /\ Goto(t, "proc_lock")
    /\ requests' = [requests EXCEPT ![t] = @ + 1]
    /\ attempt' = [attempt EXCEPT ![t] = 1]
    /\ sent' = [sent EXCEPT ![t] = 0]
    /\ outcome' = [outcome EXCEPT ![t] = "none"]
    /\ UNCHANGED <<reply, locks, clocks, faults>>

TakeProc(t) ==
    /\ at[t] = "proc_lock" /\ procHeld[ProcLock(t)] = None
    /\ procHeld' = [procHeld EXCEPT ![ProcLock(t)] = t]
    /\ Goto(t, "file_lock")
    /\ UNCHANGED <<attempt, reply, outcome, sent, requests, fileHeld, clocks, faults>>

TakeFile(t) ==
    /\ at[t] = "file_lock" /\ fileHeld[LockFile(t)] = None
    /\ fileHeld' = [fileHeld EXCEPT ![LockFile(t)] = t]
    /\ waited' = [waited EXCEPT ![t] = 0]
    /\ sent' = [sent EXCEPT ![t] = @ + 1]
    /\ Goto(t, "sending")
    /\ UNCHANGED <<attempt, reply, outcome, requests, procHeld, held, faults>>

\* Fault: the process lock is kept when the file lock is not had.
GiveUpKeepingLock(t) ==
    /\ at[t] = "file_lock" /\ waited[t] = LockTimeout /\ fileHeld[LockFile(t)] # None
    /\ End(t, "lock_timeout") /\ waited' = [waited EXCEPT ![t] = 0]
    /\ UNCHANGED <<attempt, reply, sent, requests, locks, held, faults>>

\* Fault: no timeout is passed to the file lock.
WaitForever(t) == FALSE /\ UNCHANGED vars

\* filelock's Timeout becomes GenesisBackendError, which is not retried.
GiveUpLock(t) ==
    /\ at[t] = "file_lock" /\ waited[t] = LockTimeout /\ fileHeld[LockFile(t)] # None
    /\ FreeProc(t)
    /\ End(t, "lock_timeout")
    /\ waited' = [waited EXCEPT ![t] = 0]
    /\ UNCHANGED <<attempt, reply, sent, requests, fileHeld, held, faults>>

\* The lock file cannot be opened.
LockBroken(t) ==
    /\ at[t] = "file_lock"
    /\ FreeProc(t)
    /\ End(t, "os_error")
    /\ waited' = [waited EXCEPT ![t] = 0]
    /\ UNCHANGED <<attempt, reply, sent, requests, fileHeld, held, faults>>

\* The attempt comes back, with a response or a transport error; the file lock goes
\* first.
Respond(t) ==
    /\ at[t] = "sending" /\ t \notin hung
    /\ \E r \in Replies \ {"none"} : reply' = [reply EXCEPT ![t] = r]
    /\ FreeFile(t)
    /\ held' = [held EXCEPT ![t] = 0]
    /\ Goto(t, "leaving")
    /\ UNCHANGED <<attempt, outcome, sent, requests, procHeld, waited, faults>>

AttemptsLeft(t) == attempt[t] < MaxAttempts

\* Fault: the process lock is kept over the backoff.
LeaveLate(t) ==
    /\ at[t] = "leaving"
    /\ IF reply[t] = "response" \/ ~AttemptsLeft(t)
       THEN FreeProc(t) /\ End(t, "response") /\ UNCHANGED attempt
       ELSE /\ Goto(t, "backoff") /\ attempt' = [attempt EXCEPT ![t] = @ + 1]
            /\ UNCHANGED <<procHeld, outcome>>
    /\ reply' = [reply EXCEPT ![t] = "none"]
    /\ UNCHANGED <<sent, requests, fileHeld, clocks, faults>>

\* The process lock goes; send_with_retry looks at what came back.  The last retryable
\* status becomes GenesisBackendError, the last transport error is raised as it is.
Leave(t) ==
    /\ at[t] = "leaving"
    /\ FreeProc(t)
    /\ \/ reply[t] = "response" /\ End(t, "response") /\ UNCHANGED attempt
       \/ /\ reply[t] # "response" /\ AttemptsLeft(t)
          /\ Goto(t, "backoff")
          /\ attempt' = [attempt EXCEPT ![t] = @ + 1]
          /\ UNCHANGED outcome
       \/ /\ reply[t] # "response" /\ ~AttemptsLeft(t)
          /\ End(t, IF reply[t] = "retryable_status" THEN "backend_error" ELSE "transport_error")
          /\ UNCHANGED attempt
    /\ reply' = [reply EXCEPT ![t] = "none"]
    /\ UNCHANGED <<sent, requests, fileHeld, clocks, faults>>

\* The wait between two attempts is over.
Wake(t) ==
    /\ at[t] = "backoff"
    /\ Goto(t, "proc_lock")
    /\ UNCHANGED <<attempt, reply, outcome, sent, requests, locks, clocks, faults>>

-----------------------------------------------------------------------------
\* Time, stuck holders and crashes

\* A tick passes: no healthy attempt outlasts HoldLimit, and a waiter polls often
\* enough to have taken a free lock, or to have given up, before the next tick.
Tick ==
    /\ \E t \in Threads : at[t] \in {"file_lock", "sending"}
    /\ \A t \in Threads :
        /\ at[t] = "sending" /\ t \notin hung => held[t] < HoldLimit
        /\ at[t] = "file_lock" => waited[t] < LockTimeout /\ fileHeld[LockFile(t)] # None
    /\ waited' = [t \in Threads |-> IF at[t] = "file_lock" THEN waited[t] + 1 ELSE waited[t]]
    /\ held' = [t \in Threads |->
          IF at[t] = "sending" /\ held[t] < HoldLimit THEN held[t] + 1 ELSE held[t]]
    /\ UNCHANGED <<at, attempt, reply, outcome, sent, requests, locks, faults>>

\* An attempt gets stuck under its locks, for good.
Hang(t) ==
    /\ at[t] = "sending" /\ t \notin hung /\ hangs < MaxHangs
    /\ hung' = hung \cup {t}
    /\ hangs' = hangs + 1
    /\ UNCHANGED <<at, attempt, reply, outcome, sent, requests, locks, clocks, crashes>>

\* A process dies, with its threads and its process locks; its file locks are dropped.
Crash(p) ==
    LET dead == {t \in Threads : ProcOf[t] = p /\ at[t] # "idle"} IN
    /\ dead # {} /\ crashes < MaxCrashes
    /\ crashes' = crashes + 1
    /\ at' = [t \in Threads |-> IF t \in dead THEN "idle" ELSE at[t]]
    /\ outcome' = [t \in Threads |-> IF t \in dead THEN "crashed" ELSE outcome[t]]
    /\ procHeld' = [l \in ProcLocks |-> IF procHeld[l] \in dead THEN None ELSE procHeld[l]]
    /\ fileHeld' = [l \in LockFiles |-> IF fileHeld[l] \in dead THEN None ELSE fileHeld[l]]
    /\ reply' = [t \in Threads |-> IF t \in dead THEN "none" ELSE reply[t]]
    /\ waited' = [t \in Threads |-> IF t \in dead THEN 0 ELSE waited[t]]
    /\ held' = [t \in Threads |-> IF t \in dead THEN 0 ELSE held[t]]
    /\ hung' = hung \ dead
    /\ UNCHANGED <<attempt, sent, requests, hangs>>

\* What a thread does by itself once its request has started.
Advance(t) == TakeProc(t) \/ TakeFile(t) \/ GiveUpLock(t) \/ Respond(t) \/ Leave(t) \/ Wake(t)

Next ==
    \/ \E t \in Threads : Start(t) \/ Advance(t) \/ LockBroken(t) \/ Hang(t)
    \/ \E p \in Procs : Crash(p)
    \/ Tick

Spec == Init /\ [][Next]_vars

\* A thread that can go on does, and time passes.  Nothing is assumed of who gets a
\* contended lock.
FairSpec == Spec /\ WF_vars(Tick) /\ \A t \in Threads : WF_vars(Advance(t))

-----------------------------------------------------------------------------
\* Properties

\* "this process's threads, then every process sharing the lock file": two requests
\* to one host are never on the wire together when they come from one process or
\* share a lock directory, whatever times out, fails, hangs or dies.
OneAtATime ==
    \A s, t \in Threads :
        (/\ s # t /\ at[s] = "sending" /\ at[t] = "sending"
         /\ HostOf[s] = HostOf[t])
            => ProcOf[s] # ProcOf[t] /\ DirOf[s] # DirOf[t]

\* A lock is held by a thread inside an attempt and by nobody else: none is left
\* behind by a retry, a timeout, an error or a crash, or kept over a backoff
\* (test_lock_is_released_between_retry_attempts).
NoLockLeaks ==
    /\ \A l \in ProcLocks : procHeld[l] # None =>
          at[procHeld[l]] \in {"file_lock", "sending", "leaving"}
    /\ \A l \in LockFiles : fileHeld[l] # None => at[fileHeld[l]] = "sending"

\* A server sees a request at most MaxAttempts times, and the client gives up on the
\* server only after that many: an earlier end is a response, a lock or a crash.
PoliteTraffic ==
    \A t \in Threads :
        /\ sent[t] <= MaxAttempts
        /\ outcome[t] \in {"backend_error", "transport_error"} => sent[t] = MaxAttempts
        /\ outcome[t] = "lock_timeout" => sent[t] < MaxAttempts

\* Every request ends, in a response or an error, as long as no attempt hangs: the
\* two locks and the retries between them neither deadlock nor wait for ever.
RequestsEnd ==
    \A t \in Threads : at[t] # "idle" ~> at[t] = "idle" \/ hung # {}

\* "test_stuck_lock_holder_fails_loud": a request waiting for the file lock stops
\* waiting even if the holder never lets go.
FileWaitersMoveOn ==
    \A t \in Threads : at[t] = "file_lock" ~> at[t] # "file_lock"

\* "One attempt holds the lock for at most connect plus read timeout; anything longer
\* is a stuck holder" (the comment at LOCK_TIMEOUT_SECONDS): a request that times out
\* at the file lock met a stuck holder.
TimeoutMeansStuckHolder ==
    \A t \in Threads : outcome[t] = "lock_timeout" => hung # {}
=============================================================================
