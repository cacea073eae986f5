------------------------ MODULE GenesisClientProofs ------------------------
(***************************************************************************)
(* Proofs about GenesisClient.tla: types, who holds which lock, that two   *)
(* requests to one host never overlap, and how often a request is sent;    *)
(* and what its liveness rests on: a measure that a request's own steps    *)
(* lower, and locks that do not wait for each other.                       *)
(***************************************************************************)
EXTENDS GenesisClient, TLAPS

\* A lock is held by exactly the threads whose place in the code is under it.
LocksOK ==
    /\ \A t \in Threads :
        /\ (procHeld[ProcLock(t)] = t) <=> (at[t] \in {"file_lock", "sending", "leaving"})
        /\ (fileHeld[LockFile(t)] = t) <=> (at[t] = "sending")
    /\ \A l \in ProcLocks : procHeld[l] # None => l = ProcLock(procHeld[l])
    /\ \A l \in LockFiles : fileHeld[l] # None => l = LockFile(fileHeld[l])

\* The attempts put on the wire are those begun; a request that gave up on the
\* server used them all.
CountOK(t) ==
    /\ at[t] \in {"proc_lock", "file_lock", "backoff"} => sent[t] = attempt[t] - 1
    /\ at[t] \in {"sending", "leaving"} => sent[t] = attempt[t]
    /\ at[t] # "idle" => outcome[t] = "none"
    /\ outcome[t] \in {"backend_error", "transport_error"} => sent[t] = MaxAttempts
    /\ outcome[t] = "lock_timeout" => sent[t] < MaxAttempts

Inv == TypeOK /\ LocksOK /\ \A t \in Threads : CountOK(t)

LEMMA LocksExist ==
  ASSUME NEW t \in Threads
  PROVE  ProcLock(t) \in ProcLocks /\ LockFile(t) \in LockFiles
  BY DEF ProcLocks, LockFiles

LEMMA InitInv == Init => Inv
  <1> SUFFICES ASSUME Init PROVE Inv
    OBVIOUS
  <1>1. TypeOK
    BY LimitsAreNat DEF Init, TypeOK, Places, Replies, Outcomes
  <1>2. LocksOK
    BY LocksExist, NoneIsNoThread DEF Init, LocksOK
  <1>3. \A t \in Threads : CountOK(t)
    BY DEF Init, CountOK
  <1>4. QED
    BY <1>1, <1>2, <1>3 DEF Inv

\* The holders after a step of t: t takes or frees its process lock, then its file
\* lock, and no other lock changes hands.
LEMMA HoldersStep ==
  ASSUME Inv, TypeOK', NEW t \in Threads, NEW place,
         at' = [at EXCEPT ![t] = place],
         procHeld' = procHeld \/ procHeld' = [procHeld EXCEPT ![ProcLock(t)] = t]
                              \/ procHeld' = [procHeld EXCEPT ![ProcLock(t)] = None],
         fileHeld' = fileHeld \/ fileHeld' = [fileHeld EXCEPT ![LockFile(t)] = t]
                              \/ fileHeld' = [fileHeld EXCEPT ![LockFile(t)] = None],
         procHeld' # procHeld => procHeld[ProcLock(t)] \in {t, None},
         fileHeld' # fileHeld => fileHeld[LockFile(t)] \in {t, None},
         (procHeld'[ProcLock(t)] = t) <=> (place \in {"file_lock", "sending", "leaving"}),
         (fileHeld'[LockFile(t)] = t) <=> (place = "sending")
  PROVE  LocksOK'
  <1>1. /\ procHeld \in [ProcLocks -> Threads \cup {None}]
        /\ fileHeld \in [LockFiles -> Threads \cup {None}]
        /\ at'[t] = place /\ \A s \in Threads \ {t} : at'[s] = at[s]
    BY DEF Inv, TypeOK
  <1>2. /\ \A l \in ProcLocks \ {ProcLock(t)} : procHeld'[l] = procHeld[l]
        /\ \A l \in LockFiles \ {LockFile(t)} : fileHeld'[l] = fileHeld[l]
        /\ procHeld'[ProcLock(t)] \in {procHeld[ProcLock(t)], t, None}
        /\ fileHeld'[LockFile(t)] \in {fileHeld[LockFile(t)], t, None}
    BY <1>1, LocksExist
  <1>3. ASSUME NEW s \in Threads
        PROVE  /\ (procHeld'[ProcLock(s)] = s) <=> (at'[s] \in {"file_lock", "sending", "leaving"})
               /\ (fileHeld'[LockFile(s)] = s) <=> (at'[s] = "sending")
    <2>1. CASE s = t
      BY <1>1, <2>1
    <2>2. CASE s # t
      <3>1. (procHeld'[ProcLock(s)] = s) <=> (procHeld[ProcLock(s)] = s)
        BY <1>1, <1>2, <2>2, LocksExist, NoneIsNoThread
      <3>2. (fileHeld'[LockFile(s)] = s) <=> (fileHeld[LockFile(s)] = s)
        BY <1>1, <1>2, <2>2, LocksExist, NoneIsNoThread
      <3>3. QED
        BY <1>1, <2>2, <3>1, <3>2 DEF Inv, LocksOK
    <2>3. QED
      BY <2>1, <2>2
  <1>4. \A l \in ProcLocks : procHeld'[l] # None => l = ProcLock(procHeld'[l])
    BY <1>1, <1>2, LocksExist DEF Inv, LocksOK
  <1>5. \A l \in LockFiles : fileHeld'[l] # None => l = LockFile(fileHeld'[l])
    BY <1>1, <1>2, LocksExist DEF Inv, LocksOK
  <1>6. QED
    BY <1>3, <1>4, <1>5 DEF LocksOK, ProcLock, LockFile

\* A thread's own step.
LEMMA ThreadStep ==
  ASSUME Inv, NEW t \in Threads, Start(t) \/ Advance(t) \/ LockBroken(t)
  PROVE  Inv'
  <1>1. /\ at \in [Threads -> Places] /\ attempt \in [Threads -> 1..MaxAttempts]
        /\ sent \in [Threads -> 0..MaxAttempts] /\ outcome \in [Threads -> Outcomes]
        /\ procHeld \in [ProcLocks -> Threads \cup {None}]
        /\ fileHeld \in [LockFiles -> Threads \cup {None}]
        /\ MaxAttempts \in Nat \ {0}
        /\ 0 \in 0..LockTimeout /\ 0 \in 0..HoldLimit
    BY LimitsAreNat DEF Inv, TypeOK
  <1>2. /\ CountOK(t)
        /\ (procHeld[ProcLock(t)] = t) <=> (at[t] \in {"file_lock", "sending", "leaving"})
        /\ (fileHeld[LockFile(t)] = t) <=> (at[t] = "sending")
        /\ ProcLock(t) \in ProcLocks /\ LockFile(t) \in LockFiles
    BY LocksExist DEF Inv, LocksOK
  <1>3. ASSUME NEW s \in Threads \ {t},
               at'[s] = at[s], sent'[s] = sent[s], attempt'[s] = attempt[s], outcome'[s] = outcome[s]
        PROVE  CountOK(s)'
    BY <1>3 DEF Inv, CountOK
  <1>4. CASE Start(t)
    <2>1. TypeOK'
      BY <1>4, LimitsAreNat DEF Start, Goto, locks, clocks, faults, Inv, TypeOK, Places, Outcomes
    <2>2. LocksOK'
      BY <1>1, <1>2, <1>4, <2>1, NoneIsNoThread, HoldersStep DEF Start, Goto, locks
    <2>3. ASSUME NEW s \in Threads PROVE CountOK(s)'
      BY <1>1, <1>3, <1>4 DEF Start, Goto, CountOK
    <2>4. QED
      BY <2>1, <2>2, <2>3 DEF Inv
  <1>5. CASE TakeProc(t)
    <2>1. TypeOK'
      BY <1>5 DEF TakeProc, Goto, clocks, faults, Inv, TypeOK, Places
    <2>2. LocksOK'
      BY <1>1, <1>2, <1>5, <2>1, HoldersStep DEF TakeProc, Goto
    <2>3. ASSUME NEW s \in Threads PROVE CountOK(s)'
      BY <1>1, <1>2, <1>3, <1>5 DEF TakeProc, Goto, CountOK
    <2>4. QED
      BY <2>1, <2>2, <2>3 DEF Inv
  <1>6. CASE TakeFile(t)
    <2>1. sent[t] + 1 \in 0..MaxAttempts
      BY <1>1, <1>2, <1>6 DEF TakeFile, CountOK
    <2>2. TypeOK'
      BY <1>1, <1>6, <2>1 DEF TakeFile, Goto, faults, Inv, TypeOK, Places
    <2>3. LocksOK'
      BY <1>1, <1>2, <1>6, <2>2, HoldersStep DEF TakeFile, Goto
    <2>4. ASSUME NEW s \in Threads PROVE CountOK(s)'
      BY <1>1, <1>2, <1>3, <1>6 DEF TakeFile, Goto, CountOK
    <2>5. QED
      BY <2>2, <2>3, <2>4 DEF Inv
  <1>7. CASE GiveUpLock(t) \/ LockBroken(t)
    <2>1. PICK how \in {"lock_timeout", "os_error"} :
            /\ at[t] = "file_lock" /\ End(t, how) /\ FreeProc(t)
            /\ waited' = [waited EXCEPT ![t] = 0]
            /\ UNCHANGED <<attempt, reply, sent, requests, fileHeld, held, faults>>
      BY <1>7 DEF GiveUpLock, LockBroken
    <2>2. TypeOK'
      BY <1>1, <2>1 DEF End, FreeProc, Goto, faults, Inv, TypeOK, Places, Outcomes
    <2>3. LocksOK'
      BY <1>1, <1>2, <2>1, <2>2, NoneIsNoThread, HoldersStep DEF End, FreeProc, Goto
    <2>4. ASSUME NEW s \in Threads PROVE CountOK(s)'
      BY <1>1, <1>2, <1>3, <2>1 DEF End, Goto, CountOK
    <2>5. QED
      BY <2>2, <2>3, <2>4 DEF Inv
  <1>8. CASE Respond(t)
    <2>1. TypeOK'
      BY <1>1, <1>8 DEF Respond, Goto, FreeFile, faults, Inv, TypeOK, Places, Replies
    <2>2. LocksOK'
      BY <1>1, <1>2, <1>8, <2>1, NoneIsNoThread, HoldersStep DEF Respond, FreeFile, Goto
    <2>3. ASSUME NEW s \in Threads PROVE CountOK(s)'
      BY <1>1, <1>2, <1>3, <1>8 DEF Respond, Goto, CountOK
    <2>4. QED
      BY <2>1, <2>2, <2>3 DEF Inv
  <1>9. CASE Leave(t)
    <2>1. /\ at[t] = "leaving" /\ FreeProc(t)
          /\ reply' = [reply EXCEPT ![t] = "none"]
          /\ UNCHANGED <<sent, requests, fileHeld, clocks, faults>>
      BY <1>9 DEF Leave
    <2>2. CASE \E how \in Outcomes :
                 /\ how \notin {"none", "lock_timeout"} /\ End(t, how) /\ UNCHANGED attempt
                 /\ how \in {"backend_error", "transport_error"} => ~AttemptsLeft(t)
      <3>1. PICK how \in Outcomes :
                 /\ how \notin {"none", "lock_timeout"} /\ End(t, how) /\ UNCHANGED attempt
                 /\ how \in {"backend_error", "transport_error"} => ~AttemptsLeft(t)
        BY <2>2
      <3>2. TypeOK'
        BY <2>1, <3>1 DEF End, FreeProc, Goto, clocks, faults, Inv, TypeOK, Places, Replies
      <3>3. LocksOK'
        BY <1>1, <1>2, <2>1, <3>1, <3>2, NoneIsNoThread, HoldersStep DEF End, FreeProc, Goto
      <3>4. ASSUME NEW s \in Threads PROVE CountOK(s)'
        BY <1>1, <1>2, <1>3, <2>1, <3>1 DEF End, Goto, CountOK, AttemptsLeft
      <3>5. QED
        BY <3>2, <3>3, <3>4 DEF Inv
    <2>3. CASE /\ AttemptsLeft(t) /\ Goto(t, "backoff")
               /\ attempt' = [attempt EXCEPT ![t] = @ + 1] /\ UNCHANGED outcome
      <3>1. attempt[t] + 1 \in 1..MaxAttempts
        BY <1>1, <2>3 DEF AttemptsLeft
      <3>2. TypeOK'
        BY <2>1, <2>3, <3>1 DEF FreeProc, Goto, clocks, faults, Inv, TypeOK, Places, Replies
      <3>3. LocksOK'
        BY <1>1, <1>2, <2>1, <2>3, <3>2, NoneIsNoThread, HoldersStep DEF FreeProc, Goto
      <3>4. ASSUME NEW s \in Threads PROVE CountOK(s)'
        BY <1>1, <1>2, <1>3, <2>1, <2>3 DEF Goto, CountOK
      <3>5. QED
        BY <3>2, <3>3, <3>4 DEF Inv
    <2>4. QED
      BY <1>9, <2>2, <2>3 DEF Leave, Outcomes
  <1>10. CASE Wake(t)
    <2>1. TypeOK'
      BY <1>10 DEF Wake, Goto, locks, clocks, faults, Inv, TypeOK, Places
    <2>2. LocksOK'
      BY <1>1, <1>2, <1>10, <2>1, NoneIsNoThread, HoldersStep DEF Wake, Goto, locks
    <2>3. ASSUME NEW s \in Threads PROVE CountOK(s)'
      BY <1>1, <1>2, <1>3, <1>10 DEF Wake, Goto, CountOK
    <2>4. QED
      BY <2>1, <2>2, <2>3 DEF Inv
  <1>11. QED
    BY <1>4, <1>5, <1>6, <1>7, <1>8, <1>9, <1>10 DEF Advance

\* A crash frees what the dead threads held and nothing else.
LEMMA CrashStep ==
  ASSUME Inv, NEW p \in Procs, Crash(p)
  PROVE  Inv'
  <1> DEFINE dead == {t \in Threads : ProcOf[t] = p /\ at[t] # "idle"}
  <1>1. /\ crashes < MaxCrashes /\ crashes' = crashes + 1
        /\ at' = [t \in Threads |-> IF t \in dead THEN "idle" ELSE at[t]]
        /\ outcome' = [t \in Threads |-> IF t \in dead THEN "crashed" ELSE outcome[t]]
        /\ procHeld' = [l \in ProcLocks |-> IF procHeld[l] \in dead THEN None ELSE procHeld[l]]
        /\ fileHeld' = [l \in LockFiles |-> IF fileHeld[l] \in dead THEN None ELSE fileHeld[l]]
        /\ reply' = [t \in Threads |-> IF t \in dead THEN "none" ELSE reply[t]]
        /\ waited' = [t \in Threads |-> IF t \in dead THEN 0 ELSE waited[t]]
        /\ held' = [t \in Threads |-> IF t \in dead THEN 0 ELSE held[t]]
        /\ hung' = hung \ dead
        /\ UNCHANGED <<attempt, sent, requests, hangs>>
    BY DEF Crash
  <1>2. dead \subseteq Threads
    OBVIOUS
  <1> HIDE DEF dead
  <1>3. TypeOK'
    BY <1>1, <1>2, LimitsAreNat DEF Inv, TypeOK, Places, Replies, Outcomes
  <1>4. LocksOK'
    <2>1. ASSUME NEW t \in Threads
          PROVE  /\ (procHeld'[ProcLock(t)] = t) <=> (at'[t] \in {"file_lock", "sending", "leaving"})
                 /\ (fileHeld'[LockFile(t)] = t) <=> (at'[t] = "sending")
      <3>1. /\ procHeld'[ProcLock(t)] = IF procHeld[ProcLock(t)] \in dead THEN None ELSE procHeld[ProcLock(t)]
            /\ fileHeld'[LockFile(t)] = IF fileHeld[LockFile(t)] \in dead THEN None ELSE fileHeld[LockFile(t)]
            /\ at'[t] = IF t \in dead THEN "idle" ELSE at[t]
        BY <1>1, LocksExist
      <3>2. QED
        BY <3>1, NoneIsNoThread DEF Inv, LocksOK
    <2>2. \A l \in ProcLocks : procHeld'[l] # None => l = ProcLock(procHeld'[l])
      BY <1>1 DEF Inv, LocksOK
    <2>3. \A l \in LockFiles : fileHeld'[l] # None => l = LockFile(fileHeld'[l])
      BY <1>1 DEF Inv, LocksOK
    <2>4. QED
      BY <2>1, <2>2, <2>3 DEF LocksOK, ProcLock, LockFile
  <1>5. ASSUME NEW t \in Threads PROVE CountOK(t)'
    BY <1>1 DEF Inv, CountOK
  <1>6. QED
    BY <1>3, <1>4, <1>5 DEF Inv

LEMMA NextInv == Inv /\ [Next]_vars => Inv'
  <1> SUFFICES ASSUME Inv, [Next]_vars PROVE Inv'
    OBVIOUS
  <1>1. CASE Tick
    <2>1. UNCHANGED <<at, attempt, reply, outcome, sent, requests, procHeld, fileHeld,
                      hung, hangs, crashes>>
      BY <1>1 DEF Tick, locks, faults
    <2>2. waited' \in [Threads -> 0..LockTimeout] /\ held' \in [Threads -> 0..HoldLimit]
      <3>1. ASSUME NEW t \in Threads
            PROVE  /\ (IF at[t] = "file_lock" THEN waited[t] + 1 ELSE waited[t]) \in 0..LockTimeout
                   /\ (IF at[t] = "sending" /\ held[t] < HoldLimit THEN held[t] + 1 ELSE held[t])
                        \in 0..HoldLimit
        BY <1>1, LimitsAreNat DEF Tick, Inv, TypeOK
      <3>2. QED
        BY <1>1, <3>1 DEF Tick
    <2>3. TypeOK'
      BY <2>1, <2>2 DEF Inv, TypeOK
    <2>4. QED
      BY <2>1, <2>3 DEF Inv, LocksOK, CountOK, ProcLock, LockFile
  <1>2. ASSUME NEW t \in Threads, Hang(t) PROVE Inv'
    <2>1. TypeOK'
      BY <1>2, LimitsAreNat DEF Hang, locks, clocks, Inv, TypeOK
    <2>2. QED
      BY <1>2, <2>1 DEF Hang, locks, Inv, LocksOK, CountOK, ProcLock, LockFile
  <1>3. CASE UNCHANGED vars
    BY <1>3 DEF vars, locks, clocks, faults, Inv, TypeOK, LocksOK, CountOK, ProcLock, LockFile
  <1>4. QED
    BY <1>1, <1>2, <1>3, ThreadStep, CrashStep DEF Next

\* Lock holders, places and counters agree in every state, whatever hangs or dies.
THEOREM Invariance == Spec => []Inv
  <1>1. Init => Inv
    BY InitInv
  <1>2. Inv /\ [Next]_vars => Inv'
    BY NextInv
  <1>3. QED
    BY <1>1, <1>2, PTL DEF Spec

\* Every variable keeps its type: attempts stay within MaxAttempts, a waiter's clock
\* within LockTimeout, a healthy attempt within HoldLimit.
THEOREM TypeCorrect == Spec => []TypeOK
  <1>1. Inv => TypeOK
    BY DEF Inv
  <1>2. QED
    BY <1>1, Invariance, PTL

\* Two requests to one host are never on the wire together when they share a process
\* or a lock directory, for any number of threads, processes and directories.
THEOREM MutualExclusion == Spec => []OneAtATime
  <1>1. Inv => OneAtATime
    <2> SUFFICES ASSUME Inv, NEW s \in Threads, NEW t \in Threads,
                        at[s] = "sending", at[t] = "sending", HostOf[s] = HostOf[t],
                        ProcOf[s] = ProcOf[t] \/ DirOf[s] = DirOf[t]
                 PROVE  s = t
      BY DEF OneAtATime
    <2>1. /\ procHeld[ProcLock(s)] = s /\ procHeld[ProcLock(t)] = t
          /\ fileHeld[LockFile(s)] = s /\ fileHeld[LockFile(t)] = t
      BY DEF Inv, LocksOK
    <2>2. ProcLock(s) = ProcLock(t) \/ LockFile(s) = LockFile(t)
      BY DEF ProcLock, LockFile
    <2>3. QED
      BY <2>1, <2>2
  <1>2. QED
    BY <1>1, Invariance, PTL

\* No lock is left behind: its holder is inside an attempt.
THEOREM LocksReleased == Spec => []NoLockLeaks
  <1>1. Inv => NoLockLeaks
    BY NoneIsNoThread DEF Inv, TypeOK, LocksOK, NoLockLeaks
  <1>2. QED
    BY <1>1, Invariance, PTL

\* A request is sent at most MaxAttempts times and not given up on before.
THEOREM Politeness == Spec => []PoliteTraffic
  <1>1. Inv => PoliteTraffic
    <2> SUFFICES ASSUME Inv, NEW t \in Threads
                 PROVE  /\ sent[t] <= MaxAttempts
                        /\ outcome[t] \in {"backend_error", "transport_error"} => sent[t] = MaxAttempts
                        /\ outcome[t] = "lock_timeout" => sent[t] < MaxAttempts
      BY DEF PoliteTraffic
    <2>1. sent[t] \in 0..MaxAttempts /\ CountOK(t)
      BY DEF Inv, TypeOK
    <2>2. QED
      BY <2>1, LimitsAreNat DEF CountOK
  <1>2. QED
    BY <1>1, Invariance, PTL
-----------------------------------------------------------------------------
\* Towards the end of a request: what its liveness rests on, without the fairness

\* How far an attempt has come, from the wait before it to the release of its locks.
Ahead(place) ==
    IF place = "backoff" THEN 5 ELSE IF place = "proc_lock" THEN 4 ELSE IF place = "file_lock" THEN 3
    ELSE IF place = "sending" THEN 2 ELSE IF place = "leaving" THEN 1 ELSE 0

\* The steps of its own that a request has before it, at most.
StepsLeft(t) == IF at[t] = "idle" THEN 0 ELSE 5 * (MaxAttempts - attempt[t]) + Ahead(at[t])

\* A thread's own step brings its request nearer to its end, and nothing but a new
\* request of its own takes it further away.
GoesForward ==
    \A t \in Threads :
        /\ Advance(t) => StepsLeft(t)' < StepsLeft(t)
        /\ StepsLeft(t)' > StepsLeft(t) => Start(t)

\* The guards of Advance(t) and of Tick.
CanAdvance(t) ==
    \/ at[t] = "proc_lock" /\ procHeld[ProcLock(t)] = None
    \/ at[t] = "file_lock" /\ (fileHeld[LockFile(t)] = None \/ waited[t] = LockTimeout)
    \/ at[t] = "sending" /\ t \notin hung
    \/ at[t] \in {"leaving", "backoff"}

TimeCanPass ==
    /\ \E t \in Threads : at[t] \in {"file_lock", "sending"}
    /\ \A t \in Threads :
        /\ at[t] = "sending" /\ t \notin hung => held[t] < HoldLimit
        /\ at[t] = "file_lock" => waited[t] < LockTimeout /\ fileHeld[LockFile(t)] # None

\* As long as a request runs, some thread can go on by itself: at once when no attempt
\* hangs, or else once time has passed.  No two locks wait for each other.
SomebodyCanGoOn ==
    (\E t \in Threads : at[t] # "idle") =>
        /\ (\E t \in Threads : CanAdvance(t)) \/ TimeCanPass
        /\ hung = {} => \E t \in Threads : CanAdvance(t)

\* Each tick that passes is counted for every waiter at a file lock, and no step of
\* another thread sets its clock back.
WaitIsCounted ==
    \A t \in Threads : at[t] = "file_lock" =>
        /\ Tick => waited'[t] = waited[t] + 1 /\ at'[t] = "file_lock"
        /\ waited'[t] < waited[t] => at'[t] # "file_lock"

\* At the end of its time a waiter can go on, and time cannot.
WaitIsBounded ==
    \A t \in Threads :
        /\ waited[t] \in 0..LockTimeout
        /\ at[t] = "file_lock" /\ waited[t] = LockTimeout => CanAdvance(t) /\ ~TimeCanPass

LEMMA StepsAreCounted ==
  ASSUME Inv, NEW t \in Threads
  PROVE  /\ attempt[t] \in 1..MaxAttempts /\ at[t] \in Places /\ MaxAttempts \in Nat \ {0}
         /\ StepsLeft(t) \in 0..5 * MaxAttempts
         /\ (StepsLeft(t) = 0 <=> at[t] = "idle")
  <1>1. attempt[t] \in 1..MaxAttempts /\ at[t] \in Places /\ MaxAttempts \in Nat \ {0}
    BY LimitsAreNat DEF Inv, TypeOK
  <1>2. PICK left \in 0..MaxAttempts - 1 : left = MaxAttempts - attempt[t]
    BY <1>1
  <1>3. Ahead(at[t]) \in 0..5 /\ (Ahead(at[t]) = 0 <=> at[t] = "idle")
    BY <1>1 DEF Ahead, Places
  <1>4. CASE at[t] = "idle"
    BY <1>1, <1>4 DEF StepsLeft
  <1>5. CASE at[t] # "idle"
    <2>1. StepsLeft(t) = 5 * left + Ahead(at[t]) /\ Ahead(at[t]) \in 1..5
      BY <1>2, <1>3, <1>5 DEF StepsLeft
    <2>2. QED
      BY <1>1, <1>5, <2>1
  <1>6. QED
    BY <1>4, <1>5

LEMMA AdvanceGoesForward ==
  ASSUME Inv, Inv', NEW t \in Threads, Advance(t)
  PROVE  StepsLeft(t)' < StepsLeft(t) /\ StepsLeft(t)' \in Nat
  <1>1. /\ attempt[t] \in 1..MaxAttempts /\ at[t] \in Places /\ MaxAttempts \in Nat
        /\ at \in [Threads -> Places] /\ attempt \in [Threads -> 1..MaxAttempts]
        /\ attempt'[t] \in 1..MaxAttempts
    BY StepsAreCounted DEF Inv, TypeOK
  <1>2. StepsLeft(t)' = IF at'[t] = "idle" THEN 0 ELSE 5 * (MaxAttempts - attempt'[t]) + Ahead(at'[t])
    BY DEF StepsLeft
  <1>3. CASE at'[t] = "idle" /\ at[t] # "idle"
    BY <1>2, <1>3, StepsAreCounted
  <1>4. CASE /\ attempt'[t] = attempt[t] /\ at[t] # "idle" /\ at'[t] # "idle"
             /\ Ahead(at'[t]) < Ahead(at[t])
    BY <1>1, <1>2, <1>4 DEF StepsLeft, Ahead
  <1>5. CASE at[t] = "leaving" /\ at'[t] = "backoff" /\ attempt'[t] = attempt[t] + 1
    BY <1>1, <1>2, <1>5 DEF StepsLeft, Ahead
  <1>6. CASE TakeProc(t)
    BY <1>1, <1>4, <1>6 DEF TakeProc, Goto, Ahead
  <1>7. CASE TakeFile(t)
    BY <1>1, <1>4, <1>7 DEF TakeFile, Goto, Ahead
  <1>8. CASE GiveUpLock(t)
    BY <1>1, <1>3, <1>8 DEF GiveUpLock, End, Goto
  <1>9. CASE Respond(t)
    BY <1>1, <1>4, <1>9 DEF Respond, Goto, Ahead
  <1>10. CASE Leave(t)
    BY <1>1, <1>3, <1>5, <1>10 DEF Leave, End, Goto
  <1>11. CASE Wake(t)
    BY <1>1, <1>4, <1>11 DEF Wake, Goto, Ahead
  <1>12. StepsLeft(t)' \in Nat
    <2>1. PICK left \in Nat : left = MaxAttempts - attempt'[t]
      BY <1>1
    <2>2. Ahead(at'[t]) \in Nat
      BY DEF Ahead
    <2>3. QED
      BY <1>2, <2>1, <2>2
  <1>13. QED
    BY <1>6, <1>7, <1>8, <1>9, <1>10, <1>11, <1>12 DEF Advance

\* The steps of others, of time and of faults.
LEMMA OthersTakeNothing ==
  ASSUME Inv, [Next]_vars, NEW t \in Threads, ~Start(t), ~Advance(t)
  PROVE  at'[t] = "idle" \/ (at'[t] = at[t] /\ attempt'[t] = attempt[t])
  <1>1. at \in [Threads -> Places] /\ attempt \in [Threads -> 1..MaxAttempts]
    BY DEF Inv, TypeOK
  <1>2. ASSUME NEW s \in Threads, Start(s) \/ Advance(s), s # t
        PROVE  at'[t] = at[t] /\ attempt'[t] = attempt[t]
    <2>1. \E place : Goto(s, place)
      BY <1>2 DEF Start, Advance, TakeProc, TakeFile, GiveUpLock, Respond, Leave, Wake, End
    <2>2. attempt' = attempt \/ \E n : attempt' = [attempt EXCEPT ![s] = n]
      BY <1>2 DEF Start, Advance, TakeProc, TakeFile, GiveUpLock, Respond, Leave, Wake
    <2>3. QED
      BY <1>1, <1>2, <2>1, <2>2 DEF Goto
  <1>3. ASSUME NEW s \in Threads, LockBroken(s)
        PROVE  at'[t] = "idle" \/ (at'[t] = at[t] /\ attempt'[t] = attempt[t])
    BY <1>1, <1>3 DEF LockBroken, End, Goto
  <1>4. ASSUME NEW s \in Threads, Hang(s)
        PROVE  at'[t] = at[t] /\ attempt'[t] = attempt[t]
    BY <1>4 DEF Hang
  <1>5. ASSUME NEW p \in Procs, Crash(p)
        PROVE  at'[t] = "idle" \/ (at'[t] = at[t] /\ attempt'[t] = attempt[t])
    BY <1>1, <1>5 DEF Crash
  <1>6. CASE Tick
    BY <1>6 DEF Tick
  <1>7. CASE UNCHANGED vars
    BY <1>7 DEF vars
  <1>8. QED
    BY <1>2, <1>3, <1>4, <1>5, <1>6, <1>7 DEF Next

\* A request has at most five steps of its own for each of its attempts, each of them
\* brings it nearer to its end, and no step of another thread, no tick, hang or crash
\* takes it further away: it cannot go on for ever, whatever the schedule.
THEOREM RequestsGoForward ==
  Spec => /\ [](\A t \in Threads : StepsLeft(t) \in 0..5 * MaxAttempts /\ (StepsLeft(t) = 0 <=> at[t] = "idle"))
          /\ [][GoesForward]_vars
  <1>1. Inv => \A t \in Threads : StepsLeft(t) \in 0..5 * MaxAttempts /\ (StepsLeft(t) = 0 <=> at[t] = "idle")
    BY StepsAreCounted
  <1>2. Inv /\ Inv' /\ [Next]_vars => [GoesForward]_vars
    <2> SUFFICES ASSUME Inv, Inv', [Next]_vars PROVE GoesForward
      OBVIOUS
    <2>1. ASSUME NEW t \in Threads, Advance(t) PROVE StepsLeft(t)' < StepsLeft(t)
      BY <2>1, AdvanceGoesForward
    <2>2. ASSUME NEW t \in Threads, StepsLeft(t)' > StepsLeft(t), ~Start(t) PROVE FALSE
      <3>1. StepsLeft(t) \in Nat
        BY StepsAreCounted
      <3>2. CASE Advance(t)
        <4>1. StepsLeft(t)' < StepsLeft(t) /\ StepsLeft(t)' \in Nat
          BY <3>2, AdvanceGoesForward
        <4>2. QED
          BY <2>2, <3>1, <4>1
      <3>3. CASE ~Advance(t)
        <4>1. StepsLeft(t)' = StepsLeft(t) \/ StepsLeft(t)' = 0
          BY <2>2, <3>3, OthersTakeNothing DEF StepsLeft
        <4>2. QED
          BY <2>2, <3>1, <4>1
      <3>4. QED
        BY <3>2, <3>3
    <2>3. QED
      BY <2>1, <2>2 DEF GoesForward
  <1>3. QED
    BY <1>1, <1>2, Invariance, PTL DEF Spec

\* The two kinds of lock are always taken in one order, so that a chain of waiters ends
\* at a thread that sends, leaves or waits for its time: nobody waits for each other.
THEOREM NobodyIsStuck == Spec => []SomebodyCanGoOn
  <1>1. Inv => SomebodyCanGoOn
    <2> SUFFICES ASSUME Inv, NEW s \in Threads, at[s] # "idle", \A t \in Threads : ~CanAdvance(t)
                 PROVE  TimeCanPass /\ hung # {}
      BY DEF SomebodyCanGoOn
    <2>1. /\ at \in [Threads -> Places] /\ waited \in [Threads -> 0..LockTimeout]
          /\ procHeld \in [ProcLocks -> Threads \cup {None}]
          /\ fileHeld \in [LockFiles -> Threads \cup {None}]
      BY DEF Inv, TypeOK
    <2>2. ASSUME NEW t \in Threads
          PROVE  /\ at[t] \in {"idle", "proc_lock", "file_lock", "sending"}
                 /\ at[t] = "sending" => t \in hung
                 /\ at[t] = "file_lock" => fileHeld[LockFile(t)] # None /\ waited[t] # LockTimeout
                 /\ at[t] = "proc_lock" => procHeld[ProcLock(t)] # None
      BY <2>1 DEF CanAdvance, Places
    <2>3. \E t \in Threads : at[t] \in {"file_lock", "sending"}
      <3>1. CASE at[s] = "proc_lock"
        <4>1. PICK t \in Threads : t = procHeld[ProcLock(s)]
          BY <2>1, <2>2, <3>1, LocksExist
        <4>2. ProcLock(t) = ProcLock(s) /\ procHeld[ProcLock(t)] = t
          BY <2>2, <3>1, <4>1, LocksExist DEF Inv, LocksOK
        <4>3. at[t] \in {"file_lock", "sending", "leaving"}
          BY <4>2 DEF Inv, LocksOK
        <4>4. QED
          BY <2>2, <4>3
      <3>2. QED
        BY <2>2, <3>1
    <2>4. TimeCanPass
      <3>1. ASSUME NEW t \in Threads, at[t] = "file_lock" PROVE waited[t] < LockTimeout
        BY <2>1, <2>2, <3>1, LimitsAreNat
      <3>2. QED
        BY <2>2, <2>3, <3>1 DEF TimeCanPass
    <2>5. PICK t \in Threads : at[t] \in {"file_lock", "sending"}
      BY <2>3
    <2>6. CASE at[t] = "file_lock"
      <3>1. PICK u \in Threads : u = fileHeld[LockFile(t)]
        BY <2>1, <2>2, <2>6, LocksExist
      <3>2. LockFile(u) = LockFile(t) /\ fileHeld[LockFile(u)] = u
        BY <2>2, <2>6, <3>1, LocksExist DEF Inv, LocksOK
      <3>3. at[u] = "sending"
        BY <3>2 DEF Inv, LocksOK
      <3>4. QED
        BY <2>2, <2>4, <3>3
    <2>7. QED
      BY <2>2, <2>4, <2>5, <2>6
  <1>2. QED
    BY <1>1, Invariance, PTL

\* A waiter at a file lock sees LockTimeout ticks at most, whatever its holder does, for
\* at the last of them time stands still until it has the lock or has given up.
THEOREM WaitersAreTimed ==
  Spec => []WaitIsBounded /\ [][WaitIsCounted]_vars
  <1>1. Inv => WaitIsBounded
    <2> SUFFICES ASSUME Inv, NEW t \in Threads
                 PROVE  /\ waited[t] \in 0..LockTimeout
                        /\ at[t] = "file_lock" /\ waited[t] = LockTimeout
                              => CanAdvance(t) /\ ~TimeCanPass
      BY DEF WaitIsBounded
    <2>1. waited[t] \in 0..LockTimeout /\ LockTimeout \in Nat
      BY LimitsAreNat DEF Inv, TypeOK
    <2>2. at[t] = "file_lock" /\ waited[t] = LockTimeout => CanAdvance(t)
      BY DEF CanAdvance
    <2>3. TimeCanPass /\ at[t] = "file_lock" => waited[t] < LockTimeout
      BY DEF TimeCanPass
    <2>4. QED
      BY <2>1, <2>2, <2>3
  <1>2. Inv /\ [Next]_vars => [WaitIsCounted]_vars
    <2> SUFFICES ASSUME Inv, [Next]_vars, NEW t \in Threads, at[t] = "file_lock"
                 PROVE  /\ Tick => waited'[t] = waited[t] + 1 /\ at'[t] = "file_lock"
                        /\ waited'[t] < waited[t] => at'[t] # "file_lock"
      BY DEF WaitIsCounted
    <2>1. waited \in [Threads -> 0..LockTimeout] /\ at \in [Threads -> Places]
          /\ LockTimeout \in Nat
      BY LimitsAreNat DEF Inv, TypeOK
    <2>2. Tick => waited'[t] = waited[t] + 1 /\ at'[t] = "file_lock"
      BY DEF Tick
    <2>3. ASSUME waited'[t] # waited[t], ~Tick PROVE at'[t] # "file_lock"
      <3>1. ASSUME NEW s \in Threads, Start(s) \/ Advance(s) \/ LockBroken(s) \/ Hang(s)
            PROVE  s = t /\ \E place : place # "file_lock" /\ Goto(s, place)
        BY <2>1, <2>3, <3>1
           DEF Start, Advance, TakeProc, TakeFile, GiveUpLock, LockBroken, Respond, Leave, Wake,
               Hang, End, clocks
      <3>2. ASSUME NEW p \in Procs, Crash(p) PROVE at'[t] # "file_lock"
        BY <2>1, <2>3, <3>2 DEF Crash
      <3>3. CASE UNCHANGED vars
        BY <2>3, <3>3 DEF vars, clocks
      <3>4. QED
        BY <2>1, <2>3, <3>1, <3>2, <3>3 DEF Next, Goto
    <2>4. QED
      BY <2>1, <2>2, <2>3
  <1>3. QED
    BY <1>1, <1>2, Invariance, PTL DEF Spec
=============================================================================
