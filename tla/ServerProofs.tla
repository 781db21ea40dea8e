---------------------------- MODULE ServerProofs ----------------------------
(***************************************************************************)
(* Proofs about two parts of the server that share no state: SessionLock,  *)
(* for any set of sessions, and ModelJobs, for any set of jobs and readers,*)
(* any length of the answers and any number of restarts.                   *)
(*                                                                         *)
(* The argument about the lock is about time: every boot and the lock's    *)
(* last write lie in the past of the clock, so a write (which moves        *)
(* lastWriteAt to the present) leaves nobody fresh, and whoever becomes    *)
(* fresh afterwards registered, and hence loaded, after that write.        *)
(*                                                                         *)
(* About the jobs: the invariants of ModelJobs' runs, and that it          *)
(* implements JobStore when the disk does not fail.                        *)
(***************************************************************************)
EXTENDS SessionLock, ModelJobs, TLAPS

-----------------------------------------------------------------------------
(* The write lock *)

\* Boots and the lock's last write carry readings of a clock that only grows.
Past ==
    /\ \A s \in Sessions : boots[s] <= clock
    /\ lastWriteAt <= clock

\* Whenever nobody holds the lock no boot is known: a first registration adopts
\* the lock, and a restart forgets both.
UnheldKnowsNothing ==
    holder = Unheld =>
        /\ \A s \in Sessions : boots[s] = NoBoot
        /\ import # "swapped" => importVersion = 0

Versions ==
    /\ holderVersion <= version
    /\ importVersion <= holderVersion

LockInv ==
    /\ LockTypeOK
    /\ Past
    /\ UnheldKnowsNothing
    /\ Versions
    /\ FreshCopyCoversHolder
    /\ NoPreImportHolder

\* Registering a boot dates this session now, forgets at most others, and
\* redates nobody.
LEMMA AddBootEffect ==
    ASSUME LockTypeOK, NEW s \in Sessions,
           NEW new \in [Sessions -> 0..MaxClock \cup {NoBoot}],
           AddBoot(s, new)
    PROVE  /\ new[s] = clock
           /\ \A x \in Sessions \ {s} : new[x] \in {boots[x], NoBoot}
<1> DEFINE added == [boots EXCEPT ![s] = clock]
           over  == Cardinality({x \in Sessions : added[x] # NoBoot}) > MaxTrackedBoots
<1>1. CASE over
  <2>1. PICK x \in Oldest(added, s) : new = [added EXCEPT ![x] = NoBoot]
    BY <1>1 DEF AddBoot
  <2>2. x \in Sessions /\ x # s
    BY <2>1 DEF Oldest
  <2> QED BY <2>1, <2>2 DEF LockTypeOK
<1>2. CASE ~over
  <2>1. new = added
    BY <1>2 DEF AddBoot
  <2> QED BY <2>1 DEF LockTypeOK
<1> QED BY <1>1, <1>2

\* What an applied or refused write does to the data and the writer's copy.
LEMMA ChangesEffect ==
    ASSUME LockTypeOK, Versions, NEW s \in Sessions, NEW applied \in BOOLEAN,
           NEW bumps \in BOOLEAN, Loaded(s), Changes(s, applied, bumps)
    PROVE  /\ version' \in 0..MaxVersion /\ version' >= version
           /\ holderVersion' \in 0..MaxVersion /\ holderVersion' <= version'
           /\ holderVersion' >= holderVersion
           /\ ~bumps => holderVersion' = holderVersion
           /\ importVersion' = importVersion
           /\ copy' \in [Sessions -> 0..MaxVersion \cup {NotLoaded}]
           /\ \A x \in Sessions : /\ (copy'[x] # NotLoaded) <=> (copy[x] # NotLoaded)
                                  /\ copy'[x] >= copy[x]
<1> USE BoundsAssumption DEF LockTypeOK, Versions, Loaded, NotLoaded
<1>1. CASE applied
  <2> DEFINE c == IF copy[s] = version THEN version + 1 ELSE copy[s]
  <2>1. /\ version' = version + 1
        /\ version < MaxVersion
        /\ copy' = [copy EXCEPT ![s] = c]
        /\ holderVersion' = IF bumps THEN version + 1 ELSE holderVersion
        /\ importVersion' = importVersion
    BY <1>1 DEF Changes
  <2>2. c \in 0..MaxVersion /\ c >= copy[s]
    BY <2>1
  <2>3. copy' \in [Sessions -> 0..MaxVersion \cup {NotLoaded}]
    BY <2>1, <2>2
  <2>4. \A x \in Sessions : copy'[x] = IF x = s THEN c ELSE copy[x]
    BY <2>1
  <2> QED BY <2>1, <2>2, <2>3, <2>4
<1>2. CASE ~applied
  BY <1>2 DEF Changes, dataVars
<1> QED BY <1>1, <1>2

LEMMA LockInvInit == LockInit => LockInv
BY SessionsAssumption, BoundsAssumption
   DEF LockInit, LockInv, LockTypeOK, Past, UnheldKnowsNothing, Versions, NoBoot, NotLoaded,
       FreshCopyCoversHolder, NoPreImportHolder, Loaded, Fresh, ImportPhases

\* A write that moves lastWriteAt to the present leaves no page fresh.
LEMMA WriteStep ==
    ASSUME LockInv, NEW s \in Sessions, NEW applied \in BOOLEAN, Write(s, applied)
    PROVE  LockInv'
<1> USE SessionsAssumption, BoundsAssumption
<1>0. Loaded(s) /\ ~Blocking /\ import = "none"
  BY DEF Write, WriteAdopts, WriteHolds, WriteTakesOver, WritePassive, Blocking
<1>1. ASSUME Takes(s), Changes(s, applied, TRUE),
             UNCHANGED <<clock, boots, import, registered, lateBoot>>,
             ~lateBoot[s] => copy[s] >= importVersion
      PROVE  LockInv'
  <2>1. /\ version' \in 0..MaxVersion /\ version' >= version
        /\ holderVersion' \in 0..MaxVersion /\ holderVersion' <= version'
        /\ holderVersion' >= holderVersion
        /\ importVersion' = importVersion
        /\ copy' \in [Sessions -> 0..MaxVersion \cup {NotLoaded}]
        /\ \A x \in Sessions : /\ (copy'[x] # NotLoaded) <=> (copy[x] # NotLoaded)
                               /\ copy'[x] >= copy[x]
    BY <1>0, <1>1, ChangesEffect DEF LockInv
  <2>2. LockTypeOK'
    BY <1>1, <2>1 DEF LockInv, LockTypeOK, Takes
  <2>3. Past' /\ \A x \in Sessions : ~Fresh(x)'
    BY <1>1 DEF LockInv, LockTypeOK, Past, Takes, Fresh, NoBoot
  <2>4. UnheldKnowsNothing' /\ Versions'
    BY <1>1, <2>1 DEF LockInv, LockTypeOK, UnheldKnowsNothing, Versions, Takes
  <2>5. FreshCopyCoversHolder'
    BY <2>3 DEF FreshCopyCoversHolder
  <2>6. NoPreImportHolder'
    BY <1>1, <2>1, <2>2 DEF LockInv, LockTypeOK, NoPreImportHolder, Takes, Loaded, NotLoaded
  <2> QED BY <2>2, <2>3, <2>4, <2>5, <2>6 DEF LockInv
<1>2. CASE WriteAdopts(s, applied)
  <2>1. copy[s] >= importVersion
    BY <1>0, <1>2 DEF WriteAdopts, LockInv, LockTypeOK, UnheldKnowsNothing, Loaded, NotLoaded
  <2> QED BY <1>1, <1>2, <2>1 DEF WriteAdopts
<1>3. CASE WriteHolds(s, applied)
  <2>1. ~lateBoot[s] => copy[s] >= importVersion
    BY <1>0, <1>3 DEF WriteHolds, LockInv, NoPreImportHolder
  <2> QED BY <1>1, <1>3, <2>1 DEF WriteHolds
<1>4. CASE WriteTakesOver(s, applied)
  <2>1. ~lateBoot[s] => copy[s] >= importVersion
    <3>1. ~lateBoot[s] => copy[s] >= holderVersion
      BY <1>0, <1>4 DEF WriteTakesOver, LockInv, FreshCopyCoversHolder
    <3> QED BY <1>0, <3>1 DEF LockInv, LockTypeOK, Versions, Loaded, NotLoaded
  <2> QED BY <1>1, <1>4, <2>1 DEF WriteTakesOver
<1>5. CASE WritePassive(s, applied)
  <2>1. /\ version' \in 0..MaxVersion /\ version' >= version
        /\ holderVersion' = holderVersion
        /\ importVersion' = importVersion
        /\ copy' \in [Sessions -> 0..MaxVersion \cup {NotLoaded}]
        /\ \A x \in Sessions : /\ (copy'[x] # NotLoaded) <=> (copy[x] # NotLoaded)
                               /\ copy'[x] >= copy[x]
    BY <1>0, <1>5, ChangesEffect DEF LockInv, WritePassive
  <2>2. LockTypeOK'
    BY <1>5, <2>1 DEF LockInv, LockTypeOK, WritePassive, lockVars
  <2>3. Past' /\ UnheldKnowsNothing' /\ Versions'
    BY <1>5, <2>1 DEF LockInv, LockTypeOK, Past, UnheldKnowsNothing, Versions,
                      WritePassive, lockVars
  <2>4. FreshCopyCoversHolder'
    BY <1>5, <2>1, <2>2 DEF LockInv, LockTypeOK, FreshCopyCoversHolder, WritePassive, lockVars,
                       Loaded, Fresh, NotLoaded
  <2>5. NoPreImportHolder'
    BY <1>5, <2>1, <2>2 DEF LockInv, LockTypeOK, NoPreImportHolder, WritePassive, lockVars,
                       Loaded, NotLoaded
  <2> QED BY <2>2, <2>3, <2>4, <2>5 DEF LockInv
<1> QED BY <1>2, <1>3, <1>4, <1>5 DEF Write

LEMMA RegisterStep ==
    ASSUME LockInv, NEW s \in Sessions, NEW acked \in BOOLEAN, Register(s, acked)
    PROVE  LockInv'
<1> USE SessionsAssumption, BoundsAssumption DEF NoBoot, NotLoaded
<1>1. PICK new \in [Sessions -> 0..MaxClock \cup {NoBoot}] :
          AddBoot(s, new) /\ boots' = new
  BY DEF Register
<1>2. /\ boots' \in [Sessions -> 0..MaxClock \cup {NoBoot}]
      /\ boots'[s] = clock
      /\ \A x \in Sessions \ {s} : boots'[x] \in {boots[x], NoBoot}
  BY <1>1, AddBootEffect DEF LockInv
<1>3. /\ UNCHANGED <<clock, import, version, holderVersion, importVersion, copy>>
      /\ registered' = [registered EXCEPT ![s] = acked]
      /\ lateBoot' = [lateBoot EXCEPT ![s] = Loaded(s)]
      /\ IF holder = Unheld THEN holder' = s /\ lastWriteAt' = clock
                            ELSE UNCHANGED <<holder, lastWriteAt>>
  BY DEF Register, dataVars
<1>4. LockTypeOK'
  BY <1>2, <1>3 DEF LockInv, LockTypeOK, Loaded
<1>5. Past' /\ Versions'
  BY <1>2, <1>3 DEF LockInv, LockTypeOK, Past, Versions
<1>6. UnheldKnowsNothing'
  BY <1>2, <1>3 DEF LockInv, LockTypeOK, UnheldKnowsNothing
<1>7. FreshCopyCoversHolder'
  <2> SUFFICES ASSUME import # "swapped", NEW x \in Sessions,
                      Loaded(x)', Fresh(x)', ~lateBoot'[x]
               PROVE  copy[x] >= holderVersion
    BY <1>3 DEF FreshCopyCoversHolder
  <2>1. x # s
    BY <1>3 DEF LockInv, LockTypeOK, Loaded
  <2>2. boots'[x] = boots[x] /\ boots[x] # NoBoot
    BY <1>2, <2>1 DEF Fresh
  <2>3. holder # Unheld
    BY <2>2 DEF LockInv, UnheldKnowsNothing
  <2>4. Loaded(x) /\ Fresh(x) /\ ~lateBoot[x]
    BY <1>3, <2>1, <2>2, <2>3 DEF LockInv, LockTypeOK, Loaded, Fresh
  <2> QED BY <2>4 DEF LockInv, FreshCopyCoversHolder
<1>8. NoPreImportHolder'
  <2> SUFFICES ASSUME NEW x \in Sessions, holder' = x, Loaded(x),
                      ~lateBoot'[x], import # "swapped"
               PROVE  copy[x] >= importVersion
    BY <1>3 DEF NoPreImportHolder, Loaded
  <2>1. x # s
    BY <1>3 DEF LockInv, LockTypeOK
  <2>2. holder = x /\ ~lateBoot[x]
    BY <1>3, <2>1 DEF LockInv, LockTypeOK
  <2> QED BY <2>2 DEF LockInv, NoPreImportHolder
<1> QED BY <1>4, <1>5, <1>6, <1>7, <1>8 DEF LockInv

LEMMA PageStep ==
    ASSUME LockInv, NEW s \in Sessions, Load(s) \/ Close(s) \/ WriteRejected(s)
    PROVE  LockInv'
<1> USE SessionsAssumption, BoundsAssumption DEF NoBoot, NotLoaded
<1>1. UNCHANGED <<clock, holder, lastWriteAt, boots, import, version,
                  holderVersion, importVersion>>
  BY DEF Load, Close, WriteRejected, lockVars, dataVars
<1>2. LockTypeOK'
  BY <1>1 DEF LockInv, LockTypeOK, Load, Close, WriteRejected, Leave
<1>3. Past' /\ UnheldKnowsNothing' /\ Versions'
  BY <1>1 DEF LockInv, Past, UnheldKnowsNothing, Versions
<1>4. \A x \in Sessions :
          (Loaded(x)' /\ ~lateBoot'[x]) =>
              \/ copy'[x] = version
              \/ copy'[x] = copy[x] /\ Loaded(x) /\ ~lateBoot[x]
  BY DEF LockInv, LockTypeOK, Load, Close, WriteRejected, Leave, Loaded
<1>5. FreshCopyCoversHolder'
  BY <1>1, <1>4 DEF LockInv, LockTypeOK, Versions, FreshCopyCoversHolder, Fresh
<1>6. NoPreImportHolder'
  BY <1>1, <1>4 DEF LockInv, LockTypeOK, Versions, NoPreImportHolder
<1> QED BY <1>2, <1>3, <1>5, <1>6 DEF LockInv

LEMMA ImportStep ==
    ASSUME LockInv, Import
    PROVE  LockInv'
<1> USE SessionsAssumption, BoundsAssumption DEF NoBoot, NotLoaded, ImportPhases
<1>1. ASSUME ImportStart \/ ImportCancel \/ ImportApply
      PROVE  LockInv'
  BY <1>1 DEF ImportStart, ImportCancel, ImportApply, LockInv, LockTypeOK, Past,
              UnheldKnowsNothing, Versions, FreshCopyCoversHolder, NoPreImportHolder,
              Loaded, Fresh, lockVars, dataVars, pageVars
<1>2. CASE ImportSwap
  BY <1>2 DEF ImportSwap, LockInv, LockTypeOK, Past, UnheldKnowsNothing, Versions,
              FreshCopyCoversHolder, NoPreImportHolder, lockVars, pageVars
<1>3. ASSUME NEW ok \in BOOLEAN, ImportEnd(ok)
      PROVE  LockInv'
  <2>1. LockTypeOK' /\ Past' /\ UnheldKnowsNothing' /\ Versions'
    BY <1>3 DEF ImportEnd, RevokeAll, LockInv, LockTypeOK, Past, UnheldKnowsNothing,
                Versions, dataVars, pageVars
  <2>2. \A x \in Sessions : ~Fresh(x)'
    BY <1>3 DEF ImportEnd, RevokeAll, LockInv, LockTypeOK, Past, Fresh
  <2>3. FreshCopyCoversHolder'
    BY <2>2 DEF FreshCopyCoversHolder
  <2>4. NoPreImportHolder'
    BY <1>3 DEF ImportEnd, RevokeAll, NoPreImportHolder
  <2> QED BY <2>1, <2>3, <2>4 DEF LockInv
<1> QED BY <1>1, <1>2, <1>3 DEF Import

LEMMA NextIInv == LockInv /\ [LockNext]_allVars => LockInv'
<1> SUFFICES ASSUME LockInv, [LockNext]_allVars PROVE LockInv'
  OBVIOUS
<1>1. CASE Tick
  BY <1>1, BoundsAssumption
     DEF Tick, LockInv, LockTypeOK, Past, UnheldKnowsNothing, Versions,
         FreshCopyCoversHolder, NoPreImportHolder, Loaded, Fresh, NoBoot,
         lockVars, dataVars, pageVars
<1>2. CASE ServerRestart
  BY <1>2, BoundsAssumption, SessionsAssumption
     DEF ServerRestart, LockInv, LockTypeOK, Past, UnheldKnowsNothing, Versions, ImportPhases,
         FreshCopyCoversHolder, NoPreImportHolder, Loaded, Fresh, NoBoot, pageVars
<1>3. CASE Import
  BY <1>3, ImportStep
<1>4. ASSUME NEW s \in Sessions, NEW b \in BOOLEAN, Register(s, b) \/ Write(s, b)
      PROVE  LockInv'
  BY <1>4, RegisterStep, WriteStep
<1>5. ASSUME NEW s \in Sessions, Load(s) \/ Close(s) \/ WriteRejected(s)
      PROVE  LockInv'
  BY <1>5, PageStep
<1>6. CASE UNCHANGED allVars
  BY <1>6 DEF allVars, LockInv, LockTypeOK, Past, UnheldKnowsNothing, Versions,
         FreshCopyCoversHolder, NoPreImportHolder, Loaded, Fresh
<1> QED BY <1>1, <1>2, <1>3, <1>4, <1>5, <1>6 DEF LockNext

\* The lock's bookkeeping keeps its invariant in every behaviour of the server
\* and the pages (session-lock.cjs).
THEOREM LockInvariant == LockSpec => []LockInv
<1>1. LockInit => LockInv
  BY LockInvInit
<1>2. LockInv /\ [LockNext]_allVars => LockInv'
  BY NextIInv
<1> QED BY <1>1, <1>2, PTL DEF LockSpec

\* Types of the lock's state (session-lock.cjs:44-45).
THEOREM LockTypeCorrect == LockSpec => []LockTypeOK
<1>1. LockInv => LockTypeOK
  BY DEF LockInv
<1> QED BY <1>1, LockInvariant, PTL

\* A fresh page that registered before it loaded lacks no change of a lock
\* holder or an import (the freshness rule of checkWrite, session-lock.cjs:75-80).
THEOREM FreshnessIsSafe == LockSpec => []FreshCopyCoversHolder
<1>1. LockInv => FreshCopyCoversHolder
  BY DEF LockInv
<1> QED BY <1>1, LockInvariant, PTL

\* No page of before an import holds the lock after it (revokeAll,
\* session-lock.cjs:91-95).
THEOREM ImportRevokesForGood == LockSpec => []NoPreImportHolder
<1>1. LockInv => NoPreImportHolder
  BY DEF LockInv
<1> QED BY <1>1, LockInvariant, PTL

\* The lock passes from a holder to another page only if that page holds all
\* the holder's changes (the takeover of checkWrite, session-lock.cjs:77-80).
THEOREM HandoverSafe == LockSpec => HandoverIsSafe
<1>1. ASSUME LockInv, [LockNext]_allVars, NEW s \in Sessions, NEW t \in Sessions,
             s # t, holder = s, holder' = t, ~lateBoot[t]
      PROVE  copy[t] >= holderVersion
  <2>1. \E b \in BOOLEAN : WriteTakesOver(t, b)
    BY <1>1, SessionsAssumption
       DEF LockNext, allVars, Tick, ServerRestart, Import, ImportStart, ImportCancel, ImportApply,
           ImportSwap, ImportEnd, RevokeAll, Register, Load, Close, WriteRejected,
           Write, WriteAdopts, WriteHolds, WriteTakesOver, WritePassive, Takes,
           lockVars
  <2> QED BY <1>1, <2>1 DEF WriteTakesOver, Blocking, LockInv, FreshCopyCoversHolder
<1>2. LockInv /\ [LockNext]_allVars =>
        [\A s, t \in Sessions :
            (s # t /\ holder = s /\ holder' = t /\ ~lateBoot[t])
                => copy[t] >= holderVersion]_allVars
  BY <1>1
<1> QED BY <1>2, LockInvariant, PTL DEF LockSpec, HandoverIsSafe

-----------------------------------------------------------------------------
(* The recorder of model jobs *)

\* A job in use has its loop's bookkeeping in order: the file trails what the
\* loop handed over, and a loop that ends without an error handed over all.
Bookkeeping ==
    \A j \in Jobs :
        /\ file[j] <= handed[j]
        /\ handed[j] <= AnswerLen[j]
        /\ run[j] = "ending" /\ ~failed[j] => handed[j] = AnswerLen[j]
        /\ status[j] = "done" =>
                handed[j] = AnswerLen[j] /\ (file[j] = handed[j] \/ diskFailed[j])

\* A reader streams a job that was created, and is past the terminal check only
\* when the job's loop has ended.
ReadersFollow ==
    \A r \in Readers :
        /\ rphase[r] = "idle" => rjob[r] = NoJob /\ offset[r] = 0
        /\ rphase[r] # "idle" => rjob[r] \in Jobs /\ status[rjob[r]] # "unused"
        /\ rphase[r] \in {"last", "ended"} => ~Active(rjob[r])

IInv ==
    /\ TypeOK
    /\ RunningIsActive
    /\ OneMainPerChat
    /\ Bookkeeping
    /\ ReadersFollow
    /\ EndedStreamIsWhole

\* Rotation only turns finished jobs into gone ones.
LEMMA RotationsAreFinished ==
    ASSUME NEW st, NEW end, NEW dropped \in Rotations(st, end)
    PROVE  \A j \in dropped : j \in Jobs /\ st[j] \in Terminal
  BY DEF Rotations, Expired, Keeps

\* The initial state satisfies the inductive invariant.
LEMMA InitIInv == Init => IInv
  BY JobsAssumption, LimitsAssumption
     DEF Init, IInv, TypeOK, RunningIsActive, OneMainPerChat, Bookkeeping, ReadersFollow,
         EndedStreamIsWhole, Statuses, RunPhases, ReaderPhases, Active

-----------------------------------------------------------------------------
\* The server goes down by a crash of its own or under a stream whose row is gone.
LEMMA DownIsCrash == Restart \/ (\E r \in Readers : RowVanishes(r)) => Crash
  BY DEF Restart, RowVanishes

\* Every step keeps the types.
LEMMA StepTypeOK == TypeOK /\ ReadersFollow /\ [Next]_vars => TypeOK'
  <1> SUFFICES ASSUME TypeOK, ReadersFollow, [Next]_vars PROVE TypeOK'
      OBVIOUS
  <1> USE JobsAssumption, LimitsAssumption
          DEF TypeOK, Statuses, RunPhases, ReaderPhases, Terminal, rowVars, runVars, readerVars
  <1>1. ASSUME NEW j \in Jobs, CreateJob(j) \/ RunStep(j) PROVE TypeOK'
      <2>1. CASE CreateJob(j)
          BY <2>1 DEF CreateJob
      <2>2. CASE UpstreamAnswers(j)
          BY <2>2 DEF UpstreamAnswers
      <2>3. CASE Chunk(j)
          BY <2>3 DEF Chunk
      <2>4. CASE UpstreamEnds(j)
          BY <2>4 DEF UpstreamEnds
      <2>5. CASE UpstreamFails(j)
          BY <2>5 DEF UpstreamFails
      <2> QED
          BY <1>1, <2>1, <2>2, <2>3, <2>4, <2>5 DEF RunStep
  <1>2. ASSUME NEW j \in Jobs, Flush(j) \/ DiskFails(j) \/ WriteErrorEvent(j)
        PROVE  TypeOK'
      <2>1. CASE Flush(j)
          BY <2>1 DEF Flush
      <2>2. CASE DiskFails(j)
          BY <2>2 DEF DiskFails
      <2>3. CASE WriteErrorEvent(j)
          BY <2>3 DEF WriteErrorEvent
      <2> QED
          BY <1>2, <2>1, <2>2, <2>3
  <1>8. ASSUME NEW j \in Jobs, Finalize(j) \/ ClaimJob(j) \/ AbortJob(j) \/ DeleteJob(j)
        PROVE  TypeOK'
      <2>1. CASE Finalize(j)
          <3>1. FinalStatus(j) \in Statuses
              BY DEF FinalStatus
          <3> QED
              BY <2>1, <3>1 DEF Finalize
      <2>2. CASE ClaimJob(j) \/ AbortJob(j)
          BY <2>2 DEF ClaimJob, AbortJob
      <2>3. CASE DeleteJob(j)
          BY <2>3 DEF DeleteJob
      <2> QED
          BY <1>8, <2>1, <2>2, <2>3
  <1>3. ASSUME NEW r \in Readers, NEW j \in Jobs, Attach(r, j) PROVE TypeOK'
      BY <1>3 DEF Attach
  <1>4. ASSUME NEW r \in Readers, StreamStep(r) \/ ClientGone(r) PROVE TypeOK'
      BY <1>4 DEF StreamStep, AwaitHeaders, OpenJournal, ReadBytes, ReadEnd, CheckTerminal,
                  ClientGone, Becomes, ReadersFollow
  <1>5. CASE CleanupTerminalJobs
      BY <1>5 DEF CleanupTerminalJobs, Drop
  <1>9. restarts' \in 0..MaxRestarts
      BY DEF Next, CreateJob, RunStep, UpstreamAnswers, Chunk, UpstreamEnds, UpstreamFails,
             Flush, DiskFails, WriteErrorEvent, Finalize, ClaimJob, AbortJob, DeleteJob,
             Attach, StreamStep, AwaitHeaders, OpenJournal, ReadBytes, ReadEnd, CheckTerminal,
             ClientGone, Becomes, CleanupTerminalJobs, Restart, RowVanishes, vars
  <1>6. CASE Crash
      <2>1. status' \in [Jobs -> Statuses]
          BY <1>6 DEF Crash, Drop, MarkRunning
      <2>2. endedAt' \in [Jobs -> Nat] /\ now' \in Nat
          BY <1>6 DEF Crash
      <2>3. restarts' \in 0..MaxRestarts
          BY <1>6, <1>9
      <2> QED
          BY <1>6, <2>1, <2>2, <2>3 DEF Crash
  <1>7. CASE UNCHANGED vars
      BY <1>7 DEF vars
  <1> QED
      BY <1>1, <1>2, <1>3, <1>4, <1>5, <1>6, <1>7, <1>8, DownIsCrash DEF Next

\* A row is running exactly while the process has an entry for it.
LEMMA StepRunningIsActive ==
    TypeOK /\ RunningIsActive /\ [Next]_vars => RunningIsActive'
  <1> SUFFICES ASSUME TypeOK, RunningIsActive, [Next]_vars PROVE RunningIsActive'
      OBVIOUS
  <1> USE DEF TypeOK, RunningIsActive, Active, Terminal, rowVars, runVars, readerVars
  <1>1. ASSUME NEW j \in Jobs,
               CreateJob(j) \/ RunStep(j) \/ Flush(j) \/ DiskFails(j) \/ WriteErrorEvent(j)
        PROVE  RunningIsActive'
      BY <1>1 DEF CreateJob, RunStep, UpstreamAnswers, Chunk, UpstreamEnds, UpstreamFails,
                  Flush, DiskFails, WriteErrorEvent
  <1>2. ASSUME NEW j \in Jobs, Finalize(j) \/ ClaimJob(j) \/ AbortJob(j) \/ DeleteJob(j)
        PROVE  RunningIsActive'
      BY <1>2 DEF Finalize, FinalStatus, ClaimJob, AbortJob, DeleteJob
  <1>3. ASSUME NEW r \in Readers,
               (\E j \in Jobs : Attach(r, j)) \/ StreamStep(r) \/ ClientGone(r)
        PROVE  RunningIsActive'
      BY <1>3 DEF Attach, StreamStep, AwaitHeaders, OpenJournal, ReadBytes, ReadEnd,
                  CheckTerminal, ClientGone, Becomes
  <1>4. CASE CleanupTerminalJobs
      BY <1>4, RotationsAreFinished DEF CleanupTerminalJobs, Drop
  <1>5. CASE Crash
      <2>1. \A j \in Jobs : status'[j] # "running"
          BY <1>5 DEF Crash, Drop, MarkRunning
      <2> QED
          BY <1>5, <2>1 DEF Crash
  <1>6. CASE UNCHANGED vars
      BY <1>6 DEF vars
  <1> QED
      BY <1>1, <1>2, <1>3, <1>4, <1>5, <1>6, DownIsCrash DEF Next

\* Only a creation adds a loop, and its guard sees every other loop as a
\* running row.
LEMMA StepOneMainPerChat ==
    TypeOK /\ RunningIsActive /\ OneMainPerChat /\ [Next]_vars => OneMainPerChat'
  <1> SUFFICES ASSUME TypeOK, RunningIsActive, OneMainPerChat, [Next]_vars
               PROVE  OneMainPerChat'
      OBVIOUS
  <1> USE JobsAssumption DEF OneMainPerChat, Active
  <1>1. ASSUME NEW j \in Jobs, CreateJob(j) PROVE OneMainPerChat'
      <2>1. \A k \in Jobs : k # j => (Active(k))' = Active(k)
          BY <1>1 DEF CreateJob, TypeOK
      <2>2. j \in MainJobs => \A k \in MainJobs : ChatOf[k] = ChatOf[j] => ~Active(k)
          BY <1>1 DEF CreateJob, RunningForChat, RunningIsActive
      <2> QED
          BY <2>1, <2>2
  <1>2. CASE ~\E j \in Jobs : CreateJob(j)
      <2>1. \A k \in Jobs : (Active(k))' => Active(k)
          BY <1>2 DEF TypeOK, Next, RunStep, UpstreamAnswers, Chunk, UpstreamEnds,
               UpstreamFails, Flush, DiskFails, WriteErrorEvent, Finalize, ClaimJob, AbortJob,
               DeleteJob, Attach, StreamStep, AwaitHeaders, OpenJournal, ReadBytes, ReadEnd,
               CheckTerminal, ClientGone, Becomes, CleanupTerminalJobs, Restart, RowVanishes, Crash, vars, runVars,
               rowVars, readerVars
      <2> QED
          BY <2>1
  <1> QED
      BY <1>1, <1>2

\* Bytes are handed over while the loop streams and written while it is active;
\* only a loop that has flushed, or failed to, ends.
LEMMA StepBookkeeping ==
    TypeOK /\ RunningIsActive /\ Bookkeeping /\ [Next]_vars => Bookkeeping'
  <1> SUFFICES ASSUME TypeOK, RunningIsActive, Bookkeeping, [Next]_vars
               PROVE  Bookkeeping'
      OBVIOUS
  <1> USE JobsAssumption
          DEF TypeOK, RunningIsActive, Bookkeeping, Active, Terminal, rowVars, runVars, readerVars
  <1>1. ASSUME NEW j \in Jobs, CreateJob(j) \/ RunStep(j) PROVE Bookkeeping'
      BY <1>1 DEF CreateJob, RunStep, UpstreamAnswers, Chunk, UpstreamEnds, UpstreamFails
  <1>2. ASSUME NEW j \in Jobs, Flush(j) \/ DiskFails(j) \/ WriteErrorEvent(j)
        PROVE  Bookkeeping'
      BY <1>2 DEF Flush, DiskFails, WriteErrorEvent
  <1>3. ASSUME NEW j \in Jobs, Finalize(j) PROVE Bookkeeping'
      BY <1>3 DEF Finalize, FinalStatus, EndCalledBack
  <1>4. ASSUME NEW j \in Jobs, ClaimJob(j) \/ AbortJob(j) \/ DeleteJob(j) PROVE Bookkeeping'
      BY <1>4 DEF ClaimJob, AbortJob, DeleteJob
  <1>5. ASSUME NEW r \in Readers,
               (\E j \in Jobs : Attach(r, j)) \/ StreamStep(r) \/ ClientGone(r)
        PROVE  Bookkeeping'
      BY <1>5 DEF Attach, StreamStep, AwaitHeaders, OpenJournal, ReadBytes, ReadEnd,
                  CheckTerminal, ClientGone, Becomes
  <1>6. CASE CleanupTerminalJobs
      BY <1>6 DEF CleanupTerminalJobs, Drop
  <1>7. CASE Crash
      <2>1. \A j \in Jobs : status'[j] = "done" => status[j] = "done"
          BY <1>7 DEF Crash, Drop, MarkRunning
      <2> QED
          BY <1>7, <2>1 DEF Crash
  <1>8. CASE UNCHANGED vars
      BY <1>8 DEF vars
  <1> QED
      BY <1>1, <1>2, <1>3, <1>4, <1>5, <1>6, <1>7, <1>8, DownIsCrash DEF Next

\* Readers move through streamJob, jobs under them never come back to life, and
\* a journal does not grow without its loop.
LEMMA StepReaders ==
    IInv /\ [Next]_vars => ReadersFollow' /\ EndedStreamIsWhole'
  <1> SUFFICES ASSUME IInv, [Next]_vars PROVE ReadersFollow' /\ EndedStreamIsWhole'
      OBVIOUS
  <1> USE JobsAssumption
          DEF TypeOK, IInv, ReadersFollow, EndedStreamIsWhole, Active, rowVars, runVars, readerVars
  <1>1. ASSUME NEW j \in Jobs, CreateJob(j) PROVE ReadersFollow' /\ EndedStreamIsWhole'
      BY <1>1 DEF CreateJob
  <1>2. ASSUME NEW j \in Jobs,
               RunStep(j) \/ Flush(j) \/ DiskFails(j) \/ WriteErrorEvent(j)
        PROVE  ReadersFollow' /\ EndedStreamIsWhole'
      BY <1>2 DEF RunStep, UpstreamAnswers, Chunk, UpstreamEnds, UpstreamFails, Flush,
                  DiskFails, WriteErrorEvent
  <1>3. ASSUME NEW j \in Jobs, Finalize(j) \/ ClaimJob(j) \/ AbortJob(j) \/ DeleteJob(j)
        PROVE  ReadersFollow' /\ EndedStreamIsWhole'
      BY <1>3 DEF Finalize, FinalStatus, ClaimJob, AbortJob, DeleteJob
  <1>4. ASSUME NEW r \in Readers, NEW j \in Jobs, Attach(r, j)
        PROVE  ReadersFollow' /\ EndedStreamIsWhole'
      BY <1>4 DEF Attach, HasRow
  <1>5. ASSUME NEW r \in Readers, AwaitHeaders(r) \/ OpenJournal(r) \/ CheckTerminal(r)
        PROVE  ReadersFollow' /\ EndedStreamIsWhole'
      BY <1>5 DEF AwaitHeaders, OpenJournal, CheckTerminal, Becomes
  <1>6. ASSUME NEW r \in Readers, ReadBytes(r) \/ ReadEnd(r)
        PROVE  ReadersFollow' /\ EndedStreamIsWhole'
      BY <1>6 DEF ReadBytes, ReadEnd, Becomes
  <1>7. ASSUME NEW r \in Readers, ClientGone(r)
        PROVE  ReadersFollow' /\ EndedStreamIsWhole'
      BY <1>7 DEF ClientGone
  <1>8. CASE CleanupTerminalJobs
      BY <1>8 DEF CleanupTerminalJobs, Drop
  <1>9. CASE Crash
      BY <1>9 DEF Crash
  <1>10. CASE UNCHANGED vars
      BY <1>10 DEF vars
  <1> QED
      BY <1>1, <1>2, <1>3, <1>4, <1>5, <1>6, <1>7, <1>8, <1>9, <1>10, DownIsCrash
         DEF Next, StreamStep

\* The inductive invariant holds in every reachable state.
THEOREM SpecIInv == Spec => []IInv
  <1>1. IInv /\ [Next]_vars => IInv'
      BY StepTypeOK, StepRunningIsActive, StepOneMainPerChat, StepBookkeeping, StepReaders
         DEF IInv
  <1> QED
      BY InitIInv, <1>1, PTL DEF Spec

\* Type correctness of the recorder (model-jobs.cjs:238-286).
THEOREM SpecTypeOK == Spec => []TypeOK
  BY SpecIInv, PTL DEF IInv

\* A row says 'running' exactly while activeJobs has an entry for it, so a
\* chat blocked by a dead process is unblocked at boot (model-jobs.cjs:417-422, 510-517).
THEOREM SpecRunningIsActive == Spec => []RunningIsActive
  BY SpecIInv, PTL DEF IInv

\* Two main generations of one chat never run at once (model-jobs.cjs:507-517).
THEOREM SpecOneMainPerChat == Spec => []OneMainPerChat
  BY SpecIInv, PTL DEF IInv

\* 'done' means the whole answer is on disk, unless a write failed
\* (model-jobs.cjs:424-430, 463-475).
THEOREM SpecDoneIsComplete == Spec => []DoneIsComplete
  <1>1. IInv => DoneIsComplete
      BY DEF IInv, Bookkeeping, DoneIsComplete
  <1> QED
      BY SpecIInv, <1>1, PTL

\* A stream that ends has sent all the journal will ever hold
\* (model-jobs.cjs:587-592).
THEOREM SpecEndedStreamIsWhole == Spec => []EndedStreamIsWhole
  BY SpecIInv, PTL DEF IInv

-----------------------------------------------------------------------------
\* Each step of the recorder is a step of the abstract store, or invisible to it.
LEMMA StoreStep == IInv /\ [Next]_vars => [Store!Next]_(Store!vars)
  <1> SUFFICES ASSUME IInv, [Next]_vars PROVE [Store!Next]_(Store!vars)
      OBVIOUS
  <1> DEFINE over == [r \in Readers |-> rphase[r] = "ended"]
  <1> USE DEF IInv, TypeOK, rowVars, runVars, readerVars, Store!vars, Store!jobVars,
              Store!readerVars, Terminal, Store!Terminal
  <1>1. ASSUME NEW j \in Jobs, CreateJob(j) PROVE Store!Start(j)
      BY <1>1 DEF CreateJob, RunningForChat, Store!Start
  <1>2. ASSUME NEW j \in Jobs, RunStep(j) \/ WriteErrorEvent(j) \/ AbortJob(j)
        PROVE  UNCHANGED Store!vars
      BY <1>2 DEF RunStep, UpstreamAnswers, Chunk, UpstreamEnds, UpstreamFails,
                  WriteErrorEvent, AbortJob
  <1>16. ASSUME NEW j \in Jobs, DiskFails(j) PROVE Store!Cut(j)
      BY <1>16 DEF DiskFails, RunningIsActive, Store!Cut
  <1>3. ASSUME NEW j \in Jobs, Flush(j) PROVE Store!Record(j)
      <2>1. file[j] < AnswerLen[j]
          <3>1. file[j] \in Nat /\ handed[j] \in Nat /\ AnswerLen[j] \in Nat
              BY JobsAssumption
          <3>2. file[j] < handed[j] /\ handed[j] <= AnswerLen[j]
              BY <1>3 DEF Flush, Bookkeeping
          <3> QED
              BY <3>1, <3>2
      <2>2. status[j] = "running"
          BY <1>3 DEF Flush, RunningIsActive
      <2> QED
          BY <1>3, <2>1, <2>2 DEF Flush, Store!Record
  <1>4. ASSUME NEW j \in Jobs, Finalize(j) PROVE Store!Finish(j, FinalStatus(j))
      BY <1>4 DEF Finalize, FinalStatus, EndCalledBack, Active, RunningIsActive, Bookkeeping,
                  Store!Finish
  <1>5. ASSUME NEW j \in Jobs, ClaimJob(j) PROVE Store!Claim(j)
      BY <1>5 DEF ClaimJob, Store!Claim
  <1>6. ASSUME NEW j \in Jobs, DeleteJob(j) PROVE Store!Remove
      <2>1. {j} \in SUBSET Store!Finished(status)
          BY <1>6 DEF DeleteJob, Store!Finished
      <2>2. status' = Store!Without(status, {j})
          BY <1>6 DEF DeleteJob, Store!Without
      <2> QED
          BY <1>6, <2>1, <2>2 DEF DeleteJob, Store!Remove
  <1>7. ASSUME NEW r \in Readers, NEW j \in Jobs, Attach(r, j) PROVE Store!Open(r, j)
      <2>1. over' = over
          BY <1>7 DEF Attach
      <2>2. offset[r] = 0
          BY <1>7 DEF Attach, ReadersFollow
      <2> QED
          BY <1>7, <2>1, <2>2 DEF Attach, HasRow, ReadersFollow, Store!Open
  <1>8. ASSUME NEW r \in Readers, AwaitHeaders(r) \/ OpenJournal(r) \/ CheckTerminal(r)
        PROVE  UNCHANGED Store!vars
      BY <1>8 DEF AwaitHeaders, OpenJournal, CheckTerminal, Becomes
  <1>9. ASSUME NEW r \in Readers, ReadBytes(r) PROVE Store!Read(r)
      BY <1>9 DEF ReadBytes, ReadersFollow, Store!Read
  <1>10. ASSUME NEW r \in Readers, ReadEnd(r)
         PROVE  Store!End(r) \/ UNCHANGED Store!vars
      <2>1. CASE rphase[r] = "last"
          <3>1. over' = [over EXCEPT ![r] = TRUE]
              BY <1>10, <2>1 DEF ReadEnd, Becomes
          <3>2. rjob[r] \in Jobs /\ status[rjob[r]] # "running"
              BY <2>1 DEF ReadersFollow, RunningIsActive
          <3> QED
              BY <1>10, <3>1, <3>2 DEF ReadEnd, Becomes, Store!End
      <2>2. CASE rphase[r] # "last"
          BY <1>10, <2>2 DEF ReadEnd, Becomes
      <2> QED
          BY <2>1, <2>2
  <1>11. ASSUME NEW r \in Readers, ClientGone(r) PROVE Store!Leave(r)
      BY <1>11 DEF ClientGone, Store!Leave
  <1>12. CASE CleanupTerminalJobs
      <2>1. PICK dropped \in Rotations(status, endedAt) : status' = Drop(status, dropped)
          BY <1>12 DEF CleanupTerminalJobs
      <2>2. dropped \in SUBSET Store!Finished(status)
          BY RotationsAreFinished DEF Store!Finished
      <2>3. status' = Store!Without(status, dropped)
          BY <2>1 DEF Drop, Store!Without
      <2>4. Store!Remove
          BY <1>12, <2>2, <2>3 DEF CleanupTerminalJobs, Store!Remove
      <2> QED
          BY <2>4 DEF Store!Next
  <1>13. CASE Crash
      <2>1. PICK dropped \in Rotations(MarkRunning(status), endedAt') :
                status' = Drop(MarkRunning(status), dropped)
          BY <1>13 DEF Crash
      <2>2. MarkRunning(status) = Store!Failing(status)
          BY DEF MarkRunning, Store!Failing
      <2>3. dropped \in SUBSET Store!Finished(Store!Failing(status))
          BY <2>2, RotationsAreFinished DEF Store!Finished
      <2>4. status' = Store!Without(Store!Failing(status), dropped)
          BY <2>1, <2>2 DEF Drop, Store!Without
      <2>5. Store!Crash
          BY <1>13, <2>3, <2>4 DEF Crash, Store!Crash
      <2> QED
          BY <2>5 DEF Store!Next
  <1>14. CASE UNCHANGED vars
      BY <1>14 DEF vars
  <1>15. \A j \in Jobs : FinalStatus(j) \in Store!Terminal
      BY DEF FinalStatus
  <1> QED
      BY <1>1, <1>2, <1>3, <1>4, <1>5, <1>6, <1>7, <1>8, <1>9, <1>10, <1>11, <1>12, <1>13,
         <1>14, <1>15, <1>16, DownIsCrash DEF Next, StreamStep, Store!Next

\* The recorder implements the abstract store of answers, which excepts a whole
\* answer from its promise only when a write of it failed (model-jobs.cjs:424-667).
THEOREM RecorderImplementsStore == Spec => ImplementsStore
  <1>1. Init => Store!Init
      BY DEF Init, Store!Init
  <1>2. IInv /\ [Next]_vars => [Store!Next]_(Store!vars)
      BY StoreStep
  <1> QED
      BY <1>1, <1>2, SpecIInv, PTL DEF Spec, ImplementsStore, Store!Spec

-----------------------------------------------------------------------------
\* What a rotation drops of the unclaimed is older than all that it keeps.
LEMMA RotationKeepsNewest ==
    ASSUME NEW st, NEW end, NEW dropped \in Rotations(st, end),
           NEW j \in dropped, ~Worthless(j),
           NEW k \in Jobs \ dropped, st[k] \in Terminal
    PROVE  ~Worthless(k) /\ end[k] >= end[j]
  <1> DEFINE ended == {i \in Jobs : st[i] \in Terminal}
  <1>1. PICK cutoff \in 0..(now + 1), K \in Keeps(st, end) :
            dropped = Expired(st, end, cutoff) \cup (ended \ K)
      BY DEF Rotations
  <1>2. j \notin Expired(st, end, cutoff)
      BY DEF Expired
  <1>3. k \in K /\ j \in ended \ K
      BY <1>1, <1>2
  <1>4. KeptBefore(end, k, j)
      BY <1>3 DEF Keeps
  <1> QED
      BY <1>4 DEF KeptBefore

\* A rotation throws an answer that no client has recovered away only when all
\* it keeps is unrecovered too and newer (model-jobs.cjs:261-270).
THEOREM SpecRotationSparesUnclaimed == Spec => RotationSparesUnclaimed
  <1>1. ASSUME CleanupTerminalJobs \/ Crash,
               NEW j \in Jobs, NEW k \in Jobs,
               HasRow(j), status'[j] = "gone", ~Worthless(j), status'[k] \in Terminal
        PROVE  ~Worthless(k) /\ endedAt'[k] >= endedAt'[j]
      <2>1. CASE CleanupTerminalJobs
          <3>1. PICK dropped \in Rotations(status, endedAt) :
                    status' = Drop(status, dropped) /\ endedAt' = endedAt
              BY <2>1 DEF CleanupTerminalJobs
          <3>2. j \in dropped
              BY <1>1, <3>1 DEF Drop, HasRow
          <3>3. k \notin dropped /\ status[k] \in Terminal
              BY <1>1, <3>1 DEF Drop, Terminal
          <3> QED
              BY <1>1, <3>1, <3>2, <3>3, RotationKeepsNewest
      <2>2. CASE Crash
          <3>1. PICK dropped \in Rotations(MarkRunning(status), endedAt') :
                    status' = Drop(MarkRunning(status), dropped)
              BY <2>2 DEF Crash
          <3>2. j \in dropped
              BY <1>1, <3>1 DEF Drop, HasRow, MarkRunning
          <3>3. k \notin dropped /\ MarkRunning(status)[k] \in Terminal
              BY <1>1, <3>1 DEF Drop, Terminal
          <3> QED
              BY <1>1, <3>1, <3>2, <3>3, RotationKeepsNewest
      <2> QED
          BY <1>1, <2>1, <2>2
  <1>2. [Next]_vars =>
            [CleanupTerminalJobs \/ Crash =>
                \A j, k \in Jobs :
                    /\ HasRow(j) /\ status'[j] = "gone" /\ ~Worthless(j)
                    /\ status'[k] \in Terminal
                    => ~Worthless(k) /\ endedAt'[k] >= endedAt'[j]]_vars
      BY <1>1
  <1> QED
      BY <1>2, PTL DEF Spec, RotationSparesUnclaimed
=============================================================================
