--------------------------- MODULE Instances_proofs ---------------------------
(***************************************************************************)
(* Proofs about what commands/instances.go does: CoreInstance, for any     *)
(* number of calls, any mix of handlers, any libraries and any releases,   *)
(* and IndexUpdate, for any indexes, any number of requests and versions,  *)
(* and for whatever fails.                                                 *)
(***************************************************************************)
EXTENDS CoreInstance, IndexUpdate, FiniteSetTheorems, SequenceTheorems, TLAPS

-----------------------------------------------------------------------------
\* The core instance.
USE DEF Managers, Locks

\* What the four mutex operations do to the state of the mutexes.
LEMMA RLockType ==
    ASSUME LockTypeOK, NEW lk \in Locks, NEW c \in Calls, RLock(lk, c)
    PROVE  LockTypeOK'
BY DEF LockTypeOK, RLock

LEMMA RUnlockType ==
    ASSUME LockTypeOK, NEW lk \in Locks, NEW c \in Calls, RUnlock(lk, c)
    PROVE  LockTypeOK'
BY DEF LockTypeOK, RUnlock

LEMMA LockType ==
    ASSUME LockTypeOK, NEW lk \in Locks, NEW c \in Calls, Lock(lk, c)
    PROVE  LockTypeOK'
BY DEF LockTypeOK, Lock

LEMMA UnlockType ==
    ASSUME LockTypeOK, NEW lk \in Locks, NEW c \in Calls, Unlock(lk, c)
    PROVE  LockTypeOK'
BY DEF LockTypeOK, Unlock

-----------------------------------------------------------------------------
\* Every variable keeps its type: TypeOK is inductive.
LEMMA InitTypeOK == Init => TypeOK
BY ConstantsOK, MixesOK DEF Init, TypeOK, LockInit, LockTypeOK, Labels, InitLabels

LEMMA StepTypeOK ==
    ASSUME TypeOK, ControlOK, NEW c \in Calls, Step(c)
    PROVE  TypeOK'
<1> USE DEF TypeOK, Goto, Fail, dataVars, lockVars, diskVars
<1>1. CASE Begin(c)
  <2>1. LockTypeOK'
    BY <1>1, RLockType DEF Begin, LockTypeOK
  <2>2. pc' \in [Calls -> Labels]
    BY <1>1 DEF Begin, Labels, InitLabels
  <2>3. failed' \in [Calls -> BOOLEAN] /\ op' = op
    BY <1>1 DEF Begin
  <2>4. lm' \in [Calls -> Managers]
    BY <1>1 DEF Begin, FetchLm
  <2> QED
    BY <1>1, <2>1, <2>2, <2>3, <2>4 DEF Begin
<1>2. CASE Destroy(c)
  BY <1>2 DEF Destroy, Labels, LockTypeOK
<1>3. CASE Explore(c)
  <2>1. target' \in [Calls -> Releases \cup {0}]
    BY <1>3 DEF Explore, Decide, Best
  <2>2. pc' \in [Calls -> Labels] /\ failed' \in [Calls -> BOOLEAN] /\ op' = op
    BY <1>3 DEF Explore, Decide, Labels
  <2> QED
    BY <1>3, <2>1, <2>2 DEF Explore, LockTypeOK
<1>4. CASE FetchSecond(c)
  <2>1. pc' \in [Calls -> Labels] /\ failed' \in [Calls -> BOOLEAN] /\ op' = op
    BY <1>4 DEF FetchSecond, Labels
  <2>2. lm' \in [Calls -> Managers]
    BY <1>4 DEF FetchSecond, FetchLm
  <2> QED
    BY <1>4, <2>1, <2>2 DEF FetchSecond, LockTypeOK
<1>5. CASE WantLm(c)
  BY <1>5, RLockType, LockType DEF WantLm, Labels
<1>6. CASE LmLocked(c)
  <2>1. LockTypeOK'
    BY <1>6, RLockType DEF LmLocked, LockTypeOK
  <2>2. pc' \in [Calls -> Labels] /\ failed' \in [Calls -> BOOLEAN] /\ op' = op
    BY <1>6 DEF LmLocked, Labels
  <2> QED
    BY <1>6, <2>1, <2>2 DEF LmLocked
<1>7. CASE DownloadDir(c)
  BY <1>7, RUnlockType DEF DownloadDir, Labels
<1>8. CASE LibraryWork(c)
  <2>1. /\ libsOnDisk' \in SUBSET Libs /\ knownLibs' \in [Managers -> SUBSET Libs]
        /\ failed' \in [Calls -> BOOLEAN]
    <3>1. CASE \E L \in SUBSET Libs : InstallLibs(L, lm[c])
      BY <3>1 DEF InstallLibs
    <3>2. CASE \E L \in SUBSET Libs : FailedInstallLibs(c, L, lm[c])
      BY <3>2 DEF FailedInstallLibs
    <3>3. CASE \E l \in Libs : UninstallLib(l, lm[c])
      BY <3>3 DEF UninstallLib
    <3> QED
      BY <1>8, <3>1, <3>2, <3>3, ConstantsOK DEF LibraryWork
  <2>2. pc' \in [Calls -> Labels] /\ op' = op
    BY <1>8 DEF LibraryWork, Labels, InitLabels
  <2> QED
    BY <1>8, <2>1, <2>2 DEF LibraryWork, LockTypeOK
<1>9. CASE PlatformWork(c)
  <2>1. target[c] \in Releases
    BY <1>9 DEF PlatformWork, ControlOK
  <2>2. /\ onDisk' \in SUBSET Releases /\ known' \in SUBSET Releases
        /\ failed' \in [Calls -> BOOLEAN]
    BY <1>9, <2>1 DEF PlatformWork, InstallRelease, RemoveRelease
  <2>3. pc' \in [Calls -> Labels] /\ op' = op
    BY <1>9 DEF PlatformWork, Labels, InitLabels
  <2> QED
    BY <1>9, <2>2, <2>3 DEF PlatformWork, LockTypeOK
<1>10. CASE ReleaseLm(c)
  BY <1>10, RUnlockType, UnlockType DEF ReleaseLm, Labels
<1>11. CASE ReleasePm(c)
  BY <1>11, RUnlockType DEF ReleasePm, Labels, InitLabels
<1>12. CASE Load(c)
  BY <1>12 DEF Load, Leave, Labels, InitLabels, LockTypeOK
<1>13. CASE WantPm(c)
  BY <1>13, LockType DEF WantPm, Labels, InitLabels
<1>14. CASE Commit(c)
  BY <1>14, UnlockType DEF Commit, Labels, InitLabels
<1>15. CASE Reopen(c)
  BY <1>15, RLockType DEF Reopen, Leave, Labels, InitLabels, LockTypeOK
<1>16. CASE Scan(c)
  BY <1>16 DEF Scan, Labels, InitLabels, LockTypeOK
<1>17. CASE Swap(c)
  BY <1>17 DEF Swap, Labels, InitLabels, LockTypeOK
<1>18. CASE ReleaseInit(c)
  BY <1>18, RUnlockType DEF ReleaseInit, Leave, Labels
<1>19. CASE Panic(c)
  <2>1. onDisk' \in SUBSET Releases /\ pc' \in [Calls -> Labels]
    BY <1>19 DEF Panic, ControlOK, Labels
  <2>2. failed' \in [Calls -> BOOLEAN]
    BY <1>19, Zenon DEF Panic
  <2>3. LockTypeOK'
    BY <1>19 DEF Panic, LocksVanish, LockTypeOK
  <2> QED
    BY <1>19, <2>1, <2>2, <2>3 DEF Panic
<1> QED
  BY <1>1, <1>2, <1>3, <1>4, <1>5, <1>6, <1>7, <1>8, <1>9, <1>10, <1>11, <1>12,
     <1>13, <1>14, <1>15, <1>16, <1>17, <1>18, <1>19 DEF Step

-----------------------------------------------------------------------------
\* The locks are held as the control state says: LockInv is inductive.
LEMMA InitLockInv == Init => LockInv
BY ConstantsOK DEF Init, LockInit, LockInv, ControlOK, ParkedOK, PmLockOK, LmLockOK,
   PmReader, LmReader, LmWriter, InitLabels

LEMMA StepControlOK ==
    ASSUME TypeOK, ControlOK, NEW c \in Calls, Step(c)
    PROVE  ControlOK'
<1> USE DEF TypeOK, ControlOK, Goto, Fail, dataVars, lockVars, diskVars, ExplorerOps,
            InstallerOps, InitOps, PlatformOps, PmThenLmOps, InitLabels
<1>1. CASE Begin(c)
  BY <1>1 DEF Begin
<1>2. CASE Destroy(c)
  BY <1>2 DEF Destroy
<1>3. CASE Explore(c)
  BY <1>3, ConstantsOK DEF Explore, Decide, Best
<1>4. CASE FetchSecond(c)
  BY <1>4 DEF FetchSecond
<1>5. CASE WantLm(c)
  BY <1>5 DEF WantLm
<1>6. CASE LmLocked(c)
  <2>1. CASE op[c] = "LibraryInstall"
    BY <1>6, <2>1 DEF LmLocked
  <2>2. CASE op[c] # "LibraryInstall"
    BY <1>6, <2>2 DEF LmLocked
  <2> QED
    BY <2>1, <2>2
<1>7. CASE DownloadDir(c)
  BY <1>7 DEF DownloadDir
<1>8. CASE LibraryWork(c)
  BY <1>8 DEF LibraryWork
<1>9. CASE PlatformWork(c)
  BY <1>9 DEF PlatformWork
<1>10. CASE ReleaseLm(c)
  BY <1>10 DEF ReleaseLm
<1>11. CASE ReleasePm(c)
  <2>1. \/ pc' = [pc EXCEPT ![c] = "load"] /\ op[c] \in PlatformOps
        \/ pc' = [pc EXCEPT ![c] = "done"]
    BY <1>11 DEF ReleasePm
  <2> QED
    BY <1>11, <2>1 DEF ReleasePm
<1>12. CASE Load(c)
  BY <1>12 DEF Load, Leave
<1>13. CASE WantPm(c)
  BY <1>13 DEF WantPm
<1>14. CASE Commit(c)
  BY <1>14 DEF Commit
<1>15. CASE Reopen(c)
  BY <1>15 DEF Reopen, Leave
<1>16. CASE Scan(c)
  BY <1>16 DEF Scan
<1>17. CASE Swap(c)
  BY <1>17 DEF Swap
<1>18. CASE ReleaseInit(c)
  BY <1>18 DEF ReleaseInit, Leave
<1>19. CASE Panic(c)
  BY <1>19 DEF Panic
<1> QED
  BY <1>1, <1>2, <1>3, <1>4, <1>5, <1>6, <1>7, <1>8, <1>9, <1>10, <1>11, <1>12,
     <1>13, <1>14, <1>15, <1>16, <1>17, <1>18, <1>19 DEF Step

LEMMA StepParkedOK ==
    ASSUME TypeOK, LockInv, NEW c \in Calls, Step(c)
    PROVE  ParkedOK'
<1> USE ConstantsOK DEF TypeOK, LockTypeOK, LockInv, ControlOK, Goto, dataVars, lockVars, diskVars,
        ParkedOK, PmLockOK, LmLockOK, PmReader, LmReader, HoldsWrite, HoldsRead,
        ExplorerOps, PlatformOps
<1>1. CASE Begin(c)
  BY SMTT(30), <1>1 DEF Begin, RLock
<1>2. CASE Destroy(c)
  BY <1>2 DEF Destroy
<1>3. CASE Explore(c)
  BY <1>3 DEF Explore, Decide
<1>4. CASE FetchSecond(c)
  BY <1>4 DEF FetchSecond
<1>5. CASE WantLm(c)
  BY <1>5 DEF WantLm, RLock, Lock
<1>6. CASE LmLocked(c)
  <2>1. CASE op[c] = "LibraryInstall"
    <3>1. c \notin readers[PM] \cup waiting[PM]
      BY <1>6, <2>1 DEF LmLocked
    <3> QED
      BY <1>6, <2>1, <3>1 DEF LmLocked, RLock
  <2>2. CASE op[c] # "LibraryInstall"
    BY <1>6, <2>2 DEF LmLocked, RLock
  <2> QED
    BY <2>1, <2>2
<1>7. CASE DownloadDir(c)
  BY <1>7 DEF DownloadDir, RUnlock
<1>8. CASE LibraryWork(c)
  BY <1>8 DEF LibraryWork
<1>9. CASE PlatformWork(c)
  BY <1>9 DEF PlatformWork
<1>10. CASE ReleaseLm(c)
  BY <1>10 DEF ReleaseLm, RUnlock, Unlock
<1>11. CASE ReleasePm(c)
  BY <1>11 DEF ReleasePm, RUnlock
<1>12. CASE Load(c)
  BY <1>12 DEF Load, Leave
<1>13. CASE WantPm(c)
  BY <1>13 DEF WantPm, Lock
<1>14. CASE Commit(c)
  BY <1>14 DEF Commit, Unlock
<1>15. CASE Reopen(c)
  BY SMTT(30), <1>15 DEF Reopen, Leave, RLock
<1>16. CASE Scan(c)
  BY <1>16 DEF Scan
<1>17. CASE Swap(c)
  BY <1>17 DEF Swap
<1>18. CASE ReleaseInit(c)
  BY <1>18 DEF ReleaseInit, Leave, RUnlock
<1>19. CASE Panic(c)
  BY <1>19 DEF Panic, LocksVanish
<1> QED
  BY <1>1, <1>2, <1>3, <1>4, <1>5, <1>6, <1>7, <1>8, <1>9, <1>10, <1>11, <1>12,
     <1>13, <1>14, <1>15, <1>16, <1>17, <1>18, <1>19 DEF Step

LEMMA StepPmLockOK ==
    ASSUME TypeOK, LockInv, NEW c \in Calls, Step(c)
    PROVE  PmLockOK'
<1> USE ConstantsOK DEF TypeOK, LockTypeOK, LockInv, ControlOK, Goto, dataVars, lockVars, diskVars,
        ParkedOK, PmLockOK, PmReader, HoldsWrite, HoldsRead, ExplorerOps,
        InstallerOps, InitOps, PlatformOps, PmThenLmOps, InitLabels
<1>1. CASE Begin(c)
  BY <1>1 DEF Begin, RLock
<1>2. CASE Destroy(c)
  BY <1>2 DEF Destroy
<1>3. CASE Explore(c)
  BY <1>3 DEF Explore, Decide
<1>4. CASE FetchSecond(c)
  BY <1>4 DEF FetchSecond
<1>5. CASE WantLm(c)
  BY <1>5 DEF WantLm, RLock, Lock
<1>6. CASE LmLocked(c)
  BY <1>6 DEF LmLocked, RLock
<1>7. CASE DownloadDir(c)
  BY <1>7 DEF DownloadDir, RUnlock
<1>8. CASE LibraryWork(c)
  BY <1>8 DEF LibraryWork
<1>9. CASE PlatformWork(c)
  BY <1>9 DEF PlatformWork
<1>10. CASE ReleaseLm(c)
  BY <1>10 DEF ReleaseLm, RUnlock, Unlock
<1>11. CASE ReleasePm(c)
  BY <1>11 DEF ReleasePm, RUnlock
<1>12. CASE Load(c)
  BY <1>12 DEF Load, Leave
<1>13. CASE WantPm(c)
  BY <1>13 DEF WantPm, Lock
<1>14. CASE Commit(c)
  BY <1>14 DEF Commit, Unlock
<1>15. CASE Reopen(c)
  BY <1>15 DEF Reopen, Leave, RLock
<1>16. CASE Scan(c)
  BY <1>16 DEF Scan
<1>17. CASE Swap(c)
  BY <1>17 DEF Swap
<1>18. CASE ReleaseInit(c)
  BY <1>18 DEF ReleaseInit, Leave, RUnlock
<1>19. CASE Panic(c)
  BY <1>19 DEF Panic, LocksVanish
<1> QED
  BY <1>1, <1>2, <1>3, <1>4, <1>5, <1>6, <1>7, <1>8, <1>9, <1>10, <1>11, <1>12,
     <1>13, <1>14, <1>15, <1>16, <1>17, <1>18, <1>19 DEF Step

\* A step of a call that neither has nor takes a libraries lock.
LEMMA OutsideLmLocks ==
    ASSUME LmLockOK, NEW c \in Calls, op' = op,
           pc' \in [Calls -> Labels], lm' \in [Calls -> Managers],
           \A d \in Calls \ {c} : pc'[d] = pc[d] /\ lm'[d] = lm[d],
           \A m \in Managers : /\ readers'[m] = readers[m] /\ waiting'[m] = waiting[m]
                               /\ writer'[m] = writer[m],
           ~LmReader(c), ~LmReader(c)', ~LmWriter(c), ~LmWriter(c)'
    PROVE  LmLockOK'
<1>1. \A d \in Calls : d # c => (LmReader(d)' <=> LmReader(d)) /\ (LmWriter(d)' <=> LmWriter(d))
  BY DEF LmReader, LmWriter
<1>2. ASSUME NEW d \in Calls, NEW m \in Managers
      PROVE  /\ d \in readers'[m] \cup waiting'[m] <=> LmReader(d)' /\ lm'[d] = m
             /\ d \in waiting'[m] => pc'[d] = "lockLm"
             /\ writer'[m] = d <=> LmWriter(d)' /\ lm'[d] = m
  <2>1. CASE d = c
    BY <2>1 DEF LmLockOK
  <2>2. CASE d # c
    BY <2>2, <1>1 DEF LmLockOK
  <2> QED
    BY <2>1, <2>2
<1>3. ASSUME NEW d \in Calls, LmWriter(d)', pc'[d] # "lockLm"
      PROVE  readers'[lm'[d]] = {}
  BY <1>1, <1>3 DEF LmLockOK
<1> QED
  BY <1>2, <1>3 DEF LmLockOK

LEMMA StepLmLockOK ==
    ASSUME TypeOK, LockInv, NEW c \in Calls, Step(c)
    PROVE  LmLockOK'
<1> USE ConstantsOK DEF TypeOK, LockTypeOK, LockInv, ControlOK, Goto, dataVars, lockVars, diskVars,
        ParkedOK, LmLockOK, LmReader, LmWriter, HoldsWrite, HoldsRead, ExplorerOps,
        InstallerOps, InitOps, PlatformOps, PmThenLmOps, InitLabels
<1>1. CASE Begin(c)
  <2>1. /\ pc[c] = "call" /\ op' = op
        /\ pc'[c] \in {"explore", "wantLm", "load", "done"}
        /\ pc'[c] = "load" => op[c] = "Init"
        /\ pc' \in [Calls -> Labels] /\ lm' \in [Calls -> Managers]
        /\ \A d \in Calls \ {c} : pc'[d] = pc[d] /\ lm'[d] = lm[d]
    BY SMTT(30), <1>1 DEF Begin, FetchLm, Labels
  <2>2. \A m \in Managers : /\ readers'[m] = readers[m] /\ waiting'[m] = waiting[m]
                            /\ writer'[m] = writer[m]
    BY <1>1 DEF Begin, RLock
  <2>3. ~LmReader(c) /\ ~LmReader(c)' /\ ~LmWriter(c) /\ ~LmWriter(c)'
    BY <2>1
  <2> HIDE DEF LmLockOK, LmReader, LmWriter
  <2> QED
    BY <2>1, <2>2, <2>3, OutsideLmLocks
<1>2. CASE Destroy(c)
  BY <1>2 DEF Destroy
<1>3. CASE Explore(c)
  <2>1. /\ pc[c] = "explore" /\ op' = op /\ lm' = lm
        /\ readers' = readers /\ waiting' = waiting /\ writer' = writer
    BY <1>3 DEF Explore, Decide
  <2>2. \/ pc' = [pc EXCEPT ![c] = "fetchLm"]
        \/ pc' = [pc EXCEPT ![c] = "releasePm"]
        \/ pc' = [pc EXCEPT ![c] = "platformWork"] /\ op[c] # "PlatformInstall"
    BY <1>3 DEF Explore, Decide
  <2>3. ~LmReader(c) /\ ~LmReader(c)' /\ ~LmWriter(c) /\ ~LmWriter(c)'
    BY <2>1, <2>2
  <2> QED
    BY <2>1, <2>2, <2>3
<1>4. CASE FetchSecond(c)
  <2>1. /\ pc[c] = "fetchLm" /\ op' = op
        /\ pc'[c] \in {"wantLm", "releasePm"}
        /\ pc' \in [Calls -> Labels] /\ lm' \in [Calls -> Managers]
        /\ \A d \in Calls \ {c} : pc'[d] = pc[d] /\ lm'[d] = lm[d]
        /\ readers' = readers /\ waiting' = waiting /\ writer' = writer
    BY SMTT(30), <1>4 DEF FetchSecond, FetchLm, Labels
  <2>2. ~LmReader(c) /\ ~LmReader(c)' /\ ~LmWriter(c) /\ ~LmWriter(c)'
    BY <2>1
  <2> HIDE DEF LmLockOK, LmReader, LmWriter
  <2> QED
    BY <2>1, <2>2, OutsideLmLocks
<1>5. CASE WantLm(c)
  BY SMTT(30), <1>5 DEF WantLm, RLock, Lock
<1>6. CASE LmLocked(c)
  <2>0. /\ pc[c] = "lockLm" /\ op' = op /\ lm' = lm /\ writer' = writer
        /\ \A m \in Managers : readers'[m] = readers[m] /\ waiting'[m] = waiting[m]
        /\ IF op[c] = "LibraryList" THEN HoldsRead(lm[c], c) ELSE HoldsWrite(lm[c], c)
    BY <1>6 DEF LmLocked, RLock
  <2>1. \/ pc' = [pc EXCEPT ![c] = "releaseLm"]
        \/ pc' = [pc EXCEPT ![c] = "downloadDir"] /\ op[c] = "LibraryInstall"
        \/ pc' = [pc EXCEPT ![c] = "libraryWork"] /\ op[c] # "LibraryList"
    BY <1>6 DEF LmLocked
  <2>2. op[c] \in InstallerOps \cup PmThenLmOps
    BY <2>0
  <2>3. \A d \in Calls : (LmReader(d)' <=> LmReader(d)) /\ (LmWriter(d)' <=> LmWriter(d))
    BY <2>0, <2>1, <2>2
  <2>4. \A d \in Calls : d # c => pc'[d] = pc[d]
    BY <2>1
  <2>5. c \notin waiting[lm[c]]
    BY <2>0
  <2>6. op[c] # "LibraryList" => readers[lm[c]] = {}
    BY <2>0
  <2>7. \A d \in Calls, m \in Managers : d \in waiting'[m] => pc'[d] = "lockLm"
    <3> SUFFICES ASSUME NEW d \in Calls, NEW m \in Managers, d \in waiting[m]
                 PROVE  pc'[d] = "lockLm"
      BY <2>0
    <3>1. pc[d] = "lockLm" /\ lm[d] = m
      OBVIOUS
    <3> QED
      BY <3>1, <2>4, <2>5
  <2>8. \A d \in Calls : LmWriter(d)' /\ pc'[d] # "lockLm" => readers'[lm'[d]] = {}
    BY <2>0, <2>3, <2>4, <2>6
  <2> QED
    BY <2>0, <2>3, <2>7, <2>8
<1>7. CASE DownloadDir(c)
  BY <1>7 DEF DownloadDir, RUnlock
<1>8. CASE LibraryWork(c)
  BY <1>8 DEF LibraryWork
<1>9. CASE PlatformWork(c)
  BY <1>9 DEF PlatformWork
<1>10. CASE ReleaseLm(c)
  BY <1>10 DEF ReleaseLm, RUnlock, Unlock
<1>11. CASE ReleasePm(c)
  BY <1>11 DEF ReleasePm, RUnlock
<1>12. CASE Load(c)
  BY SMTT(30), <1>12 DEF Load, Leave
<1>13. CASE WantPm(c)
  BY <1>13 DEF WantPm, Lock
<1>14. CASE Commit(c)
  BY <1>14 DEF Commit, Unlock
<1>15. CASE Reopen(c)
  <2>1. CASE valid
    <3>1. /\ pc[c] = "reopen" /\ pc' = [pc EXCEPT ![c] = "scan"]
          /\ op' = op /\ lm' = lm /\ writer' = writer
          /\ \A m \in Managers : readers'[m] = readers[m] /\ waiting'[m] = waiting[m]
      BY <1>15, <2>1 DEF Reopen, RLock
    <3> QED
      BY <3>1
  <2>2. CASE ~valid
    BY <1>15, <2>2 DEF Reopen, Leave
  <2> QED
    BY <2>1, <2>2
<1>16. CASE Scan(c)
  BY <1>16 DEF Scan
<1>17. CASE Swap(c)
  BY <1>17 DEF Swap
<1>18. CASE ReleaseInit(c)
  BY <1>18 DEF ReleaseInit, Leave, RUnlock
<1>19. CASE Panic(c)
  BY <1>19 DEF Panic, LocksVanish
<1> QED
  BY <1>1, <1>2, <1>3, <1>4, <1>5, <1>6, <1>7, <1>8, <1>9, <1>10, <1>11, <1>12,
     <1>13, <1>14, <1>15, <1>16, <1>17, <1>18, <1>19 DEF Step

-----------------------------------------------------------------------------
IInv == TypeOK /\ LockInv

LEMMA InvInit == Init => IInv
BY InitTypeOK, InitLockInv DEF IInv

LEMMA InvNext == IInv /\ [Next]_vars => IInv'
<1> SUFFICES ASSUME IInv, [Next]_vars
             PROVE  IInv'
  OBVIOUS
<1>1. ASSUME NEW c \in Calls, Step(c)
      PROVE  IInv'
  BY <1>1, StepTypeOK, StepControlOK, StepParkedOK, StepPmLockOK, StepLmLockOK
     DEF IInv, LockInv
<1>2. CASE UNCHANGED vars
  BY <1>2 DEF IInv, vars, dataVars, TypeOK, LockTypeOK, LockInv, ControlOK, ParkedOK,
     PmLockOK, LmLockOK, PmReader, LmReader, LmWriter
<1> QED
  BY <1>1, <1>2 DEF Next, Idle

LEMMA Invariant == Spec => []IInv
BY InvInit, InvNext, PTL DEF Spec

\* Every variable keeps to its type.
THEOREM TypeCorrect == Spec => []TypeOK
<1>1. IInv => TypeOK
  BY DEF IInv
<1> QED
  BY <1>1, Invariant, PTL

\* At every moment the mutexes are held exactly by the calls whose control
\* state says so, whatever the early returns and the failures before.
THEOREM LockInvariant == Spec => []LockInv
<1>1. IInv => LockInv
  BY DEF IInv
<1> QED
  BY <1>1, Invariant, PTL

\* No Init replaces the packages under the Explorer of another call.
THEOREM ExplorerExcludesCommit == Spec => []NoCommitUnderExplorer
<1>1. IInv => NoCommitUnderExplorer
  <2> SUFFICES ASSUME IInv, NEW c \in Calls, NEW d \in Calls,
                      HoldsWrite(PM, c), Exploring(d)
               PROVE  FALSE
    BY DEF NoCommitUnderExplorer
  <2>1. readers[PM] = {}
    BY DEF HoldsWrite
  <2>2. d \in readers[PM] \cup waiting[PM]
    BY DEF IInv, LockInv, PmLockOK, Exploring
  <2>3. d \in waiting[PM] => d \in readers[PM]
    BY DEF IInv, LockInv, PmLockOK, Exploring, HoldsRead
  <2> QED
    BY <2>1, <2>2, <2>3
<1> QED
  BY <1>1, Invariant, PTL

LEMMA InstallersExcludeInv == IInv => OneInstallerPerManager
<1> SUFFICES ASSUME IInv, NEW c \in Calls, NEW d \in Calls, lm[c] = lm[d],
                    pc[c] = "libraryWork", pc[d] = "libraryWork"
             PROVE  c = d
  BY DEF OneInstallerPerManager
<1>1. lm[c] \in Managers
  BY DEF IInv, TypeOK
<1>2. LmWriter(c) /\ LmWriter(d)
  BY DEF IInv, LockInv, ControlOK, LmWriter, InstallerOps
<1>3. writer[lm[c]] = c /\ writer[lm[d]] = d
  BY <1>1, <1>2 DEF IInv, LockInv, LmLockOK
<1> QED
  BY <1>3

\* A LibrariesManager never has two installers at work.
THEOREM InstallersExclude == Spec => []OneInstallerPerManager
BY InstallersExcludeInv, Invariant, PTL

-----------------------------------------------------------------------------
\* Without an Init, every call works through the first LibrariesManager, and
\* what that lists is on the disk.
FirstManagerOnly ==
    NoInit => /\ currentLm = FirstLm
              /\ \A c \in Calls : lm[c] = FirstLm
              /\ knownLibs[FirstLm] \subseteq libsOnDisk

LEMMA StepFirstManagerOnly ==
    ASSUME IInv, FirstManagerOnly, NEW c \in Calls, Step(c)
    PROVE  FirstManagerOnly'
<1> USE DEF IInv, TypeOK, Goto, dataVars, diskVars
<1>1. op' = op
  BY Zenon DEF Step, Begin, Destroy, Explore, Decide, FetchSecond, WantLm, LmLocked, DownloadDir,
     LibraryWork, PlatformWork, Panic, ReleaseLm, ReleasePm, Leave, Load, WantPm, Commit,
     Reopen, Scan, Swap, ReleaseInit
<1>2. SUFFICES ASSUME NoInit, NoInit', FirstManagerOnly!2
               PROVE  FirstManagerOnly!2'
  BY <1>1 DEF FirstManagerOnly, NoInit
<1>3. op[c] \notin InitOps /\ pc[c] \notin InitLabels /\ ~(pc[c] = "platformWork")
  BY <1>2 DEF NoInit, LockInv, ControlOK, InitOps
<1>4. CASE LibraryWork(c)
  <2>1. currentLm' = currentLm /\ lm' = lm
    BY <1>4 DEF LibraryWork
  <2>2. knownLibs'[FirstLm] \subseteq libsOnDisk'
    <3>1. CASE \E L \in SUBSET Libs : InstallLibs(L, lm[c])
      BY <3>1, <1>2 DEF InstallLibs
    <3>2. CASE \E L \in SUBSET Libs : FailedInstallLibs(c, L, lm[c])
      BY <3>2, <1>2 DEF FailedInstallLibs
    <3>3. CASE \E l \in Libs : UninstallLib(l, lm[c])
      BY <3>3, <1>2 DEF UninstallLib
    <3> QED
      BY <1>4, <3>1, <3>2, <3>3, ConstantsOK DEF LibraryWork
  <2> QED
    BY <1>2, <2>1, <2>2
<1>5. CASE ~LibraryWork(c)
  <2>1. currentLm' = currentLm /\ knownLibs' = knownLibs /\ libsOnDisk' = libsOnDisk
    BY <1>3, <1>5 DEF Step, InitLabels, Begin, Destroy, Explore, FetchSecond, WantLm, LmLocked,
       DownloadDir, PlatformWork, Panic, ReleaseLm, ReleasePm, Load, WantPm, Commit, Reopen,
       Scan, Swap, ReleaseInit
  <2>2. lm' = lm \/ lm' = [lm EXCEPT ![c] = currentLm]
    BY <1>3, <1>5 DEF Step, InitLabels, Begin, Destroy, Explore, FetchSecond, FetchLm, WantLm, LmLocked,
       DownloadDir, PlatformWork, Panic, ReleaseLm, ReleasePm, Load, WantPm, Commit, Reopen,
       Scan, Swap, ReleaseInit
  <2> QED
    BY <1>2, <2>1, <2>2
<1> QED
  BY <1>4, <1>5

LEMMA FirstManagerInvariant == Spec => []FirstManagerOnly
<1>1. Init => FirstManagerOnly
  BY DEF Init, FirstManagerOnly
<1>2. IInv /\ FirstManagerOnly /\ [Next]_vars => FirstManagerOnly'
  <2> SUFFICES ASSUME IInv, FirstManagerOnly, [Next]_vars
               PROVE  FirstManagerOnly'
    OBVIOUS
  <2>1. CASE UNCHANGED vars
    BY <2>1 DEF FirstManagerOnly, NoInit, vars, dataVars
  <2> QED
    BY <2>1, StepFirstManagerOnly DEF Next, Idle
<1> QED
  BY <1>1, <1>2, Invariant, PTL DEF Spec

\* As long as no Init swaps the LibrariesManager, the libraries directory is
\* changed by one call at a time.
THEOREM LibrariesDirExclusion == Spec => []LibrariesDirExclusive
<1>1. IInv => OneInstallerPerManager
  BY InstallersExcludeInv
<1>2. OneInstallerPerManager /\ FirstManagerOnly => LibrariesDirExclusive
  BY DEF OneInstallerPerManager, FirstManagerOnly, LibrariesDirExclusive
<1> QED
  BY <1>1, <1>2, Invariant, FirstManagerInvariant, PTL

\* And what the manager lists when the calls are done is on the disk.
THEOREM UninstalledNotListed == Spec => []UninstalledLibNotListed
<1>1. FirstManagerOnly => UninstalledLibNotListed
  BY DEF FirstManagerOnly, UninstalledLibNotListed
<1> QED
  BY <1>1, FirstManagerInvariant, PTL

-----------------------------------------------------------------------------
\* A call that is neither answered nor parked on a lock.
CanMove(c) == pc[c] # "done" /\ ~Blocked(c)

\* The call that has announced itself as the writer of a libraries manager, or
\* one of the readers it waits for, can take a step.
LEMMA LmWriterMoves ==
    ASSUME IInv, NEW m \in Managers, writer[m] \in Calls,
           op[writer[m]] = "LibraryInstall" => writer[PM] = Nobody
    PROVE  \E c \in Calls : CanMove(c)
<1> DEFINE w == writer[m]
<1> USE DEF CanMove
<1>1. LmWriter(w) /\ lm[w] = m
  BY DEF IInv, LockInv, LmLockOK
<1>2. CASE readers[m] = {}
  <2>1. CASE pc[w] \in {"lockLm", "libraryWork", "releaseLm", "platformWork"}
    BY <1>1, <1>2, <2>1 DEF Blocked, HoldsWrite, LmWriter
  <2>2. CASE pc[w] \notin {"lockLm", "libraryWork", "releaseLm", "platformWork"}
    <3>1. op[w] = "LibraryInstall"
      BY <1>1, <2>2 DEF LmWriter, IInv, LockInv, ControlOK
    <3>2. writer[PM] = Nobody
      BY <3>1
    <3>3. pc[w] # "commit" /\ pc[w] # "wantLm" /\ pc[w] # "done" /\ pc[w] # "lockLm"
      BY <1>1, <2>2, <3>1, <3>2, ConstantsOK DEF IInv, LockInv, PmLockOK, LmWriter, InitLabels
    <3>4. pc[w] \in {"explore", "downloadDir", "scan"} => HoldsRead(PM, w)
      BY <3>2 DEF IInv, LockInv, PmLockOK, PmReader, ParkedOK, HoldsRead
    <3> QED
      BY <3>2, <3>3, <3>4 DEF Blocked
  <2> QED
    BY <2>1, <2>2
<1>3. CASE readers[m] # {}
  <2>1. PICK r \in Calls : r \in readers[m]
    BY <1>3 DEF IInv, TypeOK, LockTypeOK
  <2>2. LmReader(r) /\ lm[r] = m
    BY <2>1 DEF IInv, LockInv, LmLockOK
  <2> QED
    BY <2>1, <2>2 DEF LmReader, Blocked, HoldsRead
<1> QED
  BY <1>2, <1>3

\* A call at a libraries lock, or some other call, can take a step.
LEMMA LmCallMoves ==
    ASSUME IInv, NEW c \in Calls, pc[c] \in {"wantLm", "lockLm"},
           writer[PM] = Nobody \/ \A d \in Calls : op[d] # "LibraryInstall"
    PROVE  \E d \in Calls : CanMove(d)
<1>1. lm[c] \in Managers /\ writer[lm[c]] \in Calls \cup {Nobody}
  BY DEF IInv, TypeOK, LockTypeOK
<1>2. CASE writer[lm[c]] \in Calls
  BY <1>1, <1>2, LmWriterMoves
<1>3. CASE writer[lm[c]] = Nobody
  <2>1. pc[c] = "lockLm" => op[c] = "LibraryList"
    BY <1>1, <1>3, ConstantsOK DEF IInv, LockInv, LmLockOK, LmWriter
  <2>2. pc[c] = "lockLm" => c \in readers[lm[c]]
    BY <1>1, <1>3, <2>1 DEF IInv, LockInv, LmLockOK, LmReader, ParkedOK
  <2> QED
    BY <1>3, <2>1, <2>2 DEF CanMove, Blocked, HoldsRead
<1> QED
  BY <1>1, <1>2, <1>3

\* The call that has announced itself as the writer of the package manager, or
\* one of the Explorers it waits for, or a call those wait for, can take a step.
LEMMA PmWriterMoves ==
    ASSUME IInv, OneLockOrder, writer[PM] \in Calls
    PROVE  \E c \in Calls : CanMove(c)
<1> DEFINE w == writer[PM]
<1>1. pc[w] = "commit"
  BY DEF IInv, LockInv, PmLockOK
<1>2. CASE readers[PM] = {}
  BY <1>1, <1>2 DEF CanMove, Blocked, HoldsWrite
<1>3. CASE readers[PM] # {}
  <2>1. PICK r \in Calls : r \in readers[PM]
    BY <1>3 DEF IInv, TypeOK, LockTypeOK
  <2>2. PmReader(r)
    BY <2>1 DEF IInv, LockInv, PmLockOK
  <2>3. CASE pc[r] \in {"wantLm", "lockLm"}
    <3>1. op[r] \in PmThenLmOps
      BY <2>2, <2>3 DEF PmReader, IInv, LockInv, ControlOK, ExplorerOps, PlatformOps,
         InstallerOps, PmThenLmOps
    <3> QED
      BY <2>3, <3>1, LmCallMoves DEF OneLockOrder
  <2>4. CASE pc[r] \notin {"wantLm", "lockLm"}
    BY <2>1, <2>2, <2>4 DEF PmReader, CanMove, Blocked, HoldsRead
  <2> QED
    BY <2>3, <2>4
<1> QED
  BY <1>2, <1>3

\* Calls that take the package lock and the libraries lock in one order never
\* end up all waiting: LibraryInstall is the one handler that inverts it.
THEOREM OrderedCallsMove == Spec => []NoDeadlockInOneOrder
<1>1. IInv => NoDeadlockInOneOrder
  <2> SUFFICES ASSUME IInv, OneLockOrder, NEW c \in Calls, pc[c] # "done"
               PROVE  \E d \in Calls : CanMove(d)
    BY DEF NoDeadlockInOneOrder, NoDeadlock, AllDone, CanMove
  <2>1. writer[PM] \in Calls \cup {Nobody}
    BY DEF IInv, TypeOK, LockTypeOK
  <2>2. CASE writer[PM] \in Calls
    BY <2>2, PmWriterMoves
  <2>3. CASE writer[PM] = Nobody /\ pc[c] \in {"wantLm", "lockLm"}
    BY <2>3, LmCallMoves
  <2>4. CASE writer[PM] = Nobody /\ pc[c] \notin {"wantLm", "lockLm"}
    <3>1. pc[c] \in {"explore", "downloadDir", "scan"} => HoldsRead(PM, c)
      BY <2>4 DEF IInv, LockInv, PmLockOK, PmReader, ParkedOK, HoldsRead
    <3>2. pc[c] # "commit"
      BY <2>4, ConstantsOK DEF IInv, LockInv, PmLockOK
    <3> QED
      BY <2>4, <3>1, <3>2 DEF CanMove, Blocked
  <2> QED
    BY <2>1, <2>2, <2>3, <2>4
<1> QED
  BY <1>1, Invariant, PTL

-----------------------------------------------------------------------------
\* The update of the indexes.
USE IndexesOK, WorldsOK

-----------------------------------------------------------------------------
\* From where on something has been downloaded, has been verified, and the old index saved.
Saved    == Replacing \cup {"copy", "commit"}
Verified == Saved \cup {"backup"}
Fetched  == Verified \cup {"signature", "verify"}
Places   == Fetched \cup {"idle", "next", "download"}

Results == {"none", "uptodate", "failed", "updated"}
Bases   == Contents \X Contents \X (Versions \cup {Nothing})
JobType == [at : Places, todo : Seq(Indexes), ifOlder : BOOLEAN,
            tmp : Contents, tmpSig : Contents, old : Contents, oldSig : Contents,
            report : [Indexes -> Results], before : [Indexes -> Bases]]

Guarded == WithSignatureURL \cup {Libraries}

\* What a request has in hand, by where it is.
InHand(j) ==
    /\ j.at = "idle" => j = NoRequest
    /\ j.at \notin {"idle", "next"} => j.todo # <<>>
    /\ j.at \in Fetched => j.tmp \in Versions \cup {Garbled}
    /\ j.at = "verify" /\ Head(j.todo) \in WithSignatureURL => j.tmpSig # Nothing
    /\ j.at \in Verified => /\ j.tmpSig # Nothing => Valid(j.tmp, j.tmpSig)
                            /\ Head(j.todo) \in Guarded => j.tmp \in Versions
    /\ j.at \in Saved /\ Head(j.todo) \in Guarded => j.old # Garbled
    /\ j.at \in {"copySig", "copyingSig"} => j.tmpSig # Nothing

SafeInv ==
    /\ world \in Worlds /\ requests \in Nat /\ changes \in Nat
    /\ served \in [Indexes -> Versions]
    /\ index \in [Indexes -> Contents] /\ sig \in [Indexes -> Contents]
    /\ recent \subseteq Indexes /\ damaged \subseteq Indexes /\ spoiled \subseteq Files
    /\ job \in [Jobs -> JobType]
    /\ OnlyPublished
    /\ \A c \in Jobs : InHand(job[c])

-----------------------------------------------------------------------------
\* Of a request that is the only one: what was there when its update of index i began is what
\* there is, or what was saved; what was downloaded is as new as what was served.
AloneCall(c) ==
    LET i == Now(c)
        j == job[c]
    IN  /\ j.at \in {"download", "signature", "verify", "backup"} => index[i] = j.before[i][1]
        /\ j.at \in Saved => j.old = j.before[i][1]
        /\ j.at = "copy" => index[i] = j.old
        /\ j.at \in {"download", "signature", "verify", "backup", "copy", "copying", "copySig"} =>
               sig[i] = j.before[i][2]
        /\ j.at \in {"rollback", "rollingBack"} /\ i \notin damaged => sig[i] = j.before[i][2]
        /\ j.at \in {"copySig", "copyingSig", "commit"} => index[i] = j.tmp
        /\ j.at = "commit" => IF HasSignature(c) THEN sig[i] = j.tmpSig ELSE i \in damaged
        /\ j.at = "download" => j.before[i][3] <= served[i]
        /\ j.at \in Fetched => j.tmp = Garbled \/ (j.tmp \in Versions /\ j.before[i][3] <= j.tmp)
        /\ j.at \in {"copying", "rollback", "rollingBack"} /\ i \in Signed \ damaged =>
               j.old = sig[i] /\ j.old \in Versions \cup {Nothing}
        /\ j.at \in {"copying", "rollingBack"} => IndexFile(c) \notin spoiled
        /\ j.at = "copyingSig" => SignatureFile(c) \notin spoiled

\* The pair of files of index i, if no request is replacing it.
Paired(i) == Quiet(i) => index[i] = sig[i] /\ index[i] \in Versions \cup {Nothing}

\* What the request's report says of index i.
Truthful(c, i) ==
    /\ job[c].report[i] = "failed" /\ ~WorksOn(c, i) /\ i \notin damaged =>
           index[i] = job[c].before[i][1] /\ sig[i] = job[c].before[i][2]
    /\ job[c].report[i] = "updated" /\ ~WorksOn(c, i) =>
           index[i] = Garbled \/ (index[i] \in Versions /\ job[c].before[i][3] <= index[i])

AloneInv ==
    Alone => /\ \A c, d \in Jobs : job[c].at # "idle" /\ job[d].at # "idle" => c = d
             /\ \A c \in Jobs : AloneCall(c)
             /\ \A i \in Signed \ damaged : Paired(i)
             /\ \A c \in Jobs, i \in Indexes : Truthful(c, i)

UpdateInv == SafeInv /\ AloneInv

-----------------------------------------------------------------------------
\* What the updates of a job change.
IsAsked(k, urls, older) ==
    /\ k \in JobType /\ k.at = "next" /\ k.todo = urls /\ k.ifOlder = older
    /\ k.report = NoRequest.report /\ k.before = NoRequest.before

IsAt(k, j, l) ==
    /\ k \in JobType /\ k.at = l /\ k.todo = j.todo /\ k.tmp = j.tmp /\ k.tmpSig = j.tmpSig
    /\ k.old = j.old /\ k.report = j.report /\ k.before = j.before

IsBegun(k, j, b) ==
    /\ k \in JobType /\ k.at = "download" /\ k.todo = j.todo /\ k.report = j.report
    /\ k.before = [j.before EXCEPT ![Head(j.todo)] = b]

IsFetched(k, j, l, v, s) ==
    /\ k \in JobType /\ k.at = l /\ k.todo = j.todo /\ k.tmp = v /\ k.tmpSig = s
    /\ k.report = j.report /\ k.before = j.before

IsSaved(k, j, v) ==
    /\ k \in JobType /\ k.at = "copy" /\ k.todo = j.todo /\ k.tmp = j.tmp /\ k.tmpSig = j.tmpSig
    /\ k.old = v /\ k.report = j.report /\ k.before = j.before

IsClosed(k, j, result) ==
    /\ k \in JobType /\ k.at = "next" /\ k.before = j.before
    /\ k.report = [j.report EXCEPT ![Head(j.todo)] = result]

LEMMA Distinct ==
    /\ Torn # Garbled /\ Torn # Nothing /\ Garbled # Nothing /\ Nothing \notin Versions
    /\ Torn \notin Versions /\ Garbled \notin Versions /\ Versions \subseteq Nat /\ 1 \in Versions
    /\ Versions \subseteq Contents /\ Nothing \in Contents /\ Torn \in Contents /\ Garbled \in Contents
BY DEF Versions, Contents, Nothing

LEMMA IdleJob == NoRequest \in JobType
<1>1. /\ <<>> \in Seq(Indexes) /\ Nothing \in Contents
      /\ [i \in Indexes |-> "none"] \in [Indexes -> Results]
  BY Distinct DEF Results
<1>2. [i \in Indexes |-> <<Nothing, Nothing, Nothing>>] \in [Indexes -> Bases]
  BY Distinct DEF Bases
<1> QED
  BY <1>1, <1>2 DEF NoRequest, JobType, Places

LEMMA AskedJob ==
    ASSUME NEW urls \in Seq(Indexes), NEW older \in BOOLEAN
    PROVE  IsAsked(Asks(urls, older), urls, older)
BY IdleJob DEF Asks, IsAsked, JobType, Places

LEMMA ReachedJob ==
    ASSUME NEW j \in JobType, NEW l \in Places
    PROVE  IsAt(GoesTo(j, l), j, l)
BY DEF GoesTo, IsAt, JobType

LEMMA FirstOfAll ==
    ASSUME NEW j \in JobType, j.todo # <<>>
    PROVE  Head(j.todo) \in Indexes /\ Tail(j.todo) \in Seq(Indexes)
BY HeadTailProperties DEF JobType

LEMMA BegunJob ==
    ASSUME NEW j \in JobType, j.todo # <<>>, NEW b \in Bases
    PROVE  IsBegun(Begins(j, b), j, b)
<1>1. [j.before EXCEPT ![Head(j.todo)] = b] \in [Indexes -> Bases]
  BY FirstOfAll DEF JobType
<1> QED
  BY <1>1 DEF Begins, IsBegun, JobType, Places, Fetched

LEMMA FetchedJob ==
    ASSUME NEW j \in JobType, NEW l \in Places, NEW v \in Contents, NEW s \in Contents
    PROVE  IsFetched(Fetches(j, l, v, s), j, l, v, s)
BY DEF Fetches, IsFetched, JobType

LEMMA SavedJob ==
    ASSUME NEW j \in JobType, NEW v \in Contents, NEW s \in Contents
    PROVE  IsSaved(Saves(j, v, s), j, v)
BY DEF Saves, IsSaved, JobType, Places, Fetched, Verified, Saved

LEMMA ClosedJob ==
    ASSUME NEW j \in JobType, j.todo # <<>>, NEW result \in Results
    PROVE  IsClosed(Closes(j, result), j, result)
<1>1. [j.report EXCEPT ![Head(j.todo)] = result] \in [Indexes -> Results]
  BY FirstOfAll DEF JobType
<1>2. Remaining(j, result) \in Seq(Indexes)
  BY FirstOfAll DEF Remaining
<1>3. Nothing \in Contents
  BY Distinct
<1> QED
  BY <1>1, <1>2, <1>3 DEF Closes, IsClosed, JobType, Places

-----------------------------------------------------------------------------
\* The request comes to hold j, and no other is touched; the server and the world are not.
MovesTo(c, j) == job' = [job EXCEPT ![c] = j] /\ UNCHANGED <<world, served>>

Keeps == UNCHANGED <<index, sig, damaged, spoiled>>

FailLeads(c, j) == IsClosed(j, job[c], "failed")
RollbackLeads(c, j) ==
    IF job[c].old = Nothing THEN FailLeads(c, j) ELSE IsAt(j, job[c], "rollback")

\* Where each step of request c leads it, and what else the step does.
RequestLeads(c, j) ==
    /\ c \notin Busy /\ Cardinality(Busy) < world.jobs /\ Keeps
    /\ \E urls \in Seq(Indexes), older \in BOOLEAN : IsAsked(j, urls, older)

NextLeads(c, j) ==
    /\ At(c, "next") /\ job[c].todo # <<>> /\ Keeps
    /\ \/ \E result \in {"uptodate", "none"} : IsClosed(j, job[c], result)
       \/ IsBegun(j, job[c], <<index[Now(c)], sig[Now(c)], served[Now(c)]>>)

AnswerLeads(c, j) == At(c, "next") /\ j = NoRequest /\ Keeps

DownloadIndexLeads(c, j) ==
    /\ At(c, "download") /\ Keeps
    /\ \/ FailLeads(c, j)
       \/ /\ Now(c) \in Archives
          /\ \E v \in {served[Now(c)], Garbled}, s \in {served[Now(c)], Nothing} :
                 IsFetched(j, job[c], "verify", v, s)
       \/ /\ Now(c) \notin Archives
          /\ \E v \in {served[Now(c)], Garbled} :
                 IsFetched(j, job[c], IF Now(c) \in WithSignatureURL THEN "signature" ELSE "verify", v, Nothing)

DownloadSignatureLeads(c, j) ==
    /\ At(c, "signature") /\ Keeps
    /\ \/ FailLeads(c, j)
       \/ \E s \in {served[Now(c)], Garbled} : IsFetched(j, job[c], "verify", job[c].tmp, s)

VerifyLeads(c, j) ==
    /\ At(c, "verify") /\ Keeps
    /\ \/ FailLeads(c, j)
       \/ /\ IF HasSignature(c) THEN Valid(job[c].tmp, job[c].tmpSig) ELSE Now(c) # Libraries
          /\ IsAt(j, job[c], "backup")

BackupLeads(c, j) ==
    At(c, "backup") /\ Keeps /\ (FailLeads(c, j) \/ IsSaved(j, job[c], index[Now(c)]))

BeginCopyLeads(c, j) ==
    /\ At(c, "copy") /\ IsAt(j, job[c], "copying")
    /\ index' = Truncate(index, Now(c)) /\ Opens(c, IndexFile(c)) /\ UNCHANGED <<sig, damaged>>

EndCopyLeads(c, j) ==
    /\ At(c, "copying") /\ UNCHANGED sig
    /\ \/ /\ UNCHANGED index /\ Damage(c, job[c].old = Nothing) /\ RollbackLeads(c, j)
          /\ Spoils(IndexFile(c), TRUE)
       \/ /\ \E v \in Written(job[c].tmp, IndexFile(c)) : index' = [index EXCEPT ![Now(c)] = v]
          /\ IsAt(j, job[c], IF HasSignature(c) THEN "copySig" ELSE "commit") /\ Damage(c, ~HasSignature(c))
          /\ UNCHANGED spoiled

BeginCopySignatureLeads(c, j) ==
    /\ At(c, "copySig") /\ IsAt(j, job[c], "copyingSig")
    /\ sig' = Truncate(sig, Now(c)) /\ Opens(c, SignatureFile(c)) /\ UNCHANGED <<index, damaged>>

EndCopySignatureLeads(c, j) ==
    /\ At(c, "copyingSig") /\ UNCHANGED index
    /\ \/ UNCHANGED sig /\ Damage(c, TRUE) /\ RollbackLeads(c, j) /\ Spoils(SignatureFile(c), TRUE)
       \/ /\ \E s \in Written(job[c].tmpSig, SignatureFile(c)) : sig' = [sig EXCEPT ![Now(c)] = s]
          /\ IsAt(j, job[c], "commit") /\ UNCHANGED <<damaged, spoiled>>

CommitLeads(c, j) ==
    /\ At(c, "commit") /\ UNCHANGED <<index, sig, spoiled>> /\ IsClosed(j, job[c], "updated")
    /\ damaged' = IF HasSignature(c) THEN damaged \ {Now(c)} ELSE damaged

BeginRollbackLeads(c, j) ==
    /\ At(c, "rollback") /\ IsAt(j, job[c], "rollingBack")
    /\ index' = Truncate(index, Now(c)) /\ Opens(c, IndexFile(c)) /\ UNCHANGED <<sig, damaged>>

EndRollbackLeads(c, j) ==
    /\ At(c, "rollingBack") /\ UNCHANGED sig /\ FailLeads(c, j)
    /\ \/ UNCHANGED index /\ Damage(c, TRUE) /\ Spoils(IndexFile(c), TRUE)
       \/ /\ \E v \in Written(job[c].old, IndexFile(c)) : index' = [index EXCEPT ![Now(c)] = v]
          /\ UNCHANGED damaged /\ Spoils(IndexFile(c), job[c].old = Torn)

Leads(c, j) ==
    \/ RequestLeads(c, j) \/ NextLeads(c, j) \/ AnswerLeads(c, j) \/ DownloadIndexLeads(c, j)
    \/ DownloadSignatureLeads(c, j) \/ VerifyLeads(c, j) \/ BackupLeads(c, j)
    \/ BeginCopyLeads(c, j) \/ EndCopyLeads(c, j) \/ BeginCopySignatureLeads(c, j)
    \/ EndCopySignatureLeads(c, j) \/ CommitLeads(c, j) \/ BeginRollbackLeads(c, j) \/ EndRollbackLeads(c, j)

StepOf(c) == Request(c) \/ NextIndex(c) \/ Answer(c) \/ Download(c)

LEMMA StepLeads ==
    ASSUME SafeInv, NEW c \in Jobs, StepOf(c)
    PROVE  /\ \E j : MovesTo(c, j) /\ Leads(c, j)
           /\ requests' \in Nat /\ UNCHANGED changes /\ recent' \subseteq Indexes
<1> USE DEF MovesTo, Keeps, Quietly, serverVars, fileVars, historyVars, At
<1>0. /\ job[c] \in JobType /\ InHand(job[c]) /\ Places = {"idle", "next", "download", "signature", "verify", "backup",
            "copy", "commit", "copying", "copySig", "copyingSig", "rollback", "rollingBack"}
  BY DEF SafeInv, Places, Fetched, Verified, Saved, Replacing
<1>1. ASSUME NEW result \in Results, job[c].todo # <<>>, Done(c, result), UNCHANGED <<world, served>>
      PROVE  \E j : MovesTo(c, j) /\ IsClosed(j, job[c], result)
  BY <1>0, <1>1, ClosedJob DEF Done
<1>2. ASSUME NEW l \in Places, Goes(c, l), UNCHANGED <<world, served>>
      PROVE  \E j : MovesTo(c, j) /\ IsAt(j, job[c], l)
  BY <1>0, <1>2, ReachedJob DEF Goes
<1>3. ASSUME NEW fault, Fails(c, fault), job[c].todo # <<>>, UNCHANGED <<world, served>>
      PROVE  \E j : MovesTo(c, j) /\ FailLeads(c, j)
  BY <1>1, <1>3 DEF Fails, FailLeads, Results
<1>4. ASSUME Rollback(c), job[c].todo # <<>>, UNCHANGED <<world, served>>
      PROVE  \E j : MovesTo(c, j) /\ RollbackLeads(c, j)
  <2>1. "failed" \in Results /\ "rollback" \in Places
    BY <1>0 DEF Results
  <2> QED
    BY <1>1, <1>2, <1>4, <2>1 DEF Rollback, RollbackLeads, FailLeads
<1>5. job[c].at \notin {"idle", "next"} => job[c].todo # <<>> /\ Now(c) \in Indexes
  BY <1>0, FirstOfAll DEF InHand, Now
<1>6. CASE Request(c)
  <2>1. PICK ask \in world.asks, older \in world.older : job' = [job EXCEPT ![c] = Asks(Urls(ask), older)]
    BY <1>6 DEF Request
  <2>2. Urls(ask) \in Seq(Indexes) /\ older \in BOOLEAN
    <3>1. <<Libraries>> \in Seq(Indexes) /\ <<>> \in Seq(Indexes) /\ Packages \in Seq(Indexes)
      BY DEF Indexes
    <3>2. older \in BOOLEAN
      BY DEF SafeInv
    <3> QED
      BY <3>1, <3>2, ConcatProperties DEF Urls
  <2>3. IsAsked(Asks(Urls(ask), older), Urls(ask), older)
    BY <2>2, AskedJob
  <2>4. \E j : MovesTo(c, j) /\ RequestLeads(c, j)
    <3>1. MovesTo(c, Asks(Urls(ask), older))
      BY <1>6, <2>1 DEF Request
    <3>2. RequestLeads(c, Asks(Urls(ask), older))
      <4>1. c \notin Busy /\ Cardinality(Busy) < world.jobs /\ Keeps
        BY <1>6 DEF Request
      <4> QED
        BY <2>2, <2>3, <4>1 DEF RequestLeads
    <3> QED
      BY <3>1, <3>2
  <2>5. requests' \in Nat /\ UNCHANGED changes /\ recent' \subseteq Indexes
    BY <1>6 DEF Request, SafeInv
  <2> QED
    BY <2>4, <2>5 DEF Leads
<1>7. CASE NextIndex(c)
  <2>0. job[c].todo # <<>> /\ Now(c) \in Indexes
    BY <1>0, <1>7, FirstOfAll DEF NextIndex, Now
  <2>1. <<index[Now(c)], sig[Now(c)], served[Now(c)]>> \in Bases
    BY <2>0 DEF SafeInv, Bases
  <2>2. \E j : MovesTo(c, j) /\ NextLeads(c, j)
    <3>1. CASE \E result \in {"uptodate", "none"} : Done(c, result)
      BY <1>1, <1>7, <2>0, <3>1 DEF NextIndex, NextLeads, Results
    <3>2. CASE job' = [job EXCEPT ![c] = Begins(@, <<index[Now(c)], sig[Now(c)], served[Now(c)]>>)]
      <4>1. IsBegun(Begins(job[c], <<index[Now(c)], sig[Now(c)], served[Now(c)]>>), job[c],
                    <<index[Now(c)], sig[Now(c)], served[Now(c)]>>)
        BY <1>0, <2>0, <2>1, BegunJob
      <4> QED
        BY <1>7, <3>2, <4>1 DEF NextIndex, NextLeads
    <3> QED
      BY <1>7, <3>1, <3>2 DEF NextIndex
  <2>3. UNCHANGED <<requests, changes, recent>>
    BY <1>7 DEF NextIndex
  <2> QED
    BY <2>2, <2>3 DEF Leads, SafeInv
<1>8. CASE Answer(c)
  <2>1. MovesTo(c, NoRequest) /\ AnswerLeads(c, NoRequest)
    BY <1>8 DEF Answer, AnswerLeads
  <2>2. UNCHANGED <<requests, changes, recent>>
    BY <1>8 DEF Answer
  <2> QED
    BY <2>1, <2>2 DEF Leads, SafeInv
<1>9. CASE DownloadIndex(c)
  <2>0. /\ served[Now(c)] \in Contents /\ Nothing \in Contents /\ Garbled \in Contents /\ job[c].todo # <<>>
        /\ UNCHANGED <<world, served, requests, changes, recent>> /\ Keeps
    BY <1>5, <1>9, Distinct DEF DownloadIndex, SafeInv
  <2>1. \E j : MovesTo(c, j) /\ DownloadIndexLeads(c, j)
    <3>1. CASE Fails(c, "download")
      BY <1>3, <1>9, <2>0, <3>1 DEF DownloadIndex, DownloadIndexLeads
    <3>2. ASSUME Now(c) \in Archives, NEW v \in {served[Now(c)], Garbled}, NEW s \in {served[Now(c)], Nothing},
                 job' = [job EXCEPT ![c] = Fetches(@, "verify", v, s)]
          PROVE  \E j : MovesTo(c, j) /\ DownloadIndexLeads(c, j)
      <4>1. IsFetched(Fetches(job[c], "verify", v, s), job[c], "verify", v, s)
        BY <1>0, <2>0, FetchedJob
      <4>2. MovesTo(c, Fetches(job[c], "verify", v, s))
        BY <2>0, <3>2
      <4>3. DownloadIndexLeads(c, Fetches(job[c], "verify", v, s))
        BY <1>9, <2>0, <3>2, <4>1 DEF DownloadIndex, DownloadIndexLeads
      <4> QED
        BY <4>2, <4>3
    <3>3. ASSUME Now(c) \notin Archives, NEW v \in {served[Now(c)], Garbled}, NEW l \in {"signature", "verify"},
                 l = IF Now(c) \in WithSignatureURL THEN "signature" ELSE "verify",
                 job' = [job EXCEPT ![c] = Fetches(@, l, v, Nothing)]
          PROVE  \E j : MovesTo(c, j) /\ DownloadIndexLeads(c, j)
      <4>1. IsFetched(Fetches(job[c], l, v, Nothing), job[c], l, v, Nothing)
        BY <1>0, <2>0, FetchedJob
      <4>2. MovesTo(c, Fetches(job[c], l, v, Nothing))
        BY <2>0, <3>3
      <4>3. DownloadIndexLeads(c, Fetches(job[c], l, v, Nothing))
        BY <1>9, <2>0, <3>3, <4>1 DEF DownloadIndex, DownloadIndexLeads
      <4> QED
        BY <4>2, <4>3
    <3> QED
      BY <1>9, <3>1, <3>2, <3>3 DEF DownloadIndex, Offered
  <2> QED
    BY <2>0, <2>1 DEF Leads, SafeInv
<1>10. CASE DownloadSignature(c)
  <2>0. /\ served[Now(c)] \in Contents /\ Garbled \in Contents /\ job[c].tmp \in Contents /\ job[c].todo # <<>>
        /\ UNCHANGED <<world, served, requests, changes, recent>> /\ Keeps
    BY <1>0, <1>5, <1>10, Distinct DEF DownloadSignature, SafeInv, JobType
  <2>1. \E j : MovesTo(c, j) /\ DownloadSignatureLeads(c, j)
    <3>1. CASE Fails(c, "download")
      BY <1>3, <1>10, <2>0, <3>1 DEF DownloadSignature, DownloadSignatureLeads
    <3>2. ASSUME NEW s \in {served[Now(c)], Garbled},
                 job' = [job EXCEPT ![c] = Fetches(@, "verify", @.tmp, s)]
          PROVE  \E j : MovesTo(c, j) /\ DownloadSignatureLeads(c, j)
      <4>1. IsFetched(Fetches(job[c], "verify", job[c].tmp, s), job[c], "verify", job[c].tmp, s)
        BY <1>0, <2>0, FetchedJob
      <4> QED
        BY <1>10, <2>0, <3>2, <4>1 DEF DownloadSignature, DownloadSignatureLeads
    <3> QED
      BY <1>10, <3>1, <3>2 DEF DownloadSignature, Offered
  <2> QED
    BY <2>0, <2>1 DEF Leads, SafeInv
<1>11. CASE Verify(c)
  <2>0. job[c].todo # <<>> /\ UNCHANGED <<world, served, requests, changes, recent>> /\ Keeps
    BY <1>5, <1>11 DEF Verify
  <2>1. \E j : MovesTo(c, j) /\ VerifyLeads(c, j)
    BY <1>0, <1>1, <1>2, <1>11, <2>0 DEF Verify, VerifyLeads, FailLeads, Results
  <2> QED
    BY <2>0, <2>1 DEF Leads, SafeInv
<1>12. CASE Backup(c)
  <2>0. /\ job[c].todo # <<>> /\ UNCHANGED <<world, served, requests, changes, recent>> /\ Keeps
        /\ index[Now(c)] \in Contents /\ Nothing \in Contents
    BY <1>5, <1>12, Distinct DEF Backup, SafeInv
  <2>1. \E j : MovesTo(c, j) /\ BackupLeads(c, j)
    <3>1. CASE Fails(c, "backup")
      BY <1>3, <1>12, <2>0, <3>1 DEF Backup, BackupLeads
    <3>2. CASE job' = [job EXCEPT ![c] = Saves(@, index[Now(c)], IF OldSignatureExists THEN sig[Now(c)] ELSE Nothing)]
      <4>1. IsSaved(Saves(job[c], index[Now(c)], Nothing), job[c], index[Now(c)])
        BY <1>0, <2>0, SavedJob
      <4> QED
        BY <1>12, <2>0, <3>2, <4>1 DEF Backup, BackupLeads, OldSignatureExists
    <3> QED
      BY <1>12, <3>1, <3>2 DEF Backup
  <2> QED
    BY <2>0, <2>1 DEF Leads, SafeInv
<1>13. CASE BeginCopy(c)
  <2>1. \E j : MovesTo(c, j) /\ BeginCopyLeads(c, j)
    BY <1>0, <1>2, <1>13 DEF BeginCopy, BeginCopyLeads
  <2> QED
    BY <1>5, <1>13, <2>1 DEF Leads, SafeInv, BeginCopy
<1>14. CASE EndCopy(c)
  <2>1. \E j : MovesTo(c, j) /\ EndCopyLeads(c, j)
    BY <1>0, <1>2, <1>4, <1>5, <1>14 DEF EndCopy, EndCopyLeads
  <2> QED
    BY <1>14, <2>1 DEF Leads, SafeInv, EndCopy
<1>15. CASE BeginCopySignature(c)
  <2>1. \E j : MovesTo(c, j) /\ BeginCopySignatureLeads(c, j)
    BY <1>0, <1>2, <1>15 DEF BeginCopySignature, BeginCopySignatureLeads
  <2> QED
    BY <1>15, <2>1 DEF Leads, SafeInv, BeginCopySignature
<1>16. CASE EndCopySignature(c)
  <2>1. \E j : MovesTo(c, j) /\ EndCopySignatureLeads(c, j)
    BY <1>0, <1>2, <1>4, <1>5, <1>16 DEF EndCopySignature, EndCopySignatureLeads
  <2> QED
    BY <1>16, <2>1 DEF Leads, SafeInv, EndCopySignature
<1>17. CASE CommitIndex(c)
  <2>1. \E j : MovesTo(c, j) /\ CommitLeads(c, j)
    BY <1>0, <1>1, <1>5, <1>17 DEF CommitIndex, CommitLeads, Results
  <2> QED
    BY <1>17, <2>1 DEF Leads, SafeInv, CommitIndex
<1>18. CASE BeginRollback(c)
  <2>1. \E j : MovesTo(c, j) /\ BeginRollbackLeads(c, j)
    BY <1>0, <1>2, <1>18 DEF BeginRollback, BeginRollbackLeads
  <2> QED
    BY <1>5, <1>18, <2>1 DEF Leads, SafeInv, BeginRollback
<1>19. CASE EndRollback(c)
  <2>1. \E j : MovesTo(c, j) /\ EndRollbackLeads(c, j)
    BY <1>0, <1>1, <1>5, <1>19 DEF EndRollback, EndRollbackLeads, FailLeads, Results
  <2> QED
    BY <1>19, <2>1 DEF Leads, SafeInv, EndRollback
<1> QED
  BY <1>6, <1>7, <1>8, <1>9, <1>10, <1>11, <1>12, <1>13, <1>14, <1>15, <1>16, <1>17, <1>18, <1>19 DEF StepOf, Download

-----------------------------------------------------------------------------
\* A step leaves in hand what belongs there.
LEMMA LeadsInHand ==
    ASSUME SafeInv, NEW c \in Jobs, NEW j, Leads(c, j)
    PROVE  j \in JobType /\ InHand(j)
<1> USE DEF InHand, FailLeads, RollbackLeads, IsAsked, IsAt, IsBegun, IsFetched, IsSaved, IsClosed, At, Now, HasSignature
<1>0. /\ job[c] \in JobType /\ InHand(job[c]) /\ OnlyPublished
      /\ Saved = {"copy", "copying", "copySig", "copyingSig", "commit", "rollback", "rollingBack"}
      /\ Verified = Saved \cup {"backup"} /\ Fetched = Verified \cup {"signature", "verify"}
  BY DEF SafeInv, Verified, Fetched, Saved, Replacing
<1>1. CASE RequestLeads(c, j) \/ NextLeads(c, j)
  BY <1>0, <1>1 DEF RequestLeads, NextLeads
<1>2. CASE AnswerLeads(c, j)
  BY <1>0, <1>2, IdleJob DEF AnswerLeads, NoRequest
<1>3. CASE DownloadIndexLeads(c, j)
  <2>1. Head(job[c].todo) \in Indexes /\ served[Head(job[c].todo)] \in Versions
    BY <1>0, <1>3, FirstOfAll DEF DownloadIndexLeads, SafeInv
  <2>2. Archives \cap WithSignatureURL = {}
    OBVIOUS
  <2> QED
    BY <1>0, <1>3, <2>1, <2>2 DEF DownloadIndexLeads
<1>4. CASE DownloadSignatureLeads(c, j)
  <2>1. Head(job[c].todo) \in Indexes /\ served[Head(job[c].todo)] # Nothing /\ Garbled # Nothing
    BY <1>0, <1>4, FirstOfAll, Distinct DEF DownloadSignatureLeads, SafeInv
  <2> QED
    BY <1>0, <1>4, <2>1 DEF DownloadSignatureLeads
<1>5. CASE VerifyLeads(c, j)
  BY <1>0, <1>5 DEF VerifyLeads, Guarded, Valid
<1>6. CASE BackupLeads(c, j)
  <2>1. Head(job[c].todo) \in Guarded => index[Head(job[c].todo)] # Garbled
    BY <1>0 DEF OnlyPublished, Guarded
  <2> QED
    BY <1>0, <1>6, <2>1 DEF BackupLeads
<1>7. CASE BeginCopyLeads(c, j) \/ EndCopyLeads(c, j)
  BY <1>0, <1>7 DEF BeginCopyLeads, EndCopyLeads
<1>8. CASE BeginCopySignatureLeads(c, j) \/ EndCopySignatureLeads(c, j) \/ CommitLeads(c, j)
  BY <1>0, <1>8 DEF BeginCopySignatureLeads, EndCopySignatureLeads, CommitLeads
<1>9. CASE BeginRollbackLeads(c, j) \/ EndRollbackLeads(c, j)
  BY <1>0, <1>9 DEF BeginRollbackLeads, EndRollbackLeads
<1> QED
  BY <1>1, <1>2, <1>3, <1>4, <1>5, <1>6, <1>7, <1>8, <1>9 DEF Leads

\* What a step writes is what was downloaded or saved, a mixture, or the beginning of it.
Writes(c) ==
    \/ UNCHANGED <<index, sig>>
    \/ /\ UNCHANGED sig /\ job[c].at \in Saved
       /\ \E v \in {job[c].tmp, job[c].old, Torn} : index' = [index EXCEPT ![Now(c)] = v]
    \/ /\ UNCHANGED index /\ job[c].at \in Saved
       /\ \E v \in {job[c].tmpSig, Torn} : sig' = [sig EXCEPT ![Now(c)] = v]

LEMMA LeadsWrites ==
    ASSUME SafeInv, NEW c \in Jobs, NEW j, Leads(c, j)
    PROVE  Writes(c) /\ damaged' \subseteq Indexes /\ spoiled' \subseteq Files
<1> USE DEF Writes, Keeps, At, Truncate, Written, Saved, Replacing, Damage, Opens, Spoils
<1>0. /\ job[c] \in JobType /\ InHand(job[c]) /\ damaged \subseteq Indexes /\ spoiled \subseteq Files
      /\ job[c].at \in Saved => Now(c) \in Indexes /\ IndexFile(c) \in Files /\ SignatureFile(c) \in Files
  <2>1. job[c] \in JobType /\ InHand(job[c]) /\ damaged \subseteq Indexes /\ spoiled \subseteq Files
    BY DEF SafeInv
  <2>2. job[c].at \in Saved => job[c].todo # <<>>
    BY <2>1 DEF InHand
  <2> QED
    BY <2>1, <2>2, FirstOfAll DEF Now, IndexFile, SignatureFile, Files
<1>1. CASE Keeps
  BY <1>0, <1>1
<1>2. CASE BeginCopyLeads(c, j)
  BY <1>0, <1>2 DEF BeginCopyLeads
<1>3. CASE EndCopyLeads(c, j)
  BY <1>0, <1>3 DEF EndCopyLeads
<1>4. CASE BeginCopySignatureLeads(c, j)
  BY <1>0, <1>4 DEF BeginCopySignatureLeads
<1>5. CASE EndCopySignatureLeads(c, j)
  BY <1>0, <1>5 DEF EndCopySignatureLeads
<1>6. CASE CommitLeads(c, j)
  BY <1>0, <1>6 DEF CommitLeads
<1>7. CASE BeginRollbackLeads(c, j)
  BY <1>0, <1>7 DEF BeginRollbackLeads
<1>8. CASE EndRollbackLeads(c, j)
  BY <1>0, <1>8 DEF EndRollbackLeads
<1> QED
  BY <1>1, <1>2, <1>3, <1>4, <1>5, <1>6, <1>7, <1>8 DEF Leads, RequestLeads, NextLeads, AnswerLeads,
     DownloadIndexLeads, DownloadSignatureLeads, VerifyLeads, BackupLeads

NoneGarbled == \A i \in Guarded : index[i] # Garbled /\ sig[i] # Garbled

LEMMA WritesSafe ==
    ASSUME SafeInv, NEW c \in Jobs, Writes(c)
    PROVE  index' \in [Indexes -> Contents] /\ sig' \in [Indexes -> Contents] /\ NoneGarbled'
<1>0. /\ job[c] \in JobType /\ InHand(job[c]) /\ Guarded \subseteq Indexes /\ NoneGarbled
      /\ index \in [Indexes -> Contents] /\ sig \in [Indexes -> Contents]
      /\ Torn \in Contents /\ Torn # Garbled /\ Garbled \notin Versions /\ Garbled # Nothing
  BY Distinct DEF SafeInv, OnlyPublished, NoneGarbled, Guarded, Signed, Indexes
<1>1. CASE UNCHANGED <<index, sig>>
  BY <1>0, <1>1 DEF NoneGarbled
<1>2. ASSUME UNCHANGED sig, job[c].at \in Saved, NEW v \in {job[c].tmp, job[c].old, Torn},
             index' = [index EXCEPT ![Now(c)] = v]
      PROVE  index' \in [Indexes -> Contents] /\ sig' \in [Indexes -> Contents] /\ NoneGarbled'
  <2>1. v \in Contents
    BY <1>0 DEF JobType
  <2>2. Now(c) \in Guarded => v # Garbled
    BY <1>0, <1>2 DEF InHand, Now, Verified
  <2> QED
    BY <1>0, <1>2, <2>1, <2>2 DEF NoneGarbled
<1>3. ASSUME UNCHANGED index, job[c].at \in Saved, NEW v \in {job[c].tmpSig, Torn},
             sig' = [sig EXCEPT ![Now(c)] = v]
      PROVE  index' \in [Indexes -> Contents] /\ sig' \in [Indexes -> Contents] /\ NoneGarbled'
  <2>1. v \in Contents
    BY <1>0 DEF JobType
  <2>2. v # Garbled
    BY <1>0, <1>3 DEF InHand, Verified, Valid
  <2> QED
    BY <1>0, <1>3, <2>1, <2>2 DEF NoneGarbled
<1> QED
  BY <1>1, <1>2, <1>3 DEF Writes

\* What a step does to a file that has to be a published one: nothing; it opens it; or it
\* ends to write it, with something published or with something that is known not to be.
On(f) == IF f[2] = "index" THEN index[f[1]] ELSE sig[f[1]]

Untouched(c, f) == On(f)' = On(f) /\ (f \in spoiled => f \in spoiled') /\ ~IsWriting(c, f)
Closed(f)       == f \in spoiled' \/ On(f)' \in Versions \cup {Nothing}

LEMMA LeadsFile ==
    ASSUME SafeInv, NEW c \in Jobs, NEW j, MovesTo(c, j), Leads(c, j),
           NEW i \in Guarded, NEW k \in {"index", "sig"}
    PROVE  Untouched(c, <<i, k>>) \/ IsWriting(c, <<i, k>>)' \/ Closed(<<i, k>>)
<1> USE DEF Untouched, Closed, On, IsWriting, IndexFile, SignatureFile, At, Now, HasSignature
<1>0. /\ job[c] \in JobType /\ InHand(job[c]) /\ job'[c] = j /\ i \in Indexes
      /\ index \in [Indexes -> Contents] /\ sig \in [Indexes -> Contents]
      /\ job[c].at \in Saved /\ Now(c) = i => job[c].tmp \in Versions /\ job[c].old \in Versions \cup {Nothing, Torn}
      /\ job[c].at = "copyingSig" => job[c].tmpSig \in Versions
  <2>1. /\ job[c] \in JobType /\ InHand(job[c]) /\ job'[c] = j /\ i \in Indexes
        /\ index \in [Indexes -> Contents] /\ sig \in [Indexes -> Contents]
    BY DEF SafeInv, MovesTo, Guarded, Signed
  <2> QED
    BY <2>1 DEF InHand, Verified, Saved, Replacing, Valid, JobType, Contents
<1>1. CASE Keeps /\ job[c].at \notin {"copying", "rollingBack", "copyingSig"}
  BY <1>1 DEF Keeps
<1>2. CASE BeginCopyLeads(c, j) \/ BeginRollbackLeads(c, j)
  BY <1>0, <1>2 DEF BeginCopyLeads, BeginRollbackLeads, IsAt, Truncate, Opens
<1>3. CASE BeginCopySignatureLeads(c, j)
  BY <1>0, <1>3 DEF BeginCopySignatureLeads, IsAt, Truncate, Opens
<1>4. CASE EndCopyLeads(c, j)
  BY <1>0, <1>4 DEF EndCopyLeads, Written, Spoils, Saved, Replacing
<1>5. CASE EndCopySignatureLeads(c, j)
  BY <1>0, <1>5 DEF EndCopySignatureLeads, Written, Spoils
<1>6. CASE EndRollbackLeads(c, j)
  <2>1. CASE <<i, k>> # IndexFile(c)
    BY <1>0, <1>6, <2>1 DEF EndRollbackLeads, Spoils
  <2>2. CASE i = Now(c) /\ k = "index"
    <3>1. job[c].old \in Versions \cup {Nothing, Torn}
      BY <1>0, <1>6, <2>2 DEF EndRollbackLeads, Saved, Replacing
    <3>2. CASE <<i, k>> \in spoiled'
      BY <3>2
    <3>3. CASE <<i, k>> \notin spoiled'
      <4>1. index' = [index EXCEPT ![i] = job[c].old] /\ job[c].old # Torn
        BY <1>6, <2>2, <3>3 DEF EndRollbackLeads, Spoils, Written
      <4> QED
        BY <1>0, <2>2, <3>1, <4>1
    <3> QED
      BY <3>2, <3>3
  <2> QED
    BY <2>1, <2>2
<1>7. CASE CommitLeads(c, j)
  BY <1>7 DEF CommitLeads
<1> QED
  BY <1>1, <1>2, <1>3, <1>4, <1>5, <1>6, <1>7 DEF Leads, RequestLeads, NextLeads, AnswerLeads,
     DownloadIndexLeads, DownloadSignatureLeads, VerifyLeads, BackupLeads, Busy

PublishedFiles == \A i \in Guarded, k \in {"index", "sig"} :
                      Whole(<<i, k>>) => On(<<i, k>>) \in Versions \cup {Nothing}

LEMMA PublishedIs == OnlyPublished <=> NoneGarbled /\ PublishedFiles
BY DEF OnlyPublished, NoneGarbled, PublishedFiles, On, Guarded

LEMMA PublishedIsNext == (OnlyPublished <=> NoneGarbled /\ PublishedFiles)'
BY PublishedIs, PTL

LEMMA LeadsPublished ==
    ASSUME SafeInv, NEW c \in Jobs, NEW j, MovesTo(c, j), Leads(c, j)
    PROVE  PublishedFiles'
<1> SUFFICES ASSUME NEW i \in Guarded, NEW k \in {"index", "sig"}, Whole(<<i, k>>)'
             PROVE  On(<<i, k>>)' \in Versions \cup {Nothing}
  BY DEF PublishedFiles
<1>1. CASE Untouched(c, <<i, k>>)
  <2>1. \A d \in Jobs : d # c => job'[d] = job[d]
    BY DEF MovesTo, SafeInv
  <2>2. \A d \in Jobs : d # c => (IsWriting(d, <<i, k>>)' <=> IsWriting(d, <<i, k>>))
    BY <2>1 DEF IsWriting, IndexFile, SignatureFile, At, Now
  <2>3. Whole(<<i, k>>)
    BY <1>1, <2>2 DEF Whole, Untouched
  <2> QED
    BY <1>1, <2>3, PublishedIs DEF SafeInv, PublishedFiles, Untouched
<1>2. CASE IsWriting(c, <<i, k>>)' \/ Closed(<<i, k>>)
  BY <1>2 DEF Whole, Closed
<1> QED
  BY <1>1, <1>2, LeadsFile

LEMMA SameFiles ==
    ASSUME OnlyPublished, UNCHANGED <<index, sig, job, spoiled>>
    PROVE  OnlyPublished'
BY DEF OnlyPublished, Whole, IsWriting, IndexFile, SignatureFile, At, Now

\* The server publishes, the process ends.
LEMMA PublishSafe ==
    ASSUME SafeInv, NEW i \in Indexes, Publish(i)
    PROVE  SafeInv'
<1>1. served' \in [Indexes -> Versions] /\ changes' \in Nat
  BY DEF Publish, SafeInv, Versions
<1> QED
  BY <1>1, SameFiles DEF Publish, SafeInv, fileVars, historyVars

LEMMA KillSafe ==
    ASSUME SafeInv, Kill
    PROVE  SafeInv'
<1>1. job' = [c \in Jobs |-> NoRequest] /\ UNCHANGED <<serverVars, requests, fileVars>>
  BY DEF Kill
<1>2. damaged' \subseteq Indexes
  <2>1. \A c \in Jobs : job[c].at \in Replacing => Now(c) \in Indexes
    <3> TAKE c \in Jobs
    <3>1. job[c] \in JobType /\ InHand(job[c])
      BY DEF SafeInv
    <3>2. job[c].at \in Replacing => job[c].todo # <<>>
      BY <3>1 DEF InHand, Replacing
    <3> QED
      BY <3>1, <3>2, FirstOfAll DEF Now
  <2> QED
    BY <2>1 DEF Kill, SafeInv
<1>3. InHand(NoRequest)
  BY DEF InHand, NoRequest, Fetched, Verified, Saved, Replacing
<1>4. UNCHANGED <<world, requests, changes, served, index, sig, recent>>
  BY <1>1 DEF serverVars, fileVars
<1>5. job' \in [Jobs -> JobType] /\ \A c \in Jobs : InHand(job'[c])
  BY <1>1, <1>3, IdleJob
<1>6. spoiled' = spoiled \cup {f \in Files : \E c \in Jobs : IsWriting(c, f)}
  BY DEF Kill
<1>7. OnlyPublished'
  <2>1. ASSUME NEW f \in Files, Whole(f)' PROVE Whole(f)
    BY <1>6, <2>1 DEF Whole
  <2>2. \A i \in Guarded : <<i, "index">> \in Files /\ <<i, "sig">> \in Files
    BY DEF Guarded, Signed, Indexes, Files
  <2> QED
    BY <1>4, <2>1, <2>2 DEF SafeInv, OnlyPublished, Guarded
<1> QED
  BY <1>2, <1>4, <1>5, <1>6, <1>7 DEF SafeInv

LEMMA StepSafe ==
    ASSUME SafeInv, [IndexNext]_indexVars
    PROVE  SafeInv'
<1>1. ASSUME NEW c \in Jobs, StepOf(c) PROVE SafeInv'
  <2>1. PICK j : MovesTo(c, j) /\ Leads(c, j)
    BY <1>1, StepLeads
  <2>2. requests' \in Nat /\ UNCHANGED changes /\ recent' \subseteq Indexes
    BY <1>1, StepLeads
  <2>3. j \in JobType /\ InHand(j)
    BY <2>1, LeadsInHand
  <2>4. /\ index' \in [Indexes -> Contents] /\ sig' \in [Indexes -> Contents] /\ OnlyPublished'
        /\ damaged' \subseteq Indexes /\ spoiled' \subseteq Files
    BY <2>1, LeadsWrites, WritesSafe, LeadsPublished, PublishedIsNext
  <2>5. job' \in [Jobs -> JobType] /\ \A d \in Jobs : InHand(job'[d])
    BY <2>1, <2>3 DEF SafeInv, MovesTo
  <2> QED
    BY <2>1, <2>2, <2>4, <2>5 DEF SafeInv, MovesTo
<1>2. ASSUME NEW i \in Indexes, Age(i) PROVE SafeInv'
  BY <1>2, SameFiles DEF Age, SafeInv, serverVars, historyVars
<1>3. CASE UNCHANGED indexVars
  BY <1>3, SameFiles DEF indexVars, serverVars, fileVars, historyVars, SafeInv
<1> QED
  BY <1>1, <1>2, <1>3, PublishSafe, KillSafe DEF IndexNext, StepOf

LEMMA InitSafe ==
    ASSUME IndexInit
    PROVE  SafeInv
<1>1. /\ world \in Worlds /\ requests \in Nat /\ changes \in Nat
      /\ index \in [Indexes -> {Nothing, 1}]
  BY DEF IndexInit
<1>2. Nothing \in Contents /\ 1 \in Contents /\ 1 \in Versions /\ Garbled # 1 /\ Garbled # Nothing
  BY Distinct DEF Contents
<1>3. index \in [Indexes -> Contents] /\ sig \in [Indexes -> Contents]
  BY <1>1, <1>2 DEF IndexInit
<1>4. OnlyPublished
  <2>1. \A i \in Guarded : i \in Indexes /\ i \in Signed
    BY DEF Guarded, Signed, Indexes
  <2>2. \A i \in Guarded : index[i] \in {Nothing, 1} /\ sig[i] \in {Nothing, 1}
    BY <1>1, <2>1 DEF IndexInit
  <2> QED
    BY <1>2, <2>2 DEF OnlyPublished, Guarded
<1>5. InHand(NoRequest)
  BY DEF InHand, NoRequest, Fetched, Verified, Saved, Replacing
<1> QED
  BY <1>1, <1>2, <1>3, <1>4, <1>5, IdleJob DEF IndexInit, SafeInv

\* Whatever fails and whoever else updates, an index that has to have a signature and the
\* signature are on disk as they were published once, but for a file that is being written,
\* that two requests wrote at once or that was written only in part (resources/index.go
\* Download).
THEOREM IndexIsPublished == IndexSpec => []IndexInv
<1>1. SafeInv => IndexInv
  <2> SUFFICES ASSUME SafeInv PROVE IndexTypes
    BY DEF SafeInv, IndexInv
  <2>1. \A c \in Jobs : job[c] \in JobType /\ InHand(job[c])
    BY DEF SafeInv
  <2> QED
    BY <2>1 DEF SafeInv, IndexTypes, JobType, Results, InHand, Fetched, Verified, Saved
<1>2. SafeInv /\ [IndexNext]_indexVars => SafeInv'
  BY StepSafe
<1> QED
  BY InitSafe, <1>1, <1>2, PTL DEF IndexSpec

-----------------------------------------------------------------------------
\* A request begins when no other is under way.
LEMMA BeginsAlone ==
    ASSUME \A c, d \in Jobs : job[c].at # "idle" /\ job[d].at # "idle" => c = d,
           Alone, NEW c \in Jobs, NEW j, RequestLeads(c, j), NEW d \in Jobs
    PROVE  job[d].at = "idle"
<1>1. Cardinality(Busy) < 1
  BY DEF RequestLeads, Alone
<1>2. SUFFICES ASSUME job[d].at # "idle" PROVE FALSE
  OBVIOUS
<1>3. Busy = {d}
  BY <1>2 DEF Busy
<1>4. Cardinality(Busy) = 1
  BY <1>3, FS_Singleton
<1> QED
  BY <1>1, <1>4

Others(c) == \A d \in Jobs : d # c => job[d] = NoRequest

LEMMA StaysAlone ==
    ASSUME SafeInv, NEW c \in Jobs, NEW j, MovesTo(c, j), Leads(c, j), Alone,
           \A d, e \in Jobs : job[d].at # "idle" /\ job[e].at # "idle" => d = e
    PROVE  /\ Others(c) /\ Others(c)' /\ job'[c] = j
           /\ \A d, e \in Jobs : job'[d].at # "idle" /\ job'[e].at # "idle" => d = e
<1>1. \A d \in Jobs : d # c => job[d].at = "idle"
  <2>1. CASE job[c].at # "idle"
    BY <2>1
  <2>2. CASE job[c].at = "idle"
    <3>1. RequestLeads(c, j)
      BY <2>2 DEF Leads, NextLeads, AnswerLeads, DownloadIndexLeads, DownloadSignatureLeads, VerifyLeads,
         BackupLeads, BeginCopyLeads, EndCopyLeads, BeginCopySignatureLeads, EndCopySignatureLeads, CommitLeads,
         BeginRollbackLeads, EndRollbackLeads, At
    <3> QED
      BY <3>1, BeginsAlone
  <2> QED
    BY <2>1, <2>2
<1>2. \A d \in Jobs : d # c => job[d] = NoRequest /\ job'[d] = NoRequest
  BY <1>1 DEF SafeInv, InHand, MovesTo
<1>3. NoRequest.at = "idle" /\ job'[c] = j
  BY DEF NoRequest, MovesTo, SafeInv
<1> QED
  BY <1>2, <1>3 DEF Others

\* One request writes what it means to write.
LEMMA NothingMixed ==
    ASSUME NEW f, f \notin spoiled, NEW v
    PROVE  Written(v, f) = {v}
BY DEF Written

LEMMA OpensAlone ==
    ASSUME NEW c \in Jobs, Others(c), NEW f, Opens(c, f)
    PROVE  f \notin spoiled'
BY DEF Opens, Others, IsWriting, NoRequest, At

\* A step at index i of request c, which is the only one.
LEMMA AloneCallStep ==
    ASSUME SafeInv, NEW c \in Jobs, Others(c), AloneCall(c), \A i \in Signed \ damaged : Paired(i),
           NEW j, MovesTo(c, j), Leads(c, j)
    PROVE  AloneCall(c)'
<1> DEFINE i == Now(c)
<1> USE DEF AloneCall, FailLeads, IsAsked, IsAt, IsBegun, IsFetched, IsSaved, IsClosed, At, HasSignature
<1>0. /\ job[c] \in JobType /\ InHand(job[c]) /\ job'[c] = j /\ UNCHANGED served
      /\ Saved = {"copy", "copying", "copySig", "copyingSig", "commit", "rollback", "rollingBack"}
      /\ Verified = Saved \cup {"backup"} /\ Fetched = Verified \cup {"signature", "verify"}
  BY DEF SafeInv, Verified, Fetched, Saved, Replacing, MovesTo
<1>1. ASSUME j.at \in {"idle", "next"} PROVE AloneCall(c)'
  BY <1>0, <1>1
<1>2. CASE RequestLeads(c, j) \/ AnswerLeads(c, j)
  BY <1>1, <1>2 DEF RequestLeads, AnswerLeads, NoRequest
<1>3. CASE NextLeads(c, j)
  <2>1. CASE j.at = "next"
    BY <1>1, <2>1
  <2>2. CASE IsBegun(j, job[c], <<index[Now(c)], sig[Now(c)], served[Now(c)]>>)
    <3>1. Head(job[c].todo) \in Indexes
      BY <1>0, <1>3, FirstOfAll DEF NextLeads
    <3>2. Head(j.todo) = Now(c) /\ j.at = "download" /\ Keeps
      BY <1>3, <2>2 DEF NextLeads, Now
    <3>3. j.before[Now(c)] = <<index[Now(c)], sig[Now(c)], served[Now(c)]>>
      BY <1>0, <2>2, <3>1, <3>2 DEF Now, JobType
    <3>4. served[Now(c)] \in Nat
      BY <3>1, Distinct DEF SafeInv, Now
    <3> QED
      BY <1>0, <3>2, <3>3, <3>4 DEF Now, Keeps
  <2> QED
    BY <1>3, <2>1, <2>2 DEF NextLeads
<1>4. job[c].at \notin {"idle", "next"} => i \in Indexes
  BY <1>0, FirstOfAll DEF InHand, Now
<1>5. CASE DownloadIndexLeads(c, j)
  <2>1. CASE j.at = "next"
    BY <1>1, <2>1
  <2>2. CASE j.at # "next"
    <3>1. /\ j.todo = job[c].todo /\ j.before = job[c].before /\ j.at \in {"signature", "verify"} /\ Keeps
          /\ j.tmp \in {served[i], Garbled}
      BY <1>5, <2>2 DEF DownloadIndexLeads
    <3>2. served[i] \in Versions
      BY <1>4, <1>5 DEF DownloadIndexLeads, SafeInv
    <3> QED
      BY <1>0, <1>5, <3>1, <3>2 DEF Now, Keeps, DownloadIndexLeads
  <2> QED
    BY <2>1, <2>2
<1>6. CASE DownloadSignatureLeads(c, j) \/ VerifyLeads(c, j) \/ BackupLeads(c, j)
  <2>1. CASE j.at = "next"
    BY <1>1, <2>1
  <2>2. CASE j.at # "next"
    BY <1>0, <1>6, <2>2 DEF DownloadSignatureLeads, VerifyLeads, BackupLeads, Now, Keeps
  <2> QED
    BY <2>1, <2>2
<1>7. CASE BeginCopyLeads(c, j)
  <2>1. Quiet(i)
    BY <1>7 DEF BeginCopyLeads, Quiet, Busy, Others, NoRequest, Replacing
  <2>2. i \in Signed \ damaged => index[i] = sig[i] /\ index[i] \in Versions \cup {Nothing}
    BY <2>1 DEF Paired
  <2>3. IndexFile(c) \notin spoiled'
    BY <1>7, OpensAlone DEF BeginCopyLeads
  <2> QED
    BY <1>0, <1>7, <2>2, <2>3 DEF BeginCopyLeads, Now, IndexFile
<1>8. CASE EndCopyLeads(c, j)
  <2>1. CASE j.at = "next"
    BY <1>1, <2>1
  <2>2. CASE j.at = "rollback"
    BY <1>0, <1>8, <2>2 DEF EndCopyLeads, RollbackLeads, Damage, Now
  <2>3. CASE /\ index' = [index EXCEPT ![Now(c)] = job[c].tmp] /\ Damage(c, ~HasSignature(c))
             /\ IsAt(j, job[c], IF HasSignature(c) THEN "copySig" ELSE "commit")
    <3>1. index'[i] = job[c].tmp
      BY <1>4, <1>8, <2>3 DEF EndCopyLeads, SafeInv
    <3>2. ~HasSignature(c) => i \in damaged'
      BY <2>3 DEF Damage
    <3> QED
      BY <1>0, <1>8, <2>3, <3>1, <3>2 DEF EndCopyLeads, Now
  <2>4. Written(job[c].tmp, IndexFile(c)) = {job[c].tmp}
    BY <1>8, NothingMixed DEF EndCopyLeads
  <2> QED
    BY <1>8, <2>1, <2>2, <2>3, <2>4 DEF EndCopyLeads, RollbackLeads
<1>9. CASE BeginCopySignatureLeads(c, j)
  <2>1. SignatureFile(c) \notin spoiled'
    BY <1>9, OpensAlone DEF BeginCopySignatureLeads
  <2> QED
    BY <1>0, <1>9, <2>1 DEF BeginCopySignatureLeads, Now, SignatureFile
<1>10. CASE EndCopySignatureLeads(c, j)
  <2>1. CASE j.at = "next"
    BY <1>1, <2>1
  <2>2. CASE j.at = "rollback"
    BY <1>0, <1>10, <2>2 DEF EndCopySignatureLeads, RollbackLeads, Damage, Now
  <2>3. CASE sig' = [sig EXCEPT ![Now(c)] = job[c].tmpSig] /\ IsAt(j, job[c], "commit")
    <3>1. sig'[i] = job[c].tmpSig
      BY <1>4, <1>10, <2>3 DEF EndCopySignatureLeads, SafeInv
    <3>2. HasSignature(c)
      BY <1>0, <1>10 DEF EndCopySignatureLeads, InHand
    <3> QED
      BY <1>0, <1>10, <2>3, <3>1, <3>2 DEF EndCopySignatureLeads, Now
  <2>4. Written(job[c].tmpSig, SignatureFile(c)) = {job[c].tmpSig}
    BY <1>10, NothingMixed DEF EndCopySignatureLeads
  <2> QED
    BY <1>10, <2>1, <2>2, <2>3, <2>4 DEF EndCopySignatureLeads, RollbackLeads
<1>11. CASE CommitLeads(c, j) \/ EndRollbackLeads(c, j)
  BY <1>1, <1>11 DEF CommitLeads, EndRollbackLeads
<1>12. CASE BeginRollbackLeads(c, j)
  <2>1. IndexFile(c) \notin spoiled'
    BY <1>12, OpensAlone DEF BeginRollbackLeads
  <2> QED
    BY <1>0, <1>12, <2>1 DEF BeginRollbackLeads, Now, IndexFile
<1> QED
  BY <1>2, <1>3, <1>5, <1>6, <1>7, <1>8, <1>9, <1>10, <1>11, <1>12 DEF Leads

\* What a step changes of the files of other indexes: nothing.
LEMMA OnlyItsIndex ==
    ASSUME SafeInv, NEW c \in Jobs, NEW j, Leads(c, j), NEW k, k # Now(c)
    PROVE  /\ k \in Indexes => index'[k] = index[k] /\ sig'[k] = sig[k]
           /\ k \in damaged' <=> k \in damaged
<1>1. k \in Indexes => index'[k] = index[k] /\ sig'[k] = sig[k]
  <2>1. Writes(c)
    BY LeadsWrites
  <2> QED
    BY <2>1 DEF Writes, SafeInv
<1>2. k \in damaged' <=> k \in damaged
  BY DEF Leads, RequestLeads, NextLeads, AnswerLeads, DownloadIndexLeads, DownloadSignatureLeads, VerifyLeads,
     BackupLeads, BeginCopyLeads, EndCopyLeads, BeginCopySignatureLeads, EndCopySignatureLeads, CommitLeads,
     BeginRollbackLeads, EndRollbackLeads, Keeps, Damage
<1> QED
  BY <1>1, <1>2

\* The end of a replacement leaves a pair, or the index is known as damaged.
LEMMA PairedStep ==
    ASSUME SafeInv, NEW c \in Jobs, Others(c), AloneCall(c), \A i \in Signed \ damaged : Paired(i),
           NEW j, MovesTo(c, j), Leads(c, j), Others(c)', NEW k \in Signed \ damaged'
    PROVE  Paired(k)'
<1> USE DEF FailLeads, IsAt, IsClosed, At, HasSignature
<1>0. /\ job[c] \in JobType /\ InHand(job[c]) /\ job'[c] = j /\ k \in Indexes
      /\ Saved = {"copy", "copying", "copySig", "copyingSig", "commit", "rollback", "rollingBack"}
      /\ Verified = Saved \cup {"backup"} /\ Fetched = Verified \cup {"signature", "verify"}
  BY DEF SafeInv, Verified, Fetched, Saved, Replacing, MovesTo
<1> DEFINE Pair == index[k] = sig[k] /\ index[k] \in Versions \cup {Nothing}
<1>1. job[c].at \notin Replacing \cup {"commit"} \/ Now(c) # k => Quiet(k)
  BY DEF Quiet, Busy, Others, NoRequest
<1>2. CASE k # Now(c)
  <2>1. Quiet(k) /\ k \in Signed \ damaged
    BY <1>1, <1>2, OnlyItsIndex
  <2>2. Pair
    BY <2>1 DEF Paired
  <2> QED
    BY <1>0, <1>2, <2>2, OnlyItsIndex DEF Paired
<1>3. CASE k = Now(c) /\ Keeps /\ job[c].at \notin Replacing \cup {"commit"}
  BY <1>1, <1>3 DEF Paired, Keeps
<1>4. CASE k = Now(c) /\ j.at \in Replacing \cup {"commit"} /\ j.todo = job[c].todo
  <2>1. ~Quiet(k)'
    <3>1. c \in Busy' /\ job'[c].at \in Replacing \cup {"commit"} /\ Now(c)' = k
      BY <1>0, <1>4 DEF Busy, Replacing, Now
    <3> QED
      BY <3>1 DEF Quiet
  <2> QED
    BY <2>1 DEF Paired
<1>5. CASE k = Now(c) /\ CommitLeads(c, j)
  <2>1. HasSignature(c)
    BY <1>0, <1>5 DEF CommitLeads, AloneCall
  <2>2. index[k] = job[c].tmp /\ sig[k] = job[c].tmpSig /\ Valid(job[c].tmp, job[c].tmpSig)
    BY <1>0, <1>5, <2>1 DEF CommitLeads, AloneCall, InHand
  <2> QED
    BY <1>5, <2>2 DEF CommitLeads, Paired, Valid
<1>6. CASE k = Now(c) /\ EndRollbackLeads(c, j)
  <2>0. Written(job[c].old, IndexFile(c)) = {job[c].old}
    BY <1>6, NothingMixed DEF EndRollbackLeads, AloneCall
  <2>1. index' = [index EXCEPT ![k] = job[c].old] /\ sig' = sig /\ k \notin damaged
    BY <1>6, <2>0 DEF EndRollbackLeads, Damage
  <2>2. job[c].old = sig[k] /\ job[c].old \in Versions \cup {Nothing}
    BY <1>6, <2>1 DEF EndRollbackLeads, AloneCall
  <2>3. index'[k] = job[c].old
    BY <1>0, <2>1 DEF SafeInv
  <2> QED
    BY <2>1, <2>2, <2>3 DEF Paired
<1>7. CASE k = Now(c) /\ j.at = "next" /\ (EndCopyLeads(c, j) \/ EndCopySignatureLeads(c, j))
  BY <1>7 DEF EndCopyLeads, EndCopySignatureLeads, RollbackLeads, Damage
<1>8. CASE k = Now(c) /\ (BeginCopyLeads(c, j) \/ BeginCopySignatureLeads(c, j) \/ BeginRollbackLeads(c, j))
  BY <1>4, <1>8 DEF BeginCopyLeads, BeginCopySignatureLeads, BeginRollbackLeads, Replacing
<1>9. CASE k = Now(c) /\ (EndCopyLeads(c, j) \/ EndCopySignatureLeads(c, j))
  BY <1>4, <1>7, <1>9 DEF EndCopyLeads, EndCopySignatureLeads, RollbackLeads, Replacing
<1> QED
  BY <1>2, <1>3, <1>5, <1>6, <1>8, <1>9 DEF Leads, RequestLeads, NextLeads, AnswerLeads, DownloadIndexLeads,
     DownloadSignatureLeads, VerifyLeads, BackupLeads, Busy, Replacing

\* What the report says when an index is through.
LEMMA TruthfulStep ==
    ASSUME SafeInv, NEW c \in Jobs, Others(c), AloneCall(c), \A k \in Indexes : Truthful(c, k),
           NEW j, MovesTo(c, j), Leads(c, j), NEW k \in Indexes
    PROVE  Truthful(c, k)'
<1> USE DEF FailLeads, IsAsked, IsAt, IsBegun, IsFetched, IsSaved, IsClosed, At, HasSignature, WorksOn
<1>0. /\ job[c] \in JobType /\ InHand(job[c]) /\ job'[c] = j
      /\ Saved = {"copy", "copying", "copySig", "copyingSig", "commit", "rollback", "rollingBack"}
      /\ Verified = Saved \cup {"backup"} /\ Fetched = Verified \cup {"signature", "verify"}
  BY DEF SafeInv, Verified, Fetched, Saved, Replacing, MovesTo
<1>1. CASE RequestLeads(c, j) \/ AnswerLeads(c, j)
  BY <1>0, <1>1 DEF RequestLeads, AnswerLeads, NoRequest, Truthful
<1>2. job[c].todo # <<>> => Now(c) \in Indexes
  BY <1>0, FirstOfAll DEF Now
<1>3. CASE k # Now(c) /\ job[c].at # "idle" /\ ~AnswerLeads(c, j)
  <2>1. job[c].todo # <<>>
    <3>1. CASE job[c].at = "next"
      BY <1>3, <3>1 DEF Leads, RequestLeads, NextLeads, DownloadIndexLeads, DownloadSignatureLeads, VerifyLeads,
         BackupLeads, BeginCopyLeads, EndCopyLeads, BeginCopySignatureLeads, EndCopySignatureLeads, CommitLeads,
         BeginRollbackLeads, EndRollbackLeads, Busy
    <3>2. CASE job[c].at # "next"
      BY <1>0, <1>3, <3>2 DEF InHand
    <3> QED
      BY <3>1, <3>2
  <2>2. j.report[k] = job[c].report[k] /\ j.before[k] = job[c].before[k]
    <3>1. /\ j.report = job[c].report \/ \E result \in Results : j.report = [job[c].report EXCEPT ![Now(c)] = result]
          /\ j.before = job[c].before \/ \E b : j.before = [job[c].before EXCEPT ![Now(c)] = b]
      BY <1>3 DEF Leads, RequestLeads, NextLeads, DownloadIndexLeads, DownloadSignatureLeads, VerifyLeads,
         BackupLeads, BeginCopyLeads, EndCopyLeads, BeginCopySignatureLeads, EndCopySignatureLeads, CommitLeads,
         BeginRollbackLeads, EndRollbackLeads, RollbackLeads, Results, Busy, Now
    <3> QED
      BY <1>0, <1>2, <1>3, <2>1, <3>1 DEF JobType
  <2>3. index'[k] = index[k] /\ sig'[k] = sig[k] /\ (k \in damaged' <=> k \in damaged)
    BY <1>3, OnlyItsIndex
  <2>4. ~WorksOn(c, k)
    BY <1>3
  <2>5. Truthful(c, k)
    OBVIOUS
  <2> QED
    BY <1>0, <2>2, <2>3, <2>4, <2>5 DEF Truthful
<1>4. CASE k = Now(c) /\ j.at \notin {"idle", "next"} /\ j.todo = job[c].todo
  <2>1. WorksOn(c, k)'
    BY <1>0, <1>4 DEF Now
  <2> QED
    BY <2>1 DEF Truthful
<1>5. ASSUME k = Now(c), NEW result \in Results, IsClosed(j, job[c], result)
      PROVE  j.report[k] = result /\ j.before[k] = job[c].before[k]
  BY <1>0, <1>5 DEF JobType, Now
<1>6. CASE k = Now(c) /\ job[c].at # "idle" /\ ~AnswerLeads(c, j)
  <2>1. CASE NextLeads(c, j)
    <3>1. CASE \E result \in {"uptodate", "none"} : IsClosed(j, job[c], result)
      BY <1>0, <1>5, <1>6, <3>1 DEF Truthful, Results
    <3>2. CASE IsBegun(j, job[c], <<index[Now(c)], sig[Now(c)], served[Now(c)]>>)
      BY <1>4, <1>6, <3>2
    <3> QED
      BY <2>1, <3>1, <3>2 DEF NextLeads
  <2>2. CASE CommitLeads(c, j)
    <3>1. j.report[k] = "updated" /\ j.before[k] = job[c].before[k]
      BY <1>5, <1>6, <2>2 DEF CommitLeads, Results
    <3>2. /\ index'[k] = job[c].tmp
          /\ job[c].tmp = Garbled \/ (job[c].tmp \in Versions /\ job[c].before[k][3] <= job[c].tmp)
      BY <1>0, <1>6, <2>2 DEF CommitLeads, AloneCall
    <3> QED
      BY <1>0, <3>1, <3>2 DEF Truthful
  <2>3. ASSUME FailLeads(c, j), k \notin damaged' => index'[k] = job[c].before[k][1] /\ sig'[k] = job[c].before[k][2]
        PROVE  Truthful(c, k)'
    <3>1. j.report[k] = "failed" /\ j.before[k] = job[c].before[k]
      BY <1>5, <1>6, <2>3 DEF Results
    <3> QED
      BY <1>0, <2>3, <3>1 DEF Truthful
  <2>4. CASE DownloadIndexLeads(c, j) \/ DownloadSignatureLeads(c, j) \/ VerifyLeads(c, j) \/ BackupLeads(c, j)
    <3>1. CASE FailLeads(c, j)
      <4>1. index'[k] = job[c].before[k][1] /\ sig'[k] = job[c].before[k][2]
        BY <1>6, <2>4 DEF DownloadIndexLeads, DownloadSignatureLeads, VerifyLeads, BackupLeads, Keeps, AloneCall
      <4> QED
        BY <2>3, <3>1, <4>1
    <3>2. CASE ~FailLeads(c, j)
      <4>1. j.at \notin {"idle", "next"} /\ j.todo = job[c].todo
        BY <2>4, <3>2 DEF DownloadIndexLeads, DownloadSignatureLeads, VerifyLeads, BackupLeads
      <4> QED
        BY <1>4, <1>6, <4>1
    <3> QED
      BY <3>1, <3>2
  <2>5. CASE BeginCopyLeads(c, j) \/ BeginCopySignatureLeads(c, j) \/ BeginRollbackLeads(c, j)
    BY <1>4, <1>6, <2>5 DEF BeginCopyLeads, BeginCopySignatureLeads, BeginRollbackLeads
  <2>6. CASE EndCopyLeads(c, j) \/ EndCopySignatureLeads(c, j)
    <3>1. CASE j.at \notin {"idle", "next"} /\ j.todo = job[c].todo
      BY <1>4, <1>6, <3>1
    <3>2. CASE FailLeads(c, j) /\ k \in damaged'
      BY <2>3, <3>2
    <3> QED
      BY <1>6, <2>6, <3>1, <3>2 DEF EndCopyLeads, EndCopySignatureLeads, RollbackLeads, Damage
  <2>7. CASE EndRollbackLeads(c, j)
    <3>1. CASE k \in damaged'
      BY <2>3, <2>7, <3>1 DEF EndRollbackLeads
    <3>2. CASE k \notin damaged'
      <4>0. Written(job[c].old, IndexFile(c)) = {job[c].old}
        BY <2>7, NothingMixed DEF EndRollbackLeads, AloneCall
      <4>1. index' = [index EXCEPT ![k] = job[c].old] /\ sig' = sig /\ k \notin damaged
        BY <1>6, <2>7, <3>2, <4>0 DEF EndRollbackLeads, Damage
      <4>2. index'[k] = job[c].before[k][1] /\ sig'[k] = job[c].before[k][2]
        BY <1>0, <1>6, <2>7, <4>1 DEF EndRollbackLeads, AloneCall, SafeInv
      <4> QED
        BY <2>3, <2>7, <4>2 DEF EndRollbackLeads
    <3> QED
      BY <3>1, <3>2
  <2> QED
    BY <1>6, <2>1, <2>2, <2>4, <2>5, <2>6, <2>7 DEF Leads, RequestLeads, Busy
<1>7. CASE job[c].at = "idle"
  BY <1>1, <1>7 DEF Leads, NextLeads, DownloadIndexLeads, DownloadSignatureLeads, VerifyLeads,
     BackupLeads, BeginCopyLeads, EndCopyLeads, BeginCopySignatureLeads, EndCopySignatureLeads, CommitLeads,
     BeginRollbackLeads, EndRollbackLeads
<1> QED
  BY <1>1, <1>3, <1>6, <1>7

-----------------------------------------------------------------------------
\* A request that is not under way has nothing to be true to.
LEMMA IdleIsTrue ==
    \A d \in Jobs : job[d] = NoRequest => AloneCall(d) /\ \A i \in Indexes : Truthful(d, i)
BY DEF NoRequest, AloneCall, Truthful, Fetched, Verified, Saved, Replacing

LEMMA IdleIsTrueNext ==
    (\A d \in Jobs : job[d] = NoRequest => AloneCall(d) /\ \A i \in Indexes : Truthful(d, i))'
BY IdleIsTrue, PTL

LEMMA InitAlone ==
    ASSUME IndexInit
    PROVE  AloneInv
<1>1. \A c \in Jobs : job[c] = NoRequest
  BY DEF IndexInit
<1>2. \A i \in Signed \ damaged : Paired(i)
  BY Distinct DEF IndexInit, Paired, Signed
<1>3. NoRequest.at = "idle"
  BY DEF NoRequest
<1> QED
  BY <1>1, <1>2, <1>3, IdleIsTrue DEF AloneInv

LEMMA StepOfAlone ==
    ASSUME SafeInv, AloneInv, NEW c \in Jobs, StepOf(c)
    PROVE  AloneInv'
<1>1. PICK j : MovesTo(c, j) /\ Leads(c, j)
  BY StepLeads
<1> SUFFICES ASSUME Alone PROVE AloneInv'
  BY <1>1 DEF AloneInv, Alone, MovesTo
<1>2. /\ Others(c) /\ Others(c)' /\ job'[c] = j
      /\ \A d, e \in Jobs : job'[d].at # "idle" /\ job'[e].at # "idle" => d = e
  BY <1>1, StaysAlone DEF AloneInv
<1>3. /\ AloneCall(c) /\ \A i \in Signed \ damaged : Paired(i)
      /\ \A i \in Indexes : Truthful(c, i)
  BY DEF AloneInv
<1>4. AloneCall(c)'
  BY <1>1, <1>2, <1>3, AloneCallStep
<1>5. \A i \in Signed \ damaged' : Paired(i)'
  BY <1>1, <1>2, <1>3, PairedStep
<1>6. \A i \in Indexes : Truthful(c, i)'
  BY <1>1, <1>2, <1>3, TruthfulStep
<1>7. \A d \in Jobs : AloneCall(d)' /\ \A i \in Indexes : Truthful(d, i)'
  BY <1>2, <1>4, <1>6, IdleIsTrueNext DEF Others
<1> QED
  BY <1>2, <1>5, <1>7 DEF AloneInv

LEMMA BasisNumber ==
    ASSUME NEW j \in JobType, NEW i \in Indexes
    PROVE  j.before[i][3] \in Nat
<1>1. j.before[i] \in Bases
  BY DEF JobType
<1>2. ASSUME NEW b \in Bases PROVE b[3] \in Versions \cup {Nothing}
  BY DEF Bases
<1>3. j.before[i][3] \in Versions \cup {Nothing}
  BY <1>1, <1>2
<1>4. Versions \subseteq Nat /\ Nothing \in Nat
  BY Distinct DEF Nothing
<1> QED
  BY <1>3, <1>4

\* What is served only gets newer, and no file changes.
LEMMA PublishAlone ==
    ASSUME SafeInv, AloneInv, NEW k \in Indexes, Publish(k)
    PROVE  AloneInv'
<1>1. UNCHANGED <<world, index, sig, job, damaged, spoiled>> /\ served' = [served EXCEPT ![k] = @ + 1]
  BY DEF Publish, fileVars, historyVars
<1> SUFFICES ASSUME Alone PROVE AloneInv'
  BY <1>1 DEF AloneInv, Alone
<1>2. \A c \in Jobs : AloneCall(c)'
  <2> TAKE c \in Jobs
  <2>1. AloneCall(c)
    BY DEF AloneInv
  <2>2. job[c].at = "download" => job[c].before[Now(c)][3] <= served'[Now(c)]
    <3> HAVE job[c].at = "download"
    <3>1. job[c] \in JobType /\ InHand(job[c])
      BY DEF SafeInv
    <3>2. Now(c) \in Indexes
      BY <3>1, FirstOfAll DEF InHand, Now
    <3>3. job[c].before[Now(c)][3] \in Nat /\ served[Now(c)] \in Nat
      BY <3>1, <3>2, BasisNumber, Distinct DEF SafeInv
    <3>4. job[c].before[Now(c)][3] <= served[Now(c)]
      BY <2>1 DEF AloneCall
    <3>5. served'[Now(c)] \in {served[Now(c)], served[Now(c)] + 1}
      BY <1>1, <3>2 DEF SafeInv
    <3> QED
      BY <3>3, <3>4, <3>5
  <2> QED
    BY <1>1, <2>1, <2>2 DEF AloneCall, Now, HasSignature, IndexFile, SignatureFile
<1>3. \A i \in Signed \ damaged' : Paired(i)'
  BY <1>1 DEF AloneInv, Paired, Quiet, Busy, Now
<1>4. \A c \in Jobs, i \in Indexes : Truthful(c, i)'
  BY <1>1 DEF AloneInv, Truthful, WorksOn, Now
<1> QED
  BY <1>1, <1>2, <1>3, <1>4 DEF AloneInv

\* What the process that ends was replacing is known as damaged; what it had replaced is a pair.
LEMMA KillAlone ==
    ASSUME SafeInv, AloneInv, Kill
    PROVE  AloneInv'
<1>1. /\ UNCHANGED <<world, index, sig>> /\ \A c \in Jobs : job'[c] = NoRequest
      /\ damaged' = damaged \cup {Now(c) : c \in {d \in Jobs : job[d].at \in Replacing}}
  BY DEF Kill, serverVars, fileVars
<1> SUFFICES ASSUME Alone PROVE AloneInv'
  BY <1>1 DEF AloneInv, Alone
<1>2. \A c \in Jobs : AloneCall(c)' /\ \A i \in Indexes : Truthful(c, i)'
  BY <1>1, IdleIsTrueNext
<1>3. ASSUME NEW i \in Signed \ damaged' PROVE Paired(i)'
  <2>1. i \in Signed \ damaged /\ \A c \in Jobs : job[c].at \in Replacing => Now(c) # i
    BY <1>1
  <2>2. CASE Quiet(i)
    BY <1>1, <2>1, <2>2 DEF AloneInv, Paired
  <2>3. CASE ~Quiet(i)
    <3>1. PICK c \in Jobs : At(c, "commit") /\ Now(c) = i
      BY <2>1, <2>3 DEF Quiet, Busy, At
    <3>2. AloneCall(c) /\ InHand(job[c])
      BY DEF AloneInv, SafeInv
    <3>3. HasSignature(c) /\ index[i] = job[c].tmp /\ sig[i] = job[c].tmpSig
      BY <2>1, <3>1, <3>2 DEF AloneCall, At
    <3>4. Valid(job[c].tmp, job[c].tmpSig)
      BY <3>1, <3>2, <3>3 DEF InHand, At, HasSignature, Verified, Saved
    <3> QED
      BY <1>1, <3>3, <3>4 DEF Paired, Valid
  <2> QED
    BY <2>2, <2>3
<1>4. NoRequest.at = "idle"
  BY DEF NoRequest
<1> QED
  BY <1>1, <1>2, <1>3, <1>4 DEF AloneInv

LEMMA StepAlone ==
    ASSUME SafeInv, AloneInv, [IndexNext]_indexVars
    PROVE  AloneInv'
<1>1. CASE UNCHANGED <<world, served, index, sig, job, damaged, spoiled>>
  BY <1>1 DEF AloneInv, Alone, AloneCall, Paired, Quiet, Busy, Truthful, WorksOn, Now, HasSignature,
     IndexFile, SignatureFile
<1>2. ASSUME NEW i \in Indexes, Age(i) PROVE AloneInv'
  BY <1>1, <1>2 DEF Age, serverVars, historyVars
<1>3. CASE UNCHANGED indexVars
  BY <1>1, <1>3 DEF indexVars, serverVars, fileVars, historyVars
<1> QED
  BY <1>2, <1>3, StepOfAlone, PublishAlone, KillAlone DEF IndexNext, StepOf

\* With one request at a time, the files, the calls and their reports stay in step with each
\* other: the inductive invariant behind PairMatches and ReportIsTrue.
THEOREM UpdateInvariant == IndexSpec => []UpdateInv
<1>1. IndexInit => UpdateInv
  BY InitSafe, InitAlone DEF UpdateInv
<1>2. UpdateInv /\ [IndexNext]_indexVars => UpdateInv'
  BY StepSafe, StepAlone DEF UpdateInv
<1> QED
  BY <1>1, <1>2, PTL DEF IndexSpec

\* With one request at a time, an index and its signature on disk are a pair whenever none is
\* being replaced, whatever failed before (LoadIndex trusts the index then).
THEOREM FilesArePairs == IndexSpec => []PairMatches
<1>1. UpdateInv => PairMatches
  BY DEF UpdateInv, AloneInv, PairMatches, Paired
<1> QED
  BY <1>1, UpdateInvariant, PTL

\* With one request at a time, what the request reports is true of the disk (UpdateIndex).
THEOREM ReportTellsTheTruth == IndexSpec => []ReportIsTrue
<1>1. UpdateInv => ReportIsTrue
  <2> SUFFICES ASSUME UpdateInv, Alone, NEW c \in Jobs, NEW i \in Indexes
               PROVE  /\ job[c].report[i] = "failed" /\ ~WorksOn(c, i) /\ i \notin damaged =>
                             <<index[i], sig[i]>> = <<job[c].before[i][1], job[c].before[i][2]>>
                      /\ job[c].report[i] = "updated" /\ ~WorksOn(c, i) =>
                             index[i] = Garbled \/ (index[i] \in Versions /\ index[i] >= job[c].before[i][3])
    BY DEF ReportIsTrue
  <2>1. Truthful(c, i)
    BY DEF UpdateInv, AloneInv
  <2>2. job[c].before[i][3] \in Int /\ Versions \subseteq Int
    BY BasisNumber, Distinct DEF UpdateInv, SafeInv
  <2> QED
    BY <2>1, <2>2 DEF Truthful
<1> QED
  BY <1>1, UpdateInvariant, PTL
=============================================================================
