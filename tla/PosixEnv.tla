------------------------------ MODULE PosixEnv ------------------------------
(***************************************************************************)
(* What LevelDB asks of the system (util/env_posix.cc) and threads share:  *)
(* the queue of background work, the limits on mapped and open files, and  *)
(* the lock of a database's directory.  The three have nothing to do with  *)
(* each other and have a specification each.                               *)
(***************************************************************************)
EXTENDS Integers, Sequences, FiniteSets

CONSTANTS
  MaxWork,       \* bound: items scheduled
  Files,         \* tables that are opened
  MmapLimit,     \* MaxMmaps
  FdLimit,       \* MaxOpenFiles
  Processes,     \* processes that open the database
  LockThreads,   \* threads of each that do
  NoOne          \* nobody holds the lock

ASSUME EnvAssumption ==
  /\ MaxWork \in Nat /\ MmapLimit \in Nat /\ FdLimit \in Nat
  /\ IsFiniteSet(Files)

VARIABLES
  queue, bgThread, ran,              \* queue_, the background thread, what it ran
  mmapAllowed, fdAllowed, file,      \* allowed_ of both limiters; each file
  locked, openFds, kernelLock, locker
    \* locked_files_ of a process; its descriptors of the file; the process
    \* the kernel's lock is of; what each thread does

bgVars == <<queue, bgThread, ran>>
limitVars == <<mmapAllowed, fdAllowed, file>>
lockVars == <<locked, openFds, kernelLock, locker>>
-----------------------------------------------------------------------------
(* Background work: items are numbered as they are scheduled.              *)
BgInit == queue = <<>> /\ bgThread = "none" /\ ran = <<>>

Scheduled == Len(ran) + Len(queue)

\* MUTANT of Signalled: the thread is woken when there is work already.
SignalledWhenBusy == queue # <<>> /\ bgThread = "waits"

(* The signal is sent when the queue is empty, and wakes a thread that     *)
(* waits.                                                                  *)
Signalled == queue = <<>> /\ bgThread = "waits"

(* Schedule, under mu_: the first call starts the thread.                  *)
Schedule ==
  /\ Scheduled < MaxWork
  /\ bgThread' = IF bgThread = "none" \/ Signalled THEN "ready" ELSE bgThread
  /\ queue' = Append(queue, Scheduled + 1)
  /\ UNCHANGED ran

(* BGThread with mu_ held: the queue is tested again after each wait.      *)
TakeWork ==
  /\ bgThread = "ready"
  /\ IF queue = <<>> THEN bgThread' = "waits" /\ UNCHANGED <<queue, ran>>
     ELSE /\ bgThread' = "runs"
          /\ queue' = Tail(queue)
          /\ ran' = Append(ran, Head(queue))
WorkDone == bgThread = "runs" /\ bgThread' = "ready" /\ UNCHANGED <<queue, ran>>

\* pthread_cond_wait may return without a signal
WakeForNothing == bgThread = "waits" /\ bgThread' = "ready" /\ UNCHANGED <<queue, ran>>

BgNext == Schedule \/ TakeWork \/ WorkDone \/ WakeForNothing
BgFairness == WF_bgVars(TakeWork) /\ WF_bgVars(WorkDone)

(* env.h, Schedule: each item is run once, in the order of the calls.      *)
WorkRunsInOrder == ran \o queue = [i \in 1 .. Scheduled |-> i]

(* And it is run: no signal comes to nothing.                              *)
WorkIsRun ==
  /\ []WorkRunsInOrder
  /\ \A i \in 1 .. MaxWork : (Scheduled >= i) ~> (Len(ran) >= i)
-----------------------------------------------------------------------------
(* The files that tables are read from.  A file is none, or opened with a  *)
(* descriptor; it then tries the limiters, each with a test before the     *)
(* mutex and one under it.                                                 *)
LimitInit ==
  /\ mmapAllowed = MmapLimit /\ fdAllowed = FdLimit
  /\ file = [f \in Files |-> "none"]

BecomeAt(f, from, to) == file[f] = from /\ file' = [file EXCEPT ![f] = to]
SameLimits == UNCHANGED <<mmapAllowed, fdAllowed>>

\* NewRandomAccessFile: open; a failure leaves nothing
OpenFile(f) == BecomeAt(f, "none", "opened") /\ SameLimits

(* Limiter::Acquire, first without the mutex, then with it; allowed is the *)
(* value of allowed_ that each test sees.                                  *)
TryMmap(f) ==
  /\ BecomeAt(f, "opened", IF mmapAllowed <= 0 THEN "unmapped" ELSE "mapLock")
  /\ SameLimits

\* MUTANT of AcquireMmap: the test without the mutex is thought to be enough.
AcquireMmapUntested(f) ==
  /\ BecomeAt(f, "mapLock", "mapping")
  /\ mmapAllowed' = mmapAllowed - 1
  /\ UNCHANGED fdAllowed

AcquireMmap(f) ==
  /\ BecomeAt(f, "mapLock", IF mmapAllowed <= 0 THEN "unmapped" ELSE "mapping")
  /\ mmapAllowed' = IF mmapAllowed <= 0 THEN mmapAllowed ELSE mmapAllowed - 1
  /\ UNCHANGED fdAllowed

\* mmap, with the descriptor closed after it; a failure gives the place back
MapFile(f) == BecomeAt(f, "mapping", "mapped") /\ SameLimits

MapFails(f) ==
  /\ BecomeAt(f, "mapping", "none")
  /\ mmapAllowed' = mmapAllowed + 1
  /\ UNCHANGED fdAllowed

\* PosixRandomAccessFile: keeps its descriptor or opens one for every read
TryFd(f) ==
  /\ BecomeAt(f, "unmapped", IF fdAllowed <= 0 THEN "temporary" ELSE "fdLock")
  /\ SameLimits
AcquireFd(f) ==
  /\ BecomeAt(f, "fdLock", IF fdAllowed <= 0 THEN "temporary" ELSE "kept")
  /\ fdAllowed' = IF fdAllowed <= 0 THEN fdAllowed ELSE fdAllowed - 1
  /\ UNCHANGED mmapAllowed

\* the destructors
Unmap(f) == BecomeAt(f, "mapped", "none") /\ mmapAllowed' = mmapAllowed + 1 /\ UNCHANGED fdAllowed
CloseKept(f) == BecomeAt(f, "kept", "none") /\ fdAllowed' = fdAllowed + 1 /\ UNCHANGED mmapAllowed
CloseTemporary(f) == BecomeAt(f, "temporary", "none") /\ SameLimits

LimitNext ==
  \E f \in Files :
    \/ OpenFile(f) \/ TryMmap(f) \/ AcquireMmap(f) \/ MapFile(f) \/ MapFails(f)
    \/ TryFd(f) \/ AcquireFd(f) \/ Unmap(f) \/ CloseKept(f) \/ CloseTemporary(f)

FilesAt(places) == {f \in Files : file[f] \in places}

(* Limiter: never more files are mapped, or kept open, than its limit,     *)
(* however the tests of several threads interleave.                        *)
LimitsHold ==
  /\ Cardinality(FilesAt({"mapping", "mapped"})) <= MmapLimit
  /\ Cardinality(FilesAt({"kept"})) <= FdLimit

(* And no way out of the constructors and destructors loses a place, or    *)
(* gives one back twice.                                                   *)
PlacesAreKept ==
  /\ LimitsHold
  /\ mmapAllowed = MmapLimit - Cardinality(FilesAt({"mapping", "mapped"}))
  /\ fdAllowed = FdLimit - Cardinality(FilesAt({"kept"}))
-----------------------------------------------------------------------------
(* The file LOCK.  A thread is [process, thread]; the kernel's lock is the *)
(* process's, and any close of a descriptor of the file by it drops it.    *)
Lockers == Processes \X LockThreads
LockInit ==
  /\ locked = {} /\ openFds = [p \in Processes |-> 0] /\ kernelLock = NoOne
  /\ locker = [t \in Lockers |-> "idle"]

MoveLocker(t, from, to) == locker[t] = from /\ locker' = [locker EXCEPT ![t] = to]
CloseFd(p) ==
  /\ openFds' = [openFds EXCEPT ![p] = @ - 1]
  /\ kernelLock' = IF kernelLock = p THEN NoOne ELSE kernelLock

(* LockFile: open; insert into the process's table; lock with fcntl.       *)
OpenLockFile(t) ==
  /\ MoveLocker(t, "idle", "opened")
  /\ openFds' = [openFds EXCEPT ![t[1]] = @ + 1]
  /\ UNCHANGED <<locked, kernelLock>>

\* MUTANT of InsertLock: the table of the process is not asked.
InsertLockAnyway(t) ==
  /\ MoveLocker(t, "opened", "inserted")
  /\ locked' = locked \cup {t[1]}
  /\ UNCHANGED <<openFds, kernelLock>>

InsertLock(t) ==
  \/ /\ t[1] \notin locked
     /\ MoveLocker(t, "opened", "inserted")
     /\ locked' = locked \cup {t[1]}
     /\ UNCHANGED <<openFds, kernelLock>>
  \/ /\ t[1] \in locked
     /\ MoveLocker(t, "opened", "idle")
     /\ CloseFd(t[1])
     /\ UNCHANGED locked
LockByKernel(t) ==
  /\ kernelLock \in {NoOne, t[1]}
  /\ MoveLocker(t, "inserted", "holds")
  /\ kernelLock' = t[1]
  /\ UNCHANGED <<locked, openFds>>
KernelRefuses(t) ==
  /\ kernelLock \notin {NoOne, t[1]}
  /\ MoveLocker(t, "inserted", "refused")
  /\ CloseFd(t[1])
  /\ UNCHANGED locked
RemoveRefused(t) ==
  /\ MoveLocker(t, "refused", "idle")
  /\ locked' = locked \ {t[1]}
  /\ UNCHANGED <<openFds, kernelLock>>

(* UnlockFile: unlock; remove from the table; close.                       *)
UnlockByKernel(t) ==
  /\ MoveLocker(t, "holds", "unlocked")
  /\ kernelLock' = IF kernelLock = t[1] THEN NoOne ELSE kernelLock
  /\ UNCHANGED <<locked, openFds>>
RemoveLock(t) ==
  /\ MoveLocker(t, "unlocked", "removed")
  /\ locked' = locked \ {t[1]}
  /\ UNCHANGED <<openFds, kernelLock>>
CloseLockFile(t) ==
  /\ MoveLocker(t, "removed", "idle")
  /\ CloseFd(t[1])
  /\ UNCHANGED locked

LockNext ==
  \E t \in Lockers :
    \/ OpenLockFile(t) \/ InsertLock(t) \/ LockByKernel(t) \/ KernelRefuses(t)
    \/ RemoveRefused(t) \/ UnlockByKernel(t) \/ RemoveLock(t) \/ CloseLockFile(t)

Holders == {t \in Lockers : locker[t] = "holds"}

(* env_posix.cc, PosixLockTable: fcntl does not keep two threads of one    *)
(* process apart, the table does, also while another one unlocks.          *)
OneHolderPerProcess ==
  /\ \A t, u \in Holders : t[1] = u[1] => t = u
  /\ \A t \in Lockers : locker[t] \in {"inserted", "holds", "unlocked"} => t[1] \in locked
=============================================================================
