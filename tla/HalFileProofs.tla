---------------------------- MODULE HalFileProofs ----------------------------
(***************************************************************************)
(* The file descriptors of Hal, for every size of the pool and every set   *)
(* of devices.                                                             *)
(*                                                                         *)
(* alt_fd_lock leaves the highest descriptor out of its search, so a lock  *)
(* may be granted although that one shares the device.  What makes it a    *)
(* lock nevertheless is an order: whoever holds it is the lowest           *)
(* descriptor of its device.                                               *)
(***************************************************************************)
EXTENDS Hal, TLAPS

\* Standard input, output and error are always open, and a device's flag is
\* set only after an open, which puts the mark above them.
StdInUse ==
    /\ \A i \in StdFds : Used(i)
    /\ \A i \in Fds : fd_flags[i] # {} => alt_max_fd >= 3

\* The holder of a lock is the lowest descriptor of its device.
LockIsLowest == \A i, j \in Fds : Excl(i) /\ fd_dev[i] = fd_dev[j] => i <= j

FileInv ==
    /\ FileTypeOK
    /\ MarkCoversUsed
    /\ StdInUse
    /\ LockIsLowest

USE FileAssumption, HalAssumption

LEMMA FileInitially == Init => FileInv
  BY DEF Init, FileInit, FileInv, FileTypeOK, MarkCoversUsed, StdInUse, LockIsLowest,
         Fds, StdFds, Used, Excl, Flag

\* A step that leaves the descriptors alone keeps what is said of them.
LEMMA FilesUntouched ==
  ASSUME FileInv, UNCHANGED fileVars
  PROVE  FileInv'
  BY DEF fileVars, FileInv, FileTypeOK, MarkCoversUsed, StdInUse, LockIsLowest, Used, Excl

\* The first free descriptor is above the standard ones.
LEMMA NewIsAboveStd ==
  ASSUME FileInv, NEW i \in Fds, FirstFree(i)
  PROVE  i >= 3 /\ MarkAfter(i) >= 3 /\ MarkAfter(i) \in Fds /\ MarkAfter(i) >= alt_max_fd
         /\ MarkAfter(i) >= i /\ ~Used(i) /\ fd_flags[i] = {}
  BY DEF FileInv, FileTypeOK, StdInUse, MarkCoversUsed, FirstFree, Free, Fds, StdFds, MarkAfter

\* When the device of a new descriptor is not locked below the mark, no
\* descriptor in use locks it.
LEMMA NoLockMissed ==
  ASSUME FileInv, NEW i \in Fds, NEW dev \in Device, FirstFree(i), ~FileLocked(i, dev),
         NEW j \in Fds, fd_dev[j] = dev
  PROVE  ~Excl(j)
<1>1. j # i
  BY NewIsAboveStd DEF Used
<1>2. j <= MarkAfter(i)
  BY NewIsAboveStd DEF FileInv, FileTypeOK, MarkCoversUsed, Used, Fds, StdFds
<1> QED
  BY <1>1, <1>2 DEF FileLocked

LEMMA RegisterKeeps ==
  ASSUME FileInv, NEW dev \in Device, Register(dev)
  PROVE  FileInv'
  BY DEF Register, FileInv, FileTypeOK, MarkCoversUsed, StdInUse, LockIsLowest, Used, Excl

LEMMA ReleaseKeeps ==
  ASSUME FileInv, NEW i \in Fds, NEW mark \in Fds, Release(i),
         \/ alt_max_fd' = alt_max_fd
         \/ mark >= alt_max_fd /\ mark >= 3 /\ alt_max_fd' = mark,
         UNCHANGED alt_dev_list
  PROVE  FileInv'
<1>1. alt_max_fd' >= alt_max_fd /\ alt_max_fd' \in -1 .. ALT_MAX_FD - 1
  BY DEF FileInv, FileTypeOK, Fds
<1>2. CASE i \in StdFds
  BY <1>1, <1>2 DEF Release, FileInv, FileTypeOK, MarkCoversUsed, StdInUse, LockIsLowest, Used,
            Excl, Fds, StdFds
<1>3. CASE i \notin StdFds
  <2>1. /\ fd_dev' = [fd_dev EXCEPT ![i] = NoDev]
        /\ fd_flags' = [fd_flags EXCEPT ![i] = {}]
    BY <1>3 DEF Release
  <2>2. FileTypeOK'
    BY <2>1, <1>1 DEF FileInv, FileTypeOK
  <2>3. MarkCoversUsed'
    BY <2>1, <1>1 DEF FileInv, FileTypeOK, MarkCoversUsed, Used, Fds
  <2>4. StdInUse'
    BY <2>1, <1>1, <1>3 DEF FileInv, FileTypeOK, StdInUse, Used, Fds, StdFds
  <2>5. LockIsLowest'
    BY <2>1 DEF FileInv, FileTypeOK, MarkCoversUsed, LockIsLowest, Used, Excl
  <2> QED
    BY <2>2, <2>3, <2>4, <2>5 DEF FileInv
<1> QED
  BY <1>2, <1>3

\* Descriptor k takes device dev, which is not locked: the new one of an open
\* or a standard one that is redirected.
LEMMA OpenedKeeps ==
  ASSUME FileInv, NEW i \in Fds, NEW k \in Fds, NEW dev \in Device,
         FirstFree(i), ~FileLocked(i, dev), k = i \/ k \in StdFds,
         Opened(k, dev), alt_max_fd' = MarkAfter(i), UNCHANGED alt_dev_list
  PROVE  FileInv'
<1>1. /\ fd_dev' = [fd_dev EXCEPT ![k] = dev]
      /\ fd_flags' = [fd_flags EXCEPT ![k] = {"ALT_FD_DEV"}]
  BY DEF Opened
<1>2. /\ alt_max_fd' \in Fds /\ alt_max_fd' >= 3
      /\ alt_max_fd' >= alt_max_fd /\ alt_max_fd' >= i
  BY NewIsAboveStd
<1>3. FileTypeOK'
  BY <1>1, <1>2 DEF FileInv, FileTypeOK, Flag, Fds
<1>4. MarkCoversUsed'
  BY <1>1, <1>2 DEF FileInv, FileTypeOK, MarkCoversUsed, Used, Fds
<1>5. StdInUse'
  BY <1>1, <1>2 DEF FileInv, FileTypeOK, StdInUse, Used, Fds, StdFds
<1>6. LockIsLowest'
  <2> SUFFICES ASSUME NEW l \in Fds, NEW j \in Fds, Excl(l)', fd_dev'[l] = fd_dev'[j]
               PROVE  l <= j
    BY DEF LockIsLowest
  <2>1. l # k /\ Excl(l) /\ fd_dev[l] = fd_dev'[l]
    BY <1>1 DEF FileInv, FileTypeOK, Excl
  <2>2. fd_dev[l] # dev
    BY <2>1, NoLockMissed
  <2>3. j # k /\ fd_dev[j] = fd_dev[l]
    BY <1>1, <2>1, <2>2 DEF FileInv, FileTypeOK
  <2> QED
    BY <2>1, <2>3 DEF FileInv, LockIsLowest
<1> QED
  BY <1>3, <1>4, <1>5, <1>6 DEF FileInv

LEMMA LockKeeps ==
  ASSUME FileInv, NEW i \in Fds, Lock(i)
  PROVE  FileInv'
<1>1. CASE Sharers(i) # {}
  BY <1>1, FilesUntouched DEF Lock, fileVars
<1>2. CASE Sharers(i) = {}
  <2>1. /\ fd_flags' = [fd_flags EXCEPT ![i] = fd_flags[i] \cup {"ALT_FD_EXCL"}]
        /\ UNCHANGED <<fd_dev, alt_max_fd, alt_dev_list>>
        /\ fd_flags[i] # {} /\ Used(i)
    BY <1>2 DEF Lock
  <2>2. FileTypeOK'
    BY <2>1 DEF FileInv, FileTypeOK, Flag
  <2>3. MarkCoversUsed' /\ StdInUse'
    BY <2>1 DEF FileInv, FileTypeOK, MarkCoversUsed, StdInUse, Used
  <2>4. LockIsLowest'
    <3> SUFFICES ASSUME NEW l \in Fds, NEW j \in Fds, Excl(l)', fd_dev[l] = fd_dev[j]
                 PROVE  l <= j
      BY <2>1 DEF LockIsLowest
    <3>1. CASE l = i
      <4>1. i <= alt_max_fd
        BY <2>1 DEF FileInv, FileTypeOK, MarkCoversUsed, StdInUse, Used, Fds, StdFds
      <4>2. j = i \/ ~(j < alt_max_fd)
        BY <1>2, <3>1 DEF Sharers
      <4> QED
        BY <4>1, <4>2, <3>1 DEF FileInv, FileTypeOK, Fds
    <3>2. CASE l # i
      BY <3>2, <2>1 DEF FileInv, FileTypeOK, LockIsLowest, Excl
    <3> QED
      BY <3>1, <3>2
  <2> QED
    BY <2>2, <2>3, <2>4 DEF FileInv
<1> QED
  BY <1>1, <1>2

LEMMA UnlockKeeps ==
  ASSUME FileInv, NEW i \in Fds, Unlock(i)
  PROVE  FileInv'
<1>1. /\ fd_flags' = [fd_flags EXCEPT ![i] = fd_flags[i] \ {"ALT_FD_EXCL"}]
      /\ UNCHANGED <<fd_dev, alt_max_fd, alt_dev_list>>
      /\ fd_flags[i] # {} /\ Used(i)
  BY DEF Unlock
<1>2. FileTypeOK'
  BY <1>1 DEF FileInv, FileTypeOK
<1>3. MarkCoversUsed' /\ StdInUse'
  BY <1>1 DEF FileInv, FileTypeOK, MarkCoversUsed, StdInUse, Used
<1>4. LockIsLowest'
  BY <1>1 DEF FileInv, FileTypeOK, LockIsLowest, Excl
<1> QED
  BY <1>2, <1>3, <1>4 DEF FileInv

\* What a step may do to the descriptors.
FileStep ==
    \/ UNCHANGED fileVars
    \/ Register(Uart)
    \/ \E std \in StdFds : Redirect(std, Uart)
    \/ \E dev \in Device : Open(dev) \/ OpenLocked(dev)
    \/ \E i \in Fds : Close(i) \/ Lock(i) \/ Unlock(i)

LEMMA StepsOfFiles ==
  ASSUME [Next]_vars
  PROVE  FileStep
<1>1. CASE UartInit \/ IoRedirect \/ MainReturns
  BY <1>1 DEF UartInit, IoRedirect, RedirectTo, MainReturns, FileStep, StdFds, Fds
<1>2. CASE Files
  BY <1>2 DEF Files, OpenFails, FileStep
<1>3. CASE TimerInit \/ Alarms \/ SetTime \/ Tick \/ Callback \/ UNCHANGED vars
  BY <1>3 DEF TimerInit, Alarms, SetTime, Tick, Callback, vars, FileStep, fileVars
<1> QED
  BY <1>1, <1>2, <1>3 DEF Next

LEMMA FileStepKeeps ==
  ASSUME FileInv, FileStep
  PROVE  FileInv'
<1>1. CASE UNCHANGED fileVars
  BY <1>1, FilesUntouched
<1>2. CASE Register(Uart)
  BY <1>2, RegisterKeeps
<1>3. ASSUME NEW std \in StdFds, Redirect(std, Uart)
      PROVE  FileInv'
  <2>1. std \in Fds
    BY DEF StdFds, Fds
  <2> QED
    BY <1>3, <2>1, OpenedKeeps DEF Redirect, Opens
<1>4. ASSUME NEW dev \in Device, Open(dev)
      PROVE  FileInv'
  BY <1>4, OpenedKeeps DEF Open, Opens
<1>5. ASSUME NEW dev \in Device, OpenLocked(dev)
      PROVE  FileInv'
  BY <1>5, ReleaseKeeps, NewIsAboveStd DEF OpenLocked
<1>6. ASSUME NEW i \in Fds, Close(i)
      PROVE  FileInv'
  BY <1>6, ReleaseKeeps DEF Close
<1> QED
  BY <1>1, <1>2, <1>3, <1>4, <1>5, <1>6, LockKeeps, UnlockKeeps DEF FileStep

\* The pool, its mark and its locks are in order in every state of the system
\* (alt_open.c, alt_get_fd.c, alt_close.c, alt_fd_lock.c, alt_io_redirect.c).
THEOREM FilesInOrder == Spec => []FileInv
<1>1. FileInv /\ [Next]_vars => FileInv'
  BY StepsOfFiles, FileStepKeeps
<1> QED
  BY <1>1, FileInitially, PTL DEF Spec

\* For every pool and every set of devices: the search that ends at the
\* high-water mark misses no descriptor in use (alt_get_fd.c:82).
THEOREM MarkIsHigh == Spec => []MarkCoversUsed
<1>1. FileInv => MarkCoversUsed
  BY DEF FileInv
<1> QED
  BY <1>1, FilesInOrder, PTL

\* For every pool and every set of devices: no device is locked twice
\* (alt_fd_lock.c:61).
THEOREM LocksAreSingle == Spec => []OneLocker
<1>1. FileInv => OneLocker
  BY DEF FileInv, FileTypeOK, LockIsLowest, OneLocker, Fds
<1> QED
  BY <1>1, FilesInOrder, PTL

\* For every pool and every set of devices: a device that is locked gains no
\* descriptor until it is unlocked (alt_open.c:60-92, alt_fd_lock.c:43).
THEOREM LocksHold == Spec => LockHolds
<1>1. ASSUME FileInv, [Next]_vars,
             NEW i \in Fds, NEW j \in Fds, Excl(i), Excl(i)',
             fd_dev'[j] = fd_dev[i], fd_dev'[i] = fd_dev[i]
      PROVE  fd_dev[j] = fd_dev[i]
  <2> SUFFICES ASSUME fd_dev[j] # fd_dev'[j]
               PROVE  FALSE
    BY <1>1
  <2>1. fd_dev[i] # NoDev
    BY <1>1 DEF FileInv, MarkCoversUsed, Used, Excl
  <2>2. ASSUME NEW k \in Fds, NEW n \in Fds, NEW dev \in Device,
               FirstFree(n), ~FileLocked(n, dev), Opened(k, dev)
        PROVE  FALSE
    <3>1. j = k /\ fd_dev[i] = dev
      BY <1>1, <2>2 DEF FileInv, FileTypeOK, Opened
    <3> QED
      BY <1>1, <2>2, <3>1, NoLockMissed
  <2>3. \A k \in Fds : ~Release(k)
    BY <1>1, <2>1 DEF FileInv, FileTypeOK, Release
  <2>4. fd_dev' # fd_dev
    OBVIOUS
  <2>5. FileStep
    BY <1>1, StepsOfFiles
  <2>6. StdFds \subseteq Fds
    BY DEF StdFds, Fds
  <2> QED
    BY <2>2, <2>3, <2>4, <2>5, <2>6
    DEF FileStep, fileVars, Register, Redirect, Open, OpenLocked, Opens, Close, Lock, Unlock
<1>2. FileInv /\ [Next]_vars =>
        [\A i, j \in Fds :
           /\ Excl(i) /\ Excl(i)'
           /\ fd_dev[j]' = fd_dev[i] /\ fd_dev[i]' = fd_dev[i]
           => fd_dev[j] = fd_dev[i]]_vars
  BY <1>1
<1> QED
  BY <1>2, FilesInOrder, PTL DEF Spec, LockHolds
=============================================================================
