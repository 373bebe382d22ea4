------------------------------ MODULE FileTable ------------------------------
(***************************************************************************)
(* The file descriptors of the HAL: the pool alt_fd_list, its high-water   *)
(* mark, and the lock for exclusive access (alt_open.c, alt_get_fd.c,      *)
(* alt_close.c, alt_fd_lock.c, alt_io_redirect.c).                         *)
(*                                                                         *)
(* One thread uses the pool, so a call is one step.  Of fd_flags there are *)
(* the two that the HAL reserves for itself; the driver's open function is *)
(* NULL for each device of the system, and no file system is registered.   *)
(***************************************************************************)
EXTENDS Integers, FiniteSets

CONSTANTS
    ALT_MAX_FD,     \* the size of the pool
    Device,         \* the devices a program may name
    Null,           \* alt_dev_null, where all output goes before it is redirected
    NoDev           \* the device pointer of a free descriptor

ASSUME FileAssumption ==
    /\ ALT_MAX_FD \in Nat /\ ALT_MAX_FD > 3
    /\ Null \in Device
    /\ NoDev \notin Device

VARIABLES
    fd_dev,         \* alt_fd_list[i].dev
    fd_flags,       \* alt_fd_list[i].fd_flags
    alt_max_fd,     \* the highest descriptor ever allocated
    alt_dev_list    \* the devices registered

fileVars == <<fd_dev, fd_flags, alt_max_fd, alt_dev_list>>

Fds == 0 .. ALT_MAX_FD - 1
StdFds == 0 .. 2
Flag == {"ALT_FD_EXCL", "ALT_FD_DEV"}

FileTypeOK ==
    /\ fd_dev \in [Fds -> Device \cup {NoDev}]
    /\ fd_flags \in [Fds -> SUBSET Flag]
    /\ alt_max_fd \in -1 .. ALT_MAX_FD - 1
    /\ alt_dev_list \subseteq Device

FileInit ==
    /\ fd_dev = [i \in Fds |-> IF i \in StdFds THEN Null ELSE NoDev]
    /\ fd_flags = [i \in Fds |-> {}]
    /\ alt_max_fd = -1
    /\ alt_dev_list = {Null}

Used(i) == fd_dev[i] # NoDev
Free == {i \in Fds : ~Used(i)}
Excl(i) == "ALT_FD_EXCL" \in fd_flags[i]

\* alt_dev_reg
Register(dev) ==
    /\ alt_dev_list' = alt_dev_list \cup {dev}
    /\ UNCHANGED <<fd_dev, fd_flags, alt_max_fd>>

\* The descriptor alt_get_fd finds: the first that is free.
FirstFree(i) == i \in Free /\ \A j \in Free : i <= j

\* Mutant of MarkAfter: the mark is the last descriptor allocated.
MarkLast(i) == i
\* The high-water mark after alt_get_fd has allocated descriptor i.
MarkAfter(i) == IF i > alt_max_fd THEN i ELSE alt_max_fd

\* Mutant of FileLocked: the search stops before the high-water mark.
FileLockedShort(i, dev) == \E j \in Fds \ {i} : j < MarkAfter(i) /\ fd_dev[j] = dev /\ Excl(j)
\* alt_file_locked for the new descriptor i of device dev.
FileLocked(i, dev) == \E j \in Fds \ {i} : j <= MarkAfter(i) /\ fd_dev[j] = dev /\ Excl(j)

\* open succeeds with descriptor i.
Opens(i, dev) == dev \in alt_dev_list /\ FirstFree(i) /\ ~FileLocked(i, dev)

\* Descriptor i now is a device's, as open leaves it.
Opened(i, dev) ==
    /\ fd_dev' = [fd_dev EXCEPT ![i] = dev]
    /\ fd_flags' = [fd_flags EXCEPT ![i] = {"ALT_FD_DEV"}]

\* alt_release_fd: those of standard input, output and error stay.
Release(i) ==
    IF i \in StdFds THEN UNCHANGED <<fd_dev, fd_flags>>
    ELSE /\ fd_dev' = [fd_dev EXCEPT ![i] = NoDev]
         /\ fd_flags' = [fd_flags EXCEPT ![i] = {}]

Open(dev) ==
    \E i \in Fds :
        /\ Opens(i, dev)
        /\ Opened(i, dev)
        /\ alt_max_fd' = MarkAfter(i)
        /\ UNCHANGED alt_dev_list

\* open finds the device locked and releases the descriptor it has allocated.
OpenLocked(dev) ==
    /\ dev \in alt_dev_list
    /\ \E i \in Fds :
        /\ FirstFree(i) /\ FileLocked(i, dev)
        /\ Release(i)
        /\ alt_max_fd' = MarkAfter(i)
        /\ UNCHANGED alt_dev_list

\* open finds no such device, or the pool used up.
OpenFails(dev) ==
    /\ dev \notin alt_dev_list \/ Free = {}
    /\ UNCHANGED fileVars

\* close of an open descriptor, whatever the driver's close function returns.
Close(i) ==
    /\ Used(i)
    /\ Release(i)
    /\ UNCHANGED <<alt_max_fd, alt_dev_list>>

\* Mutant of Sharers: the two highest descriptors are passed over.
SharersFew(i) == {j \in Fds \ {i} : j + 1 < alt_max_fd /\ fd_dev[j] = fd_dev[i]}
\* The descriptors of the same device that alt_fd_lock looks at.
Sharers(i) == {j \in Fds \ {i} : j < alt_max_fd /\ fd_dev[j] = fd_dev[i]}

\* ioctl TIOCEXCL, refused when another descriptor of the device is found.
Lock(i) ==
    /\ Used(i) /\ "ALT_FD_DEV" \in fd_flags[i]
    /\ fd_flags' = IF Sharers(i) # {} THEN fd_flags
                   ELSE [fd_flags EXCEPT ![i] = @ \cup {"ALT_FD_EXCL"}]
    /\ UNCHANGED <<fd_dev, alt_max_fd, alt_dev_list>>

\* ioctl TIOCNXCL
Unlock(i) ==
    /\ Used(i) /\ "ALT_FD_DEV" \in fd_flags[i]
    /\ fd_flags' = [fd_flags EXCEPT ![i] = @ \ {"ALT_FD_EXCL"}]
    /\ UNCHANGED <<fd_dev, alt_max_fd, alt_dev_list>>

\* alt_open_fd: opens the device, copies its descriptor to the standard one and
\* releases it again.
Redirect(std, dev) ==
    \E i \in Fds :
        /\ Opens(i, dev)
        /\ Opened(std, dev)
        /\ alt_max_fd' = MarkAfter(i)
        /\ UNCHANGED alt_dev_list
=============================================================================
