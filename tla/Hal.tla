--------------------------------- MODULE Hal ---------------------------------
(***************************************************************************)
(* The run-time system the application is built with: alt_main brings up   *)
(* the system timer, the JTAG UART and standard input and output, calls    *)
(* main and stops when it returns.  The timer interrupts everything from   *)
(* its initialisation on.                                                  *)
(*                                                                         *)
(* Of what a program may do, each behaviour picks the services of one set  *)
(* of Services: files, alarms and the time of day share no state.          *)
(***************************************************************************)
EXTENDS AlarmClock, FileTable

CONSTANTS
    Uart,        \* the JTAG UART, standard input, output and error
    UartAlarm,   \* its driver's alarm, which looks for a host once a second
    Setting,     \* the arguments of settimeofday
    Services     \* sets of {"files", "alarms", "time"}

ASSUME HalAssumption ==
    /\ Uart \in Device \ {Null}
    /\ UartAlarm \in Alarm
    /\ TickRate <= MaxDelay
    /\ Setting \subseteq [tv_sec : Nat, tv_usec : 0 .. ALT_US - 1]

\* A tick is a whole number of microseconds: 100 in the build (system.h:334).
ASSUME RateAssumption == ALT_US % TickRate = 0

VARIABLES
    phase,       \* how far alt_main is
    services     \* what the program uses

vars == <<clockVars, fileVars, phase, services>>

Phases == {"timer", "uart", "stdout", "stdin", "stderr", "main", "exit"}

\* Types of the run-time system's state (alt_tick.c, alt_alarm.h, alt_file.h).
TypeOK ==
    /\ ClockTypeOK
    /\ FileTypeOK
    /\ phase \in Phases
    /\ services \in Services

Init ==
    /\ ClockInit
    /\ FileInit
    /\ phase = "timer"
    /\ services \in Services

\* ---- alt_main -------------------------------------------------------------

\* The thread runs only while no interrupt does.
Step(from, to) == ~ticking /\ phase = from /\ phase' = to /\ UNCHANGED services

\* alt_avalon_timer_sc_init: from now on there are ticks.
TimerInit == Step("timer", "uart") /\ UNCHANGED <<clockVars, fileVars>>

\* altera_avalon_jtag_uart_init and alt_dev_reg
UartInit ==
    /\ Step("uart", "stdout")
    /\ AlarmStart(UartAlarm, TickRate)
    /\ Register(Uart)

RedirectTo(std, from, to) ==
    /\ Step(from, to)
    /\ Redirect(std, Uart)
    /\ UNCHANGED clockVars

IoRedirect ==
    \/ RedirectTo(1, "stdout", "stdin")
    \/ RedirectTo(0, "stdin", "stderr")
    \/ RedirectTo(2, "stderr", "main")

\* main returns: alt_main closes standard output, and _exit never returns.
MainReturns == Step("main", "exit") /\ Close(1) /\ UNCHANGED clockVars

\* ---- The program ----------------------------------------------------------
Program(service) ==
    phase = "main" /\ ~ticking /\ service \in services /\ UNCHANGED <<phase, services>>

Files ==
    /\ Program("files")
    /\ \/ \E dev \in Device : Open(dev) \/ OpenLocked(dev) \/ OpenFails(dev)
       \/ \E i \in Fds : Close(i) \/ Lock(i) \/ Unlock(i)
    /\ UNCHANGED clockVars

Alarms ==
    /\ Program("alarms")
    /\ \/ \E a \in Alarm \ {UartAlarm}, n \in 0 .. MaxDelay : AlarmStart(a, n)
       \/ \E a \in Alarm \ {UartAlarm} : AlarmStop(a)
    /\ UNCHANGED fileVars

SetTime ==
    /\ Program("time")
    /\ \E t \in Setting : SetTimeOfDay(t)
    /\ UNCHANGED fileVars

\* ---- The timer's interrupt ------------------------------------------------

\* The driver's callback asks for another second; one of the program's for any
\* delay or none.
Return ==
    \/ TickReturn(UartAlarm, TickRate)
    \/ \E a \in Alarm \ {UartAlarm}, n \in 0 .. MaxDelay : TickReturn(a, n)

\* The timer runs freely; an interrupt finds the thread anywhere.
Tick ==
    /\ phase # "timer"
    /\ \/ TickBegin
       \/ \E a \in Alarm : TickPass(a) \/ TickCall(a)
       \/ Return
       \/ TickEnd
    /\ UNCHANGED <<fileVars, phase, services>>

\* A callback of the program starts or stops alarms, its own included.
Callback ==
    /\ "alarms" \in services
    /\ \E a \in Alarm \ {UartAlarm} : Called(a)
    /\ \/ \E b \in Alarm \ {UartAlarm}, n \in 0 .. MaxDelay : AlarmStart(b, n)
       \/ \E b \in Alarm \ {UartAlarm} : AlarmStop(b)
    /\ UNCHANGED <<fileVars, phase, services>>

Next ==
    \/ TimerInit \/ UartInit \/ IoRedirect \/ MainReturns
    \/ Files \/ Alarms \/ SetTime
    \/ Tick \/ Callback

Spec == Init /\ [][Next]_vars

\* The timer is free running (ALTERA_AVALON_TIMER_CONTROL_CONT) and interrupts
\* are never off for good.
FairSpec == Spec /\ WF_vars(Tick)

(***************************************************************************)
(* Alarms.                                                                 *)
(***************************************************************************)

\* The alarms from p on, which is the head of the list or on it.
From(p) ==
    {alarms[i] : i \in {k \in DOMAIN alarms : p \in Listed /\ Place(alarms, p) <= k}}

\* The alarm alt_tick goes to next is off the list, and linked to itself.
Astray == ticking /\ (IF calling THEN next ELSE alarm) \notin Listed \cup {ListHead}

\* The alarms this tick has still to do with.
ToCome == IF calling THEN {alarm} \cup From(next) ELSE From(alarm)

\* alt_tick finds an alarm due exactly on the tick its period ends, also when
\* the counter has wrapped around in between (alt_tick.c:109-133, rollover).
FiresOnTime == \A a \in Alarm : LooksAt(a) => (Expired(a) <=> remaining[a] = 0)

\* An alarm that is due is still to come in the tick under way, so that between
\* ticks none is overdue, whatever callbacks and the program start and stop, their
\* own alarms included.  The exception is a walk led astray, which does not end
\* (alt_tick.c:102, 140; alt_alarm_start.c:98).
NoneOverdue == \A a \in Listed : remaining[a] = 0 => a \in ToCome \/ Astray

\* A walk is led astray in one way only: the alarm alt_tick has read as the next
\* one is taken off the list during a callback.  That the callback's own alarm
\* goes, or any other, or that some are added, is harmless (alt_tick.c:102, 140;
\* alt_llist.h:115).
LedAstrayByStopOfNext ==
    [][~Astray /\ Astray' => calling /\ next \in Listed /\ next \notin Listed']_vars

\* An alarm that is started is called or stopped (alt_alarm.h), unless the walks
\* are led astray again and again, or one for good: alt_tick then goes round one
\* alarm at line 140 and the ticks stop.
AlarmsFire ==
    []<>Astray \/ \A a \in Alarm : a \in Listed ~> a \notin Listed \/ Called(a)

(***************************************************************************)
(* Time of day.                                                            *)
(***************************************************************************)
InMicros(t) == t.tv_sec * ALT_US + t.tv_usec

\* The product of settimeofday fitted in 32 bits, and the counter has not wrapped
\* around since.
SetFits == elapsed <= nticks /\ (nticks - elapsed) * TickMicros < Wrap

\* The time of day is the one last set plus the ticks since, in a normal form
\* (alt_settod.c, alt_gettod.c).
TimeIsKept ==
    SetFits => /\ TimeOfDay.tv_usec \in 0 .. ALT_US - 1
               /\ InMicros(TimeOfDay) = InMicros(setting) + elapsed * TickMicros

(***************************************************************************)
(* Files.                                                                  *)
(***************************************************************************)

\* The search of alt_file_locked, which ends at the high-water mark, sees every
\* descriptor in use but the standard ones before the first open, and a free one
\* has no lock left (alt_get_fd.c:82, alt_release_fd.c).
MarkCoversUsed ==
    /\ \A i \in Fds \ StdFds : Used(i) => i <= alt_max_fd
    /\ \A i \in Fds : ~Used(i) => fd_flags[i] = {}

\* Two descriptors never hold the lock of one device, though alt_fd_lock does not
\* look at the highest one (alt_fd_lock.c:61, alt_open.c:79).
OneLocker == \A i, j \in Fds : Excl(i) /\ Excl(j) /\ fd_dev[i] = fd_dev[j] => i = j

\* While a descriptor holds the lock its device gains no other (alt_open.c:60).
LockHolds ==
    [][\A i, j \in Fds :
         /\ Excl(i) /\ Excl(i)'
         /\ fd_dev[j]' = fd_dev[i] /\ fd_dev[i]' = fd_dev[i]
         => fd_dev[j] = fd_dev[i]]_vars

\* What alt_fd_lock.c:43 promises: a lock is granted only when no other
\* descriptor references the device.
LockIsExclusive == \A i, j \in Fds : Used(i) /\ Excl(i) /\ fd_dev[i] = fd_dev[j] => i = j
=============================================================================
