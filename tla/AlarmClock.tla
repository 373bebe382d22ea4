----------------------------- MODULE AlarmClock ------------------------------
(***************************************************************************)
(* The system clock of the HAL: the tick counter, which wraps around       *)
(* (alt_tick.c), the alarms (alt_alarm_start.c, alt_alarm.h) and the time  *)
(* of day computed from it (alt_settod.c, alt_gettod.c).                   *)
(*                                                                         *)
(* alt_tick runs in the timer's interrupt and walks the list: one step for *)
(* an alarm that is not due, and for one that is due the call of its       *)
(* callback and the return from it.  The other operations turn interrupts  *)
(* off and are one step each; a callback may call them too.                *)
(*                                                                         *)
(* The list is a sequence.  An alarm that has been taken off it is linked  *)
(* to itself (alt_llist.h:115), so a walk that comes to it stays there.    *)
(*                                                                         *)
(* remaining, setting and elapsed are history variables.                   *)
(***************************************************************************)
EXTENDS Integers, Sequences

CONSTANTS
    Alarm,       \* the alt_alarm structures of the program and the drivers
    ListHead,    \* the address of alt_alarm_list itself
    Wrap,        \* 2^32: the tick counter counts modulo Wrap
    MaxDelay,    \* the longest nticks of a start and the longest callback result
    TickRate,    \* alt_ticks_per_second()
    ALT_US       \* microseconds per second: 1000000

ASSUME ClockAssumption ==
    /\ ListHead \notin Alarm
    /\ Wrap \in Nat \ {0}
    /\ MaxDelay \in Nat \ {0}
    /\ MaxDelay + 1 < Wrap
    /\ TickRate \in Nat \ {0}
    /\ ALT_US \in Nat \ {0}

VARIABLES
    nticks,      \* _alt_nticks
    time,        \* alarm->time
    rollover,    \* alarm->rollover
    alarms,      \* alt_alarm_list, from its head
    ticking,     \* alt_tick is running
    alarm,       \* its variable alarm, ListHead while it does not run
    calling,     \* it is in the callback of alarm
    next,        \* its variable next, ListHead while it is not in a callback
    resettime,   \* alt_resettime
    remaining,   \* of each alarm, ticks until it is due
    setting,     \* the argument of the last settimeofday
    elapsed      \* ticks since then, Wrap for Wrap or more

timeVars == <<resettime, setting, elapsed>>
walkVars == <<ticking, alarm, calling, next>>
alarmVars == <<nticks, time, rollover, alarms, walkVars, remaining>>
clockVars == <<alarmVars, timeVars>>

Ticks == 0 .. Wrap - 1
Listed == {alarms[i] : i \in DOMAIN alarms}
TimeVal == [tv_sec : Int, tv_usec : Int]

ClockTypeOK ==
    /\ nticks \in Ticks
    /\ time \in [Alarm -> Ticks]
    /\ rollover \in [Alarm -> BOOLEAN]
    /\ alarms \in Seq(Alarm)
    /\ ticking \in BOOLEAN
    /\ alarm \in Alarm \cup {ListHead}
    /\ calling \in BOOLEAN
    /\ next \in Alarm \cup {ListHead}
    /\ remaining \in [Alarm -> 0 .. MaxDelay + 1]
    /\ resettime \in TimeVal /\ setting \in TimeVal
    /\ elapsed \in 0 .. Wrap

ClockInit ==
    /\ nticks = 0
    /\ time = [a \in Alarm |-> 0]
    /\ rollover = [a \in Alarm |-> FALSE]
    /\ alarms = <<>>
    /\ ticking = FALSE
    /\ alarm = ListHead
    /\ calling = FALSE
    /\ next = ListHead
    /\ resettime = [tv_sec |-> 0, tv_usec |-> 0]
    /\ remaining = [a \in Alarm |-> 0]
    /\ setting = [tv_sec |-> 0, tv_usec |-> 0]
    /\ elapsed = 0

\* Mutant of Reschedule: an alarm past the wrap counts as in the past.
RescheduleFlat(a, ticks, flag, left) ==
    /\ time' = [time EXCEPT ![a] = ticks % Wrap]
    /\ rollover' = [rollover EXCEPT ![a] = flag]
    /\ remaining' = [remaining EXCEPT ![a] = left]

\* Set alarm a, whose flag is already set or clear, for a tick that is left
\* ticks from now.
Reschedule(a, ticks, flag, left) ==
    /\ time' = [time EXCEPT ![a] = ticks % Wrap]
    /\ rollover' = [rollover EXCEPT ![a] = flag \/ time'[a] < nticks]
    /\ remaining' = [remaining EXCEPT ![a] = left]

\* alt_alarm_start, from the program or a callback.  The first tick may come at
\* once, so it does not count.
AlarmStart(a, n) ==
    /\ a \notin Listed
    /\ Reschedule(a, nticks + n + 1, FALSE, n + 1)
    /\ alarms' = <<a>> \o alarms
    /\ UNCHANGED <<nticks, walkVars, timeVars>>

\* Where a is in sequence s, in which nothing is twice.
Place(s, a) == CHOOSE k \in DOMAIN s : s[k] = a

\* Sequence s without a: alt_llist_remove.
Without(s, a) ==
    IF \E k \in DOMAIN s : s[k] = a
    THEN [i \in 1 .. Len(s) - 1 |-> IF i < Place(s, a) THEN s[i] ELSE s[i + 1]]
    ELSE s

\* What an alarm is linked to: the one behind it on the list, or itself.
After(a) ==
    IF a \notin Listed THEN a
    ELSE IF Place(alarms, a) = Len(alarms) THEN ListHead
    ELSE alarms[Place(alarms, a) + 1]

\* alt_alarm_stop, from the program or a callback.  A second stop has no effect.
AlarmStop(a) ==
    /\ a \in Listed
    /\ alarms' = Without(alarms, a)
    /\ UNCHANGED <<nticks, time, rollover, walkVars, remaining, timeVars>>

\* Mutant of TickBegin: the counter does not wrap around.
TickBeginWide ==
    /\ ~ticking
    /\ ticking' = TRUE
    /\ nticks' = nticks + 1
    /\ alarm' = IF alarms = <<>> THEN ListHead ELSE Head(alarms)
    /\ remaining' = [a \in Alarm |-> IF a \in Listed /\ remaining[a] > 0
                                     THEN remaining[a] - 1 ELSE remaining[a]]
    /\ elapsed' = IF elapsed < Wrap THEN elapsed + 1 ELSE elapsed
    /\ UNCHANGED <<time, rollover, alarms, calling, next, resettime, setting>>

\* alt_tick begins: it counts the tick and goes to the first alarm.
TickBegin ==
    /\ ~ticking
    /\ ticking' = TRUE
    /\ nticks' = (nticks + 1) % Wrap
    /\ alarm' = IF alarms = <<>> THEN ListHead ELSE Head(alarms)
    /\ remaining' = [a \in Alarm |-> IF a \in Listed /\ remaining[a] > 0
                                     THEN remaining[a] - 1 ELSE remaining[a]]
    /\ elapsed' = IF elapsed < Wrap THEN elapsed + 1 ELSE elapsed
    /\ UNCHANGED <<time, rollover, alarms, calling, next, resettime, setting>>

\* Mutant of Rollover: the flag is never cleared.
RolloverForEver(a) == rollover[a]
\* The flag as it is when the alarm's time is looked at.
Rollover(a) == rollover[a] /\ nticks # 0

\* Mutant of Expired: an alarm is late by the tick on which it is due.
ExpiredLate(a) == time[a] < nticks /\ ~Rollover(a)
Expired(a) == time[a] <= nticks /\ ~Rollover(a)

\* alt_tick is about to look at alarm a.
LooksAt(a) == ticking /\ ~calling /\ alarm = a /\ a # ListHead

\* alt_tick passes an alarm that is not due.
TickPass(a) ==
    /\ LooksAt(a)
    /\ ~Expired(a)
    /\ rollover' = [rollover EXCEPT ![a] = Rollover(a)]
    /\ alarm' = After(a)
    /\ UNCHANGED <<nticks, time, alarms, ticking, calling, next, remaining, timeVars>>

\* alt_tick calls the callback of an alarm that is due.  What comes after the
\* alarm it has read before.
TickCall(a) ==
    /\ LooksAt(a)
    /\ Expired(a)
    /\ rollover' = [rollover EXCEPT ![a] = FALSE]
    /\ calling' = TRUE
    /\ next' = After(a)
    /\ UNCHANGED <<nticks, time, alarms, ticking, alarm, remaining, timeVars>>

\* alt_tick is in the callback of alarm a.
Called(a) == calling /\ alarm = a

\* Mutant of Onward: the next alarm is read after the callback.
OnwardLate(a) == After(a)
\* Where alt_tick goes after the callback of a.
Onward(a) == next

\* The callback of a returns 0, which takes a off the list, or the delay to the
\* next call.  If it has started its alarm anew the delays add up, and it keeps
\* the sum within the bound of a delay.
TickReturn(a, next_callback) ==
    /\ Called(a)
    /\ remaining[a] + next_callback <= MaxDelay + 1
    /\ IF next_callback = 0
       THEN /\ alarms' = Without(alarms, a)
            /\ UNCHANGED <<time, rollover, remaining>>
       ELSE /\ Reschedule(a, time[a] + next_callback, rollover[a],
                          remaining[a] + next_callback)
            /\ UNCHANGED alarms
    /\ calling' = FALSE
    /\ alarm' = Onward(a)
    /\ next' = ListHead
    /\ UNCHANGED <<nticks, ticking, timeVars>>

TickEnd ==
    /\ ticking /\ ~calling /\ alarm = ListHead
    /\ ticking' = FALSE
    /\ UNCHANGED <<nticks, time, rollover, alarms, alarm, calling, next, remaining,
                   timeVars>>

(***************************************************************************)
(* The time of day.                                                        *)
(***************************************************************************)
\* Microseconds per tick, as both functions compute it.
TickMicros == ALT_US \div TickRate

\* What settimeofday subtracts: a product of two alt_u32.
MicrosSubtracted == ((nticks * TickMicros) % Wrap) % ALT_US

\* Mutant of SetTimeOfDay: it forgets the ticks already counted.
SetTimeOfDayRaw(t) ==
    /\ ~ticking
    /\ resettime' = t
    /\ setting' = t /\ elapsed' = 0
    /\ UNCHANGED alarmVars

\* settimeofday, from the program.  The counter is read once, at its start.
SetTimeOfDay(t) ==
    /\ ~ticking
    /\ resettime' = [tv_sec |-> t.tv_sec - nticks \div TickRate,
                     tv_usec |-> t.tv_usec - MicrosSubtracted]
    /\ setting' = t /\ elapsed' = 0
    /\ UNCHANGED alarmVars

\* What gettimeofday would return.  Its product is one of 64 bits.  The
\* microseconds before they are normalised lie between -ALT_US and 2 * ALT_US,
\* so each loop of the code runs once at most.
TimeOfDay ==
    LET sec == resettime.tv_sec + nticks \div TickRate
        usec == resettime.tv_usec + ((nticks * TickMicros) % ALT_US)
    IN  CASE usec < 0 /\ sec <= 0 -> [tv_sec |-> 0, tv_usec |-> 0]
          [] usec < 0 /\ sec > 0 -> [tv_sec |-> sec - 1, tv_usec |-> usec + ALT_US]
          [] usec >= ALT_US -> [tv_sec |-> sec + 1, tv_usec |-> usec - ALT_US]
          [] OTHER -> [tv_sec |-> sec, tv_usec |-> usec]
=============================================================================
