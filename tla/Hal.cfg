SPECIFICATION FairSpec
CONSTANTS
    Alarm = {uart_alarm, a1, a2}
    ListHead = list_head
    UartAlarm = uart_alarm
    Wrap = 8
    MaxDelay = 2
    TickRate = 2
    ALT_US = 6
    ALT_MAX_FD = 6
    Device = {null, uart, other}
    Null = null
    NoDev = NoDev
    Uart = uart
    Setting <- MCSetting
    Services <- MCServices
INVARIANTS
    TypeOK
    FiresOnTime
    NoneOverdue
    TimeIsKept
    MarkCoversUsed
    OneLocker
PROPERTIES
    LedAstrayByStopOfNext
    AlarmsFire
    LockHolds
