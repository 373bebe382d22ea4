SPECIFICATION Spec
CONSTANTS
    Alarm = {uart_alarm}
    ListHead = list_head
    UartAlarm = uart_alarm
    Wrap = 8
    MaxDelay = 2
    TickRate = 2
    ALT_US = 6
    ALT_MAX_FD = 6
    Device = {null, uart}
    Null = null
    NoDev = NoDev
    Uart = uart
    Setting <- MCSetting
    Services <- MCFiles
INVARIANTS
    LockIsExclusive
