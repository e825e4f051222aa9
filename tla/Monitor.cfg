\* Slots of two ticks, two cron calls, one crash or other fault.
CONSTANTS
    Interval = 2
    RunOnStart = TRUE
    Early = 0
    TimerMax = 100
    MaxNow = 3
    MaxStarts = 2
    MaxSteps = 0
    MaxRuns = 5
    MaxTicks = 2
    MaxFaults = 1
SPECIFICATION FairMonitorSpec
INVARIANT MonitorTypeOK
PROPERTIES ImplementsSchedule OwedSlotsAreRecorded
\* The clock stops at MaxNow.
CHECK_DEADLOCK FALSE
