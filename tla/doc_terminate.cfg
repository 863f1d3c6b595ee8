SPECIFICATION FairSpec
CONSTANTS
  Timers = {"oneshot"}
  Asyncs = {"a"}
  MaxLag = 2
  TicksPerMs = 2
  None = None
  Delay <- MCDelay
  Repeat <- MCRepeat
  Periods <- NoPeriods
  TimerSets <- NoTimerSets
  Workers = {}
  Codes = {}
  Signals = TRUE
  MaxSends = 0
PROPERTIES TerminationEndsLoop
CHECK_DEADLOCK FALSE
