SPECIFICATION Spec
CONSTANTS
  Timers = {"oneshot", "periodic", "both", "bad", "submilli"}
  Asyncs = {}
  MaxLag = 2
  TicksPerMs = 2
  None = None
  Delay <- MCDelay
  Repeat <- MCRepeat
  Periods <- MCPeriods
  TimerSets <- MCTimerSets
  Workers = {}
  Codes = {}
  Signals = FALSE
  MaxSends = 0
INVARIANTS StoppedIsIdle
PROPERTIES OneShotNotEarly AllOrNone
