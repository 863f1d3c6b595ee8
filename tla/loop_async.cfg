SPECIFICATION FairSpec
CONSTANTS
  Timers = {"periodic"}
  Asyncs = {"a"}
  MaxLag = 1
  TicksPerMs = 2
  None = None
  Delay <- MCDelay
  Repeat <- MCRepeat
  Periods <- NoPeriods
  TimerSets <- NoTimerSets
  Workers = {"w1","w2"}
  Codes = {7, 300}
  Signals = TRUE
  MaxSends = 2
PROPERTIES DataIsSeen TimerEndsTermination CodeBeforeStop
INVARIANT TypeOK
