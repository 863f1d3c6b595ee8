SPECIFICATION FairSpec
CONSTANTS
  Timers = {"tmr_network_connected_cached", "application_timer"}
  Asyncs = {"a"}
  MaxLag = 2
  Main = Main
  Workers = {w1, w2}
  Callers = {Main, w1, w2}
  CacheTime = 2
  AppPeriod = 1
  NULL = NULL
INVARIANTS CacheHasAnEnd NoTransferBeforeInit
PROPERTY CacheExpires
