SPECIFICATION FairSpec
CONSTANTS
  NumWorkers = 3
  NumListeners = 2
INVARIANTS PendingIsExact StartupSeesWorkers CounterOutlivesCallers HandlerOutlivesPosts
PROPERTIES StartupIsNotified StopReturns
