SPECIFICATION Spec
CONSTANTS
  NumWorkers = 2
  NumListeners = 1
INVARIANT NumConnectionsIsSafe
