CONSTANTS Others = {o1} AppSize = 1 SystemSize = 2 ISRSize = 1 MaxCalls = 2 MaxEvents = 1 MaxRequests = 2
SPECIFICATION FairSpec
INVARIANTS TypeOK RequestStable
PROPERTIES SyncReturns SystemRuns
CHECK_DEADLOCK FALSE
