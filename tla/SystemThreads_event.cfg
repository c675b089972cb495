CONSTANTS Others = {o1} AppSize = 2 SystemSize = 1 ISRSize = 1 MaxCalls = 1 MaxEvents = 2 MaxRequests = 0
SPECIFICATION Spec
PROPERTIES EventIntact
CHECK_DEADLOCK FALSE
