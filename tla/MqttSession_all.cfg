SPECIFICATION FairSpec
CONSTANTS
    K = 3
    MaxDown = 3
INVARIANTS TypeOK Agreement OnePing SilenceBounded
PROPERTIES AskedBeforeStopped WorkerComesRound LossNoticed
