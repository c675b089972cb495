CONSTANTS Count = 3 MISSED_CHUNKS_TO_SEND = 2
    ChunkTimeout = 1 FlashTimeout = 8 ping_interval = 2 ping_timeout = 1
    MaxBlocked = 2 MaxCopies = 2 MaxStarts = 2
SPECIFICATION FairSpec
INVARIANTS TypeOK Whole TimerRuns
PROPERTIES ResetAfterAsking Ends
