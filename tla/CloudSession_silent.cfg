CONSTANTS Count = 2 MISSED_CHUNKS_TO_SEND = 1
    ChunkTimeout = 1 FlashTimeout = 4 ping_interval = 5 ping_timeout = 3
    MaxBlocked = 2 MaxCopies = 1 MaxStarts = 1
SPECIFICATION FairSpec
PROPERTIES SilenceNoticed
