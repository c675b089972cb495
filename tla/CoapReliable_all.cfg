CONSTANTS Messages = {m1, m2} Requests = {r1} MAX_RETRANSMIT = 1 ACK_TIMEOUT = 1 MAX_TRANSMIT_SPAN = 2 Window = 2
SPECIFICATION FairSpec
INVARIANTS TypeOK AtMostOnce AnswerKept NoSilentLoss SyncTruth
PROPERTIES Settles Returns
