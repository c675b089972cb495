SPECIFICATION FairSpec
CONSTANTS
    N = 1
    PotRaw = {0, 4095}
    Json <- MCJson
    Garbage <- MCGarbage
    Stack = {100, 65535}
    Initialised = {}
    MaxMessages = 2
INVARIANTS TypeOK TftExclusive ShownAgrees PrevTracks PotInRange
PROPERTIES ImplementsPanel GoesDark FollowsPot CommandShown
