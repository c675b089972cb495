SPECIFICATION FairSpec
CONSTANTS
    S = 3
    Values = {1}
    Cut = {}
INVARIANTS TypeOK RamAgrees SwapFits
PROPERTIES ImplementsMemory ComesBack
