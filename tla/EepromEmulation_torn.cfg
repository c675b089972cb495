SPECIFICATION Spec
CONSTANTS
    S = 3
    Values = {1}
    Cut = {2}
PROPERTY ImplementsMemory
