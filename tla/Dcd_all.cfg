CONSTANTS Length = 3 Values = {1}
SPECIFICATION Spec
INVARIANTS TypeOK PointerHolds
PROPERTIES ImplementsMemory
