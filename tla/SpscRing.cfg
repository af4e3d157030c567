SPECIFICATION Spec
CONSTANTS
    Capacity = 3
    Values = {a, b}
    NoValue = NoValue
    Torn = Torn
    MaxPosition = 7
INVARIANTS NoSlotIsShared
PROPERTY IsFifo
