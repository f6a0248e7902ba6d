CONSTANTS
    w1 = w1
    w2 = w2
    Writer = {w1, w2}
    Batch <- Batches
    Nil = Nil
    MaxLength = 4
    MaxStops = 1
SPECIFICATION Spec
INVARIANTS
    SlotsBelowLength
CHECK_DEADLOCK FALSE
