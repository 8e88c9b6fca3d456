SPECIFICATION Spec
CONSTANTS
    InitialCapacity = 3
    Blank = Blank
    Streams <- MCStreams
INVARIANTS BufferHoldsStream DecodesStream NothingOverlooked
CHECK_DEADLOCK FALSE
