\* Two rules of one kind.
CONSTANTS
    Protos = {"tcp"}
    Rules <- RepeatedKind
    Signals <- SomeSignals
    Steps = {0, 2}
    MaxTicks = 6
SPECIFICATION Spec
PROPERTY FiresAfterConsecutiveTicks
CHECK_DEADLOCK FALSE
