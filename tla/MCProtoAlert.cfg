\* One protocol with both kinds of alert; the weak spike is not eligible.
CONSTANTS
    Protos = {"tcp"}
    Rules <- DistinctRules
    Signals <- SomeSignals
    Steps = {0, 2}
    MaxTicks = 6
SPECIFICATION Spec
INVARIANT FreezeMatchesHistory
PROPERTIES ImplementsContract FiresAfterConsecutiveTicks
CHECK_DEADLOCK FALSE
