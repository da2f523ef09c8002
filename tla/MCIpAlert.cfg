\* Three sources, at most one signalled per tick, so that one goes quiet while
\* the other is loud; a step of 0 is a burst of late ticks, a step of 2 leaves
\* the cooldown of 3 in two steps.
CONSTANTS
    IPs = {ip1, ip2, ip3}
    TopN = 1
    Cooldown = 3
    ConsecutiveThreshold = 2
    ResolveConsecutiveThreshold = 2
    Timing <- MCTiming
    Steps = {0, 2}
    MaxTicks = 8
SYMMETRY MCSymmetry
SPECIFICATION Spec
INVARIANTS TypeOK TrackedForAReason HistoryExplains
PROPERTIES CooldownSurvivesGC ImplementsContract
CHECK_DEADLOCK FALSE
