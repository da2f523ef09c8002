\* Two sources, two ports and a map of two: two sources may scan at once and
\* evict one another, and a touch leaves the window between two reads.
CONSTANTS
    IPs = {ip1, ip2}
    TopN = 1
    Timing <- MCTiming
    Steps = {0, 1}
    Ports = {p1, p2}
    PORT_SCAN_TRACKER_MAX_ENTRIES = 2
    max_distinct_ports = 0
    window = 1
    Lag = 1
    MaxTouches = 3
    MaxReads = 2
SYMMETRY MCSymmetry
SPECIFICATION Spec
INVARIANT TypeOK
PROPERTIES BreadthBacked ScanSeen
CHECK_DEADLOCK FALSE
