\* What metrics.rs says of xdp_portscan_active_alerts: one tick fires, the next one
\* resolves, and the entry stays until its cooldown is over.
CONSTANTS
    IPs = {ip1}
    TopN = 1
    Timing <- MCQuickTiming
    Steps = {1}
    Ports = {p1, p2}
    PORT_SCAN_TRACKER_MAX_ENTRIES = 2
    max_distinct_ports = 0
    window = 1
    Lag = 1
    MaxTouches = 2
    MaxReads = 4
SPECIFICATION Spec
INVARIANT GaugeCountsOpenAlerts
CHECK_DEADLOCK FALSE
