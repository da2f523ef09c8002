\* Three sources and a map of two, so that an insert evicts; two sources can be
\* fast at once and only one is reported.
CONSTANTS
    IPs = {ip1, ip2, ip3}
    TopN = 1
    Timing <- MCTiming
    Steps = {1, 2}
    SYN_TRACKER_MAX_ENTRIES = 2
    max_syn_pps = 1
    MaxSyns = 5
    MaxReads = 3
SYMMETRY MCSymmetry
SPECIFICATION Spec
INVARIANTS TypeOK CountedOnce NothingMissed
PROPERTIES SignalsBacked FloodSeen
CHECK_DEADLOCK FALSE
