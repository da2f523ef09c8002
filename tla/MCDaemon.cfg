\* One arm that reads and publishes (synflood and portscan do the same, anomaly
\* only lacks the read) and the one that does neither.  A nanosecond is a tenth of
\* a second here, and a u64 holds 4096 of them.
CONSTANTS
    ANOMALY_EVAL_SECS = 30
    NANOS = 10
    U64 = 4096
    ConfigPaths <- MCConfigPaths
    Clients = {c1, c2}
    Arms = {"stats", "mix"}
    ReadArms = {"stats"}
    PublishArms = {"stats"}
    SHUTDOWN_GRACE_PERIOD = 2
SPECIFICATION Spec
INVARIANTS TypeOK NeverPanics ShowsWhatIsInEffect ShutdownBounded
PROPERTIES SignalEndsProcess ArmsKeepRunning
CHECK_DEADLOCK FALSE
