\* What config.rs says of min_elapsed_secs: the fourth evaluation of four comes after
\* three intervals, by when two samples are in.
CONSTANTS
    Protos = {"tcp"}
    Rules <- MCRules
    min_samples = 2
    min_elapsed_secs = 4
    ANOMALY_EVAL_INTERVAL = 1
    ZScores <- MCZScores
    Overloads <- MCOverloads
    Steps = {0, 1}
    MaxPolls = 5
    MaxTicks = 5
SPECIFICATION Spec
PROPERTY ReadyAfterMinElapsed
CHECK_DEADLOCK FALSE
