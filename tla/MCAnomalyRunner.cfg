\* One protocol; the clock moves by 0 (a burst of late ticks) or 2 per event, so
\* that a cooldown may end between two evaluations; a baseline is ready at the
\* fourth of five.
CONSTANTS
    Protos = {"tcp"}
    Rules <- MCRules
    min_samples = 2
    min_elapsed_secs = 3
    ANOMALY_EVAL_INTERVAL = 1
    ZScores <- MCZScores
    Overloads <- MCOverloads
    Steps = {0, 2}
    MaxPolls = 5
    MaxTicks = 5
SPECIFICATION Spec
INVARIANTS TypeOK AlertsNeedWarmup
PROPERTIES LearnsExactlyWhenCalm WindowsTile ShownAsJudged
CHECK_DEADLOCK FALSE
