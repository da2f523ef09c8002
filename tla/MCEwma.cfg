\* The default alpha of 0.4 and 5 samples; rates that vary by a factor of three,
\* and spikes of 10 and 500 times the largest.
CONSTANTS
    UNIT = 20
    alpha = 4
    min_samples = 5
    Rates = {10, 20, 30}
    Spikes = {300, 15000}
    MaxSamples = 7
    MaxSpikes = 1
SPECIFICATION Spec
INVARIANTS ReadyKnowsTraffic SingleSpikeResisted
CHECK_DEADLOCK FALSE
