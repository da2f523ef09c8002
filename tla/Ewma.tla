--------------------------------- MODULE Ewma ---------------------------------
(***************************************************************************)
(* ewma.rs in fixed point: one Ewma fed with a sequence of rates, of which *)
(* a few may be spikes.  EwmaEstimator keeps two per protocol, packets and *)
(* bits, and feeds both.                                                   *)
(*                                                                         *)
(* A number is a multiple of 1/UNIT, rounded towards zero; the variance is *)
(* a multiple of 1/UNIT^2.  EPSILON, 1e-9, is less than a unit and rounds  *)
(* to 0, so the window of the first sample closes altogether, where the    *)
(* code lets 3e-9 through.                                                 *)
(***************************************************************************)
EXTENDS Integers, FiniteSetsExt

CONSTANTS UNIT,
          alpha,                   \* smoothing factor, in tenths
          min_samples,
          Rates, Spikes,           \* usual and unusual observations
          MaxSamples, MaxSpikes    \* bounds on the length of a behaviour

ASSUME EwmaAssumption == /\ UNIT \in Nat \ {0}
                         /\ alpha \in 1..10
                         /\ Rates \cup Spikes \subseteq Nat
                         /\ {min_samples, MaxSamples, MaxSpikes} \subseteq Nat

VARIABLES mean, variance, mad, samples

\* History, for the properties only.
VARIABLES seen,    \* usual observations so far
          spikes   \* number of spikes so far

vars == <<mean, variance, mad, samples, seen, spikes>>

Init == /\ mean = 0 /\ variance = 0 /\ mad = 0 /\ samples = 0
        /\ seen = {} /\ spikes = 0

-----------------------------------------------------------------------------
Abs(x) == IF x < 0 THEN -x ELSE x

\* x * n / d, rounded towards zero.
Times(x, n, d) == IF x < 0 THEN -((-x * n) \div d) ELSE (x * n) \div d

sqrt(v) == CHOOSE r \in 0..v : r * r <= v /\ v < (r + 1) * (r + 1)

FaultVarianceOnly == Times(sqrt(variance), 1, 4)

\* max(1.4826 * MAD, 0.25 * stddev, EPSILON)
robust_stddev == Max({Times(mad, 1483, 1000), Times(sqrt(variance), 1, 4)})

FaultNoClip(delta, scale) == delta

\* clamp(-3 scale, 3 scale)
huber(delta, scale) == IF delta > 3 * scale THEN 3 * scale
                       ELSE IF delta < -3 * scale THEN -3 * scale
                       ELSE delta

\* Ewma::update: mean and variance take the bounded deviation, MAD the full one.
update(sample) ==
    LET delta   == sample - mean
        bounded == huber(delta, robust_stddev)
    IN  /\ samples' = samples + 1
        /\ mean' = mean + Times(bounded, alpha, 10)
        /\ variance' = Times(variance, 10 - alpha, 10) + Times(bounded * bounded, alpha, 10)
        /\ mad' = Times(mad, 10 - alpha, 10) + Times(Abs(delta), alpha, 10)

Observe(rate) == /\ samples < MaxSamples
                 /\ update(rate * UNIT)
                 /\ seen' = seen \cup {rate}
                 /\ UNCHANGED spikes

Spike(rate) == /\ samples < MaxSamples /\ spikes < MaxSpikes
               /\ update(rate * UNIT)
               /\ spikes' = spikes + 1
               /\ UNCHANGED seen

Next == \/ \E rate \in Rates : Observe(rate)
        \/ \E rate \in Spikes : Spike(rate)

Spec == Init /\ [][Next]_vars

-----------------------------------------------------------------------------
\* A baseline starts at zero and the window of its first sample is closed; still
\* it has found the traffic when it has min_samples, the least with which it may
\* be scored: the mean is at least half the smallest rate, spikes or not.
ReadyKnowsTraffic ==
    samples >= min_samples /\ seen # {} => 2 * mean >= Min(seen) * UNIT

\* "preventing a single large spike from permanently skewing the baseline mean"
\* (ewma.rs:36): whenever it comes, even first, and however large it is, the mean
\* stays below twice the largest of the other rates.
SingleSpikeResisted ==
    spikes <= 1 => IF seen = {} THEN mean = 0 ELSE mean <= 2 * Max(seen) * UNIT
=============================================================================
