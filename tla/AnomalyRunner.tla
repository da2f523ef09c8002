---------------------------- MODULE AnomalyRunner ----------------------------
(***************************************************************************)
(* pipeline/runner.rs with the main loop's stats poll that feeds it: the   *)
(* poll stores counters with the time they were read, or fails and leaves  *)
(* the old ones; every evaluation turns the counters of the last two       *)
(* evaluations into rates, the rates into signals, the signals into alerts,*)
(* feeds to the baseline the rates of the protocols that no alert freezes, *)
(* and shows the outcome in gauges and in the snapshot of /anomalies.      *)
(*                                                                         *)
(* A snapshot is its timestamp.  What the floating-point estimator makes   *)
(* of a rate is left open: an observation is any dominant z-score, and any *)
(* verdict of the absolute thresholds; whether a baseline's stddev reaches *)
(* min_stddev may change whenever it is fed.  How many samples and ticks   *)
(* the estimator has seen is kept.                                         *)
(***************************************************************************)
EXTENDS AlertLifecycleManager, Integers, FiniteSets

CONSTANTS min_samples,        \* samples before a baseline is ready
          min_elapsed_secs,   \* time before a baseline is ready
          ANOMALY_EVAL_INTERVAL,
          ZScores,            \* dominant z-scores, rounded towards zero
          Overloads,          \* EmergencyDetector: None, or a confidence
          Steps,              \* possible distances between two events
          MaxPolls, MaxTicks  \* bounds on the length of a behaviour

ASSUME RunnerAssumption == /\ {min_samples, min_elapsed_secs} \subseteq Nat
                           /\ ANOMALY_EVAL_INTERVAL \in Nat \ {0}
                           /\ ZScores \subseteq Int
                           /\ Overloads \subseteq Option(Confidence)
                           /\ Steps \subseteq Nat
                           /\ {MaxPolls, MaxTicks} \subseteq Nat

VARIABLES now,               \* time of the last event
          current_counters,  \* Option: timestamp of the last good poll
          prev_counters,     \* Option: snapshot of the last evaluation
          elapsed_ticks,     \* evaluations the estimator was told about
          samples,           \* samples[p]: rates of p it was fed
          spread,            \* spread[p]: both stddevs reach min_stddev
          warmed_up,         \* sticky flag behind /health
          last_rates,        \* protocols with a rate in the last evaluation
          z_now,             \* z_now[p]: the last rate of p against the baseline
          gauges,            \* what Prometheus scrapes
          api                \* Option: the snapshot behind /anomalies

\* History, for the properties only.
VARIABLES polls,      \* number of polls so far
          run,        \* run[k]: evaluations in a row with an eligible signal
          last_fire,  \* last_fire[k]: time of the last Fired event, if any
          covered     \* Option: time up to which traffic has become rates

estimatorVars == <<elapsed_ticks, samples, spread>>
runnerVars    == <<prev_counters, estimatorVars, warmed_up, last_rates, z_now, gauges, api>>
vars == <<slotVars, runnerVars, now, current_counters, polls, run, last_fire, covered>>

\* div_ceil: the estimator counts evaluations, not seconds.
min_elapsed_ticks ==
    (min_elapsed_secs + ANOMALY_EVAL_INTERVAL - 1) \div ANOMALY_EVAL_INTERVAL

RuledKeys == {k \in AlertKey : \E i \in DOMAIN Rules : Rules[i].kind = k.kind}

Init == /\ SlotsInit
        /\ now = 0
        /\ current_counters = {} /\ prev_counters = {}
        /\ elapsed_ticks = 0
        /\ samples = [p \in Protos |-> 0]
        /\ spread  = [p \in Protos |-> FALSE]
        /\ warmed_up = FALSE
        /\ last_rates = {}
        /\ z_now = [p \in Protos |-> 0]
        /\ gauges = [ready |-> {}, level |-> [p \in Protos |-> Normal],
                     frozen |-> {}, phase |-> <<>>]
        /\ api = {}
        /\ polls = 0
        /\ run  = [k \in RuledKeys |-> 0]
        /\ last_fire = [k \in RuledKeys |-> {}]
        /\ covered = {}

-----------------------------------------------------------------------------
(* Rates, readiness and detection. *)

\* dt_secs: no rates at all unless time has passed between the snapshots.
compute_rates(prev, curr) == IF curr > prev THEN Protos ELSE {}

FaultReadyTooSoon(p, elapsed) == /\ samples[p] + 1 >= min_samples
                                 /\ spread[p]
                                 /\ elapsed >= min_elapsed_ticks

\* EwmaEstimator::snapshot(p) is Ready.
Ready(p, elapsed) == /\ samples[p] >= min_samples
                     /\ spread[p]
                     /\ elapsed >= min_elapsed_ticks

Abs(z) == IF z < 0 THEN -z ELSE z

anomaly_level_from_z(z) == IF Abs(z) < 3 THEN Normal
                           ELSE IF Abs(z) < 6 THEN Suspicious ELSE Severe

\* EwmaDetector::detect.  The level and the confidence are those of the larger
\* of the two z-scores, the kind is its sign.
EwmaSignals(rates, z, elapsed) ==
    {[proto      |-> p,
      kind       |-> IF z[p] >= 0 THEN "Spike" ELSE "Drop",
      level      |-> anomaly_level_from_z(z[p]),
      confidence |-> IF Abs(z[p]) < 10 THEN Abs(z[p]) ELSE 10] :
        p \in {q \in rates : Ready(q, elapsed) /\ anomaly_level_from_z(z[q]) # Normal}}

\* EmergencyDetector::detect needs no baseline.
EmergencySignals(rates, over) ==
    UNION {{[proto |-> p, kind |-> "Emergency", level |-> Severe, confidence |-> c] :
              c \in over[p]} : p \in rates}

-----------------------------------------------------------------------------
(* What is shown.  Baseline, slots and time are those at hand: the operators *)
(* are evaluated after a tick, so a rate is scored against the baseline that *)
(* has just been fed with it, unless a freeze kept it out.                   *)

\* compute_anomaly_view: Normal while the baseline is warming.
compute_anomaly_view(p) ==
    IF Ready(p, elapsed_ticks) THEN anomaly_level_from_z(z_now[p]) ELSE Normal

\* AnomalyRunner::snapshot, per protocol.
RunnerSnapshot ==
    [p \in Protos |->
       [level  |-> IF p \in last_rates THEN {compute_anomaly_view(p)} ELSE {},
        ready  |-> Ready(p, elapsed_ticks),
        frozen |-> p \in frozen_protos(states, now),
        alerts |-> {[kind  |-> k.kind, phase |-> states[k].phase,
                     count |-> states[k].consecutive_count] :
                      k \in {x \in DOMAIN states : x.proto = p}}]]

\* GET /anomalies: no protocol before the first evaluation.
AnomaliesResponse ==
    UNION {{[proto |-> p, level |-> view[p].level, baseline_ready |-> view[p].ready,
             frozen |-> view[p].frozen, alerts |-> view[p].alerts] : p \in Protos} :
           view \in api}

\* update_baseline, update_anomaly and update_alerts: the level of a protocol
\* without a rate stays as it was, and the freeze is that of the counters' time.
UpdateGauges(rates, curr) ==
    gauges' = [ready  |-> {p \in Protos : Ready(p, elapsed_ticks)'},
               level  |-> [p \in Protos |-> IF p \in rates THEN compute_anomaly_view(p)'
                                                           ELSE gauges.level[p]],
               frozen |-> frozen_protos(states', curr),
               phase  |-> [k \in DOMAIN states' |-> states'[k].phase]]

-----------------------------------------------------------------------------
(* The main loop's poll. *)

Poll(ok, d) ==
    /\ polls < MaxPolls
    /\ polls' = polls + 1
    /\ now' = now + d
    /\ current_counters' = IF ok THEN {now + d} ELSE current_counters
    /\ UNCHANGED <<slotVars, runnerVars, run, last_fire, covered>>

-----------------------------------------------------------------------------
(* AnomalyRunner::tick. *)

FiredKeys == {KeyOf(e) : e \in {x \in events' : x.lifecycle = "Fired"}}

FaultFreezesBeforeTick(rates, t) == rates \ frozen_protos(states, t)

\* The protocols whose rates are fed to the baseline, from the slots as the
\* alert manager's tick leaves them.
Unfrozen(rates, t) == rates \ frozen_protos(states', t)

\* No counters yet, or none before these: nothing is evaluated.
Skip == /\ events' = {} /\ heartbeats' = {}
        /\ UNCHANGED <<states, samples, spread, warmed_up, last_rates, z_now, gauges,
                       run, last_fire, covered>>

FaultScoresAnew(fed, z) == z_now' \in [Protos -> ZScores]

\* Feeding a rate moves the baseline it will be shown against.
Rescore(fed, z) ==
    z_now' \in {f \in [Protos -> ZScores] : \A p \in Protos \ fed : f[p] = z[p]}

FaultWarmOnFirstRates(rates) == warmed_up' = (warmed_up \/ rates # {})

NoteWarmup(rates) == warmed_up' = (warmed_up \/ \E p \in rates : Ready(p, elapsed_ticks'))

\* The evaluation of the counters read at curr against those read at prev.
Evaluate(prev, curr, z, over, t) ==
    LET rates    == compute_rates(prev, curr)
        signals  == EwmaSignals(rates, z, elapsed_ticks') \cup EmergencySignals(rates, over)
        eligible == {KeyOf(s) : s \in collect_active(signals)}
    IN  /\ NoteWarmup(rates)
        /\ tick(signals, t)
        /\ samples' = [p \in Protos |-> IF p \in Unfrozen(rates, curr)
                                          THEN samples[p] + 1 ELSE samples[p]]
        /\ spread' \in {f \in [Protos -> BOOLEAN] :
                          \A p \in Protos \ Unfrozen(rates, curr) : f[p] = spread[p]}
        /\ last_rates' = rates
        /\ Rescore(Unfrozen(rates, curr), z)
        /\ UpdateGauges(rates, curr)
        /\ run' = [k \in RuledKeys |-> IF k \in eligible THEN run[k] + 1 ELSE 0]
        /\ last_fire' = [k \in RuledKeys |-> IF k \in FiredKeys THEN {t} ELSE last_fire[k]]
        /\ covered' = IF rates = {} THEN covered ELSE {curr}

FaultKeepsFirst(current, prev) == IF prev = {} THEN current ELSE prev

\* prime_or_diff: the snapshot it leaves in prev.
Rotated(current, prev) == IF current = {} THEN prev ELSE current

\* The interval ticks for the k-th time k - 1 periods after the first, or later.
TickDue(t) == t >= elapsed_ticks * ANOMALY_EVAL_INTERVAL

Tick(z, over, d) ==
    /\ elapsed_ticks < MaxTicks
    /\ TickDue(now + d)
    /\ elapsed_ticks' = elapsed_ticks + 1
    /\ now' = now + d
    /\ prev_counters' = Rotated(current_counters, prev_counters)
    /\ \/ current_counters = {} /\ Skip
       \/ current_counters # {} /\ prev_counters = {} /\ Skip
       \/ \E curr \in current_counters, prev \in prev_counters :
             Evaluate(prev, curr, z, over, now + d)
    /\ api' = {RunnerSnapshot'}
    /\ UNCHANGED <<current_counters, polls>>

Next == \/ \E ok \in BOOLEAN, d \in Steps : Poll(ok, d)
        \/ \E z \in [Protos -> ZScores], over \in [Protos -> Overloads], d \in Steps :
              Tick(z, over, d)

Spec == Init /\ [][Next]_vars

-----------------------------------------------------------------------------
\* Some protocol has been fed, and enough evaluations have passed, for its
\* baseline to have been ready once.
Warmed == /\ elapsed_ticks >= min_elapsed_ticks
          /\ \E p \in Protos : samples[p] >= min_samples

\* Every variable has its type, and the flag behind /health, which nothing takes
\* back, is only up if a baseline has been ready.
TypeOK == /\ SlotsTypeOK
          /\ now \in Nat
          /\ {current_counters, prev_counters, covered} \subseteq Option(0..now)
          /\ elapsed_ticks \in 0..MaxTicks
          /\ samples \in [Protos -> Nat]
          /\ spread \in [Protos -> BOOLEAN]
          /\ warmed_up \in BOOLEAN
          /\ warmed_up => Warmed
          /\ last_rates \subseteq Protos
          /\ z_now \in [Protos -> Int]
          /\ gauges.level \in [Protos -> AnomalyLevel]
          /\ {gauges.ready, gauges.frozen} \subseteq SUBSET Protos
          /\ \A view \in api : DOMAIN view = Protos
          /\ polls \in 0..MaxPolls
          /\ run \in [RuledKeys -> Nat]
          /\ last_fire \in [RuledKeys -> Option(Nat)]

Evaluated == elapsed_ticks' # elapsed_ticks

\* The freezing alerts of p that are building up, open, or were Fired less than
\* a cooldown before t, told from the history after a step.
Disturbed(p, t) ==
    \E k \in RuledKeys :
       /\ k.proto = p
       /\ FindRule(k.kind).freezes_baseline
       /\ \/ run'[k] > 0
          \/ k \in DOMAIN states' /\ is_firing(states'[k])
          \/ \E f \in last_fire'[k] : duration_since(t, f) < FindRule(k.kind).cooldown

\* The baseline learns a rate of p exactly when there is one and no freezing
\* alert of p disturbs it: an attack is not learned from its first eligible
\* signal until a cooldown after it was Fired, and learning then resumes.
\* Judging the cooldown at the time of the counters, which is earlier than the
\* time of the evaluation, never lets a disturbed rate in.
LearnsExactlyWhenCalm ==
    [][Evaluated =>
         \A p \in Protos :
            /\ samples'[p] > samples[p] => ~Disturbed(p, now')
            /\ samples'[p] > samples[p] <=>
                 /\ covered' # covered
                 /\ \A curr \in current_counters : ~Disturbed(p, curr)]_vars

\* A Spike or Drop slot comes to life only after its protocol's warm-up, and not
\* before /health reports it: the alert manager never sees an untrained baseline.
AlertsNeedWarmup ==
    \A k \in DOMAIN states :
       k.kind \in {"Spike", "Drop"} => /\ samples[k.proto] >= min_samples
                                       /\ elapsed_ticks >= min_elapsed_ticks
                                       /\ warmed_up

\* Traffic is evaluated once: the rates of an evaluation start at the counters
\* where the last rates ended, and no traffic in between is skipped, whatever
\* polls failed and evaluations came to nothing.
WindowsTile ==
    [][covered' # covered =>
         /\ covered # {} => prev_counters = covered
         /\ covered' = current_counters]_vars

\* What is shown agrees with what was judged, although it is computed anew from
\* a baseline that may have moved: a Spike or Drop alert that was sent and
\* freezes its protocol appears in /anomalies and in the gauges with the level it
\* was sent with, in phase Firing and as frozen; and a protocol that was learned
\* from is not shown as frozen.
ShownAsJudged ==
    [][Evaluated /\ covered' # covered =>
         \A view \in AnomaliesResponse' :
            /\ \A e \in heartbeats' \cup {x \in events' : x.lifecycle = "Fired"} :
                  /\ e.proto = view.proto /\ e.kind # "Emergency"
                  /\ FindRule(e.kind).freezes_baseline
                  => /\ view.level = {e.level} /\ gauges'.level[e.proto] = e.level
                     /\ \E a \in view.alerts : a.kind = e.kind /\ a.phase = "Firing"
                     /\ view.frozen /\ e.proto \in gauges'.frozen
            /\ samples'[view.proto] > samples[view.proto] => ~view.frozen]_vars

\* "Minimum elapsed seconds from start before the baseline is ready."
\* (config.rs:41): no protocol is scored before.
ReadyAfterMinElapsed ==
    [][Evaluated => \A p \in Protos :
         Ready(p, elapsed_ticks') => now' >= min_elapsed_secs]_vars
=============================================================================
