----------------------------- MODULE RunnerProofs -----------------------------
(***************************************************************************)
(* Proofs about the anomaly pipeline, for every set of protocols, every    *)
(* list of rules, all z-scores and every timing of polls and evaluations.  *)
(*                                                                         *)
(* H is the alert manager that the pipeline owns: what ProtoAlertProofs    *)
(* says about one tick of it holds of the tick in an evaluation.           *)
(***************************************************************************)
EXTENDS AnomalyRunner, TLAPS

H == INSTANCE ProtoAlertProofs WITH
       Signals <- AlertSignal, ticks <- elapsed_ticks, quiet <- run

-----------------------------------------------------------------------------
(* The alert manager of the pipeline. *)

LEMMA ManagerAssumptions == H!RulesAssumption /\ H!ProtoHistoryAssumption
  BY RulesAssumption, RunnerAssumption
     DEF H!RulesAssumption, H!ProtoHistoryAssumption, H!AlertRule, AlertRule,
         H!AlertKind, AlertKind, H!AnomalyLevel, AnomalyLevel, H!Confidence, Confidence,
         H!AlertSignal, AlertSignal

LEMMA SameSlots ==
  /\ H!AlertSlot = AlertSlot
  /\ H!New = New
  /\ \A s : H!is_firing(s) <=> is_firing(s)
  /\ \A now1, f : H!duration_since(now1, f) = duration_since(now1, f)
  /\ \A s, t, c : H!is_hot(s, t, c) <=> is_hot(s, t, c)
<1>1. H!AlertSlot = AlertSlot
  BY DEF H!AlertSlot, AlertSlot, H!AlertPhase, AlertPhase, H!Option, Option
<1>2. H!New = New
  BY DEF H!New, New
<1>3. \A s : H!is_firing(s) <=> is_firing(s)
  BY DEF H!is_firing, is_firing
<1>4. \A now1, f : H!duration_since(now1, f) = duration_since(now1, f)
  BY DEF H!duration_since, duration_since
<1>5. \A s, t, c : H!is_hot(s, t, c) <=> is_hot(s, t, c)
  BY <1>4 DEF H!is_hot, is_hot
<1> QED BY <1>1, <1>2, <1>3, <1>4, <1>5

LEMMA SameSignals ==
  /\ H!AlertSignal = AlertSignal
  /\ H!RuledKeys = RuledKeys
  /\ \A s : H!KeyOf(s) = KeyOf(s)
  /\ \A kind : H!FindRule(kind) = FindRule(kind)
  /\ \A S : H!collect_active(S) = collect_active(S)
  /\ \A S : H!EligibleKeys(S) = {KeyOf(s) : s \in collect_active(S)}
<1>1. H!AlertSignal = AlertSignal
  BY DEF H!AlertKind, AlertKind, H!AnomalyLevel, AnomalyLevel, H!Confidence, Confidence,
         H!AlertSignal, AlertSignal
<1>2. H!RuledKeys = RuledKeys
  BY DEF H!RuledKeys, RuledKeys, H!AlertKey, AlertKey, H!AlertKind, AlertKind
<1>3. \A s : H!KeyOf(s) = KeyOf(s)
  BY DEF H!KeyOf, KeyOf
<1>4. \A kind : H!FindRule(kind) = FindRule(kind)
  BY DEF H!FindRule, FindRule
<1>5. \A S : H!collect_active(S) = collect_active(S)
  BY DEF H!collect_active, collect_active, H!Eligible, Eligible
<1>6. \A S : H!EligibleKeys(S) = {KeyOf(s) : s \in collect_active(S)}
  BY <1>3, <1>5 DEF H!EligibleKeys
<1> QED BY <1>1, <1>2, <1>3, <1>4, <1>5, <1>6

LEMMA SameTick ==
  ASSUME NEW s, NEW t
  PROVE  H!tick(s, t) <=> tick(s, t)
<1>1. H!collect_active(s) = collect_active(s)
  BY SameSignals
<1>2. H!advance_states(s, t) = advance_states(s, t)
  BY <1>1 DEF H!advance_states, advance_states, H!ApplyRule, ApplyRule, H!KeyOf, KeyOf,
     H!New, New, H!advance, advance, H!Lifecycle, Lifecycle, H!is_firing, is_firing,
     H!AlertOf, AlertOf, H!ResolvedOf, ResolvedOf, H!AdvanceInactive, AdvanceInactive,
     H!AdvancePending, AdvancePending, H!AdvanceFiring, AdvanceFiring, H!try_fire, try_fire,
     H!reset, reset, H!cooldown_passed, cooldown_passed, H!duration_since, duration_since
<1> QED BY <1>2 DEF H!tick, tick

LEMMA SameTypes == (H!SlotsTypeOK <=> SlotsTypeOK) /\ (H!SlotsTypeOK' <=> SlotsTypeOK')
<1>1. /\ H!AlertKey = AlertKey
      /\ H!AlertEvent = AlertEvent
  BY DEF H!AlertKey, AlertKey, H!AlertEvent, AlertEvent, H!AlertKind, AlertKind,
         H!AnomalyLevel, AnomalyLevel, H!Confidence, Confidence,
         H!AlertLifecycle, AlertLifecycle
<1> QED BY <1>1, SameSlots, SameSignals DEF H!SlotsTypeOK, SlotsTypeOK

-----------------------------------------------------------------------------
(* The signals of an evaluation. *)

AllSignals(rates, z, over, elapsed) ==
    EwmaSignals(rates, z, elapsed) \cup EmergencySignals(rates, over)

\* The detectors yield well-typed signals of protocols that have a rate; those
\* that are scored against a baseline are about a protocol whose baseline is
\* ready, and carry the level of its z-score.
LEMMA SignalTypes ==
  ASSUME NEW rates \in SUBSET Protos, NEW z \in [Protos -> ZScores],
         NEW over \in [Protos -> Overloads], NEW elapsed,
         NEW s \in AllSignals(rates, z, over, elapsed)
  PROVE  /\ s \in AlertSignal
         /\ s.proto \in rates
         /\ s.kind # "Emergency" => /\ Ready(s.proto, elapsed)
                                    /\ s.level = anomaly_level_from_z(z[s.proto])
<1>1. CASE s \in EwmaSignals(rates, z, elapsed)
  <2>1. PICK p \in rates :
           /\ Ready(p, elapsed)
           /\ s = [proto      |-> p,
                   kind       |-> IF z[p] >= 0 THEN "Spike" ELSE "Drop",
                   level      |-> anomaly_level_from_z(z[p]),
                   confidence |-> IF Abs(z[p]) < 10 THEN Abs(z[p]) ELSE 10]
    BY <1>1 DEF EwmaSignals
  <2>2. p \in Protos /\ z[p] \in Int
    BY RunnerAssumption
  <2>3. Abs(z[p]) \in Nat
    BY <2>2 DEF Abs
  <2>4. s.confidence \in Confidence
    BY <2>1, <2>3 DEF Confidence
  <2>5. s.level \in AnomalyLevel
    BY <2>1 DEF anomaly_level_from_z, AnomalyLevel, Normal, Suspicious, Severe
  <2>6. s.kind \in AlertKind
    BY <2>1 DEF AlertKind
  <2>7. s.proto = p /\ s.level = anomaly_level_from_z(z[p])
    BY <2>1
  <2>8. s \in AlertSignal
    <3> DEFINE l == anomaly_level_from_z(z[p])
               c == IF Abs(z[p]) < 10 THEN Abs(z[p]) ELSE 10
               k == IF z[p] >= 0 THEN "Spike" ELSE "Drop"
    <3>1. /\ s = [proto |-> p, kind |-> k, level |-> l, confidence |-> c]
          /\ k \in AlertKind /\ l \in AnomalyLevel /\ c \in Confidence
      BY <2>1, <2>4, <2>5, <2>6
    <3> HIDE DEF l, c, k
    <3> QED BY <2>2, <3>1 DEF AlertSignal
  <2> QED BY <2>1, <2>7, <2>8
<1>2. CASE s \in EmergencySignals(rates, over)
  <2>1. PICK p \in rates : \E c \in over[p] :
           s = [proto |-> p, kind |-> "Emergency", level |-> Severe, confidence |-> c]
    BY <1>2 DEF EmergencySignals
  <2>2. PICK c \in over[p] :
           s = [proto |-> p, kind |-> "Emergency", level |-> Severe, confidence |-> c]
    BY <2>1
  <2>3. c \in Confidence
    BY <2>2, RunnerAssumption DEF Option
  <2> QED BY <2>2, <2>3 DEF AlertSignal, AlertKind, AnomalyLevel, Severe
<1> QED BY <1>1, <1>2 DEF AllSignals

\* Rates come for all protocols or for none.
LEMMA RateTypes ==
  ASSUME NEW prev, NEW curr
  PROVE  compute_rates(prev, curr) \in SUBSET Protos
  BY DEF compute_rates

\* Every protocol that frozen_protos names is one.
LEMMA FrozenTypes ==
  ASSUME NEW slots, NEW t, \A k \in DOMAIN slots : k \in AlertKey
  PROVE  frozen_protos(slots, t) \subseteq Protos
  BY DEF frozen_protos, AlertKey

-----------------------------------------------------------------------------
(* Type correctness. *)

LEMMA TypeInit == Init => TypeOK
<1> SUFFICES ASSUME Init PROVE TypeOK
  OBVIOUS
<1>1. SlotsTypeOK
  BY DEF Init, SlotsInit, SlotsTypeOK
<1>2. /\ now \in Nat
      /\ {current_counters, prev_counters, covered} \subseteq Option(0..now)
      /\ elapsed_ticks \in 0..MaxTicks /\ polls \in 0..MaxPolls
  BY RunnerAssumption DEF Init, Option
<1>3. /\ samples \in [Protos -> Nat] /\ spread \in [Protos -> BOOLEAN]
      /\ last_rates \subseteq Protos /\ z_now \in [Protos -> Int]
  BY DEF Init
<1>3a. warmed_up \in BOOLEAN /\ ~warmed_up
  BY DEF Init
<1>4. /\ gauges.level \in [Protos -> AnomalyLevel]
      /\ {gauges.ready, gauges.frozen} \subseteq SUBSET Protos
      /\ \A view \in api : DOMAIN view = Protos
  BY DEF Init, AnomalyLevel, Normal
<1>5. /\ run \in [RuledKeys -> Nat]
      /\ last_fire \in [RuledKeys -> Option(Nat)]
  BY DEF Init, Option
<1> QED BY <1>1, <1>2, <1>3, <1>3a, <1>4, <1>5 DEF TypeOK

LEMMA TypePoll ==
  ASSUME TypeOK, NEW ok \in BOOLEAN, NEW d \in Steps, Poll(ok, d)
  PROVE  TypeOK'
<1>1. now \in Nat /\ d \in Nat /\ now + d \in Nat /\ now' = now + d /\ 0..now \subseteq 0..now'
  BY RunnerAssumption DEF TypeOK, Poll
<1>2. polls' \in 0..MaxPolls
  BY RunnerAssumption DEF TypeOK, Poll
<1>3. {current_counters', prev_counters', covered'} \subseteq Option(0..now')
  <2>1. Option(0..now) \subseteq Option(0..now') /\ {now + d} \in Option(0..now')
    BY <1>1 DEF Option
  <2> QED BY <2>1 DEF Poll, runnerVars, TypeOK
<1>4. SlotsTypeOK'
  BY DEF Poll, slotVars, TypeOK, SlotsTypeOK
<1>5. warmed_up' => Warmed'
  BY DEF Poll, TypeOK, runnerVars, estimatorVars, Warmed, min_elapsed_ticks
<1> QED BY <1>1, <1>2, <1>3, <1>4, <1>5 DEF Poll, TypeOK, runnerVars, estimatorVars

\* An evaluation takes nothing back of what raised the flag, and raises it only
\* for a protocol whose baseline is ready.
LEMMA WarmedTick ==
  ASSUME TypeOK, NEW rates \in SUBSET Protos, NoteWarmup(rates),
         elapsed_ticks' = elapsed_ticks + 1,
         \A p \in Protos : samples'[p] \in Nat /\ samples'[p] >= samples[p]
  PROVE  warmed_up' => Warmed'
<1> SUFFICES ASSUME warmed_up' PROVE Warmed'
  OBVIOUS
<1>1. elapsed_ticks \in Nat /\ min_elapsed_ticks' = min_elapsed_ticks
  BY RunnerAssumption DEF TypeOK, min_elapsed_ticks
<1>2. min_elapsed_ticks \in Int /\ min_samples \in Nat
  BY RunnerAssumption DEF min_elapsed_ticks
<1>3. CASE warmed_up
  <2>1. elapsed_ticks >= min_elapsed_ticks
    BY <1>3 DEF TypeOK, Warmed
  <2>2. PICK p \in Protos : samples[p] >= min_samples
    BY <1>3 DEF TypeOK, Warmed
  <2> HIDE DEF min_elapsed_ticks
  <2>3. elapsed_ticks' >= min_elapsed_ticks'
    BY <1>1, <1>2, <2>1
  <2>4. samples[p] \in Nat
    BY DEF TypeOK
  <2>5. samples'[p] >= min_samples
    BY <1>2, <2>2, <2>4
  <2> QED BY <2>3, <2>5 DEF Warmed
<1>4. CASE ~warmed_up
  <2>1. PICK p \in rates : Ready(p, elapsed_ticks')
    BY <1>4 DEF NoteWarmup
  <2>2. p \in Protos /\ samples[p] \in Nat
    BY DEF TypeOK
  <2>3. elapsed_ticks' >= min_elapsed_ticks' /\ samples[p] >= min_samples
    BY <1>1, <2>1 DEF Ready
  <2>4. samples'[p] >= min_samples
    BY <1>2, <2>2, <2>3
  <2> QED BY <2>2, <2>3, <2>4 DEF Warmed
<1> QED BY <1>3, <1>4

\* What an evaluation, or a tick without one, leaves of everything but clocks.
LEMMA TypeEvaluate ==
  ASSUME TypeOK, NEW t \in Nat, NEW z \in [Protos -> ZScores],
         NEW over \in [Protos -> Overloads],
         NEW curr \in Nat, NEW prev \in Nat, Evaluate(prev, curr, z, over, t),
         elapsed_ticks' = elapsed_ticks + 1
  PROVE  /\ SlotsTypeOK'
         /\ samples' \in [Protos -> Nat]
         /\ spread' \in [Protos -> BOOLEAN]
         /\ warmed_up' \in BOOLEAN
         /\ warmed_up' => Warmed'
         /\ last_rates' \subseteq Protos
         /\ z_now' \in [Protos -> Int]
         /\ gauges'.level \in [Protos -> AnomalyLevel]
         /\ {gauges'.ready, gauges'.frozen} \subseteq SUBSET Protos
         /\ run' \in [RuledKeys -> Nat]
         /\ last_fire' \in [RuledKeys -> Option(Nat)]
<1> DEFINE rates == compute_rates(prev, curr)
           signals == AllSignals(rates, z, over, elapsed_ticks')
<1>1. rates \in SUBSET Protos
  BY RateTypes
<1>2. signals \in SUBSET AlertSignal
  BY <1>1, SignalTypes
<1>3. tick(signals, t)
  BY DEF Evaluate, AllSignals
<1>4. SlotsTypeOK'
  <2>1. SlotsTypeOK
    BY DEF TypeOK
  <2> HIDE DEF signals
  <2> QED BY <1>2, <1>3, <2>1, SameTick, SameTypes, SameSignals, ManagerAssumptions,
             H!TickKeepsType
<1>5. samples' \in [Protos -> Nat]
  BY DEF Evaluate, TypeOK
<1>6. /\ spread' \in [Protos -> BOOLEAN]
      /\ last_rates' \subseteq Protos
      /\ z_now' \in [Protos -> Int]
  BY <1>1, RunnerAssumption DEF Evaluate, Rescore
<1>7. warmed_up' \in BOOLEAN
  BY DEF Evaluate, NoteWarmup, TypeOK
<1>7a. warmed_up' => Warmed'
  <2>1. \A p \in Protos : samples'[p] \in Nat /\ samples'[p] >= samples[p]
    BY DEF Evaluate, TypeOK
  <2> QED BY <1>1, <2>1, WarmedTick DEF Evaluate
<1>8. gauges'.level \in [Protos -> AnomalyLevel]
  <2>1. gauges'.level = [p \in Protos |-> IF p \in rates THEN compute_anomaly_view(p)'
                                                         ELSE gauges.level[p]]
    BY DEF Evaluate, UpdateGauges
  <2>2. \A p : compute_anomaly_view(p)' \in AnomalyLevel
    BY DEF compute_anomaly_view, anomaly_level_from_z, AnomalyLevel, Normal, Suspicious, Severe
  <2> QED BY <2>1, <2>2 DEF TypeOK
<1>9. {gauges'.ready, gauges'.frozen} \subseteq SUBSET Protos
  <2>1. gauges'.ready = {p \in Protos : Ready(p, elapsed_ticks)'}
        /\ gauges'.frozen = frozen_protos(states', curr)
    BY DEF Evaluate, UpdateGauges
  <2>2. frozen_protos(states', curr) \subseteq Protos
    BY <1>4, FrozenTypes DEF SlotsTypeOK
  <2> QED BY <2>1, <2>2
<1>10. run' \in [RuledKeys -> Nat]
  BY DEF Evaluate, TypeOK
<1>11. last_fire' \in [RuledKeys -> Option(Nat)]
  <2>1. {t} \in Option(Nat)
    BY DEF Option
  <2> QED BY <2>1 DEF Evaluate, TypeOK
<1> QED BY <1>4, <1>5, <1>6, <1>7, <1>7a, <1>8, <1>9, <1>10, <1>11

LEMMA TypeTick ==
  ASSUME TypeOK, NEW z \in [Protos -> ZScores], NEW over \in [Protos -> Overloads],
         NEW d \in Steps, Tick(z, over, d)
  PROVE  TypeOK'
<1>1. now \in Nat /\ d \in Nat /\ now + d \in Nat /\ now' = now + d /\ 0..now \subseteq 0..now'
  BY RunnerAssumption DEF TypeOK, Tick
<1>2. elapsed_ticks' \in 0..MaxTicks /\ polls' \in 0..MaxPolls
  BY RunnerAssumption DEF TypeOK, Tick
<1>3. \A view \in api' : DOMAIN view = Protos
  <2>1. api' = {RunnerSnapshot'}
    BY DEF Tick
  <2>2. DOMAIN RunnerSnapshot' = Protos
    BY DEF RunnerSnapshot
  <2> QED BY <2>1, <2>2
<1>4. Option(0..now) \subseteq Option(0..now')
  BY <1>1 DEF Option
<1>5. {current_counters', prev_counters'} \subseteq Option(0..now')
  BY <1>4 DEF Tick, Rotated, TypeOK
<1>6. \A curr \in current_counters : curr \in Nat /\ curr <= now
  BY <1>1 DEF TypeOK, Option
<1>7. \A prev \in prev_counters : prev \in Nat
  BY <1>1 DEF TypeOK, Option
<1>8. CASE Skip
  <2>1. covered' \in Option(0..now')
    BY <1>4, <1>8 DEF Skip, TypeOK
  <2>2. SlotsTypeOK'
    BY <1>8 DEF Skip, TypeOK, SlotsTypeOK
  <2>3. /\ samples' = samples /\ spread' = spread /\ warmed_up' = warmed_up
        /\ last_rates' = last_rates /\ z_now' = z_now /\ gauges' = gauges
        /\ run' = run /\ last_fire' = last_fire
    BY <1>8 DEF Skip
  <2>4. elapsed_ticks \in Nat /\ elapsed_ticks' = elapsed_ticks + 1
    BY DEF TypeOK, Tick
  <2>5. warmed_up' => Warmed'
    <3>1. ~warmed_up \/ (elapsed_ticks >= min_elapsed_ticks)
      BY DEF TypeOK, Warmed
    <3>2. min_elapsed_ticks' = min_elapsed_ticks /\ min_elapsed_ticks \in Int
      BY RunnerAssumption DEF min_elapsed_ticks
    <3>3. warmed_up => \E p \in Protos : samples'[p] >= min_samples
      BY <2>3 DEF TypeOK, Warmed
    <3> HIDE DEF min_elapsed_ticks
    <3>4. warmed_up => elapsed_ticks' >= min_elapsed_ticks'
      BY <2>4, <3>1, <3>2
    <3> QED BY <2>3, <3>3, <3>4 DEF Warmed
  <2> QED BY <1>1, <1>2, <1>3, <1>5, <2>1, <2>2, <2>3, <2>5 DEF TypeOK, RuledKeys, AlertKey
<1>9. CASE \E curr \in current_counters, prev \in prev_counters :
              Evaluate(prev, curr, z, over, now + d)
  <2>1. PICK curr \in current_counters, prev \in prev_counters :
               Evaluate(prev, curr, z, over, now + d)
    BY <1>9
  <2>2. curr \in Nat /\ prev \in Nat /\ curr <= now'
    BY <1>1, <1>6, <1>7
  <2>3. covered' \in Option(0..now')
    <3>1. {curr} \in Option(0..now')
      BY <1>1, <2>2 DEF Option
    <3> QED BY <1>4, <2>1, <3>1 DEF Evaluate, TypeOK
  <2>4. /\ SlotsTypeOK'
        /\ samples' \in [Protos -> Nat]
        /\ spread' \in [Protos -> BOOLEAN]
        /\ warmed_up' \in BOOLEAN
        /\ warmed_up' => Warmed'
        /\ last_rates' \subseteq Protos
        /\ z_now' \in [Protos -> Int]
        /\ gauges'.level \in [Protos -> AnomalyLevel]
        /\ {gauges'.ready, gauges'.frozen} \subseteq SUBSET Protos
        /\ run' \in [RuledKeys -> Nat]
        /\ last_fire' \in [RuledKeys -> Option(Nat)]
    BY <1>1, <2>1, <2>2, TypeEvaluate DEF Tick
  <2> QED BY <1>1, <1>2, <1>3, <1>5, <2>3, <2>4 DEF TypeOK, RuledKeys, AlertKey
<1> QED BY <1>8, <1>9 DEF Tick

LEMMA TypeStep == TypeOK /\ [Next]_vars => TypeOK'
<1>1. TypeOK /\ Next => TypeOK'
  BY TypePoll, TypeTick DEF Next
<1>2. TypeOK /\ UNCHANGED vars => TypeOK'
  <2> SUFFICES ASSUME TypeOK, UNCHANGED vars PROVE TypeOK'
    OBVIOUS
  <2>1. warmed_up' => Warmed'
    BY DEF vars, runnerVars, estimatorVars, TypeOK, Warmed, min_elapsed_ticks
  <2> QED BY <2>1 DEF vars, slotVars, runnerVars, estimatorVars, TypeOK, SlotsTypeOK
<1> QED BY <1>1, <1>2

\* Counters, estimator, alert manager, gauges and snapshot are well typed in
\* every reachable state, whatever the rules.
THEOREM TypeCorrect == Spec => []TypeOK
  BY TypeInit, TypeStep, PTL DEF Spec

-----------------------------------------------------------------------------
(* Traffic is evaluated once. *)

\* The inductive invariant: counters only get newer, and rates reach up to the
\* counters that the next evaluation starts from.
Windows ==
    /\ current_counters = {} => prev_counters = {}
    /\ \A prev \in prev_counters, curr \in current_counters : prev <= curr
    /\ covered = {} \/ covered = prev_counters
    /\ Protos = {} => covered = {}

\* An evaluation with rates covers what is new, one without covers nothing.
LEMMA WindowsTick ==
  ASSUME TypeOK, Windows, NEW z, NEW over, NEW d \in Steps, Tick(z, over, d)
  PROVE  /\ Windows'
         /\ covered' # covered => /\ covered # {} => prev_counters = covered
                                  /\ covered' = current_counters
<1>1. /\ current_counters' = current_counters
      /\ prev_counters' = IF current_counters = {} THEN prev_counters ELSE current_counters
  BY DEF Tick, Rotated
<1>2. /\ \A x, y \in current_counters : x = y
      /\ \A x, y \in prev_counters : x = y
      /\ current_counters \subseteq Nat /\ prev_counters \subseteq Nat
  BY DEF TypeOK, Option
<1>3. CASE current_counters = {} /\ Skip
  BY <1>1, <1>3 DEF Windows, Skip
<1>4. CASE current_counters # {} /\ prev_counters = {} /\ Skip
  BY <1>1, <1>2, <1>4 DEF Windows, Skip
<1>5. CASE \E curr \in current_counters, prev \in prev_counters :
              Evaluate(prev, curr, z, over, now + d)
  <2>1. PICK curr \in current_counters, prev \in prev_counters :
               Evaluate(prev, curr, z, over, now + d)
    BY <1>5
  <2>2. current_counters = {curr} /\ prev_counters = {prev} /\ prev <= curr
    BY <1>2 DEF Windows
  <2>3. covered' = covered \/ covered' = {curr}
    BY <2>1 DEF Evaluate
  <2>4. covered' = covered /\ covered # {curr} => covered = {} \/ prev = curr
    <3>1. CASE curr > prev /\ covered' = covered /\ covered # {curr}
      <4>1. compute_rates(prev, curr) = Protos
        BY <3>1 DEF compute_rates
      <4>2. Protos = {}
        BY <2>1, <3>1, <4>1 DEF Evaluate
      <4> QED BY <3>1, <4>2 DEF Windows
    <3> QED BY <1>2, <2>2, <3>1
  <2>5. Protos = {} => covered' = covered
    BY <2>1 DEF Evaluate, compute_rates
  <2> QED BY <1>1, <1>2, <2>2, <2>3, <2>4, <2>5 DEF Windows
<1> QED BY <1>3, <1>4, <1>5 DEF Tick

LEMMA WindowsStep ==
  TypeOK /\ Windows /\ [Next]_vars =>
    /\ Windows'
    /\ covered' # covered => /\ covered # {} => prev_counters = covered
                             /\ covered' = current_counters
<1> SUFFICES ASSUME TypeOK, Windows, [Next]_vars
             PROVE  /\ Windows'
                    /\ covered' # covered => /\ covered # {} => prev_counters = covered
                                             /\ covered' = current_counters
  OBVIOUS
<1>1. ASSUME NEW ok \in BOOLEAN, NEW d \in Steps, Poll(ok, d)
      PROVE  Windows' /\ covered' = covered
  <2>1. UNCHANGED <<prev_counters, covered>>
    BY <1>1 DEF Poll, runnerVars
  <2>2. current_counters' = {now + d} \/ current_counters' = current_counters
    BY <1>1 DEF Poll
  <2>3. \A prev \in prev_counters : prev \in Nat /\ prev <= now
    BY DEF TypeOK, Option
  <2>4. now \in Nat /\ d \in Nat
    BY RunnerAssumption DEF TypeOK
  <2>5. CASE current_counters' = {now + d}
    BY <2>1, <2>3, <2>4, <2>5 DEF Windows
  <2>6. CASE current_counters' = current_counters
    BY <2>1, <2>6 DEF Windows
  <2> QED BY <2>1, <2>2, <2>5, <2>6
<1>2. CASE UNCHANGED vars
  BY <1>2 DEF vars, runnerVars, Windows
<1> QED BY <1>1, <1>2, WindowsTick DEF Next

THEOREM WindowsCorrect == Spec => []Windows
<1>1. Init => Windows
  BY DEF Init, Windows
<1>2. TypeOK /\ Windows /\ [Next]_vars => Windows'
  BY WindowsStep
<1> QED BY <1>1, <1>2, TypeCorrect, PTL DEF Spec

\* However polls fail and evaluations are late, every rate starts at the counters
\* where the last one ended: no traffic is counted twice or skipped.
THEOREM TileTheorem == Spec => WindowsTile
<1> DEFINE Tiles == covered' # covered => /\ covered # {} => prev_counters = covered
                                          /\ covered' = current_counters
<1>1. TypeOK /\ Windows /\ [Next]_vars => [Tiles]_vars
  BY WindowsStep
<1> QED BY <1>1, TypeCorrect, WindowsCorrect, PTL DEF Spec, WindowsTile

-----------------------------------------------------------------------------
(* Alerts on a baseline need a trained one. *)

LEMMA WarmupTick ==
  ASSUME TypeOK, AlertsNeedWarmup,
         NEW z \in [Protos -> ZScores], NEW over \in [Protos -> Overloads],
         NEW d \in Steps, Tick(z, over, d)
  PROVE  AlertsNeedWarmup'
<1> SUFFICES ASSUME NEW k \in DOMAIN states', k.kind \in {"Spike", "Drop"}
             PROVE  /\ samples'[k.proto] >= min_samples
                    /\ elapsed_ticks' >= min_elapsed_ticks
                    /\ warmed_up'
  BY DEF AlertsNeedWarmup
<1>1. elapsed_ticks \in Nat /\ elapsed_ticks' = elapsed_ticks + 1 /\ now + d \in Nat
  BY RunnerAssumption DEF Tick, TypeOK
<1>2. min_elapsed_ticks \in Int /\ min_samples \in Nat
  <2>1. min_elapsed_secs \in Nat /\ ANOMALY_EVAL_INTERVAL \in Nat \ {0} /\ min_samples \in Nat
    BY RunnerAssumption
  <2> QED BY <2>1 DEF min_elapsed_ticks
<1>3. samples \in [Protos -> Nat]
  BY DEF TypeOK
<1>4. CASE Skip
  <2>1. k \in DOMAIN states /\ samples' = samples /\ warmed_up' = warmed_up
    BY <1>4 DEF Skip
  <2>2. /\ samples[k.proto] >= min_samples
        /\ elapsed_ticks >= min_elapsed_ticks
        /\ warmed_up
    BY <2>1 DEF AlertsNeedWarmup
  <2>3. elapsed_ticks' >= min_elapsed_ticks
    BY <1>1, <1>2, <2>2
  <2> QED BY <2>1, <2>2, <2>3
<1>5. CASE \E curr \in current_counters, prev \in prev_counters :
              Evaluate(prev, curr, z, over, now + d)
  <2>1. PICK curr \in current_counters, prev \in prev_counters :
               Evaluate(prev, curr, z, over, now + d)
    BY <1>5
  <2> DEFINE rates == compute_rates(prev, curr)
             signals == AllSignals(rates, z, over, elapsed_ticks')
  <2>2. rates \in SUBSET Protos
    BY RateTypes
  <2>3. signals \in SUBSET AlertSignal
    BY <2>2, SignalTypes
  <2>4. k \in DOMAIN states \/ \E s \in collect_active(signals) : k = KeyOf(s)
    <3>1. tick(signals, now + d) /\ SlotsTypeOK
      BY <2>1 DEF Evaluate, AllSignals, TypeOK
    <3> HIDE DEF signals
    <3>2. H!tick(signals, now + d) /\ H!SlotsTypeOK /\ signals \in SUBSET H!AlertSignal
      BY <2>3, <3>1, SameTick, SameTypes, SameSignals
    <3>3. k \in DOMAIN states \/ k \in H!EligibleKeys(signals)
      BY <1>1, <3>2, ManagerAssumptions, H!TickTracks
    <3> QED BY <3>3, SameSignals
  <2>5. samples' = [p \in Protos |-> IF p \in Unfrozen(rates, curr)
                                       THEN samples[p] + 1 ELSE samples[p]]
    BY <2>1 DEF Evaluate
  <2>6. warmed_up' = (warmed_up \/ \E p \in rates : Ready(p, elapsed_ticks'))
    BY <2>1 DEF Evaluate, NoteWarmup
  <2>7. \A p \in Protos : samples[p] >= min_samples => samples'[p] >= min_samples
    BY <1>2, <1>3, <2>5
  <2>8. CASE k \in DOMAIN states
    <3>1. /\ samples[k.proto] >= min_samples
          /\ elapsed_ticks >= min_elapsed_ticks
          /\ warmed_up
      BY <2>8 DEF AlertsNeedWarmup
    <3>2. k.proto \in Protos
      BY <2>8 DEF TypeOK, SlotsTypeOK, AlertKey
    <3>3. warmed_up'
      BY <2>6, <3>1
    <3> QED BY <1>1, <1>2, <2>7, <3>1, <3>2, <3>3
  <2>9. CASE \E s \in collect_active(signals) : k = KeyOf(s)
    <3>1. PICK s \in signals : k = KeyOf(s)
      BY <2>9 DEF collect_active
    <3>2. k.proto = s.proto /\ k.kind = s.kind
      BY <3>1 DEF KeyOf
    <3>3. s.proto \in rates /\ (s.kind # "Emergency" => Ready(s.proto, elapsed_ticks'))
      BY <2>2, SignalTypes
    <3>4. k.proto \in rates /\ Ready(k.proto, elapsed_ticks')
      BY <3>2, <3>3
    <3>5. samples[k.proto] >= min_samples /\ elapsed_ticks' >= min_elapsed_ticks
      BY <3>4 DEF Ready
    <3>6. warmed_up'
      BY <2>6, <3>4
    <3> QED BY <2>2, <2>7, <3>4, <3>5, <3>6
  <2> QED BY <2>4, <2>8, <2>9
<1> QED BY <1>4, <1>5 DEF Tick

\* No Spike or Drop slot exists before its protocol has its samples and its time,
\* or before /health reports the warm-up; for any rules, also repeated ones.
THEOREM WarmupTheorem == Spec => []AlertsNeedWarmup
<1>1. Init => AlertsNeedWarmup
  BY DEF Init, SlotsInit, AlertsNeedWarmup
<1>2. TypeOK /\ AlertsNeedWarmup /\ [Next]_vars => AlertsNeedWarmup'
  <2>1. AlertsNeedWarmup /\ UNCHANGED vars => AlertsNeedWarmup'
    BY DEF vars, slotVars, runnerVars, estimatorVars, AlertsNeedWarmup
  <2>2. ASSUME AlertsNeedWarmup, NEW ok \in BOOLEAN, NEW d \in Steps, Poll(ok, d)
        PROVE  AlertsNeedWarmup'
    BY <2>2 DEF Poll, slotVars, runnerVars, estimatorVars, AlertsNeedWarmup
  <2> QED BY <2>1, <2>2, WarmupTick DEF Next
<1> QED BY <1>1, <1>2, TypeCorrect, PTL DEF Spec

-----------------------------------------------------------------------------
(* The baseline learns exactly when nothing disturbs it. *)

\* No two rules are about one kind.
DistinctKinds == H!DistinctKinds

\* The inductive invariant: the slot of each key agrees with the history of its
\* signals and of its last Fired event.
HistoryExplains == \A k \in RuledKeys : H!Explains(H!Entry(k), run[k], last_fire[k])

LEMMA ExplainsInit == Init => HistoryExplains
<1> SUFFICES ASSUME Init, NEW k \in RuledKeys
             PROVE  H!Explains(H!Entry(k), run[k], last_fire[k])
  BY DEF HistoryExplains
<1>1. H!Entry(k) = H!New
  BY DEF Init, SlotsInit, H!Entry
<1>2. run[k] = 0 /\ last_fire[k] = {}
  BY DEF Init
<1> QED BY <1>1, <1>2, ManagerAssumptions, H!NewSlot DEF H!Explains

\* An evaluation keeps slots and history in agreement.
LEMMA ExplainsEvaluate ==
  ASSUME TypeOK, HistoryExplains, DistinctKinds,
         NEW z \in [Protos -> ZScores], NEW over \in [Protos -> Overloads],
         NEW t \in Nat, NEW curr, NEW prev, Evaluate(prev, curr, z, over, t)
  PROVE  HistoryExplains'
<1> DEFINE rates == compute_rates(prev, curr)
           signals == AllSignals(rates, z, over, elapsed_ticks')
           eligible == {KeyOf(s) : s \in collect_active(signals)}
<1> SUFFICES ASSUME NEW k \in RuledKeys
             PROVE  H!Explains(H!Entry(k)', run'[k], last_fire'[k])
  BY DEF HistoryExplains, RuledKeys, AlertKey
<1>1. /\ run'[k] = IF k \in eligible THEN run[k] + 1 ELSE 0
      /\ last_fire'[k] = IF k \in FiredKeys THEN {t} ELSE last_fire[k]
  BY DEF Evaluate, AllSignals
<1>2. signals \in SUBSET AlertSignal
  BY RateTypes, SignalTypes
<1>3. tick(signals, t) /\ SlotsTypeOK
  BY DEF Evaluate, AllSignals, TypeOK
<1> HIDE DEF signals
<1>4. /\ H!tick(signals, t) /\ H!SlotsTypeOK
      /\ signals \in SUBSET H!AlertSignal
      /\ k \in H!RuledKeys
      /\ H!EligibleKeys(signals) = eligible
  BY <1>2, <1>3, SameTick, SameTypes, SameSignals
<1>5. H!FiredKeys(events') = FiredKeys
  BY SameSignals DEF H!FiredKeys, FiredKeys
<1>6. H!Explains(H!Entry(k), run[k], last_fire[k]) /\ run[k] \in Nat
  BY DEF HistoryExplains, TypeOK
<1>7. H!Explains(H!Entry(k)', IF k \in H!EligibleKeys(signals) THEN run[k] + 1 ELSE 0,
                 IF k \in H!FiredKeys(events') THEN {t} ELSE last_fire[k])
  BY <1>4, <1>6, ManagerAssumptions, H!ExplainsKey DEF DistinctKinds
<1> QED BY <1>1, <1>4, <1>5, <1>7

LEMMA ExplainsStep ==
  DistinctKinds /\ TypeOK /\ HistoryExplains /\ [Next]_vars => HistoryExplains'
<1> SUFFICES ASSUME DistinctKinds, TypeOK, HistoryExplains, [Next]_vars
             PROVE  HistoryExplains'
  OBVIOUS
<1>1. UNCHANGED <<states, run, last_fire>> => HistoryExplains'
  BY DEF HistoryExplains, H!Entry
<1>2. ASSUME NEW ok \in BOOLEAN, NEW d \in Steps, Poll(ok, d)
      PROVE  HistoryExplains'
  BY <1>1, <1>2 DEF Poll, slotVars
<1>3. ASSUME NEW z \in [Protos -> ZScores], NEW over \in [Protos -> Overloads],
             NEW d \in Steps, Tick(z, over, d)
      PROVE  HistoryExplains'
  <2>1. now + d \in Nat
    BY RunnerAssumption DEF TypeOK
  <2>2. Skip => HistoryExplains'
    BY <1>1 DEF Skip
  <2> QED BY <1>3, <2>1, <2>2, ExplainsEvaluate DEF Tick
<1>4. UNCHANGED vars => HistoryExplains'
  BY <1>1 DEF vars, slotVars
<1> QED BY <1>2, <1>3, <1>4 DEF Next

THEOREM HistoryCorrect ==
  ASSUME DistinctKinds
  PROVE  Spec => []HistoryExplains
<1>1. TypeOK /\ HistoryExplains /\ [Next]_vars => HistoryExplains'
  BY ExplainsStep
<1> QED BY <1>1, TypeCorrect, ExplainsInit, PTL DEF Spec

\* The slots that an evaluation leaves freeze exactly the protocols that the
\* history calls disturbed, at whatever time one asks.
LEMMA FrozenIsDisturbed ==
  ASSUME TypeOK', HistoryExplains', NEW p, NEW c
  PROVE  p \in frozen_protos(states', c) <=> Disturbed(p, c)
<1> DEFINE Hot(k) == k \in DOMAIN states' /\ is_hot(states'[k], c, FindRule(k.kind).cooldown)
           History(k) == \/ run'[k] > 0
                         \/ k \in DOMAIN states' /\ is_firing(states'[k])
                         \/ \E f \in last_fire'[k] :
                               duration_since(c, f) < FindRule(k.kind).cooldown
<1>1. ASSUME NEW k \in RuledKeys PROVE Hot(k) <=> History(k)
  <2>1. H!Explains(H!Entry(k)', run'[k], last_fire'[k]) /\ run'[k] \in Nat
    BY DEF HistoryExplains, TypeOK, RuledKeys, AlertKey
  <2>2. CASE k \in DOMAIN states'
    <3>1. H!Entry(k)' = states'[k]
      BY <2>2 DEF H!Entry
    <3>2. H!Explains(states'[k], run'[k], last_fire'[k])
      BY <2>1, <3>1
    <3>3. H!is_hot(states'[k], c, FindRule(k.kind).cooldown) <=>
             \/ run'[k] > 0
             \/ H!is_firing(states'[k])
             \/ \E f \in last_fire'[k] :
                   H!duration_since(c, f) < FindRule(k.kind).cooldown
      BY <2>1, <3>2, ManagerAssumptions, H!HotExplained
    <3> QED BY <2>2, <3>3, SameSlots
  <2>3. CASE k \notin DOMAIN states'
    <3>1. H!Entry(k)' = H!New
      BY <2>3 DEF H!Entry
    <3>2. run'[k] = 0 /\ last_fire'[k] = {}
      BY <2>1, <3>1, ManagerAssumptions, H!NewSlot DEF H!Explains
    <3> QED BY <2>3, <3>2
  <2> QED BY <2>2, <2>3
<1>2. DOMAIN states' \subseteq RuledKeys
  BY DEF TypeOK, SlotsTypeOK, RuledKeys, AlertKey
<1>3. p \in frozen_protos(states', c) <=>
         \E k \in RuledKeys : k.proto = p /\ FindRule(k.kind).freezes_baseline /\ Hot(k)
  BY <1>2 DEF frozen_protos
<1>4. Disturbed(p, c) <=>
         \E k \in RuledKeys : k.proto = p /\ FindRule(k.kind).freezes_baseline /\ History(k)
  BY DEF Disturbed
<1> HIDE DEF Hot, History
<1> QED BY <1>1, <1>3, <1>4

\* What disturbs a protocol at a later time disturbs it at an earlier one.
LEMMA DisturbedFades ==
  ASSUME TypeOK', NEW p, NEW c \in Nat, NEW t \in Nat, c <= t, Disturbed(p, t)
  PROVE  Disturbed(p, c)
<1>1. PICK k \in RuledKeys :
         /\ k.proto = p
         /\ FindRule(k.kind).freezes_baseline
         /\ \/ run'[k] > 0
            \/ k \in DOMAIN states' /\ is_firing(states'[k])
            \/ \E f \in last_fire'[k] : duration_since(t, f) < FindRule(k.kind).cooldown
  BY DEF Disturbed
<1>2. FindRule(k.kind).cooldown \in Nat
  <2>1. k \in H!RuledKeys /\ H!FindRule(k.kind) = FindRule(k.kind)
    BY SameSignals
  <2> QED BY <2>1, ManagerAssumptions, H!RuleOfKey
<1>3. \A f \in last_fire'[k] : f \in Nat
  BY DEF TypeOK, Option, RuledKeys, AlertKey
<1>4. ASSUME NEW f \in last_fire'[k], duration_since(t, f) < FindRule(k.kind).cooldown
      PROVE  duration_since(c, f) < FindRule(k.kind).cooldown
  BY <1>2, <1>3, <1>4 DEF duration_since
<1> QED BY <1>1, <1>4 DEF Disturbed

\* What an evaluation feeds to the baseline.
LEMMA LearnsTick ==
  ASSUME TypeOK, TypeOK', Windows, HistoryExplains',
         NEW z \in [Protos -> ZScores], NEW over \in [Protos -> Overloads],
         NEW d \in Steps, Tick(z, over, d), NEW p \in Protos
  PROVE  /\ samples'[p] > samples[p] => ~Disturbed(p, now')
         /\ samples'[p] > samples[p] <=>
              /\ covered' # covered
              /\ \A curr \in current_counters : ~Disturbed(p, curr)
<1>1. samples[p] \in Nat
  BY DEF TypeOK
<1>2. CASE Skip
  BY <1>1, <1>2 DEF Skip
<1>3. CASE \E curr \in current_counters, prev \in prev_counters :
              Evaluate(prev, curr, z, over, now + d)
  <2>1. PICK curr \in current_counters, prev \in prev_counters :
               Evaluate(prev, curr, z, over, now + d)
    BY <1>3
  <2> DEFINE rates == compute_rates(prev, curr)
  <2>2. /\ current_counters = {curr} /\ prev_counters = {prev}
        /\ curr \in Nat /\ prev \in Nat /\ curr <= now
    BY DEF TypeOK, Option
  <2>3. curr <= now' /\ now' \in Nat
    BY <2>2, RunnerAssumption DEF TypeOK, Tick
  <2>4. samples'[p] = IF p \in Unfrozen(rates, curr) THEN samples[p] + 1 ELSE samples[p]
    BY <2>1 DEF Evaluate
  <2>5. samples'[p] > samples[p] <=> p \in rates /\ ~Disturbed(p, curr)
    <3>1. p \in frozen_protos(states', curr) <=> Disturbed(p, curr)
      BY FrozenIsDisturbed
    <3> QED BY <1>1, <2>4, <3>1 DEF Unfrozen
  <2>6. p \in rates <=> covered' # covered
    <3>1. covered' = IF rates = {} THEN covered ELSE {curr}
      BY <2>1 DEF Evaluate
    <3>2. covered = {} \/ covered = {prev}
      BY <2>2 DEF Windows
    <3>3. rates = {} \/ (rates = Protos /\ curr > prev)
      BY DEF compute_rates
    <3> HIDE DEF rates
    <3> QED BY <2>2, <3>1, <3>2, <3>3
  <2>7. Disturbed(p, now') => Disturbed(p, curr)
    BY <2>2, <2>3, DisturbedFades
  <2> QED BY <2>2, <2>5, <2>6, <2>7
<1> QED BY <1>2, <1>3 DEF Tick

\* With one rule per kind, the baseline of a protocol is fed exactly by the
\* evaluations that have a rate for it and find no freezing alert of it building
\* up, open, or Fired less than a cooldown ago.
THEOREM LearnsTheorem ==
  ASSUME DistinctKinds
  PROVE  Spec => LearnsExactlyWhenCalm
<1> DEFINE Learns == Evaluated =>
             \A p \in Protos :
                /\ samples'[p] > samples[p] => ~Disturbed(p, now')
                /\ samples'[p] > samples[p] <=>
                     /\ covered' # covered
                     /\ \A curr \in current_counters : ~Disturbed(p, curr)
<1>1. TypeOK /\ TypeOK' /\ Windows /\ HistoryExplains' /\ [Next]_vars => [Learns]_vars
  <2>1. ASSUME NEW ok \in BOOLEAN, NEW d \in Steps, Poll(ok, d) PROVE ~Evaluated
    BY <2>1 DEF Poll, runnerVars, estimatorVars, Evaluated
  <2> QED BY <2>1, LearnsTick DEF Next
<1>2. TypeOK /\ [Next]_vars => TypeOK'
  BY TypeStep
<1>3. TypeOK /\ HistoryExplains /\ [Next]_vars => HistoryExplains'
  BY ExplainsStep
<1> QED BY <1>1, <1>2, <1>3, TypeCorrect, WindowsCorrect, HistoryCorrect, PTL
        DEF Spec, LearnsExactlyWhenCalm

-----------------------------------------------------------------------------
(* What is shown is what was judged. *)

\* An alert that an evaluation sends out comes from an eligible signal, and its
\* slot is Firing from then on.
LEMMA SentForSignal ==
  ASSUME TypeOK, DistinctKinds,
         NEW signals \in SUBSET AlertSignal, NEW t \in Nat, tick(signals, t),
         NEW e \in heartbeats' \cup {x \in events' : x.lifecycle = "Fired"}
  PROVE  \E s \in signals :
            /\ e.proto = s.proto /\ e.kind = s.kind /\ e.level = s.level
            /\ KeyOf(s) \in DOMAIN states'
            /\ is_firing(states'[KeyOf(s)])
<1>1. /\ H!tick(signals, t) /\ H!SlotsTypeOK
      /\ signals \in SUBSET H!AlertSignal
  BY SameTick, SameTypes, SameSignals DEF TypeOK
<1>2. PICK s \in H!collect_active(signals) :
         /\ e.proto = s.proto /\ e.kind = s.kind /\ e.level = s.level
         /\ H!KeyOf(s) \in DOMAIN states'
         /\ H!is_firing(states'[H!KeyOf(s)])
  BY <1>1, ManagerAssumptions, H!SentForSignal DEF DistinctKinds
<1>3. s \in signals
  BY <1>2, SameSignals DEF collect_active
<1> QED BY <1>2, <1>3, SameSlots, SameSignals

\* The view of one protocol after an evaluation with rates.
LEMMA ShownTick ==
  ASSUME TypeOK, TypeOK', Windows, HistoryExplains', DistinctKinds,
         NEW z \in [Protos -> ZScores], NEW over \in [Protos -> Overloads],
         NEW d \in Steps, Tick(z, over, d), covered' # covered,
         NEW view \in AnomaliesResponse'
  PROVE  /\ \A e \in heartbeats' \cup {x \in events' : x.lifecycle = "Fired"} :
               /\ e.proto = view.proto /\ e.kind # "Emergency"
               /\ FindRule(e.kind).freezes_baseline
               => /\ view.level = {e.level} /\ gauges'.level[e.proto] = e.level
                  /\ \E a \in view.alerts : a.kind = e.kind /\ a.phase = "Firing"
                  /\ view.frozen /\ e.proto \in gauges'.frozen
         /\ samples'[view.proto] > samples[view.proto] => ~view.frozen
<1>1. PICK curr \in current_counters, prev \in prev_counters :
             Evaluate(prev, curr, z, over, now + d)
  BY DEF Tick, Skip
<1> DEFINE rates == compute_rates(prev, curr)
           signals == AllSignals(rates, z, over, elapsed_ticks')
<1>2. rates = Protos
  <2>1. rates # {}
    BY <1>1 DEF Evaluate
  <2> QED BY <2>1 DEF compute_rates
<1>3. now + d \in Nat
  BY RunnerAssumption DEF TypeOK
<1>4. PICK p \in Protos :
         /\ view.proto = p
         /\ view.level = IF p \in last_rates' THEN {compute_anomaly_view(p)'} ELSE {}
         /\ view.frozen <=> p \in frozen_protos(states', now')
         /\ view.alerts = {[kind  |-> k.kind, phase |-> states'[k].phase,
                            count |-> states'[k].consecutive_count] :
                             k \in {x \in DOMAIN states' : x.proto = p}}
  <2>1. api' = {RunnerSnapshot'}
    BY DEF Tick
  <2>2. PICK p \in Protos :
           view = [proto |-> p, level |-> RunnerSnapshot'[p].level,
                   baseline_ready |-> RunnerSnapshot'[p].ready,
                   frozen |-> RunnerSnapshot'[p].frozen,
                   alerts |-> RunnerSnapshot'[p].alerts]
    BY <2>1 DEF AnomaliesResponse
  <2>3. RunnerSnapshot'[p] =
          [level  |-> IF p \in last_rates' THEN {compute_anomaly_view(p)'} ELSE {},
           ready  |-> Ready(p, elapsed_ticks)',
           frozen |-> p \in frozen_protos(states', now'),
           alerts |-> {[kind  |-> k.kind, phase |-> states'[k].phase,
                        count |-> states'[k].consecutive_count] :
                         k \in {x \in DOMAIN states' : x.proto = p}}]
    BY DEF RunnerSnapshot, frozen_protos
  <2>4. /\ view.proto = p
        /\ view.level = RunnerSnapshot'[p].level
        /\ view.frozen = RunnerSnapshot'[p].frozen
        /\ view.alerts = RunnerSnapshot'[p].alerts
    BY <2>2
  <2>5. /\ RunnerSnapshot'[p].level = IF p \in last_rates' THEN {compute_anomaly_view(p)'}
                                                          ELSE {}
        /\ RunnerSnapshot'[p].frozen = (p \in frozen_protos(states', now'))
        /\ RunnerSnapshot'[p].alerts =
             {[kind  |-> k.kind, phase |-> states'[k].phase,
               count |-> states'[k].consecutive_count] :
                k \in {x \in DOMAIN states' : x.proto = p}}
    BY <2>3
  <2> QED BY <2>4, <2>5
<1>5. /\ last_rates' = Protos
      /\ gauges'.level[p] = compute_anomaly_view(p)'
      /\ gauges'.frozen = frozen_protos(states', curr)
  BY <1>1, <1>2 DEF Evaluate, UpdateGauges
<1>6. ASSUME NEW e \in heartbeats' \cup {x \in events' : x.lifecycle = "Fired"},
             e.proto = p, e.kind # "Emergency", FindRule(e.kind).freezes_baseline
      PROVE  /\ view.level = {e.level} /\ gauges'.level[e.proto] = e.level
             /\ \E a \in view.alerts : a.kind = e.kind /\ a.phase = "Firing"
             /\ view.frozen /\ e.proto \in gauges'.frozen
  <2>1. signals \in SUBSET AlertSignal /\ tick(signals, now + d)
    BY <1>1, RateTypes, SignalTypes DEF Evaluate, AllSignals
  <2>2. PICK s \in signals :
           /\ p = s.proto /\ e.kind = s.kind /\ e.level = s.level
           /\ KeyOf(s) \in DOMAIN states'
           /\ is_firing(states'[KeyOf(s)])
    <3> HIDE DEF signals
    <3> QED BY <1>3, <1>6, <2>1, SentForSignal
  <2>3. Ready(p, elapsed_ticks') /\ e.level = anomaly_level_from_z(z[p])
    BY <1>6, <2>2, RateTypes, SignalTypes
  <2>4. KeyOf(s).proto = p /\ KeyOf(s).kind = e.kind
    BY <2>2 DEF KeyOf
  <2>5. \A c : p \in frozen_protos(states', c)
    BY <1>6, <2>2, <2>4 DEF frozen_protos, is_hot, is_firing
  <2>6. p \notin Unfrozen(rates, curr)
    BY <2>5 DEF Unfrozen
  <2>7. samples'[p] = samples[p] /\ spread'[p] = spread[p] /\ z_now'[p] = z[p]
    BY <1>1, <2>6 DEF Evaluate, Rescore
  <2>8. Ready(p, elapsed_ticks)'
    BY <2>3, <2>7 DEF Ready, min_elapsed_ticks
  <2>9. compute_anomaly_view(p)' = e.level
    BY <2>3, <2>7, <2>8 DEF compute_anomaly_view
  <2>10. \E a \in view.alerts : a.kind = e.kind /\ a.phase = "Firing"
    <3> DEFINE k == KeyOf(s)
               a == [kind  |-> k.kind, phase |-> states'[k].phase,
                     count |-> states'[k].consecutive_count]
    <3>1. k \in {x \in DOMAIN states' : x.proto = p}
      BY <2>2, <2>4
    <3>2. a \in view.alerts
      <4> HIDE DEF k
      <4>1. view.alerts = {[kind  |-> x.kind, phase |-> states'[x].phase,
                            count |-> states'[x].consecutive_count] :
                             x \in {y \in DOMAIN states' : y.proto = p}}
        BY <1>4
      <4> QED BY <3>1, <4>1
    <3>3. a.kind = e.kind /\ a.phase = "Firing"
      BY <2>2, <2>4 DEF is_firing
    <3> QED BY <3>2, <3>3
  <2> QED BY <1>4, <1>5, <1>6, <2>5, <2>9, <2>10
<1>7. samples'[p] > samples[p] => ~view.frozen
  BY <1>4, LearnsTick, FrozenIsDisturbed
<1> QED BY <1>4, <1>6, <1>7

\* With one rule per kind, an alert that freezes its protocol is shown with the
\* level it was sent with, as Firing and as frozen, and a protocol that was just
\* learned from is not shown as frozen.
THEOREM ShownTheorem ==
  ASSUME DistinctKinds
  PROVE  Spec => ShownAsJudged
<1> DEFINE Shown == Evaluated /\ covered' # covered =>
         \A view \in AnomaliesResponse' :
            /\ \A e \in heartbeats' \cup {x \in events' : x.lifecycle = "Fired"} :
                  /\ e.proto = view.proto /\ e.kind # "Emergency"
                  /\ FindRule(e.kind).freezes_baseline
                  => /\ view.level = {e.level} /\ gauges'.level[e.proto] = e.level
                     /\ \E a \in view.alerts : a.kind = e.kind /\ a.phase = "Firing"
                     /\ view.frozen /\ e.proto \in gauges'.frozen
            /\ samples'[view.proto] > samples[view.proto] => ~view.frozen
<1>1. TypeOK /\ TypeOK' /\ Windows /\ HistoryExplains' /\ [Next]_vars => [Shown]_vars
  <2>1. ASSUME NEW ok \in BOOLEAN, NEW d \in Steps, Poll(ok, d) PROVE ~Evaluated
    BY <2>1 DEF Poll, runnerVars, estimatorVars, Evaluated
  <2> QED BY <2>1, ShownTick DEF Next
<1>2. TypeOK /\ [Next]_vars => TypeOK'
  BY TypeStep
<1>3. TypeOK /\ HistoryExplains /\ [Next]_vars => HistoryExplains'
  BY ExplainsStep
<1> QED BY <1>1, <1>2, <1>3, TypeCorrect, WindowsCorrect, HistoryCorrect, PTL
        DEF Spec, ShownAsJudged
=============================================================================
