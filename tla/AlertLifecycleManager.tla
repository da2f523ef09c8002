------------------------ MODULE AlertLifecycleManager ------------------------
(***************************************************************************)
(* alert/proto_manager.rs: one alert FSM per (protocol, alert kind), driven *)
(* by a list of rules.  Slots are never collected.                         *)
(*                                                                         *)
(* A tick applies the rules one after the other.  Each advances every slot *)
(* of its kind, so two rules of one kind advance the same slot twice.      *)
(*                                                                         *)
(* AnomalyLevel is ordered, Normal < Suspicious < Severe, and is 0..2 here; *)
(* confidence, in [0, 1] in the code, is counted in tenths.                *)
(***************************************************************************)
EXTENDS AlertState, Sequences

AlertKind    == {"Spike", "Drop", "Emergency"}
AnomalyLevel == 0..2
Normal       == 0
Suspicious   == 1
Severe       == 2
Confidence   == 0..10

AlertRule == [kind                          : AlertKind,
              min_level                     : AnomalyLevel,
              min_confidence                : Confidence,
              cooldown                      : Nat,
              consecutive_threshold         : Nat,
              resolve_consecutive_threshold : Nat,
              freezes_baseline              : BOOLEAN]

CONSTANTS Protos,   \* protocol buckets
          Rules     \* the rules, in configuration order

ASSUME RulesAssumption == Rules \in Seq(AlertRule)

AlertKey    == [proto : Protos, kind : AlertKind]
AlertSignal == [proto : Protos, kind : AlertKind,
                level : AnomalyLevel, confidence : Confidence]
AlertEvent  == [proto : Protos, kind : AlertKind, level : AnomalyLevel,
                confidence : Confidence, lifecycle : AlertLifecycle]

VARIABLES states,      \* HashMap<AlertKey, AlertState>
          events,      \* transitions returned by the last tick
          heartbeats   \* alerts it re-affirmed

slotVars == <<states, events, heartbeats>>

KeyOf(s) == [proto |-> s.proto, kind |-> s.kind]

-----------------------------------------------------------------------------
Eligible(signal, rule) == /\ signal.kind = rule.kind
                          /\ signal.level >= rule.min_level
                          /\ signal.confidence >= rule.min_confidence

\* The signals some rule lets through.  The detectors yield at most one signal
\* per key, so the map the code builds is this set.
collect_active(signals) ==
    {s \in signals : \E i \in DOMAIN Rules : Eligible(s, Rules[i])}

\* The Alert of a Fired event or a heartbeat carries the signal's own values.
AlertOf(s, lifecycle) == [proto |-> s.proto, kind |-> s.kind, level |-> s.level,
                          confidence |-> s.confidence, lifecycle |-> lifecycle]

\* A Resolved alert has no signal: the rule's level and no confidence.
ResolvedOf(k, rule) == [proto |-> k.proto, kind |-> k.kind, level |-> rule.min_level,
                        confidence |-> 0, lifecycle |-> "Resolved"]

\* One iteration of advance_states' loop over the rules, on what the
\* iterations before it left: the slots, the events and the heartbeats.
ApplyRule(acc, rule, active, now) ==
    LET keys       == {k \in DOMAIN acc.states \cup {KeyOf(s) : s \in active} :
                         k.kind = rule.kind}
        entry(k)   == IF k \in DOMAIN acc.states THEN acc.states[k] ELSE New
        signal(k)  == {s \in active : KeyOf(s) = k}
        after(k)   == advance(entry(k), signal(k) # {}, now, rule)
        outcome(k) == Lifecycle(entry(k), after(k))
    IN  [states |-> [k \in DOMAIN acc.states \cup keys |->
                       IF k \in keys THEN after(k) ELSE acc.states[k]],
         events |-> acc.events
            \cup {ResolvedOf(k, rule) : k \in {x \in keys : outcome(x) = {"Resolved"}}}
            \cup UNION {{AlertOf(s, "Fired") : s \in signal(k)} :
                          k \in {x \in keys : outcome(x) = {"Fired"}}},
         heartbeats |-> acc.heartbeats
            \cup UNION {signal(k) : k \in {x \in keys : outcome(x) = {}
                                                     /\ is_firing(after(x))}}]

FaultFirstRuleOnly(signals, now) ==
    ApplyRule([states |-> states, events |-> {}, heartbeats |-> {}],
              Rules[1], collect_active(signals), now)

advance_states(signals, now) ==
    LET active == collect_active(signals)
        after[i \in 0..Len(Rules)] ==
           IF i = 0 THEN [states |-> states, events |-> {}, heartbeats |-> {}]
                    ELSE ApplyRule(after[i - 1], Rules[i], active, now)
    IN  after[Len(Rules)]

tick(signals, now) ==
    LET result == advance_states(signals, now)
    IN  /\ states'     = result.states
        /\ events'     = result.events
        /\ heartbeats' = result.heartbeats

\* self.rules.iter().find(|r| r.kind == kind)
FindRule(kind) ==
    LET matching == {i \in DOMAIN Rules : Rules[i].kind = kind}
    IN  Rules[CHOOSE i \in matching : \A j \in matching : i <= j]

FaultFreezeWhileFiringOnly(slots, now) ==
    {k.proto : k \in {x \in DOMAIN slots : /\ FindRule(x.kind).freezes_baseline
                                           /\ is_firing(slots[x])}}

frozen_protos(slots, now) ==
    {k.proto : k \in {x \in DOMAIN slots :
                        /\ FindRule(x.kind).freezes_baseline
                        /\ is_hot(slots[x], now, FindRule(x.kind).cooldown)}}

SlotsInit == /\ states     = [k \in {} |-> New]
             /\ events     = {}
             /\ heartbeats = {}

\* Slots exist only for keys of some rule, and every output has its type.
SlotsTypeOK ==
    /\ DOMAIN states \subseteq AlertKey
    /\ states \in [DOMAIN states -> AlertSlot]
    /\ \A k \in DOMAIN states : \E i \in DOMAIN Rules : Rules[i].kind = k.kind
    /\ events \subseteq AlertEvent
    /\ heartbeats \subseteq AlertSignal
=============================================================================
