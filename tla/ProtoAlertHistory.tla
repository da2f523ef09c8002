------------------------- MODULE ProtoAlertHistory -------------------------
(***************************************************************************)
(* The per-protocol alert manager under arbitrary signals, together with   *)
(* the history of its inputs and outputs that the properties are about.    *)
(***************************************************************************)
EXTENDS AlertLifecycleManager, FiniteSets

CONSTANTS Signals,   \* the signals the detectors may produce
          Steps,     \* possible distances between two ticks
          MaxTicks   \* bound on the length of a behaviour

ASSUME ProtoHistoryAssumption == /\ Signals \subseteq AlertSignal
                                 /\ Steps \subseteq Nat
                                 /\ MaxTicks \in Nat

VARIABLES now,        \* Instant of the last tick
          ticks,      \* number of ticks so far
          run,        \* run[k]: ticks in a row with an eligible signal of key k
          quiet,      \* quiet[k]: ticks in a row without one
          last_fire   \* last_fire[k]: time of the last Fired event, if any

vars == <<slotVars, now, ticks, run, quiet, last_fire>>

\* The keys some rule is about.
RuledKeys == {k \in AlertKey : \E i \in DOMAIN Rules : Rules[i].kind = k.kind}

FiredKeys(evts) == {KeyOf(e) : e \in {x \in evts : x.lifecycle = "Fired"}}

Init == /\ SlotsInit
        /\ now = 0
        /\ ticks = 0
        /\ run   = [k \in RuledKeys |-> 0]
        /\ quiet = [k \in RuledKeys |-> 0]
        /\ last_fire = [k \in RuledKeys |-> {}]

\* One signal per key and tick: EwmaDetector yields a Spike or a Drop per
\* protocol, EmergencyDetector one Emergency.
OnePerKey(sigs) == \A s, t \in sigs : KeyOf(s) = KeyOf(t) => s = t

Tick(sigs, d) ==
    LET eligible == {KeyOf(s) : s \in collect_active(sigs)}
    IN  /\ ticks < MaxTicks
        /\ ticks' = ticks + 1
        /\ now' = now + d
        /\ tick(sigs, now + d)
        /\ run'   = [k \in RuledKeys |-> IF k \in eligible THEN run[k] + 1 ELSE 0]
        /\ quiet' = [k \in RuledKeys |-> IF k \in eligible THEN 0 ELSE quiet[k] + 1]
        /\ last_fire' = [k \in RuledKeys |-> IF k \in FiredKeys(events')
                                               THEN {now + d} ELSE last_fire[k]]

Next == \E sigs \in {x \in SUBSET Signals : OnePerKey(x)}, d \in Steps : Tick(sigs, d)

Spec == Init /\ [][Next]_vars

-----------------------------------------------------------------------------
Open == {k \in DOMAIN states : is_firing(states[k])}

\* A protocol's baseline is frozen exactly while one of its freezing alerts is
\* building up, is open, or fired less than a cooldown ago: frozen_protos reads
\* this off phases that were reset meanwhile.
FreezeMatchesHistory ==
    frozen_protos(states, now) =
      {k.proto : k \in {x \in RuledKeys :
         /\ FindRule(x.kind).freezes_baseline
         /\ \/ run[x] > 0
            \/ x \in Open
            \/ \E f \in last_fire[x] : now - f < FindRule(x.kind).cooldown}}

\* The manager keeps the promise of AlertContract with, for each key, the
\* timing of the rule of its kind.
Contract == INSTANCE AlertContract WITH
              Key    <- RuledKeys,
              Timing <- [k \in RuledKeys |-> FindRule(k.kind)],
              open   <- Open,
              events <- {[key |-> KeyOf(e), lifecycle |-> e.lifecycle] : e \in events},
              heartbeats <- {KeyOf(s) : s \in heartbeats}

ImplementsContract == Contract!Spec

\* AlertRule's documented meaning of consecutive_threshold, "Number of
\* consecutive eligible ticks required to fire" (proto_manager.rs:35): no key is
\* Fired after fewer ticks than every rule of its kind asks for.
FiresAfterConsecutiveTicks ==
    [][\A k \in FiredKeys(events') :
         ticks' # ticks =>
           \E i \in DOMAIN Rules : /\ Rules[i].kind = k.kind
                                   /\ run'[k] >= Rules[i].consecutive_threshold]_vars
=============================================================================
