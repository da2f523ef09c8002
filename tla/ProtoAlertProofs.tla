--------------------------- MODULE ProtoAlertProofs ---------------------------
(***************************************************************************)
(* Proofs about the per-protocol alert manager, for every set of           *)
(* protocols, every list of rules and every behaviour of the detectors.    *)
(*                                                                         *)
(* A tick applies the rules one after the other, so the first part follows *)
(* the slots through the list.  What a tick does to one key is simple only *)
(* when no two rules are about one kind, as in default_alert_rules: then   *)
(* each key is advanced once, by its own rule.  build_alert_rules does not *)
(* ask for that, so the theorems that need it say so.                      *)
(***************************************************************************)
EXTENDS ProtoAlertHistory, WellFoundedInduction, TLAPS

DistinctKinds ==
    \A i, j \in DOMAIN Rules : Rules[i].kind = Rules[j].kind => i = j

-----------------------------------------------------------------------------
(* The slot.                                                               *)

\* AlertState::new is a slot, and no fire is remembered in it.
LEMMA NewSlot == /\ New \in AlertSlot
                 /\ New.phase = "Inactive"
                 /\ New.consecutive_count = 0
                 /\ New.resolve_consecutive_count = 0
                 /\ New.last_fired = {}
  BY DEF New, AlertSlot, AlertPhase, Option

\* advance maps slots to slots.
LEMMA AdvanceType ==
  ASSUME NEW s \in AlertSlot, NEW b \in BOOLEAN, NEW t \in Nat,
         NEW timing
  PROVE  advance(s, b, t, timing) \in AlertSlot
<1>1. \A u \in AlertSlot : try_fire(u, t, timing) \in AlertSlot
  BY DEF try_fire, AlertSlot, AlertPhase, Option
<1>2. \A u \in AlertSlot : reset(u) \in AlertSlot
  BY DEF reset, AlertSlot, AlertPhase
<1>3. CASE s.phase = "Inactive"
  <2>1. [s EXCEPT !.consecutive_count = 1] \in AlertSlot
    BY DEF AlertSlot
  <2>2. AdvanceInactive(s, b, t, timing) \in AlertSlot
    BY <1>1, <2>1 DEF AdvanceInactive, AlertSlot, AlertPhase
  <2> QED BY <1>3, <2>2 DEF advance
<1>4. CASE s.phase = "Pending"
  <2>1. [s EXCEPT !.consecutive_count = @ + 1] \in AlertSlot
    BY DEF AlertSlot
  <2>2. AdvancePending(s, b, t, timing) \in AlertSlot
    BY <1>1, <1>2, <2>1 DEF AdvancePending
  <2> QED BY <1>4, <2>2 DEF advance
<1>5. CASE s.phase = "Firing"
  <2>1. AdvanceFiring(s, b, t, timing) \in AlertSlot
    BY <1>2 DEF AdvanceFiring, AlertSlot
  <2> QED BY <1>5, <2>1 DEF advance
<1> QED BY <1>3, <1>4, <1>5 DEF AlertSlot, AlertPhase

\* The effect of advance, phase by phase: which phase and counters a tick
\* leaves, and when the fire time is set.
Effect(s, b, t, timing, a) ==
    /\ a \in AlertSlot
    /\ s.phase = "Inactive" /\ ~b => a = s
    /\ s.phase = "Inactive" /\ b =>
         IF /\ 1 >= timing.consecutive_threshold
            /\ cooldown_passed(s, t, timing.cooldown)
           THEN /\ a.phase = "Firing"
                /\ a.last_fired = {t}
                /\ a.resolve_consecutive_count = s.resolve_consecutive_count
           ELSE /\ a.phase = "Pending"
                /\ a.last_fired = s.last_fired
                /\ a.consecutive_count = 1
                /\ a.resolve_consecutive_count = s.resolve_consecutive_count
    /\ s.phase = "Pending" /\ b =>
         IF /\ s.consecutive_count + 1 >= timing.consecutive_threshold
            /\ cooldown_passed(s, t, timing.cooldown)
           THEN /\ a.phase = "Firing"
                /\ a.last_fired = {t}
                /\ a.resolve_consecutive_count = s.resolve_consecutive_count
           ELSE /\ a.phase = "Pending"
                /\ a.last_fired = s.last_fired
                /\ a.consecutive_count = s.consecutive_count + 1
                /\ a.resolve_consecutive_count = s.resolve_consecutive_count
    /\ s.phase = "Firing" /\ b =>
         /\ a.phase = "Firing"
         /\ a.last_fired = s.last_fired
         /\ a.resolve_consecutive_count = 0
    /\ \/ s.phase = "Pending" /\ ~b
       \/ /\ s.phase = "Firing" /\ ~b
          /\ s.resolve_consecutive_count + 1 >= timing.resolve_consecutive_threshold
       => /\ a.phase = "Inactive"
          /\ a.last_fired = s.last_fired
          /\ a.consecutive_count = 0
          /\ a.resolve_consecutive_count = 0
    /\ /\ s.phase = "Firing" /\ ~b
       /\ ~(s.resolve_consecutive_count + 1 >= timing.resolve_consecutive_threshold)
       => /\ a.phase = "Firing"
          /\ a.last_fired = s.last_fired
          /\ a.resolve_consecutive_count = s.resolve_consecutive_count + 1

\* advance has that effect on every slot.
LEMMA AdvanceEffect ==
  ASSUME NEW s \in AlertSlot, NEW b \in BOOLEAN, NEW t \in Nat,
         NEW timing
  PROVE  Effect(s, b, t, timing, advance(s, b, t, timing))
<1> DEFINE a == advance(s, b, t, timing)
<1>0. a \in AlertSlot
  BY AdvanceType
<1> SUFFICES Effect(s, b, t, timing, a)
  OBVIOUS
<1> HIDE DEF a
<1> USE DEF Effect
<1>1. CASE s.phase = "Inactive"
  <2>1. a = AdvanceInactive(s, b, t, timing)
    BY <1>1 DEF advance, a
  <2> QED BY <1>0, <1>1, <2>1
          DEF AdvanceInactive, try_fire, cooldown_passed, is_firing, AlertSlot
<1>2. CASE s.phase = "Pending"
  <2>1. a = AdvancePending(s, b, t, timing)
    BY <1>2 DEF advance, a
  <2> QED BY <1>0, <1>2, <2>1
          DEF AdvancePending, try_fire, cooldown_passed, reset, AlertSlot
<1>3. CASE s.phase = "Firing"
  <2>1. a = AdvanceFiring(s, b, t, timing)
    BY <1>3 DEF advance, a
  <2> QED BY <1>0, <1>3, <2>1 DEF AdvanceFiring, reset, AlertSlot
<1>4. s.phase \in AlertPhase
  BY DEF AlertSlot
<1> QED BY <1>1, <1>2, <1>3, <1>4 DEF AlertPhase

-----------------------------------------------------------------------------
(* The recursion over the rules.                                           *)

Untouched == [states |-> states, events |-> {}, heartbeats |-> {}]

\* f lists what the first i rules leave, for each i up to n.
IsChain(f, n, A, t) ==
    f = [i \in 0..n |-> IF i = 0 THEN Untouched
                                 ELSE ApplyRule(f[i - 1], Rules[i], A, t)]

\* The recursive definition of advance_states has a solution.
LEMMA ChainExists ==
  ASSUME NEW n \in Nat, NEW A, NEW t
  PROVE  \E f : IsChain(f, n, A, t)
<1> DEFINE Bad == {m \in Nat : ~ \E f : IsChain(f, m, A, t)}
<1> SUFFICES ASSUME Bad # {} PROVE FALSE
  OBVIOUS
<1>1. PICK m \in Bad : \A y \in Bad : ~ (<<y, m>> \in OpToRel(<, Nat))
  BY NatLessThanWellFounded, WFMin
<1>2. \A y \in Bad : ~(y < m)
  BY <1>1 DEF OpToRel
<1>3. CASE m = 0
  <2> DEFINE f == [i \in 0..0 |-> Untouched]
  <2>1. IsChain(f, 0, A, t)
    BY DEF IsChain
  <2> QED BY <1>3, <2>1
<1>4. CASE m # 0
  <2>1. m - 1 \in Nat /\ m - 1 < m
    BY <1>4
  <2>2. m - 1 \notin Bad
    BY <1>2, <2>1
  <2>3. PICK g : IsChain(g, m - 1, A, t)
    BY <2>1, <2>2
  <2> DEFINE f == [i \in 0..m |-> IF i < m THEN g[i]
                                  ELSE ApplyRule(g[m - 1], Rules[m], A, t)]
  <2>4. \A i \in 0..(m - 1) :
           g[i] = IF i = 0 THEN Untouched ELSE ApplyRule(g[i - 1], Rules[i], A, t)
    BY <2>3 DEF IsChain
  <2>5. ASSUME NEW i \in 0..m
        PROVE  f[i] = IF i = 0 THEN Untouched ELSE ApplyRule(f[i - 1], Rules[i], A, t)
    <3>1. CASE i = 0
      BY <1>4, <2>4, <3>1
    <3>2. CASE i # 0 /\ i < m
      <4>1. i \in 0..(m - 1) /\ i - 1 \in 0..m /\ i - 1 < m /\ f[i - 1] = g[i - 1]
        BY <3>2
      <4> QED BY <2>4, <3>2, <4>1
    <3>3. CASE i = m
      <4>1. i - 1 \in 0..m /\ i - 1 < m /\ f[i - 1] = g[m - 1]
        BY <1>4, <3>3
      <4> QED BY <1>4, <3>3, <4>1
    <3> QED BY <3>1, <3>2, <3>3
  <2>6. IsChain(f, m, A, t)
    <3> HIDE DEF f
    <3>1. f = [i \in 0..m |-> f[i]]
      BY DEF f
    <3> QED BY <2>5, <3>1 DEF IsChain
  <2> QED BY <2>6
<1> QED BY <1>3, <1>4

\* advance_states returns the last member of such a list.
LEMMA AdvanceIsChain ==
  ASSUME NEW sigs, NEW t
  PROVE  \E f : /\ IsChain(f, Len(Rules), collect_active(sigs), t)
                /\ advance_states(sigs, t) = f[Len(Rules)]
<1> DEFINE A == collect_active(sigs)
           f == CHOOSE g : IsChain(g, Len(Rules), A, t)
<1>1. Len(Rules) \in Nat
  BY RulesAssumption
<1>2. IsChain(f, Len(Rules), A, t)
  BY <1>1, ChainExists
<1>3. advance_states(sigs, t) = f[Len(Rules)]
  BY DEF advance_states, IsChain, Untouched
<1> QED BY <1>2, <1>3

-----------------------------------------------------------------------------
(* Type correctness, for any list of rules. *)

\* What SlotsTypeOK asks of the slots and outputs, of those under way; and each
\* slot was there before or is for one of the active signals A.
AccTypeOK(acc, A) ==
    /\ DOMAIN acc.states \subseteq DOMAIN states \cup {KeyOf(s) : s \in A}
    /\ DOMAIN acc.states \subseteq RuledKeys
    /\ acc.states = [k \in DOMAIN acc.states |-> acc.states[k]]
    /\ \A k \in DOMAIN acc.states : acc.states[k] \in AlertSlot
    /\ acc.events \subseteq AlertEvent
    /\ acc.heartbeats \subseteq AlertSignal

\* The active signals are signals that some rule lets through.
LEMMA ActiveIsRuled ==
  ASSUME NEW sigs \in SUBSET AlertSignal, NEW s \in collect_active(sigs)
  PROVE  /\ s \in AlertSignal
         /\ KeyOf(s) \in RuledKeys
         /\ KeyOf(s).kind = s.kind
<1>1. s \in AlertSignal
  BY DEF collect_active
<1>2. s.proto \in Protos /\ s.kind \in AlertKind
  BY <1>1 DEF AlertSignal
<1>3. KeyOf(s) \in AlertKey /\ KeyOf(s).kind = s.kind
  BY <1>2 DEF KeyOf, AlertKey
<1>4. \E i \in DOMAIN Rules : Rules[i].kind = s.kind
  BY DEF collect_active, Eligible
<1> QED BY <1>1, <1>3, <1>4 DEF RuledKeys

LEMMA RuleType ==
  ASSUME NEW i \in DOMAIN Rules
  PROVE  Rules[i] \in AlertRule
  BY RulesAssumption

\* The alerts of a tick are made of the fields of their signal, key and rule.
LEMMA AlertTypes ==
  /\ \A s \in AlertSignal : AlertOf(s, "Fired") \in AlertEvent
  /\ \A k \in AlertKey, rule \in AlertRule : ResolvedOf(k, rule) \in AlertEvent
<1>1. ASSUME NEW s \in AlertSignal PROVE AlertOf(s, "Fired") \in AlertEvent
  BY DEF AlertOf, AlertSignal, AlertEvent, AlertLifecycle
<1>2. ASSUME NEW k \in AlertKey, NEW rule \in AlertRule
      PROVE  ResolvedOf(k, rule) \in AlertEvent
  BY DEF ResolvedOf, AlertKey, AlertRule, AlertEvent, AlertLifecycle, Confidence
<1> QED BY <1>1, <1>2

\* A rule advances every slot of its kind and leaves well-typed slots behind.
LEMMA RuleKeepsType ==
  ASSUME NEW sigs \in SUBSET AlertSignal, NEW t \in Nat,
         NEW i \in DOMAIN Rules, NEW acc, AccTypeOK(acc, collect_active(sigs))
  PROVE  AccTypeOK(ApplyRule(acc, Rules[i], collect_active(sigs), t), collect_active(sigs))
<1> DEFINE A == collect_active(sigs)
           rule == Rules[i]
           keys == {k \in DOMAIN acc.states \cup {KeyOf(s) : s \in A} : k.kind = rule.kind}
           entry(k) == IF k \in DOMAIN acc.states THEN acc.states[k] ELSE New
           signal(k) == {s \in A : KeyOf(s) = k}
           after(k) == advance(entry(k), signal(k) # {}, t, rule)
           outcome(k) == Lifecycle(entry(k), after(k))
           fired == UNION {{AlertOf(s, "Fired") : s \in signal(k)} :
                             k \in {x \in keys : outcome(x) = {"Fired"}}}
           resolved == {ResolvedOf(k, rule) :
                          k \in {x \in keys : outcome(x) = {"Resolved"}}}
           r == ApplyRule(acc, rule, A, t)
           slots == [k \in DOMAIN acc.states \cup keys |->
                       IF k \in keys THEN after(k) ELSE acc.states[k]]
           affirmed == UNION {signal(k) : k \in {x \in keys : outcome(x) = {}
                                                         /\ is_firing(after(x))}}
<1>1. /\ r.states = slots
      /\ r.events = acc.events \cup resolved \cup fired
      /\ r.heartbeats = acc.heartbeats \cup affirmed
  <2>1. r = [states     |-> slots,
             events     |-> acc.events \cup resolved \cup fired,
             heartbeats |-> acc.heartbeats \cup affirmed]
    BY DEF ApplyRule
  <2> HIDE DEF r, slots, fired, resolved, affirmed
  <2> QED BY <2>1
<1>2. /\ keys \subseteq RuledKeys
      /\ keys \subseteq DOMAIN states \cup {KeyOf(s) : s \in A}
  BY ActiveIsRuled DEF AccTypeOK
<1>3. \A k : entry(k) \in AlertSlot
  BY NewSlot DEF AccTypeOK
<1>4. \A k : after(k) \in AlertSlot
  <2> TAKE k
  <2>1. entry(k) \in AlertSlot /\ (signal(k) # {}) \in BOOLEAN
    BY <1>3
  <2> HIDE DEF entry, signal
  <2> QED BY <2>1, AdvanceType
<1>5. A \subseteq AlertSignal
  BY ActiveIsRuled
<1>6. rule \in AlertRule /\ RuledKeys \subseteq AlertKey
  BY RuleType DEF RuledKeys
<1> HIDE DEF r, A, rule, keys, after, entry, outcome
<1>7. r.events \subseteq AlertEvent
  <2>1. ASSUME NEW k \in keys, NEW s \in signal(k)
        PROVE  AlertOf(s, "Fired") \in AlertEvent
    BY <1>5, AlertTypes
  <2>2. ASSUME NEW k \in keys PROVE ResolvedOf(k, rule) \in AlertEvent
    BY <1>2, <1>6, AlertTypes
  <2>3. fired \subseteq AlertEvent
    BY <2>1
  <2>4. resolved \subseteq AlertEvent
    BY <2>2
  <2>5. acc.events \subseteq AlertEvent
    BY DEF AccTypeOK
  <2> HIDE DEF fired, resolved
  <2> QED BY <1>1, <2>3, <2>4, <2>5
<1>8. r.heartbeats \subseteq AlertSignal
  BY <1>1, <1>5 DEF AccTypeOK
<1>9. /\ DOMAIN r.states = DOMAIN acc.states \cup keys
      /\ \A k \in DOMAIN r.states : r.states[k] \in AlertSlot
      /\ r.states = [k \in DOMAIN r.states |-> r.states[k]]
  BY <1>1, <1>4 DEF AccTypeOK
<1> QED BY <1>2, <1>7, <1>8, <1>9 DEF AccTypeOK, r, A, rule

\* A property of the start that every rule passes on holds at the end.
LEMMA ChainTyped ==
  ASSUME SlotsTypeOK, NEW sigs \in SUBSET AlertSignal, NEW t \in Nat
  PROVE  AccTypeOK(advance_states(sigs, t), collect_active(sigs))
<1> DEFINE A == collect_active(sigs)
<1>1. PICK f : /\ IsChain(f, Len(Rules), A, t)
               /\ advance_states(sigs, t) = f[Len(Rules)]
  BY AdvanceIsChain
<1>2. Len(Rules) \in Nat /\ DOMAIN Rules = 1..Len(Rules)
  BY RulesAssumption
<1>3. \A i \in 0..Len(Rules) :
         f[i] = IF i = 0 THEN Untouched ELSE ApplyRule(f[i - 1], Rules[i], A, t)
  BY <1>1 DEF IsChain
<1>4. AccTypeOK(f[0], A)
  <2>1. f[0] = Untouched
    BY <1>2, <1>3
  <2> QED BY <2>1 DEF Untouched, AccTypeOK, SlotsTypeOK, RuledKeys
<1> DEFINE Bad == {m \in Nat : m <= Len(Rules) /\ ~AccTypeOK(f[m], A)}
<1>5. Bad = {}
  <2> SUFFICES ASSUME Bad # {} PROVE FALSE
    OBVIOUS
  <2>1. PICK m \in Bad : \A y \in Bad : ~ (<<y, m>> \in OpToRel(<, Nat))
    BY NatLessThanWellFounded, WFMin
  <2>2. \A y \in Bad : ~(y < m)
    BY <2>1 DEF OpToRel
  <2>3. m # 0
    BY <1>4
  <2>4. m - 1 \in Nat /\ m - 1 <= Len(Rules) /\ m \in DOMAIN Rules /\ m \in 0..Len(Rules)
    BY <1>2, <2>3
  <2>5. AccTypeOK(f[m - 1], A)
    BY <2>2, <2>4
  <2>6. f[m] = ApplyRule(f[m - 1], Rules[m], A, t)
    BY <1>3, <2>3, <2>4
  <2>7. AccTypeOK(f[m], A)
    BY <2>4, <2>5, <2>6, RuleKeepsType
  <2> QED BY <2>7
<1> QED BY <1>1, <1>2, <1>5

\* A tick of the manager keeps the types.
LEMMA TickKeepsType ==
  ASSUME SlotsTypeOK, NEW sigs \in SUBSET AlertSignal, NEW t \in Nat, tick(sigs, t)
  PROVE  SlotsTypeOK'
<1>1. /\ AccTypeOK(advance_states(sigs, t), collect_active(sigs))
      /\ states' = advance_states(sigs, t).states
      /\ events' = advance_states(sigs, t).events
      /\ heartbeats' = advance_states(sigs, t).heartbeats
  BY ChainTyped DEF tick
<1>2. /\ DOMAIN states' \subseteq RuledKeys
      /\ states' = [k \in DOMAIN states' |-> states'[k]]
      /\ \A k \in DOMAIN states' : states'[k] \in AlertSlot
      /\ events' \subseteq AlertEvent
      /\ heartbeats' \subseteq AlertSignal
  BY <1>1 DEF AccTypeOK
<1> QED BY <1>2 DEF SlotsTypeOK, RuledKeys

\* The keys with an eligible signal.
EligibleKeys(sigs) == {KeyOf(s) : s \in collect_active(sigs)}

\* A tick creates slots only for keys with an eligible signal.
LEMMA TickTracks ==
  ASSUME SlotsTypeOK, NEW sigs \in SUBSET AlertSignal, NEW t \in Nat, tick(sigs, t),
         NEW k \in DOMAIN states'
  PROVE  k \in DOMAIN states \/ k \in EligibleKeys(sigs)
<1>1. /\ AccTypeOK(advance_states(sigs, t), collect_active(sigs))
      /\ states' = advance_states(sigs, t).states
  BY ChainTyped DEF tick
<1> QED BY <1>1 DEF AccTypeOK, EligibleKeys

TypeOK == /\ SlotsTypeOK
          /\ {now, ticks} \subseteq Nat
          /\ run   \in [RuledKeys -> Nat]
          /\ quiet \in [RuledKeys -> Nat]
          /\ last_fire \in [RuledKeys -> Option(Nat)]

LEMMA TypeInit == Init => TypeOK
  BY DEF Init, SlotsInit, TypeOK, SlotsTypeOK, Option

LEMMA TypeStep == TypeOK /\ [Next]_vars => TypeOK'
<1> SUFFICES ASSUME TypeOK, [Next]_vars PROVE TypeOK'
  OBVIOUS
<1>1. ASSUME NEW sigs \in SUBSET Signals, NEW d \in Steps, Tick(sigs, d)
      PROVE  TypeOK'
  <2>1. now + d \in Nat /\ sigs \subseteq AlertSignal
    BY ProtoHistoryAssumption DEF TypeOK
  <2>2. SlotsTypeOK'
    BY <1>1, <2>1, TickKeepsType DEF Tick, TypeOK
  <2>3. now' \in Nat /\ ticks' \in Nat
    BY <1>1, <2>1 DEF Tick, TypeOK
  <2>4. run' \in [RuledKeys -> Nat] /\ quiet' \in [RuledKeys -> Nat]
    BY <1>1 DEF Tick, TypeOK
  <2>5. last_fire' \in [RuledKeys -> Option(Nat)]
    <3>1. {now + d} \in Option(Nat)
      BY <2>1 DEF Option
    <3> QED BY <1>1, <3>1 DEF Tick, TypeOK
  <2> QED BY <2>2, <2>3, <2>4, <2>5 DEF TypeOK
<1>2. CASE UNCHANGED vars
  BY <1>2 DEF vars, slotVars, TypeOK, SlotsTypeOK
<1> QED BY <1>1, <1>2 DEF Next

\* Whatever the rules, repeated kinds included, slots and alerts are well typed
\* and only ever about a kind that some rule asks for: `find` in frozen_protos
\* never comes back empty.
THEOREM TypeCorrect == Spec => []TypeOK
  BY TypeInit, TypeStep, PTL DEF Spec

-----------------------------------------------------------------------------
(* What a tick does to one key, when no kind has two rules. *)

LEMMA FindRuleType ==
  ASSUME NEW k \in RuledKeys
  PROVE  \E i \in DOMAIN Rules : Rules[i].kind = k.kind /\ FindRule(k.kind) = Rules[i]
<1> DEFINE matching == {i \in DOMAIN Rules : Rules[i].kind = k.kind}
<1>1. matching # {} /\ matching \subseteq Nat
  BY RulesAssumption DEF RuledKeys
<1>2. \E i \in matching : \A j \in matching : i <= j
  <2>1. PICK i \in matching : \A j \in matching : ~ (<<j, i>> \in OpToRel(<, Nat))
    BY <1>1, NatLessThanWellFounded, WFMin
  <2> HIDE DEF matching
  <2>2. \A j \in matching : ~(j < i)
    BY <1>1, <2>1 DEF OpToRel
  <2>3. \A j \in matching : i <= j
    BY <1>1, <2>2
  <2> QED BY <2>3
<1>3. (CHOOSE i \in matching : \A j \in matching : i <= j) \in matching
  BY <1>2
<1>4. FindRule(k.kind) = Rules[CHOOSE i \in matching : \A j \in matching : i <= j]
  BY DEF FindRule
<1> HIDE DEF matching
<1>5. PICK i \in matching : FindRule(k.kind) = Rules[i]
  BY <1>3, <1>4
<1> QED BY <1>5 DEF matching

\* The rule that `find` finds for a kind is the only rule of that kind.
LEMMA FindRuleUnique ==
  ASSUME DistinctKinds, NEW k \in RuledKeys,
         NEW i \in DOMAIN Rules, Rules[i].kind = k.kind
  PROVE  FindRule(k.kind) = Rules[i]
  BY FindRuleType DEF DistinctKinds

Entry(k) == IF k \in DOMAIN states THEN states[k] ELSE New

SignalOf(k, A) == {s \in A : KeyOf(s) = k}

Advanced(k, A, t) == advance(Entry(k), SignalOf(k, A) # {}, t, FindRule(k.kind))

Outcome(k, A, t) == Lifecycle(Entry(k), Advanced(k, A, t))

\* The keys of the kinds K that a tick touches.
Touched(K, A) == {k \in DOMAIN states \cup {KeyOf(s) : s \in A} : k.kind \in K}

\* acc is what the rules of the kinds K leave: each touched key of these kinds
\* has been advanced once, and all others are as they were.
Reached(acc, K, A, t) ==
    /\ acc.states = [k \in DOMAIN states \cup Touched(K, A) |->
                       IF k.kind \in K THEN Advanced(k, A, t) ELSE states[k]]
    /\ \A e : e \in acc.events <=>
         \/ \E k \in Touched(K, A) : \E s \in SignalOf(k, A) :
               Outcome(k, A, t) = {"Fired"} /\ e = AlertOf(s, "Fired")
         \/ \E k \in Touched(K, A) :
               Outcome(k, A, t) = {"Resolved"} /\ e = ResolvedOf(k, FindRule(k.kind))
    /\ \A h : h \in acc.heartbeats <=>
         \E k \in Touched(K, A) : /\ h \in SignalOf(k, A)
                                  /\ Outcome(k, A, t) = {}
                                  /\ is_firing(Advanced(k, A, t))

\* Nothing is advanced before the first rule.
LEMMA ReachedNone ==
  ASSUME SlotsTypeOK, NEW A, NEW t
  PROVE  Reached(Untouched, {}, A, t)
<1>1. Touched({}, A) = {}
  BY DEF Touched
<1>2. states = [k \in DOMAIN states |-> states[k]]
  BY DEF SlotsTypeOK
<1> QED BY <1>1, <1>2 DEF Reached, Untouched

\* A rule of a new kind advances the keys of its kind.
LEMMA ReachedMore ==
  ASSUME SlotsTypeOK, DistinctKinds,
         NEW sigs \in SUBSET AlertSignal, NEW t \in Nat,
         NEW K, NEW acc, Reached(acc, K, collect_active(sigs), t),
         NEW i \in DOMAIN Rules, Rules[i].kind \notin K
  PROVE  Reached(ApplyRule(acc, Rules[i], collect_active(sigs), t),
                 K \cup {Rules[i].kind}, collect_active(sigs), t)
<1> DEFINE A == collect_active(sigs)
           rule == Rules[i]
           L == K \cup {rule.kind}
           keys == {k \in DOMAIN acc.states \cup {KeyOf(s) : s \in A} : k.kind = rule.kind}
           entry(k) == IF k \in DOMAIN acc.states THEN acc.states[k] ELSE New
           signal(k) == {s \in A : KeyOf(s) = k}
           after(k) == advance(entry(k), signal(k) # {}, t, rule)
           outcome(k) == Lifecycle(entry(k), after(k))
           fired == UNION {{AlertOf(s, "Fired") : s \in signal(k)} :
                             k \in {x \in keys : outcome(x) = {"Fired"}}}
           resolved == {ResolvedOf(k, rule) :
                          k \in {x \in keys : outcome(x) = {"Resolved"}}}
           slots == [k \in DOMAIN acc.states \cup keys |->
                       IF k \in keys THEN after(k) ELSE acc.states[k]]
           affirmed == UNION {signal(k) : k \in {x \in keys : outcome(x) = {}
                                                         /\ is_firing(after(x))}}
           r == ApplyRule(acc, rule, A, t)
<1>1. /\ r.states = slots
      /\ r.events = acc.events \cup resolved \cup fired
      /\ r.heartbeats = acc.heartbeats \cup affirmed
  <2>1. r = [states     |-> slots,
             events     |-> acc.events \cup resolved \cup fired,
             heartbeats |-> acc.heartbeats \cup affirmed]
    BY DEF ApplyRule
  <2> HIDE DEF r, slots, fired, resolved, affirmed
  <2> QED BY <2>1
<1>2. /\ acc.states = [k \in DOMAIN states \cup Touched(K, A) |->
                         IF k.kind \in K THEN Advanced(k, A, t) ELSE states[k]]
      /\ DOMAIN acc.states = DOMAIN states \cup Touched(K, A)
  BY DEF Reached
<1> HIDE DEF A
<1>3. keys = Touched({rule.kind}, A)
  BY <1>2 DEF Touched
<1>4. Touched(L, A) = Touched(K, A) \cup keys
  BY <1>3 DEF Touched
<1>5. ASSUME NEW k \in keys
      PROVE  /\ signal(k) = SignalOf(k, A)
             /\ entry(k) = Entry(k)
             /\ after(k) = Advanced(k, A, t)
             /\ outcome(k) = Outcome(k, A, t)
             /\ rule = FindRule(k.kind)
             /\ k.kind = rule.kind /\ k.kind \notin K
  <2>1. k.kind = rule.kind /\ k.kind \notin K
    OBVIOUS
  <2>2. k \in RuledKeys
    BY <1>3, ActiveIsRuled DEF Touched, SlotsTypeOK, RuledKeys, A
  <2>3. rule = FindRule(k.kind)
    BY <2>1, <2>2, FindRuleUnique
  <2>4. k \in DOMAIN acc.states <=> k \in DOMAIN states
    BY <1>2, <2>1 DEF Touched
  <2>5. entry(k) = Entry(k)
    BY <1>2, <2>1, <2>4 DEF Entry
  <2>6. signal(k) = SignalOf(k, A)
    BY DEF SignalOf
  <2>7. after(k) = Advanced(k, A, t)
    BY <2>3, <2>5, <2>6 DEF Advanced
  <2>8. outcome(k) = Outcome(k, A, t)
    BY <2>5, <2>7 DEF Outcome
  <2> QED BY <2>1, <2>3, <2>5, <2>6, <2>7, <2>8
<1>6. r.states = [k \in DOMAIN states \cup Touched(L, A) |->
                    IF k.kind \in L THEN Advanced(k, A, t) ELSE states[k]]
  <2> DEFINE goal == [k \in DOMAIN states \cup Touched(L, A) |->
                        IF k.kind \in L THEN Advanced(k, A, t) ELSE states[k]]
  <2>1. DOMAIN states \cup Touched(L, A) = DOMAIN acc.states \cup keys
    BY <1>2, <1>4
  <2>2. ASSUME NEW k \in DOMAIN acc.states \cup keys PROVE slots[k] = goal[k]
    <3>1. CASE k \in keys
      <4>1. slots[k] = after(k)
        BY <3>1
      <4>2. goal[k] = Advanced(k, A, t)
        BY <1>5, <2>1, <3>1
      <4> QED BY <1>5, <3>1, <4>1, <4>2
    <3>2. CASE k \notin keys
      <4>1. k \in DOMAIN acc.states /\ slots[k] = acc.states[k]
        BY <3>2
      <4>2. k.kind # rule.kind
        BY <3>2, <4>1
      <4>3. acc.states[k] = IF k.kind \in K THEN Advanced(k, A, t) ELSE states[k]
        BY <1>2, <4>1
      <4>4. goal[k] = IF k.kind \in L THEN Advanced(k, A, t) ELSE states[k]
        BY <2>1
      <4>5. k.kind \in L <=> k.kind \in K
        BY <4>2
      <4> QED BY <4>1, <4>3, <4>4, <4>5
    <3> QED BY <3>1, <3>2
  <2> HIDE DEF keys, after
  <2>3. slots = goal
    BY <2>1, <2>2
  <2> QED BY <1>1, <2>3
<1>7. ASSUME NEW e
      PROVE  e \in r.events <=>
               \/ \E k \in Touched(L, A) : \E s \in SignalOf(k, A) :
                     Outcome(k, A, t) = {"Fired"} /\ e = AlertOf(s, "Fired")
               \/ \E k \in Touched(L, A) :
                     Outcome(k, A, t) = {"Resolved"} /\ e = ResolvedOf(k, FindRule(k.kind))
  <2>1. e \in acc.events <=>
          \/ \E k \in Touched(K, A) : \E s \in SignalOf(k, A) :
                Outcome(k, A, t) = {"Fired"} /\ e = AlertOf(s, "Fired")
          \/ \E k \in Touched(K, A) :
                Outcome(k, A, t) = {"Resolved"} /\ e = ResolvedOf(k, FindRule(k.kind))
    BY DEF Reached, A
  <2> HIDE DEF keys, after, signal, entry, outcome, rule, r
  <2>2. e \in fired <=> \E k \in keys : \E s \in SignalOf(k, A) :
                          Outcome(k, A, t) = {"Fired"} /\ e = AlertOf(s, "Fired")
    BY <1>5
  <2>3. e \in resolved <=> \E k \in keys :
           Outcome(k, A, t) = {"Resolved"} /\ e = ResolvedOf(k, FindRule(k.kind))
    BY <1>5
  <2>4. e \in r.events <=> e \in acc.events \/ e \in resolved \/ e \in fired
    BY <1>1
  <2> HIDE DEF fired, resolved
  <2> QED BY <1>4, <2>1, <2>2, <2>3, <2>4
<1>8. ASSUME NEW h
      PROVE  h \in r.heartbeats <=>
               \E k \in Touched(L, A) : /\ h \in SignalOf(k, A)
                                        /\ Outcome(k, A, t) = {}
                                        /\ is_firing(Advanced(k, A, t))
  <2>1. h \in acc.heartbeats <=>
          \E k \in Touched(K, A) : /\ h \in SignalOf(k, A)
                                   /\ Outcome(k, A, t) = {}
                                   /\ is_firing(Advanced(k, A, t))
    BY DEF Reached, A
  <2> HIDE DEF keys, after, signal, entry, outcome, rule, r
  <2>2. h \in affirmed <=> \E k \in keys : /\ h \in SignalOf(k, A)
                                           /\ Outcome(k, A, t) = {}
                                           /\ is_firing(Advanced(k, A, t))
    BY <1>5
  <2>3. h \in r.heartbeats <=> h \in acc.heartbeats \/ h \in affirmed
    BY <1>1
  <2> HIDE DEF affirmed
  <2> QED BY <1>4, <2>1, <2>2, <2>3
<1> HIDE DEF r, L
<1>9. Reached(r, L, A, t)
  BY <1>6, <1>7, <1>8 DEF Reached
<1> QED BY <1>9 DEF r, L, A

\* A tick advances every touched key once, by its own rule.
LEMMA ReachedAll ==
  ASSUME SlotsTypeOK, DistinctKinds,
         NEW sigs \in SUBSET AlertSignal, NEW t \in Nat
  PROVE  Reached(advance_states(sigs, t), {Rules[i].kind : i \in DOMAIN Rules},
                 collect_active(sigs), t)
<1> DEFINE A == collect_active(sigs)
           Kinds(n) == {Rules[i].kind : i \in 1..n}
<1>1. PICK f : /\ IsChain(f, Len(Rules), A, t)
               /\ advance_states(sigs, t) = f[Len(Rules)]
  BY AdvanceIsChain
<1>2. Len(Rules) \in Nat /\ DOMAIN Rules = 1..Len(Rules)
  BY RulesAssumption
<1>3. \A i \in 0..Len(Rules) :
         f[i] = IF i = 0 THEN Untouched ELSE ApplyRule(f[i - 1], Rules[i], A, t)
  BY <1>1 DEF IsChain
<1>4. Reached(f[0], Kinds(0), A, t)
  <2>1. f[0] = Untouched /\ Kinds(0) = {}
    BY <1>2, <1>3
  <2> QED BY <2>1, ReachedNone
<1> HIDE DEF Kinds
<1> DEFINE Bad == {m \in Nat : m <= Len(Rules) /\ ~Reached(f[m], Kinds(m), A, t)}
<1>5. Bad = {}
  <2> SUFFICES ASSUME Bad # {} PROVE FALSE
    OBVIOUS
  <2>1. PICK m \in Bad : \A y \in Bad : ~ (<<y, m>> \in OpToRel(<, Nat))
    BY NatLessThanWellFounded, WFMin
  <2>2. \A y \in Bad : ~(y < m)
    BY <2>1 DEF OpToRel
  <2>3. m # 0
    BY <1>4
  <2>4. m - 1 \in Nat /\ m - 1 <= Len(Rules) /\ m \in DOMAIN Rules /\ m \in 0..Len(Rules)
    BY <1>2, <2>3
  <2>5. Reached(f[m - 1], Kinds(m - 1), A, t)
    BY <2>2, <2>4
  <2>6. f[m] = ApplyRule(f[m - 1], Rules[m], A, t)
    BY <1>3, <2>3, <2>4
  <2>7. Rules[m].kind \notin Kinds(m - 1)
    BY <1>2, <2>4 DEF DistinctKinds, Kinds
  <2>8. Kinds(m - 1) \cup {Rules[m].kind} = Kinds(m)
    BY <2>3 DEF Kinds
  <2>9. Reached(f[m], Kinds(m), A, t)
    <3>1. Reached(ApplyRule(f[m - 1], Rules[m], A, t), Kinds(m - 1) \cup {Rules[m].kind}, A, t)
      BY <2>4, <2>5, <2>7, ReachedMore
    <3> QED BY <2>6, <2>8, <3>1
  <2> QED BY <2>9
<1>6. Reached(f[Len(Rules)], Kinds(Len(Rules)), A, t)
  BY <1>2, <1>5
<1> QED BY <1>1, <1>2, <1>6 DEF Kinds

\* The alerts of a tick are about keys of some rule.
LEMMA EventsRuled ==
  ASSUME SlotsTypeOK, DistinctKinds,
         NEW sigs \in SUBSET AlertSignal, NEW t \in Nat, tick(sigs, t)
  PROVE  /\ \A e \in events' : KeyOf(e) \in RuledKeys
         /\ \A h \in heartbeats' : KeyOf(h) \in RuledKeys
<1> DEFINE A == collect_active(sigs)
           K == {Rules[i].kind : i \in DOMAIN Rules}
           acc == advance_states(sigs, t)
<1>1. Reached(acc, K, A, t)
  BY ReachedAll
<1>2. events' = acc.events /\ heartbeats' = acc.heartbeats
  BY DEF tick
<1>3. Touched(K, A) \subseteq RuledKeys
  BY ActiveIsRuled DEF Touched, SlotsTypeOK, RuledKeys
<1> HIDE DEF acc, A, K
<1>4. ASSUME NEW k \in Touched(K, A), NEW s \in SignalOf(k, A)
      PROVE  KeyOf(s) = k /\ KeyOf(AlertOf(s, "Fired")) = k
  BY DEF SignalOf, KeyOf, AlertOf
<1>5. ASSUME NEW k \in RuledKeys, NEW rule PROVE KeyOf(ResolvedOf(k, rule)) = k
  <2>1. ResolvedOf(k, rule).proto = k.proto /\ ResolvedOf(k, rule).kind = k.kind
    BY DEF ResolvedOf
  <2> QED BY <2>1 DEF KeyOf, RuledKeys, AlertKey
<1>6. ASSUME NEW e \in events' PROVE KeyOf(e) \in RuledKeys
  BY <1>1, <1>2, <1>3, <1>4, <1>5 DEF Reached
<1>7. ASSUME NEW h \in heartbeats' PROVE KeyOf(h) \in RuledKeys
  BY <1>1, <1>2, <1>3, <1>4 DEF Reached
<1> QED BY <1>6, <1>7

\* What a tick does to a key of some rule, in terms of its slot before and after.
LEMMA TickOnKey ==
  ASSUME SlotsTypeOK, DistinctKinds,
         NEW sigs \in SUBSET AlertSignal, NEW t \in Nat, tick(sigs, t),
         NEW k \in RuledKeys
  PROVE  LET e == Entry(k)
             b == k \in EligibleKeys(sigs)
             a == advance(e, b, t, FindRule(k.kind))
         IN  /\ e \in AlertSlot
             /\ Effect(e, b, t, FindRule(k.kind), a)
             /\ Entry(k)' = a
             /\ k \in DOMAIN states' <=> k \in DOMAIN states \/ b
             /\ k \in FiredKeys(events') <=> ~is_firing(e) /\ is_firing(a)
             /\ (\E x \in events' : KeyOf(x) = k /\ x.lifecycle = "Resolved")
                  <=> is_firing(e) /\ ~is_firing(a)
             /\ (\E h \in heartbeats' : KeyOf(h) = k)
                  <=> b /\ is_firing(e) /\ is_firing(a)
<1> DEFINE A == collect_active(sigs)
           rule == FindRule(k.kind)
           e == Entry(k)
           b == k \in EligibleKeys(sigs)
           a == advance(e, b, t, rule)
           K == {Rules[i].kind : i \in DOMAIN Rules}
<1>1. /\ states' = [x \in DOMAIN states \cup Touched(K, A) |->
                      IF x.kind \in K THEN Advanced(x, A, t) ELSE states[x]]
      /\ \A y : y \in events' <=>
           \/ \E x \in Touched(K, A) : \E s \in SignalOf(x, A) :
                 Outcome(x, A, t) = {"Fired"} /\ y = AlertOf(s, "Fired")
           \/ \E x \in Touched(K, A) :
                 Outcome(x, A, t) = {"Resolved"} /\ y = ResolvedOf(x, FindRule(x.kind))
      /\ \A h : h \in heartbeats' <=>
           \E x \in Touched(K, A) : /\ h \in SignalOf(x, A)
                                    /\ Outcome(x, A, t) = {}
                                    /\ is_firing(Advanced(x, A, t))
  <2> DEFINE acc == advance_states(sigs, t)
  <2>1. Reached(acc, K, A, t)
    BY ReachedAll
  <2>2. states' = acc.states /\ events' = acc.events /\ heartbeats' = acc.heartbeats
    BY DEF tick
  <2> HIDE DEF acc, A, K
  <2> QED BY <2>1, <2>2 DEF Reached
<1>2. k \in AlertKey /\ k.kind \in K
  BY DEF RuledKeys
<1>3. b <=> SignalOf(k, A) # {}
  BY DEF EligibleKeys, SignalOf
<1>4. e \in AlertSlot /\ b \in BOOLEAN
  BY NewSlot DEF Entry, SlotsTypeOK
<1>5. a = Advanced(k, A, t)
  BY <1>3 DEF Advanced
<1> HIDE DEF e, b, rule
<1>6. Effect(e, b, t, rule, a)
  BY <1>4, AdvanceEffect
<1>7. k \in Touched(K, A) <=> k \in DOMAIN states \/ b
  BY <1>2 DEF Touched, EligibleKeys, b
<1> HIDE DEF a, A, K
\* A key that is not touched has a fresh slot, and it stays fresh.
<1>8. k \notin Touched(K, A) => ~b /\ e = New /\ a = New /\ ~is_firing(New)
  <2>1. k \notin Touched(K, A) => ~b /\ e = New
    BY <1>7 DEF e, Entry
  <2> QED BY <1>6, <2>1, NewSlot DEF Effect, is_firing
<1>9. Entry(k)' = a
  <2>1. Entry(k)' = IF k \in DOMAIN states' THEN states'[k] ELSE New
    BY DEF Entry
  <2>2. CASE k \in Touched(K, A)
    BY <1>1, <1>2, <1>5, <2>1, <2>2
  <2>3. CASE k \notin Touched(K, A)
    <3>1. k \notin DOMAIN states
      BY <1>7, <2>3
    <3>2. k \notin DOMAIN states'
      BY <1>1, <2>3, <3>1
    <3> QED BY <1>8, <2>1, <2>3, <3>2
  <2> QED BY <2>2, <2>3
<1>10. k \in DOMAIN states' <=> k \in DOMAIN states \/ b
  BY <1>1, <1>7
<1>11. /\ Outcome(k, A, t) = {"Fired"} <=> ~is_firing(e) /\ is_firing(a)
       /\ Outcome(k, A, t) = {"Resolved"} <=> is_firing(e) /\ ~is_firing(a)
       /\ Outcome(k, A, t) = {} <=> (is_firing(e) <=> is_firing(a))
  <2>1. Outcome(k, A, t) = Lifecycle(e, a)
    BY <1>5 DEF Outcome, e
  <2> QED BY <2>1 DEF Lifecycle
<1>12. ~is_firing(e) /\ is_firing(a) => b
  BY <1>4, <1>6 DEF Effect, is_firing, AlertSlot, AlertPhase
<1>13. \A x \in Touched(K, A) : x \in AlertKey
  BY ActiveIsRuled DEF Touched, SlotsTypeOK, RuledKeys, A
<1>14. \A x, s : s \in SignalOf(x, A) =>
           /\ KeyOf(s) = x
           /\ KeyOf(AlertOf(s, "Fired")) = x /\ AlertOf(s, "Fired").lifecycle = "Fired"
  BY DEF SignalOf, KeyOf, AlertOf
<1>15. \A x \in AlertKey : \A r : /\ KeyOf(ResolvedOf(x, r)) = x
                                  /\ ResolvedOf(x, r).lifecycle = "Resolved"
  <2> SUFFICES ASSUME NEW x \in AlertKey, NEW r
               PROVE  /\ KeyOf(ResolvedOf(x, r)) = x
                      /\ ResolvedOf(x, r).lifecycle = "Resolved"
    OBVIOUS
  <2>1. /\ ResolvedOf(x, r).proto = x.proto
        /\ ResolvedOf(x, r).kind = x.kind
        /\ ResolvedOf(x, r).lifecycle = "Resolved"
    BY DEF ResolvedOf
  <2> QED BY <2>1 DEF KeyOf, AlertKey
<1>16. k \in FiredKeys(events') <=> ~is_firing(e) /\ is_firing(a)
  <2>1. k \in FiredKeys(events') <=>
          \E y \in events' : y.lifecycle = "Fired" /\ KeyOf(y) = k
    BY DEF FiredKeys
  <2>2. ASSUME NEW y \in events', y.lifecycle = "Fired", KeyOf(y) = k
        PROVE  Outcome(k, A, t) = {"Fired"}
    BY <1>1, <1>13, <1>14, <1>15, <2>2
  <2>3. ASSUME ~is_firing(e), is_firing(a)
        PROVE  \E y \in events' : y.lifecycle = "Fired" /\ KeyOf(y) = k
    <3>1. PICK s : s \in SignalOf(k, A)
      BY <1>3, <1>12, <2>3
    <3>2. AlertOf(s, "Fired") \in events'
      BY <1>1, <1>7, <1>11, <1>12, <2>3, <3>1
    <3> QED BY <1>14, <3>1, <3>2
  <2> QED BY <1>11, <2>1, <2>2, <2>3
<1>17. (\E y \in events' : KeyOf(y) = k /\ y.lifecycle = "Resolved")
          <=> is_firing(e) /\ ~is_firing(a)
  <2>1. ASSUME NEW y \in events', y.lifecycle = "Resolved", KeyOf(y) = k
        PROVE  Outcome(k, A, t) = {"Resolved"}
    BY <1>1, <1>13, <1>14, <1>15, <2>1
  <2>2. ASSUME is_firing(e), ~is_firing(a)
        PROVE  ResolvedOf(k, rule) \in events'
    BY <1>1, <1>8, <1>11, <2>2 DEF rule
  <2> QED BY <1>2, <1>11, <1>15, <2>1, <2>2
<1>18. (\E h \in heartbeats' : KeyOf(h) = k) <=> b /\ is_firing(e) /\ is_firing(a)
  <2>1. ASSUME NEW h \in heartbeats', KeyOf(h) = k
        PROVE  b /\ is_firing(e) /\ is_firing(a)
    <3>1. PICK x \in Touched(K, A) : /\ h \in SignalOf(x, A)
                                     /\ Outcome(x, A, t) = {}
                                     /\ is_firing(Advanced(x, A, t))
      BY <1>1
    <3>2. x = k
      BY <1>14, <2>1, <3>1
    <3> QED BY <1>3, <1>5, <1>11, <3>1, <3>2
  <2>2. ASSUME b, is_firing(e), is_firing(a)
        PROVE  \E h \in heartbeats' : KeyOf(h) = k
    <3>1. PICK s : s \in SignalOf(k, A)
      BY <1>3, <2>2
    <3>2. s \in heartbeats'
      BY <1>1, <1>5, <1>7, <1>11, <2>2, <3>1
    <3> QED BY <1>14, <3>1, <3>2
  <2> QED BY <2>1, <2>2
<1> QED BY <1>4, <1>6, <1>9, <1>10, <1>16, <1>17, <1>18 DEF e, b, a, rule

\* What is sent out for a signal has the signal's own values, and its slot is
\* Firing from then on.
LEMMA SentForSignal ==
  ASSUME SlotsTypeOK, DistinctKinds,
         NEW sigs \in SUBSET AlertSignal, NEW t \in Nat, tick(sigs, t),
         NEW e \in heartbeats' \cup {x \in events' : x.lifecycle = "Fired"}
  PROVE  \E s \in collect_active(sigs) :
            /\ e.proto = s.proto /\ e.kind = s.kind /\ e.level = s.level
            /\ KeyOf(s) \in DOMAIN states'
            /\ is_firing(states'[KeyOf(s)])
<1> DEFINE A == collect_active(sigs)
           K == {Rules[i].kind : i \in DOMAIN Rules}
           acc == advance_states(sigs, t)
<1>1. Reached(acc, K, A, t)
  BY ReachedAll
<1>2. /\ states' = acc.states
      /\ events' = acc.events
      /\ heartbeats' = acc.heartbeats
  BY DEF tick
<1> HIDE DEF acc, A, K
<1>3. ASSUME NEW k \in Touched(K, A), NEW s \in SignalOf(k, A),
             is_firing(Advanced(k, A, t))
      PROVE  /\ s \in A /\ KeyOf(s) = k
             /\ KeyOf(s) \in DOMAIN states'
             /\ is_firing(states'[KeyOf(s)])
  <2>1. s \in A /\ KeyOf(s) = k /\ k.kind \in K
    BY DEF SignalOf, Touched
  <2>2. k \in DOMAIN states' /\ states'[k] = Advanced(k, A, t)
    BY <1>1, <1>2, <2>1 DEF Reached
  <2> QED BY <1>3, <2>1, <2>2
<1>4. CASE e \in heartbeats'
  <2>1. PICK k \in Touched(K, A) : e \in SignalOf(k, A) /\ is_firing(Advanced(k, A, t))
    BY <1>1, <1>2, <1>4 DEF Reached
  <2> QED BY <1>3, <2>1 DEF A
<1>5. CASE e \in events' /\ e.lifecycle = "Fired"
  <2>1. \A k, r : ResolvedOf(k, r).lifecycle # "Fired"
    BY DEF ResolvedOf
  <2>0. PICK k \in Touched(K, A) : \E s \in SignalOf(k, A) :
           Outcome(k, A, t) = {"Fired"} /\ e = AlertOf(s, "Fired")
    BY <1>1, <1>2, <1>5, <2>1 DEF Reached
  <2>2. PICK s \in SignalOf(k, A) :
           Outcome(k, A, t) = {"Fired"} /\ e = AlertOf(s, "Fired")
    BY <2>0
  <2>3. is_firing(Advanced(k, A, t))
    BY <2>2 DEF Outcome, Lifecycle
  <2>4. e.proto = s.proto /\ e.kind = s.kind /\ e.level = s.level
    BY <2>2 DEF AlertOf
  <2> QED BY <1>3, <2>2, <2>3, <2>4 DEF A
<1> QED BY <1>4, <1>5

-----------------------------------------------------------------------------
(* The history explains the slots. *)

\* Slot s is what r eligible ticks in a row, and a last Fired at the time in
\* fire, leave behind.
Explains(s, r, fire) ==
    /\ s \in AlertSlot
    /\ s.last_fired = fire
    /\ s.phase = "Inactive" => /\ r = 0
                               /\ s.consecutive_count = 0
                               /\ s.resolve_consecutive_count = 0
    /\ s.phase = "Pending"  => /\ r > 0
                               /\ s.consecutive_count = r
                               /\ s.resolve_consecutive_count = 0

\* advance keeps slot and history in agreement, and fires exactly when the
\* history asks for it.
LEMMA ExplainsAdvance ==
  ASSUME NEW s, NEW r \in Nat, NEW fire, Explains(s, r, fire),
         NEW b \in BOOLEAN, NEW t \in Nat, NEW rule \in AlertRule,
         NEW a, Effect(s, b, t, rule, a)
  PROVE  /\ Explains(a, IF b THEN r + 1 ELSE 0,
                     IF ~is_firing(s) /\ is_firing(a) THEN {t} ELSE fire)
         /\ ~is_firing(s) /\ is_firing(a) <=>
              /\ b /\ ~is_firing(s)
              /\ r + 1 >= rule.consecutive_threshold
              /\ \A f \in fire : duration_since(t, f) >= rule.cooldown
         /\ is_firing(s) /\ ~is_firing(a) <=>
              /\ ~b /\ is_firing(s)
              /\ s.resolve_consecutive_count + 1 >= rule.resolve_consecutive_threshold
<1>1. /\ s.phase \in AlertPhase /\ a.phase \in AlertPhase
      /\ s.consecutive_count \in Nat /\ s.resolve_consecutive_count \in Nat
      /\ rule.consecutive_threshold \in Nat
      /\ rule.resolve_consecutive_threshold \in Nat
      /\ a \in AlertSlot
  BY DEF Explains, Effect, AlertSlot, AlertRule
<1>2. cooldown_passed(s, t, rule.cooldown)
         <=> \A f \in fire : duration_since(t, f) >= rule.cooldown
  BY DEF Explains, cooldown_passed
<1>3. CASE s.phase = "Inactive"
  BY <1>1, <1>2, <1>3 DEF Explains, Effect, is_firing
<1>4. CASE s.phase = "Pending"
  <2>1. CASE b
    <3>1. CASE /\ s.consecutive_count + 1 >= rule.consecutive_threshold
               /\ cooldown_passed(s, t, rule.cooldown)
      BY <1>1, <1>2, <1>4, <2>1, <3>1 DEF Explains, Effect, is_firing
    <3>2. CASE ~(/\ s.consecutive_count + 1 >= rule.consecutive_threshold
                 /\ cooldown_passed(s, t, rule.cooldown))
      BY <1>1, <1>2, <1>4, <2>1, <3>2 DEF Explains, Effect, is_firing
    <3> QED BY <3>1, <3>2
  <2>2. CASE ~b
    BY <1>1, <1>4, <2>2 DEF Explains, Effect, is_firing
  <2> QED BY <2>1, <2>2
<1>5. CASE s.phase = "Firing"
  BY <1>1, <1>5 DEF Explains, Effect, is_firing
<1> QED BY <1>1, <1>3, <1>4, <1>5 DEF AlertPhase

\* The rule of a key is one of the list.
LEMMA RuleOfKey ==
  ASSUME NEW k \in RuledKeys
  PROVE  /\ FindRule(k.kind) \in AlertRule
         /\ FindRule(k.kind).cooldown \in Nat
         /\ FindRule(k.kind).consecutive_threshold \in Nat
         /\ FindRule(k.kind).resolve_consecutive_threshold \in Nat
<1>1. FindRule(k.kind) \in AlertRule
  BY FindRuleType, RuleType
<1> QED BY <1>1 DEF AlertRule

\* One tick of the manager keeps the slot of a key and its history in agreement.
LEMMA ExplainsKey ==
  ASSUME SlotsTypeOK, DistinctKinds,
         NEW sigs \in SUBSET AlertSignal, NEW t \in Nat, tick(sigs, t),
         NEW k \in RuledKeys, NEW r \in Nat, NEW fire, Explains(Entry(k), r, fire)
  PROVE  Explains(Entry(k)', IF k \in EligibleKeys(sigs) THEN r + 1 ELSE 0,
                  IF k \in FiredKeys(events') THEN {t} ELSE fire)
<1> DEFINE b == k \in EligibleKeys(sigs)
           rule == FindRule(k.kind)
           e == Entry(k)
           a == advance(e, b, t, rule)
<1>1. /\ Effect(e, b, t, rule, a)
      /\ Entry(k)' = a
      /\ k \in FiredKeys(events') <=> ~is_firing(e) /\ is_firing(a)
  BY TickOnKey
<1>2. rule \in AlertRule /\ b \in BOOLEAN
  BY RuleOfKey
<1> HIDE DEF a, b, rule, e
<1>3. Explains(a, IF b THEN r + 1 ELSE 0, IF ~is_firing(e) /\ is_firing(a) THEN {t} ELSE fire)
  <2>1. Explains(e, r, fire)
    BY DEF e
  <2>2. Effect(e, b, t, rule, a)
    BY <1>1
  <2>3. /\ Explains(a, IF b THEN r + 1 ELSE 0,
                    IF ~is_firing(e) /\ is_firing(a) THEN {t} ELSE fire)
        /\ ~is_firing(e) /\ is_firing(a) <=>
             /\ b /\ ~is_firing(e)
             /\ r + 1 >= rule.consecutive_threshold
             /\ \A f \in fire : duration_since(t, f) >= rule.cooldown
        /\ is_firing(e) /\ ~is_firing(a) <=>
             /\ ~b /\ is_firing(e)
             /\ e.resolve_consecutive_count + 1 >= rule.resolve_consecutive_threshold
    BY <1>2, <2>1, <2>2, ExplainsAdvance
  <2> QED BY <2>3
<1> QED BY <1>1, <1>3 DEF b

\* Whether a slot is hot can be read off the history of its key.
LEMMA HotExplained ==
  ASSUME NEW s, NEW r \in Nat, NEW fire, Explains(s, r, fire), NEW t, NEW c
  PROVE  is_hot(s, t, c) <=> \/ r > 0
                             \/ is_firing(s)
                             \/ \E f \in fire : duration_since(t, f) < c
<1>1. s.phase \in AlertPhase /\ s.last_fired = fire
  BY DEF Explains, AlertSlot
<1>2. CASE s.phase = "Inactive"
  <2>1. ~(r > 0)
    BY <1>2 DEF Explains
  <2> QED BY <1>1, <1>2, <2>1 DEF is_hot, is_firing
<1>3. CASE s.phase = "Pending"
  BY <1>3 DEF Explains, is_hot
<1>4. CASE s.phase = "Firing"
  BY <1>4 DEF is_hot, is_firing
<1> QED BY <1>1, <1>2, <1>3, <1>4 DEF AlertPhase

\* The inductive invariant: every slot, tracked or still to be created, agrees
\* with the history of the signals of its key.
HistoryExplains ==
    \A k \in RuledKeys :
       /\ Explains(Entry(k), run[k], last_fire[k])
       /\ Entry(k).phase = "Firing" => Entry(k).resolve_consecutive_count = quiet[k]
       /\ \A f \in last_fire[k] : f <= now

LEMMA ExplainsInit == Init => HistoryExplains
<1> SUFFICES ASSUME Init, NEW k \in RuledKeys
             PROVE  /\ Explains(Entry(k), run[k], last_fire[k])
                    /\ Entry(k).phase = "Firing" =>
                         Entry(k).resolve_consecutive_count = quiet[k]
                    /\ \A f \in last_fire[k] : f <= now
  BY DEF HistoryExplains
<1>1. Entry(k) = New
  BY DEF Init, SlotsInit, Entry
<1>2. run[k] = 0 /\ last_fire[k] = {}
  BY DEF Init
<1> QED BY <1>1, <1>2, NewSlot DEF Explains

\* When the history of k asks for a Fired event, and for a Resolved one.
Fires(k, sigs, t) ==
    /\ k \in EligibleKeys(sigs) /\ k \notin Open
    /\ run[k] + 1 >= FindRule(k.kind).consecutive_threshold
    /\ \A f \in last_fire[k] : t - f >= FindRule(k.kind).cooldown

Resolves(k, sigs) ==
    /\ k \notin EligibleKeys(sigs) /\ k \in Open
    /\ quiet[k] + 1 >= FindRule(k.kind).resolve_consecutive_threshold

\* One tick, told on the history alone.
LEMMA TickExplained ==
  ASSUME TypeOK, HistoryExplains, DistinctKinds,
         NEW sigs \in SUBSET Signals, NEW d \in Steps, Tick(sigs, d),
         NEW k \in RuledKeys
  PROVE  /\ run'[k]   = IF k \in EligibleKeys(sigs) THEN run[k] + 1 ELSE 0
         /\ quiet'[k] = IF k \in EligibleKeys(sigs) THEN 0 ELSE quiet[k] + 1
         /\ last_fire'[k] = IF Fires(k, sigs, now + d) THEN {now + d} ELSE last_fire[k]
         /\ Explains(Entry(k)', run'[k], last_fire'[k])
         /\ Entry(k)'.phase = "Firing" =>
              Entry(k)'.resolve_consecutive_count = quiet'[k]
         /\ k \in Open' <=> (k \in Open \/ Fires(k, sigs, now + d)) /\ ~Resolves(k, sigs)
         /\ k \in FiredKeys(events') <=> Fires(k, sigs, now + d)
         /\ (\E x \in events' : KeyOf(x) = k /\ x.lifecycle = "Resolved")
              <=> Resolves(k, sigs)
         /\ (\E h \in heartbeats' : KeyOf(h) = k) <=> k \in Open /\ k \in EligibleKeys(sigs)
<1> DEFINE b == k \in EligibleKeys(sigs)
           rule == FindRule(k.kind)
           t == now + d
           e == Entry(k)
           a == advance(e, b, t, rule)
           fires == Fires(k, sigs, t)
           resolves == Resolves(k, sigs)
<1>1. t \in Nat /\ now \in Nat /\ t >= now /\ b \in BOOLEAN /\ sigs \in SUBSET AlertSignal
  BY ProtoHistoryAssumption DEF TypeOK
<1>2. /\ e \in AlertSlot
      /\ Effect(e, b, t, rule, a)
      /\ Entry(k)' = a
      /\ k \in FiredKeys(events') <=> ~is_firing(e) /\ is_firing(a)
      /\ (\E x \in events' : KeyOf(x) = k /\ x.lifecycle = "Resolved")
           <=> is_firing(e) /\ ~is_firing(a)
      /\ (\E h \in heartbeats' : KeyOf(h) = k) <=> b /\ is_firing(e) /\ is_firing(a)
  BY <1>1, TickOnKey DEF Tick, TypeOK
<1>3. /\ Explains(e, run[k], last_fire[k])
      /\ e.phase = "Firing" => e.resolve_consecutive_count = quiet[k]
      /\ \A f \in last_fire[k] : f \in Nat /\ f <= now
      /\ run[k] \in Nat /\ quiet[k] \in Nat
  BY DEF HistoryExplains, TypeOK, Option
<1>4. rule \in AlertRule /\ rule.consecutive_threshold \in Nat /\ rule.cooldown \in Nat
      /\ rule.resolve_consecutive_threshold \in Nat
  BY RuleOfKey
<1>5. /\ k \in Open <=> is_firing(e)
      /\ k \in Open' <=> is_firing(Entry(k)')
  BY NewSlot DEF Open, Entry, is_firing
<1>6. /\ run'[k]   = IF b THEN run[k] + 1 ELSE 0
      /\ quiet'[k] = IF b THEN 0 ELSE quiet[k] + 1
      /\ last_fire'[k] = IF k \in FiredKeys(events') THEN {t} ELSE last_fire[k]
  BY DEF Tick, EligibleKeys
<1> HIDE DEF e, a, b, rule, t
<1>7. \A f \in last_fire[k] : duration_since(t, f) = t - f
  BY <1>1, <1>3 DEF duration_since
<1>8. /\ Explains(a, IF b THEN run[k] + 1 ELSE 0,
                  IF ~is_firing(e) /\ is_firing(a) THEN {t} ELSE last_fire[k])
      /\ ~is_firing(e) /\ is_firing(a) <=>
           /\ b /\ ~is_firing(e)
           /\ run[k] + 1 >= rule.consecutive_threshold
           /\ \A f \in last_fire[k] : duration_since(t, f) >= rule.cooldown
      /\ is_firing(e) /\ ~is_firing(a) <=>
           /\ ~b /\ is_firing(e)
           /\ e.resolve_consecutive_count + 1 >= rule.resolve_consecutive_threshold
  <2>1. Explains(e, run[k], last_fire[k]) /\ run[k] \in Nat
    BY <1>3
  <2>2. Effect(e, b, t, rule, a) /\ rule \in AlertRule
    BY <1>2, <1>4
  <2> QED BY <1>1, <2>1, <2>2, ExplainsAdvance
<1>9. ~is_firing(e) /\ is_firing(a) <=> fires
  BY <1>5, <1>7, <1>8 DEF Fires, b, rule
<1>10. is_firing(e) /\ ~is_firing(a) <=> resolves
  BY <1>3, <1>5, <1>8 DEF Resolves, is_firing, b, rule
<1>11. a.phase = "Firing" => a.resolve_consecutive_count = quiet'[k]
  BY <1>2, <1>3, <1>6 DEF Explains, Effect, is_firing, AlertSlot, AlertPhase
<1>12. k \in Open /\ b => ~resolves
  BY DEF Resolves, b
<1> HIDE DEF fires, resolves
<1>13. Explains(a, run'[k], last_fire'[k])
  BY <1>2, <1>6, <1>8
<1>14. k \in Open' <=> (k \in Open \/ fires) /\ ~resolves
  BY <1>2, <1>5, <1>9, <1>10
<1>15. (\E h \in heartbeats' : KeyOf(h) = k) <=> k \in Open /\ b
  BY <1>2, <1>5, <1>10, <1>12
<1>16. /\ last_fire'[k] = IF fires THEN {t} ELSE last_fire[k]
       /\ k \in FiredKeys(events') <=> fires
       /\ (\E x \in events' : KeyOf(x) = k /\ x.lifecycle = "Resolved") <=> resolves
  BY <1>2, <1>6, <1>9, <1>10
<1>17. /\ Explains(Entry(k)', run'[k], last_fire'[k])
       /\ Entry(k)'.phase = "Firing" => Entry(k)'.resolve_consecutive_count = quiet'[k]
  BY <1>2, <1>11, <1>13
<1> QED BY <1>6, <1>14, <1>15, <1>16, <1>17 DEF fires, resolves, b, t

LEMMA ExplainsStep ==
  DistinctKinds /\ TypeOK /\ HistoryExplains /\ [Next]_vars => HistoryExplains'
<1>1. ASSUME DistinctKinds, TypeOK, HistoryExplains,
             NEW sigs \in SUBSET Signals, NEW d \in Steps, Tick(sigs, d)
      PROVE  HistoryExplains'
  <2> SUFFICES ASSUME NEW k \in RuledKeys
               PROVE  /\ Explains(Entry(k)', run'[k], last_fire'[k])
                      /\ Entry(k)'.phase = "Firing" =>
                           Entry(k)'.resolve_consecutive_count = quiet'[k]
                      /\ \A f \in last_fire'[k] : f <= now'
    BY DEF HistoryExplains, RuledKeys
  <2>1. /\ Explains(Entry(k)', run'[k], last_fire'[k])
        /\ Entry(k)'.phase = "Firing" =>
             Entry(k)'.resolve_consecutive_count = quiet'[k]
        /\ last_fire'[k] = {now + d} \/ last_fire'[k] = last_fire[k]
    BY <1>1, TickExplained
  <2>2. now' = now + d /\ now \in Nat /\ d \in Nat
    BY <1>1, ProtoHistoryAssumption DEF Tick, TypeOK
  <2>3. \A f \in last_fire[k] : f \in Nat /\ f <= now
    BY <1>1 DEF HistoryExplains, TypeOK, Option
  <2>4. \A f \in last_fire'[k] : f <= now'
    BY <2>1, <2>2, <2>3
  <2> QED BY <2>1, <2>4
<1>2. HistoryExplains /\ UNCHANGED vars => HistoryExplains'
  BY DEF vars, slotVars, HistoryExplains, Entry
<1> QED BY <1>1, <1>2 DEF Next

\* The invariant of the per-protocol manager.
THEOREM HistoryCorrect ==
  ASSUME DistinctKinds
  PROVE  Spec => []HistoryExplains
<1>1. TypeOK /\ HistoryExplains /\ [Next]_vars => HistoryExplains'
  BY ExplainsStep
<1> QED BY <1>1, TypeCorrect, ExplainsInit, PTL DEF Spec

-----------------------------------------------------------------------------
(* Consequences. *)

\* With one rule per kind, a protocol is frozen exactly while the history of one
\* of its freezing alerts says so, although the phases were reset meanwhile.
THEOREM FreezeTheorem ==
  ASSUME DistinctKinds
  PROVE  Spec => []FreezeMatchesHistory
<1> DEFINE Recent(k) == \E f \in last_fire[k] : now - f < FindRule(k.kind).cooldown
           Freezing(k) == FindRule(k.kind).freezes_baseline
           Hot(k) == is_hot(states[k], now, FindRule(k.kind).cooldown)
<1>1. ASSUME TypeOK, HistoryExplains PROVE FreezeMatchesHistory
  <2>1. ASSUME NEW k \in RuledKeys
        PROVE  k \in DOMAIN states /\ Hot(k) <=> run[k] > 0 \/ k \in Open \/ Recent(k)
    <3>1. /\ Explains(Entry(k), run[k], last_fire[k])
          /\ \A f \in last_fire[k] : f \in Nat /\ f <= now
          /\ now \in Nat /\ run[k] \in Nat
      BY <1>1 DEF HistoryExplains, TypeOK, Option
    <3>2. \A f \in last_fire[k] : duration_since(now, f) = now - f
      BY <3>1 DEF duration_since
    <3>3. CASE k \in DOMAIN states
      <4>1. Entry(k) = states[k]
        BY <3>3 DEF Entry
      <4>2. k \in Open <=> is_firing(states[k])
        BY <3>3 DEF Open
      <4>3. Hot(k) <=> \/ run[k] > 0
                       \/ is_firing(states[k])
                       \/ \E f \in last_fire[k] :
                             duration_since(now, f) < FindRule(k.kind).cooldown
        <5>1. Explains(states[k], run[k], last_fire[k]) /\ run[k] \in Nat
          BY <3>1, <4>1
        <5> QED BY <5>1, HotExplained
      <4> QED BY <3>2, <3>3, <4>2, <4>3
    <3>4. CASE k \notin DOMAIN states
      <4>1. Entry(k) = New
        BY <3>4 DEF Entry
      <4>2. run[k] = 0 /\ last_fire[k] = {}
        BY <3>1, <4>1, NewSlot DEF Explains
      <4>3. k \notin Open
        BY <3>4 DEF Open
      <4> QED BY <3>4, <4>2, <4>3
    <3> QED BY <3>3, <3>4
  <2>2. DOMAIN states \subseteq RuledKeys
    BY <1>1 DEF TypeOK, SlotsTypeOK, RuledKeys
  <2>3. frozen_protos(states, now) = {k.proto : k \in {x \in DOMAIN states :
                                                        Freezing(x) /\ Hot(x)}}
    BY DEF frozen_protos
  <2> HIDE DEF Recent, Freezing, Hot
  <2>4. {x \in DOMAIN states : Freezing(x) /\ Hot(x)}
          = {x \in RuledKeys : Freezing(x) /\ (run[x] > 0 \/ x \in Open \/ Recent(x))}
    BY <2>1, <2>2
  <2>5. frozen_protos(states, now) =
          {k.proto : k \in {x \in RuledKeys :
              Freezing(x) /\ (run[x] > 0 \/ x \in Open \/ Recent(x))}}
    BY <2>3, <2>4
  <2> QED BY <2>5 DEF FreezeMatchesHistory, Recent, Freezing
<1> QED BY <1>1, TypeCorrect, HistoryCorrect, PTL

\* With one rule per kind, no key is Fired before its rule has seen the number of
\* consecutive eligible ticks it is documented to require.  The run proto_repeated
\* shows that two rules of one kind break it.
THEOREM FiresTheorem ==
  ASSUME DistinctKinds
  PROVE  Spec => FiresAfterConsecutiveTicks
<1> DEFINE Waited == \A k \in FiredKeys(events') :
              ticks' # ticks =>
                \E i \in DOMAIN Rules : /\ Rules[i].kind = k.kind
                                        /\ run'[k] >= Rules[i].consecutive_threshold
<1>1. TypeOK /\ HistoryExplains /\ Next => Waited
  <2> SUFFICES ASSUME TypeOK, HistoryExplains,
                      NEW sigs \in SUBSET Signals, NEW d \in Steps, Tick(sigs, d),
                      NEW k \in FiredKeys(events')
               PROVE  \E i \in DOMAIN Rules : /\ Rules[i].kind = k.kind
                                              /\ run'[k] >= Rules[i].consecutive_threshold
    BY DEF Next
  <2>1. k \in RuledKeys
    <3>1. sigs \in SUBSET AlertSignal /\ now + d \in Nat
      BY ProtoHistoryAssumption DEF TypeOK
    <3>2. PICK e \in events' : k = KeyOf(e)
      BY DEF FiredKeys
    <3> QED BY <3>1, <3>2, EventsRuled DEF Tick, TypeOK
  <2>2. PICK i \in DOMAIN Rules : Rules[i].kind = k.kind /\ FindRule(k.kind) = Rules[i]
    BY <2>1, FindRuleType
  <2>3. Fires(k, sigs, now + d) /\ run'[k] = run[k] + 1
    BY <2>1, TickExplained DEF Fires
  <2> QED BY <2>2, <2>3 DEF Fires
<1>2. TypeOK /\ HistoryExplains /\ [Next]_vars => [Waited]_vars
  BY <1>1
<1> QED BY <1>2, TypeCorrect, HistoryCorrect, PTL DEF Spec, FiresAfterConsecutiveTicks

-----------------------------------------------------------------------------
(* Refinement. *)

LEMMA ContractInit == Init => Contract!Init
<1> SUFFICES ASSUME Init PROVE Contract!Init
  OBVIOUS
<1>1. Open = {}
  BY DEF Init, SlotsInit, Open
<1> QED BY <1>1 DEF Init, SlotsInit, Contract!Init

\* A tick of the manager is a tick of the contract.
LEMMA ContractTick ==
  ASSUME TypeOK, HistoryExplains, DistinctKinds,
         NEW sigs \in SUBSET Signals, NEW d \in Steps, Tick(sigs, d)
  PROVE  Contract!Tick(EligibleKeys(sigs), now + d)
<1> DEFINE t        == now + d
           sig      == EligibleKeys(sigs)
           fired    == {k \in RuledKeys : Fires(k, sigs, t)}
           resolved == {k \in RuledKeys : Resolves(k, sigs)}
           Tagged   == {[key |-> KeyOf(e), lifecycle |-> e.lifecycle] : e \in events'}
<1>0. t \in Nat /\ sigs \in SUBSET AlertSignal /\ tick(sigs, t) /\ SlotsTypeOK
  BY ProtoHistoryAssumption DEF TypeOK, Tick
<1>1. /\ fired = {k \in RuledKeys : Contract!Fires(k, sig, t)}
      /\ resolved = {k \in RuledKeys : Contract!Resolves(k, sig, t)}
  BY DEF Fires, Resolves, Contract!Fires, Contract!Resolves
<1>2. \A k \in RuledKeys :
         /\ run'[k]   = IF k \in sig THEN run[k] + 1 ELSE 0
         /\ quiet'[k] = IF k \in sig THEN 0 ELSE quiet[k] + 1
         /\ last_fire'[k] = IF k \in fired THEN {t} ELSE last_fire[k]
         /\ k \in Open' <=> (k \in Open \/ k \in fired) /\ k \notin resolved
         /\ k \in FiredKeys(events') <=> k \in fired
         /\ (\E x \in events' : KeyOf(x) = k /\ x.lifecycle = "Resolved") <=> k \in resolved
         /\ (\E h \in heartbeats' : KeyOf(h) = k) <=> k \in Open /\ k \in sig
  BY TickExplained
<1>3. SlotsTypeOK'
  BY <1>0, TickKeepsType
<1>4. /\ Open \subseteq RuledKeys /\ Open' \subseteq RuledKeys
      /\ fired \subseteq RuledKeys /\ resolved \subseteq RuledKeys
  BY <1>0, <1>3 DEF SlotsTypeOK, RuledKeys, Open
<1>5. /\ \A e \in events' : KeyOf(e) \in RuledKeys /\ e.lifecycle \in {"Fired", "Resolved"}
      /\ \A h \in heartbeats' : KeyOf(h) \in RuledKeys
  BY <1>0, <1>3, EventsRuled DEF SlotsTypeOK, AlertEvent, AlertLifecycle
<1> HIDE DEF fired, resolved, sig
<1>6. Open' = (Open \cup fired) \ resolved
  BY <1>2, <1>4
<1>7. {KeyOf(h) : h \in heartbeats'} = {k \in Open : k \in sig}
  BY <1>2, <1>4, <1>5
<1>8. /\ now' = t
      /\ run'   = [k \in RuledKeys |-> IF k \in sig THEN run[k] + 1 ELSE 0]
      /\ quiet' = [k \in RuledKeys |-> IF k \in sig THEN 0 ELSE quiet[k] + 1]
  BY DEF Tick, sig, EligibleKeys
<1>9. last_fire' = [k \in RuledKeys |-> IF k \in fired THEN {t} ELSE last_fire[k]]
  BY <1>2 DEF Tick
<1>10. Tagged = {[key |-> k, lifecycle |-> "Fired"]    : k \in fired}
           \cup {[key |-> k, lifecycle |-> "Resolved"] : k \in resolved}
  <2> DEFINE R == {[key |-> k, lifecycle |-> "Fired"]    : k \in fired}
             \cup {[key |-> k, lifecycle |-> "Resolved"] : k \in resolved}
  <2>1. ASSUME NEW e \in events'
        PROVE  [key |-> KeyOf(e), lifecycle |-> e.lifecycle] \in R
    <3>1. CASE e.lifecycle = "Fired"
      <4>1. KeyOf(e) \in fired
        BY <1>2, <1>5, <3>1 DEF FiredKeys
      <4> QED BY <3>1, <4>1
    <3>2. CASE e.lifecycle = "Resolved"
      <4>1. KeyOf(e) \in resolved
        BY <1>2, <1>5, <3>2
      <4> QED BY <3>2, <4>1
    <3> QED BY <1>5, <3>1, <3>2
  <2>2. ASSUME NEW k \in fired
        PROVE  \E e \in events' : KeyOf(e) = k /\ e.lifecycle = "Fired"
    BY <1>2, <1>4 DEF FiredKeys
  <2>3. ASSUME NEW k \in resolved
        PROVE  \E e \in events' : KeyOf(e) = k /\ e.lifecycle = "Resolved"
    BY <1>2, <1>4
  <2>4. ASSUME NEW y \in R PROVE y \in Tagged
    BY <2>2, <2>3
  <2> QED BY <2>1, <2>4
<1> QED BY <1>1, <1>6, <1>7, <1>8, <1>9, <1>10 DEF Contract!Tick, fired, resolved, sig

\* With one rule per kind the manager implements the contract: it fires,
\* re-affirms and resolves exactly when the history of eligible signals says so.
THEOREM Refinement ==
  ASSUME DistinctKinds
  PROVE  Spec => ImplementsContract
<1>1. TypeOK /\ HistoryExplains /\ [Next]_vars => [Contract!Next]_(Contract!contractVars)
  <2>1. ASSUME TypeOK, HistoryExplains,
               NEW sigs \in SUBSET Signals, NEW d \in Steps, Tick(sigs, d)
        PROVE  Contract!Next
    <3>1. Contract!Tick(EligibleKeys(sigs), now + d)
      BY <2>1, ContractTick
    <3>2. EligibleKeys(sigs) \in SUBSET RuledKeys
      BY ActiveIsRuled, ProtoHistoryAssumption DEF EligibleKeys
    <3> QED BY <3>1, <3>2 DEF Contract!Next
  <2>2. UNCHANGED vars => UNCHANGED Contract!contractVars
    BY DEF vars, slotVars, Contract!contractVars, Open
  <2> QED BY <2>1, <2>2 DEF Next
<1> QED BY <1>1, ContractInit, TypeCorrect, HistoryCorrect, PTL
        DEF Spec, ImplementsContract, Contract!Spec
=============================================================================
