--------------------------- MODULE IpAlertProofs ---------------------------
(***************************************************************************)
(* Proofs about the per-IP alert manager, for every set of source IPs and  *)
(* every value of the cooldown, the thresholds, top_n and the bounds.      *)
(***************************************************************************)
EXTENDS IpAlertHistory, TLAPS

-----------------------------------------------------------------------------
(* The slot.                                                               *)

\* AlertState::new is a slot, and no fire is remembered in it.
LEMMA NewSlot == /\ New \in AlertSlot
                 /\ New.phase = "Inactive"
                 /\ New.consecutive_count = 0
                 /\ New.resolve_consecutive_count = 0
                 /\ New.last_fired = {}
  BY DEF New, AlertSlot, AlertPhase, Option

\* advance maps slots to slots.
LEMMA AdvanceType ==
  ASSUME NEW s \in AlertSlot, NEW b \in BOOLEAN, NEW t \in Nat,
         NEW timing
  PROVE  advance(s, b, t, timing) \in AlertSlot
<1>1. \A u \in AlertSlot : try_fire(u, t, timing) \in AlertSlot
  BY DEF try_fire, AlertSlot, AlertPhase, Option
<1>2. \A u \in AlertSlot : reset(u) \in AlertSlot
  BY DEF reset, AlertSlot, AlertPhase
<1>3. CASE s.phase = "Inactive"
  <2>1. [s EXCEPT !.consecutive_count = 1] \in AlertSlot
    BY DEF AlertSlot
  <2>2. AdvanceInactive(s, b, t, timing) \in AlertSlot
    BY <1>1, <2>1 DEF AdvanceInactive, AlertSlot, AlertPhase
  <2> QED BY <1>3, <2>2 DEF advance
<1>4. CASE s.phase = "Pending"
  <2>1. [s EXCEPT !.consecutive_count = @ + 1] \in AlertSlot
    BY DEF AlertSlot
  <2>2. AdvancePending(s, b, t, timing) \in AlertSlot
    BY <1>1, <1>2, <2>1 DEF AdvancePending
  <2> QED BY <1>4, <2>2 DEF advance
<1>5. CASE s.phase = "Firing"
  <2>1. AdvanceFiring(s, b, t, timing) \in AlertSlot
    BY <1>2 DEF AdvanceFiring, AlertSlot
  <2> QED BY <1>5, <2>1 DEF advance
<1> QED BY <1>3, <1>4, <1>5 DEF AlertSlot, AlertPhase

\* The effect of advance, phase by phase: which phase and counters a tick
\* leaves, and when the fire time is set.
Effect(s, b, t, timing, a) ==
    /\ a \in AlertSlot
    /\ s.phase = "Inactive" /\ ~b => a = s
    /\ s.phase = "Inactive" /\ b =>
         IF /\ 1 >= timing.consecutive_threshold
            /\ cooldown_passed(s, t, timing.cooldown)
           THEN /\ a.phase = "Firing"
                /\ a.last_fired = {t}
                /\ a.resolve_consecutive_count = s.resolve_consecutive_count
           ELSE /\ a.phase = "Pending"
                /\ a.last_fired = s.last_fired
                /\ a.consecutive_count = 1
                /\ a.resolve_consecutive_count = s.resolve_consecutive_count
    /\ s.phase = "Pending" /\ b =>
         IF /\ s.consecutive_count + 1 >= timing.consecutive_threshold
            /\ cooldown_passed(s, t, timing.cooldown)
           THEN /\ a.phase = "Firing"
                /\ a.last_fired = {t}
                /\ a.resolve_consecutive_count = s.resolve_consecutive_count
           ELSE /\ a.phase = "Pending"
                /\ a.last_fired = s.last_fired
                /\ a.consecutive_count = s.consecutive_count + 1
                /\ a.resolve_consecutive_count = s.resolve_consecutive_count
    /\ s.phase = "Firing" /\ b =>
         /\ a.phase = "Firing"
         /\ a.last_fired = s.last_fired
         /\ a.resolve_consecutive_count = 0
    /\ \/ s.phase = "Pending" /\ ~b
       \/ /\ s.phase = "Firing" /\ ~b
          /\ s.resolve_consecutive_count + 1 >= timing.resolve_consecutive_threshold
       => /\ a.phase = "Inactive"
          /\ a.last_fired = s.last_fired
          /\ a.consecutive_count = 0
          /\ a.resolve_consecutive_count = 0
    /\ /\ s.phase = "Firing" /\ ~b
       /\ ~(s.resolve_consecutive_count + 1 >= timing.resolve_consecutive_threshold)
       => /\ a.phase = "Firing"
          /\ a.last_fired = s.last_fired
          /\ a.resolve_consecutive_count = s.resolve_consecutive_count + 1

\* advance has that effect on every slot.
LEMMA AdvanceEffect ==
  ASSUME NEW s \in AlertSlot, NEW b \in BOOLEAN, NEW t \in Nat,
         NEW timing
  PROVE  Effect(s, b, t, timing, advance(s, b, t, timing))
<1> DEFINE a == advance(s, b, t, timing)
<1>0. a \in AlertSlot
  BY AdvanceType
<1> SUFFICES Effect(s, b, t, timing, a)
  OBVIOUS
<1> HIDE DEF a
<1> USE DEF Effect
<1>1. CASE s.phase = "Inactive"
  <2>1. a = AdvanceInactive(s, b, t, timing)
    BY <1>1 DEF advance, a
  <2> QED BY <1>0, <1>1, <2>1
          DEF AdvanceInactive, try_fire, cooldown_passed, is_firing, AlertSlot
<1>2. CASE s.phase = "Pending"
  <2>1. a = AdvancePending(s, b, t, timing)
    BY <1>2 DEF advance, a
  <2> QED BY <1>0, <1>2, <2>1
          DEF AdvancePending, try_fire, cooldown_passed, reset, AlertSlot
<1>3. CASE s.phase = "Firing"
  <2>1. a = AdvanceFiring(s, b, t, timing)
    BY <1>3 DEF advance, a
  <2> QED BY <1>0, <1>3, <2>1 DEF AdvanceFiring, reset, AlertSlot
<1>4. s.phase \in AlertPhase
  BY DEF AlertSlot
<1> QED BY <1>1, <1>2, <1>3, <1>4 DEF AlertPhase

-----------------------------------------------------------------------------
(* Type correctness.                                                       *)

\* The slot a tick starts from is a slot, tracked or fresh.
LEMMA EntryType ==
  ASSUME ManagerTypeOK, NEW ip
  PROVE  Entry(ip) \in AlertSlot
  BY NewSlot DEF ManagerTypeOK, Entry

\* Whatever the signals, a tick leaves well-typed slots behind.
LEMMA AdvancedType ==
  ASSUME ManagerTypeOK, NEW ip, NEW sig, NEW t \in Nat
  PROVE  Advanced(ip, sig, t) \in AlertSlot
<1>1. Entry(ip) \in AlertSlot
  BY EntryType
<1>2. (ip \in sig) \in BOOLEAN
  OBVIOUS
<1> QED BY <1>1, <1>2, AdvanceType DEF Advanced

\* advance keeps a slot one that its phase allows.
LEMMA AdvanceWellFormed ==
  ASSUME NEW s \in AlertSlot, WellFormed(s), NEW b \in BOOLEAN, NEW t \in Nat,
         NEW timing
  PROVE  WellFormed(advance(s, b, t, timing))
<1> DEFINE a == advance(s, b, t, timing)
<1>1. Effect(s, b, t, timing, a)
  BY AdvanceEffect
<1> SUFFICES WellFormed(a)
  OBVIOUS
<1> HIDE DEF a
<1>2. s.phase \in AlertPhase /\ s.consecutive_count \in Nat
  BY DEF AlertSlot
<1>3. CASE s.phase = "Inactive"
  <2>1. \/ a = s
        \/ a.phase = "Firing" /\ a.last_fired = {t}
        \/ a.phase = "Pending" /\ a.consecutive_count = 1
    BY <1>1, <1>3 DEF Effect
  <2> QED BY <1>3, <2>1 DEF WellFormed, is_firing
<1>4. CASE s.phase = "Pending"
  <2>1. s.consecutive_count > 0
    BY <1>4 DEF WellFormed
  <2>2. \/ a.phase = "Firing" /\ a.last_fired = {t}
        \/ a.phase = "Pending" /\ a.consecutive_count = s.consecutive_count + 1
        \/ a.phase = "Inactive"
    BY <1>1, <1>4 DEF Effect
  <2> QED BY <1>2, <2>1, <2>2 DEF WellFormed, is_firing
<1>5. CASE s.phase = "Firing"
  <2>1. s.last_fired # {}
    BY <1>5 DEF WellFormed, is_firing
  <2>2. a.phase = "Inactive" \/ (a.phase = "Firing" /\ a.last_fired = s.last_fired)
    BY <1>1, <1>5 DEF Effect
  <2> QED BY <2>1, <2>2 DEF WellFormed, is_firing
<1> QED BY <1>2, <1>3, <1>4, <1>5 DEF AlertPhase

\* A tick leaves slots that their phases allow.
LEMMA AdvancedWellFormed ==
  ASSUME TypeOK, NEW ip, NEW sig, NEW t \in Nat
  PROVE  WellFormed(Advanced(ip, sig, t))
<1>1. Entry(ip) \in AlertSlot
  BY EntryType DEF TypeOK
<1>2. WellFormed(Entry(ip))
  BY NewSlot DEF Entry, TypeOK, WellFormed, is_firing
<1>3. (ip \in sig) \in BOOLEAN
  OBVIOUS
<1> QED BY <1>1, <1>2, <1>3, AdvanceWellFormed DEF Advanced

\* The empty map a manager starts with is well typed.
LEMMA TypeInit == Init => TypeOK
  BY NewSlot DEF Init, ManagerInit, TypeOK, ManagerTypeOK, Option

\* A tick, or a step that does nothing, keeps the types.
LEMMA TypeStep == TypeOK /\ [Next]_vars => TypeOK'
<1> SUFFICES ASSUME TypeOK, [Next]_vars PROVE TypeOK'
  OBVIOUS
<1>1. ASSUME NEW sig \in SignalSets, NEW d \in Steps, Tick(sig, d)
      PROVE  TypeOK'
  <2>1. now + d \in Nat /\ sig \subseteq IPs
    BY ManagerAssumption DEF SignalSets, TypeOK, ManagerTypeOK
  <2>2. now' \in Nat /\ signals' \subseteq IPs
    BY <1>1, <2>1 DEF Tick, tick
  <2>3. DOMAIN states' \subseteq IPs
    BY <1>1, <2>1 DEF Tick, tick, Keys, TypeOK, ManagerTypeOK
  <2>4. states' \in [DOMAIN states' -> AlertSlot]
    BY <1>1, <2>1, AdvancedType DEF Tick, tick, TypeOK
  <2>5. events' \subseteq IpAlertEvent /\ heartbeats' \subseteq IPs
    BY <1>1, <2>1 DEF Tick, tick, Keys, TypeOK, ManagerTypeOK
  <2>6. ticks' \in Nat /\ run' \in [IPs -> Nat] /\ quiet' \in [IPs -> Nat]
    BY <1>1 DEF Tick, Record, TypeOK
  <2>7. last_fire' \in [IPs -> Option(Nat)]
    <3>1. {now + d} \in Option(Nat)
      BY <2>1 DEF Option
    <3> QED BY <1>1, <3>1 DEF Tick, Record, TypeOK
  <2>8. \A ip \in DOMAIN states' : WellFormed(states'[ip])
    BY <1>1, <2>1, AdvancedWellFormed DEF Tick, tick
  <2> QED BY <2>2, <2>3, <2>4, <2>5, <2>6, <2>7, <2>8 DEF TypeOK, ManagerTypeOK
<1>2. CASE UNCHANGED vars
  BY <1>2 DEF vars, managerVars, historyVars, TypeOK, ManagerTypeOK
<1> QED BY <1>1, <1>2 DEF Next

\* Every reachable state is well typed: in particular the map only ever holds
\* complete slots of real source IPs.
THEOREM TypeCorrect == Spec => []TypeOK
  BY TypeInit, TypeStep, PTL DEF Spec

-----------------------------------------------------------------------------
(* The history explains the slots.                                         *)

\* A fresh entry is explained by its history as well as a tracked one, so a
\* tick need not know whether the entry had been collected.
LEMMA EntryExplained ==
  ASSUME TypeOK, HistoryExplains, NEW ip \in IPs,
         NEW e, e = Entry(ip)
  PROVE  /\ e \in AlertSlot
         /\ e.phase = "Inactive" => /\ run[ip] = 0
                                    /\ e.consecutive_count = 0
                                    /\ e.resolve_consecutive_count = 0
         /\ e.phase = "Pending"  => /\ run[ip] > 0
                                    /\ e.consecutive_count = run[ip]
                                    /\ e.resolve_consecutive_count = 0
         /\ e.phase = "Firing"   => e.resolve_consecutive_count = quiet[ip]
         /\ e.last_fired \subseteq last_fire[ip]
         /\ \A f \in last_fire[ip] : /\ f \in Nat
                                     /\ f <= now
                                     /\ f \in e.last_fired \/ now - f >= Timing.cooldown
<1>1. e \in AlertSlot
  BY EntryType DEF TypeOK
<1>2. \A f \in last_fire[ip] : f \in Nat
  BY DEF TypeOK, Option
<1>3. CASE ip \in DOMAIN states
  <2>1. e = states[ip]
    BY <1>3 DEF Entry
  <2> QED BY <1>1, <1>2, <1>3, <2>1 DEF HistoryExplains, SlotExplained, FireRemembered
<1>4. CASE ip \notin DOMAIN states
  <2>1. e = New
    BY <1>4 DEF Entry
  <2> QED BY <1>1, <1>2, <1>4, <2>1, NewSlot DEF HistoryExplains, FireRemembered
<1> QED BY <1>3, <1>4

\* The slot's own test of the cooldown, on a fire time it may have lost with
\* garbage collection, agrees with the test on the whole history.
LEMMA CooldownAgrees ==
  ASSUME TypeOK, HistoryExplains, NEW ip \in IPs, NEW t \in Nat, t >= now
  PROVE  cooldown_passed(Entry(ip), t, Timing.cooldown)
           <=> \A f \in last_fire[ip] : t - f >= Timing.cooldown
<1>1. Timing.cooldown \in Nat /\ now \in Nat
  BY ManagerAssumption DEF AlertTiming, TypeOK, ManagerTypeOK
<1>2. \A f \in last_fire[ip] : f \in Nat /\ t >= f
  BY <1>1, EntryExplained
<1> QED BY <1>1, <1>2, EntryExplained DEF cooldown_passed, duration_since

\* A fired or resolved event of this tick says how the slot's phase changed.
LEMMA EventsOfTick ==
  ASSUME TypeOK, NEW sig \in SignalSets, NEW d \in Steps, Tick(sig, d),
         NEW ip \in IPs
  PROVE  LET e == Entry(ip)
             a == Advanced(ip, sig, now + d)
         IN  /\ FiredEvent(ip) \in events' <=> ~is_firing(e) /\ is_firing(a)
             /\ [src_ip |-> ip, lifecycle |-> "Resolved"] \in events'
                  <=> is_firing(e) /\ ~is_firing(a)
             /\ ip \in heartbeats' <=> ip \in sig /\ is_firing(e) /\ is_firing(a)
<1> DEFINE e == Entry(ip)
           a == Advanced(ip, sig, now + d)
<1>1. now + d \in Nat
  BY ManagerAssumption DEF TypeOK, ManagerTypeOK
<1>2. ip \notin Keys(sig) => ~is_firing(e) /\ ~is_firing(a)
  <2>1. SUFFICES ASSUME ip \notin Keys(sig) PROVE ~is_firing(e) /\ ~is_firing(a)
    OBVIOUS
  <2>2. e = New /\ ip \notin sig
    BY <2>1 DEF Entry, Keys
  <2>3. Effect(New, ip \in sig, now + d, Timing, a)
    <3>1. a = advance(New, ip \in sig, now + d, Timing) /\ (ip \in sig) \in BOOLEAN
      BY <2>2 DEF Advanced
    <3> QED BY <1>1, <3>1, NewSlot, AdvanceEffect
  <2>4. a = New
    BY <2>2, <2>3, NewSlot DEF Effect
  <2> QED BY <2>2, <2>4, NewSlot DEF is_firing
<1>3. /\ "Fired" \in Lifecycle(e, a) <=> ~is_firing(e) /\ is_firing(a)
      /\ "Resolved" \in Lifecycle(e, a) <=> is_firing(e) /\ ~is_firing(a)
      /\ Lifecycle(e, a) = {} <=> (is_firing(e) <=> is_firing(a))
  <2>1. CASE ~is_firing(e) /\ is_firing(a)
    <3>1. Lifecycle(e, a) = {"Fired"}
      BY <2>1 DEF Lifecycle
    <3> QED BY <2>1, <3>1
  <2>2. CASE is_firing(e) /\ ~is_firing(a)
    <3>1. Lifecycle(e, a) = {"Resolved"}
      BY <2>2 DEF Lifecycle
    <3> QED BY <2>2, <3>1
  <2>3. CASE is_firing(e) <=> is_firing(a)
    <3>1. Lifecycle(e, a) = {}
      BY <2>3 DEF Lifecycle
    <3> QED BY <2>3, <3>1
  <2> QED BY <2>1, <2>2, <2>3
<1>4. \A l \in AlertLifecycle :
         [src_ip |-> ip, lifecycle |-> l] \in events'
           <=> ip \in Keys(sig) /\ l \in Lifecycle(e, a)
  BY DEF Tick, tick, IpAlertEvent
<1>5. ip \in heartbeats' <=> ip \in Keys(sig) /\ Heartbeat(ip, sig, now + d)
  BY DEF Tick, tick
<1>6. Heartbeat(ip, sig, now + d) <=> ip \in sig /\ is_firing(e) /\ is_firing(a)
  BY <1>3 DEF Heartbeat
<1>7. ip \in sig => ip \in Keys(sig)
  BY DEF Keys
<1> QED BY <1>2, <1>3, <1>4, <1>5, <1>6, <1>7 DEF FiredEvent, AlertLifecycle

\* What a tick does to one IP, in terms of the slot before and after advance.
LEMMA TickOnIp ==
  ASSUME TypeOK, NEW sig \in SignalSets, NEW d \in Steps, Tick(sig, d),
         NEW ip \in IPs
  PROVE  LET e == Entry(ip)
             a == Advanced(ip, sig, now + d)
         IN  /\ now' = now + d /\ now' \in Nat /\ now' >= now
             /\ ip \in signals' <=> ip \in sig
             /\ ip \in DOMAIN states' <=> /\ ip \in Keys(sig)
                                          /\ \/ ip \in sig
                                             \/ is_hot(a, now + d, Timing.cooldown)
             /\ ip \in DOMAIN states' => states'[ip] = a
             /\ run'[ip]   = IF ip \in sig THEN run[ip] + 1 ELSE 0
             /\ quiet'[ip] = IF ip \in sig THEN 0 ELSE quiet[ip] + 1
             /\ last_fire'[ip] = IF ~is_firing(e) /\ is_firing(a)
                                   THEN {now + d} ELSE last_fire[ip]
<1>1. now + d \in Nat /\ now + d >= now /\ now' = now + d
  BY ManagerAssumption DEF TypeOK, ManagerTypeOK, Tick, tick
<1>2. ip \in signals' <=> ip \in sig
  BY DEF Tick, tick
<1>3. /\ DOMAIN states' = {i \in Keys(sig) : Retained(i, sig, now + d)}
      /\ \A i \in DOMAIN states' : states'[i] = Advanced(i, sig, now + d)
  BY DEF Tick, tick
<1>4. /\ run'[ip]   = IF ip \in sig THEN run[ip] + 1 ELSE 0
      /\ quiet'[ip] = IF ip \in sig THEN 0 ELSE quiet[ip] + 1
      /\ last_fire'[ip] = IF FiredEvent(ip) \in events' THEN {now + d} ELSE last_fire[ip]
  BY DEF Tick, Record
<1> QED BY <1>1, <1>2, <1>3, <1>4, EventsOfTick DEF Retained

\* Before the first tick there is no history, and nothing to explain.
LEMMA ExplainsInit == Init => HistoryExplains
  BY NewSlot DEF Init, ManagerInit, HistoryExplains, FireRemembered

\* One tick keeps slots and history in agreement.
LEMMA ExplainsTick ==
  ASSUME TypeOK, HistoryExplains,
         NEW sig \in SignalSets, NEW d \in Steps, Tick(sig, d)
  PROVE  HistoryExplains'
<1> SUFFICES ASSUME NEW ip \in IPs
             PROVE  /\ FireRemembered(ip)'
                    /\ ip \in signals' <=> run'[ip] > 0
                    /\ ip \in DOMAIN states' =>
                         /\ SlotExplained(ip)'
                         /\ states'[ip].last_fired \subseteq last_fire'[ip]
                         /\ quiet'[ip] = 0 => ip \in signals'
                         /\ \/ ip \in signals'
                            \/ is_hot(states'[ip], now', Timing.cooldown)
                    /\ ip \notin DOMAIN states' => run'[ip] = 0
  BY DEF HistoryExplains
<1> DEFINE e == Entry(ip)
           b == ip \in sig
           t == now + d
           a == Advanced(ip, sig, t)
<1>1. /\ t \in Nat /\ t >= now /\ now' = t /\ now \in Nat
      /\ run[ip] \in Nat /\ quiet[ip] \in Nat
      /\ Timing.cooldown \in Nat
      /\ Timing.consecutive_threshold \in Nat
      /\ Timing.resolve_consecutive_threshold \in Nat
  BY TickOnIp, ManagerAssumption DEF TypeOK, ManagerTypeOK, AlertTiming
<1>2. a = advance(e, b, t, Timing) /\ b \in BOOLEAN /\ e \in AlertSlot
  BY EntryExplained DEF Advanced
<1> HIDE DEF e, a, t, b
<1>3a. Effect(e, b, t, Timing, a)
  BY <1>1, <1>2, AdvanceEffect
<1>3. a \in AlertSlot /\ e.phase \in AlertPhase /\ a.phase \in AlertPhase
  BY <1>2, <1>3a DEF Effect, AlertSlot
<1>4. /\ e.consecutive_count \in Nat
      /\ e.resolve_consecutive_count \in Nat
  BY <1>2 DEF AlertSlot
<1>5. /\ ip \in signals' <=> b
      /\ run'[ip]   = IF b THEN run[ip] + 1 ELSE 0
      /\ quiet'[ip] = IF b THEN 0 ELSE quiet[ip] + 1
      /\ last_fire'[ip] = IF e.phase # "Firing" /\ a.phase = "Firing"
                            THEN {t} ELSE last_fire[ip]
      /\ ip \in DOMAIN states' => states'[ip] = a
      /\ ip \in DOMAIN states' => b \/ is_hot(a, t, Timing.cooldown)
  BY TickOnIp DEF e, a, t, b, is_firing
\* An entry that the tick does not keep is idle and cooled down.
<1>6. ip \notin DOMAIN states' => /\ ~b
                                  /\ ~is_hot(a, t, Timing.cooldown)
  <2>1. ip \notin Keys(sig) => ~b /\ e = New
    BY DEF Keys, Entry, e, b
  <2>2. ip \notin Keys(sig) => a = New
    BY <1>3a, <2>1, NewSlot DEF Effect
  <2>3. ~is_hot(New, t, Timing.cooldown)
    BY NewSlot DEF is_hot
  <2>4. ip \notin DOMAIN states' /\ ip \in Keys(sig) => ~b /\ ~is_hot(a, t, Timing.cooldown)
    BY TickOnIp DEF a, t, b
  <2> QED BY <2>1, <2>2, <2>3, <2>4
<1>7. e.last_fired \subseteq last_fire[ip]
  BY EntryExplained DEF e
<1>8. \A f \in last_fire[ip] : /\ f \in Nat /\ f <= now
                               /\ f \in e.last_fired \/ now - f >= Timing.cooldown
  BY EntryExplained DEF e
<1>9. a.last_fired = IF e.phase # "Firing" /\ a.phase = "Firing"
                       THEN {t} ELSE e.last_fired
  BY <1>3, <1>3a DEF Effect, AlertPhase
<1>10. FireRemembered(ip)'
  <2> SUFFICES ASSUME NEW f \in last_fire'[ip]
               PROVE  /\ f <= t
                      /\ \/ ip \in DOMAIN states' /\ f \in states'[ip].last_fired
                         \/ t - f >= Timing.cooldown
    BY <1>1 DEF FireRemembered
  <2>1. f \in Nat /\ f <= t
    BY <1>1, <1>5, <1>8
  <2>2. f \in a.last_fired \/ t - f >= Timing.cooldown
    BY <1>1, <1>5, <1>8, <1>9
  <2>3. CASE ip \in DOMAIN states'
    BY <1>5, <2>1, <2>2, <2>3
  <2>4. CASE ip \notin DOMAIN states'
    <3>1. f \in a.last_fired => t - f >= Timing.cooldown
      BY <1>1, <1>3, <1>6, <2>1, <2>4 DEF is_hot, duration_since
    <3> QED BY <2>1, <2>2, <3>1
  <2> QED BY <2>3, <2>4
<1>11. SlotExplained(ip)' \/ ip \notin DOMAIN states'
  <2> SUFFICES ASSUME ip \in DOMAIN states'
               PROVE  /\ a.phase = "Inactive" => /\ run'[ip] = 0
                                                 /\ a.consecutive_count = 0
                                                 /\ a.resolve_consecutive_count = 0
                      /\ a.phase = "Pending"  => /\ run'[ip] > 0
                                                 /\ a.consecutive_count = run'[ip]
                                                 /\ a.resolve_consecutive_count = 0
                      /\ a.phase = "Firing"   =>
                           /\ a.resolve_consecutive_count = quiet'[ip]
                           /\ \/ quiet'[ip] = 0
                              \/ quiet'[ip] < Timing.resolve_consecutive_threshold
    BY <1>5 DEF SlotExplained
  <2>1. /\ e.phase = "Inactive" => /\ run[ip] = 0
                                   /\ e.consecutive_count = 0
                                   /\ e.resolve_consecutive_count = 0
        /\ e.phase = "Pending"  => /\ e.consecutive_count = run[ip]
                                   /\ e.resolve_consecutive_count = 0
        /\ e.phase = "Firing"   => e.resolve_consecutive_count = quiet[ip]
    BY EntryExplained DEF e
  <2>2. CASE e.phase = "Inactive"
    BY <1>1, <1>3a, <1>4, <1>5, <2>1, <2>2 DEF Effect
  <2>3. CASE e.phase = "Pending"
    BY <1>1, <1>3a, <1>4, <1>5, <2>1, <2>3 DEF Effect
  <2>4. CASE e.phase = "Firing"
    BY <1>1, <1>3a, <1>4, <1>5, <2>1, <2>4 DEF Effect
  <2> QED BY <1>3, <2>2, <2>3, <2>4 DEF AlertPhase
<1>12. ip \in DOMAIN states' => states'[ip].last_fired \subseteq last_fire'[ip]
  BY <1>5, <1>7, <1>9
<1> QED BY <1>1, <1>5, <1>6, <1>10, <1>11, <1>12

\* The inductive invariant: every slot, tracked or collected, agrees with the
\* history of the signals of its IP.
THEOREM HistoryCorrect == Spec => []HistoryExplains
<1>1. TypeOK /\ HistoryExplains /\ [Next]_vars => HistoryExplains'
  <2>1. TypeOK /\ HistoryExplains /\ Next => HistoryExplains'
    BY ExplainsTick DEF Next
  <2>2. HistoryExplains /\ UNCHANGED vars => HistoryExplains'
    BY DEF vars, managerVars, historyVars, HistoryExplains, FireRemembered, SlotExplained
  <2> QED BY <2>1, <2>2
<1> QED BY <1>1, TypeCorrect, ExplainsInit, PTL DEF Spec

-----------------------------------------------------------------------------
(* Consequences for the alert stream and for memory.                       *)

\* Garbage collection never shortens a cooldown: a source IP is not fired
\* again before its cooldown has passed, even if its entry was dropped and
\* created anew in between.
THEOREM CooldownTheorem == Spec => CooldownSurvivesGC
<1> DEFINE Respects == \A ip \in IPs :
              ticks' # ticks /\ FiredEvent(ip) \in events'
                => \A f \in last_fire[ip] : now' - f >= Timing.cooldown
<1>1. TypeOK /\ HistoryExplains /\ Next => Respects
  <2> SUFFICES ASSUME TypeOK, HistoryExplains,
                      NEW sig \in SignalSets, NEW d \in Steps, Tick(sig, d),
                      NEW ip \in IPs, FiredEvent(ip) \in events'
               PROVE  \A f \in last_fire[ip] : now' - f >= Timing.cooldown
    BY DEF Next
  <2> DEFINE e == Entry(ip)
             b == ip \in sig
             t == now + d
             a == Advanced(ip, sig, t)
  <2>1. ~is_firing(e) /\ is_firing(a)
    BY EventsOfTick
  <2>2. t \in Nat /\ t >= now /\ now' = t
    BY TickOnIp
  <2>3. a = advance(e, b, t, Timing) /\ b \in BOOLEAN /\ e \in AlertSlot
    BY EntryExplained DEF Advanced
  <2>4. cooldown_passed(e, t, Timing.cooldown)
           <=> \A f \in last_fire[ip] : t - f >= Timing.cooldown
    BY <2>2, CooldownAgrees
  <2> HIDE DEF e, a, b, t
  <2>5. Effect(e, b, t, Timing, a)
    BY <2>2, <2>3, AdvanceEffect
  <2>6. cooldown_passed(e, t, Timing.cooldown)
    BY <2>1, <2>3, <2>5 DEF Effect, is_firing, AlertSlot, AlertPhase
  <2> QED BY <2>2, <2>4, <2>6
<1>2. TypeOK /\ HistoryExplains /\ [Next]_vars => [Respects]_vars
  BY <1>1
<1> QED BY <1>2, TypeCorrect, HistoryCorrect, PTL DEF Spec, CooldownSurvivesGC

\* No entry outlives its reason: signalled, firing and not yet quiet enough,
\* or within the cooldown of its last fire.
THEOREM TrackedTheorem == Spec => []TrackedForAReason
<1>1. TypeOK /\ HistoryExplains => TrackedForAReason
  <2> SUFFICES ASSUME TypeOK, HistoryExplains, NEW ip \in DOMAIN states,
                      ip \notin signals
               PROVE  \/ /\ is_firing(states[ip])
                         /\ quiet[ip] < Timing.resolve_consecutive_threshold
                      \/ Cooling(ip)
    BY DEF TrackedForAReason
  <2>1. ip \in IPs /\ states[ip] \in AlertSlot /\ run[ip] \in Nat
    BY DEF TypeOK, ManagerTypeOK
  <2>2. /\ SlotExplained(ip) /\ FireRemembered(ip)
        /\ states[ip].last_fired \subseteq last_fire[ip]
        /\ quiet[ip] # 0
        /\ is_hot(states[ip], now, Timing.cooldown)
        /\ ~(run[ip] > 0)
    BY <2>1 DEF HistoryExplains
  <2>3. CASE states[ip].phase = "Firing"
    BY <2>2, <2>3 DEF SlotExplained, is_firing
  <2>4. CASE states[ip].phase = "Pending"
    BY <2>2, <2>4 DEF SlotExplained
  <2>5. CASE states[ip].phase = "Inactive"
    <3>1. PICK f \in states[ip].last_fired : duration_since(now, f) < Timing.cooldown
      BY <2>2, <2>5 DEF is_hot
    <3>2. f \in last_fire[ip] /\ f <= now
      BY <2>2, <3>1 DEF FireRemembered
    <3>3. f \in Nat /\ now \in Nat
      BY <2>1, <3>2 DEF TypeOK, ManagerTypeOK, Option
    <3> QED BY <3>1, <3>2, <3>3 DEF Cooling, duration_since
  <2> QED BY <2>1, <2>3, <2>4, <2>5 DEF AlertSlot, AlertPhase
<1> QED BY <1>1, TypeCorrect, HistoryCorrect, PTL

-----------------------------------------------------------------------------
(* Refinement.                                                             *)

\* A new manager has no open alert, as the contract starts.
LEMMA ContractInit == Init => Contract!Init
<1> SUFFICES ASSUME Init PROVE Contract!Init
  OBVIOUS
<1>1. Firing = {}
  BY DEF Init, ManagerInit, Firing
<1> QED BY <1>1 DEF Init, ManagerInit, Contract!Init

\* When the contract fires and resolves, the slots do.
LEMMA ContractDecisions ==
  ASSUME TypeOK, HistoryExplains,
         NEW sig \in SignalSets, NEW d \in Steps, Tick(sig, d),
         NEW ip \in IPs
  PROVE  LET e == Entry(ip)
             a == Advanced(ip, sig, now + d)
         IN  /\ ip \in Firing <=> is_firing(e)
             /\ ip \in Firing' <=> is_firing(a)
             /\ Contract!Fires(ip, sig, now + d) <=> ~is_firing(e) /\ is_firing(a)
             /\ Contract!Resolves(ip, sig, now + d) <=> is_firing(e) /\ ~is_firing(a)
<1> DEFINE e == Entry(ip)
           b == ip \in sig
           t == now + d
           a == Advanced(ip, sig, t)
<1>1. /\ t \in Nat /\ t >= now
      /\ run[ip] \in Nat /\ quiet[ip] \in Nat
      /\ Timing.consecutive_threshold \in Nat
      /\ Timing.resolve_consecutive_threshold \in Nat
  BY TickOnIp, ManagerAssumption DEF TypeOK, ManagerTypeOK, AlertTiming
<1>2. a = advance(e, b, t, Timing) /\ b \in BOOLEAN /\ e \in AlertSlot
  BY EntryExplained DEF Advanced
<1>3. cooldown_passed(e, t, Timing.cooldown)
         <=> \A f \in last_fire[ip] : t - f >= Timing.cooldown
  BY <1>1, CooldownAgrees
<1>4. ip \in Firing <=> is_firing(e)
  BY NewSlot DEF Firing, Entry, is_firing
<1>5. /\ ip \in DOMAIN states' <=> ip \in Keys(sig) /\ (b \/ is_hot(a, t, Timing.cooldown))
      /\ ip \in DOMAIN states' => states'[ip] = a
  BY TickOnIp
<1>6. ip \notin Keys(sig) => e = New /\ ~b
  BY DEF Keys, Entry
<1>7. /\ Contract!Fires(ip, sig, t) <=>
           /\ b /\ ip \notin Firing
           /\ run[ip] + 1 >= Timing.consecutive_threshold
           /\ \A f \in last_fire[ip] : t - f >= Timing.cooldown
      /\ Contract!Resolves(ip, sig, t) <=>
           /\ ~b /\ ip \in Firing
           /\ quiet[ip] + 1 >= Timing.resolve_consecutive_threshold
  BY DEF Contract!Fires, Contract!Resolves
<1>8. /\ e.phase = "Inactive" => run[ip] = 0
      /\ e.phase = "Pending"  => e.consecutive_count = run[ip]
      /\ e.phase = "Firing"   => e.resolve_consecutive_count = quiet[ip]
  BY EntryExplained
<1> HIDE DEF e, a, b, t
<1>9. Effect(e, b, t, Timing, a)
  BY <1>1, <1>2, AdvanceEffect
<1>10. e.phase \in AlertPhase /\ a.phase \in AlertPhase
  BY <1>2, <1>9 DEF AlertSlot, Effect
<1>11. ip \in Firing' <=> is_firing(a)
  <2>1. is_firing(a) => is_hot(a, t, Timing.cooldown)
    BY DEF is_firing, is_hot
  <2>2. ip \notin Keys(sig) => ~is_firing(a)
    BY <1>6, <1>9, NewSlot DEF Effect, is_firing
  <2>3. ip \in Firing' <=> ip \in DOMAIN states' /\ is_firing(states'[ip])
    BY DEF Firing, is_firing
  <2> QED BY <1>5, <2>1, <2>2, <2>3
<1>12. Contract!Fires(ip, sig, t) <=> ~is_firing(e) /\ is_firing(a)
  <2>1. CASE e.phase = "Inactive"
    BY <1>1, <1>3, <1>4, <1>7, <1>8, <1>9, <2>1 DEF Effect, is_firing
  <2>2. CASE e.phase = "Pending"
    BY <1>1, <1>3, <1>4, <1>7, <1>8, <1>9, <2>2 DEF Effect, is_firing
  <2>3. CASE e.phase = "Firing"
    BY <1>4, <1>7, <2>3 DEF is_firing
  <2> QED BY <1>10, <2>1, <2>2, <2>3 DEF AlertPhase
<1>13. Contract!Resolves(ip, sig, t) <=> is_firing(e) /\ ~is_firing(a)
  <2>1. CASE e.phase = "Firing"
    BY <1>1, <1>4, <1>7, <1>8, <1>9, <2>1 DEF Effect, is_firing
  <2>2. CASE e.phase # "Firing"
    BY <1>4, <1>7, <2>2 DEF is_firing
  <2> QED BY <2>1, <2>2
<1> QED BY <1>4, <1>11, <1>12, <1>13 DEF e, a, t

\* A tick of the manager is a tick of the contract.
LEMMA ContractTick ==
  ASSUME TypeOK, HistoryExplains,
         NEW sig \in SignalSets, NEW d \in Steps, Tick(sig, d)
  PROVE  Contract!Tick(sig, now + d)
<1> DEFINE t        == now + d
           fired    == {k \in IPs : Contract!Fires(k, sig, t)}
           resolved == {k \in IPs : Contract!Resolves(k, sig, t)}
           F(k)     == is_firing(Entry(k))
           G(k)     == is_firing(Advanced(k, sig, t))
           Tagged(E) == {[key |-> x.src_ip, lifecycle |-> x.lifecycle] : x \in E}
<1>1. \A k \in IPs : /\ k \in Firing <=> F(k)
                     /\ k \in Firing' <=> G(k)
                     /\ k \in fired <=> ~F(k) /\ G(k)
                     /\ k \in resolved <=> F(k) /\ ~G(k)
  BY ContractDecisions
<1>2. \A k \in IPs : /\ FiredEvent(k) \in events' <=> k \in fired
                     /\ [src_ip |-> k, lifecycle |-> "Resolved"] \in events' <=> k \in resolved
                     /\ k \in heartbeats' <=> k \in sig /\ F(k) /\ G(k)
  BY <1>1, EventsOfTick
<1>3. /\ Firing \subseteq IPs /\ Firing' \subseteq IPs
      /\ events' \subseteq IpAlertEvent /\ heartbeats' \subseteq IPs
      /\ sig \subseteq IPs
  <2>1. TypeOK'
    BY TypeStep DEF Next
  <2> QED BY <2>1 DEF TypeOK, ManagerTypeOK, Firing, SignalSets
<1> HIDE DEF fired, resolved, F, G
<1>4. now' = t
  BY DEF Tick, tick
<1>5. /\ run'   = [k \in IPs |-> IF k \in sig THEN run[k] + 1 ELSE 0]
      /\ quiet' = [k \in IPs |-> IF k \in sig THEN 0 ELSE quiet[k] + 1]
  BY DEF Tick, Record
<1>6. fired \subseteq IPs /\ resolved \subseteq IPs
  BY DEF fired, resolved
<1>7. Firing' = (Firing \cup fired) \ resolved
  BY <1>1, <1>3, <1>6
<1>8. last_fire' = [k \in IPs |-> IF k \in fired THEN {t} ELSE last_fire[k]]
  BY <1>2 DEF Tick, Record
<1>9. heartbeats' = {k \in Firing : k \in sig}
  <2>1. \A k \in IPs : k \in sig /\ F(k) => G(k)
    <3> SUFFICES ASSUME NEW k \in IPs, k \in sig, F(k) PROVE k \notin resolved
      BY <1>1
    <3> QED BY DEF resolved, Contract!Resolves
  <2> QED BY <1>1, <1>2, <1>3, <2>1
<1>10. Tagged(events') = {[key |-> k, lifecycle |-> "Fired"]    : k \in fired}
                    \cup {[key |-> k, lifecycle |-> "Resolved"] : k \in resolved}
  <2> DEFINE R == {[key |-> k, lifecycle |-> "Fired"]    : k \in fired}
             \cup {[key |-> k, lifecycle |-> "Resolved"] : k \in resolved}
  <2>1. ASSUME NEW x \in events'
        PROVE  [key |-> x.src_ip, lifecycle |-> x.lifecycle] \in R
    <3>1. x \in IpAlertEvent
      BY <1>3
    <3>2. PICK k \in IPs, l \in AlertLifecycle : x = [src_ip |-> k, lifecycle |-> l]
      BY <3>1 DEF IpAlertEvent
    <3>3. CASE l = "Fired"
      <4>1. k \in fired
        BY <1>2, <2>1, <3>2, <3>3 DEF FiredEvent
      <4> QED BY <3>2, <3>3, <4>1
    <3>4. CASE l = "Resolved"
      <4>1. k \in resolved
        BY <1>2, <2>1, <3>2, <3>4
      <4> QED BY <3>2, <3>4, <4>1
    <3> QED BY <3>2, <3>3, <3>4 DEF AlertLifecycle
  <2>2. ASSUME NEW y \in R PROVE y \in Tagged(events')
    <3>1. CASE \E k \in fired : y = [key |-> k, lifecycle |-> "Fired"]
      <4>1. PICK k \in fired : y = [key |-> k, lifecycle |-> "Fired"]
        BY <3>1
      <4>2. FiredEvent(k) \in events'
        BY <1>2, <1>6, <4>1
      <4> QED BY <4>1, <4>2 DEF FiredEvent
    <3>2. CASE \E k \in resolved : y = [key |-> k, lifecycle |-> "Resolved"]
      <4>1. PICK k \in resolved : y = [key |-> k, lifecycle |-> "Resolved"]
        BY <3>2
      <4>2. [src_ip |-> k, lifecycle |-> "Resolved"] \in events'
        BY <1>2, <1>6, <4>1
      <4> QED BY <4>1, <4>2
    <3> QED BY <3>1, <3>2
  <2> QED BY <2>1, <2>2
<1> QED BY <1>4, <1>5, <1>7, <1>8, <1>9, <1>10 DEF Contract!Tick, fired, resolved

\* The manager implements the contract: for all thresholds, cooldowns and
\* signal histories it fires, re-affirms and resolves exactly when the history
\* says so, as if no entry were ever collected.
THEOREM Refinement == Spec => ImplementsContract
<1>1. TypeOK /\ HistoryExplains /\ [Next]_vars => [Contract!Next]_(Contract!contractVars)
  <2>1. ASSUME TypeOK, HistoryExplains,
               NEW sig \in SignalSets, NEW d \in Steps, Tick(sig, d)
        PROVE  Contract!Next
    <3>1. Contract!Tick(sig, now + d)
      BY <2>1, ContractTick
    <3>2. sig \in SUBSET IPs
      BY DEF SignalSets
    <3> QED BY <3>1, <3>2 DEF Contract!Next
  <2>2. UNCHANGED vars => UNCHANGED Contract!contractVars
    BY DEF vars, managerVars, historyVars, Contract!contractVars, Firing
  <2> QED BY <2>1, <2>2 DEF Next
<1> QED BY <1>1, ContractInit, TypeCorrect, HistoryCorrect, PTL
        DEF Spec, ImplementsContract, Contract!Spec
=============================================================================
