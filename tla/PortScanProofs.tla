---------------------------- MODULE PortScanProofs ----------------------------
(***************************************************************************)
(* Proofs about the port-scan pipeline, for every set of sources and ports, *)
(* every capacity of the map, window, lag, threshold and top_n, and for    *)
(* every choice of the kernel: what an insert evicts, when it fails, in    *)
(* which order a read meets the keys, and what is touched in between.      *)
(***************************************************************************)
EXTENDS PortScanPipeline, FiniteSetTheorems, TLAPS

-----------------------------------------------------------------------------
(* The slot.                                                               *)

\* AlertState::new is a slot, and no fire is remembered in it.
LEMMA NewSlot == /\ New \in AlertSlot
                 /\ New.phase = "Inactive"
                 /\ New.consecutive_count = 0
                 /\ New.resolve_consecutive_count = 0
                 /\ New.last_fired = {}
  BY DEF New, AlertSlot, AlertPhase, Option

\* advance maps slots to slots.
LEMMA AdvanceType ==
  ASSUME NEW s \in AlertSlot, NEW b \in BOOLEAN, NEW t \in Nat,
         NEW timing
  PROVE  advance(s, b, t, timing) \in AlertSlot
<1>1. \A u \in AlertSlot : try_fire(u, t, timing) \in AlertSlot
  BY DEF try_fire, AlertSlot, AlertPhase, Option
<1>2. \A u \in AlertSlot : reset(u) \in AlertSlot
  BY DEF reset, AlertSlot, AlertPhase
<1>3. CASE s.phase = "Inactive"
  <2>1. [s EXCEPT !.consecutive_count = 1] \in AlertSlot
    BY DEF AlertSlot
  <2>2. AdvanceInactive(s, b, t, timing) \in AlertSlot
    BY <1>1, <2>1 DEF AdvanceInactive, AlertSlot, AlertPhase
  <2> QED BY <1>3, <2>2 DEF advance
<1>4. CASE s.phase = "Pending"
  <2>1. [s EXCEPT !.consecutive_count = @ + 1] \in AlertSlot
    BY DEF AlertSlot
  <2>2. AdvancePending(s, b, t, timing) \in AlertSlot
    BY <1>1, <1>2, <2>1 DEF AdvancePending
  <2> QED BY <1>4, <2>2 DEF advance
<1>5. CASE s.phase = "Firing"
  <2>1. AdvanceFiring(s, b, t, timing) \in AlertSlot
    BY <1>2 DEF AdvanceFiring, AlertSlot
  <2> QED BY <1>5, <2>1 DEF advance
<1> QED BY <1>3, <1>4, <1>5 DEF AlertSlot, AlertPhase

-----------------------------------------------------------------------------
(* The inductive invariant.                                                *)

Touched == {k \in PortScanKey : stamped[k] # {}}

\* The stamps: at most one per key, in the past, and what the map holds is a
\* touch that was stamped and has landed.
Stamps ==
    /\ clock >= Lag
    /\ {stamped, landed} \subseteq [PortScanKey -> SUBSET Nat]
    /\ \A k \in PortScanKey : /\ \A s \in stamped[k] : s <= clock /\ stamped[k] = {s}
                              /\ \A t \in landed[k] : t <= clock /\ landed[k] = {t}
    /\ IsFiniteSet(Touched)
    /\ IsFiniteSet(DOMAIN tracker)
    /\ tracker \in [DOMAIN tracker -> Nat]
    /\ \A k \in DOMAIN tracker : stamped[k] # {} /\ landed[k] # {}

\* What is read was stamped, if not later than the latest stamp of its key.
ReadIsBacked ==
    /\ IsFiniteSet(DOMAIN partial)
    /\ partial \in [DOMAIN partial -> Nat]
    /\ \A k \in DOMAIN partial : \E s \in stamped[k] : partial[k] <= s

\* A key that was there when the read started, and that the read has met or is still
\* bound to, holds, and once it is met was read with, a touch at most Lag older than
\* that entry.
SettledIsKept ==
    /\ settled \in [DOMAIN settled -> SUBSET Nat]
    /\ \A k \in DOMAIN settled : \A t \in settled[k] : t <= clock /\ tracker[k] + Lag >= t
    /\ \A k \in DOMAIN settled \ unread :
          k \in DOMAIN partial /\ \A t \in settled[k] : partial[k] + Lag >= t

IInv == TypeOK /\ Stamps /\ ReadIsBacked /\ SettledIsKept

-----------------------------------------------------------------------------
(* The alert manager within the pipeline.                                  *)

\* Whatever the signals, a tick of the manager keeps its types.
LEMMA ManagerTick ==
  ASSUME ManagerTypeOK, NEW sig \in SUBSET IPs, NEW t \in Nat, tick(sig, t)
  PROVE  ManagerTypeOK'
<1>1. ASSUME NEW ip PROVE Advanced(ip, sig, t) \in AlertSlot
  <2>1. Entry(ip) \in AlertSlot
    BY NewSlot DEF ManagerTypeOK, Entry
  <2>2. (ip \in sig) \in BOOLEAN
    OBVIOUS
  <2> QED BY <2>1, <2>2, AdvanceType DEF Advanced
<1>2. DOMAIN states' \subseteq IPs /\ states' \in [DOMAIN states' -> AlertSlot]
  BY <1>1 DEF tick, Keys, ManagerTypeOK
<1>3. heartbeats' \subseteq IPs
  BY DEF tick, Keys, ManagerTypeOK
<1> QED BY <1>2, <1>3 DEF tick, ManagerTypeOK

\* A signalled source is tracked after the tick, and its alert builds up or is open.
LEMMA SignalHasAlert ==
  ASSUME ManagerTypeOK, NEW sig \in SUBSET IPs, NEW t \in Nat, tick(sig, t), NEW ip \in sig
  PROVE  ip \in DOMAIN states' /\ states'[ip].phase \in {"Pending", "Firing"}
<1> DEFINE e == Entry(ip)
           a == advance(e, TRUE, t, Timing)
<1>1. e \in AlertSlot
  BY NewSlot DEF ManagerTypeOK, Entry
<1>2. ip \in DOMAIN states' /\ states'[ip] = Advanced(ip, sig, t)
  BY DEF tick, Keys, Retained
<1>3. (ip \in sig) = TRUE
  OBVIOUS
<1>4. Advanced(ip, sig, t) = a
  BY <1>3 DEF Advanced
<1> HIDE DEF e
<1>5. \A u \in AlertSlot : try_fire(u, t, Timing).phase \in {u.phase, "Firing"}
  BY DEF try_fire, AlertSlot
<1>6. CASE e.phase = "Inactive"
  <2>1. a = AdvanceInactive(e, TRUE, t, Timing)
    BY <1>6 DEF advance
  <2> DEFINE tried == try_fire([e EXCEPT !.consecutive_count = 1], t, Timing)
  <2>2. tried \in AlertSlot
    BY <1>1 DEF try_fire, AlertSlot, AlertPhase, Option
  <2>3. a = IF is_firing(tried) THEN tried ELSE [tried EXCEPT !.phase = "Pending"]
    BY <2>1 DEF AdvanceInactive
  <2> HIDE DEF tried
  <2>4. a.phase \in {"Pending", "Firing"}
    BY <2>2, <2>3 DEF is_firing, AlertSlot
  <2> QED BY <1>2, <1>4, <2>4
<1>7. CASE e.phase = "Pending"
  <2>1. a = try_fire([e EXCEPT !.consecutive_count = @ + 1], t, Timing)
    BY <1>7 DEF advance, AdvancePending
  <2>2. /\ [e EXCEPT !.consecutive_count = @ + 1] \in AlertSlot
        /\ [e EXCEPT !.consecutive_count = @ + 1].phase = "Pending"
    BY <1>1, <1>7 DEF AlertSlot
  <2>3. a.phase \in {"Pending", "Firing"}
    BY <1>5, <2>1, <2>2
  <2> QED BY <1>2, <1>4, <2>3
<1>8. CASE e.phase = "Firing"
  <2>1. a = [e EXCEPT !.resolve_consecutive_count = 0]
    BY <1>8 DEF advance, AdvanceFiring
  <2>2. a.phase = "Firing"
    BY <1>1, <1>8, <2>1 DEF AlertSlot
  <2> QED BY <1>2, <1>4, <2>2
<1> QED BY <1>1, <1>6, <1>7, <1>8 DEF AlertSlot, AlertPhase

-----------------------------------------------------------------------------
(* The kernel.                                                             *)

\* What a touch stamps: the stamp of its key only grows, and it is backed.
LEMMA StampEffect ==
  ASSUME IInv, NEW key \in PortScanKey, NEW at \in Nat, NEW now_ns \in Nat,
         at <= now_ns, clock <= now_ns,
         stamped' = [stamped EXCEPT ![key] = IF \A s \in @ : s < at THEN {at} ELSE @]
  PROVE  /\ stamped' \in [PortScanKey -> SUBSET Nat]
         /\ \A k \in PortScanKey :
              /\ \A s \in stamped'[k] : s <= now_ns /\ stamped'[k] = {s}
              /\ \A s \in stamped[k] : \E u \in stamped'[k] : s <= u
         /\ \E s \in stamped'[key] : at <= s
         /\ IsFiniteSet(Touched')
<1>1. /\ stamped \in [PortScanKey -> SUBSET Nat] /\ clock \in Nat
      /\ \A k \in PortScanKey : \A s \in stamped[k] : s <= clock /\ stamped[k] = {s}
  BY DEF IInv, Stamps, TypeOK
<1>2. \A k \in PortScanKey :
         stamped'[k] = IF k = key /\ \A s \in stamped[k] : s < at THEN {at} ELSE stamped[k]
  BY <1>1
<1>3. stamped' \in [PortScanKey -> SUBSET Nat]
  BY <1>1
<1>4. ASSUME NEW k \in PortScanKey
      PROVE  /\ \A s \in stamped'[k] : s <= now_ns /\ stamped'[k] = {s}
             /\ \A s \in stamped[k] : \E u \in stamped'[k] : s <= u
  <2>1. CASE stamped'[k] = stamped[k]
    BY <1>1, <2>1
  <2>2. CASE stamped'[k] = {at} /\ \A s \in stamped[k] : s < at
    BY <1>1, <2>2
  <2> QED BY <1>2, <2>1, <2>2
<1>5. \E s \in stamped'[key] : at <= s
  <2>1. CASE \A s \in stamped[key] : s < at
    BY <1>2, <2>1
  <2>2. CASE ~ \A s \in stamped[key] : s < at
    BY <1>1, <1>2, <2>2
  <2> QED BY <2>1, <2>2
<1>6. Touched' \subseteq Touched \cup {key}
  BY <1>2 DEF Touched
<1>7. IsFiniteSet(Touched \cup {key})
  BY FS_AddElement DEF IInv, Stamps
<1>8. IsFiniteSet(Touched')
  BY <1>6, <1>7, FS_Subset
<1> QED BY <1>3, <1>4, <1>5, <1>8

\* Making room for a key keeps the map finite and within its capacity.
LEMMA TouchCapacity ==
  ASSUME IInv, NEW key \in PortScanKey, NEW victims \in Victims(key)
  PROVE  /\ IsFiniteSet((DOMAIN tracker \ victims) \cup {key})
         /\ Cardinality((DOMAIN tracker \ victims) \cup {key})
              <= PORT_SCAN_TRACKER_MAX_ENTRIES
<1>1. IsFiniteSet(DOMAIN tracker \ victims)
  BY FS_Difference DEF IInv, Stamps
<1> QED BY <1>1, FS_AddElement DEF Victims

-----------------------------------------------------------------------------
(* The invariant is inductive.                                             *)

\* An empty map and no read.
LEMMA IInvInit == Init => IInv
<1> SUFFICES ASSUME Init PROVE IInv
  OBVIOUS
<1>1. IsFiniteSet({}) /\ Cardinality({}) = 0
  BY FS_EmptySet
<1>2. ManagerTypeOK
  BY DEF Init, ManagerInit, ManagerTypeOK
<1>3. /\ DOMAIN tracker = {} /\ DOMAIN partial = {} /\ DOMAIN settled = {}
      /\ DOMAIN last_top_n = {} /\ Touched = {}
  BY DEF Init, Empty, Touched
<1>4. TypeOK
  <2>1. clock \in Nat /\ touches \in Nat /\ reads \in Nat
    BY PortScanAssumption DEF Init
  <2>2. /\ Cardinality(DOMAIN tracker) <= PORT_SCAN_TRACKER_MAX_ENTRIES
        /\ Cardinality(DOMAIN last_top_n) <= TopN
    BY <1>1, <1>3, PortScanAssumption, ManagerAssumption
  <2>3. unread = {} /\ reading \in BOOLEAN
    BY DEF Init
  <2> QED BY <1>2, <1>3, <2>1, <2>2, <2>3 DEF TypeOK
<1>5. Stamps
  BY <1>1, <1>3, PortScanAssumption DEF Init, Stamps, Empty
<1> QED BY <1>1, <1>3, <1>4, <1>5 DEF Init, IInv, ReadIsBacked, SettledIsKept, Empty

\* A touch, whatever it evicts and whenever it lands.
LEMMA IInvTouch ==
  ASSUME IInv, NEW key \in PortScanKey, NEW d \in Steps, Touch(key, d)
  PROVE  IInv'
<1>1. PICK lag \in 0..Lag : record_port_touch(key, clock + d - lag, clock + d)
  BY DEF Touch
<1> DEFINE at == clock + d - lag
           t  == clock + d
<1>2. /\ clock' = t /\ touches' = touches + 1
      /\ UNCHANGED <<reading, partial, reads, runnerVars>>
  BY DEF Touch
<1>3. /\ clock \in Nat /\ clock >= Lag /\ Lag \in Nat /\ d \in Nat /\ lag \in Nat
      /\ at \in Nat /\ t \in Nat /\ at <= t /\ clock <= t /\ at + Lag >= t
  <2>1. clock \in Nat /\ clock >= Lag /\ Lag \in Nat /\ d \in Nat
    BY PortScanAssumption, ManagerAssumption DEF IInv, TypeOK, Stamps
  <2> QED BY <2>1
<1>4. stamped' = [stamped EXCEPT ![key] = IF \A s \in @ : s < at THEN {at} ELSE @]
  BY <1>1 DEF record_port_touch, Stamp
<1> HIDE DEF at, t
<1>5. /\ stamped' \in [PortScanKey -> SUBSET Nat]
      /\ \A k \in PortScanKey :
           /\ \A s \in stamped'[k] : s <= t /\ stamped'[k] = {s}
           /\ \A s \in stamped[k] : \E u \in stamped'[k] : s <= u
      /\ \E s \in stamped'[key] : at <= s
      /\ IsFiniteSet(Touched')
  BY <1>3, <1>4, StampEffect
<1>6. /\ DOMAIN partial \subseteq PortScanKey /\ DOMAIN tracker \subseteq PortScanKey
      /\ stamped \in [PortScanKey -> SUBSET Nat] /\ landed \in [PortScanKey -> SUBSET Nat]
      /\ tracker \in [DOMAIN tracker -> Nat]
      /\ settled \in [DOMAIN settled -> SUBSET Nat]
      /\ partial \in [DOMAIN partial -> Nat]
  BY DEF IInv, TypeOK, Stamps, ReadIsBacked, SettledIsKept
<1>7. ManagerTypeOK' /\ Cardinality(DOMAIN last_top_n') <= TopN
  BY <1>2 DEF IInv, TypeOK, runnerVars, managerVars, ManagerTypeOK
<1>8. ReadIsBacked'
  <2>1. ASSUME NEW k \in DOMAIN partial PROVE \E s \in stamped'[k] : partial[k] <= s
    <3>1. PICK s \in stamped[k] : partial[k] <= s
      BY DEF IInv, ReadIsBacked
    <3>2. PICK u \in stamped'[k] : s <= u
      BY <1>5, <1>6, <3>1
    <3>3. partial[k] \in Nat /\ s \in Nat /\ u \in Nat
      BY <1>5, <1>6, <3>1, <3>2
    <3> QED BY <3>1, <3>2, <3>3
  <2> QED BY <1>2, <2>1 DEF IInv, ReadIsBacked
<1> DEFINE
      \* What becomes of the map and of the read, whatever is evicted.
      Kept ==
        /\ DOMAIN tracker' \subseteq PortScanKey
        /\ IsFiniteSet(DOMAIN tracker')
        /\ Cardinality(DOMAIN tracker') <= PORT_SCAN_TRACKER_MAX_ENTRIES
        /\ tracker' \in [DOMAIN tracker' -> Nat]
        /\ landed' \in [PortScanKey -> SUBSET Nat]
        /\ \A k \in PortScanKey : \A l \in landed'[k] : l <= t /\ landed'[k] = {l}
        /\ \A k \in DOMAIN tracker' :
             /\ landed'[k] # {} /\ stamped'[k] # {}
             /\ \A l \in landed'[k], s \in stamped'[k] : tracker'[k] \in l - Lag .. s
        /\ unread' \subseteq DOMAIN settled' /\ DOMAIN settled' \subseteq DOMAIN tracker'
        /\ settled' \in [DOMAIN settled' -> SUBSET Nat]
        /\ \A k \in DOMAIN settled' : /\ k \in DOMAIN settled /\ settled'[k] = settled[k]
                                      /\ k \notin unread' => k \notin unread
                                      /\ tracker'[k] = tracker[k] \/ tracker'[k] = at
<1> HIDE DEF Kept
<1>9. Kept
  <2>1. \A k \in PortScanKey : \A l \in landed[k] :
           l \in Nat /\ l <= clock /\ l <= t /\ landed[k] = {l}
    BY <1>3, <1>6 DEF IInv, Stamps
  \* An entry that stays: its stamp may only have grown.
  <2>2. ASSUME NEW k \in DOMAIN tracker
        PROVE  /\ landed[k] # {} /\ stamped'[k] # {}
               /\ \A l \in landed[k], s \in stamped'[k] : tracker[k] \in l - Lag .. s
    <3>1. k \in PortScanKey /\ landed[k] # {}
      BY <1>6 DEF IInv, Stamps
    <3>2. PICK u \in stamped[k] : TRUE
      BY DEF IInv, Stamps
    <3>3. PICK v \in stamped'[k] : u <= v
      BY <1>5, <3>1, <3>2
    <3>4. /\ stamped'[k] = {v} /\ u \in Nat /\ v \in Nat /\ tracker[k] \in Nat
          /\ landed[k] \in SUBSET Nat
      BY <1>5, <1>6, <3>1, <3>2, <3>3
    <3>5. \A l \in landed[k] : tracker[k] \in l - Lag .. u
      BY DEF IInv, TypeOK
    <3>6. ASSUME NEW l \in landed[k] PROVE tracker[k] \in l - Lag .. v
      BY <1>3, <3>3, <3>4, <3>5
    <3> QED BY <3>1, <3>4, <3>6
  <2>3. CASE UNCHANGED <<tracker, landed, unread, settled>>
    BY <1>6, <2>1, <2>2, <2>3 DEF IInv, TypeOK, Stamps, Kept
  <2>4. ASSUME NEW victims \in Victims(key),
               tracker' = [k \in (DOMAIN tracker \ victims) \cup {key} |->
                             IF k = key THEN at ELSE tracker[k]],
               landed' = [k \in PortScanKey |-> IF k = key THEN {t}
                            ELSE IF k \in victims THEN {} ELSE landed[k]],
               unread' = unread \ (victims \cup {key}),
               settled' = [k \in DOMAIN settled \ (victims \cup (unread \cap {key}))
                             |-> settled[k]]
        PROVE  Kept
    <3>1. /\ DOMAIN tracker' = (DOMAIN tracker \ victims) \cup {key}
          /\ tracker'[key] = at
          /\ \A k \in DOMAIN tracker' \ {key} :
                k \in DOMAIN tracker /\ k \notin victims /\ tracker'[k] = tracker[k]
      BY <2>4
    <3>2. /\ IsFiniteSet(DOMAIN tracker') /\ DOMAIN tracker' \subseteq PortScanKey
          /\ Cardinality(DOMAIN tracker') <= PORT_SCAN_TRACKER_MAX_ENTRIES
      BY <1>6, <3>1, TouchCapacity
    <3>3. tracker' \in [DOMAIN tracker' -> Nat]
      <4>1. \A k \in DOMAIN tracker' : tracker'[k] \in Nat
        BY <1>3, <1>6, <3>1
      <4> QED BY <2>4, <4>1
    <3>4. /\ landed'[key] = {t}
          /\ \A k \in PortScanKey \ {key} : landed'[k] \in {{}, landed[k]}
          /\ \A k \in DOMAIN tracker' \ {key} : landed'[k] = landed[k]
      BY <1>6, <2>4, <3>1
    <3>5. landed' \in [PortScanKey -> SUBSET Nat]
      BY <1>3, <1>6, <2>4
    <3>6. \A k \in PortScanKey : \A l \in landed'[k] : l <= t /\ landed'[k] = {l}
      BY <1>3, <2>1, <3>4
    <3>7. ASSUME NEW k \in DOMAIN tracker'
          PROVE  /\ landed'[k] # {} /\ stamped'[k] # {}
                 /\ \A l \in landed'[k], s \in stamped'[k] : tracker'[k] \in l - Lag .. s
      <4>1. CASE k = key
        <5>1. PICK s \in stamped'[key] : at <= s
          BY <1>5
        <5>2. stamped'[key] = {s} /\ s \in Nat /\ at \in t - Lag .. s
          BY <1>3, <1>5, <5>1
        <5> QED BY <3>1, <3>4, <4>1, <5>2
      <4>2. CASE k # key
        BY <2>2, <3>1, <3>4, <4>2
      <4> QED BY <4>1, <4>2
    <3>8. /\ unread \subseteq DOMAIN settled /\ DOMAIN settled \subseteq DOMAIN tracker
      BY DEF IInv, TypeOK
    <3>9. /\ unread' \subseteq DOMAIN settled' /\ DOMAIN settled' \subseteq DOMAIN tracker'
          /\ settled' \in [DOMAIN settled' -> SUBSET Nat]
      BY <1>6, <2>4, <3>1, <3>8
    <3>10. ASSUME NEW k \in DOMAIN settled'
           PROVE  /\ k \in DOMAIN settled /\ settled'[k] = settled[k]
                  /\ k \notin unread' => k \notin unread
                  /\ tracker'[k] = tracker[k] \/ tracker'[k] = at
      <4>1. k \in DOMAIN settled /\ k \notin victims /\ settled'[k] = settled[k]
        BY <2>4
      <4> QED BY <2>4, <3>1, <3>9, <4>1
    <3> QED BY <3>2, <3>3, <3>5, <3>6, <3>7, <3>9, <3>10 DEF Kept
  <2> QED BY <1>1, <2>3, <2>4 DEF record_port_touch, Insert, at, t
<1>10. TypeOK'
  <2>1. touches' \in Nat /\ reads' \in Nat /\ reading' \in BOOLEAN
    BY <1>2 DEF IInv, TypeOK
  <2> QED BY <1>2, <1>3, <1>6, <1>7, <1>9, <2>1 DEF TypeOK, Kept
<1>11. Stamps'
  BY <1>2, <1>3, <1>5, <1>9 DEF Stamps, Kept
<1>12. SettledIsKept'
  <2>1. ASSUME NEW k \in DOMAIN settled', NEW u \in settled'[k]
        PROVE  u <= clock' /\ tracker'[k] + Lag >= u
    <3>1. u \in Nat /\ u <= clock /\ tracker[k] \in Nat /\ tracker[k] + Lag >= u
      BY <1>6, <1>9 DEF IInv, TypeOK, SettledIsKept, Kept
    <3>2. tracker'[k] = tracker[k] \/ tracker'[k] = at
      BY <1>9 DEF Kept
    <3> QED BY <1>2, <1>3, <3>1, <3>2
  <2>2. ASSUME NEW k \in DOMAIN settled' \ unread'
        PROVE  k \in DOMAIN partial' /\ \A u \in settled'[k] : partial'[k] + Lag >= u
    BY <1>2, <1>9, <2>2 DEF IInv, SettledIsKept, Kept
  <2> QED BY <1>9, <2>1, <2>2 DEF SettledIsKept, Kept
<1> QED BY <1>8, <1>10, <1>11, <1>12 DEF IInv

\* A read that starts with the keys that are in the map.
LEMMA IInvStartRead ==
  ASSUME IInv, StartRead
  PROVE  IInv'
<1>1. /\ reading' = TRUE /\ unread' = DOMAIN tracker
      /\ settled' = [k \in DOMAIN tracker |-> landed[k]]
      /\ partial' = Empty
      /\ UNCHANGED <<clock, kernelVars, reads, runnerVars>>
  BY DEF StartRead
<1>2. DOMAIN partial' = {} /\ IsFiniteSet({}) /\ DOMAIN settled' = DOMAIN tracker
  BY <1>1, FS_EmptySet DEF Empty
<1>3. ManagerTypeOK'
  BY <1>1 DEF IInv, TypeOK, runnerVars, managerVars, ManagerTypeOK
<1>4. TypeOK'
  BY <1>1, <1>2, <1>3 DEF IInv, TypeOK, kernelVars, runnerVars
<1>5. Stamps'
  BY <1>1 DEF IInv, Stamps, Touched, kernelVars
<1>6. ReadIsBacked'
  BY <1>1, <1>2 DEF ReadIsBacked, Empty
<1>7. SettledIsKept'
  <2>1. DOMAIN tracker \subseteq PortScanKey /\ landed \in [PortScanKey -> SUBSET Nat]
    BY DEF IInv, TypeOK, Stamps
  <2>2. ASSUME NEW k \in DOMAIN tracker, NEW t \in landed[k]
        PROVE  t <= clock /\ tracker[k] + Lag >= t
    <3>1. PICK s \in stamped[k] : TRUE
      BY DEF IInv, Stamps
    <3>2. tracker[k] \in t - Lag .. s /\ t <= clock
      BY <2>1, <3>1 DEF IInv, TypeOK, Stamps
    <3>3. t \in Nat /\ tracker[k] \in Nat /\ Lag \in Nat
      BY <2>1, PortScanAssumption DEF IInv, Stamps
    <3> QED BY <3>2, <3>3
  <2> QED BY <1>1, <1>2, <2>1, <2>2 DEF SettledIsKept, kernelVars
<1> QED BY <1>4, <1>5, <1>6, <1>7 DEF IInv

\* A read that meets a key, for the first time or once more.
LEMMA IInvReadKey ==
  ASSUME IInv, NEW key \in PortScanKey, ReadKey(key)
  PROVE  IInv'
<1>1. /\ key \in DOMAIN tracker
      /\ unread' = unread \ {key}
      /\ partial' = [k \in DOMAIN partial \cup {key} |->
                       IF k = key THEN tracker[key] ELSE partial[k]]
      /\ UNCHANGED <<clock, kernelVars, reading, settled, reads, runnerVars>>
  BY DEF ReadKey
<1>2. /\ DOMAIN partial' = DOMAIN partial \cup {key} /\ partial'[key] = tracker[key]
      /\ \A k \in DOMAIN partial \ {key} : partial'[k] = partial[k]
  BY <1>1
<1>3. ManagerTypeOK'
  BY <1>1 DEF IInv, TypeOK, runnerVars, managerVars, ManagerTypeOK
<1>4. TypeOK'
  BY <1>1, <1>2, <1>3 DEF IInv, TypeOK, kernelVars, runnerVars
<1>5. Stamps'
  BY <1>1 DEF IInv, Stamps, Touched, kernelVars
<1>6. ReadIsBacked'
  <2>1. IsFiniteSet(DOMAIN partial')
    BY <1>2, FS_AddElement DEF IInv, ReadIsBacked
  <2>2. tracker[key] \in Nat /\ \E s \in stamped[key] : tracker[key] <= s
    <3>1. PICK s \in stamped[key], t \in landed[key] : TRUE
      BY <1>1 DEF IInv, Stamps
    <3>2. tracker[key] \in t - Lag .. s
      BY <1>1 DEF IInv, TypeOK
    <3> QED BY <1>1, <3>1, <3>2 DEF IInv, Stamps
  <2>3. partial' \in [DOMAIN partial' -> Nat]
    BY <1>1, <2>2 DEF IInv, ReadIsBacked
  <2>4. \A k \in DOMAIN partial' : \E s \in stamped[k] : partial'[k] <= s
    BY <1>2, <2>2 DEF IInv, ReadIsBacked
  <2> QED BY <1>1, <2>1, <2>3, <2>4 DEF ReadIsBacked, kernelVars
<1>7. SettledIsKept'
  <2>1. ASSUME NEW k \in DOMAIN settled \ (unread \ {key}), NEW t \in settled[k]
        PROVE  partial'[k] + Lag >= t
    BY <1>1, <1>2, <2>1 DEF IInv, SettledIsKept
  <2> QED BY <1>1, <1>2, <2>1 DEF IInv, SettledIsKept, kernelVars
<1> QED BY <1>4, <1>5, <1>6, <1>7 DEF IInv

\* The end of a read leaves nothing of it.
LEMMA EndReadEffect ==
  ASSUME EndRead
  PROVE  /\ reading' = FALSE /\ unread' = {}
         /\ DOMAIN partial' = {} /\ DOMAIN settled' = {}
         /\ IsFiniteSet(DOMAIN partial')
         /\ partial' \in [DOMAIN partial' -> Nat]
         /\ settled' \in [DOMAIN settled' -> SUBSET Nat]
         /\ ReadIsBacked' /\ SettledIsKept'
<1>1. /\ reading' = FALSE /\ unread' = {}
      /\ DOMAIN partial' = {} /\ DOMAIN settled' = {}
      /\ partial' \in [DOMAIN partial' -> Nat]
      /\ settled' \in [DOMAIN settled' -> SUBSET Nat]
  BY DEF EndRead, Empty
<1>2. IsFiniteSet(DOMAIN partial')
  BY <1>1, FS_EmptySet
<1> QED BY <1>1, <1>2 DEF ReadIsBacked, SettledIsKept

\* A read that fails.
LEMMA IInvReadFails ==
  ASSUME IInv, ReadFails
  PROVE  IInv'
<1>1. EndRead /\ UNCHANGED <<clock, kernelVars, reads, runnerVars>>
  BY DEF ReadFails, EndRead
<1>2. ManagerTypeOK'
  BY <1>1 DEF IInv, TypeOK, runnerVars, managerVars, ManagerTypeOK
<1>3. TypeOK'
  BY <1>1, <1>2, EndReadEffect DEF IInv, TypeOK, kernelVars, runnerVars
<1>4. Stamps'
  BY <1>1 DEF IInv, Stamps, Touched, kernelVars
<1> QED BY <1>1, <1>3, <1>4, EndReadEffect DEF IInv

-----------------------------------------------------------------------------
(* What a tick computes.                                                   *)

Recent == {k \in DOMAIN partial : InWindow(partial[k], clock)}

RecentOf(ip) == {k \in Recent : k.src_addr = ip}

\* Every source with a touch in the window has its number of them, at least one.
LEMMA BreadthsEffect ==
  ASSUME IInv
  PROVE  LET all == breadths(partial, clock)
         IN  /\ DOMAIN all \subseteq IPs /\ IsFiniteSet(DOMAIN all)
             /\ \A ip \in IPs : /\ IsFiniteSet(RecentOf(ip))
                                /\ Cardinality(RecentOf(ip)) \in Nat
                                /\ RecentOf(ip) # {} => ip \in DOMAIN all
             /\ \A ip \in DOMAIN all : all[ip] = Cardinality(RecentOf(ip))
<1> DEFINE all == breadths(partial, clock)
           source == [k \in Recent |-> k.src_addr]
<1>1. /\ DOMAIN all = {k.src_addr : k \in Recent}
      /\ \A ip \in DOMAIN all : all[ip] = Cardinality(RecentOf(ip))
  BY DEF breadths, Recent, RecentOf
<1>2. DOMAIN partial \subseteq PortScanKey /\ IsFiniteSet(DOMAIN partial)
  BY DEF IInv, TypeOK, ReadIsBacked
<1>3. Recent \subseteq PortScanKey /\ IsFiniteSet(Recent)
  BY <1>2, FS_Subset DEF Recent
<1>4. DOMAIN all \subseteq IPs
  BY <1>1, <1>3 DEF PortScanKey
<1>5. IsFiniteSet(DOMAIN all)
  <2>1. source \in Surjection(Recent, DOMAIN all)
    BY <1>1 DEF Surjection
  <2> QED BY <1>3, <2>1, FS_Surjection
<1>6. ASSUME NEW ip \in IPs
      PROVE  /\ IsFiniteSet(RecentOf(ip)) /\ Cardinality(RecentOf(ip)) \in Nat
             /\ RecentOf(ip) # {} => ip \in DOMAIN all
  <2>1. IsFiniteSet(RecentOf(ip))
    BY <1>3, FS_Subset DEF RecentOf
  <2>2. Cardinality(RecentOf(ip)) \in Nat
    BY <2>1, FS_CardinalityType
  <2> QED BY <1>1, <2>1, <2>2 DEF RecentOf
<1> QED BY <1>1, <1>4, <1>5, <1>6

\* The top scanners are sources with their breadths, at most top_n of them, and a
\* source that is left out has top_n before it that are as broad.
LEMMA TopEffect ==
  ASSUME IInv, NEW top \in compute_port_scan_breadth(partial, clock)
  PROVE  LET all == breadths(partial, clock)
         IN  /\ DOMAIN top \subseteq DOMAIN all
             /\ IsFiniteSet(DOMAIN top) /\ Cardinality(DOMAIN top) <= TopN
             /\ \A ip \in DOMAIN top : top[ip] = all[ip]
             /\ \A ip \in DOMAIN all \ DOMAIN top :
                  /\ Cardinality(DOMAIN top) = TopN
                  /\ \A i \in DOMAIN top : top[i] >= all[ip]
<1> DEFINE all == breadths(partial, clock)
<1>1. PICK T \in Broadest(all) : top = [ip \in T |-> all[ip]]
  BY DEF compute_port_scan_breadth
<1>2. DOMAIN top = T /\ \A ip \in T : top[ip] = all[ip]
  BY <1>1
<1>3. /\ T \subseteq DOMAIN all
      /\ Cardinality(T) = IF Cardinality(DOMAIN all) < TopN
                            THEN Cardinality(DOMAIN all) ELSE TopN
      /\ \A i \in T, j \in DOMAIN all \ T : all[i] >= all[j]
  BY DEF Broadest
<1>4. IsFiniteSet(DOMAIN all) /\ Cardinality(DOMAIN all) \in Nat
  BY BreadthsEffect, FS_CardinalityType
<1>5. IsFiniteSet(T)
  BY <1>3, <1>4, FS_Subset
<1>6. Cardinality(T) <= TopN
  BY <1>3, <1>4, ManagerAssumption
<1>7. ASSUME NEW ip \in DOMAIN all \ T PROVE Cardinality(T) = TopN
  <2>1. Cardinality(T) # Cardinality(DOMAIN all)
    <3>1. Cardinality(T) = Cardinality(DOMAIN all) => T = DOMAIN all
      BY <1>3, <1>4, FS_Subset
    <3> QED BY <1>7, <3>1
  <2> QED BY <1>3, <2>1
<1> QED BY <1>2, <1>3, <1>5, <1>6, <1>7

\* The first of the sorted list is the broadest: the gauge is its breadth, or zero if
\* there is none.
LEMMA TopBreadth ==
  ASSUME NEW top, update_port_scan(top)
  PROVE  /\ \A ip \in DOMAIN top : gauges'.top_breadth >= top[ip]
         /\ gauges'.top_breadth > 0 => \E ip \in DOMAIN top : gauges'.top_breadth = top[ip]
<1>1. PICK n \in {0} \cup {top[ip] : ip \in DOMAIN top} :
         /\ \A ip \in DOMAIN top : n >= top[ip]
         /\ gauges' = [top_breadth |-> n, active_alerts |-> active_count']
  BY Zenon DEF update_port_scan
<1>2. gauges'.top_breadth = n
  BY <1>1
<1> QED BY <1>1, <1>2

\* A tick, whatever it signals.
LEMMA IInvTick ==
  ASSUME IInv, NEW d \in Steps, Tick(d)
  PROVE  IInv'
<1>1. PICK top \in compute_port_scan_breadth(partial, clock) :
         tick(detect(top), clock + d) /\ last_top_n' = top
  BY DEF Tick, Publish
<1>2. EndRead /\ clock' = clock + d /\ reads' = reads + 1 /\ UNCHANGED kernelVars
  BY DEF Tick, EndRead
<1>3. clock \in Nat /\ d \in Nat /\ clock >= Lag /\ Lag \in Nat
  BY ManagerAssumption, PortScanAssumption DEF IInv, TypeOK, Stamps
<1>4. ManagerTypeOK'
  <2>1. detect(top) \subseteq IPs
    BY BreadthsEffect, TopEffect DEF detect
  <2>2. ManagerTypeOK /\ clock + d \in Nat
    BY <1>3 DEF IInv, TypeOK
  <2> QED BY <1>1, <2>1, <2>2, ManagerTick
<1>5. TypeOK'
  <2>1. Cardinality(DOMAIN last_top_n') <= TopN
    BY <1>1, TopEffect
  <2>2. clock' \in Nat /\ reads' \in Nat /\ touches' = touches
    BY <1>2, <1>3 DEF IInv, TypeOK, kernelVars
  <2> QED BY <1>2, <1>4, <2>1, <2>2, EndReadEffect DEF IInv, TypeOK, kernelVars
<1>6. Stamps'
  <2>1. \A k \in PortScanKey : /\ \A s \in stamped[k] : s <= clock + d /\ stamped[k] = {s}
                               /\ \A t \in landed[k] : t <= clock + d /\ landed[k] = {t}
    BY <1>3 DEF IInv, Stamps
  <2> QED BY <1>2, <1>3, <2>1 DEF IInv, Stamps, Touched, kernelVars
<1> QED BY <1>2, <1>5, <1>6, EndReadEffect DEF IInv

\* The invariant holds in every reachable state.
THEOREM StampsCorrect == Spec => []IInv
<1>1. IInv /\ [Next]_vars => IInv'
  <2> SUFFICES ASSUME IInv, [Next]_vars PROVE IInv'
    OBVIOUS
  <2>1. ASSUME NEW key \in PortScanKey, NEW d \in Steps, Touch(key, d) PROVE IInv'
    BY <2>1, IInvTouch
  <2>2. ASSUME NEW key \in PortScanKey, ReadKey(key) PROVE IInv'
    BY <2>2, IInvReadKey
  <2>3. CASE StartRead
    BY <2>3, IInvStartRead
  <2>4. CASE ReadFails
    BY <2>4, IInvReadFails
  <2>5. ASSUME NEW d \in Steps, Tick(d) PROVE IInv'
    BY <2>5, IInvTick
  <2>6. CASE UNCHANGED vars
    <3>1. UNCHANGED <<clock, kernelVars, readerVars, runnerVars>>
      BY <2>6 DEF vars
    <3> QED BY <3>1 DEF IInv, TypeOK, ManagerTypeOK, Stamps, Touched, ReadIsBacked,
                       SettledIsKept, kernelVars, readerVars, runnerVars, managerVars
  <2> QED BY <2>1, <2>2, <2>3, <2>4, <2>5, <2>6 DEF Next
<1> QED BY <1>1, IInvInit, PTL DEF Spec

\* Every variable has its type: the map keeps within its capacity, top_n is never
\* exceeded, and an entry is a stamp of its key, however late it landed.
THEOREM TypeCorrect == Spec => []TypeOK
<1>1. IInv => TypeOK
  BY DEF IInv
<1> QED BY <1>1, StampsCorrect, PTL

-----------------------------------------------------------------------------
(* What a tick says of a source.                                           *)

Key(ip, p) == [src_addr |-> ip, dst_port |-> p]

\* The ports a source really touched in the window are finitely many, at least as
\* many as were read of it.
LEMMA RecentIsReal ==
  ASSUME IInv, NEW ip \in IPs
  PROVE  /\ IsFiniteSet(ReallyTouched(ip, clock))
         /\ Cardinality(RecentOf(ip)) <= Cardinality(ReallyTouched(ip, clock))
<1> DEFINE real  == ReallyTouched(ip, clock)
           marks == {k \in Touched : k.src_addr = ip /\ k.dst_port \in real}
           port  == [k \in marks |-> k.dst_port]
           read  == [k \in RecentOf(ip) |-> k.dst_port]
<1>1. IsFiniteSet(marks)
  BY FS_Subset DEF IInv, Stamps
<1>2. ASSUME NEW p \in real PROVE \E k \in marks : k.dst_port = p
  <2>1. Key(ip, p) \in PortScanKey /\ stamped[Key(ip, p)] # {}
    BY DEF ReallyTouched, PortScanKey, Key
  <2>2. Key(ip, p) \in marks /\ Key(ip, p).dst_port = p
    BY <2>1 DEF Touched, Key
  <2> QED BY <2>2
<1>3. port \in Surjection(marks, real)
  BY <1>2 DEF Surjection
<1>4. IsFiniteSet(real)
  BY <1>1, <1>3, FS_Surjection
<1>5. ASSUME NEW k \in RecentOf(ip)
      PROVE  k \in PortScanKey /\ k.src_addr = ip /\ k.dst_port \in real
  <2>1. k \in DOMAIN partial /\ k \in PortScanKey /\ k.src_addr = ip
    BY DEF RecentOf, Recent, IInv, TypeOK
  <2>2. k.dst_port \in Ports /\ Key(ip, k.dst_port) = k
    BY <2>1 DEF PortScanKey, Key
  <2>3. PICK s \in stamped[k] : partial[k] <= s
    BY <2>1 DEF IInv, ReadIsBacked
  <2>4. s \in Nat /\ partial[k] \in Nat /\ clock \in Nat /\ window \in Nat
    BY <2>1, <2>3, PortScanAssumption DEF IInv, TypeOK, Stamps, ReadIsBacked
  <2>5. s + window >= clock
    BY <2>3, <2>4 DEF RecentOf, Recent, InWindow, duration_since
  <2> QED BY <2>1, <2>2, <2>3, <2>5 DEF ReallyTouched, Key
<1>6. read \in Injection(RecentOf(ip), real)
  BY <1>5 DEF Injection, IsInjective, PortScanKey
<1> QED BY <1>4, <1>6, FS_Injection

\* The ports a source surely touched are finitely many and were all read, in the
\* window, if the read met every key it was bound to visit.
LEMMA SureIsRecent ==
  ASSUME IInv, unread = {}, NEW ip \in IPs
  PROVE  /\ IsFiniteSet(SurelyTouched(ip, clock))
         /\ Cardinality(SurelyTouched(ip, clock)) \in Nat
         /\ Cardinality(SurelyTouched(ip, clock)) <= Cardinality(RecentOf(ip))
<1> DEFINE sure == SurelyTouched(ip, clock)
           key  == [p \in sure |-> Key(ip, p)]
<1>1. ASSUME NEW p \in sure PROVE Key(ip, p) \in RecentOf(ip)
  <2> DEFINE k == Key(ip, p)
  <2>1. PICK t \in settled[k] : k \in DOMAIN settled /\ t + window >= clock + Lag
    BY DEF SurelyTouched, Key
  <2>2. k \in DOMAIN partial /\ partial[k] + Lag >= t
    BY <2>1 DEF IInv, SettledIsKept
  <2>3. /\ t \in Nat /\ partial[k] \in Nat /\ clock \in Nat
        /\ window \in Nat /\ Lag \in Nat
    BY <2>1, <2>2, PortScanAssumption DEF IInv, TypeOK, SettledIsKept, ReadIsBacked
  <2>4. InWindow(partial[k], clock)
    BY <2>1, <2>2, <2>3 DEF InWindow, duration_since
  <2>5. k.src_addr = ip
    BY DEF Key
  <2> QED BY <2>2, <2>4, <2>5 DEF RecentOf, Recent
<1>2. key \in Injection(sure, RecentOf(ip))
  BY <1>1 DEF Injection, IsInjective, Key
<1>3. IsFiniteSet(RecentOf(ip))
  BY BreadthsEffect
<1>4. IsFiniteSet(sure) /\ Cardinality(sure) <= Cardinality(RecentOf(ip))
  BY <1>2, <1>3, FS_Injection
<1> QED BY <1>4, FS_CardinalityType

\* No source is accused of more than it did: the breadth shown of a top scanner counts
\* ports it really touched within the window before the read ended, and the gauge of
\* the broadest one is within what some source touched.
THEOREM BreadthBackedTheorem == Spec => BreadthBacked
<1> DEFINE Backed ==
             reads' # reads =>
               /\ \A s \in PortScanResponse'.top_scanners :
                     s.distinct_ports <= Cardinality(ReallyTouched(s.src_ip, clock))
               /\ gauges'.top_breadth > 0 =>
                     \E ip \in IPs : gauges'.top_breadth <= Cardinality(ReallyTouched(ip, clock))
<1>1. IInv /\ Next => Backed
  <2> SUFFICES ASSUME IInv, Next, reads' # reads
               PROVE  Backed
    OBVIOUS
  <2>1. PICK d \in Steps : Tick(d)
    BY DEF Next, Touch, ReadKey, StartRead, ReadFails
  <2>2. PICK top \in compute_port_scan_breadth(partial, clock) :
           last_top_n' = top /\ update_port_scan(top)
    BY <2>1 DEF Tick, Publish
  <2>3. ASSUME NEW ip \in DOMAIN top
        PROVE  ip \in IPs /\ top[ip] <= Cardinality(ReallyTouched(ip, clock))
    <3>1. ip \in IPs /\ top[ip] = Cardinality(RecentOf(ip))
      BY TopEffect, BreadthsEffect
    <3> QED BY <3>1, RecentIsReal
  <2>4. ASSUME NEW s \in PortScanResponse'.top_scanners
        PROVE  s.src_ip \in DOMAIN top /\ s.distinct_ports = top[s.src_ip]
    <3>1. PortScanResponse'.top_scanners =
            {[src_ip |-> ip, distinct_ports |-> last_top_n'[ip],
              alert_phase |-> IF ip \in DOMAIN states' THEN {states'[ip].phase} ELSE {}] :
               ip \in DOMAIN last_top_n'}
      BY DEF PortScanResponse
    <3>2. PICK ip \in DOMAIN last_top_n' :
             s = [src_ip |-> ip, distinct_ports |-> last_top_n'[ip],
                  alert_phase |-> IF ip \in DOMAIN states' THEN {states'[ip].phase} ELSE {}]
      BY <2>4, <3>1
    <3> QED BY <2>2, <3>2
  <2>5. gauges'.top_breadth > 0 => \E ip \in DOMAIN top : gauges'.top_breadth = top[ip]
    BY <2>2, TopBreadth
  <2> QED BY <2>3, <2>4, <2>5
<1>2. IInv /\ [Next]_vars => [Backed]_vars
  BY <1>1
<1> QED BY <1>2, StampsCorrect, PTL DEF Spec, BreadthBacked

\* A scan is seen: a source with more ports than the threshold that were written
\* before the read, then left alone until it met them, and young enough, is
\* signalled and listed with an open or building alert, unless top_n sources at
\* least as broad are.
THEOREM ScanSeenTheorem == Spec => ScanSeen
<1> DEFINE Seen == \A ip \in IPs :
                     /\ reads' # reads
                     /\ Cardinality(SurelyTouched(ip, clock)) > max_distinct_ports
                     => \/ /\ ip \in signals'
                           /\ \E s \in PortScanResponse'.top_scanners :
                                 /\ s.src_ip = ip
                                 /\ s.alert_phase \in {{"Pending"}, {"Firing"}}
                                 /\ s.distinct_ports >= Cardinality(SurelyTouched(ip, clock))
                                 /\ gauges'.top_breadth >= s.distinct_ports
                        \/ /\ Cardinality(signals') = TopN
                           /\ \A i \in signals' :
                                last_top_n'[i] >= Cardinality(SurelyTouched(ip, clock))
           Shown(ip, n) == /\ ip \in signals'
                           /\ \E s \in PortScanResponse'.top_scanners :
                                 /\ s.src_ip = ip
                                 /\ s.alert_phase \in {{"Pending"}, {"Firing"}}
                                 /\ s.distinct_ports >= n
                                 /\ gauges'.top_breadth >= s.distinct_ports
           Crowded(n) == /\ Cardinality(signals') = TopN
                         /\ \A i \in signals' : last_top_n'[i] >= n
<1>1. IInv /\ Next => Seen
  <2> SUFFICES ASSUME IInv, Next, NEW ip \in IPs, reads' # reads,
                      Cardinality(SurelyTouched(ip, clock)) > max_distinct_ports
               PROVE  \/ Shown(ip, Cardinality(SurelyTouched(ip, clock)))
                      \/ Crowded(Cardinality(SurelyTouched(ip, clock)))
    OBVIOUS
  <2> DEFINE all  == breadths(partial, clock)
             sure == Cardinality(SurelyTouched(ip, clock))
  <2>1. PICK d \in Steps : Tick(d)
    BY DEF Next, Touch, ReadKey, StartRead, ReadFails
  <2>2. PICK top \in compute_port_scan_breadth(partial, clock) :
           /\ last_top_n' = top /\ signals' = detect(top)
           /\ tick(detect(top), clock + d) /\ update_port_scan(top)
    BY <2>1 DEF Tick, Publish, tick
  <2>3. sure \in Nat /\ max_distinct_ports \in Nat /\ sure <= Cardinality(RecentOf(ip))
    BY <2>1, SureIsRecent, PortScanAssumption DEF Tick
  <2>4. Cardinality(RecentOf(ip)) \in Nat /\ Cardinality(RecentOf(ip)) > max_distinct_ports
    BY <2>3, BreadthsEffect
  <2>5. RecentOf(ip) # {}
    BY <2>4, FS_EmptySet, PortScanAssumption
  <2>6. ip \in DOMAIN all /\ all[ip] = Cardinality(RecentOf(ip))
    BY <2>5, BreadthsEffect
  <2>7. CASE ip \in signals'
    <3> DEFINE s == [src_ip         |-> ip,
                     distinct_ports |-> last_top_n'[ip],
                     alert_phase    |-> IF ip \in DOMAIN states'
                                          THEN {states'[ip].phase} ELSE {}]
    <3>1. ip \in DOMAIN top /\ top[ip] = Cardinality(RecentOf(ip))
      BY <2>2, <2>6, <2>7, TopEffect DEF detect
    <3>2. ip \in DOMAIN states' /\ states'[ip].phase \in {"Pending", "Firing"}
      <4>1. detect(top) \in SUBSET IPs /\ ip \in detect(top)
        BY <2>2, <2>7, TopEffect, BreadthsEffect DEF detect
      <4>2. ManagerTypeOK /\ clock + d \in Nat
        BY ManagerAssumption DEF IInv, TypeOK
      <4> QED BY <2>2, <4>1, <4>2, SignalHasAlert
    <3>3. s \in PortScanResponse'.top_scanners
      BY <2>2, <3>1 DEF PortScanResponse
    <3>4. /\ s.src_ip = ip /\ s.alert_phase \in {{"Pending"}, {"Firing"}}
          /\ s.distinct_ports = top[ip]
      BY <2>2, <3>2
    <3>5. gauges'.top_breadth >= top[ip]
      BY <2>2, <3>1, TopBreadth
    <3> HIDE DEF s
    <3> QED BY <2>3, <2>7, <3>1, <3>3, <3>4, <3>5
  <2>8. CASE ip \notin signals'
    <3>1. ip \notin DOMAIN top
      BY <2>2, <2>4, <2>6, <2>8, TopEffect DEF detect
    <3>2. /\ Cardinality(DOMAIN top) = TopN
          /\ \A i \in DOMAIN top : top[i] >= all[ip]
      BY <2>6, <3>1, TopEffect
    <3>3. \A i \in DOMAIN top : top[i] \in Nat
      BY TopEffect, BreadthsEffect
    <3>4. detect(top) = DOMAIN top /\ \A i \in DOMAIN top : top[i] >= sure
      BY <2>3, <2>4, <2>6, <3>2, <3>3 DEF detect
    <3> QED BY <2>2, <3>2, <3>4
  <2> QED BY <2>7, <2>8
<1>2. IInv /\ [Next]_vars => [Seen]_vars
  BY <1>1
<1> QED BY <1>2, StampsCorrect, PTL DEF Spec, ScanSeen
=============================================================================
