---------------------------- MODULE SynFloodProofs ----------------------------
(***************************************************************************)
(* Proofs about the SYN-flood pipeline, for every set of sources, every    *)
(* capacity of the map, threshold and top_n, and for every choice of the   *)
(* kernel: what an insert evicts, when it fails, in which order a read     *)
(* meets the keys, and what arrives in between.                            *)
(***************************************************************************)
EXTENDS SynFloodPipeline, FiniteSetTheorems, TLAPS

-----------------------------------------------------------------------------
(* The slot.                                                               *)

\* AlertState::new is a slot, and no fire is remembered in it.
LEMMA NewSlot == /\ New \in AlertSlot
                 /\ New.phase = "Inactive"
                 /\ New.consecutive_count = 0
                 /\ New.resolve_consecutive_count = 0
                 /\ New.last_fired = {}
  BY DEF New, AlertSlot, AlertPhase, Option

\* advance maps slots to slots.
LEMMA AdvanceType ==
  ASSUME NEW s \in AlertSlot, NEW b \in BOOLEAN, NEW t \in Nat,
         NEW timing
  PROVE  advance(s, b, t, timing) \in AlertSlot
<1>1. \A u \in AlertSlot : try_fire(u, t, timing) \in AlertSlot
  BY DEF try_fire, AlertSlot, AlertPhase, Option
<1>2. \A u \in AlertSlot : reset(u) \in AlertSlot
  BY DEF reset, AlertSlot, AlertPhase
<1>3. CASE s.phase = "Inactive"
  <2>1. [s EXCEPT !.consecutive_count = 1] \in AlertSlot
    BY DEF AlertSlot
  <2>2. AdvanceInactive(s, b, t, timing) \in AlertSlot
    BY <1>1, <2>1 DEF AdvanceInactive, AlertSlot, AlertPhase
  <2> QED BY <1>3, <2>2 DEF advance
<1>4. CASE s.phase = "Pending"
  <2>1. [s EXCEPT !.consecutive_count = @ + 1] \in AlertSlot
    BY DEF AlertSlot
  <2>2. AdvancePending(s, b, t, timing) \in AlertSlot
    BY <1>1, <1>2, <2>1 DEF AdvancePending
  <2> QED BY <1>4, <2>2 DEF advance
<1>5. CASE s.phase = "Firing"
  <2>1. AdvanceFiring(s, b, t, timing) \in AlertSlot
    BY <1>2 DEF AdvanceFiring, AlertSlot
  <2> QED BY <1>5, <2>1 DEF advance
<1> QED BY <1>3, <1>4, <1>5 DEF AlertSlot, AlertPhase

-----------------------------------------------------------------------------
(* The inductive invariant.                                                *)

\* What the priming snapshot and the ticks have made of the SYNs of ip.
Counted(ip) == credited[ip] + primed[ip]

Moment == [sent : Nat, erased : Nat]

\* Snapshots are finite maps, and a snapshot has the time of its tick.
SnapshotTypes ==
    /\ IsFiniteSet(DOMAIN tracker) /\ IsFiniteSet(DOMAIN partial)
    /\ seen \in [DOMAIN partial -> Moment]
    /\ started \in [this : [IPs -> Nat], prev : [IPs -> Nat]]
    /\ \A ip \in IPs : started.this[ip] <= sent[ip]
    /\ \A prev \in prev_snapshot :
         /\ prev_snapshot = {prev}
         /\ prev.timestamp = now
         /\ DOMAIN prev.counters \subseteq IPs
         /\ prev.counters \in [DOMAIN prev.counters -> Nat]
         /\ prev.seen \in [DOMAIN prev.counters -> Moment]
    /\ prev_snapshot = {} => credited = Zero /\ primed = Zero

\* A counter is what its source had sent, less what was erased of it, at the
\* moment it was read, which was after the read started.
ReadSoFar ==
    \A ip \in DOMAIN partial :
       /\ partial[ip] + seen[ip].erased = seen[ip].sent
       /\ seen[ip].sent \in started.this[ip] .. sent[ip]
       /\ seen[ip].erased <= erased[ip]

\* A key that this read has missed, and will not meet for certain, was out of the
\* map at some moment since the read started; all that was sent, and so all that
\* was counted, before that moment is erased.
MissedWasErased ==
    reading => \A ip \in IPs \ (DOMAIN partial \cup unread) :
                  started.this[ip] <= erased[ip] /\ Counted(ip) <= erased[ip]

\* The same for a key of the previous snapshot: what was counted of it had been
\* sent when it was read there, and before it was read in this read.
InPrevious(prev, ip) ==
    /\ prev.counters[ip] + prev.seen[ip].erased = prev.seen[ip].sent
    /\ started.prev[ip] <= prev.seen[ip].sent
    /\ Counted(ip) <= prev.seen[ip].sent
    /\ prev.seen[ip].sent <= sent[ip] /\ prev.seen[ip].erased <= erased[ip]
    /\ ip \in DOMAIN partial => /\ prev.seen[ip].sent <= seen[ip].sent
                                /\ prev.seen[ip].erased <= seen[ip].erased

\* And for a key that is not in the previous snapshot: what was counted of it had
\* been erased before it was read in this read.
NotInPrevious(ip) ==
    /\ started.prev[ip] <= erased[ip] /\ Counted(ip) <= erased[ip]
    /\ ip \in DOMAIN partial => /\ started.prev[ip] <= seen[ip].erased
                                /\ Counted(ip) <= seen[ip].erased

PreviousSnapshot ==
    \A prev \in prev_snapshot, ip \in IPs :
       IF ip \in DOMAIN prev.counters THEN InPrevious(prev, ip) ELSE NotInPrevious(ip)

IInv == TypeOK /\ SnapshotTypes /\ ReadSoFar /\ MissedWasErased /\ PreviousSnapshot

-----------------------------------------------------------------------------
(* The alert manager within the pipeline.                                  *)

\* Whatever the signals, a tick of the manager keeps its types.
LEMMA ManagerTick ==
  ASSUME ManagerTypeOK, NEW sig \in SUBSET IPs, NEW t \in Nat, tick(sig, t)
  PROVE  ManagerTypeOK'
<1>1. ASSUME NEW ip PROVE Advanced(ip, sig, t) \in AlertSlot
  <2>1. Entry(ip) \in AlertSlot
    BY NewSlot DEF ManagerTypeOK, Entry
  <2>2. (ip \in sig) \in BOOLEAN
    OBVIOUS
  <2> QED BY <2>1, <2>2, AdvanceType DEF Advanced
<1>2. DOMAIN states' \subseteq IPs /\ states' \in [DOMAIN states' -> AlertSlot]
  BY <1>1 DEF tick, Keys, ManagerTypeOK
<1>3. heartbeats' \subseteq IPs
  BY DEF tick, Keys, ManagerTypeOK
<1> QED BY <1>2, <1>3 DEF tick, ManagerTypeOK

\* A signalled source is tracked after the tick, and its alert builds up or is open.
LEMMA SignalHasAlert ==
  ASSUME ManagerTypeOK, NEW sig \in SUBSET IPs, NEW t \in Nat, tick(sig, t), NEW ip \in sig
  PROVE  ip \in DOMAIN states' /\ states'[ip].phase \in {"Pending", "Firing"}
<1> DEFINE e == Entry(ip)
           a == advance(e, TRUE, t, Timing)
<1>1. e \in AlertSlot
  BY NewSlot DEF ManagerTypeOK, Entry
<1>2. ip \in DOMAIN states' /\ states'[ip] = Advanced(ip, sig, t)
  BY DEF tick, Keys, Retained
<1>3. (ip \in sig) = TRUE
  OBVIOUS
<1>4. Advanced(ip, sig, t) = a
  BY <1>3 DEF Advanced
<1> HIDE DEF e
<1>5. \A u \in AlertSlot : try_fire(u, t, Timing).phase \in {u.phase, "Firing"}
  BY DEF try_fire, AlertSlot
<1>6. CASE e.phase = "Inactive"
  <2>1. a = AdvanceInactive(e, TRUE, t, Timing)
    BY <1>6 DEF advance
  <2> DEFINE tried == try_fire([e EXCEPT !.consecutive_count = 1], t, Timing)
  <2>2. tried \in AlertSlot
    BY <1>1 DEF try_fire, AlertSlot, AlertPhase, Option
  <2>3. a = IF is_firing(tried) THEN tried ELSE [tried EXCEPT !.phase = "Pending"]
    BY <2>1 DEF AdvanceInactive
  <2> HIDE DEF tried
  <2>4. a.phase \in {"Pending", "Firing"}
    BY <2>2, <2>3 DEF is_firing, AlertSlot
  <2> QED BY <1>2, <1>4, <2>4
<1>7. CASE e.phase = "Pending"
  <2>1. a = try_fire([e EXCEPT !.consecutive_count = @ + 1], t, Timing)
    BY <1>7 DEF advance, AdvancePending
  <2>2. /\ [e EXCEPT !.consecutive_count = @ + 1] \in AlertSlot
        /\ [e EXCEPT !.consecutive_count = @ + 1].phase = "Pending"
    BY <1>1, <1>7 DEF AlertSlot
  <2>3. a.phase \in {"Pending", "Firing"}
    BY <1>5, <2>1, <2>2
  <2> QED BY <1>2, <1>4, <2>3
<1>8. CASE e.phase = "Firing"
  <2>1. a = [e EXCEPT !.resolve_consecutive_count = 0]
    BY <1>8 DEF advance, AdvanceFiring
  <2>2. a.phase = "Firing"
    BY <1>1, <1>8, <2>1 DEF AlertSlot
  <2> QED BY <1>2, <1>4, <2>2
<1> QED BY <1>1, <1>6, <1>7, <1>8 DEF AlertSlot, AlertPhase

-----------------------------------------------------------------------------
(* The kernel.                                                             *)

\* What a SYN does to the counters of any source: nothing is invented, the history
\* only grows, and a key that a read can no longer rely on has been erased.
LEMMA SynEffect ==
  ASSUME IInv, NEW j \in IPs, Syn(j)
  PROVE  /\ {sent', erased'} \subseteq [IPs -> Nat]
         /\ DOMAIN tracker' \subseteq IPs
         /\ tracker' \in [DOMAIN tracker' -> Nat \ {0}]
         /\ unread' \subseteq DOMAIN tracker'
         /\ \A ip \in IPs : /\ sent'[ip] >= sent[ip] /\ erased'[ip] >= erased[ip]
                            /\ sent'[ip] = Get(tracker', ip) + erased'[ip]
                            /\ ip \in unread /\ ip \notin unread' => sent'[ip] = erased'[ip]
         /\ unread' \subseteq unread
<1> USE DEF IInv, TypeOK, Get
<1>1. sent' = [sent EXCEPT ![j] = @ + 1] /\ record_syn(j)
  BY DEF Syn
<1>2. sent' \in [IPs -> Nat] /\ \A ip \in IPs : sent'[ip] >= sent[ip]
  BY <1>1
<1>3. CASE /\ j \in DOMAIN tracker
           /\ tracker' = [tracker EXCEPT ![j] = @ + 1]
           /\ UNCHANGED <<erased, unread>>
  BY <1>1, <1>2, <1>3
<1>4. CASE j \notin DOMAIN tracker /\ \E victims \in Victims : Insert(j, victims)
  <2>1. PICK victims \in SUBSET DOMAIN tracker : Insert(j, victims)
    BY <1>4 DEF Victims
  <2>2. /\ DOMAIN tracker' = (DOMAIN tracker \ victims) \cup {j}
        /\ \A i \in DOMAIN tracker' : tracker'[i] = IF i = j THEN 1 ELSE tracker[i]
        /\ tracker' = [i \in DOMAIN tracker' |-> tracker'[i]]
    BY <2>1 DEF Insert
  <2>3. erased' = [i \in IPs |-> IF i \in victims THEN erased[i] + tracker[i] ELSE erased[i]]
    BY <2>1 DEF Insert
  <2>4. \A i \in victims : tracker[i] \in Nat
    OBVIOUS
  <2>5. erased' \in [IPs -> Nat] /\ \A ip \in IPs : erased'[ip] >= erased[ip]
    BY <2>3, <2>4
  <2>6. unread' = unread \ victims
    BY <2>1 DEF Insert
  <2>7. tracker' \in [DOMAIN tracker' -> Nat \ {0}]
    <3>1. \A i \in DOMAIN tracker' : tracker'[i] \in Nat \ {0}
      BY <2>2
    <3> QED BY <2>2, <3>1
  <2>8. ASSUME NEW ip \in IPs
        PROVE  /\ sent'[ip] = Get(tracker', ip) + erased'[ip]
               /\ ip \in unread /\ ip \notin unread' => sent'[ip] = erased'[ip]
    <3>1. CASE ip = j
      <4>1. ip \notin victims /\ erased'[ip] = erased[ip] /\ sent'[ip] = sent[ip] + 1
        BY <1>1, <1>4, <2>3, <3>1
      <4>2. Get(tracker', ip) = 1 /\ Get(tracker, ip) = 0 /\ ip \notin unread
        BY <1>4, <2>2, <3>1
      <4> QED BY <4>1, <4>2
    <3>2. CASE ip # j /\ ip \in victims
      <4>1. erased'[ip] = erased[ip] + tracker[ip] /\ sent'[ip] = sent[ip]
        BY <1>1, <2>3, <3>2
      <4>2. Get(tracker', ip) = 0 /\ Get(tracker, ip) = tracker[ip]
        BY <2>2, <3>2
      <4> QED BY <2>4, <3>2, <4>1, <4>2
    <3>3. CASE ip # j /\ ip \notin victims
      <4>1. erased'[ip] = erased[ip] /\ sent'[ip] = sent[ip]
        BY <1>1, <2>3, <3>3
      <4>2. Get(tracker', ip) = Get(tracker, ip)
        BY <2>2, <3>3
      <4> QED BY <2>6, <3>3, <4>1, <4>2
    <3> QED BY <3>1, <3>2, <3>3
  <2> QED BY <1>2, <1>4, <2>2, <2>5, <2>6, <2>7, <2>8
<1>5. CASE /\ j \notin DOMAIN tracker
           /\ erased' = [erased EXCEPT ![j] = @ + 1]
           /\ UNCHANGED <<tracker, unread>>
  BY <1>1, <1>2, <1>5
<1> QED BY <1>1, <1>3, <1>4, <1>5 DEF record_syn

\* An insert keeps the map finite and within its capacity.
LEMMA SynCapacity ==
  ASSUME IInv, NEW j \in IPs, Syn(j)
  PROVE  /\ IsFiniteSet(DOMAIN tracker')
         /\ Cardinality(DOMAIN tracker') <= SYN_TRACKER_MAX_ENTRIES
<1> USE DEF IInv, TypeOK, SnapshotTypes
<1>1. record_syn(j)
  BY DEF Syn
<1>2. CASE DOMAIN tracker' = DOMAIN tracker
  BY <1>2
<1>3. CASE j \notin DOMAIN tracker /\ \E victims \in Victims : Insert(j, victims)
  <2>1. PICK victims \in Victims : Insert(j, victims)
    BY <1>3
  <2> DEFINE kept == DOMAIN tracker \ victims
  <2>2. DOMAIN tracker' = kept \cup {j} /\ j \notin kept
    BY <1>3, <2>1 DEF Insert
  <2>3. IsFiniteSet(kept)
    BY FS_Difference
  <2>4. Cardinality(kept) \in Nat /\ Cardinality(kept) < SYN_TRACKER_MAX_ENTRIES
    BY <2>1, <2>3, FS_CardinalityType DEF Victims
  <2>5. IsFiniteSet(kept \cup {j}) /\ Cardinality(kept \cup {j}) = Cardinality(kept) + 1
    BY <2>2, <2>3, FS_AddElement
  <2> QED BY <2>2, <2>4, <2>5, SynFloodAssumption
<1> QED BY <1>1, <1>2, <1>3 DEF record_syn

-----------------------------------------------------------------------------
(* The invariant is inductive.                                             *)

\* An empty map, no read and no snapshot: there is nothing to account for.
LEMMA IInvInit == Init => IInv
<1> SUFFICES ASSUME Init PROVE IInv
  OBVIOUS
<1>1. IsFiniteSet({}) /\ Cardinality({}) = 0
  BY FS_EmptySet
<1>2. ManagerTypeOK
  BY DEF Init, ManagerInit, ManagerTypeOK
<1>3. TypeOK
  <2>1. prev_snapshot = {} /\ DOMAIN tracker = {} /\ DOMAIN partial = {}
        /\ DOMAIN seen = {} /\ DOMAIN last_top_n = {}
    BY DEF Init, Nothing, Unseen
  <2>2. tracker \in [DOMAIN tracker -> Nat \ {0}] /\ partial \in [DOMAIN partial -> Nat]
    BY DEF Init, Nothing
  <2>3. 0 <= SYN_TRACKER_MAX_ENTRIES /\ 0 <= TopN
    BY SynFloodAssumption, ManagerAssumption
  <2>4. /\ {sent, erased, credited, primed} \subseteq [IPs -> Nat]
        /\ \A ip \in IPs : sent[ip] = 0 /\ erased[ip] = 0
    BY DEF Init, Zero
  <2>5. \A ip \in IPs : sent[ip] = Get(tracker, ip) + erased[ip]
    BY <2>1, <2>4 DEF Get
  <2>6. /\ Cardinality(DOMAIN tracker) <= SYN_TRACKER_MAX_ENTRIES
        /\ Cardinality(prev_snapshot) <= 1
        /\ Cardinality(DOMAIN last_top_n) <= TopN
    BY <1>1, <2>1, <2>3
  <2>7. reading \in BOOLEAN /\ unread \subseteq DOMAIN tracker
    BY DEF Init
  <2> QED BY <1>2, <2>1, <2>2, <2>4, <2>5, <2>6, <2>7 DEF TypeOK
<1>4. SnapshotTypes
  BY <1>1 DEF Init, SnapshotTypes, Nothing, Zero, Unseen, Moment
<1> QED BY <1>3, <1>4
        DEF Init, IInv, ReadSoFar, MissedWasErased, PreviousSnapshot, Nothing

\* No SYN has been counted that was not sent, and so none twice.
LEMMA CountedWasSent ==
  ASSUME IInv, NEW ip \in IPs
  PROVE  Counted(ip) <= sent[ip]
<1>1. /\ sent[ip] \in Nat /\ erased[ip] \in Nat
      /\ credited[ip] \in Nat /\ primed[ip] \in Nat
      /\ erased[ip] <= sent[ip]
  <2>1. Get(tracker, ip) \in Nat
    BY DEF IInv, TypeOK, Get
  <2> QED BY <2>1 DEF IInv, TypeOK
<1>2. CASE prev_snapshot = {}
  BY <1>1, <1>2 DEF IInv, SnapshotTypes, Counted, Zero
<1>3. ASSUME NEW prev \in prev_snapshot
      PROVE  Counted(ip) <= sent[ip]
  <2>1. CASE ip \in DOMAIN prev.counters
    <3>1. prev.seen[ip] \in Moment
      BY <2>1 DEF IInv, SnapshotTypes
    <3> QED BY <1>1, <2>1, <3>1 DEF IInv, PreviousSnapshot, InPrevious, Counted, Moment
  <2>2. CASE ip \notin DOMAIN prev.counters
    BY <1>1, <2>2 DEF IInv, PreviousSnapshot, NotInPrevious, Counted
  <2> QED BY <2>1, <2>2
<1> QED BY <1>2, <1>3

\* A SYN, whatever it evicts.
LEMMA IInvSyn ==
  ASSUME IInv, NEW j \in IPs, Syn(j)
  PROVE  IInv'
<1>1. UNCHANGED <<reading, partial, seen, started, reads, runnerVars>>
  BY DEF Syn
<1>2. /\ \A ip \in IPs : /\ sent[ip] \in Nat /\ sent'[ip] \in Nat
                         /\ erased[ip] \in Nat /\ erased'[ip] \in Nat
                         /\ credited[ip] \in Nat /\ primed[ip] \in Nat
      /\ {sent, erased, credited, primed} \subseteq [IPs -> Nat]
      /\ DOMAIN partial \subseteq IPs
  BY SynEffect DEF IInv, TypeOK
<1>3. TypeOK'
  <2>1. ManagerTypeOK'
    BY <1>1 DEF IInv, TypeOK, runnerVars, managerVars, ManagerTypeOK
  <2> QED BY <1>1, <2>1, SynEffect, SynCapacity DEF IInv, TypeOK, runnerVars
<1>4. SnapshotTypes'
  <2>1. \A ip \in IPs : started.this[ip] \in Nat /\ started.this[ip] <= sent'[ip]
    BY <1>2, SynEffect DEF IInv, SnapshotTypes
  <2> QED BY <1>1, <2>1, SynCapacity DEF IInv, SnapshotTypes, runnerVars, managerVars
<1>5. ReadSoFar'
  <2> SUFFICES ASSUME NEW ip \in DOMAIN partial
               PROVE  /\ partial[ip] + seen[ip].erased = seen[ip].sent
                      /\ seen[ip].sent \in started.this[ip] .. sent'[ip]
                      /\ seen[ip].erased <= erased'[ip]
    BY <1>1 DEF ReadSoFar
  <2>1. seen[ip] \in Moment /\ started.this[ip] \in Nat
    BY <1>2 DEF IInv, SnapshotTypes
  <2> QED BY <1>2, <2>1, SynEffect DEF IInv, ReadSoFar, Moment
<1>6. MissedWasErased'
  <2> SUFFICES ASSUME reading, NEW ip \in IPs \ (DOMAIN partial \cup unread')
               PROVE  started.this[ip] <= erased'[ip] /\ Counted(ip) <= erased'[ip]
    BY <1>1 DEF MissedWasErased, Counted, runnerVars
  <2>1. started.this[ip] \in Nat /\ started.prev[ip] \in Nat
    BY DEF IInv, SnapshotTypes
  <2>2. CASE ip \notin unread
    BY <1>2, <2>1, <2>2, SynEffect DEF IInv, MissedWasErased, Counted
  <2>3. CASE ip \in unread
    <3>1. sent'[ip] = erased'[ip] /\ sent'[ip] >= sent[ip]
      BY <2>3, SynEffect
    <3>2. Counted(ip) <= sent[ip] /\ started.this[ip] <= sent[ip]
      BY CountedWasSent DEF IInv, SnapshotTypes
    <3> QED BY <1>2, <2>1, <3>1, <3>2 DEF Counted
  <2> QED BY <2>2, <2>3
<1>7. PreviousSnapshot'
  <2> SUFFICES ASSUME NEW prev \in prev_snapshot, NEW ip \in IPs
               PROVE  IF ip \in DOMAIN prev.counters THEN InPrevious(prev, ip)'
                                                     ELSE NotInPrevious(ip)'
    BY <1>1 DEF PreviousSnapshot, runnerVars
  <2>1. started.prev[ip] \in Nat
    BY DEF IInv, SnapshotTypes
  <2>2. CASE ip \in DOMAIN prev.counters
    <3>1. prev.seen[ip] \in Moment
      BY <2>2 DEF IInv, SnapshotTypes
    <3>2. InPrevious(prev, ip)
      BY <2>2 DEF IInv, PreviousSnapshot
    <3> QED BY <1>1, <1>2, <2>2, <3>1, <3>2, SynEffect
            DEF InPrevious, Counted, Moment, runnerVars
  <2>3. CASE ip \notin DOMAIN prev.counters
    <3>1. NotInPrevious(ip)
      BY <2>3 DEF IInv, PreviousSnapshot
    <3> QED BY <1>1, <1>2, <2>1, <2>3, <3>1, SynEffect
            DEF NotInPrevious, Counted, runnerVars
  <2> QED BY <2>2, <2>3
<1> QED BY <1>3, <1>4, <1>5, <1>6, <1>7 DEF IInv

\* A read that starts with the keys that are in the map.
LEMMA IInvStartRead ==
  ASSUME IInv, StartRead
  PROVE  IInv'
<1>1. /\ reading' = TRUE /\ unread' = DOMAIN tracker
      /\ partial' = Nothing /\ seen' = Unseen
      /\ started' = [started EXCEPT !.this = sent]
      /\ UNCHANGED <<kernelVars, runnerVars>>
  BY DEF StartRead
<1>2. DOMAIN partial' = {} /\ IsFiniteSet({})
  BY <1>1, FS_EmptySet DEF Nothing
<1>3. started'.this = sent /\ started'.prev = started.prev /\ sent \in [IPs -> Nat]
  BY <1>1 DEF IInv, SnapshotTypes, TypeOK
<1>4. TypeOK'
  <2>1. ManagerTypeOK'
    BY <1>1 DEF IInv, TypeOK, runnerVars, managerVars, ManagerTypeOK
  <2>2. partial' \in [DOMAIN partial' -> Nat] /\ DOMAIN seen' = DOMAIN partial'
    BY <1>1 DEF Nothing, Unseen
  <2>3. \A ip \in IPs : sent'[ip] = Get(tracker', ip) + erased'[ip]
    BY <1>1 DEF IInv, TypeOK, kernelVars
  <2> QED BY <1>1, <1>2, <2>1, <2>2, <2>3 DEF IInv, TypeOK, kernelVars, runnerVars
<1>5. SnapshotTypes'
  <2>1. seen' \in [DOMAIN partial' -> Moment]
    BY <1>1, <1>2 DEF Unseen
  <2>2. started' \in [this : [IPs -> Nat], prev : [IPs -> Nat]]
    BY <1>1, <1>3 DEF IInv, SnapshotTypes
  <2>3. \A ip \in IPs : started'.this[ip] <= sent'[ip]
    BY <1>1, <1>3 DEF kernelVars
  <2> QED BY <1>1, <1>2, <2>1, <2>2, <2>3
          DEF IInv, SnapshotTypes, kernelVars, runnerVars, managerVars
<1>6. ReadSoFar'
  BY <1>2 DEF ReadSoFar
<1>7. MissedWasErased'
  <2> SUFFICES ASSUME NEW ip \in IPs \ DOMAIN tracker
               PROVE  sent[ip] <= erased[ip] /\ Counted(ip) <= erased[ip]
    BY <1>1, <1>2, <1>3 DEF MissedWasErased, Counted, kernelVars, runnerVars
  <2>1. sent[ip] = erased[ip] /\ sent[ip] \in Nat
    BY <1>3 DEF IInv, TypeOK, Get
  <2> QED BY <2>1, CountedWasSent
<1>8. PreviousSnapshot'
  BY <1>1, <1>2, <1>3
     DEF IInv, PreviousSnapshot, InPrevious, NotInPrevious, Counted, kernelVars, runnerVars
<1> QED BY <1>4, <1>5, <1>6, <1>7, <1>8 DEF IInv

\* A key is met: its counter is what the kernel knows of it now.
LEMMA IInvReadKey ==
  ASSUME IInv, NEW j \in IPs, ReadKey(j)
  PROVE  IInv'
<1>1. /\ j \in DOMAIN tracker /\ reading
      /\ unread' = unread \ {j}
      /\ DOMAIN partial' = DOMAIN partial \cup {j}
      /\ partial' = [i \in DOMAIN partial' |-> IF i = j THEN tracker[j] ELSE partial[i]]
      /\ seen' = [i \in DOMAIN partial' |->
                    IF i = j THEN [sent |-> sent[j], erased |-> erased[j]] ELSE seen[i]]
      /\ UNCHANGED <<reading, reads, started, kernelVars, runnerVars>>
  BY DEF ReadKey, IInv, TypeOK
<1>2. /\ tracker[j] \in Nat /\ sent[j] \in Nat /\ erased[j] \in Nat
      /\ sent[j] = tracker[j] + erased[j]
  BY <1>1 DEF IInv, TypeOK, Get
<1>3. \A i \in DOMAIN partial' : i # j => i \in DOMAIN partial
  BY <1>1
<1>4. TypeOK'
  <2>1. ManagerTypeOK'
    BY <1>1 DEF IInv, TypeOK, runnerVars, managerVars, ManagerTypeOK
  <2>2. partial' \in [DOMAIN partial' -> Nat]
    BY <1>1, <1>2, <1>3 DEF IInv, TypeOK
  <2>3. \A ip \in IPs : sent'[ip] = Get(tracker', ip) + erased'[ip]
    BY <1>1 DEF IInv, TypeOK, kernelVars
  <2>4. DOMAIN partial' \subseteq IPs /\ DOMAIN seen' = DOMAIN partial'
    BY <1>1 DEF IInv, TypeOK
  <2> QED BY <1>1, <2>1, <2>2, <2>3, <2>4 DEF IInv, TypeOK, kernelVars, runnerVars
<1>5. SnapshotTypes'
  <2>1. IsFiniteSet(DOMAIN partial')
    BY <1>1, FS_AddElement DEF IInv, SnapshotTypes
  <2>2. seen' \in [DOMAIN partial' -> Moment]
    BY <1>1, <1>2, <1>3 DEF IInv, SnapshotTypes, Moment
  <2> QED BY <1>1, <2>1, <2>2 DEF IInv, SnapshotTypes, kernelVars, runnerVars, managerVars
<1>6. ReadSoFar'
  <2> SUFFICES ASSUME NEW ip \in DOMAIN partial'
               PROVE  /\ partial'[ip] + seen'[ip].erased = seen'[ip].sent
                      /\ seen'[ip].sent \in started.this[ip] .. sent[ip]
                      /\ seen'[ip].erased <= erased[ip]
    BY <1>1 DEF ReadSoFar, kernelVars
  <2>1. CASE ip = j
    <3>1. started.this[j] \in Nat /\ started.this[j] <= sent[j]
      BY <1>1 DEF IInv, SnapshotTypes, TypeOK
    <3> QED BY <1>1, <1>2, <2>1, <3>1
  <2>2. CASE ip # j
    BY <1>1, <1>3, <2>2 DEF IInv, ReadSoFar
  <2> QED BY <2>1, <2>2
<1>7. MissedWasErased'
  BY <1>1 DEF IInv, MissedWasErased, Counted, kernelVars, runnerVars
<1>8. PreviousSnapshot'
  <2> SUFFICES ASSUME NEW prev \in prev_snapshot, NEW ip \in IPs
               PROVE  IF ip \in DOMAIN prev.counters THEN InPrevious(prev, ip)'
                                                     ELSE NotInPrevious(ip)'
    BY <1>1 DEF PreviousSnapshot, runnerVars
  <2>1. CASE ip = j /\ ip \in DOMAIN prev.counters
    BY <1>1, <2>1
       DEF IInv, PreviousSnapshot, InPrevious, Counted, kernelVars, runnerVars
  <2>2. CASE ip = j /\ ip \notin DOMAIN prev.counters
    BY <1>1, <2>2
       DEF IInv, PreviousSnapshot, NotInPrevious, Counted, kernelVars, runnerVars
  <2>3. CASE ip # j
    BY <1>1, <1>3, <2>3
       DEF IInv, PreviousSnapshot, InPrevious, NotInPrevious, Counted, kernelVars, runnerVars
  <2> QED BY <2>1, <2>2, <2>3
<1> QED BY <1>4, <1>5, <1>6, <1>7, <1>8 DEF IInv

\* The end of a read, with a tick or with an error, leaves no part of it behind.
LEMMA EndReadEffect ==
  ASSUME EndRead
  PROVE  /\ reading' = FALSE /\ unread' = {}
         /\ DOMAIN partial' = {} /\ DOMAIN seen' = {} /\ IsFiniteSet(DOMAIN partial')
         /\ partial' \in [DOMAIN partial' -> Nat] /\ seen' \in [DOMAIN partial' -> Moment]
  BY FS_EmptySet DEF EndRead, Nothing, Unseen

\* A failed read.
LEMMA IInvReadFails ==
  ASSUME IInv, ReadFails
  PROVE  IInv'
<1>1. EndRead /\ UNCHANGED <<started, kernelVars, runnerVars>>
  BY DEF ReadFails
<1>2. TypeOK'
  <2>1. ManagerTypeOK'
    BY <1>1 DEF IInv, TypeOK, runnerVars, managerVars, ManagerTypeOK
  <2>2. \A ip \in IPs : sent'[ip] = Get(tracker', ip) + erased'[ip]
    BY <1>1 DEF IInv, TypeOK, kernelVars
  <2> QED BY <1>1, <2>1, <2>2, EndReadEffect DEF IInv, TypeOK, kernelVars, runnerVars
<1>3. SnapshotTypes'
  BY <1>1, EndReadEffect DEF IInv, SnapshotTypes, kernelVars, runnerVars, managerVars
<1>4. ReadSoFar' /\ MissedWasErased'
  BY <1>1, EndReadEffect DEF ReadSoFar, MissedWasErased
<1>5. PreviousSnapshot'
  BY <1>1, EndReadEffect
     DEF IInv, PreviousSnapshot, InPrevious, NotInPrevious, Counted, kernelVars, runnerVars
<1> QED BY <1>2, <1>3, <1>4, <1>5 DEF IInv

-----------------------------------------------------------------------------
(* The runner's tick.                                                      *)

\* The snapshot a tick takes d after the last one, and the packets it rates.
Curr(d)         == [timestamp |-> now + d, counters |-> partial, seen |-> seen]
Deltas(prev, d) == [ip \in IPs |-> IF d > 0 THEN Delta(prev.counters, partial, ip) ELSE 0]
Rated(prev, d)  == {ip \in IPs : Deltas(prev, d)[ip] > 0}

\* An evaluation, with the period spelled out: the last snapshot is d old.
LEMMA EvaluateEffect ==
  ASSUME IInv, NEW d \in Steps, Tick(d), NEW prev \in prev_snapshot
  PROVE  /\ \E top \in Tops(Deltas(prev, d), Rated(prev, d)) :
              /\ tick(detect(Deltas(prev, d), d, top), now + d)
              /\ last_top_n' = [ip \in top |-> Deltas(prev, d)[ip]]
         /\ prev_snapshot' = {Curr(d)}
         /\ credited' = [ip \in IPs |-> credited[ip] + Deltas(prev, d)[ip]]
         /\ primed' = primed
<1>1. /\ prev_snapshot = {prev} /\ prev.timestamp = now
      /\ now \in Nat /\ d \in Nat
  BY ManagerAssumption DEF IInv, SnapshotTypes, TypeOK, ManagerTypeOK
<1>2. Evaluate(prev, Curr(d))
  BY <1>1 DEF Tick, Prime, Curr
<1>3. Curr(d).timestamp - prev.timestamp = d /\ Curr(d).counters = partial
  BY <1>1 DEF Curr
<1> DEFINE delta == [ip \in IPs |-> IF Curr(d).timestamp - prev.timestamp > 0
                                      THEN Delta(prev.counters, Curr(d).counters, ip) ELSE 0]
<1>4. delta = Deltas(prev, d)
  BY <1>3, Zenon DEF Deltas
<1>5. {ip \in IPs : delta[ip] > 0} = Rated(prev, d)
  BY <1>4, Zenon DEF Rated
<1>6. /\ \E top \in Tops(delta, {ip \in IPs : delta[ip] > 0}) :
            /\ tick(detect(delta, Curr(d).timestamp - prev.timestamp, top), Curr(d).timestamp)
            /\ last_top_n' = [ip \in top |-> delta[ip]]
      /\ Rotate(Curr(d))
      /\ credited' = [ip \in IPs |-> credited[ip] + delta[ip]]
      /\ UNCHANGED primed
  BY <1>2, Zenon DEF Evaluate
<1> HIDE DEF delta
<1>7. Curr(d).timestamp = now + d
  BY DEF Curr
<1> QED BY <1>3, <1>4, <1>5, <1>6, <1>7, Zenon DEF Rotate

\* What a tick may count of a source: no packet that an earlier tick counted, and
\* none that was not sent since the read before started.
LEMMA DeltaBounds ==
  ASSUME IInv, reading, unread = {}, NEW d \in Nat,
         NEW prev \in prev_snapshot, NEW ip \in IPs
  PROVE  LET n == Deltas(prev, d)[ip]
         IN  /\ n \in Nat
             /\ ip \in DOMAIN partial => Counted(ip) + n <= seen[ip].sent
             /\ ip \notin DOMAIN partial => n = 0
             /\ n > 0 => n <= sent[ip] - started.prev[ip]
<1> DEFINE n == Deltas(prev, d)[ip]
<1>1. /\ sent[ip] \in Nat /\ erased[ip] \in Nat /\ credited[ip] \in Nat /\ primed[ip] \in Nat
      /\ started.this[ip] \in Nat /\ started.prev[ip] \in Nat
  BY DEF IInv, TypeOK, SnapshotTypes
<1>2. Get(prev.counters, ip) \in Nat /\ Get(partial, ip) \in Nat
  BY DEF IInv, TypeOK, SnapshotTypes, Get
<1>3. /\ n \in Nat
      /\ n = 0 \/ n = Get(partial, ip) - Get(prev.counters, ip)
  BY <1>2 DEF Deltas, Delta
<1>4. ip \notin DOMAIN partial => n = 0
  <2> SUFFICES ASSUME ip \notin DOMAIN partial PROVE n = 0
    OBVIOUS
  <2>1. Get(partial, ip) = 0
    BY DEF Get
  <2> QED BY <1>2, <1>3, <2>1
<1>5. CASE ip \in DOMAIN partial
  <2>1. /\ seen[ip].sent \in Nat /\ seen[ip].erased \in Nat
        /\ partial[ip] \in Nat /\ Get(partial, ip) = partial[ip]
    BY <1>2, <1>5 DEF IInv, SnapshotTypes, Moment, Get
  <2>2. /\ partial[ip] + seen[ip].erased = seen[ip].sent
        /\ seen[ip].sent <= sent[ip]
    BY <1>5 DEF IInv, ReadSoFar
  <2>3. CASE ip \in DOMAIN prev.counters
    <3>1. /\ prev.seen[ip].sent \in Nat /\ prev.seen[ip].erased \in Nat
          /\ prev.counters[ip] \in Nat /\ Get(prev.counters, ip) = prev.counters[ip]
      BY <1>2, <2>3 DEF IInv, SnapshotTypes, Moment, Get
    <3>2. InPrevious(prev, ip)
      BY <2>3 DEF IInv, PreviousSnapshot
    <3>3. /\ Counted(ip) + n <= seen[ip].sent
          /\ n > 0 => n <= sent[ip] - started.prev[ip]
      BY <1>1, <1>3, <1>5, <2>1, <2>2, <3>1, <3>2 DEF InPrevious, Counted
    <3> QED BY <1>3, <1>5, <3>3
  <2>4. CASE ip \notin DOMAIN prev.counters
    <3>1. Get(prev.counters, ip) = 0 /\ NotInPrevious(ip)
      BY <2>4 DEF IInv, PreviousSnapshot, Get
    <3>2. /\ Counted(ip) + n <= seen[ip].sent
          /\ n > 0 => n <= sent[ip] - started.prev[ip]
      BY <1>1, <1>3, <1>5, <2>1, <2>2, <3>1 DEF NotInPrevious, Counted
    <3> QED BY <1>3, <1>5, <3>2
  <2> QED BY <2>3, <2>4
<1> QED BY <1>3, <1>4, <1>5

\* The top offenders are a finite set of at most top_n sources; if one with a rate
\* is left out, they are top_n, and all at least as fast.
LEMMA TopsEffect ==
  ASSUME IInv, reading, unread = {}, NEW d \in Nat, NEW prev \in prev_snapshot,
         NEW top \in Tops(Deltas(prev, d), Rated(prev, d))
  PROVE  /\ top \subseteq IPs
         /\ IsFiniteSet(top) /\ Cardinality(top) <= TopN
         /\ \A ip \in Rated(prev, d) \ top :
              /\ Cardinality(top) = TopN
              /\ \A i \in top : Deltas(prev, d)[i] >= Deltas(prev, d)[ip]
<1> DEFINE rated == Rated(prev, d)
<1>1. rated \subseteq DOMAIN partial
  <2> SUFFICES ASSUME NEW ip \in rated PROVE ip \in DOMAIN partial
    OBVIOUS
  <2>1. ip \in IPs /\ Deltas(prev, d)[ip] > 0
    BY DEF Rated
  <2> QED BY <2>1, DeltaBounds
<1>2. IsFiniteSet(rated) /\ Cardinality(rated) \in Nat
  BY <1>1, FS_Subset, FS_CardinalityType DEF IInv, SnapshotTypes
<1>3. /\ top \subseteq rated
      /\ Cardinality(top) = IF Cardinality(rated) < TopN THEN Cardinality(rated) ELSE TopN
      /\ \A i \in top, j \in rated \ top : Deltas(prev, d)[i] >= Deltas(prev, d)[j]
  BY DEF Tops
<1>4. IsFiniteSet(top)
  BY <1>2, <1>3, FS_Subset
<1>5. Cardinality(top) <= TopN
  BY <1>2, <1>3, ManagerAssumption
<1>6. ASSUME NEW ip \in rated \ top PROVE Cardinality(top) = TopN
  <2>1. Cardinality(top) # Cardinality(rated)
    <3>1. Cardinality(top) = Cardinality(rated) => top = rated
      BY <1>2, <1>3, FS_Subset
    <3> QED BY <1>6, <3>1
  <2> QED BY <1>3, <2>1
<1> QED BY <1>3, <1>4, <1>5, <1>6 DEF Rated

\* What a tick leaves, whether it primes or evaluates.
TickLeaves(d) ==
    /\ ManagerTypeOK' /\ now' = now + d
    /\ Cardinality(DOMAIN last_top_n') <= TopN
    /\ prev_snapshot' = {Curr(d)}
    /\ {credited', primed'} \subseteq [IPs -> Nat]
    /\ \A ip \in IPs : IF ip \in DOMAIN partial THEN Counted(ip)' <= seen[ip].sent
                                                ELSE Counted(ip)' <= erased[ip]

\* The first snapshot is counted as it is.
LEMMA PrimeLeaves ==
  ASSUME IInv, NEW d \in Steps, Tick(d), prev_snapshot = {}
  PROVE  TickLeaves(d)
<1>1. /\ primed' = [ip \in IPs |-> Get(partial, ip)]
      /\ prev_snapshot' = {Curr(d)} /\ now' = now + d
      /\ events' = {} /\ heartbeats' = {}
      /\ UNCHANGED <<states, signals, credited, last_top_n>>
  BY DEF Tick, Prime, Curr
<1>2. now \in Nat /\ d \in Nat /\ ManagerTypeOK
  BY ManagerAssumption DEF IInv, TypeOK, ManagerTypeOK
<1>3. ManagerTypeOK'
  BY <1>1, <1>2 DEF ManagerTypeOK
<1>4. credited' = Zero /\ credited' \in [IPs -> Nat]
  BY <1>1 DEF IInv, SnapshotTypes, Zero
<1>5. \A ip \in IPs : Get(partial, ip) \in Nat
  BY DEF IInv, TypeOK, Get
<1>6. ASSUME NEW ip \in IPs
      PROVE  IF ip \in DOMAIN partial THEN Counted(ip)' <= seen[ip].sent
                                      ELSE Counted(ip)' <= erased[ip]
  <2>1. Counted(ip)' = Get(partial, ip)
    BY <1>1, <1>4, <1>5 DEF Counted, Zero
  <2>2. CASE ip \in DOMAIN partial
    <3>1. seen[ip] \in Moment /\ partial[ip] + seen[ip].erased = seen[ip].sent
      BY <2>2 DEF IInv, SnapshotTypes, ReadSoFar
    <3> QED BY <1>5, <2>1, <2>2, <3>1 DEF Moment, Get
  <2>3. CASE ip \notin DOMAIN partial
    BY <2>1, <2>3 DEF IInv, TypeOK, Get
  <2> QED BY <2>2, <2>3
<1>7. Cardinality(DOMAIN last_top_n') <= TopN
  BY <1>1 DEF IInv, TypeOK
<1> QED BY <1>1, <1>3, <1>4, <1>5, <1>6, <1>7 DEF TickLeaves

\* An evaluation counts what DeltaBounds allows.
LEMMA EvaluateLeaves ==
  ASSUME IInv, NEW d \in Steps, Tick(d), NEW prev \in prev_snapshot
  PROVE  TickLeaves(d)
<1>1. reading /\ unread = {} /\ now \in Nat /\ d \in Nat /\ ManagerTypeOK
  BY ManagerAssumption DEF Tick, IInv, TypeOK, ManagerTypeOK
<1>2. PICK top \in Tops(Deltas(prev, d), Rated(prev, d)) :
         /\ tick(detect(Deltas(prev, d), d, top), now + d)
         /\ last_top_n' = [ip \in top |-> Deltas(prev, d)[ip]]
  BY EvaluateEffect
<1>3. top \subseteq IPs /\ Cardinality(top) <= TopN
  BY <1>1, TopsEffect
<1>4. detect(Deltas(prev, d), d, top) \subseteq IPs /\ now + d \in Nat
  BY <1>1, <1>3 DEF detect
<1>5. ManagerTypeOK' /\ now' = now + d
  BY <1>1, <1>2, <1>4, ManagerTick DEF tick
<1>6. Cardinality(DOMAIN last_top_n') <= TopN
  BY <1>2, <1>3
<1>7. ASSUME NEW ip \in IPs
      PROVE  /\ credited'[ip] \in Nat /\ Counted(ip)' = Counted(ip) + Deltas(prev, d)[ip]
             /\ IF ip \in DOMAIN partial THEN Counted(ip)' <= seen[ip].sent
                                         ELSE Counted(ip)' <= erased[ip]
  <2>1. /\ credited'[ip] = credited[ip] + Deltas(prev, d)[ip] /\ primed' = primed
        /\ credited[ip] \in Nat /\ primed[ip] \in Nat
    BY EvaluateEffect DEF IInv, TypeOK
  <2>2. Deltas(prev, d)[ip] \in Nat
    BY <1>1, DeltaBounds
  <2>3. Counted(ip)' = Counted(ip) + Deltas(prev, d)[ip]
    BY <2>1, <2>2 DEF Counted
  <2>4. CASE ip \in DOMAIN partial
    BY <1>1, <2>1, <2>2, <2>3, <2>4, DeltaBounds
  <2>5. CASE ip \notin DOMAIN partial
    <3>1. Deltas(prev, d)[ip] = 0
      BY <1>1, <2>5, DeltaBounds
    <3>2. Counted(ip) <= erased[ip] /\ Counted(ip) \in Nat
      BY <1>1, <2>1, <2>5 DEF IInv, MissedWasErased, Counted
    <3> QED BY <2>1, <2>2, <2>3, <2>5, <3>1, <3>2
  <2> QED BY <2>1, <2>2, <2>3, <2>4, <2>5
<1>8. {credited', primed'} \subseteq [IPs -> Nat]
  <2>1. credited' = [ip \in IPs |-> credited[ip] + Deltas(prev, d)[ip]] /\ primed' = primed
    BY EvaluateEffect
  <2>2. credited' = [ip \in IPs |-> credited'[ip]]
    BY <2>1
  <2> QED BY <1>7, <2>1, <2>2 DEF IInv, TypeOK
<1> QED BY <1>5, <1>6, <1>7, <1>8, EvaluateEffect DEF TickLeaves

\* A tick.
LEMMA IInvTick ==
  ASSUME IInv, NEW d \in Steps, Tick(d)
  PROVE  IInv'
<1>1. /\ reading /\ unread = {} /\ EndRead
      /\ started' = [started EXCEPT !.prev = started.this]
      /\ UNCHANGED kernelVars
  BY DEF Tick
<1>2. TickLeaves(d)
  BY PrimeLeaves, EvaluateLeaves
<1>3. started'.this = started.this /\ started'.prev = started.this
  BY <1>1 DEF IInv, SnapshotTypes
<1>4. TypeOK'
  <2>1. Cardinality(prev_snapshot') <= 1
    <3>1. Cardinality({Curr(d)}) = 1
      BY FS_Singleton
    <3> QED BY <1>2, <3>1 DEF TickLeaves
  <2>2. \A ip \in IPs : sent'[ip] = Get(tracker', ip) + erased'[ip]
    BY <1>1 DEF IInv, TypeOK, kernelVars
  <2> QED BY <1>1, <1>2, <2>1, <2>2, EndReadEffect DEF IInv, TypeOK, TickLeaves, kernelVars
<1>5. SnapshotTypes'
  <2>1. /\ Curr(d).timestamp = now' /\ Curr(d).counters = partial /\ Curr(d).seen = seen
    BY <1>2 DEF Curr, TickLeaves
  <2>2. DOMAIN partial \subseteq IPs /\ partial \in [DOMAIN partial -> Nat]
    BY DEF IInv, TypeOK
  <2>3. started' \in [this : [IPs -> Nat], prev : [IPs -> Nat]]
    BY <1>1 DEF IInv, SnapshotTypes
  <2> QED BY <1>1, <1>2, <1>3, <2>1, <2>2, <2>3, EndReadEffect
          DEF IInv, SnapshotTypes, TickLeaves, kernelVars
<1>6. ReadSoFar' /\ MissedWasErased'
  BY <1>1, EndReadEffect DEF ReadSoFar, MissedWasErased
<1>7. PreviousSnapshot'
  <2>1. /\ prev_snapshot' = {Curr(d)}
        /\ Curr(d).counters = partial /\ Curr(d).seen = seen
    BY <1>2 DEF Curr, TickLeaves
  <2>2. DOMAIN partial' = {}
    BY <1>1, EndReadEffect
  <2>3. ASSUME NEW prev \in prev_snapshot', NEW ip \in IPs, ip \in DOMAIN prev.counters
        PROVE  InPrevious(prev, ip)'
    <3>1. prev.counters = partial /\ prev.seen = seen /\ ip \in DOMAIN partial
      BY <2>1, <2>3
    <3>2. seen[ip] \in Moment /\ started.this[ip] \in Nat /\ sent[ip] \in Nat
      BY <3>1 DEF IInv, SnapshotTypes, TypeOK
    <3>3. /\ partial[ip] + seen[ip].erased = seen[ip].sent
          /\ seen[ip].sent \in started.this[ip] .. sent[ip] /\ seen[ip].erased <= erased[ip]
      BY <3>1 DEF IInv, ReadSoFar
    <3>4. Counted(ip)' <= seen[ip].sent
      BY <1>2, <3>1 DEF TickLeaves
    <3> QED BY <1>1, <1>3, <2>2, <3>1, <3>2, <3>3, <3>4
            DEF InPrevious, kernelVars, Moment
  <2>4. ASSUME NEW ip \in IPs, ip \notin DOMAIN partial
        PROVE  NotInPrevious(ip)'
    BY <1>1, <1>2, <1>3, <2>2, <2>4
       DEF IInv, MissedWasErased, NotInPrevious, TickLeaves, kernelVars
  <2> QED BY <2>1, <2>3, <2>4 DEF PreviousSnapshot
<1> QED BY <1>4, <1>5, <1>6, <1>7 DEF IInv

\* The invariant holds in every reachable state.
THEOREM AccountsCorrect == Spec => []IInv
<1>1. IInv /\ [Next]_vars => IInv'
  <2> SUFFICES ASSUME IInv, [Next]_vars PROVE IInv'
    OBVIOUS
  <2>1. ASSUME NEW ip \in IPs, Syn(ip) PROVE IInv'
    BY <2>1, IInvSyn
  <2>2. ASSUME NEW ip \in IPs, ReadKey(ip) PROVE IInv'
    BY <2>2, IInvReadKey
  <2>3. CASE StartRead
    BY <2>3, IInvStartRead
  <2>4. CASE ReadFails
    BY <2>4, IInvReadFails
  <2>5. ASSUME NEW d \in Steps, Tick(d) PROVE IInv'
    BY <2>5, IInvTick
  <2>6. CASE UNCHANGED vars
    <3>1. UNCHANGED <<kernelVars, readerVars, runnerVars>>
      BY <2>6 DEF vars
    <3>2. TypeOK' /\ SnapshotTypes'
      BY <3>1 DEF IInv, TypeOK, ManagerTypeOK, SnapshotTypes,
                  kernelVars, readerVars, runnerVars, managerVars
    <3>3. ReadSoFar' /\ MissedWasErased' /\ PreviousSnapshot'
      BY <3>1 DEF IInv, ReadSoFar, MissedWasErased, PreviousSnapshot, InPrevious,
                  NotInPrevious, Counted, kernelVars, readerVars, runnerVars
    <3> QED BY <3>2, <3>3 DEF IInv
  <2> QED BY <2>1, <2>2, <2>3, <2>4, <2>5, <2>6 DEF Next
<1> QED BY <1>1, IInvInit, PTL DEF Spec

\* Every variable has its type: the map keeps within its capacity, top_n is never
\* exceeded, and the kernel's counters are all that was sent and not erased.
THEOREM TypeCorrect == Spec => []TypeOK
<1>1. IInv => TypeOK
  BY DEF IInv
<1> QED BY <1>1, AccountsCorrect, PTL

\* No SYN is counted by two ticks, whatever is evicted, created anew, read while
\* it changes, missed or left over from a read that failed.
THEOREM CountedOnceTheorem == Spec => []CountedOnce
<1>1. IInv => CountedOnce
  BY CountedWasSent DEF CountedOnce, Counted
<1> QED BY <1>1, AccountsCorrect, PTL

\* A tick that signals a source has packets to show for it: the source really sent
\* SYNs at more than the threshold since the read before started.
THEOREM SignalsBackedTheorem == Spec => SignalsBacked
<1> DEFINE Backed == \A prev \in prev_snapshot, ip \in signals' :
              prev_snapshot' # prev_snapshot =>
                sent[ip] - started.prev[ip] > max_syn_pps * (now' - prev.timestamp)
<1>1. IInv /\ Next => Backed
  <2> SUFFICES ASSUME IInv, Next, NEW prev \in prev_snapshot, NEW ip \in signals',
                      prev_snapshot' # prev_snapshot
               PROVE  sent[ip] - started.prev[ip] > max_syn_pps * (now' - prev.timestamp)
    OBVIOUS
  <2>1. PICK d \in Steps : Tick(d)
    BY DEF Next, Syn, ReadKey, StartRead, ReadFails, runnerVars
  <2>2. PICK top \in Tops(Deltas(prev, d), Rated(prev, d)) :
           tick(detect(Deltas(prev, d), d, top), now + d)
    BY <2>1, EvaluateEffect
  <2>3. reading /\ unread = {} /\ d \in Nat /\ now \in Nat /\ prev.timestamp = now
    BY <2>1, ManagerAssumption DEF Tick, IInv, TypeOK, ManagerTypeOK, SnapshotTypes
  <2>4. now' - prev.timestamp = d
    BY <2>2, <2>3 DEF tick
  <2>5. ip \in IPs /\ Deltas(prev, d)[ip] > max_syn_pps * d
    <3>1. signals' = detect(Deltas(prev, d), d, top) /\ top \subseteq IPs
      BY <2>2, <2>3, TopsEffect DEF tick
    <3> QED BY <3>1 DEF detect
  <2>6. max_syn_pps * d \in Nat
    BY <2>3, SynFloodAssumption
  <2>7. /\ Deltas(prev, d)[ip] \in Nat
        /\ Deltas(prev, d)[ip] > 0 => Deltas(prev, d)[ip] <= sent[ip] - started.prev[ip]
    BY <2>3, <2>5, DeltaBounds
  <2>8. sent[ip] \in Nat /\ started.prev[ip] \in Nat
    BY <2>5 DEF IInv, TypeOK, SnapshotTypes
  <2> QED BY <2>4, <2>5, <2>6, <2>7, <2>8
<1>2. IInv /\ [Next]_vars => [Backed]_vars
  BY <1>1
<1> QED BY <1>2, AccountsCorrect, PTL DEF Spec, SignalsBacked

-----------------------------------------------------------------------------
(* Nothing is missed.  Both theorems are about ticks at different instants: *)
(* compute_syn_rates gives no rates to two snapshots of one instant, and   *)
(* the SYNs between them are in no tick.                                   *)

\* If nothing of ip was erased between two reads of it, a tick that comes later
\* than the one before counts exactly what ip sent between them.
LEMMA DeltaExact ==
  ASSUME IInv, reading, unread = {}, NEW d \in Nat, d > 0,
         NEW prev \in prev_snapshot, NEW ip \in DOMAIN partial,
         seen[ip].erased = IF ip \in DOMAIN prev.counters THEN prev.seen[ip].erased ELSE 0
  PROVE  Deltas(prev, d)[ip] = seen[ip].sent - (IF ip \in DOMAIN prev.counters
                                                  THEN prev.seen[ip].sent ELSE 0)
<1>1. /\ ip \in IPs /\ seen[ip] \in Moment /\ partial[ip] \in Nat
      /\ partial[ip] + seen[ip].erased = seen[ip].sent
  BY DEF IInv, TypeOK, SnapshotTypes, ReadSoFar
<1>2. Deltas(prev, d)[ip] = IF partial[ip] > Get(prev.counters, ip)
                              THEN partial[ip] - Get(prev.counters, ip) ELSE 0
  BY <1>1 DEF Deltas, Delta, Get
<1>3. CASE ip \in DOMAIN prev.counters
  <2>1. prev.seen[ip] \in Moment /\ prev.counters[ip] \in Nat /\ InPrevious(prev, ip)
    BY <1>1, <1>3 DEF IInv, SnapshotTypes, PreviousSnapshot
  <2>2. Get(prev.counters, ip) = prev.counters[ip]
    BY <1>3 DEF Get
  <2> QED BY <1>1, <1>2, <1>3, <2>1, <2>2 DEF InPrevious, Moment
<1>4. CASE ip \notin DOMAIN prev.counters
  BY <1>1, <1>2, <1>4 DEF Moment, Get
<1> QED BY <1>3, <1>4

\* Every SYN up to the last snapshot was counted, unless the kernel lost some of
\* them: no read, failed or not, and no eviction of others makes a tick skip one.
THEOREM NothingMissedTheorem ==
  ASSUME 0 \notin Steps
  PROVE  Spec => []NothingMissed
<1>1. Init => NothingMissed
  BY DEF Init, NothingMissed
<1>2. IInv /\ NothingMissed /\ [Next]_vars => NothingMissed'
  <2> SUFFICES ASSUME IInv, NothingMissed, [Next]_vars,
                      NEW prev \in prev_snapshot', NEW ip \in IPs, erased'[ip] = 0
               PROVE  Counted(ip)' = Get(prev.counters, ip)
    BY DEF NothingMissed, Counted
  <2>1. CASE UNCHANGED vars
    BY <2>1 DEF NothingMissed, Counted, vars, kernelVars, runnerVars
  <2>2. ASSUME NEW j \in IPs, Syn(j) PROVE Counted(ip)' = Get(prev.counters, ip)
    <3>1. erased[ip] \in Nat /\ erased'[ip] \in Nat /\ erased'[ip] >= erased[ip]
      BY <2>2, SynEffect DEF IInv, TypeOK
    <3> QED BY <2>2, <3>1 DEF Syn, NothingMissed, Counted, runnerVars
  <2>3. CASE StartRead \/ ReadFails \/ \E j \in IPs : ReadKey(j)
    BY <2>3 DEF StartRead, ReadFails, ReadKey, NothingMissed, Counted, kernelVars, runnerVars
  <2>4. ASSUME NEW d \in Steps, Tick(d) PROVE Counted(ip)' = Get(prev.counters, ip)
    <3>1. /\ reading /\ unread = {} /\ erased[ip] = 0
          /\ d \in Nat /\ d > 0
      BY <2>4, ManagerAssumption DEF Tick, kernelVars
    <3>2. TickLeaves(d)
      BY <2>4, PrimeLeaves, EvaluateLeaves
    <3>3. prev.counters = partial
      BY <3>2 DEF TickLeaves, Curr
    <3>4. ip \in DOMAIN partial => seen[ip] \in Moment /\ seen[ip].erased = 0
      BY <3>1 DEF IInv, SnapshotTypes, ReadSoFar, Moment
    <3>5. CASE prev_snapshot = {}
      <4>1. primed' = [i \in IPs |-> Get(partial, i)] /\ credited' = Zero
        BY <2>4, <3>5 DEF Tick, Prime, IInv, SnapshotTypes
      <4>2. Get(partial, ip) \in Nat
        BY DEF IInv, TypeOK, Get
      <4> QED BY <3>3, <4>1, <4>2 DEF Counted, Zero
    <3>6. ASSUME NEW last \in prev_snapshot PROVE Counted(ip)' = Get(prev.counters, ip)
      <4>1. Counted(ip) = Get(last.counters, ip)
        BY <3>1 DEF NothingMissed, Counted
      <4>2. /\ Counted(ip)' = Counted(ip) + Deltas(last, d)[ip]
            /\ Counted(ip) \in Nat /\ Deltas(last, d)[ip] \in Nat
        <5>1. /\ credited'[ip] = credited[ip] + Deltas(last, d)[ip] /\ primed' = primed
              /\ credited[ip] \in Nat /\ primed[ip] \in Nat
          BY <2>4, EvaluateEffect DEF IInv, TypeOK
        <5>2. Deltas(last, d)[ip] \in Nat
          BY <3>1, DeltaBounds
        <5> QED BY <5>1, <5>2 DEF Counted
      <4>3. CASE ip \in DOMAIN partial
        <5>1. ip \in DOMAIN last.counters => /\ last.seen[ip] \in Moment
                                             /\ last.seen[ip].erased = 0
                                             /\ last.counters[ip] \in Nat
                                             /\ last.counters[ip] = last.seen[ip].sent
          BY <3>1 DEF IInv, SnapshotTypes, PreviousSnapshot, InPrevious, Moment
        <5>2. Deltas(last, d)[ip] = seen[ip].sent - Get(last.counters, ip)
          BY <3>1, <3>4, <4>3, <5>1, DeltaExact DEF Get
        <5>3. Get(prev.counters, ip) = seen[ip].sent
          BY <3>3, <3>4, <4>3 DEF IInv, TypeOK, ReadSoFar, Get, Moment
        <5> QED BY <3>4, <4>1, <4>2, <4>3, <5>2, <5>3 DEF Moment
      <4>4. CASE ip \notin DOMAIN partial
        <5>1. Deltas(last, d)[ip] = 0 /\ Counted(ip) <= erased[ip]
          BY <3>1, <4>4, DeltaBounds DEF IInv, MissedWasErased
        <5> QED BY <3>1, <3>3, <4>2, <4>4, <5>1 DEF Get
      <4> QED BY <4>3, <4>4
    <3> QED BY <3>5, <3>6
  <2> QED BY <2>1, <2>2, <2>3, <2>4 DEF Next
<1> QED BY <1>1, <1>2, AccountsCorrect, PTL DEF Spec

\* A flood is seen: a source whose SYNs between two reads of its counter are above
\* the threshold, and none of them erased, is signalled and listed with them and an
\* open or building alert, unless top_n sources that are at least as fast are.
THEOREM FloodSeenTheorem ==
  ASSUME 0 \notin Steps
  PROVE  Spec => FloodSeen
<1> DEFINE Before(prev, ip) == IF ip \in DOMAIN prev.seen THEN prev.seen[ip]
                                                       ELSE [sent |-> 0, erased |-> 0]
           Shown(ip, n) == /\ ip \in signals'
                           /\ \E o \in SynFloodResponse'.top_offenders :
                                 /\ o.src_ip = ip /\ o.pps = n
                                 /\ o.alert_phase \in {{"Pending"}, {"Firing"}}
           Crowded(prev, ip) == /\ Cardinality(signals') = TopN
                                /\ \A i \in signals' :
                                     last_top_n'[i] >= seen[ip].sent - Before(prev, ip).sent
           Seen == \A prev \in prev_snapshot, ip \in DOMAIN seen :
                     LET before == IF ip \in DOMAIN prev.seen THEN prev.seen[ip]
                                                 ELSE [sent |-> 0, erased |-> 0]
                     IN  /\ prev_snapshot' # prev_snapshot
                         /\ seen[ip].erased = before.erased
                         /\ seen[ip].sent - before.sent > max_syn_pps * (now' - prev.timestamp)
                         => \/ /\ ip \in signals'
                               /\ \E o \in SynFloodResponse'.top_offenders :
                                     /\ o.src_ip = ip /\ o.pps = seen[ip].sent - before.sent
                                     /\ o.alert_phase \in {{"Pending"}, {"Firing"}}
                            \/ /\ Cardinality(signals') = TopN
                               /\ \A i \in signals' :
                                    last_top_n'[i] >= seen[ip].sent - before.sent
<1>1. IInv /\ Next => Seen
  <2> SUFFICES ASSUME IInv, Next, NEW prev \in prev_snapshot, NEW ip \in DOMAIN seen,
                      prev_snapshot' # prev_snapshot,
                      seen[ip].erased = Before(prev, ip).erased,
                      seen[ip].sent - Before(prev, ip).sent
                        > max_syn_pps * (now' - prev.timestamp)
               PROVE  Shown(ip, seen[ip].sent - Before(prev, ip).sent) \/ Crowded(prev, ip)
    OBVIOUS
  <2>1. PICK d \in Steps : Tick(d)
    BY DEF Next, Syn, ReadKey, StartRead, ReadFails, runnerVars
  <2>2. PICK top \in Tops(Deltas(prev, d), Rated(prev, d)) :
           /\ tick(detect(Deltas(prev, d), d, top), now + d)
           /\ last_top_n' = [i \in top |-> Deltas(prev, d)[i]]
    BY <2>1, EvaluateEffect
  <2>3. /\ reading /\ unread = {} /\ d \in Nat /\ d > 0 /\ now \in Nat
        /\ prev.timestamp = now /\ DOMAIN prev.seen = DOMAIN prev.counters
        /\ ip \in DOMAIN partial /\ ip \in IPs
    BY <2>1, ManagerAssumption DEF Tick, IInv, TypeOK, ManagerTypeOK, SnapshotTypes
  <2>4. now' - prev.timestamp = d /\ signals' = detect(Deltas(prev, d), d, top)
    BY <2>2, <2>3 DEF tick
  <2>5. Deltas(prev, d)[ip] = seen[ip].sent - Before(prev, ip).sent
    BY <2>3, DeltaExact
  <2>6. max_syn_pps * d \in Nat
    BY <2>3, SynFloodAssumption
  <2>7. Deltas(prev, d)[ip] \in Nat /\ Deltas(prev, d)[ip] > max_syn_pps * d
    BY <2>3, <2>4, <2>5, DeltaBounds
  <2>8. CASE ip \in signals'
    <3> DEFINE delta == Deltas(prev, d)
               sig   == detect(delta, d, top)
               o     == [src_ip      |-> ip,
                         pps         |-> last_top_n'[ip],
                         alert_phase |-> IF ip \in DOMAIN states'
                                           THEN {states'[ip].phase} ELSE {}]
    <3>1. ip \in top /\ top \subseteq IPs
      BY <2>3, <2>4, <2>8, TopsEffect DEF detect
    <3>2. DOMAIN last_top_n' = top /\ last_top_n'[ip] = delta[ip]
      BY <2>2, <3>1
    <3>3. ip \in DOMAIN states' /\ states'[ip].phase \in {"Pending", "Firing"}
      <4>1. sig \in SUBSET IPs /\ ip \in sig /\ tick(sig, now + d)
        BY <2>2, <2>4, <2>8, <3>1 DEF detect
      <4>2. now + d \in Nat /\ ManagerTypeOK
        BY <2>3 DEF IInv, TypeOK
      <4> HIDE DEF sig
      <4> QED BY <4>1, <4>2, SignalHasAlert
    <3>4. o \in SynFloodResponse'.top_offenders
      BY <3>1, <3>2 DEF SynFloodResponse
    <3>5. o.src_ip = ip /\ o.pps = delta[ip] /\ o.alert_phase \in {{"Pending"}, {"Firing"}}
      BY <3>2, <3>3
    <3> HIDE DEF o
    <3> QED BY <2>5, <2>8, <3>4, <3>5
  <2>9. CASE ip \notin signals'
    <3>1. ip \in Rated(prev, d) \ top
      BY <2>3, <2>4, <2>6, <2>7, <2>9 DEF detect, Rated
    <3>2. /\ top \subseteq IPs /\ Cardinality(top) = TopN
          /\ \A i \in top : Deltas(prev, d)[i] >= Deltas(prev, d)[ip]
      BY <2>3, <3>1, TopsEffect
    <3>3. signals' = top
      <4> SUFFICES ASSUME NEW i \in top PROVE Deltas(prev, d)[i] > max_syn_pps * d
        BY <2>4 DEF detect
      <4>1. Deltas(prev, d)[i] \in Nat
        BY <2>3, <3>2, DeltaBounds
      <4> QED BY <2>6, <2>7, <3>2, <4>1
    <3> QED BY <2>2, <2>5, <3>2, <3>3
  <2> QED BY <2>8, <2>9
<1>2. IInv /\ [Next]_vars => [Seen]_vars
  BY <1>1
<1> QED BY <1>2, AccountsCorrect, PTL DEF Spec, FloodSeen
=============================================================================
