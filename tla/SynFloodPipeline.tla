--------------------------- MODULE SynFloodPipeline ---------------------------
(***************************************************************************)
(* From SYN packets to SYN-flood alerts: record_syn in the XDP program, the*)
(* LRU map SYN_TRACKER, its key-by-key read while the kernel keeps counting*)
(* and evicting, and SynFloodRunner::tick on the last two snapshots.       *)
(*                                                                         *)
(* The counter of a source is the sum over the CPUs.  The kernel's LRU is  *)
(* approximate: any entry may be the victim of an insert, and an insert    *)
(* may fail.  The order of a map iteration is the kernel's, too.  The      *)
(* runner takes its clock right after the read; one instant stands for the *)
(* snapshot's and the runner's.                                            *)
(***************************************************************************)
EXTENDS IpAlertLifecycleManager

CONSTANTS SYN_TRACKER_MAX_ENTRIES,  \* capacity of the LRU map
          max_syn_pps,              \* SynFloodDetector's threshold
          MaxSyns, MaxReads         \* bounds on the length of a behaviour

ASSUME SynFloodAssumption ==
    /\ SYN_TRACKER_MAX_ENTRIES \in Nat \ {0}
    /\ {max_syn_pps, MaxSyns, MaxReads} \subseteq Nat

VARIABLES tracker,        \* SYN_TRACKER: packets per tracked source
          reading,        \* read_syn_snapshot is under way
          unread,         \* keys its iteration is bound to visit yet
          partial,        \* the counters it has read
          prev_snapshot,  \* Option<SynCountersSnapshot>
          last_top_n      \* rates of the top offenders of the last evaluation

\* History, for the properties only.
VARIABLES reads,     \* number of reads so far
          sent,      \* sent[ip]: SYNs ip really sent
          erased,    \* erased[ip]: SYNs of ip that evictions and failures lost
          seen,      \* sent and erased when each key of partial was read
          started,   \* sent when this read and the previous snapshot's started
          credited,  \* credited[ip]: SYNs of ip that ticks turned into rates
          primed     \* primed[ip]: counter in the snapshot that primed the runner

kernelVars  == <<tracker, sent, erased>>
readerVars  == <<reading, unread, partial, seen, started, reads>>
runnerVars  == <<managerVars, prev_snapshot, last_top_n, credited, primed>>
vars        == <<kernelVars, readerVars, runnerVars>>

Zero     == [ip \in IPs |-> 0]
Nothing  == [ip \in {} |-> 0]

\* counters.get(&key).map_or(0, ..)
Get(counters, ip) == IF ip \in DOMAIN counters THEN counters[ip] ELSE 0

Unseen   == [ip \in {} |-> [sent |-> 0, erased |-> 0]]

Init == /\ ManagerInit
        /\ tracker = Nothing
        /\ reading = FALSE /\ unread = {} /\ partial = Nothing
        /\ prev_snapshot = {}
        /\ reads = 0
        /\ sent = Zero /\ erased = Zero /\ credited = Zero /\ primed = Zero
        /\ seen = Unseen
        /\ started = [this |-> Zero, prev |-> Zero]
        /\ last_top_n = Nothing

-----------------------------------------------------------------------------
(* The kernel. *)

\* What an insert may evict.  The kernel evicts in batches and before the map is
\* full; what counts is that the new entry fits.
Victims == {V \in SUBSET DOMAIN tracker :
              Cardinality(DOMAIN tracker \ V) < SYN_TRACKER_MAX_ENTRIES}

Insert(ip, victims) ==
    /\ tracker' = [i \in (DOMAIN tracker \ victims) \cup {ip} |->
                     IF i = ip THEN 1 ELSE tracker[i]]
    /\ erased' = [i \in IPs |-> IF i \in victims THEN erased[i] + tracker[i] ELSE erased[i]]
    /\ unread' = unread \ victims

FaultRestartsCounter(ip) ==
    \/ \E victims \in Victims : Insert(ip, victims)
    \/ /\ erased' = [erased EXCEPT ![ip] = @ + 1]
       /\ UNCHANGED <<tracker, unread>>

record_syn(ip) ==
    \/ /\ ip \in DOMAIN tracker
       /\ tracker' = [tracker EXCEPT ![ip] = @ + 1]
       /\ UNCHANGED <<erased, unread>>
    \/ /\ ip \notin DOMAIN tracker
       /\ \E victims \in Victims : Insert(ip, victims)
    \/ /\ ip \notin DOMAIN tracker
       /\ erased' = [erased EXCEPT ![ip] = @ + 1]
       /\ UNCHANGED <<tracker, unread>>

TotalSent == LET total[S \in SUBSET IPs] ==
                   IF S = {} THEN 0
                   ELSE LET ip == CHOOSE i \in S : TRUE IN sent[ip] + total[S \ {ip}]
             IN  total[IPs]

Syn(ip) == /\ TotalSent < MaxSyns
           /\ record_syn(ip)
           /\ sent' = [sent EXCEPT ![ip] = @ + 1]
           /\ UNCHANGED <<reading, partial, seen, started, reads, runnerVars>>

-----------------------------------------------------------------------------
(* read_syn_snapshot. *)

StartRead == /\ ~reading /\ reads < MaxReads
             /\ reading' = TRUE
             /\ reads' = reads + 1
             /\ unread' = DOMAIN tracker
             /\ partial' = Nothing
             /\ seen' = Unseen
             /\ started' = [started EXCEPT !.this = sent]
             /\ UNCHANGED <<kernelVars, runnerVars>>

\* The iteration visits a key: every key that stays in the map throughout, and
\* maybe one that came later, or one again, when an eviction under the cursor
\* makes the kernel start over.  A key that is gone before its visit is skipped.
ReadKey(ip) ==
    /\ reading
    /\ ip \in DOMAIN tracker
    /\ unread' = unread \ {ip}
    /\ partial' = [i \in DOMAIN partial \cup {ip} |->
                     IF i = ip THEN tracker[ip] ELSE partial[i]]
    /\ seen' = [i \in DOMAIN seen \cup {ip} |->
                  IF i = ip THEN [sent |-> sent[ip], erased |-> erased[ip]] ELSE seen[i]]
    /\ UNCHANGED <<reading, reads, started, kernelVars, runnerVars>>

EndRead == /\ reading' = FALSE
           /\ unread' = {} /\ partial' = Nothing /\ seen' = Unseen
           /\ UNCHANGED reads

\* Any key's read may fail; read_or_skip skips the tick and keeps prev_snapshot.
ReadFails == /\ reading
             /\ EndRead
             /\ UNCHANGED <<started, kernelVars, runnerVars>>

-----------------------------------------------------------------------------
(* SynFloodRunner::tick. *)

FaultNewIpsSkipped(prev, curr, ip) ==
    IF ip \in DOMAIN curr /\ ip \in DOMAIN prev /\ curr[ip] > prev[ip]
      THEN curr[ip] - prev[ip] ELSE 0

\* curr.packets.saturating_sub(prev.packets), for the keys of curr.
Delta(prev, curr, ip) ==
    IF Get(curr, ip) > Get(prev, ip) THEN Get(curr, ip) - Get(prev, ip) ELSE 0

FaultTruncatesBeforeSort(delta, rated) ==
    {T \in SUBSET rated : Cardinality(T) = IF Cardinality(rated) < TopN
                                             THEN Cardinality(rated) ELSE TopN}

\* The sources that sort and truncate may leave: the fastest, ties broken by the
\* order of the HashMap.
Tops(delta, rated) ==
    {T \in SUBSET rated :
       /\ Cardinality(T) = IF Cardinality(rated) < TopN THEN Cardinality(rated) ELSE TopN
       /\ \A i \in T, j \in rated \ T : delta[i] >= delta[j]}

FaultThresholdPerTick(delta, dt, top) == {ip \in top : delta[ip] > max_syn_pps}

\* SynFloodDetector::detect: pps > max_syn_pps.
detect(delta, dt, top) == {ip \in top : delta[ip] > max_syn_pps * dt}

FaultNotRotated(curr) == UNCHANGED prev_snapshot

Rotate(curr) == prev_snapshot' = {curr}

\* The first snapshot only primes the runner.
Prime(curr) == /\ prev_snapshot = {}
               /\ prev_snapshot' = {curr}
               /\ primed' = [ip \in IPs |-> Get(curr.counters, ip)]
               /\ now' = curr.timestamp
               /\ events' = {} /\ heartbeats' = {}
               /\ UNCHANGED <<states, signals, credited, last_top_n>>

\* No rates, and no signals, unless time has passed between the snapshots.
Evaluate(prev, curr) ==
    LET dt    == curr.timestamp - prev.timestamp
        delta == [ip \in IPs |-> IF dt > 0 THEN Delta(prev.counters, curr.counters, ip) ELSE 0]
        rated == {ip \in IPs : delta[ip] > 0}
    IN  /\ \E top \in Tops(delta, rated) :
             /\ tick(detect(delta, dt, top), curr.timestamp)
             /\ last_top_n' = [ip \in top |-> delta[ip]]
        /\ Rotate(curr)
        /\ credited' = [ip \in IPs |-> credited[ip] + delta[ip]]
        /\ UNCHANGED primed

Tick(d) ==
    /\ reading /\ unread = {}
    /\ EndRead
    /\ LET curr == [timestamp |-> now + d, counters |-> partial, seen |-> seen]
       IN  Prime(curr) \/ \E prev \in prev_snapshot : Evaluate(prev, curr)
    /\ started' = [started EXCEPT !.prev = started.this]
    /\ UNCHANGED kernelVars

Next == \/ \E ip \in IPs : Syn(ip) \/ ReadKey(ip)
        \/ StartRead
        \/ ReadFails
        \/ \E d \in Steps : Tick(d)

Spec == Init /\ [][Next]_vars

\* to_view of /synflood: the top offenders with the phase of their alert, if any.
\* The rates of one tick have the same period, so packets stand for them.
SynFloodResponse ==
    [top_offenders      |-> {[src_ip      |-> ip,
                              pps         |-> last_top_n[ip],
                              alert_phase |-> IF ip \in DOMAIN states
                                                THEN {states[ip].phase} ELSE {}] :
                               ip \in DOMAIN last_top_n},
     active_alert_count |-> active_count]

-----------------------------------------------------------------------------
\* Every variable has its type; the map is within its capacity, and the kernel
\* neither invents nor forgets a SYN that is not accounted as erased.
TypeOK ==
    /\ ManagerTypeOK
    /\ DOMAIN tracker \subseteq IPs /\ tracker \in [DOMAIN tracker -> Nat \ {0}]
    /\ Cardinality(DOMAIN tracker) <= SYN_TRACKER_MAX_ENTRIES
    /\ reading \in BOOLEAN /\ unread \subseteq DOMAIN tracker
    /\ DOMAIN partial \subseteq IPs /\ partial \in [DOMAIN partial -> Nat]
    /\ DOMAIN seen = DOMAIN partial
    /\ Cardinality(prev_snapshot) <= 1
    /\ Cardinality(DOMAIN last_top_n) <= TopN
    /\ {sent, erased, credited, primed} \subseteq [IPs -> Nat]
    /\ \A ip \in IPs : sent[ip] = Get(tracker, ip) + erased[ip]

\* No SYN is counted by two ticks, through evictions, re-created entries, failed
\* reads and keys missed by an iteration.
CountedOnce == \A ip \in IPs : credited[ip] + primed[ip] <= sent[ip]

\* Unless the kernel lost some of them, every SYN up to the previous snapshot was
\* counted: in the priming snapshot or by a tick.
NothingMissed ==
    \A prev \in prev_snapshot, ip \in IPs :
       erased[ip] = 0 => credited[ip] + primed[ip] = Get(prev.counters, ip)

\* A signal is backed by packets: since the previous read started, the source
\* really sent SYNs at more than the threshold.
SignalsBacked ==
    [][\A prev \in prev_snapshot, ip \in signals' :
         prev_snapshot' # prev_snapshot =>
           sent[ip] - started.prev[ip] > max_syn_pps * (now' - prev.timestamp)]_vars

\* A flood is seen: a source that, between the reads of its counter, sent SYNs
\* at more than the threshold and lost none of them to an eviction is signalled,
\* and /synflood lists it with just these SYNs and an alert that is building up or
\* open, unless top_n sources at least as fast are signalled.
FloodSeen ==
    [][\A prev \in prev_snapshot, ip \in DOMAIN seen :
         LET before == IF ip \in DOMAIN prev.seen THEN prev.seen[ip]
                                                 ELSE [sent |-> 0, erased |-> 0]
         IN  /\ prev_snapshot' # prev_snapshot
             /\ seen[ip].erased = before.erased
             /\ seen[ip].sent - before.sent > max_syn_pps * (now' - prev.timestamp)
             => \/ /\ ip \in signals'
                   /\ \E o \in SynFloodResponse'.top_offenders :
                         /\ o.src_ip = ip /\ o.pps = seen[ip].sent - before.sent
                         /\ o.alert_phase \in {{"Pending"}, {"Firing"}}
                \/ /\ Cardinality(signals') = TopN
                   /\ \A i \in signals' :
                        last_top_n'[i] >= seen[ip].sent - before.sent]_vars
=============================================================================
