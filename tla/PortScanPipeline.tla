--------------------------- MODULE PortScanPipeline ---------------------------
(***************************************************************************)
(* From SYN packets to port-scan alerts: record_port_touch in the XDP      *)
(* program, the LRU map PORT_SCAN_TRACKER of last-touch times, its         *)
(* key-by-key read, the age window and PortScanRunner::tick, which needs   *)
(* one snapshot only.                                                      *)
(*                                                                         *)
(* bpf_ktime_get_ns, CLOCK_MONOTONIC and Instant are one clock.  A CPU may *)
(* land its touch up to Lag after it stamped it, so that of two CPUs the   *)
(* one with the older stamp may write last.  As in SynFloodPipeline an     *)
(* insert evicts what the kernel likes, or fails.                          *)
(***************************************************************************)
EXTENDS IpAlertLifecycleManager

CONSTANTS Ports,                          \* destination ports
          PORT_SCAN_TRACKER_MAX_ENTRIES,  \* capacity of the LRU map
          max_distinct_ports, window,     \* PortScanDetector's parameters
          Lag,                            \* most a touch lags behind its stamp
          MaxTouches, MaxReads            \* bounds on the length of a behaviour

ASSUME PortScanAssumption ==
    /\ PORT_SCAN_TRACKER_MAX_ENTRIES \in Nat \ {0}
    /\ {max_distinct_ports, window, Lag, MaxTouches, MaxReads} \subseteq Nat

VARIABLES clock,       \* the monotonic clock
          tracker,     \* PORT_SCAN_TRACKER: last_seen_ns per PortScanKey
          reading,     \* read_port_scan_snapshot is under way
          unread,      \* keys its iteration is bound to visit yet
          partial,     \* the touches it has read
          last_top_n,  \* distinct_ports of the top scanners of the last tick
          gauges       \* xdp_portscan_top_breadth, xdp_portscan_active_alerts

\* History, for the properties only.
VARIABLES touches, reads,  \* number of touches and of complete reads so far
          stamped,         \* stamped[k]: latest stamp of a touch of k
          landed,          \* landed[k]: when a touch of k last reached its entry
          settled          \* landed[k] when this read started, for the keys that it
                           \* has met or is bound to

kernelVars == <<tracker, stamped, landed, touches>>
readerVars == <<reading, unread, partial, settled, reads>>
runnerVars == <<managerVars, last_top_n, gauges>>
vars       == <<clock, kernelVars, readerVars, runnerVars>>

PortScanKey == [src_addr : IPs, dst_port : Ports]

Empty == [k \in {} |-> 0]

\* PortScanRunner::new, on an empty map.
Init == /\ ManagerInit
        /\ clock = Lag
        /\ tracker = Empty
        /\ reading = FALSE /\ unread = {} /\ partial = Empty /\ settled = Empty
        /\ last_top_n = Empty
        /\ gauges = [top_breadth |-> 0, active_alerts |-> 0]
        /\ touches = 0 /\ reads = 0
        /\ stamped = [k \in PortScanKey |-> {}]
        /\ landed  = [k \in PortScanKey |-> {}]

-----------------------------------------------------------------------------
(* The kernel. *)

\* What writing key may evict: the kernel takes a fresh node first, from other
\* entries if it likes, even when it then replaces the node of key.
Victims(key) == {V \in SUBSET (DOMAIN tracker \ {key}) :
                   Cardinality((DOMAIN tracker \ V) \cup {key})
                     <= PORT_SCAN_TRACKER_MAX_ENTRIES}

\* The node of key is linked at the head of its bucket, where an iteration that
\* has not come to key may not meet it any more.
Insert(key, at, t, victims) ==
    /\ tracker' = [k \in (DOMAIN tracker \ victims) \cup {key} |->
                     IF k = key THEN at ELSE tracker[k]]
    /\ landed'  = [k \in PortScanKey |-> IF k = key THEN {t}
                     ELSE IF k \in victims THEN {} ELSE landed[k]]
    /\ unread'  = unread \ (victims \cup {key})
    /\ settled' = [k \in DOMAIN settled \ (victims \cup (unread \cap {key})) |-> settled[k]]

Stamp(key, at) ==
    stamped' = [stamped EXCEPT ![key] = IF \A s \in @ : s < at THEN {at} ELSE @]

FaultFirstTouchOnly(key, at, t) ==
    /\ Stamp(key, at)
    /\ \/ /\ key \in DOMAIN tracker
          /\ landed' = [landed EXCEPT ![key] = {t}]
          /\ UNCHANGED <<tracker, unread, settled>>
       \/ /\ key \notin DOMAIN tracker
          /\ \E victims \in Victims(key) : Insert(key, at, t, victims)

record_port_touch(key, at, t) ==
    /\ Stamp(key, at)
    /\ \/ \E victims \in Victims(key) : Insert(key, at, t, victims)
       \/ UNCHANGED <<tracker, landed, unread, settled>>

Touch(key, d) ==
    /\ touches < MaxTouches
    /\ touches' = touches + 1
    /\ clock' = clock + d
    /\ \E lag \in 0..Lag : record_port_touch(key, clock + d - lag, clock + d)
    /\ UNCHANGED <<reading, partial, reads, runnerVars>>

-----------------------------------------------------------------------------
(* read_port_scan_snapshot. *)

StartRead == /\ ~reading /\ reads < MaxReads
             /\ reading' = TRUE
             /\ unread' = DOMAIN tracker
             /\ settled' = [k \in DOMAIN tracker |-> landed[k]]
             /\ partial' = Empty
             /\ UNCHANGED <<clock, kernelVars, reads, runnerVars>>

ReadKey(key) ==
    /\ reading
    /\ key \in DOMAIN tracker
    /\ unread' = unread \ {key}
    /\ partial' = [k \in DOMAIN partial \cup {key} |->
                     IF k = key THEN tracker[key] ELSE partial[k]]
    /\ UNCHANGED <<clock, kernelVars, reading, settled, reads, runnerVars>>

EndRead == /\ reading' = FALSE
           /\ unread' = {} /\ partial' = Empty /\ settled' = Empty
           /\ UNCHANGED kernelVars

\* read_or_skip: the arm goes on to the next tick.
ReadFails == reading /\ EndRead /\ UNCHANGED <<clock, reads, runnerVars>>

-----------------------------------------------------------------------------
(* PortScanRunner::tick. *)

FaultBeforeTheWindow(last_seen, now_ns) == duration_since(now_ns, last_seen) < window

FaultNoWindow(last_seen, now_ns) == TRUE

InWindow(last_seen, now_ns) == duration_since(now_ns, last_seen) <= window

\* Distinct ports per source, for the sources with a port in the window.
breadths(snapshot, now_ns) ==
    LET recent == {k \in DOMAIN snapshot : InWindow(snapshot[k], now_ns)}
    IN  [ip \in {k.src_addr : k \in recent} |->
           Cardinality({k \in recent : k.src_addr = ip})]

Broadest(all) ==
    {T \in SUBSET DOMAIN all :
       /\ Cardinality(T) = IF Cardinality(DOMAIN all) < TopN
                             THEN Cardinality(DOMAIN all) ELSE TopN
       /\ \A i \in T, j \in DOMAIN all \ T : all[i] >= all[j]}

\* compute_port_scan_breadth: the outcomes its unstable order allows.
compute_port_scan_breadth(snapshot, now_ns) ==
    LET all == breadths(snapshot, now_ns)
    IN  {[ip \in T |-> all[ip]] : T \in Broadest(all)}

detect(top) == {ip \in DOMAIN top : top[ip] > max_distinct_ports}

Publish(top) == last_top_n' = top

\* update_port_scan: the first of the sorted list is the broadest.
update_port_scan(top) ==
    \E n \in {0} \cup {top[ip] : ip \in DOMAIN top} :
       /\ \A ip \in DOMAIN top : n >= top[ip]
       /\ gauges' = [top_breadth |-> n, active_alerts |-> active_count']

\* now_ns is taken after the last key; the alert manager's Instant follows it.
Tick(d) ==
    /\ reading /\ unread = {}
    /\ clock' = clock + d
    /\ \E top \in compute_port_scan_breadth(partial, clock) :
         /\ tick(detect(top), clock + d)
         /\ update_port_scan(top)
         /\ Publish(top)
    /\ EndRead
    /\ reads' = reads + 1

Next == \/ \E key \in PortScanKey : ReadKey(key) \/ \E d \in Steps : Touch(key, d)
        \/ StartRead
        \/ ReadFails
        \/ \E d \in Steps : Tick(d)

Spec == Init /\ [][Next]_vars

-----------------------------------------------------------------------------
(* The views that the API serves of the runner. *)

\* to_view of /portscan: the top scanners with the phase of their alert, if any.
PortScanResponse ==
    [top_scanners       |-> {[src_ip         |-> ip,
                              distinct_ports |-> last_top_n[ip],
                              alert_phase    |-> IF ip \in DOMAIN states
                                                   THEN {states[ip].phase} ELSE {}] :
                               ip \in DOMAIN last_top_n},
     active_alert_count |-> active_count]

-----------------------------------------------------------------------------
\* Every variable has its type, the map is within its capacity and what it holds
\* is a stamp the kernel made.
TypeOK ==
    /\ ManagerTypeOK
    /\ clock \in Nat /\ {touches, reads} \subseteq Nat
    /\ DOMAIN tracker \subseteq PortScanKey
    /\ Cardinality(DOMAIN tracker) <= PORT_SCAN_TRACKER_MAX_ENTRIES
    /\ reading \in BOOLEAN /\ unread \subseteq DOMAIN settled
    /\ DOMAIN settled \subseteq DOMAIN tracker
    /\ DOMAIN partial \subseteq PortScanKey
    /\ Cardinality(DOMAIN last_top_n) <= TopN
    /\ \A k \in DOMAIN tracker :
         \A t \in landed[k], s \in stamped[k] : tracker[k] \in t - Lag .. s

\* The ports of ip with a touch stamped in the window before now_ns.
ReallyTouched(ip, now_ns) ==
    {p \in Ports : \E s \in stamped[[src_addr |-> ip, dst_port |-> p]] : s + window >= now_ns}

\* No source is accused of more than it did: the breadth that /portscan shows of a
\* scanner counts ports it really touched within the window before the read ended,
\* and the gauge of the broadest one is no more than some source touched, whatever
\* the kernel wrote, evicted and created anew while the map was read.
BreadthBacked ==
    [][reads' # reads =>
         /\ \A s \in PortScanResponse'.top_scanners :
               s.distinct_ports <= Cardinality(ReallyTouched(s.src_ip, clock))
         /\ gauges'.top_breadth > 0 =>
               \E ip \in IPs : gauges'.top_breadth <= Cardinality(ReallyTouched(ip, clock))]_vars

\* The ports of ip that were written before the read and young enough when it ended
\* for any stamp they may carry, and that were neither evicted nor written again
\* before the read came to them.
SurelyTouched(ip, now_ns) ==
    {p \in Ports : LET k == [src_addr |-> ip, dst_port |-> p]
                   IN  k \in DOMAIN settled /\ \E t \in settled[k] : t + window >= now_ns + Lag}

\* A scan is seen: a source with more such ports than the threshold is signalled,
\* and /portscan lists it with at least these ports and an alert that is building
\* up or open, and the gauge of the broadest one is no less, unless top_n sources
\* at least as broad are signalled.
ScanSeen ==
    [][\A ip \in IPs :
         /\ reads' # reads
         /\ Cardinality(SurelyTouched(ip, clock)) > max_distinct_ports
         => \/ /\ ip \in signals'
               /\ \E s \in PortScanResponse'.top_scanners :
                     /\ s.src_ip = ip
                     /\ s.alert_phase \in {{"Pending"}, {"Firing"}}
                     /\ s.distinct_ports >= Cardinality(SurelyTouched(ip, clock))
                     /\ gauges'.top_breadth >= s.distinct_ports
            \/ /\ Cardinality(signals') = TopN
               /\ \A i \in signals' :
                    last_top_n'[i] >= Cardinality(SurelyTouched(ip, clock))]_vars

\* "Number of source IPs currently in a Pending/Firing port-scan alert state"
\* (metrics.rs:138, of xdp_portscan_active_alerts).
GaugeCountsOpenAlerts ==
    gauges.active_alerts =
      Cardinality({ip \in DOMAIN states : states[ip].phase \in {"Pending", "Firing"}})
=============================================================================
