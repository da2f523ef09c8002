----------------------- MODULE IpAlertLifecycleManager -----------------------
(***************************************************************************)
(* alert/ip_manager.rs: one alert FSM per source IP, created on the first  *)
(* signal and garbage-collected when it is neither signalled nor hot.      *)
(* SynFloodAlertLifecycleManager and PortScanAlertLifecycleManager are     *)
(* aliases of this type.                                                   *)
(*                                                                         *)
(* The detectors hand over at most TopN signals per tick.  A tick happens  *)
(* some d \in Steps after the one before: a late tokio interval catches up *)
(* with ticks back to back, so 0 may be a step.                            *)
(***************************************************************************)
EXTENDS AlertState, FiniteSets

CONSTANTS IPs,       \* source addresses
          TopN,      \* most signals the detector yields in one tick
          Timing,    \* cooldown and thresholds of the manager
          Steps      \* possible distances between two ticks

ASSUME ManagerAssumption == /\ TopN \in Nat
                            /\ Timing \in AlertTiming
                            /\ Steps \subseteq Nat

VARIABLES now,         \* Instant of the last tick
          states,      \* HashMap<Ipv4Addr, AlertState>
          signals,     \* source IPs signalled in the last tick
          events,      \* Fired/Resolved transitions that tick returned
          heartbeats   \* IPs it re-affirmed

managerVars == <<now, states, signals, events, heartbeats>>

IpAlertEvent == [src_ip : IPs, lifecycle : AlertLifecycle]

-----------------------------------------------------------------------------
\* states.entry(ip).or_insert_with(AlertState::new)
Entry(ip) == IF ip \in DOMAIN states THEN states[ip] ELSE New

\* The slot of ip after advance in a tick at t with the signals sig.
Advanced(ip, sig, t) == advance(Entry(ip), ip \in sig, t, Timing)

Retained(ip, sig, t) ==
    \/ ip \in sig
    \/ is_hot(Advanced(ip, sig, t), t, Timing.cooldown)

\* The arm `None if state.is_firing()` with a signal at hand.
Heartbeat(ip, sig, t) ==
    /\ Lifecycle(Entry(ip), Advanced(ip, sig, t)) = {}
    /\ is_firing(Advanced(ip, sig, t))
    /\ ip \in sig

\* The IPs that tick advances: every tracked one and every signalled one.
Keys(sig) == DOMAIN states \cup sig

tick(sig, t) ==
    /\ now'        = t
    /\ signals'    = sig
    /\ events'     = {e \in IpAlertEvent :
                        /\ e.src_ip \in Keys(sig)
                        /\ e.lifecycle \in Lifecycle(Entry(e.src_ip),
                                                     Advanced(e.src_ip, sig, t))}
    /\ heartbeats' = {ip \in Keys(sig) : Heartbeat(ip, sig, t)}
    /\ states'     = [ip \in {i \in Keys(sig) : Retained(i, sig, t)} |->
                        Advanced(ip, sig, t)]

\* What SynFloodDetector and PortScanDetector can hand over in one tick.
SignalSets == {sig \in SUBSET IPs : IsFiniteSet(sig) /\ Cardinality(sig) <= TopN}

ManagerInit == /\ now        = 0
               /\ states     = [ip \in {} |-> New]
               /\ signals    = {}
               /\ events     = {}
               /\ heartbeats = {}

\* active_count, exported as the number of active states.
active_count == Cardinality(DOMAIN states)

-----------------------------------------------------------------------------
\* The tick, its map and its outputs have the types of the code.
ManagerTypeOK ==
    /\ now \in Nat
    /\ DOMAIN states \subseteq IPs
    /\ states \in [DOMAIN states -> AlertSlot]
    /\ signals \subseteq IPs
    /\ events \subseteq IpAlertEvent
    /\ heartbeats \subseteq IPs
=============================================================================
