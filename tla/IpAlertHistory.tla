--------------------------- MODULE IpAlertHistory ---------------------------
(***************************************************************************)
(* The per-IP alert manager together with the history of its inputs and    *)
(* outputs, which the properties are about and the code does not keep.     *)
(* The history survives garbage collection: it is what an observer of the  *)
(* alert stream knows, and it never influences a tick.                     *)
(***************************************************************************)
EXTENDS IpAlertLifecycleManager

CONSTANT MaxTicks    \* bound on the length of a behaviour

ASSUME HistoryAssumption == MaxTicks \in Nat

VARIABLES ticks,      \* number of ticks so far
          run,        \* run[ip]: signalled ticks in a row, up to now
          quiet,      \* quiet[ip]: ticks in a row without a signal, up to now
          last_fire   \* last_fire[ip]: time of the last Fired event, if any

historyVars == <<ticks, run, quiet, last_fire>>
vars        == <<managerVars, historyVars>>

FiredEvent(ip) == [src_ip |-> ip, lifecycle |-> "Fired"]

Init == /\ ManagerInit
        /\ ticks = 0
        /\ run   = [ip \in IPs |-> 0]
        /\ quiet = [ip \in IPs |-> 0]
        /\ last_fire = [ip \in IPs |-> {}]

Record(sig, t) ==
    /\ ticks' = ticks + 1
    /\ run'   = [ip \in IPs |-> IF ip \in sig THEN run[ip] + 1 ELSE 0]
    /\ quiet' = [ip \in IPs |-> IF ip \in sig THEN 0 ELSE quiet[ip] + 1]
    /\ last_fire' = [ip \in IPs |-> IF FiredEvent(ip) \in events'
                                      THEN {t} ELSE last_fire[ip]]

Tick(sig, d) == /\ ticks < MaxTicks
                /\ tick(sig, now + d)
                /\ Record(sig, now + d)

Next == \E sig \in SignalSets, d \in Steps : Tick(sig, d)

Spec == Init /\ [][Next]_vars

-----------------------------------------------------------------------------
Cooling(ip) == \E f \in last_fire[ip] : now - f < Timing.cooldown

Firing == {ip \in DOMAIN states : is_firing(states[ip])}

\* What a slot says of itself: an open alert knows when it fired, and a
\* building one has counted a signal (state.rs sets both with the phase).
WellFormed(s) == /\ is_firing(s)         => s.last_fired # {}
                 /\ s.phase = "Pending" => s.consecutive_count > 0

\* Every variable has its type; `states` is a map into alert slots, and every
\* slot of it is one that the phases of state.rs allow.
TypeOK == /\ ManagerTypeOK
          /\ \A ip \in DOMAIN states : WellFormed(states[ip])
          /\ ticks \in Nat
          /\ run   \in [IPs -> Nat]
          /\ quiet \in [IPs -> Nat]
          /\ last_fire \in [IPs -> Option(Nat)]

\* A source IP is never Fired twice within one cooldown, although the tick
\* that collects an idle entry forgets when that IP was last fired
\* (ip_manager.rs: `retain` drops the slot with its `last_fired`).
CooldownSurvivesGC ==
    [][\A ip \in IPs :
         ticks' # ticks /\ FiredEvent(ip) \in events'
           => \A f \in last_fire[ip] : now' - f >= Timing.cooldown]_vars

\* The map holds no entry without a reason: the IP was signalled in the last
\* tick, or its alert is open and not yet quiet for long enough to resolve, or
\* it fired less than a cooldown ago.  This is the doc comment's memory claim
\* about `states`, per entry.
TrackedForAReason ==
    \A ip \in DOMAIN states :
       \/ ip \in signals
       \/ /\ is_firing(states[ip])
          /\ quiet[ip] < Timing.resolve_consecutive_threshold
       \/ Cooling(ip)

-----------------------------------------------------------------------------
(***************************************************************************)
(* The history explains the FSM: the inductive invariant.  An untracked IP *)
(* has nothing to remember; a tracked slot's counters are the lengths of   *)
(* the current runs; and a fire that the slot does not remember is past    *)
(* its cooldown.                                                           *)
(***************************************************************************)
\* What the slot of a tracked IP says about its history, per phase.
SlotExplained(ip) ==
    LET s == states[ip]
    IN  /\ s.phase = "Inactive" => /\ run[ip] = 0
                                   /\ s.consecutive_count = 0
                                   /\ s.resolve_consecutive_count = 0
        /\ s.phase = "Pending"  => /\ run[ip] > 0
                                   /\ s.consecutive_count = run[ip]
                                   /\ s.resolve_consecutive_count = 0
        /\ s.phase = "Firing"   => /\ s.resolve_consecutive_count = quiet[ip]
                                   /\ \/ quiet[ip] = 0
                                      \/ quiet[ip] < Timing.resolve_consecutive_threshold

\* No fire within the cooldown is forgotten.
FireRemembered(ip) ==
    \A f \in last_fire[ip] :
       /\ f <= now
       /\ \/ ip \in DOMAIN states /\ f \in states[ip].last_fired
          \/ now - f >= Timing.cooldown

\* Slots, history and outputs agree: what a tick decides from the slots it
\* kept is what it would have decided from the whole history.
HistoryExplains ==
    \A ip \in IPs :
       /\ FireRemembered(ip)
       /\ ip \in signals <=> run[ip] > 0
       /\ ip \in DOMAIN states => /\ SlotExplained(ip)
                                  /\ states[ip].last_fired \subseteq last_fire[ip]
                                  /\ quiet[ip] = 0 => ip \in signals
                                  /\ \/ ip \in signals
                                     \/ is_hot(states[ip], now, Timing.cooldown)
       /\ ip \notin DOMAIN states => run[ip] = 0

\* The manager keeps the promise of AlertContract: despite phases, counters
\* and garbage collection it fires, re-affirms and resolves exactly when the
\* history of signals says so.
Contract == INSTANCE AlertContract WITH
              Key    <- IPs,
              Timing <- [ip \in IPs |-> Timing],
              open   <- Firing,
              events <- {[key |-> e.src_ip, lifecycle |-> e.lifecycle] : e \in events}

ImplementsContract == Contract!Spec
=============================================================================
