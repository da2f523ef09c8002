---------------------------- MODULE AlertContract ----------------------------
(***************************************************************************)
(* What an alert manager promises, stated on the history of its inputs and *)
(* without phases, counters of an FSM or garbage collection.  For every    *)
(* key (a source IP, or a protocol and an alert kind):                     *)
(*                                                                         *)
(*   - an alert is Fired at a signalled tick exactly when none is open,    *)
(*     the key was signalled in this and the preceding ticks at least      *)
(*     consecutive_threshold times in a row, and the last Fired of that    *)
(*     key, however long ago, is at least a cooldown old;                  *)
(*   - an open alert is Resolved exactly at the tick that completes        *)
(*     resolve_consecutive_threshold quiet ticks in a row;                 *)
(*   - an open alert is re-affirmed at every other signalled tick.         *)
(***************************************************************************)
EXTENDS Naturals

CONSTANTS Key,     \* what alerts are about
          Timing,  \* Timing[k]: cooldown and thresholds for key k
          Steps    \* possible distances between two ticks

VARIABLES now,         \* time of the last tick
          run,         \* run[k]: signalled ticks in a row, up to now
          quiet,       \* quiet[k]: ticks in a row without a signal, up to now
          open,        \* keys with an alert that is Fired and not Resolved
          last_fire,   \* last_fire[k]: when k was last Fired, if ever
          events,      \* transitions of the last tick
          heartbeats   \* keys re-affirmed in the last tick

contractVars == <<now, run, quiet, open, last_fire, events, heartbeats>>

Init == /\ now = 0
        /\ run = [k \in Key |-> 0]
        /\ quiet = [k \in Key |-> 0]
        /\ open = {}
        /\ last_fire = [k \in Key |-> {}]
        /\ events = {}
        /\ heartbeats = {}

Fires(k, sig, t) ==
    /\ k \in sig
    /\ k \notin open
    /\ run[k] + 1 >= Timing[k].consecutive_threshold
    /\ \A f \in last_fire[k] : t - f >= Timing[k].cooldown

Resolves(k, sig, t) ==
    /\ k \notin sig
    /\ k \in open
    /\ quiet[k] + 1 >= Timing[k].resolve_consecutive_threshold

Tick(sig, t) ==
    LET fired    == {k \in Key : Fires(k, sig, t)}
        resolved == {k \in Key : Resolves(k, sig, t)}
    IN  /\ now' = t
        /\ run'   = [k \in Key |-> IF k \in sig THEN run[k] + 1 ELSE 0]
        /\ quiet' = [k \in Key |-> IF k \in sig THEN 0 ELSE quiet[k] + 1]
        /\ open'  = (open \cup fired) \ resolved
        /\ last_fire' = [k \in Key |-> IF k \in fired THEN {t} ELSE last_fire[k]]
        /\ events' = {[key |-> k, lifecycle |-> "Fired"]    : k \in fired}
                \cup {[key |-> k, lifecycle |-> "Resolved"] : k \in resolved}
        /\ heartbeats' = {k \in open : k \in sig}

Next == \E sig \in SUBSET Key, d \in Steps : Tick(sig, now + d)

Spec == Init /\ [][Next]_contractVars
=============================================================================
