----------------------------- MODULE AlertState -----------------------------
(***************************************************************************)
(* The single-slot alert FSM of alert/state.rs, Inactive -> Pending ->     *)
(* Firing -> Inactive, as pure operators: each method of AlertState maps a *)
(* slot to the slot it leaves behind.                                      *)
(*                                                                         *)
(* Instants and durations are naturals on one monotonic clock.  An         *)
(* Option<T> is a set of at most one element: None is {}, Some(t) is {t}.  *)
(* The u32 counters are naturals: overflowing one takes 2^32 consecutive   *)
(* ticks of at least ten seconds, more than a thousand years.              *)
(*                                                                         *)
(* An operator whose name starts with Fault is a seeded bug: it is used by *)
(* no definition, and replaces one when the strength of a property is      *)
(* tested.                                                                 *)
(***************************************************************************)
EXTENDS Naturals

AlertPhase     == {"Inactive", "Pending", "Firing"}
AlertLifecycle == {"Fired", "Resolved"}

Option(S) == {o \in SUBSET S : \A x, y \in o : x = y}

AlertSlot == [phase                     : AlertPhase,
              consecutive_count         : Nat,
              resolve_consecutive_count : Nat,
              last_fired                : Option(Nat)]

\* The three numbers of a rule that the FSM reads.
AlertTiming == [cooldown                      : Nat,
                consecutive_threshold         : Nat,
                resolve_consecutive_threshold : Nat]

New == [phase                     |-> "Inactive",
        consecutive_count         |-> 0,
        resolve_consecutive_count |-> 0,
        last_fired                |-> {}]

-----------------------------------------------------------------------------
\* Instant::duration_since saturates at zero.
duration_since(now, t) == IF now >= t THEN now - t ELSE 0

cooldown_passed(s, now, cooldown) ==
    \A t \in s.last_fired : duration_since(now, t) >= cooldown

is_firing(s) == s.phase = "Firing"

FaultHotIgnoresCooldown(s, now, cooldown) == s.phase # "Inactive"

FaultHotForever(s, now, cooldown) == s.phase # "Inactive" \/ s.last_fired # {}

is_hot(s, now, cooldown) ==
    IF s.phase = "Inactive"
      THEN \E t \in s.last_fired : duration_since(now, t) < cooldown
      ELSE TRUE

reset(s) == [s EXCEPT !.phase                     = "Inactive",
                      !.consecutive_count         = 0,
                      !.resolve_consecutive_count = 0]

FaultFireEarly(s, now, timing) ==
    IF /\ s.consecutive_count + 1 >= timing.consecutive_threshold
       /\ cooldown_passed(s, now, timing.cooldown)
      THEN [s EXCEPT !.phase = "Firing", !.last_fired = {now}]
      ELSE s

FaultFireUntimed(s, now, timing) ==
    IF /\ s.consecutive_count >= timing.consecutive_threshold
       /\ cooldown_passed(s, now, timing.cooldown)
      THEN [s EXCEPT !.phase = "Firing"]
      ELSE s

\* The slot after try_fire; it returned true exactly when the slot is Firing.
try_fire(s, now, timing) ==
    IF /\ s.consecutive_count >= timing.consecutive_threshold
       /\ cooldown_passed(s, now, timing.cooldown)
      THEN [s EXCEPT !.phase = "Firing", !.last_fired = {now}]
      ELSE s

-----------------------------------------------------------------------------
(***************************************************************************)
(* advance, one operator per phase it matches on.  Each gives the slot     *)
(* that advance leaves; Lifecycle gives the event that it returns.         *)
(***************************************************************************)
AdvanceInactive(s, signal_active, now, timing) ==
    LET tried == try_fire([s EXCEPT !.consecutive_count = 1], now, timing)
    IN  IF ~signal_active  THEN s
        ELSE IF is_firing(tried) THEN tried
        ELSE [tried EXCEPT !.phase = "Pending"]

FaultPendingSurvivesQuiet(s, signal_active, now, timing) ==
    IF signal_active
      THEN try_fire([s EXCEPT !.consecutive_count = @ + 1], now, timing)
      ELSE s

AdvancePending(s, signal_active, now, timing) ==
    IF signal_active
      THEN try_fire([s EXCEPT !.consecutive_count = @ + 1], now, timing)
      ELSE reset(s)

FaultQuietCountSticks(s, signal_active, now, timing) ==
    LET quiet == s.resolve_consecutive_count + 1
    IN  IF signal_active THEN s
        ELSE IF quiet >= timing.resolve_consecutive_threshold THEN reset(s)
        ELSE [s EXCEPT !.resolve_consecutive_count = quiet]

AdvanceFiring(s, signal_active, now, timing) ==
    LET quiet == s.resolve_consecutive_count + 1
    IN  IF signal_active THEN [s EXCEPT !.resolve_consecutive_count = 0]
        ELSE IF quiet >= timing.resolve_consecutive_threshold THEN reset(s)
        ELSE [s EXCEPT !.resolve_consecutive_count = quiet]

advance(s, signal_active, now, timing) ==
    CASE s.phase = "Inactive" -> AdvanceInactive(s, signal_active, now, timing)
      [] s.phase = "Pending"  -> AdvancePending(s, signal_active, now, timing)
      [] s.phase = "Firing"   -> AdvanceFiring(s, signal_active, now, timing)

\* What advance returned, from the slot before and the slot after.
Lifecycle(before, after) ==
    CASE ~is_firing(before) /\ is_firing(after) -> {"Fired"}
      [] is_firing(before) /\ ~is_firing(after) -> {"Resolved"}
      [] OTHER                                  -> {}
=============================================================================
