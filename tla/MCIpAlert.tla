------------------------------ MODULE MCIpAlert ------------------------------
(* Model-checking instance of the per-IP alert manager. *)
EXTENDS IpAlertHistory, TLC

CONSTANTS Cooldown, ConsecutiveThreshold, ResolveConsecutiveThreshold

MCTiming == [cooldown                      |-> Cooldown,
             consecutive_threshold         |-> ConsecutiveThreshold,
             resolve_consecutive_threshold |-> ResolveConsecutiveThreshold]

MCSymmetry == Permutations(IPs)
=============================================================================
