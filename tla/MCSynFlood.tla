------------------------------ MODULE MCSynFlood ------------------------------
(* Model-checking instance of the SYN-flood pipeline. *)
EXTENDS SynFloodPipeline, TLC

MCTiming == [cooldown |-> 2, consecutive_threshold |-> 1,
             resolve_consecutive_threshold |-> 1]

MCSymmetry == Permutations(IPs)
=============================================================================
