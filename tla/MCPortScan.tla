------------------------------ MODULE MCPortScan ------------------------------
(* Model-checking instance of the port-scan pipeline. *)
EXTENDS PortScanPipeline, TLC

MCTiming == [cooldown |-> 2, consecutive_threshold |-> 2,
             resolve_consecutive_threshold |-> 1]

\* One signal fires, and one quiet tick resolves within the cooldown.
MCQuickTiming == [cooldown |-> 4, consecutive_threshold |-> 1,
                  resolve_consecutive_threshold |-> 1]

MCSymmetry == Permutations(IPs) \cup Permutations(Ports)
=============================================================================
