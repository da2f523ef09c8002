---------------------------- MODULE MCProtoAlert ----------------------------
(* Model-checking instances of the per-protocol alert manager. *)
EXTENDS ProtoAlertHistory

Rule(kind, level, confidence, cooldown, threshold, resolve, freezes) ==
    [kind |-> kind, min_level |-> level, min_confidence |-> confidence,
     cooldown |-> cooldown, consecutive_threshold |-> threshold,
     resolve_consecutive_threshold |-> resolve, freezes_baseline |-> freezes]

\* The shape of default_alert_rules: a freezing Spike rule that waits for
\* confirmation and an Emergency rule that fires and resolves at once.
DistinctRules == << Rule("Spike", Suspicious, 6, 3, 2, 2, TRUE),
                    Rule("Emergency", Severe, 0, 2, 1, 1, FALSE) >>

\* Two rules of one kind, which build_alert_rules accepts.
RepeatedKind == << Rule("Spike", Suspicious, 3, 3, 2, 2, TRUE),
                   Rule("Spike", Severe, 6, 3, 2, 2, TRUE) >>

\* A weak and a strong spike of each protocol, and an emergency.
SomeSignals ==
    [proto : Protos, kind : {"Spike"}, level : {Suspicious}, confidence : {4}]
    \cup [proto : Protos, kind : {"Spike"}, level : {Severe}, confidence : {7}]
    \cup [proto : Protos, kind : {"Emergency"}, level : {Severe}, confidence : {0}]
=============================================================================
