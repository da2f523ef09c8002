--------------------------- MODULE MCAnomalyRunner ---------------------------
(* Model-checking instance of the anomaly pipeline. *)
EXTENDS AnomalyRunner

Rule(kind, level, confidence, cooldown, threshold, resolve, freezes) ==
    [kind |-> kind, min_level |-> level, min_confidence |-> confidence,
     cooldown |-> cooldown, consecutive_threshold |-> threshold,
     resolve_consecutive_threshold |-> resolve, freezes_baseline |-> freezes]

\* The shape of default_alert_rules, with short times.
MCRules == << Rule("Spike", Suspicious, 6, 2, 1, 1, TRUE),
              Rule("Drop", Suspicious, 6, 2, 1, 1, TRUE),
              Rule("Emergency", Severe, 0, 3, 1, 1, FALSE) >>

\* A suspicious drop, too weak for its rule and therefore learned, and a severe
\* spike.
MCZScores == {-4, 7}

MCOverloads == {{}, {5}}
=============================================================================
