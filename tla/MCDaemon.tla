------------------------------- MODULE MCDaemon -------------------------------
(* Model-checking instance of the daemon: no file, files that are rejected,  *)
(* and files that are accepted.                                              *)
EXTENDS Daemon

Empty == [readable |-> TRUE, baseline |-> <<>>, alert_rules |-> <<>>,
          emergency_thresholds |-> <<>>, syn_flood |-> <<>>, port_scan |-> <<>>,
          alertmanager |-> <<>>]

Rule(kind, level) ==
    [kind |-> kind, min_level |-> level, min_confidence |-> 4, cooldown_secs |-> 7,
     consecutive_threshold |-> 2, resolve_consecutive_threshold |-> 1,
     freezes_baseline |-> TRUE]

Threshold(proto) == [proto |-> proto, max_pps |-> {}, max_bps |-> {8}]

\* Everything overridden; 100 s are no multiple of the evaluation interval.
Full ==
    [Empty EXCEPT
       !.baseline = [min_elapsed_secs |-> 100],
       !.alert_rules = <<Rule("drop", "severe"), Rule("spike", "normal")>>,
       !.emergency_thresholds = <<Threshold("ipv6"), Threshold("other")>>,
       !.syn_flood = [top_n |-> 0, max_syn_pps |-> 9],
       !.port_scan = [window_secs |-> 300],
       !.alertmanager = [enabled |-> TRUE, url |-> "http://am"]]

Files ==
    { Empty, Full,
      [Full EXCEPT !.readable = FALSE],
      [Full EXCEPT !.alert_rules[2].kind = "portscan"],
      [Full EXCEPT !.emergency_thresholds[1].proto = "sctp"],
      [Full EXCEPT !.alertmanager.url = ""],
      [Full EXCEPT !.alertmanager = [enabled |-> TRUE]] }

MCConfigPaths == {{}} \cup {{f} : f \in Files}
=============================================================================
