-------------------------------- MODULE Config --------------------------------
(***************************************************************************)
(* config.rs: from a TOML file, or from none, to what the detectors and    *)
(* the alert managers are built with and to the view that /config serves.  *)
(*                                                                         *)
(* A TOML table is the function from the keys it has to their values; an   *)
(* optional section that is left out is an empty table, since every builder *)
(* treats the two alike.  A Result is a set with the value, or empty.      *)
(* Rates, alpha (hundredths), confidence (tenths) and min_stddev (thou-    *)
(* sandths) are naturals.                                                  *)
(***************************************************************************)
EXTENDS Naturals, Sequences, FiniteSets

CONSTANTS ANOMALY_EVAL_SECS,  \* ANOMALY_EVAL_INTERVAL in seconds
          NANOS, U64          \* nanoseconds in a second; values of a u64

ASSUME ConfigAssumption == {ANOMALY_EVAL_SECS, NANOS, U64} \subseteq Nat \ {0}

-----------------------------------------------------------------------------
(* Names.  The parsers ignore case; what label() gives back is lower case.  *)

AlertKinds    == [spike |-> "Spike", drop |-> "Drop", emergency |-> "Emergency"]
AnomalyLevels == [normal |-> 0, suspicious |-> 1, severe |-> 2]
ProtoIndexes  == [icmp |-> "Icmp", tcp |-> "Tcp", udp |-> "Udp",
                  ipv6 |-> "Ipv6", other |-> "Other"]

label(names, value) == CHOOSE n \in DOMAIN names : names[n] = value

-----------------------------------------------------------------------------
(* Compiled-in defaults. *)

DefaultBaseline == [alpha |-> 40, min_samples |-> 5, min_stddev |-> 1,
                    min_elapsed_secs |-> 120]

DefaultSynFlood == [max_syn_pps |-> 100, top_n |-> 10, cooldown_secs |-> 60,
                    consecutive_threshold |-> 3, resolve_consecutive_threshold |-> 3]

DefaultPortScan == [max_distinct_ports |-> 20, window_secs |-> 30, top_n |-> 10,
                    cooldown_secs |-> 60,
                    consecutive_threshold |-> 3, resolve_consecutive_threshold |-> 3]

DefaultAlertmanager == [enabled |-> FALSE, timeout_secs |-> 5]

default_alert_rules ==
    << [kind |-> "Spike", min_level |-> 1, min_confidence |-> 6, cooldown |-> 120,
        consecutive_threshold |-> 5, resolve_consecutive_threshold |-> 3,
        freezes_baseline |-> TRUE],
       [kind |-> "Emergency", min_level |-> 2, min_confidence |-> 0, cooldown |-> 60,
        consecutive_threshold |-> 1, resolve_consecutive_threshold |-> 1,
        freezes_baseline |-> FALSE] >>

default_emergency_thresholds == << [proto |-> "Icmp", max_pps |-> {3}, max_bps |-> {}] >>

\* unwrap_or, field by field: what is given, and the defaults for the rest.
Over(given, defaults) ==
    [k \in DOMAIN given \cup DOMAIN defaults |->
       IF k \in DOMAIN given THEN given[k] ELSE defaults[k]]

\* What the types of a file's fields say of it, as far as the builders depend on it:
\* the lists are lists, a threshold is for a protocol, a number that is given is one.
ConfigFile(f) ==
    /\ \A s \in {f.emergency_thresholds, f.alert_rules} : s \in Seq({s[i] : i \in DOMAIN s})
    /\ \A i \in DOMAIN f.emergency_thresholds : "proto" \in DOMAIN f.emergency_thresholds[i]
    /\ Over(f.baseline, DefaultBaseline).min_elapsed_secs \in Nat
    /\ Over(f.port_scan, DefaultPortScan).window_secs \in Nat

-----------------------------------------------------------------------------
(* Builders: the domain object and its resolved view. *)

build_estimator(cfg) ==
    LET b == Over(cfg, DefaultBaseline)
    IN  [built    |-> [alpha |-> b.alpha, min_samples |-> b.min_samples,
                       min_stddev |-> b.min_stddev,
                       min_elapsed_ticks |->
                         (b.min_elapsed_secs + ANOMALY_EVAL_SECS - 1) \div ANOMALY_EVAL_SECS],
         resolved |-> b]

\* What an IpAlertLifecycleManager is made with.
Timing(c) == [cooldown |-> c.cooldown_secs,
              consecutive_threshold |-> c.consecutive_threshold,
              resolve_consecutive_threshold |-> c.resolve_consecutive_threshold]

build_synflood(cfg) ==
    LET c == Over(cfg, DefaultSynFlood)
    IN  [built    |-> [max_syn_pps |-> c.max_syn_pps, top_n |-> c.top_n,
                       timing |-> Timing(c)],
         resolved |-> c]

\* as_nanos() as u64 wraps.
build_port_scan(cfg) ==
    LET c == Over(cfg, DefaultPortScan)
    IN  [built    |-> [max_distinct_ports |-> c.max_distinct_ports, top_n |-> c.top_n,
                       window_ns |-> (c.window_secs * NANOS) % U64,
                       timing |-> Timing(c)],
         resolved |-> c]

\* url and generator_url have no default and may be missing.  Pushing needs a url.
build_alertmanager(cfg) ==
    LET c == Over(cfg, DefaultAlertmanager)
    IN  IF c.enabled /\ ("url" \notin DOMAIN c \/ c.url = "") THEN {} ELSE {c}

\* Result<Vec<_>>: one entry that does not parse fails them all.
build_alert_rules(rules) ==
    IF \A i \in DOMAIN rules : /\ rules[i].kind \in DOMAIN AlertKinds
                               /\ rules[i].min_level \in DOMAIN AnomalyLevels
      THEN {[i \in DOMAIN rules |->
               [kind |-> AlertKinds[rules[i].kind],
                min_level |-> AnomalyLevels[rules[i].min_level],
                min_confidence |-> rules[i].min_confidence,
                cooldown |-> rules[i].cooldown_secs,
                consecutive_threshold |-> rules[i].consecutive_threshold,
                resolve_consecutive_threshold |-> rules[i].resolve_consecutive_threshold,
                freezes_baseline |-> rules[i].freezes_baseline]]}
      ELSE {}

resolve_alert_rule(r) ==
    [kind |-> label(AlertKinds, r.kind), min_level |-> label(AnomalyLevels, r.min_level),
     min_confidence |-> r.min_confidence, cooldown_secs |-> r.cooldown,
     consecutive_threshold |-> r.consecutive_threshold,
     resolve_consecutive_threshold |-> r.resolve_consecutive_threshold,
     freezes_baseline |-> r.freezes_baseline]

build_emergency_thresholds(ts) ==
    IF \A i \in DOMAIN ts : ts[i].proto \in DOMAIN ProtoIndexes
      THEN {[i \in DOMAIN ts |-> [ts[i] EXCEPT !.proto = ProtoIndexes[@]]]}
      ELSE {}

resolve_emergency_thresholds(ts) ==
    [i \in DOMAIN ts |-> [ts[i] EXCEPT !.proto = label(ProtoIndexes, @)]]

-----------------------------------------------------------------------------
(* load_config and resolve_all. *)

Resolve(baseline, thresholds, rules, syn_flood, port_scan, alertmanager) ==
    [detectors |-> [baseline |-> baseline.built, emergency |-> thresholds,
                    alert_rules |-> rules, syn_flood |-> syn_flood.built,
                    port_scan |-> port_scan.built],
     resolved  |-> [baseline |-> baseline.resolved,
                    alert_rules |-> [i \in DOMAIN rules |-> resolve_alert_rule(rules[i])],
                    emergency_thresholds |-> resolve_emergency_thresholds(thresholds),
                    syn_flood |-> syn_flood.resolved, port_scan |-> port_scan.resolved,
                    alertmanager |-> alertmanager]]

\* A list that is empty or left out falls back to the defaults as a whole.
load_config(f) ==
    IF ~f.readable THEN {}
    ELSE {Resolve(build_estimator(f.baseline), ts, rs, build_synflood(f.syn_flood),
                  build_port_scan(f.port_scan), a) :
            ts \in IF f.emergency_thresholds = <<>> THEN {default_emergency_thresholds}
                   ELSE build_emergency_thresholds(f.emergency_thresholds),
            rs \in IF f.alert_rules = <<>> THEN {default_alert_rules}
                   ELSE build_alert_rules(f.alert_rules),
            a  \in build_alertmanager(f.alertmanager)}

FaultDefaultsDrift(config_path) ==
    IF config_path = {}
      THEN {[r EXCEPT !.detectors.emergency = <<>>] :
              r \in {Resolve(build_estimator(<<>>), default_emergency_thresholds,
                             default_alert_rules, build_synflood(<<>>),
                             build_port_scan(<<>>), a) : a \in build_alertmanager(<<>>)}}
      ELSE UNION {load_config(f) : f \in config_path}

resolve_all(config_path) ==
    IF config_path = {}
      THEN {Resolve(build_estimator(<<>>), default_emergency_thresholds,
                    default_alert_rules, build_synflood(<<>>),
                    build_port_scan(<<>>), a) : a \in build_alertmanager(<<>>)}
      ELSE UNION {load_config(f) : f \in config_path}

-----------------------------------------------------------------------------
\* The file that says what a resolved view says.
AsFile(resolved) == Over([readable |-> TRUE], resolved)
=============================================================================
