---------------------------- MODULE DaemonProofs ----------------------------
(***************************************************************************)
(* Proofs about Daemon for any configuration files, clients, timers and    *)
(* grace period: main's life does not go wrong and its end is bounded.     *)
(***************************************************************************)
EXTENDS Daemon, FiniteSetTheorems, TLAPS

-----------------------------------------------------------------------------
(* The inductive invariant. *)

\* A JoinHandle whose result was taken is one that nobody will poll again: the
\* loop takes the API's only, a drain takes its own and is over.
Handles ==
    /\ pc \in {"start", "select", "write"} =>
         /\ ~api_task_done => task["api"] # "taken"
         /\ task["logger"] # "taken" /\ task["dispatcher"] # "taken"
    /\ pc = "drain" => \A t \in undrained : task[t] # "taken"

\* What main runs with is what resolve_all made of its file, or of none.
Accepted == \A c \in config : \E path \in ConfigPaths : c \in resolve_all(path)

\* The clocks of the drains that run have all run for as long.
Clocks ==
    /\ waited <= SHUTDOWN_GRACE_PERIOD
    /\ pc \in {"start", "select", "write"} =>
         waited = 0 /\ \A t \in Tasks : left[t] = SHUTDOWN_GRACE_PERIOD
    /\ pc = "drain" => \A t \in undrained : waited + left[t] = SHUTDOWN_GRACE_PERIOD

IInv == TypeOK /\ Handles /\ Accepted /\ Clocks

-----------------------------------------------------------------------------
(* Start-up.                                                               *)

\* What build_alertmanager lets through can be pushed to.
LEMMA EnabledHasUrl ==
  ASSUME NEW cfg, NEW a \in build_alertmanager(cfg), a.enabled
  PROVE  "url" \in DOMAIN a
  BY DEF build_alertmanager

\* So can what resolve_all returns, with a file or without.
LEMMA ResolvedHasUrl ==
  ASSUME NEW path, NEW c \in resolve_all(path), c.resolved.alertmanager.enabled
  PROVE  "url" \in DOMAIN c.resolved.alertmanager
<1>1. \A b, ts, rs, s, p, a : Resolve(b, ts, rs, s, p, a).resolved.alertmanager = a
  BY DEF Resolve
<1>2. CASE path = {}
  <2>1. PICK a \in build_alertmanager(<<>>) :
           c = Resolve(build_estimator(<<>>), default_emergency_thresholds,
                       default_alert_rules, build_synflood(<<>>), build_port_scan(<<>>), a)
    BY <1>2 DEF resolve_all
  <2>2. c.resolved.alertmanager = a
    BY <1>1, <2>1
  <2> QED BY <2>2, EnabledHasUrl
<1>3. CASE path # {}
  <2>1. PICK f \in path : c \in load_config(f)
    BY <1>3 DEF resolve_all
  <2>2. PICK a \in build_alertmanager(f.alertmanager) :
          \E ts, rs :
             c = Resolve(build_estimator(f.baseline), ts, rs, build_synflood(f.syn_flood),
                         build_port_scan(f.port_scan), a)
    BY <2>1 DEF load_config
  <2>3. c.resolved.alertmanager = a
    BY <1>1, <2>2
  <2> QED BY <2>3, EnabledHasUrl
<1> QED BY <1>2, <1>3

LEMMA IInvInit == Init => IInv
<1> SUFFICES ASSUME Init PROVE IInv
  OBVIOUS
<1>1. TypeOK
  <2>1. Cardinality(config) <= 1
    BY FS_EmptySet DEF Init
  <2>2. /\ left \in [Tasks -> 0..SHUTDOWN_GRACE_PERIOD]
        /\ task \in [Tasks -> {"absent", "running", "ended", "taken"}]
        /\ conn \in [Clients -> {"none", "queued", "reading", "sending"}]
    BY DaemonAssumption DEF Init
  <2> QED BY <2>1, <2>2 DEF Init, TypeOK, Tasks
<1>2. Handles /\ Accepted
  BY DEF Init, Handles, Accepted, Tasks
<1>3. Clocks
  BY DaemonAssumption DEF Init, Clocks
<1> QED BY <1>1, <1>2, <1>3 DEF IInv

LEMMA IInvStart ==
  ASSUME IInv, NEW path \in ConfigPaths, Start(path)
  PROVE  IInv'
<1>1. PICK c \in resolve_all(path), l \in {"running", "absent"} :
        \E d \in maybe_spawn(c.resolved.alertmanager) :
           /\ config' = {c}
           /\ task' = [api |-> "running", logger |-> l, dispatcher |-> d]
           /\ am_sink' = (d = "running")
  BY DEF Start
<1>2. PICK d \in maybe_spawn(c.resolved.alertmanager) :
           /\ config' = {c}
           /\ task' = [api |-> "running", logger |-> l, dispatcher |-> d]
           /\ am_sink' = (d = "running")
  BY <1>1
<1>3. d \in {"running", "absent"} /\ (d # "absent" => c.resolved.alertmanager.enabled)
  BY DEF maybe_spawn
<1>4. /\ task' \in [Tasks -> {"absent", "running", "ended", "taken"}]
      /\ task'["api"] = "running" /\ task'["logger"] = l /\ task'["dispatcher"] = d
  BY <1>2, <1>3 DEF Tasks
<1>5. /\ pc = "start" /\ pc' = "select" /\ due' = Arms
      /\ UNCHANGED <<arm, conn, api_task_done, shutdown, signalled, undrained, left, waited>>
  BY DEF Start, drainVars
<1>6. TypeOK'
  <2>1. Cardinality(config') <= 1
    BY <1>2, FS_Singleton
  <2>2. task'["dispatcher"] # "absent" => \A x \in config' : x.resolved.alertmanager.enabled
    BY <1>2, <1>3, <1>4
  <2>3. am_sink' \in BOOLEAN
    BY <1>2
  <2> QED BY <1>4, <1>5, <2>1, <2>2, <2>3 DEF IInv, TypeOK
<1>7. Handles'
  BY <1>3, <1>4, <1>5 DEF Handles
<1>8. Accepted'
  BY <1>1, <1>2 DEF Accepted
<1>9. Clocks'
  BY <1>5 DEF IInv, Clocks
<1> QED BY <1>6, <1>7, <1>8, <1>9 DEF IInv

-----------------------------------------------------------------------------
(* The loop, the drains, and everyone else.                                *)

LEMMA IInvLoop ==
  ASSUME IInv,
         \/ StartFails \/ Publish \/ TakeApiExit \/ TakeSignal
         \/ \E a \in Arms : TakeArm(a)
         \/ \E timers \in SUBSET Arms : Elapse(timers)
         \/ Signal
  PROVE  IInv'
<1> USE DEF IInv, loopVars, drainVars
<1>1. CASE StartFails
  BY <1>1 DEF StartFails, TypeOK, Handles, Accepted, Clocks
<1>2. CASE Publish
  BY <1>2 DEF Publish, TypeOK, Handles, Accepted, Clocks
<1>3. CASE TakeApiExit
  <2>1. /\ task'["api"] = "taken" /\ api_task_done'
        /\ \A t \in Tasks \ {"api"} : task'[t] = task[t]
        /\ task' \in [Tasks -> {"absent", "running", "ended", "taken"}]
    BY <1>3 DEF TakeApiExit, TypeOK, Tasks
  <2>2. TypeOK'
    BY <1>3, <2>1 DEF TakeApiExit, TypeOK, Tasks
  <2>3. Handles' /\ Accepted' /\ Clocks'
    BY <1>3, <2>1 DEF TakeApiExit, Handles, Accepted, Clocks, Tasks
  <2> QED BY <2>2, <2>3
<1>4. CASE TakeSignal
  <2>1. TypeOK'
    BY <1>4 DEF TakeSignal, TypeOK
  <2>2. Handles'
    BY <1>4 DEF TakeSignal, Handles, Tasks
  <2>3. Accepted' /\ Clocks'
    BY <1>4, DaemonAssumption DEF TakeSignal, Accepted, Clocks
  <2> QED BY <2>1, <2>2, <2>3
<1>5. ASSUME NEW a \in Arms, TakeArm(a) PROVE IInv'
  BY <1>5 DEF TakeArm, TypeOK, Handles, Accepted, Clocks
<1>6. ASSUME NEW timers \in SUBSET Arms, Elapse(timers) PROVE IInv'
  BY <1>6 DEF Elapse, TypeOK, Handles, Accepted, Clocks
<1>7. CASE Signal
  BY <1>7 DEF Signal, TypeOK, Handles, Accepted, Clocks
<1> QED BY <1>1, <1>2, <1>3, <1>4, <1>5, <1>6, <1>7

LEMMA IInvDrain ==
  ASSUME IInv, Wait \/ Exit \/ \E t \in Tasks : DrainEnds(t)
  PROVE  IInv'
<1> USE DEF IInv, loopVars, drainVars
<1>1. CASE Wait
  <2>1. /\ pc = "drain" /\ undrained # {} /\ undrained \subseteq Tasks
        /\ left \in [Tasks -> 0..SHUTDOWN_GRACE_PERIOD] /\ waited \in Nat
        /\ \A t \in undrained : left[t] > 0 /\ waited + left[t] = SHUTDOWN_GRACE_PERIOD
        /\ left' = [t \in Tasks |-> IF t \in undrained THEN left[t] - 1 ELSE left[t]]
        /\ waited' = waited + 1
        /\ UNCHANGED <<pc, arm, config, due, conn, task, api_task_done, shutdown, signalled,
                       am_sink, undrained>>
    BY <1>1 DEF Wait, Draining, TypeOK, Clocks
  <2>2. left' \in [Tasks -> 0..SHUTDOWN_GRACE_PERIOD]
    <3>1. \A t \in Tasks : left'[t] \in 0..SHUTDOWN_GRACE_PERIOD
      BY <2>1, DaemonAssumption
    <3> QED BY <2>1, <3>1
  <2>3. TypeOK'
    BY <2>1, <2>2 DEF TypeOK
  <2>4. Handles' /\ Accepted'
    BY <2>1 DEF Handles, Accepted
  <2>5. \A t \in undrained : waited' + left'[t] = SHUTDOWN_GRACE_PERIOD
    BY <2>1, <2>2, DaemonAssumption
  <2>6. waited' <= SHUTDOWN_GRACE_PERIOD
    BY <2>1, <2>2, <2>5, DaemonAssumption
  <2>7. Clocks'
    BY <2>1, <2>5, <2>6 DEF Clocks
  <2> QED BY <2>3, <2>4, <2>7
<1>2. CASE Exit
  BY <1>2 DEF Exit, TypeOK, Handles, Accepted, Clocks
<1>3. ASSUME NEW t \in Tasks, DrainEnds(t) PROVE IInv'
  <2>1. /\ pc = "drain" /\ undrained' = undrained \ {t}
        /\ task' \in [Tasks -> {"absent", "running", "ended", "taken"}]
        /\ \A u \in Tasks \ {t} : task'[u] = task[u]
        /\ task'["dispatcher"] # "absent" => task["dispatcher"] # "absent"
        /\ UNCHANGED <<pc, arm, config, due, conn, api_task_done, shutdown, signalled,
                       am_sink, left, waited>>
    BY <1>3 DEF DrainEnds, TypeOK, Tasks
  <2>2. TypeOK'
    BY <2>1 DEF TypeOK
  <2>3. Handles'
    BY <2>1 DEF Handles, TypeOK
  <2>4. Accepted' /\ Clocks'
    BY <2>1 DEF Accepted, Clocks
  <2> QED BY <2>2, <2>3, <2>4
<1> QED BY <1>1, <1>2, <1>3

LEMMA IInvOthers ==
  ASSUME IInv,
         \/ Stops \/ \E t \in Tasks : Fails(t)
         \/ \E c \in Clients : Connect(c) \/ Lock(c) \/ Unlock(c) \/ Disconnect(c)
  PROVE  IInv'
<1> USE DEF IInv, loopVars, drainVars
<1>1. ASSUME NEW t \in Tasks, Ends(t) PROVE IInv'
  <2>1. /\ task' \in [Tasks -> {"absent", "running", "ended", "taken"}]
        /\ \A u \in Tasks : task'[u] = "taken" => task[u] = "taken"
        /\ \A u \in Tasks : task'[u] # "absent" => task[u] # "absent"
        /\ UNCHANGED <<pc, arm, conn, config, due, api_task_done, shutdown, signalled,
                       am_sink, undrained, left, waited>>
    BY <1>1 DEF Ends, TypeOK
  <2>2. TypeOK'
    BY <2>1 DEF TypeOK, Tasks
  <2>3. Handles'
    BY <2>1 DEF Handles, TypeOK, Tasks
  <2>4. Accepted' /\ Clocks'
    BY <2>1 DEF Accepted, Clocks
  <2> QED BY <2>2, <2>3, <2>4
<1>2. ASSUME NEW c \in Clients, NEW from,
             NEW to \in {"none", "queued", "reading", "sending"}, Served(c, from, to)
      PROVE  IInv'
  BY <1>2 DEF Served, TypeOK, Handles, Accepted, Clocks
<1> QED BY <1>1, <1>2
       DEF Stops, ApiStops, LoggerStops, DispatcherStops, Fails, Tasks,
           Connect, Lock, Unlock, Disconnect

-----------------------------------------------------------------------------
(* What /config shows.                                                     *)

\* Values that were merged with the defaults are not changed by merging again.
LEMMA OverTwice ==
  ASSUME NEW given, NEW defaults
  PROVE  Over(Over(given, defaults), defaults) = Over(given, defaults)
  BY DEF Over

\* A label parses to what it was rendered from.
LEMMA LabelParses ==
  ASSUME NEW names, NEW n \in DOMAIN names
  PROVE  /\ label(names, names[n]) \in DOMAIN names
         /\ names[label(names, names[n])] = names[n]
  BY DEF label

\* The sections with defaults build the same again from their resolved view.
LEMMA SectionsRebuilt ==
  ASSUME NEW cfg
  PROVE  /\ build_estimator(build_estimator(cfg).resolved) = build_estimator(cfg)
         /\ build_synflood(build_synflood(cfg).resolved) = build_synflood(cfg)
         /\ build_port_scan(build_port_scan(cfg).resolved) = build_port_scan(cfg)
         /\ \A a \in build_alertmanager(cfg) : build_alertmanager(a) = {a}
<1>1. build_estimator(build_estimator(cfg).resolved) = build_estimator(cfg)
  BY OverTwice DEF build_estimator
<1>2. build_synflood(build_synflood(cfg).resolved) = build_synflood(cfg)
  BY OverTwice DEF build_synflood
<1>3. build_port_scan(build_port_scan(cfg).resolved) = build_port_scan(cfg)
  BY OverTwice DEF build_port_scan
<1>4. ASSUME NEW a \in build_alertmanager(cfg) PROVE build_alertmanager(a) = {a}
  <2>1. /\ a = Over(cfg, DefaultAlertmanager)
        /\ ~(a.enabled /\ ("url" \notin DOMAIN a \/ a.url = ""))
    BY DEF build_alertmanager
  <2>2. Over(a, DefaultAlertmanager) = a
    BY <2>1, OverTwice
  <2> QED BY <2>1, <2>2 DEF build_alertmanager
<1> QED BY <1>1, <1>2, <1>3, <1>4

\* A list of parsed rules, of parsed thresholds, with at least one entry.
ParsedRules(rs) ==
    /\ rs = [i \in DOMAIN rs |-> rs[i]] /\ DOMAIN rs # {}
    /\ \A i \in DOMAIN rs :
         /\ rs[i] = [kind |-> rs[i].kind, min_level |-> rs[i].min_level,
                     min_confidence |-> rs[i].min_confidence, cooldown |-> rs[i].cooldown,
                     consecutive_threshold |-> rs[i].consecutive_threshold,
                     resolve_consecutive_threshold |-> rs[i].resolve_consecutive_threshold,
                     freezes_baseline |-> rs[i].freezes_baseline]
         /\ \E n \in DOMAIN AlertKinds : rs[i].kind = AlertKinds[n]
         /\ \E n \in DOMAIN AnomalyLevels : rs[i].min_level = AnomalyLevels[n]

ParsedThresholds(ts) ==
    /\ ts = [i \in DOMAIN ts |-> ts[i]] /\ DOMAIN ts # {}
    /\ \A i \in DOMAIN ts :
         /\ ts[i] = [x \in DOMAIN ts[i] |-> ts[i][x]] /\ "proto" \in DOMAIN ts[i]
         /\ \E n \in DOMAIN ProtoIndexes : ts[i].proto = ProtoIndexes[n]

\* Parsed lists are parsed again from their resolved view.
LEMMA RulesRebuilt ==
  ASSUME NEW rs, ParsedRules(rs)
  PROVE  LET shown == [i \in DOMAIN rs |-> resolve_alert_rule(rs[i])]
         IN  shown # <<>> /\ build_alert_rules(shown) = {rs}
<1> DEFINE shown == [i \in DOMAIN rs |-> resolve_alert_rule(rs[i])]
<1>1. DOMAIN shown = DOMAIN rs /\ DOMAIN rs # {}
  BY DEF ParsedRules
<1>2. shown # <<>>
  BY <1>1
<1>3. ASSUME NEW i \in DOMAIN rs
      PROVE  /\ shown[i].kind \in DOMAIN AlertKinds
             /\ AlertKinds[shown[i].kind] = rs[i].kind
             /\ shown[i].min_level \in DOMAIN AnomalyLevels
             /\ AnomalyLevels[shown[i].min_level] = rs[i].min_level
             /\ shown[i].min_confidence = rs[i].min_confidence
             /\ shown[i].cooldown_secs = rs[i].cooldown
             /\ shown[i].consecutive_threshold = rs[i].consecutive_threshold
             /\ shown[i].resolve_consecutive_threshold = rs[i].resolve_consecutive_threshold
             /\ shown[i].freezes_baseline = rs[i].freezes_baseline
  <2>1. PICK n \in DOMAIN AlertKinds : rs[i].kind = AlertKinds[n]
    BY DEF ParsedRules
  <2>2. PICK m \in DOMAIN AnomalyLevels : rs[i].min_level = AnomalyLevels[m]
    BY DEF ParsedRules
  <2>3. /\ shown[i].kind = label(AlertKinds, AlertKinds[n])
        /\ shown[i].min_level = label(AnomalyLevels, AnomalyLevels[m])
    BY <2>1, <2>2 DEF resolve_alert_rule
  <2>4. /\ shown[i].kind \in DOMAIN AlertKinds
        /\ AlertKinds[shown[i].kind] = rs[i].kind
    BY <2>1, <2>3, LabelParses
  <2>5. /\ shown[i].min_level \in DOMAIN AnomalyLevels
        /\ AnomalyLevels[shown[i].min_level] = rs[i].min_level
    BY <2>2, <2>3, LabelParses
  <2> QED BY <2>4, <2>5 DEF resolve_alert_rule
<1> HIDE DEF shown
<1> DEFINE built == [i \in DOMAIN shown |->
               [kind |-> AlertKinds[shown[i].kind],
                min_level |-> AnomalyLevels[shown[i].min_level],
                min_confidence |-> shown[i].min_confidence,
                cooldown |-> shown[i].cooldown_secs,
                consecutive_threshold |-> shown[i].consecutive_threshold,
                resolve_consecutive_threshold |-> shown[i].resolve_consecutive_threshold,
                freezes_baseline |-> shown[i].freezes_baseline]]
<1>4. build_alert_rules(shown) = {built}
  BY <1>1, <1>3 DEF build_alert_rules
<1>5. ASSUME NEW i \in DOMAIN rs PROVE built[i] = rs[i]
  <2>1. rs[i] = [kind |-> rs[i].kind, min_level |-> rs[i].min_level,
                 min_confidence |-> rs[i].min_confidence, cooldown |-> rs[i].cooldown,
                 consecutive_threshold |-> rs[i].consecutive_threshold,
                 resolve_consecutive_threshold |-> rs[i].resolve_consecutive_threshold,
                 freezes_baseline |-> rs[i].freezes_baseline]
    BY DEF ParsedRules
  <2> QED BY <1>1, <1>3, <2>1
<1>6. built = rs
  <2>1. rs = [i \in DOMAIN rs |-> rs[i]] /\ DOMAIN built = DOMAIN rs
    BY <1>1 DEF ParsedRules
  <2>2. built = [i \in DOMAIN rs |-> built[i]]
    BY <1>1
  <2> HIDE DEF built
  <2> QED BY <1>5, <2>1, <2>2
<1> QED BY <1>2, <1>4, <1>6 DEF shown

LEMMA ThresholdsRebuilt ==
  ASSUME NEW ts, ParsedThresholds(ts)
  PROVE  LET shown == resolve_emergency_thresholds(ts)
         IN  shown # <<>> /\ build_emergency_thresholds(shown) = {ts}
<1> DEFINE shown == resolve_emergency_thresholds(ts)
<1>1. DOMAIN shown = DOMAIN ts /\ DOMAIN ts # {}
  BY DEF ParsedThresholds, resolve_emergency_thresholds
<1>2. shown # <<>>
  BY <1>1
<1>3. ASSUME NEW i \in DOMAIN ts
      PROVE  /\ shown[i].proto \in DOMAIN ProtoIndexes
             /\ [shown[i] EXCEPT !.proto = ProtoIndexes[@]] = ts[i]
  <2>1. PICK n \in DOMAIN ProtoIndexes : ts[i].proto = ProtoIndexes[n]
    BY DEF ParsedThresholds
  <2> DEFINE l == label(ProtoIndexes, ProtoIndexes[n])
  <2>2. l \in DOMAIN ProtoIndexes /\ ProtoIndexes[l] = ts[i].proto
    BY <2>1, LabelParses
  <2>3. shown[i] = [ts[i] EXCEPT !.proto = l]
    BY <2>1 DEF resolve_emergency_thresholds
  <2> HIDE DEF l, shown
  <2>4. ts[i] = [x \in DOMAIN ts[i] |-> ts[i][x]] /\ "proto" \in DOMAIN ts[i]
    BY DEF ParsedThresholds
  <2> QED BY <2>2, <2>3, <2>4
<1> HIDE DEF shown
<1>4. build_emergency_thresholds(shown)
        = {[i \in DOMAIN shown |-> [shown[i] EXCEPT !.proto = ProtoIndexes[@]]]}
  BY <1>1, <1>3 DEF build_emergency_thresholds
<1>5. ts = [i \in DOMAIN ts |-> ts[i]]
  BY DEF ParsedThresholds
<1> QED BY <1>1, <1>2, <1>3, <1>4, <1>5 DEF shown

\* What load_config parses are parsed lists, and so are the defaults.
LEMMA BuiltIsParsed ==
  /\ ParsedRules(default_alert_rules)
  /\ ParsedThresholds(default_emergency_thresholds)
  /\ \A s : \A rs \in build_alert_rules(s) : DOMAIN s # {} => ParsedRules(rs)
  /\ \A s : \A ts \in build_emergency_thresholds(s) :
        DOMAIN s # {} /\ (\A i \in DOMAIN s : "proto" \in DOMAIN s[i]) => ParsedThresholds(ts)
<1>1. ParsedRules(default_alert_rules)
  BY DEF ParsedRules, default_alert_rules, AlertKinds, AnomalyLevels
<1>2. ParsedThresholds(default_emergency_thresholds)
  BY DEF ParsedThresholds, default_emergency_thresholds, ProtoIndexes
<1>3. ASSUME NEW s, NEW rs \in build_alert_rules(s), DOMAIN s # {} PROVE ParsedRules(rs)
  <2>1. \A i \in DOMAIN s : /\ s[i].kind \in DOMAIN AlertKinds
                            /\ s[i].min_level \in DOMAIN AnomalyLevels
    BY DEF build_alert_rules
  <2>2. rs = [i \in DOMAIN s |->
                [kind |-> AlertKinds[s[i].kind], min_level |-> AnomalyLevels[s[i].min_level],
                 min_confidence |-> s[i].min_confidence, cooldown |-> s[i].cooldown_secs,
                 consecutive_threshold |-> s[i].consecutive_threshold,
                 resolve_consecutive_threshold |-> s[i].resolve_consecutive_threshold,
                 freezes_baseline |-> s[i].freezes_baseline]]
    BY DEF build_alert_rules
  <2> QED BY <1>3, <2>1, <2>2 DEF ParsedRules
<1>4. ASSUME NEW s, NEW ts \in build_emergency_thresholds(s), DOMAIN s # {},
             \A i \in DOMAIN s : "proto" \in DOMAIN s[i]
      PROVE  ParsedThresholds(ts)
  <2>1. \A i \in DOMAIN s : s[i].proto \in DOMAIN ProtoIndexes
    BY DEF build_emergency_thresholds
  <2>2. ts = [i \in DOMAIN s |-> [s[i] EXCEPT !.proto = ProtoIndexes[@]]]
    BY DEF build_emergency_thresholds
  <2>3. ASSUME NEW i \in DOMAIN s
        PROVE  /\ ts[i] = [x \in DOMAIN ts[i] |-> ts[i][x]] /\ "proto" \in DOMAIN ts[i]
               /\ ts[i].proto = ProtoIndexes[s[i].proto]
    <3>1. ts[i] = [s[i] EXCEPT !.proto = ProtoIndexes[@]]
      BY <2>2
    <3> QED BY <1>4, <3>1
  <2> QED BY <1>4, <2>1, <2>2, <2>3 DEF ParsedThresholds
<1> QED BY <1>1, <1>2, <1>3, <1>4

\* What resolve_all is made of.
LEMMA ResolvedParts ==
  ASSUME NEW path \in ConfigPaths, NEW c \in resolve_all(path)
  PROVE  \E b, ts, rs, s, p, x : \E a \in build_alertmanager(x) :
            /\ c = Resolve(build_estimator(b), ts, rs, build_synflood(s),
                           build_port_scan(p), a)
            /\ ParsedThresholds(ts) /\ ParsedRules(rs)
            /\ Over(b, DefaultBaseline).min_elapsed_secs \in Nat
            /\ Over(p, DefaultPortScan).window_secs \in Nat
<1>1. CASE path = {}
  <2>1. PICK a \in build_alertmanager(<<>>) :
           c = Resolve(build_estimator(<<>>), default_emergency_thresholds,
                       default_alert_rules, build_synflood(<<>>), build_port_scan(<<>>), a)
    BY <1>1 DEF resolve_all
  <2>2. /\ Over(<<>>, DefaultBaseline).min_elapsed_secs \in Nat
        /\ Over(<<>>, DefaultPortScan).window_secs \in Nat
    BY DEF Over, DefaultBaseline, DefaultPortScan
  <2> QED BY <2>1, <2>2, BuiltIsParsed
<1>2. CASE path # {}
  <2>1. PICK f \in path : c \in load_config(f)
    BY <1>2 DEF resolve_all
  <2>2. PICK ts \in IF f.emergency_thresholds = <<>> THEN {default_emergency_thresholds}
                    ELSE build_emergency_thresholds(f.emergency_thresholds),
             rs \in IF f.alert_rules = <<>> THEN {default_alert_rules}
                    ELSE build_alert_rules(f.alert_rules),
             a \in build_alertmanager(f.alertmanager) :
          c = Resolve(build_estimator(f.baseline), ts, rs, build_synflood(f.syn_flood),
                      build_port_scan(f.port_scan), a)
    BY <2>1 DEF load_config
  <2>3. ConfigFile(f)
    BY <2>1, DaemonAssumption
  <2>4. ASSUME NEW s \in {f.emergency_thresholds, f.alert_rules}, s # <<>>
        PROVE  DOMAIN s # {}
    <3>1. s \in Seq({s[i] : i \in DOMAIN s})
      BY <2>3 DEF ConfigFile
    <3> QED BY <2>4, <3>1
  <2>5. ParsedThresholds(ts) /\ ParsedRules(rs)
    BY <2>2, <2>3, <2>4, BuiltIsParsed DEF ConfigFile
  <2> QED BY <2>2, <2>3, <2>5 DEF ConfigFile
<1> QED BY <1>1, <1>2

\* Evaluations, rounded up, and nanoseconds cover the seconds they are made of.
LEMMA DerivedValues ==
  /\ \A secs \in Nat : ((secs + ANOMALY_EVAL_SECS - 1) \div ANOMALY_EVAL_SECS)
                         * ANOMALY_EVAL_SECS >= secs
  /\ \A w \in Nat : w < U64 => w % U64 = w
<1>1. ANOMALY_EVAL_SECS \in Nat /\ ANOMALY_EVAL_SECS > 0 /\ U64 \in Nat /\ U64 > 0
  BY ConfigAssumption
<1>2. ASSUME NEW secs \in Nat
      PROVE  ((secs + ANOMALY_EVAL_SECS - 1) \div ANOMALY_EVAL_SECS)
               * ANOMALY_EVAL_SECS >= secs
  BY <1>1, Z3
<1>3. ASSUME NEW w \in Nat, w < U64 PROVE w % U64 = w
  BY <1>1, <1>3
<1> QED BY <1>2, <1>3

\* The resolved view says what is in effect.
LEMMA ViewShows ==
  ASSUME NEW path \in ConfigPaths, NEW c \in resolve_all(path)
  PROVE  LET b == c.resolved.baseline
             w == c.resolved.port_scan.window_secs * NANOS
         IN  /\ load_config(AsFile(c.resolved)) = {c}
             /\ c.detectors.baseline.min_elapsed_ticks * ANOMALY_EVAL_SECS
                  >= b.min_elapsed_secs
             /\ w < U64 => c.detectors.port_scan.window_ns = w
<1>1. PICK b, ts, rs, s, p, x : \E a \in build_alertmanager(x) :
         /\ c = Resolve(build_estimator(b), ts, rs, build_synflood(s), build_port_scan(p), a)
         /\ ParsedThresholds(ts) /\ ParsedRules(rs)
         /\ Over(b, DefaultBaseline).min_elapsed_secs \in Nat
         /\ Over(p, DefaultPortScan).window_secs \in Nat
  BY ResolvedParts
<1>2. PICK a \in build_alertmanager(x) :
         c = Resolve(build_estimator(b), ts, rs, build_synflood(s), build_port_scan(p), a)
  BY <1>1
<1> DEFINE f == AsFile(c.resolved)
<1>3. /\ f.readable = TRUE
      /\ f.baseline = build_estimator(b).resolved
      /\ f.alert_rules = [i \in DOMAIN rs |-> resolve_alert_rule(rs[i])]
      /\ f.emergency_thresholds = resolve_emergency_thresholds(ts)
      /\ f.syn_flood = build_synflood(s).resolved
      /\ f.port_scan = build_port_scan(p).resolved
      /\ f.alertmanager = a
  BY <1>2 DEF AsFile, Over, Resolve
<1>4. load_config(f) = {c}
  <2>1. build_alertmanager(f.alertmanager) = {a}
    BY <1>3, SectionsRebuilt
  <2>2. /\ f.alert_rules # <<>> /\ build_alert_rules(f.alert_rules) = {rs}
        /\ f.emergency_thresholds # <<>>
        /\ build_emergency_thresholds(f.emergency_thresholds) = {ts}
    BY <1>1, <1>3, RulesRebuilt, ThresholdsRebuilt
  <2>3. /\ build_estimator(f.baseline) = build_estimator(b)
        /\ build_synflood(f.syn_flood) = build_synflood(s)
        /\ build_port_scan(f.port_scan) = build_port_scan(p)
    BY <1>3, SectionsRebuilt
  <2> HIDE DEF f
  <2> QED BY <1>2, <1>3, <2>1, <2>2, <2>3 DEF load_config
<1>5. /\ c.resolved.baseline = Over(b, DefaultBaseline)
      /\ c.detectors.baseline.min_elapsed_ticks
           = (Over(b, DefaultBaseline).min_elapsed_secs + ANOMALY_EVAL_SECS - 1)
               \div ANOMALY_EVAL_SECS
      /\ c.resolved.port_scan = Over(p, DefaultPortScan)
      /\ c.detectors.port_scan.window_ns
           = (Over(p, DefaultPortScan).window_secs * NANOS) % U64
  BY <1>2 DEF Resolve, build_estimator, build_port_scan
<1>6. Over(p, DefaultPortScan).window_secs * NANOS \in Nat
  BY <1>1, ConfigAssumption
<1> QED BY <1>1, <1>4, <1>5, <1>6, DerivedValues

-----------------------------------------------------------------------------
(* The theorems.                                                           *)

\* The inductive invariant holds.
THEOREM DaemonCorrect == Spec => []IInv
<1>1. IInv /\ [Next]_vars => IInv'
  <2>1. CASE UNCHANGED vars
    BY <2>1 DEF vars, IInv, TypeOK, Handles, Accepted, Clocks
  <2>2. ASSUME IInv, Next PROVE IInv'
    BY <2>2, IInvStart, IInvLoop, IInvDrain, IInvOthers DEF Next
  <2> QED BY <2>1, <2>2
<1> QED BY IInvInit, <1>1, PTL DEF Spec

\* Every variable has its type.
THEOREM DaemonTyped == Spec => []TypeOK
<1>1. IInv => TypeOK
  BY DEF IInv
<1> QED BY <1>1, DaemonCorrect, PTL

\* No JoinHandle is polled again once its result is taken, and an accepted
\* configuration has the url that maybe_spawn expects.
THEOREM NeverPanicsTheorem == Spec => []NeverPanics
<1>1. IInv => NeverPanics
  BY ResolvedHasUrl DEF IInv, Handles, Accepted, NeverPanics, ApiPolled
<1> QED BY <1>1, DaemonCorrect, PTL

\* Hung tasks do not extend the shutdown past one grace period.
THEOREM ShutdownTheorem == Spec => []ShutdownBounded
<1>1. IInv => ShutdownBounded
  BY DEF IInv, Clocks, ShutdownBounded
<1> QED BY <1>1, DaemonCorrect, PTL

\* With a file or without: a file that says what /config shows builds the detectors
\* that run and shows the same again, and the derived values cover the seconds shown.
THEOREM ShowsTheorem == Spec => []ShowsWhatIsInEffect
<1>1. IInv => ShowsWhatIsInEffect
  BY ViewShows DEF IInv, Accepted, ShowsWhatIsInEffect
<1> QED BY <1>1, DaemonCorrect, PTL
=============================================================================
