# Verification of the XDP traffic monitor

TLA+ models of the detection and alerting side of `ebpf-xdp-program`, the TLC
instances that check them, and TLAPS proofs. Paths below are relative to
`src/ebpf-xdp-program/src/` unless they start with a crate's name.

## The system

An XDP program counts packets per protocol, SYNs per source and ports touched
per source in BPF maps. A user-space process reads the maps on timers, turns
them into rates, the rates into signals, the signals into alerts, and shows the
result as metrics, a JSON API and, optionally, pushes to Alertmanager.

| component | state | operations | made correct by |
|---|---|---|---|
| alert FSM (`alert/state.rs`) | phase, two counters, time of last fire | `advance`, `is_hot`, `is_firing` | fires after n signalled ticks in a row and not within a cooldown; resolves after m quiet ones |
| per-IP manager (`alert/ip_manager.rs`) | map from IP to slot, collected when idle | `tick`, `active_count`, `snapshot` | collection changes no decision; the map is bounded |
| per-protocol manager (`alert/proto_manager.rs`) | map from (protocol, kind) to slot; rules | `tick`, `frozen_protos`, `snapshot` | only what a rule lets through alerts; a freeze lasts as long as its alert is hot |
| anomaly pipeline (`pipeline/runner.rs`, `rate/`, `anomaly/`) | previous counters, baseline, `warmed_up`, last rates | `tick`, `snapshot` | the baseline does not learn an attack; traffic is evaluated once; no alert before warm-up |
| EWMA estimator (`ewma-detector`) | mean, variance, MAD, samples, ticks | `advance`, `update`, `snapshot` | readiness gate; outliers move the mean little |
| SYN-flood pipeline (`pipeline/synflood_runner.rs`) | previous per-IP counters | `tick`, `snapshot` | a SYN is counted once; a flood is seen and listed unless evicted or crowded out of the top n |
| port-scan pipeline (`pipeline/port_scan_runner.rs`) | none between ticks but the alerts | `tick`, `snapshot` | accuses of ports touched in the window only; a scan is seen unless evicted or crowded out |
| Alertmanager dispatch (`alertmanager.rs`) | bounded channel, batch, attempt | `push`, `run_dispatcher`, `post_with_retry` | order, bounded memory, counted losses, agreement of Alertmanager, termination |
| main loop (`main.rs`) | last counters, tasks, shared state and its lock | timer arms, signals, drains | never panics; every timer is served; a signal ends the process in time |
| XDP program (`ebpf-xdp-program-ebpf`) | per-CPU counters, LRU maps | one packet | counts each packet once, in the right bucket; tracks real TCP headers only |
| traffic counters and mix (`rate/compute.rs`) | counters of the last poll and of the last mix | poll, mix | a sum is of frames that came; a frame is in one mix |
| configuration (`config.rs`) | none | `resolve_all` | what `/config` shows is in effect; bad files stop the start |
| API, metrics | copies of the last tick | read | agree with what was judged |

The runners and managers run synchronously inside the arms of one `select!`
loop. What is concurrent: the kernel writes the maps while they are read; the
dispatcher task drains the channel on another thread while ticks push; the API
task reads a shared state that ticks replace. What is hard: garbage collection
that may forget a cooldown; the order "signals, alerts, freeze, learn" within a
tick; timers that fire together at start, in any order, and catch up in bursts;
map reads that fail; an Alertmanager that is slow, fails, or acts on a request
its client has given up; shutdown while a batch is retried.

## Modules

- `AlertState`: the methods of `AlertState` as operators from slot to slot. An
  `Option` is a set of at most one element; instants are naturals. The `u32`
  counters are naturals, since overflowing one takes more than a thousand years
  of ticks.
- `IpAlertLifecycleManager`: the variables and the `tick` of the per-IP manager,
  for the SYN-flood and the port-scan manager alike (they are aliases). A
  detector hands over at most `TopN` IPs.
- `AlertContract`: what an alert manager promises, stated on the history of
  signals only: when an alert fires, is re-affirmed and resolves. No phases, no
  garbage collection.
- `IpAlertHistory`: the per-IP manager with history variables, its specification
  and properties, and the mapping to `AlertContract` (`open` is the set of
  Firing slots, the events lose their payload).
- `AlertLifecycleManager`, `ProtoAlertHistory`: the same two layers for the
  per-protocol manager. The loop over the rules is a function from the number of
  rules applied to the slots, events and heartbeats so far. Levels are 0..2,
  confidence is in tenths.
- `AnomalyRunner`: extends `AlertLifecycleManager` with the stats poll of the
  main loop and `AnomalyRunner::tick`: prime or diff, rates, readiness, the two
  detectors, the alert manager's tick, the freeze, the feed of the baseline, the
  gauges and the snapshot behind `/anomalies`. Feeding a rate may change the score
  it is shown with.
  A snapshot is its timestamp. The floating-point values are inputs: any
  dominant z-score (the larger of pps and bps, which alone decides level, kind
  and confidence), any emergency verdict, any change of "stddev reaches
  min_stddev" when a baseline is fed.
- `AlertmanagerDispatch`: the ticks' pushes, the channel, `run_dispatcher`
  receive by receive, `post_with_retry` POST by POST, signals, drop of the sink,
  drain and grace period; and, external, an Alertmanager that keeps open label
  sets, last write wins. A 5xx and a transport error are one action because the
  code treats them alike; the request may have been taken, never be taken, or be
  taken later. The grace period may end at any time after the signal. The `Closed`
  arm of `try_send` (`alertmanager.rs:211`), which logs the loss and does not count
  it, is out of reach here: the dispatcher outlives the sink unless its task dies
  early, which this module leaves out.
- `SynFloodPipeline`: extends `IpAlertLifecycleManager` with `record_syn` in the
  XDP program, the LRU map `SYN_TRACKER`, its read key by key, and
  `SynFloodRunner::tick`. Packets arrive and entries are evicted between any two
  keys of a read. Which entries an insert evicts, whether it fails, and which new
  keys an iteration meets are the kernel's choice, so they are left open; what is
  certain is that a key that stays in the map is visited. Rates are compared as
  packets against threshold times elapsed time. Counters sum over CPUs, the
  `bytes` field feeds nothing and is left out. `record_syn` counts an entry it
  finds in place, which moves nothing in the map.
- `PortScanPipeline`: extends `IpAlertLifecycleManager` likewise with
  `record_port_touch`, the LRU map `PORT_SCAN_TRACKER`, its read,
  `PortScanRunner::tick`, its gauges and `/portscan`. `bpf_ktime_get_ns`,
  `CLOCK_MONOTONIC` and `Instant` are one clock, and a CPU may write a touch up to
  `Lag` after it stamped it. Unlike `record_syn` it always inserts: also for a key
  that is there the kernel takes a fresh node, which may evict others or fail, and
  links it anew, so that an iteration under way may miss the key.
- `XdpProgram`: header parsing as operators on a frame, which is its length and
  the fields the program looks at; a field that lies beyond the frame has a value
  too. `TrafficCounters`: every CPU counts frames, `read_snapshot` sums them
  value by value, and the 5 s arm turns two snapshots into a mix.
- `Config`: `config.rs` from a file, or none, to detectors and the resolved view.
  A TOML table is the function from the keys it has, and `Over` puts what is given
  over the defaults. `label` is defined as the inverse of the parse tables, which
  the `match` arms of the label functions in the source agree with, name by name.
- `Daemon`: extends `Config` with start-up, the `select!` loop, the `RwLock` that
  arms write and request handlers read, the three tasks with their `JoinHandle`s,
  signals, and the drains with their timeouts. Polling a handle whose result was
  taken is what panics, so a handle is "running", "ended" or "taken". What an arm
  computes is left to the pipelines' modules.
- `Ewma`: `ewma.rs` in fixed point, for one baseline fed with usual rates and
  spikes. Numbers are multiples of 1/20, rounded towards zero; an EPSILON of 1e-9
  rounds to zero.
- `*Proofs`: theorems about the module they are named for; see below.
- `MC*`: instances (`AlertmanagerDispatch` and `Ewma` are run as they are).
  Operators named `Fault...` are seeded bugs that are used nowhere; each replaces
  the definition after it to show that a property notices.

A `TypeOK` has, beside the types, what its component's data structure promises at
all times: which counters a phase allows, that a warm-up is reported only if a
baseline has been ready, that a counter of `SYN_TRACKER` is what its source sent
since the kernel made it, that an entry of `PORT_SCAN_TRACKER` is a stamp no older
than the last touch that landed, less `Lag`.

## Runs

| run | instance | checks |
|---|---|---|
| `ip_alert` | 3 IPs (symmetric), top_n 1, cooldown 3, thresholds 2 and 2, steps 0 and 2, 8 ticks | contract, cooldown across collection, reason for entries, inductive invariant |
| `proto_alert` | 1 protocol, a freezing Spike and an Emergency rule, weak and strong signals, 6 ticks | contract per key, consecutive ticks, freeze against history |
| `anomaly_runner` | 1 protocol, 3 rules, 5 polls that may fail, 5 evaluations | what the baseline learns, warm-up, windows of traffic, what is shown |
| `dispatch` | 2 keys, channel 1, batch 2, 2 attempts, 3 alerts, 1 late request | order, losses, bounds, retries, agreement, every alert settled, shutdown completes |
| `syn_flood` | 3 IPs (symmetric), map of 2, top_n 1, threshold 1, steps 1 and 2, 5 SYNs, 3 reads that may fail | every SYN counted once, none missed but the evicted, signals backed by packets, floods seen and listed |
| `port_scan` | 2 IPs (symmetric), 2 ports, map of 2, top_n 1, threshold 0, window 1, lag 1, steps 0 and 1, 3 touches, 2 reads that may fail | no source accused of more than it did, scans seen and listed |
| `traffic` | 2 CPUs, 20 kinds of frame, 2 frames, 3 polls that may fail, 3 mixes | flags outside a datagram decide nothing, sums between the counts at the start and the end of a read, mixes tile |
| `daemon` | no file or one of 7, 2 clients, an arm that reads and publishes and one that does neither, grace period 2 | no panic, `/config` in effect, shutdown bounded and certain, timers served |
| `ewma` | alpha 0.4, 5 samples, rates 10, 20 and 30, spikes 300 and 15000, 7 observations, 1 spike | the mean has found the traffic when it is ready, one spike is resisted |
| `runner_elapsed` | as `anomaly_runner`, with a minimum of 4 time units | the minimum that `config.rs:41` documents, which is missed by one interval |
| `proto_repeated` | as `proto_alert`, with two rules of one kind | the consecutive ticks of `proto_manager.rs:35`, which are halved |
| `port_scan_gauge` | as `port_scan`, 1 IP, thresholds 1, cooldown 4, 4 reads | the gauge that `metrics.rs:138` describes, which counts more |

The bounds are the smallest at which the cases meet. Three IPs with one signal
per tick let one alert resolve, one build up and one cool down together; eight
ticks fire, resolve, collect and fire again. A step of 0 is a burst of late
ticks; a step of 2 against a cooldown of 3 leaves it in two. In `dispatch` a
tick of two alerts overfills the channel while a batch is retried, and a second
tick can overtake a late request. In `anomaly_runner` the baseline becomes ready
at the third evaluation, an alert can fire at the fourth, and learning can
resume at the fifth. In `syn_flood` three sources on a map of two evict each
other before, during and after a read; five SYNs put a source over the threshold
in a period of two or two sources in a period of one; three reads prime, evaluate
and evaluate again, or skip one in between. The branch for two snapshots of one
instant is in the model and not in this run: two full reads of a map end at
different instants. In `port_scan` a map of two is full with
two touches, a third evicts before, during or after a read, and a step of 1 with a
window of 1 puts a touch on either side of it. In `traffic` there is a frame one
byte or one field across each boundary of a bare SYN; two CPUs and two frames let
a read see the later frame and not the earlier one. In `daemon` two clients can
hold the lock in turns for ever, and the seven files are an empty one, one that
overrides something of everything, and one for each way to be rejected; a u64
holds 4096 units so that a window can come near it. In `ewma` the spike may come
anywhere, first included; seven observations leave five usual ones and two more,
and rates vary by a factor of three: with a factor far above that half the least
rate would be a stronger claim. `CHECK_DEADLOCK FALSE` everywhere: behaviours end
at their bounds, and the dispatcher's and the daemon's also because the process
exits.

Fairness is assumed in two modules. In `AlertmanagerDispatch`: weak fairness of a
tick's pushes (straight-line code), of the dispatcher as a whole (tokio polls a
ready task, the HTTP client has a timeout, a backoff is finite) and of main's
reaction to the finished task. In `Daemon`: strong fairness of each timer's branch
and of the signal branch, because `select!` starts at a random branch, so that one
that is ready again and again is taken in the end though others are ready too;
weak fairness of granting the write lock when it is free, of a handler's
straight-line body, of a drain that can end, and of time during the drains. No
tick, no signal, no client, no answer, no late arrival, no task's end and, in the
dispatcher, no end of the grace period is assumed.

What the runs show beyond "it holds":

- The cooldown survives garbage collection because an Inactive entry is kept
  while its cooldown runs; a variant of `is_hot` without it fails.
- Judging a freeze at the time of the counters errs on the safe side: the
  counters are never newer than the evaluation, so a cooldown that has passed by
  their time has passed by now.
- Alertmanager agrees about a key once the latest alert of that key is
  delivered, whatever was lost before. The exception the property names is
  real: an abandoned request that arrives after a later batch reopens an alert
  until the next alert of that key.
- An evaluation without fresh counters counts as quiet: failing polls or two
  evaluations back to back reset Pending alerts and resolve Firing ones. No
  comment says otherwise: the promise of `main.rs:105` not to go on with stale data
  is made to the callers of `read_or_skip`, and the anomaly arm is none.
- `pipeline.rs:54` says that `prev` is `None` "after any gap with no data". The
  function and its test `prime_or_diff_no_current_is_noop` keep it, and the models
  follow them: after a gap the next difference spans it (`WindowsTile`,
  `CountedOnce`). The sentence can be read as the opposite.
- Two rules of one kind advance one slot twice a tick (`proto_repeated`).
- A SYN-flood rate never counts a packet twice, whatever the read overlaps; it
  may count too few when an entry is evicted and re-created between two reads,
  which user space cannot tell from a source that slowed down.
- A snapshot of `SYN_TRACKER` can hold more keys than the map, because keys
  evicted after their visit stay in it: memory is not bounded by twice the map's
  capacity, as `rate/synflood_compute.rs:7` says.
- Heartbeats stop when the signal does, not when the alert resolves, unlike what
  `pipeline.rs:43` says.
- The gauges of active alerts count every entry of the manager's map, those that
  are resolved and cool down included, unlike their descriptions (`metrics.rs:123`
  and `:138`; `port_scan_gauge`).
- The gate of `min_elapsed_secs` opens one evaluation interval early
  (`runner_elapsed`), because the immediate first tick counts as an interval. With
  the defaults, 120 s and five samples, it does not show, because the samples take
  longer; with 300 s a baseline may be scored against after 270 s.
- A port is never counted that was not touched in the window, and a touch that is
  young enough for any lag always counts if its entry was neither evicted nor
  written again before the read met it: reading keys before the time, not after, is
  what makes both true.
- The sums of a poll lie between the counts at its start and at its end although
  they are of no single instant, so consecutive differences never go negative and
  never invent traffic. Their time is the start of the read.
- `/anomalies` and the gauges score a rate after the baseline may have learned it;
  they agree with the alert wherever a freezing rule kept the rate out, and only
  there. An alert of a rule that does not freeze may be shown with another level.
- The write lock starves nobody because tokio's lock is fair and handlers drop
  their guard before they send: with a lock that prefers readers the arms stop.
- The guard `if !api_task_done` on the branch is not enough to avoid the panic of
  a handle polled twice; the drain needs its own test, and has it.
- The first sample of a baseline is clipped to nothing, but MAD takes it in full,
  so the window is open for the second one. With a window from the variance alone
  the baseline would stay at zero.

## Proofs

Eight modules hold what TLAPS proves. Each theorem is for every value of the
constants that the named `ASSUME` of its model allows, which is that they have
their types, plus the hypotheses listed here. The bounds on the length of a
behaviour are constants too, so behaviours of any length are covered. Every safety
invariant and action property that a run checks is the statement of a theorem,
except those of `ewma`.

| module | theorems | hypotheses |
|---|---|---|
| `IpAlertProofs` | `TypeCorrect`, `HistoryCorrect`, `CooldownTheorem`, `TrackedTheorem`, `Refinement` | none |
| `ProtoAlertProofs` | `TypeCorrect`; `HistoryCorrect`, `FreezeTheorem`, `FiresTheorem`, `Refinement` | `DistinctKinds` for the last four |
| `RunnerProofs` | `TypeCorrect`, `WindowsCorrect`, `TileTheorem`, `WarmupTheorem`; `HistoryCorrect`, `LearnsTheorem`, `ShownTheorem` | `DistinctKinds` for the last three |
| `DispatchProofs` | `DispatchCorrect`, `DispatchTyped`, `FifoTheorem`, `LossTheorem`, `RetryTheorem`, `AgreementTheorem` | the set of label sets is finite (in `DispatchAssumption`) |
| `SynFloodProofs` | `AccountsCorrect`, `TypeCorrect`, `CountedOnceTheorem`, `SignalsBackedTheorem`; `NothingMissedTheorem`, `FloodSeenTheorem` | `0 \notin Steps` for the last two |
| `PortScanProofs` | `StampsCorrect`, `TypeCorrect`, `BreadthBackedTheorem`, `ScanSeenTheorem` | none |
| `DaemonProofs` | `DaemonCorrect`, `DaemonTyped`, `NeverPanicsTheorem`, `ShutdownTheorem`, `ShowsTheorem` | the files' fields have their types (`ConfigFile`, in `DaemonAssumption`) |
| `TrafficProofs` | `CountersCorrect`, `TypeCorrect`, `MixesTileTheorem`, `BracketedTheorem`, `PaddingTheorem` | none |

The hypotheses, and what they cost:

- `DistinctKinds`: no two rules are about one kind. `default_alert_rules` has one
  rule per kind, and so have all instances but the one of `proto_repeated`;
  `build_alert_rules` accepts more.
  Without it `FiresAfterConsecutiveTicks` is false, which is what `proto_repeated`
  shows: two rules advance one slot twice a tick.
- `0 \notin Steps`: two ticks of the SYN-flood runner are at different instants.
  A snapshot's time is taken when its read ends, and a whole read of the map lies
  between two of them. With two snapshots of one instant `compute_syn_rates_top_n`
  returns nothing and the SYNs in between are missed: TLC refutes both properties
  when 0 is among the steps. `CountedOnce` and `SignalsBacked` do not need it.
- `IsFiniteSet(Keys)`: there are finitely many protocols and IPv4 addresses, so that
  the alerts of one tick, a set in the model, can be put in a list.

### The arguments

**Per-IP manager.** Neither the cooldown property nor the contract is inductive:
both speak of fires and runs that the map may have forgotten. `HistoryExplains`
says why forgetting is harmless: an untracked IP has no run under way; a tracked
slot's counters are the lengths of the current runs; a fire that no slot remembers
is at least a cooldown old. `AdvanceEffect` gives the cases of `advance`, `TickOnIp`
what a tick does to one IP, `EntryExplained` that a fresh entry is as good as a
collected one, `CooldownAgrees` that the slot's cooldown test is the history's.
The lemmas on `advance` are in the proofs of both managers and, as far as typing
goes, of the two per-source pipelines, each of which has its own copy.

**Per-protocol manager.** `advance_states` loops over the rules, a recursive
function in the model. `ChainExists` shows that the definition has a solution, by
minimal counterexample on the well-founded order of the naturals; `AdvanceIsChain`
that it is that solution. The lemmas up to `TickKeepsType` carry typing along the
chain by the same kind of argument, for any rules. With distinct kinds a key is
touched by one link of the chain only: `TickOnKey` says that a tick is, for each
key, one `advance` by the rule of its kind, and that an event or heartbeat of that
key comes of that advance. From there `HistoryExplains` and the mapping to
`AlertContract` go as for the per-IP manager. `FreezeTheorem` needs more of it:
that an entry which is hot has a run, an open alert or a running cooldown in the
history, and the other way round (`HotExplained`).

**Anomaly pipeline.** The pipeline owns an alert manager whose signals are what its
detectors made of the scores, and whose clock is the evaluations'. `RunnerProofs`
takes the facts about a tick of the manager from
`H == INSTANCE ProtoAlertProofs WITH Signals <- AlertSignal, ticks <- elapsed_ticks,
quiet <- run`, since no property of the pipeline needs the history of quiet ticks, with
a few lemmas (`SameSlots`, `SameTick` and their like) that the
operators of the instance are those of the pipeline. `Windows` makes `WindowsTile`
inductive: counters only get newer, and what rates cover so far ends where the next
evaluation starts. `WarmupTheorem` is inductive by itself, because readiness never
goes back. `LearnsTheorem` and `ShownTheorem` rest on the manager's invariant before
and after the tick: the freeze decision after the alerts is then a statement about
the history, not about phases.

**Dispatch.** `IInv` has `Control` (who is where: nothing is pushed once the
dispatcher is gone), `InOrder` (batch and queue are the tail of what was accepted,
position by position), `Losses`, `Retries`, and for the agreement `PushedIsCurrent`,
`LateRequests` and `ViewIsRecent`: the view of a key comes from an alert at least
as recent as the last one delivered, and an abandoned request is a run of accepted
alerts of which nothing later was delivered, unless it is counted as overtaken.
Appending, popping and applying a batch alert by alert are lemmas.

**SYN flood.** `CountedOnce` compares what ticks counted with what was sent. To be
inductive it has to follow each SYN through the map, the read and the last
snapshot: a counter is what its source had sent less what was erased, at the moment
it was read (`ReadSoFar`); a key that a read missed was out of the map at some moment
since the read began (`MissedWasErased`); and the same of the previous snapshot,
for keys that are in it and for those that are not (`PreviousSnapshot`). The cut at
the capacity is reasoned about by cardinalities only.

**Port scan.** The invariant says that entries are stamps of their keys although
touches land out of order (`Stamps`), that what was read was stamped (`ReadIsBacked`),
and that a key which was there when the read began, and which the read has met or is
still bound to, is read with a touch at most `Lag` older than that entry
(`SettledIsKept`). Breadth is then squeezed between the ports surely and really
touched, by cardinalities of ports; `SignalHasAlert` adds that a signal leaves an
alert that builds up or is open.

**Traffic counters.** A snapshot is a sum over the CPUs, and the sum is a fold that
takes the CPUs in an order left to `CHOOSE`. `SumsExist` shows that the fold is
defined on every set of CPUs and `SumsAnyOrder` that any element may be taken off
first; both go by the cardinality of the set, with `NatSet` for induction. From there
sums are monotone (`SumMonotone`), depend on the values at hand only (`SumLocal`),
and grow by one when one value does (`SumIncrement`). `IInv` says of a read under way
that there is a value for each bucket and CPU, at most what the counter is now, such
that the values of a bucket add up to no less than its counters when the read began
or at the last good poll, and those already read to what the read has so far. The
code keeps none of these values, so they are an existential in the invariant
(`Witness`): what was read stays as it was, what was not yet read may be taken as it
is when the read comes to it. Hence a finished poll lies between the counts at its
start and at its end, and no bucket of it is below the poll before. Differences are
then exact although `diff_stats` saturates, which is what makes mixes tile, and why
the gauges never show more of a protocol than its mixes had.
`PaddingTheorem` needs no invariant: `FlagsIgnored` follows the parser's bounds
checks.

**Daemon.** `Handles` says which handles can have been taken where, `Clocks` that
the drains in progress have run for equally long, which is why they share one grace
period. `Accepted` says that what main runs with is what `resolve_all` made of a
file; `ViewShows` then shows for every file, rule by rule and threshold by
threshold, that a file saying what `/config` shows resolves to the same detectors
and the same view.

### Only model-checked, and why

- Liveness: `EverySettled`, `ShutdownCompletes`, `SignalEndsProcess`,
  `ArmsKeepRunning`. Fairness and `ENABLED` are out of the proof system's reach.
- `Ewma`: `ReadyKnowsTraffic` and `SingleSpikeResisted` are about products of
  variables, rounded, and hold for the parameters of the run, not for all.
- The three runs that expect a violation: counterexamples need no proof.

## Not modelled, and why

Rendering (labels, JSON, logs; metric gauges that copy values the models already
have), TOML syntax, loading and attaching the program (steps of start-up that can
only fail), the ages in `/health`, and byte counts, which are added next to packet
counts. The z-score and the emergency ratio are inputs of the pipeline, because
they are floating-point quotients; the fixed-point baseline is not composed with
the pipeline for the same reason. The dispatcher's drain is modelled in
`AlertmanagerDispatch` with its channel and in `Daemon` with the other drains, not
in one module: the two share only the drop of the sink and the grace period. An
alert manager's `snapshot` copies state. Alertmanager's own expiry is outside this
repository. A configuration with two thresholds for one protocol is accepted;
the detector uses the first, `/config` shows both.

## Plan

What is left is the emergency ratio and the z-score in fixed point, composed with
the pipeline in place of the inputs that stand for them.
