-------------------------------- MODULE Daemon --------------------------------
(***************************************************************************)
(* main.rs around the pipelines: start-up from a configuration, the select! *)
(* loop over the timers, the API task and the signals, the RwLock the loop *)
(* shares with the request handlers, and the shutdown.                     *)
(*                                                                         *)
(* What an arm computes is the matter of the pipelines' modules; here it   *)
(* reads, may skip, and may wait for the lock to publish what it computed. *)
(* A timer is due when at least one tick is: a late one (bursts) is due    *)
(* again at once.  Time is counted from the start of the drains only.      *)
(***************************************************************************)
EXTENDS Config

CONSTANTS ConfigPaths,           \* Option: the file given by --config
          Clients,               \* HTTP clients, one request at a time each
          Arms,                  \* the timers of the loop
          ReadArms,              \* arms that read a BPF map first
          PublishArms,           \* arms that write the shared state
          SHUTDOWN_GRACE_PERIOD

ASSUME DaemonAssumption == /\ ReadArms \cup PublishArms \subseteq Arms
                           /\ SHUTDOWN_GRACE_PERIOD \in Nat
                           /\ \A path \in ConfigPaths : \A f \in path : ConfigFile(f)

Tasks == {"api", "logger", "dispatcher"}

VARIABLES pc,             \* where main is; in "write" it waits for the lock
          arm,            \* the arm it is in
          config,         \* Option: what resolve_all returned
          due,            \* timers with a tick pending
          conn,           \* conn[c]: the request of c
          task,           \* task[t]: state of a task and its JoinHandle
          api_task_done,
          shutdown,       \* the CancellationToken
          signalled,      \* SIGINT or SIGTERM is pending
          am_sink,        \* main holds the sink
          undrained,      \* tasks main waits for
          left,           \* left[t]: what is left of the timeout of a drain
          waited          \* history: time since the drains started

vars == <<pc, arm, config, due, conn, task, api_task_done, shutdown, signalled,
          am_sink, undrained, left, waited>>

loopVars  == <<config, due, api_task_done, shutdown, signalled, am_sink>>
drainVars == <<undrained, left, waited>>

Init == /\ pc = "start" /\ arm = "none" /\ config = {} /\ due = {}
        /\ conn = [c \in Clients |-> "none"]
        /\ task = [t \in Tasks |-> "absent"]
        /\ api_task_done = FALSE /\ shutdown = FALSE /\ signalled = FALSE
        /\ am_sink = FALSE
        /\ undrained = {} /\ left = [t \in Tasks |-> SHUTDOWN_GRACE_PERIOD]
        /\ waited = 0

-----------------------------------------------------------------------------
(* Start-up. *)

FaultSpawnsAnyway(am) == {"running", "absent"}

\* maybe_spawn: nothing unless enabled, nor if the HTTP client cannot be built.
maybe_spawn(am) == IF am.enabled THEN {"running", "absent"} ELSE {"absent"}

\* The logger is optional, an interval's first tick is immediate.
Start(path) ==
    /\ pc = "start"
    /\ \E c \in resolve_all(path), l \in {"running", "absent"} :
       \E d \in maybe_spawn(c.resolved.alertmanager) :
          /\ config' = {c}
          /\ task' = [api |-> "running", logger |-> l, dispatcher |-> d]
          /\ am_sink' = (d = "running")
    /\ pc' = "select"
    /\ due' = Arms
    /\ UNCHANGED <<arm, conn, api_task_done, shutdown, signalled, drainVars>>

\* A rejected configuration, or any other `?` before the loop.
StartFails == /\ pc = "start"
              /\ pc' = "exit"
              /\ UNCHANGED <<arm, conn, task, loopVars, drainVars>>

-----------------------------------------------------------------------------
(* The loop.  The API branch is polled with the others while its guard holds. *)

ApiPolled == ~api_task_done

\* An arm runs: it skips if its read fails, else it computes and publishes.
TakeArm(a) ==
    /\ pc = "select" /\ a \in due
    /\ due' = due \ {a}
    /\ \/ a \in ReadArms /\ UNCHANGED <<pc, arm>>
       \/ a \in PublishArms /\ pc' = "write" /\ arm' = a
       \/ a \notin PublishArms /\ UNCHANGED <<pc, arm>>
    /\ UNCHANGED <<config, conn, task, api_task_done, shutdown, signalled, am_sink,
                   drainVars>>

\* The write lock is granted when no handler reads.
Publish == /\ pc = "write"
           /\ \A c \in Clients : conn[c] # "reading"
           /\ pc' = "select" /\ arm' = "none"
           /\ UNCHANGED <<loopVars, conn, task, drainVars>>

TakeApiExit == /\ pc = "select" /\ ApiPolled /\ task["api"] = "ended"
               /\ task' = [task EXCEPT !["api"] = "taken"]
               /\ api_task_done' = TRUE
               /\ UNCHANGED <<pc, arm, config, due, conn, shutdown, signalled, am_sink,
                              drainVars>>

FaultTimersFirst ==
    /\ pc = "select" /\ signalled /\ due = {}
    /\ shutdown' = TRUE /\ am_sink' = FALSE
    /\ pc' = "drain"
    /\ undrained' = {t \in Tasks : task[t] # "absent" /\ ~(t = "api" /\ api_task_done)}
    /\ UNCHANGED <<arm, config, due, conn, task, api_task_done, signalled, left, waited>>

FaultDrainsAll ==
    /\ pc = "select" /\ signalled
    /\ shutdown' = TRUE /\ am_sink' = FALSE
    /\ pc' = "drain"
    /\ undrained' = {t \in Tasks : task[t] # "absent"}
    /\ UNCHANGED <<arm, config, due, conn, task, api_task_done, signalled, left, waited>>

\* Cancel, leave the loop, drop the sink; a drain returns at once if its task
\* never was, or was found dead by the loop.
TakeSignal ==
    /\ pc = "select" /\ signalled
    /\ shutdown' = TRUE /\ am_sink' = FALSE
    /\ pc' = "drain"
    /\ undrained' = {t \in Tasks : task[t] # "absent" /\ ~(t = "api" /\ api_task_done)}
    /\ UNCHANGED <<arm, config, due, conn, task, api_task_done, signalled, left, waited>>

-----------------------------------------------------------------------------
(* The drains: three timeouts joined. *)

FaultOneAfterTheOther == IF undrained = {} THEN {} ELSE {CHOOSE t \in undrained : TRUE}

\* The drains that run: all of them at a time.
Draining == undrained

DrainEnds(t) == /\ pc = "drain" /\ t \in Draining
                /\ \/ task[t] = "ended" /\ task' = [task EXCEPT ![t] = "taken"]
                   \/ left[t] = 0 /\ UNCHANGED task
                /\ undrained' = undrained \ {t}
                /\ UNCHANGED <<pc, arm, loopVars, conn, left, waited>>

\* A drain that can end does so before time goes on.
Wait == /\ pc = "drain" /\ undrained # {}
        /\ \A t \in Draining : left[t] > 0 /\ task[t] # "ended"
        /\ left' = [t \in Tasks |-> IF t \in Draining THEN left[t] - 1 ELSE left[t]]
        /\ waited' = waited + 1
        /\ UNCHANGED <<pc, arm, loopVars, conn, task, undrained>>

\* main returns and the runtime drops what still runs.
Exit == /\ pc = "drain" /\ undrained = {}
        /\ pc' = "exit"
        /\ UNCHANGED <<arm, loopVars, conn, task, drainVars>>

-----------------------------------------------------------------------------
(* Everyone else. *)

Running == pc \notin {"start", "exit"}

Elapse(timers) == /\ pc \in {"select", "write"} /\ timers # {}
                  /\ timers \cap due = {}
                  /\ due' = due \cup timers
                  /\ UNCHANGED <<pc, arm, config, conn, task, api_task_done, shutdown,
                                 signalled, am_sink, drainVars>>

Signal == /\ Running /\ ~signalled
          /\ signalled' = TRUE
          /\ UNCHANGED <<pc, arm, config, due, conn, task, api_task_done, shutdown,
                         am_sink, drainVars>>

Served(c, from, to) ==
    /\ Running /\ conn[c] = from
    /\ conn' = [conn EXCEPT ![c] = to]
    /\ UNCHANGED <<pc, arm, loopVars, task, drainVars>>

\* axum accepts until it is cancelled.
Connect(c) == /\ task["api"] = "running" /\ ~shutdown
              /\ Served(c, "none", "queued")

FaultReadersFirst(c) == Served(c, "queued", "reading")

\* The lock is fair: a reader queues behind a writer that waits.
Lock(c) == pc # "write" /\ Served(c, "queued", "reading")

\* The handler has copied what it needs; the guard is dropped before a byte of
\* the answer is sent.
Unlock(c) == Served(c, "reading", "sending")

\* A client may take its time, and may go away while it waits.
Disconnect(c) == \E from \in {"queued", "sending"} : Served(c, from, "none")

Ends(t) == /\ Running
           /\ task[t] = "running"
           /\ task' = [task EXCEPT ![t] = "ended"]
           /\ UNCHANGED <<pc, arm, conn, loopVars, drainVars>>

\* Bind or accept fails, a logger's descriptor fails, a dispatcher panics.
Fails(t) == Ends(t)

\* Graceful shutdown waits for the requests under way.
ApiStops == /\ shutdown /\ \A c \in Clients : conn[c] = "none"
            /\ Ends("api")

LoggerStops == shutdown /\ Ends("logger")

\* The dispatcher ends once the sink is dropped and its channel is drained.
DispatcherStops == ~am_sink /\ Ends("dispatcher")

Stops == ApiStops \/ LoggerStops \/ DispatcherStops

Next == \/ \E path \in ConfigPaths : Start(path)
        \/ StartFails
        \/ \E a \in Arms : TakeArm(a)
        \/ Publish \/ TakeApiExit \/ TakeSignal
        \/ \E t \in Tasks : DrainEnds(t) \/ Fails(t)
        \/ Wait \/ Exit \/ Signal \/ Stops
        \/ \E timers \in SUBSET Arms : Elapse(timers)
        \/ \E c \in Clients : Connect(c) \/ Lock(c) \/ Unlock(c) \/ Disconnect(c)

\* select! starts at a random branch, so one that is ready again and again is
\* taken in the end.  A handler's body is straight-line code, the lock is granted
\* when it is free, and time passes.  No client, task, timer or signal is
\* relied upon.
Fairness == /\ \A a \in Arms : SF_vars(TakeArm(a))
            /\ SF_vars(TakeSignal)
            /\ WF_vars(Publish)
            /\ \A c \in Clients : WF_vars(Unlock(c))
            /\ \A t \in Tasks : WF_vars(DrainEnds(t))
            /\ WF_vars(Wait) /\ WF_vars(Exit)

Spec == Init /\ [][Next]_vars /\ Fairness

-----------------------------------------------------------------------------
\* Every variable has its type, and the dispatcher exists only if pushing is
\* enabled.
TypeOK ==
    /\ pc \in {"start", "select", "write", "drain", "exit"}
    /\ arm \in PublishArms \cup {"none"}
    /\ Cardinality(config) <= 1
    /\ due \subseteq Arms
    /\ conn \in [Clients -> {"none", "queued", "reading", "sending"}]
    /\ task \in [Tasks -> {"absent", "running", "ended", "taken"}]
    /\ {api_task_done, shutdown, signalled, am_sink} \subseteq BOOLEAN
    /\ undrained \subseteq Tasks
    /\ left \in [Tasks -> 0..SHUTDOWN_GRACE_PERIOD]
    /\ waited \in Nat
    /\ task["dispatcher"] # "absent" => \A c \in config : c.resolved.alertmanager.enabled

\* main never panics: it does not poll the JoinHandle of a task whose result it
\* has taken, neither in the loop nor in a drain, and maybe_spawn finds the url
\* it expects.
NeverPanics ==
    /\ pc = "select" /\ ApiPolled => task["api"] # "taken"
    /\ pc = "drain" => \A t \in undrained : task[t] # "taken"
    /\ \A c \in config :
          c.resolved.alertmanager.enabled => "url" \in DOMAIN c.resolved.alertmanager

\* /config shows what is in effect, with or without a file: a file that says
\* what it shows builds the same detectors and shows the same again, and the
\* derived values, evaluations and nanoseconds, cover the seconds shown.
ShowsWhatIsInEffect ==
    \A c \in config :
       LET b == c.resolved.baseline
           w == c.resolved.port_scan.window_secs * NANOS
       IN  /\ load_config(AsFile(c.resolved)) = {c}
           /\ c.detectors.baseline.min_elapsed_ticks * ANOMALY_EVAL_SECS >= b.min_elapsed_secs
           /\ w < U64 => c.detectors.port_scan.window_ns = w

\* "a hung task can't extend total shutdown wait past SHUTDOWN_GRACE_PERIOD"
\* (main.rs:359-360).
ShutdownBounded == waited <= SHUTDOWN_GRACE_PERIOD

\* A signal ends the process, whatever hangs: a client that does not read its
\* answer, the API, the logger, the dispatcher, timers that are always late.
SignalEndsProcess == signalled ~> pc = "exit"

\* Every timer is served again and again until a signal comes, although requests
\* keep coming, clients are slow, reads fail and the API task dies.
ArmsKeepRunning ==
    \A a \in Arms : a \in due /\ pc \in {"select", "write"} ~> a \notin due \/ signalled
=============================================================================
