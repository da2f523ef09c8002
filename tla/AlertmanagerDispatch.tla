------------------------ MODULE AlertmanagerDispatch ------------------------
(***************************************************************************)
(* alertmanager.rs and the part of main.rs that drives it: the ticks of    *)
(* the main loop push alerts, without ever waiting, onto a bounded channel;*)
(* a background task drains it into batches and POSTs them with retries;   *)
(* a signal makes the main loop drop the sink and wait, for a grace period,*)
(* for the task to drain.  The two tasks run on different threads, so a    *)
(* push may fall between any two steps of the dispatcher.                  *)
(*                                                                         *)
(* An alert is identified by a key: what its Alertmanager labels are made  *)
(* of.  Alertmanager itself is external: it keeps the set of label sets    *)
(* that are open, the last write of a label set wins.                      *)
(***************************************************************************)
EXTENDS Naturals, Sequences, FiniteSets, SequencesExt

CONSTANTS Keys,                       \* identities of alerts
          DISPATCH_CHANNEL_CAPACITY,  \* bound of the channel
          MAX_BATCH,                  \* most alerts in one POST
          RETRY_ATTEMPTS,             \* most POSTs of one batch
          MaxAlerts,                  \* bound on the alerts the ticks produce
          MaxLate                     \* bound on requests that arrive late

ASSUME DispatchAssumption ==
    /\ {DISPATCH_CHANNEL_CAPACITY, MAX_BATCH, RETRY_ATTEMPTS} \subseteq Nat \ {0}
    /\ {MaxAlerts, MaxLate} \subseteq Nat
    /\ IsFiniteSet(Keys)

VARIABLES
    main,      \* "loop", "drain" (signal received, sink dropped) or "exited"
    open,      \* keys whose alert is Firing in its manager
    outgoing,  \* alerts the tick under way has still to push
    queue,     \* the channel
    task,      \* the dispatcher: where run_dispatcher is
    batch,     \* the batch it works on
    attempt,   \* POSTs of that batch that failed
    metrics,   \* push_success, push_failure and dropped counters
    am_open,   \* Alertmanager: open label sets
    late       \* Alertmanager: requests given up by the client, not yet seen

\* History, for the properties only.
VARIABLES
    offered,   \* number of alerts the ticks produced
    accepted,  \* every alert the channel took, in order
    settled,   \* how many of them run_dispatcher is done with
    lost,      \* positions in accepted of the alerts of failed batches
    missed,    \* keys whose latest alert did not fit in the channel
    replies,   \* outcomes of the POSTs of the latest batch
    seen,      \* position in accepted of the latest batch Alertmanager saw
    stale      \* keys last written by a request overtaken by a later one

codeVars    == <<main, open, outgoing, queue, task, batch, attempt, metrics>>
amVars      == <<am_open, late>>
historyVars == <<offered, accepted, settled, lost, missed, replies,
                 seen, stale>>
vars        == <<codeVars, amVars, historyVars>>

-----------------------------------------------------------------------------
(* The wire format. *)

\* What the managers hand over: a transition or a heartbeat.  A Resolved alert
\* has the rule's level, the others the level of the signal at hand.
AlertKinds  == {"Fired", "Heartbeat", "Resolved"}
Alert(k, kind) == [key   |-> k,
                   kind  |-> kind,
                   level |-> IF kind = "Resolved" THEN "rule" ELSE "signal"]

FaultLevelInLabels(a) == [labels  |-> <<a.key, a.level>>,
                          ends_at |-> a.kind = "Resolved",
                          alert   |-> a]

\* Labels from what never changes between Fired and Resolved; ends_at is set
\* for a Resolved alert only.  The alert itself is carried for the properties.
alert_to_wire(a) == [labels  |-> <<a.key>>,
                     ends_at |-> a.kind = "Resolved",
                     alert   |-> a]

AlertmanagerAlert == {alert_to_wire(Alert(k, kind)) : k \in Keys, kind \in AlertKinds}

\* Alertmanager takes the alerts of one request in order: of those with the same
\* labels the last one decides.
Apply(view, wires) ==
    LET LastOf(i) == \A j \in (i + 1)..Len(wires) : wires[j].labels # wires[i].labels
    IN  (view \ {wires[i].labels : i \in DOMAIN wires})
          \cup {wires[i].labels : i \in {i \in DOMAIN wires : LastOf(i) /\ ~wires[i].ends_at}}

KeysOf(wires) == {wires[i].alert.key : i \in DOMAIN wires}

-----------------------------------------------------------------------------
Init == /\ main = "loop" /\ open = {} /\ outgoing = <<>>
        /\ queue = <<>> /\ task = "recv" /\ batch = <<>> /\ attempt = 0
        /\ metrics = [push_success |-> 0, push_failure |-> 0, dropped |-> 0]
        /\ am_open = {} /\ late = {}
        /\ offered = 0 /\ accepted = <<>> /\ settled = 0 /\ lost = {}
        /\ missed = {} /\ replies = <<>> /\ seen = 0 /\ stale = {}

\* The POST under way.
Request == [first |-> settled + 1, wires |-> batch]

(* The main loop. *)

dispatch_tick_alerts(transitions, heartbeats) == transitions \o heartbeats

\* A pipeline's tick: some alerts fire, some resolve, some of the others that
\* are open are re-affirmed.  The maps of the managers have no order.
Tick == /\ main = "loop" /\ outgoing = <<>>
        /\ \E fired \in SUBSET (Keys \ open), resolved \in SUBSET open :
           \E beats \in SUBSET (open \ resolved) :
           \E ts \in SetToSeqs({alert_to_wire(Alert(k, "Fired")) : k \in fired} \cup
                               {alert_to_wire(Alert(k, "Resolved")) : k \in resolved}),
              hs \in SetToSeqs({alert_to_wire(Alert(k, "Heartbeat")) : k \in beats}) :
                /\ outgoing' = dispatch_tick_alerts(ts, hs)
                /\ open' = (open \cup fired) \ resolved
        /\ offered' = offered + Len(outgoing')
        /\ offered' <= MaxAlerts
        /\ UNCHANGED <<main, queue, task, batch, attempt, metrics, amVars,
                       accepted, settled, lost, missed, replies, seen, stale>>

Accept(w) == /\ queue' = Append(queue, w)
             /\ accepted' = Append(accepted, w)
             /\ missed' = missed \ {w.alert.key}
             /\ UNCHANGED metrics

Refuse(w, counters) == /\ metrics' = counters
                       /\ missed' = missed \cup {w.alert.key}
                       /\ UNCHANGED <<queue, accepted>>

Counted == [metrics EXCEPT !.dropped = @ + 1]

Closed == task \in {"exited", "aborted"}

FaultOverwritesOldest(w) ==
    IF Len(queue) < DISPATCH_CHANNEL_CAPACITY
      THEN Accept(w)
      ELSE /\ queue' = Append(Tail(queue), w)
           /\ accepted' = Append(accepted, w)
           /\ missed' = missed \ {w.alert.key}
           /\ metrics' = Counted

FaultDropUncounted(w) ==
    IF Len(queue) < DISPATCH_CHANNEL_CAPACITY THEN Accept(w) ELSE Refuse(w, metrics)

\* try_send: Ok, or the alert is dropped.  Only a Full channel is counted.
try_send(w) == IF Closed THEN Refuse(w, metrics)
               ELSE IF Len(queue) < DISPATCH_CHANNEL_CAPACITY THEN Accept(w)
               ELSE Refuse(w, Counted)

push == /\ main = "loop" /\ outgoing # <<>>
        /\ try_send(Head(outgoing))
        /\ outgoing' = Tail(outgoing)
        /\ UNCHANGED <<main, open, task, batch, attempt, amVars,
                       offered, settled, lost, replies, seen, stale>>

\* SIGINT or SIGTERM: leave the loop and drop the sink.
Signal == /\ main = "loop" /\ outgoing = <<>>
          /\ main' = "drain"
          /\ UNCHANGED <<open, outgoing, queue, task, batch, attempt, metrics,
                         amVars, historyVars>>

DrainDone == /\ main = "drain" /\ task = "exited"
             /\ main' = "exited"
             /\ UNCHANGED <<open, outgoing, queue, task, batch, attempt, metrics,
                            amVars, historyVars>>

\* SHUTDOWN_GRACE_PERIOD is over: main returns and the runtime drops the task;
\* Alertmanager may still get to the request that was under way.
GraceExpired == /\ main = "drain" /\ task # "exited"
                /\ main' = "exited"
                /\ task' = "aborted"
                /\ \/ UNCHANGED late
                   \/ /\ task = "post" /\ Cardinality(late) < MaxLate
                      /\ late' = late \cup {Request}
                /\ UNCHANGED <<open, outgoing, queue, batch, attempt, metrics,
                               am_open, historyVars>>

-----------------------------------------------------------------------------
(* run_dispatcher and post_with_retry. *)

Recv == /\ task = "recv" /\ queue # <<>>
        /\ batch' = <<Head(queue)>>
        /\ queue' = Tail(queue)
        /\ task' = "fill"
        /\ replies' = <<>>
        /\ UNCHANGED <<main, open, outgoing, attempt, metrics, amVars,
                       offered, accepted, settled, lost, missed, seen, stale>>

MoreToBatch == Len(batch) < MAX_BATCH /\ queue # <<>>

TryRecv == /\ task = "fill" /\ MoreToBatch
           /\ batch' = Append(batch, Head(queue))
           /\ queue' = Tail(queue)
           /\ UNCHANGED <<main, open, outgoing, task, attempt, metrics,
                          amVars, historyVars>>

BatchReady == /\ task = "fill" /\ ~MoreToBatch
              /\ task' = "post"
              /\ attempt' = 0
              /\ UNCHANGED <<main, open, outgoing, queue, batch, metrics,
                             amVars, historyVars>>

FaultSinkNotDropped ==
    /\ task = "recv" /\ queue = <<>> /\ main = "exited"
    /\ task' = "exited"
    /\ UNCHANGED <<main, open, outgoing, queue, batch, attempt, metrics,
                   amVars, historyVars>>

\* recv returns None once the sink is dropped and the channel is empty.
Exit == /\ task = "recv" /\ queue = <<>> /\ main # "loop"
        /\ task' = "exited"
        /\ UNCHANGED <<main, open, outgoing, queue, batch, attempt, metrics,
                       amVars, historyVars>>

\* Alertmanager sees the current batch.
Receive == /\ am_open' = Apply(am_open, batch)
           /\ seen' = settled + 1
           /\ stale' = stale \ KeysOf(batch)

Unseen == UNCHANGED <<am_open, seen, stale>>

FaultFailureEndsTask(success) ==
    /\ task' = IF success THEN "recv" ELSE "exited"
    /\ batch' = <<>>
    /\ settled' = settled + Len(batch)
    /\ metrics' = IF success THEN [metrics EXCEPT !.push_success = @ + 1]
                             ELSE [metrics EXCEPT !.push_failure = @ + 1]
    /\ lost' = IF success THEN lost
               ELSE lost \cup (settled + 1)..(settled + Len(batch))
    /\ UNCHANGED attempt

\* The batch is done with: counted once, whatever the number of POSTs.
Settle(success) ==
    /\ task' = "recv"
    /\ batch' = <<>>
    /\ settled' = settled + Len(batch)
    /\ metrics' = IF success THEN [metrics EXCEPT !.push_success = @ + 1]
                             ELSE [metrics EXCEPT !.push_failure = @ + 1]
    /\ lost' = IF success THEN lost
               ELSE lost \cup (settled + 1)..(settled + Len(batch))
    /\ UNCHANGED attempt

FaultOneRetryTooMany ==
    IF attempt < RETRY_ATTEMPTS
      THEN /\ task' = "sleep"
           /\ attempt' = attempt + 1
           /\ UNCHANGED <<batch, settled, metrics, lost>>
      ELSE Settle(FALSE)

\* The end of one iteration of the retry loop.
RetryOrGiveUp ==
    IF attempt + 1 < RETRY_ATTEMPTS
      THEN /\ task' = "sleep"
           /\ attempt' = attempt + 1
           /\ UNCHANGED <<batch, settled, metrics, lost>>
      ELSE Settle(FALSE)

Reply(r) == /\ task = "post"
            /\ replies' = Append(replies, r)
            /\ UNCHANGED <<main, open, outgoing, queue, offered, accepted, missed>>

PostSuccess == Reply("2xx") /\ Receive /\ Settle(TRUE) /\ UNCHANGED late

FaultRejectionRetried == Reply("4xx") /\ Unseen /\ RetryOrGiveUp /\ UNCHANGED late

PostRejected == Reply("4xx") /\ Unseen /\ Settle(FALSE) /\ UNCHANGED late

\* A 5xx answer, a refused connection, a lost answer or the client's timeout:
\* Alertmanager has taken the request, never will, or will at some later time.
PostError ==
    /\ Reply("error")
    /\ \/ Receive /\ UNCHANGED late
       \/ Unseen /\ UNCHANGED late
       \/ Cardinality(late) < MaxLate /\ Unseen /\ late' = late \cup {Request}
    /\ RetryOrGiveUp

Backoff == /\ task = "sleep"
           /\ task' = "post"
           /\ UNCHANGED <<main, open, outgoing, queue, batch, attempt, metrics,
                          amVars, historyVars>>

\* Alertmanager gets to a request its client has given up.
LateArrival ==
    \E r \in late :
       /\ late' = late \ {r}
       /\ am_open' = Apply(am_open, r.wires)
       /\ stale' = IF r.first < seen THEN stale \cup KeysOf(r.wires) ELSE stale
       /\ seen' = IF r.first < seen THEN seen ELSE r.first
       /\ UNCHANGED <<codeVars, offered, accepted, settled, lost, missed, replies>>

Dispatcher == Recv \/ TryRecv \/ BatchReady \/ Exit \/ Backoff
              \/ PostSuccess \/ PostRejected \/ PostError

Next == Tick \/ push \/ Signal \/ DrainDone \/ GraceExpired
        \/ Dispatcher \/ LateArrival

\* A tick finishes its pushes and main sees a finished task; the dispatcher is
\* polled, its client has a timeout and its backoff is finite.  No tick, no
\* signal, no particular answer and no arrival is taken for granted, and the
\* grace period is not relied upon.
Fairness == WF_vars(push) /\ WF_vars(DrainDone) /\ WF_vars(Dispatcher)

Spec == Init /\ [][Next]_vars /\ Fairness

-----------------------------------------------------------------------------
\* Every variable has its type; an outage of Alertmanager does not grow memory,
\* since what is accepted and not settled fits in the channel and one batch.
TypeOK ==
    /\ main \in {"loop", "drain", "exited"}
    /\ open \subseteq Keys
    /\ {outgoing, queue, batch, accepted} \subseteq Seq(AlertmanagerAlert)
    /\ Len(queue) <= DISPATCH_CHANNEL_CAPACITY /\ Len(batch) <= MAX_BATCH
    /\ task \in {"recv", "fill", "post", "sleep", "exited", "aborted"}
    /\ attempt \in 0..(RETRY_ATTEMPTS - 1)
    /\ metrics \in [push_success : Nat, push_failure : Nat, dropped : Nat]
    /\ am_open \subseteq {w.labels : w \in AlertmanagerAlert}
    /\ \A r \in late : r.first \in Nat /\ r.wires \in Seq(AlertmanagerAlert)
    /\ {offered, settled, seen} \subseteq Nat
    /\ lost \subseteq Nat
    /\ {missed, stale} \subseteq SUBSET Keys
    /\ replies \in Seq({"2xx", "4xx", "error"})

\* First in, first out, through batching and retries: the batch under way and
\* the channel are together what the channel accepted and run_dispatcher is not
\* done with, in that order.  A dispatcher that ends by itself has left nothing
\* (maybe_spawn's doc comment on the JoinHandle).
FifoAccounting ==
    /\ batch \o queue = SubSeq(accepted, settled + 1, Len(accepted))
    /\ task = "exited" => settled = Len(accepted) /\ outgoing = <<>>

\* No alert disappears unnoticed: each one a tick produced has still to be
\* pushed, was accepted, or is counted as dropped; an accepted one that is not
\* delivered belongs to a batch counted as a failure.
LossIsCounted ==
    /\ offered = Len(outgoing) + Len(accepted) + metrics.dropped
    /\ missed # {} => metrics.dropped > 0
    /\ lost = {} <=> metrics.push_failure = 0
    /\ Cardinality(lost) <= metrics.push_failure * MAX_BATCH
    /\ settled - Cardinality(lost) <= metrics.push_success * MAX_BATCH

\* A batch is POSTed at most RETRY_ATTEMPTS times, again only after a 5xx or a
\* transport error, and given up only after a 4xx or the last attempt.
RetryDiscipline ==
    LET n == Len(replies)
    IN  /\ n <= RETRY_ATTEMPTS
        /\ \A i \in 1..(n - 1) : replies[i] = "error"
        /\ task \in {"recv", "exited"} /\ n > 0 =>
             replies[n] \in {"2xx", "4xx"} \/ n = RETRY_ATTEMPTS

\* Alertmanager agrees with the alert manager about every key whose latest alert
\* was delivered, whatever was dropped, failed, retried or duplicated before it:
\* the next delivered alert of a key repairs it.  The one exception is a key last
\* written by an abandoned request that a later batch has overtaken.
AlertmanagerAgrees ==
    \A k \in Keys \ (KeysOf(outgoing) \cup missed \cup stale) :
       LET mine   == {i \in DOMAIN accepted : accepted[i].alert.key = k}
           latest == CHOOSE i \in mine : \A j \in mine : j <= i
       IN  mine # {} /\ latest <= settled /\ latest \notin lost
             => (k \in open <=> \E l \in am_open : l[1] = k)

\* Every accepted alert is settled, delivered or counted as failed, unless the
\* process exits first: no backlog is stuck behind a failing Alertmanager.
EverySettled ==
    \A n \in 1..MaxAlerts :
       Len(accepted) >= n ~> settled >= n \/ main = "exited"

\* Shutdown completes without the help of the grace period.
ShutdownCompletes == main = "drain" ~> main = "exited"
=============================================================================
