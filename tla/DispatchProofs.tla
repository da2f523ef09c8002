--------------------------- MODULE DispatchProofs ---------------------------
(***************************************************************************)
(* Proofs about AlertmanagerDispatch for every set of alert identities and *)
(* every capacity, batch size and number of attempts: its five invariants. *)
(***************************************************************************)
EXTENDS AlertmanagerDispatch, FiniteSetTheorems, SequenceTheorems, WellFoundedInduction, TLAPS

-----------------------------------------------------------------------------
(* The inductive invariant. *)

\* Where the two tasks can be relative to each other: in particular nothing is
\* pushed once the dispatcher is gone, so no alert is refused uncounted.
Control ==
    /\ main # "loop" => outgoing = <<>>
    /\ task = "recv" => batch = <<>>
    /\ task \in {"fill", "post", "sleep"} => batch # <<>>
    /\ task = "exited" => main # "loop" /\ queue = <<>> /\ batch = <<>>
    /\ task = "aborted" => main = "exited"

\* FifoAccounting, position by position.
InOrder ==
    /\ settled + Len(batch) + Len(queue) = Len(accepted)
    /\ \A i \in 1..Len(batch) : batch[i] = accepted[settled + i]
    /\ \A i \in 1..Len(queue) : queue[i] = accepted[settled + Len(batch) + i]

Losses == LossIsCounted /\ lost \subseteq 1..settled

\* The POSTs of the batch under way so far.
Retries ==
    /\ RetryDiscipline
    /\ task = "fill" => replies = <<>>
    /\ task \in {"post", "sleep"} =>
         /\ Len(replies) = attempt
         /\ \A i \in 1..Len(replies) : replies[i] = "error"

KeyAt(p) == accepted[p].alert.key

IsLatest(p, k) == /\ KeyAt(p) = k
                  /\ \A q \in 1..Len(accepted) : KeyAt(q) = k => q <= p

\* What has been pushed last about a key is what its manager thinks of it.
PushedIsCurrent ==
    /\ \A i \in 1..Len(outgoing) :
         outgoing[i].ends_at <=> outgoing[i].alert.key \notin open
    /\ \A k \in Keys \ (KeysOf(outgoing) \cup missed), p \in 1..Len(accepted) :
         IsLatest(p, k) => (k \in open <=> ~accepted[p].ends_at)

\* An abandoned request holds a run of accepted alerts up to the batch under way;
\* if Alertmanager has seen no later batch, nothing after it was delivered.
LateRequest(r) ==
    /\ r.first \in 1..(settled + 1)
    /\ r.first + Len(r.wires) <= Len(accepted) + 1
    /\ \A i \in 1..Len(r.wires) : r.wires[i] = accepted[r.first - 1 + i]
    /\ r.first = settled + 1 =>
         r.wires = batch /\ task \in {"post", "sleep", "aborted"}
    /\ seen <= r.first =>
         \A q \in (1..settled) \ lost : q < r.first + Len(r.wires)

LateRequests == seen <= settled + 1 /\ \A r \in late : LateRequest(r)

\* The accepted alerts of k that were delivered.
Delivered(k) == {q \in (1..settled) \ lost : KeyAt(q) = k}

\* What Alertmanager has for a key comes from an alert at least as recent as the
\* last delivered one.
ViewIsRecent ==
    \A k \in Keys \ stale :
       Delivered(k) # {} =>
          \E p \in 1..Len(accepted) :
             /\ KeyAt(p) = k
             /\ \A q \in Delivered(k) : q <= p
             /\ <<k>> \in am_open <=> ~accepted[p].ends_at

IInv == /\ TypeOK /\ Control /\ InOrder /\ Losses /\ Retries
        /\ PushedIsCurrent /\ LateRequests /\ ViewIsRecent

-----------------------------------------------------------------------------
(* Sets and sequences. *)

\* A set of positions has a last one.
LEMMA LastPosition ==
  ASSUME NEW n \in Nat, NEW S \in SUBSET (1..n), S # {}
  PROVE  \E m \in S : \A q \in S : q <= m
<1> DEFINE T == {n - q : q \in S}
<1>1. T \subseteq Nat
  OBVIOUS
<1>2. T # {}
  <2>1. PICK q \in S : TRUE
    OBVIOUS
  <2>2. n - q \in T
    OBVIOUS
  <2> QED BY <2>2
<1>3. PICK x \in T : \A y \in T : ~ (<<y, x>> \in OpToRel(<, Nat))
  BY <1>1, <1>2, NatLessThanWellFounded, WFMin
<1>4. \A y \in T : ~(y < x)
  BY <1>1, <1>3 DEF OpToRel
<1>5. PICK m \in S : x = n - m
  BY <1>3
<1>6. \A q \in S : q <= m
  BY <1>4, <1>5
<1> QED BY <1>6

\* What the wire keeps of an alert.
LEMMA Wires ==
  ASSUME NEW w \in AlertmanagerAlert
  PROVE  /\ w.alert.key \in Keys
         /\ w.labels = <<w.alert.key>>
         /\ w.ends_at \in BOOLEAN
<1>1. PICK k \in Keys, kind \in AlertKinds : w = alert_to_wire(Alert(k, kind))
  BY DEF AlertmanagerAlert
<1>2. /\ w.alert = Alert(k, kind)
      /\ w.labels = <<Alert(k, kind).key>>
      /\ w.ends_at = (Alert(k, kind).kind = "Resolved")
  BY <1>1 DEF alert_to_wire
<1>3. Alert(k, kind).key = k
  BY DEF Alert
<1> QED BY <1>2, <1>3

Labels == {<<k>> : k \in Keys}

LEMMA WireLabels == {w.labels : w \in AlertmanagerAlert} = Labels
<1>1. ASSUME NEW k \in Keys PROVE \E w \in AlertmanagerAlert : w.labels = <<k>>
  <2>1. /\ alert_to_wire(Alert(k, "Fired")) \in AlertmanagerAlert
        /\ alert_to_wire(Alert(k, "Fired")).labels = <<k>>
    BY DEF AlertmanagerAlert, AlertKinds, alert_to_wire, Alert
  <2> QED BY <2>1
<1>2. \A w \in AlertmanagerAlert : w.labels \in Labels
  BY Wires DEF Labels
<1>3. \A l \in Labels : \E w \in AlertmanagerAlert : w.labels = l
  BY <1>1 DEF Labels
<1> QED BY <1>2, <1>3

\* Alertmanager keeps a key that a request does not mention as it was; for the
\* others the last alert of the request decides.
LEMMA ApplyEffect ==
  ASSUME NEW view \in SUBSET Labels, NEW wires \in Seq(AlertmanagerAlert)
  PROVE  /\ Apply(view, wires) \subseteq Labels
         /\ \A k \in Keys \ KeysOf(wires) : <<k>> \in Apply(view, wires) <=> <<k>> \in view
         /\ \A k \in KeysOf(wires) :
              \E i \in 1..Len(wires) :
                 /\ wires[i].alert.key = k
                 /\ \A j \in 1..Len(wires) : wires[j].alert.key = k => j <= i
                 /\ <<k>> \in Apply(view, wires) <=> ~wires[i].ends_at
<1>1. /\ Len(wires) \in Nat /\ DOMAIN wires = 1..Len(wires)
      /\ \A i \in 1..Len(wires) : wires[i] \in AlertmanagerAlert
  OBVIOUS
<1>2. \A i \in 1..Len(wires) : /\ wires[i].alert.key \in Keys
                               /\ wires[i].labels = <<wires[i].alert.key>>
                               /\ wires[i].ends_at \in BOOLEAN
  BY <1>1, Wires
<1> DEFINE LastOf(i) == \A j \in (i + 1)..Len(wires) : wires[j].labels # wires[i].labels
<1>3. \A l : l \in Apply(view, wires) <=>
               \/ l \in view /\ \A i \in 1..Len(wires) : wires[i].labels # l
               \/ \E i \in 1..Len(wires) : LastOf(i) /\ ~wires[i].ends_at /\ l = wires[i].labels
  BY <1>1 DEF Apply
<1>4. Apply(view, wires) \subseteq Labels
  <2>1. \A i \in 1..Len(wires) : wires[i].labels \in Labels
    BY <1>2 DEF Labels
  <2> QED BY <1>3, <2>1
<1>5. ASSUME NEW k \in Keys \ KeysOf(wires)
      PROVE  <<k>> \in Apply(view, wires) <=> <<k>> \in view
  <2>1. \A i \in 1..Len(wires) : wires[i].labels # <<k>>
    BY <1>1, <1>2 DEF KeysOf
  <2> QED BY <1>3, <2>1
<1>6. ASSUME NEW k \in KeysOf(wires)
      PROVE  \E i \in 1..Len(wires) :
                 /\ wires[i].alert.key = k
                 /\ \A j \in 1..Len(wires) : wires[j].alert.key = k => j <= i
                 /\ <<k>> \in Apply(view, wires) <=> ~wires[i].ends_at
  <2> DEFINE S == {i \in 1..Len(wires) : wires[i].alert.key = k}
  <2>1. S # {} /\ S \in SUBSET (1..Len(wires))
    BY <1>1 DEF KeysOf
  <2>2. PICK i \in S : \A j \in S : j <= i
    BY <1>1, <2>1, LastPosition
  <2>3. LastOf(i)
    BY <1>1, <1>2, <2>2
  <2>4. \A j \in 1..Len(wires) : wires[j].labels = <<k>> => j \in S
    BY <1>2
  <2>5. \A j \in 1..Len(wires) : LastOf(j) /\ wires[j].labels = <<k>> => j = i
    <3> SUFFICES ASSUME NEW j \in 1..Len(wires), LastOf(j), wires[j].labels = <<k>>
                 PROVE  ~(j < i)
      BY <1>1, <2>2, <2>4
    <3>1. wires[i].labels = <<k>>
      BY <1>2, <2>2
    <3> QED BY <1>1, <3>1
  <2>6. wires[i].labels = <<k>>
    BY <1>2, <2>2
  <2>7. <<k>> \in Apply(view, wires) <=> ~wires[i].ends_at
    BY <1>3, <2>2, <2>3, <2>5, <2>6
  <2> QED BY <2>2, <2>7
<1> QED BY <1>4, <1>5, <1>6

\* An enumeration of a finite set has all its members, and only them.
LEMMA Enumeration ==
  ASSUME NEW S, IsFiniteSet(S), NEW f \in SetToSeqs(S)
  PROVE  /\ f \in Seq(S)
         /\ \A x \in S : \E i \in 1..Len(f) : f[i] = x
<1> DEFINE n == Cardinality(S)
<1>1. n \in Nat
  BY FS_CardinalityType
<1>2. f \in [1..n -> S] /\ \A i, j \in 1..n : i # j => f[i] # f[j]
  BY DEF SetToSeqs
<1>3. f \in Seq(S) /\ Len(f) = n
  BY <1>1, <1>2
<1>4. f \in Injection(1..n, S)
  BY <1>2 DEF Injection, IsInjective
<1>5. IsFiniteSet(1..n) /\ Cardinality(1..n) = n
  BY <1>1, FS_Interval
<1>6. f \in Surjection(1..n, S)
  BY <1>4, <1>5, FS_Injection
<1> QED BY <1>3, <1>6 DEF Surjection

-----------------------------------------------------------------------------
(* The invariant holds initially.                                          *)

TypeCode == /\ main \in {"loop", "drain", "exited"}
            /\ task \in {"recv", "fill", "post", "sleep", "exited", "aborted"}
            /\ open \subseteq Keys
            /\ attempt \in 0..(RETRY_ATTEMPTS - 1)
            /\ metrics \in [push_success : Nat, push_failure : Nat, dropped : Nat]

TypeFlow == /\ outgoing \in Seq(AlertmanagerAlert)
            /\ queue \in Seq(AlertmanagerAlert)
            /\ batch \in Seq(AlertmanagerAlert)
            /\ accepted \in Seq(AlertmanagerAlert)
            /\ replies \in Seq({"2xx", "4xx", "error"})
            /\ Len(queue) <= DISPATCH_CHANNEL_CAPACITY /\ Len(batch) <= MAX_BATCH

TypeView == /\ am_open \subseteq Labels
            /\ \A r \in late : r.first \in Nat /\ r.wires \in Seq(AlertmanagerAlert)

TypeHistory == /\ offered \in Nat /\ settled \in Nat /\ seen \in Nat
               /\ lost \subseteq Nat /\ missed \subseteq Keys /\ stale \subseteq Keys

\* TypeOK in parts, before and after a step.
LEMMA TypeParts == TypeOK <=> TypeCode /\ TypeFlow /\ TypeView /\ TypeHistory
  BY WireLabels DEF TypeOK, TypeCode, TypeFlow, TypeView, TypeHistory

LEMMA TypePartsNext ==
  TypeOK' <=> TypeCode' /\ TypeFlow' /\ TypeView' /\ TypeHistory'
  BY WireLabels DEF TypeOK, TypeCode, TypeFlow, TypeView, TypeHistory

LEMMA Typed ==
  ASSUME TypeOK
  PROVE  /\ outgoing \in Seq(AlertmanagerAlert) /\ Len(outgoing) \in Nat
         /\ queue \in Seq(AlertmanagerAlert) /\ Len(queue) \in Nat
         /\ batch \in Seq(AlertmanagerAlert) /\ Len(batch) \in Nat
         /\ accepted \in Seq(AlertmanagerAlert) /\ Len(accepted) \in Nat
         /\ replies \in Seq({"2xx", "4xx", "error"}) /\ Len(replies) \in Nat
         /\ offered \in Nat /\ settled \in Nat /\ seen \in Nat
         /\ am_open \subseteq Labels
         /\ missed \subseteq Keys /\ stale \subseteq Keys
         /\ \A r \in late : /\ r.first \in Nat
                            /\ r.wires \in Seq(AlertmanagerAlert) /\ Len(r.wires) \in Nat
         /\ MAX_BATCH \in Nat \ {0} /\ RETRY_ATTEMPTS \in Nat \ {0}
         /\ DISPATCH_CHANNEL_CAPACITY \in Nat \ {0}
<1>1. /\ Len(outgoing) \in Nat /\ Len(queue) \in Nat /\ Len(batch) \in Nat
      /\ Len(accepted) \in Nat /\ Len(replies) \in Nat
  BY TypeParts, LenProperties DEF TypeFlow
<1>2. \A r \in late : /\ r.first \in Nat
                      /\ r.wires \in Seq(AlertmanagerAlert) /\ Len(r.wires) \in Nat
  BY TypeParts, LenProperties DEF TypeView
<1> QED BY <1>1, <1>2, TypeParts, DispatchAssumption DEF TypeFlow, TypeView, TypeHistory

LEMMA IInvInit == Init => IInv
<1> SUFFICES ASSUME Init PROVE IInv
  OBVIOUS
<1>1. TypeOK
  BY DispatchAssumption DEF Init, TypeOK
<1>2. Control /\ InOrder /\ Retries
  BY DispatchAssumption DEF Init, Control, InOrder, Retries, RetryDiscipline
<1>3. Losses
  BY DispatchAssumption, FS_EmptySet DEF Init, Losses, LossIsCounted
<1>4. PushedIsCurrent /\ LateRequests /\ ViewIsRecent
  BY DEF Init, PushedIsCurrent, LateRequests, ViewIsRecent, Delivered
<1> QED BY <1>1, <1>2, <1>3, <1>4 DEF IInv

-----------------------------------------------------------------------------
(* Steps that leave the history alone.                                     *)

LEMMA ViewKept ==
  ASSUME ViewIsRecent, UNCHANGED <<accepted, settled, lost, stale, am_open>>
  PROVE  ViewIsRecent'
<1>1. \A k \in Keys : Delivered(k)' = Delivered(k)
  BY DEF Delivered, KeyAt
<1> QED BY <1>1 DEF ViewIsRecent, KeyAt

LEMMA PushedKept ==
  ASSUME PushedIsCurrent, UNCHANGED <<open, outgoing, missed, accepted>>
  PROVE  PushedIsCurrent'
  BY DEF PushedIsCurrent, IsLatest, KeyAt

\* The POST under way is a request that may be left behind.
LEMMA RequestIsLate ==
  ASSUME IInv, task = "post"
  PROVE  /\ Request.first = settled + 1 /\ Request.wires = batch
         /\ LateRequest(Request)
<1>1. Request.first = settled + 1 /\ Request.wires = batch
  BY DEF Request
<1>2. /\ settled \in Nat /\ Len(batch) \in Nat /\ Len(queue) \in Nat
      /\ Len(accepted) \in Nat
      /\ settled + Len(batch) + Len(queue) = Len(accepted)
      /\ \A i \in 1..Len(batch) : batch[i] = accepted[settled + i]
  BY Typed DEF IInv, InOrder
<1>3. \A i \in 1..Len(batch) : batch[i] = accepted[Request.first - 1 + i]
  BY <1>1, <1>2
<1>4. /\ Request.first \in 1..(settled + 1)
      /\ Request.first + Len(batch) <= Len(accepted) + 1
      /\ \A q \in (1..settled) \ lost : q < Request.first + Len(batch)
  BY <1>1, <1>2
<1> QED BY <1>1, <1>3, <1>4 DEF LateRequest

\* What a step has to respect for the parts of the invariant that speak of the
\* history to be preserved.
LEMMA HistoryKept ==
  ASSUME IInv,
         UNCHANGED <<offered, accepted, settled, lost, missed, seen, stale>>,
         UNCHANGED <<am_open, open, outgoing, metrics>>,
         late' \subseteq late \/ (task = "post" /\ late' = late \cup {Request}),
         \/ task' \in {"post", "sleep", "aborted"} /\ UNCHANGED batch
         \/ task \notin {"post", "sleep", "aborted"}
  PROVE  Losses' /\ PushedIsCurrent' /\ LateRequests' /\ ViewIsRecent'
<1> USE DEF IInv
<1>1. Losses'
  BY DEF Losses, LossIsCounted
<1>2. PushedIsCurrent'
  BY PushedKept
<1>3. ViewIsRecent'
  BY ViewKept
<1>4. LateRequests'
  <2> SUFFICES ASSUME NEW r \in late' PROVE LateRequest(r)'
    BY DEF LateRequests
  <2>1. CASE r \in late
    BY <2>1 DEF LateRequests, LateRequest
  <2>2. CASE r = Request /\ task = "post" /\ late' = late \cup {Request}
    <3>1. r.first = settled + 1 /\ r.wires = batch /\ LateRequest(r)
      BY <2>2, RequestIsLate
    <3>2. task' \in {"post", "sleep", "aborted"} /\ batch' = batch
      BY <2>2
    <3> QED BY <3>1, <3>2 DEF LateRequest
  <2> QED BY <2>1, <2>2
<1> QED BY <1>1, <1>2, <1>3, <1>4

LEMMA IInvMain ==
  ASSUME IInv, Signal \/ DrainDone \/ GraceExpired
  PROVE  IInv'
<1> USE DEF Signal, DrainDone, GraceExpired, amVars, historyVars
<1>1. TypeOK'
  <2>1. \A r \in late' : r.first \in Nat /\ r.wires \in Seq(AlertmanagerAlert)
    <3>1. \A r \in late : r.first \in Nat /\ r.wires \in Seq(AlertmanagerAlert)
      BY Typed DEF IInv
    <3>2. Request.first \in Nat /\ Request.wires \in Seq(AlertmanagerAlert)
      BY Typed DEF IInv, Request
    <3> QED BY <3>1, <3>2
  <2> QED BY <2>1 DEF IInv, TypeOK
<1>2. Control'
  BY DEF IInv, TypeOK, Control
<1>3. InOrder' /\ Retries'
  BY DEF IInv, InOrder, Retries, RetryDiscipline, TypeOK
<1>4. Losses' /\ PushedIsCurrent' /\ LateRequests' /\ ViewIsRecent'
  <2>1. late' \subseteq late \/ (task = "post" /\ late' = late \cup {Request})
    OBVIOUS
  <2>2. \/ task' \in {"post", "sleep", "aborted"} /\ UNCHANGED batch
        \/ task \notin {"post", "sleep", "aborted"}
    BY DEF IInv, TypeOK, Control
  <2> QED BY <2>1, <2>2, HistoryKept
<1> QED BY <1>1, <1>2, <1>3, <1>4 DEF IInv

\* Taking an alert off the channel.
LEMMA TakeOne ==
  ASSUME IInv, queue # <<>>
  PROVE  /\ Head(queue) \in AlertmanagerAlert /\ Tail(queue) \in Seq(AlertmanagerAlert)
         /\ Len(Tail(queue)) = Len(queue) - 1 /\ Len(queue) > 0
         /\ Head(queue) = accepted[settled + Len(batch) + 1]
         /\ \A i \in 1..Len(Tail(queue)) :
              Tail(queue)[i] = accepted[settled + Len(batch) + 1 + i]
<1>1. queue \in Seq(AlertmanagerAlert) /\ Len(batch) \in Nat /\ settled \in Nat
  BY Typed DEF IInv
<1>2. /\ Head(queue) \in AlertmanagerAlert /\ Tail(queue) \in Seq(AlertmanagerAlert)
      /\ Len(Tail(queue)) = Len(queue) - 1 /\ Len(queue) > 0
      /\ Head(queue) = queue[1]
      /\ \A i \in 1..Len(Tail(queue)) : Tail(queue)[i] = queue[i + 1]
  BY <1>1
<1>3. \A i \in 1..Len(queue) : queue[i] = accepted[settled + Len(batch) + i]
  BY DEF IInv, InOrder
<1>4. \A i \in 1..Len(Tail(queue)) :
        /\ i + 1 \in 1..Len(queue)
        /\ settled + Len(batch) + 1 + i = settled + Len(batch) + (i + 1)
  BY <1>1, <1>2
<1> QED BY <1>1, <1>2, <1>3, <1>4

LEMMA IInvRecv ==
  ASSUME IInv, Recv
  PROVE  IInv'
<1> USE DEF Recv, amVars
<1>1. /\ batch = <<>> /\ Len(batch) = 0 /\ settled \in Nat
      /\ batch' = <<Head(queue)>> /\ Len(batch') = 1
      /\ batch' \in Seq(AlertmanagerAlert) /\ MAX_BATCH >= 1
  BY TakeOne, Typed DEF IInv, Control
<1>2. TypeOK'
  <2>1. TypeCode' /\ TypeView' /\ TypeHistory'
    BY TypeParts DEF IInv, TypeCode, TypeView, TypeHistory
  <2>2. TypeFlow'
    BY <1>1, TakeOne, TypeParts, EmptySeq, Typed DEF IInv, TypeFlow
  <2> QED BY <2>1, <2>2, TypePartsNext
<1>3. Control'
  BY <1>1 DEF IInv, Control
<1>4. InOrder'
  <2>1. settled' + Len(batch') + Len(queue') = Len(accepted')
    BY <1>1, TakeOne, Typed DEF IInv, InOrder
  <2>2. \A i \in 1..Len(batch') : batch'[i] = accepted'[settled' + i]
    BY <1>1, TakeOne
  <2>3. \A i \in 1..Len(queue') : queue'[i] = accepted'[settled' + Len(batch') + i]
    BY <1>1, TakeOne
  <2> QED BY <2>1, <2>2, <2>3 DEF InOrder
<1>5. Retries'
  BY Typed DEF IInv, Retries, RetryDiscipline
<1>6. Losses' /\ PushedIsCurrent' /\ LateRequests' /\ ViewIsRecent'
  BY HistoryKept
<1> QED BY <1>2, <1>3, <1>4, <1>5, <1>6 DEF IInv

LEMMA IInvTryRecv ==
  ASSUME IInv, TryRecv
  PROVE  IInv'
<1> USE DEF TryRecv, MoreToBatch, amVars, historyVars
<1>1. /\ batch \in Seq(AlertmanagerAlert) /\ Len(batch) \in Nat /\ settled \in Nat
      /\ Len(batch) < MAX_BATCH /\ MAX_BATCH \in Nat
  BY Typed DEF IInv
<1>2. /\ batch' \in Seq(AlertmanagerAlert) /\ batch' # <<>>
      /\ Len(batch') = Len(batch) + 1
      /\ \A i \in 1..Len(batch) : batch'[i] = batch[i]
      /\ batch'[Len(batch) + 1] = Head(queue)
  BY <1>1, TakeOne, AppendProperties
<1>3. TypeOK'
  <2>1. TypeCode' /\ TypeView' /\ TypeHistory'
    BY TypeParts DEF IInv, TypeCode, TypeView, TypeHistory
  <2>2. TypeFlow'
    BY <1>1, <1>2, TakeOne, TypeParts, EmptySeq, Typed DEF IInv, TypeFlow
  <2> QED BY <2>1, <2>2, TypePartsNext
<1>4. Control'
  BY <1>2 DEF IInv, Control
<1>5. InOrder'
  <2>1. settled' + Len(batch') + Len(queue') = Len(accepted')
    BY <1>1, <1>2, TakeOne, Typed DEF IInv, InOrder
  <2>2. \A i \in 1..Len(batch) : batch[i] = accepted[settled + i]
    BY DEF IInv, InOrder
  <2>3. \A i \in 1..Len(batch') : batch'[i] = accepted'[settled' + i]
    <3> SUFFICES ASSUME NEW i \in 1..Len(batch') PROVE batch'[i] = accepted[settled + i]
      OBVIOUS
    <3>1. i \in 1..Len(batch) \/ i = Len(batch) + 1
      BY <1>1, <1>2
    <3>2. CASE i \in 1..Len(batch)
      BY <3>2, <1>2, <2>2
    <3>3. CASE i = Len(batch) + 1
      <4>1. settled + i = settled + Len(batch) + 1
        BY <3>3, <1>1
      <4> QED BY <3>3, <4>1, <1>2, TakeOne
    <3> QED BY <3>1, <3>2, <3>3
  <2>4. \A i \in 1..Len(queue') : queue'[i] = accepted'[settled' + Len(batch') + i]
    BY <1>1, <1>2, TakeOne
  <2> QED BY <2>1, <2>3, <2>4 DEF InOrder
<1>6. Retries'
  BY Typed DEF IInv, Retries, RetryDiscipline
<1>7. Losses' /\ PushedIsCurrent' /\ LateRequests' /\ ViewIsRecent'
  BY HistoryKept
<1> QED BY <1>3, <1>4, <1>5, <1>6, <1>7 DEF IInv

LEMMA IInvQuiet ==
  ASSUME IInv, BatchReady \/ Backoff \/ Exit
  PROVE  IInv'
<1> USE DEF BatchReady, Backoff, Exit, MoreToBatch, amVars, historyVars
<1>1. TypeOK'
  <2>1. TypeCode'
    BY TypeParts, DispatchAssumption DEF IInv, TypeCode
  <2>2. TypeFlow' /\ TypeView' /\ TypeHistory'
    BY TypeParts DEF IInv, TypeFlow, TypeView, TypeHistory
  <2> QED BY <2>1, <2>2, TypePartsNext
<1>2. Control'
  BY Typed DEF IInv, Control
<1>3. InOrder'
  BY DEF IInv, InOrder
<1>4. Retries'
  BY Typed DEF IInv, Retries, RetryDiscipline
<1>5. Losses' /\ PushedIsCurrent' /\ LateRequests' /\ ViewIsRecent'
  BY HistoryKept
<1> QED BY <1>1, <1>2, <1>3, <1>4, <1>5 DEF IInv

-----------------------------------------------------------------------------
(* The main loop's steps.                                                  *)

LEMMA FinitelyManyAlerts ==
  ASSUME NEW K \in SUBSET Keys, NEW kind \in AlertKinds
  PROVE  LET W == {alert_to_wire(Alert(k, kind)) : k \in K}
         IN  IsFiniteSet(W) /\ W \subseteq AlertmanagerAlert
<1> DEFINE W == {alert_to_wire(Alert(k, kind)) : k \in K}
           f == [k \in K |-> alert_to_wire(Alert(k, kind))]
<1>1. IsFiniteSet(K)
  BY DispatchAssumption, FS_Subset
<1>2. f \in Surjection(K, W)
  BY DEF Surjection
<1>3. IsFiniteSet(W)
  BY <1>1, <1>2, FS_Surjection
<1>4. W \subseteq AlertmanagerAlert
  BY DEF AlertmanagerAlert
<1> QED BY <1>3, <1>4

LEMMA WireOf ==
  \A k, kind : /\ alert_to_wire(Alert(k, kind)).alert.key = k
               /\ alert_to_wire(Alert(k, kind)).ends_at <=> kind = "Resolved"
  BY DEF alert_to_wire, Alert

\* A tick's alerts say what its manager now thinks, and mention every key it
\* changed its mind about.
LEMMA TickEffect ==
  ASSUME TypeOK, Tick
  PROVE  /\ outgoing' \in Seq(AlertmanagerAlert) /\ open' \subseteq Keys
         /\ \A i \in 1..Len(outgoing') :
              outgoing'[i].ends_at <=> outgoing'[i].alert.key \notin open'
         /\ \A k \in Keys \ KeysOf(outgoing') : k \in open' <=> k \in open
<1>1. open \subseteq Keys
  BY TypeParts DEF TypeCode
<1>2. PICK fired \in SUBSET (Keys \ open), resolved \in SUBSET open :
        \E beats \in SUBSET (open \ resolved) :
        \E ts \in SetToSeqs({alert_to_wire(Alert(k, "Fired")) : k \in fired} \cup
                            {alert_to_wire(Alert(k, "Resolved")) : k \in resolved}),
           hs \in SetToSeqs({alert_to_wire(Alert(k, "Heartbeat")) : k \in beats}) :
             /\ outgoing' = dispatch_tick_alerts(ts, hs)
             /\ open' = (open \cup fired) \ resolved
  BY DEF Tick
<1> DEFINE Fs == {alert_to_wire(Alert(k, "Fired")) : k \in fired}
           Rs == {alert_to_wire(Alert(k, "Resolved")) : k \in resolved}
<1>3. PICK beats \in SUBSET (open \ resolved) :
        \E ts \in SetToSeqs(Fs \cup Rs),
           hs \in SetToSeqs({alert_to_wire(Alert(k, "Heartbeat")) : k \in beats}) :
             /\ outgoing' = dispatch_tick_alerts(ts, hs)
             /\ open' = (open \cup fired) \ resolved
  BY <1>2
<1> DEFINE Hs == {alert_to_wire(Alert(k, "Heartbeat")) : k \in beats}
<1>4. PICK ts \in SetToSeqs(Fs \cup Rs), hs \in SetToSeqs(Hs) :
             /\ outgoing' = dispatch_tick_alerts(ts, hs)
             /\ open' = (open \cup fired) \ resolved
  BY <1>3
<1>5. /\ IsFiniteSet(Fs) /\ Fs \subseteq AlertmanagerAlert
      /\ IsFiniteSet(Rs) /\ Rs \subseteq AlertmanagerAlert
      /\ IsFiniteSet(Hs) /\ Hs \subseteq AlertmanagerAlert
  BY <1>1, FinitelyManyAlerts DEF AlertKinds
<1>6. IsFiniteSet(Fs \cup Rs)
  BY <1>5, FS_Union
<1>7. /\ ts \in Seq(Fs \cup Rs) /\ \A x \in Fs \cup Rs : \E i \in 1..Len(ts) : ts[i] = x
      /\ hs \in Seq(Hs)
  <2>1. ts \in Seq(Fs \cup Rs) /\ \A x \in Fs \cup Rs : \E i \in 1..Len(ts) : ts[i] = x
    <3> DEFINE U == Fs \cup Rs
    <3>1. IsFiniteSet(U) /\ ts \in SetToSeqs(U)
      BY <1>6
    <3> HIDE DEF U
    <3>2. ts \in Seq(U) /\ \A x \in U : \E i \in 1..Len(ts) : ts[i] = x
      BY <3>1, Enumeration
    <3> QED BY <3>2 DEF U
  <2>2. hs \in Seq(Hs)
    <3> HIDE DEF Hs
    <3> QED BY <1>5, Enumeration
  <2> QED BY <2>1, <2>2
<1>8. /\ ts \in Seq(Fs \cup Rs \cup Hs) /\ hs \in Seq(Fs \cup Rs \cup Hs)
      /\ Len(ts) \in Nat /\ Len(hs) \in Nat
  BY <1>7, SeqMonotonic, LenProperties
<1>9. /\ outgoing' \in Seq(Fs \cup Rs \cup Hs)
      /\ Len(outgoing') = Len(ts) + Len(hs)
      /\ \A i \in 1..Len(ts) : outgoing'[i] = ts[i]
  BY <1>4, <1>8, ConcatProperties DEF dispatch_tick_alerts
<1>10. /\ \A w \in Fs : ~w.ends_at /\ w.alert.key \in fired
       /\ \A w \in Rs : w.ends_at /\ w.alert.key \in resolved
       /\ \A w \in Hs : ~w.ends_at /\ w.alert.key \in beats
  BY WireOf DEF AlertKinds
<1>11. \A w \in Fs \cup Rs \cup Hs : w.ends_at <=> w.alert.key \notin open'
  <2> HIDE DEF Fs, Rs, Hs
  <2>1. /\ \A k \in fired : k \in open'
        /\ \A k \in resolved : k \notin open'
        /\ \A k \in beats : k \in open'
    BY <1>4
  <2> QED BY <1>10, <2>1
<1>12. \A i \in 1..Len(outgoing') : outgoing'[i] \in Fs \cup Rs \cup Hs
  BY <1>9, ElementOfSeq
<1>13. outgoing' \in Seq(AlertmanagerAlert)
  BY <1>5, <1>9, SeqMonotonic
<1>14. ASSUME NEW k \in fired \cup resolved PROVE k \in KeysOf(outgoing')
  <2>1. PICK x \in Fs \cup Rs : x.alert.key = k
    <3>1. CASE k \in fired
      <4>1. alert_to_wire(Alert(k, "Fired")) \in Fs
        BY <3>1
      <4> QED BY <4>1, WireOf DEF AlertKinds
    <3>2. CASE k \in resolved
      <4>1. alert_to_wire(Alert(k, "Resolved")) \in Rs
        BY <3>2
      <4> QED BY <4>1, WireOf DEF AlertKinds
    <3> QED BY <3>1, <3>2
  <2>2. PICK i \in 1..Len(ts) : ts[i] = x
    BY <1>7
  <2>3. i \in DOMAIN outgoing' /\ outgoing'[i] = x
    BY <1>8, <1>9, <2>2, LenProperties
  <2> QED BY <2>1, <2>3 DEF KeysOf
<1> QED BY <1>1, <1>4, <1>11, <1>12, <1>13, <1>14

LEMMA IInvTick ==
  ASSUME IInv, Tick
  PROVE  IInv'
<1> USE DEF amVars
<1>1. /\ outgoing' \in Seq(AlertmanagerAlert) /\ open' \subseteq Keys
      /\ \A i \in 1..Len(outgoing') :
           outgoing'[i].ends_at <=> outgoing'[i].alert.key \notin open'
      /\ \A k \in Keys \ KeysOf(outgoing') : k \in open' <=> k \in open
  BY TickEffect DEF IInv
<1>2. /\ main = "loop" /\ outgoing = <<>> /\ Len(outgoing) = 0
      /\ offered' = offered + Len(outgoing') /\ Len(outgoing') \in Nat
      /\ UNCHANGED <<main, queue, task, batch, attempt, metrics, am_open, late>>
      /\ UNCHANGED <<accepted, settled, lost, missed, replies, seen, stale>>
  BY <1>1, LenProperties DEF Tick
<1>3. TypeOK'
  <2>1. TypeCode' /\ TypeView'
    BY <1>1, <1>2, TypeParts DEF IInv, TypeCode, TypeView
  <2>2. TypeFlow' /\ TypeHistory'
    BY <1>1, <1>2, TypeParts, Typed DEF IInv, TypeFlow, TypeHistory
  <2> QED BY <2>1, <2>2, TypePartsNext
<1>4. Control' /\ InOrder' /\ Retries'
  BY <1>2 DEF IInv, Control, InOrder, Retries, RetryDiscipline
<1>5. Losses'
  <2>1. offered' = Len(outgoing') + Len(accepted') + metrics'.dropped
    BY <1>2, Typed, TypeParts DEF IInv, Losses, LossIsCounted, TypeCode
  <2> QED BY <1>2, <2>1 DEF IInv, Losses, LossIsCounted
<1>6. PushedIsCurrent'
  <2>1. KeysOf(outgoing) = {}
    BY <1>2 DEF KeysOf
  <2>2. \A k, p : IsLatest(p, k)' = IsLatest(p, k)
    BY <1>2 DEF IsLatest, KeyAt
  <2> QED BY <1>1, <1>2, <2>1, <2>2 DEF IInv, PushedIsCurrent
<1>7. LateRequests'
  BY <1>2 DEF IInv, LateRequests, LateRequest
<1>8. ViewIsRecent'
  BY <1>2, ViewKept DEF IInv
<1> QED BY <1>3, <1>4, <1>5, <1>6, <1>7, <1>8 DEF IInv

\* What a push takes off the tick's alerts, and what is left of them.
LEMMA PushOne ==
  ASSUME IInv, push
  PROVE  /\ Head(outgoing) \in AlertmanagerAlert /\ Head(outgoing).alert.key \in Keys
         /\ outgoing' \in Seq(AlertmanagerAlert) /\ Len(outgoing') = Len(outgoing) - 1
         /\ Head(outgoing).ends_at <=> Head(outgoing).alert.key \notin open
         /\ \A i \in 1..Len(outgoing') :
              outgoing'[i].ends_at <=> outgoing'[i].alert.key \notin open
         /\ KeysOf(outgoing) \subseteq KeysOf(outgoing') \cup {Head(outgoing).alert.key}
         /\ ~Closed /\ main = "loop"
         /\ UNCHANGED <<main, open, task, batch, attempt, am_open, late>>
         /\ UNCHANGED <<offered, settled, lost, replies, seen, stale>>
<1>1. outgoing \in Seq(AlertmanagerAlert) /\ outgoing # <<>> /\ outgoing' = Tail(outgoing)
  BY Typed DEF IInv, push
<1>2. /\ Head(outgoing) \in AlertmanagerAlert
      /\ outgoing' \in Seq(AlertmanagerAlert)
      /\ Len(outgoing) \in Nat /\ Len(outgoing') = Len(outgoing) - 1 /\ Len(outgoing) > 0
      /\ Head(outgoing) = outgoing[1]
      /\ \A i \in 1..Len(outgoing') : outgoing'[i] = outgoing[i + 1]
  BY <1>1
<1>3. \A i \in 1..Len(outgoing) :
        outgoing[i].ends_at <=> outgoing[i].alert.key \notin open
  BY DEF IInv, PushedIsCurrent
<1>4. Head(outgoing).ends_at <=> Head(outgoing).alert.key \notin open
  BY <1>2, <1>3
<1>5. ASSUME NEW i \in 1..Len(outgoing')
      PROVE  outgoing'[i].ends_at <=> outgoing'[i].alert.key \notin open
  <2>1. i + 1 \in 1..Len(outgoing)
    BY <1>2
  <2> QED BY <1>2, <1>3, <2>1
<1>6. ASSUME NEW k \in KeysOf(outgoing), k # Head(outgoing).alert.key
      PROVE  k \in KeysOf(outgoing')
  <2>1. PICK i \in 1..Len(outgoing) : outgoing[i].alert.key = k
    BY <1>1 DEF KeysOf
  <2>2. i - 1 \in 1..Len(outgoing') /\ outgoing'[i - 1] = outgoing[i]
    BY <1>2, <1>6, <2>1
  <2>3. i - 1 \in DOMAIN outgoing'
    BY <1>2, <2>2
  <2> QED BY <2>1, <2>2, <2>3 DEF KeysOf
<1>7. ~Closed /\ main = "loop"
  BY DEF IInv, Control, push, Closed
<1>8. Head(outgoing).alert.key \in Keys
  BY <1>2, Wires
<1>9. /\ UNCHANGED <<main, open, task, batch, attempt, am_open, late>>
      /\ UNCHANGED <<offered, settled, lost, replies, seen, stale>>
  BY DEF push, amVars
<1> QED BY <1>2, <1>4, <1>5, <1>6, <1>7, <1>8, <1>9

LEMMA IInvRefuse ==
  ASSUME IInv, push, Refuse(Head(outgoing), Counted)
  PROVE  IInv'
<1> DEFINE w == Head(outgoing)
<1>1. /\ metrics' = [metrics EXCEPT !.dropped = @ + 1]
      /\ metrics \in [push_success : Nat, push_failure : Nat, dropped : Nat]
      /\ missed' = missed \cup {w.alert.key}
      /\ UNCHANGED <<queue, accepted>>
  BY TypeParts DEF IInv, TypeCode, Refuse, Counted
<1>2. /\ metrics'.dropped = metrics.dropped + 1 /\ metrics.dropped \in Nat
      /\ metrics'.push_success = metrics.push_success
      /\ metrics'.push_failure = metrics.push_failure
      /\ metrics' \in [push_success : Nat, push_failure : Nat, dropped : Nat]
  BY <1>1
<1>3. TypeOK'
  <2>1. TypeCode' /\ TypeView'
    BY <1>1, <1>2, PushOne, TypeParts DEF IInv, TypeCode, TypeView
  <2>2. TypeFlow' /\ TypeHistory'
    BY <1>1, PushOne, TypeParts DEF IInv, TypeFlow, TypeHistory
  <2> QED BY <2>1, <2>2, TypePartsNext
<1>4. Control' /\ InOrder' /\ Retries'
  BY <1>1, PushOne DEF IInv, Control, InOrder, Retries, RetryDiscipline, Closed
<1>5. Losses'
  <2>1. /\ offered' = offered /\ lost' = lost /\ settled' = settled
        /\ Len(outgoing') = Len(outgoing) - 1
        /\ Len(outgoing) \in Nat /\ Len(accepted) \in Nat
    BY PushOne, Typed DEF IInv
  <2>2. offered = Len(outgoing) + Len(accepted) + metrics.dropped
    BY DEF IInv, Losses, LossIsCounted
  <2>3. offered' = Len(outgoing') + Len(accepted') + metrics'.dropped
    BY <1>1, <1>2, <2>1, <2>2
  <2>4. metrics'.dropped > 0
    BY <1>2
  <2> QED BY <1>2, <2>1, <2>3, <2>4 DEF IInv, Losses, LossIsCounted
<1>6. PushedIsCurrent'
  <2>1. \A k, p : IsLatest(p, k)' = IsLatest(p, k)
    BY <1>1 DEF IsLatest, KeyAt
  <2> QED BY <1>1, <2>1, PushOne DEF IInv, PushedIsCurrent
<1>7. LateRequests'
  BY <1>1, PushOne DEF IInv, LateRequests, LateRequest
<1>8. ViewIsRecent'
  BY <1>1, PushOne, ViewKept DEF IInv
<1> QED BY <1>3, <1>4, <1>5, <1>6, <1>7, <1>8 DEF IInv

LEMMA IInvAccept ==
  ASSUME IInv, push, Len(queue) < DISPATCH_CHANNEL_CAPACITY, Accept(Head(outgoing))
  PROVE  IInv'
<1> DEFINE w == Head(outgoing)
<1>1. /\ queue' \in Seq(AlertmanagerAlert) /\ Len(queue') = Len(queue) + 1
      /\ \A i \in 1..Len(queue) : queue'[i] = queue[i]
      /\ queue'[Len(queue) + 1] = w
  BY PushOne, AppendProperties, Typed DEF IInv, Accept
<1>2. /\ accepted' \in Seq(AlertmanagerAlert) /\ Len(accepted') = Len(accepted) + 1
      /\ \A i \in 1..Len(accepted) : accepted'[i] = accepted[i]
      /\ accepted'[Len(accepted) + 1] = w
  BY PushOne, AppendProperties, Typed DEF IInv, Accept
<1>3. missed' = missed \ {w.alert.key} /\ metrics' = metrics
  BY DEF Accept
<1>4. /\ Len(queue) \in Nat /\ Len(accepted) \in Nat /\ Len(batch) \in Nat /\ settled \in Nat
      /\ settled + Len(batch) + Len(queue) = Len(accepted)
      /\ DISPATCH_CHANNEL_CAPACITY \in Nat
  BY Typed DEF IInv, InOrder
<1>5. batch' = batch /\ settled' = settled /\ lost' = lost /\ seen' = seen /\ task' = task
  BY PushOne
<1>6. TypeOK'
  <2>1. TypeCode' /\ TypeView'
    BY <1>3, PushOne, TypeParts DEF IInv, TypeCode, TypeView
  <2>2. TypeFlow' /\ TypeHistory'
    BY <1>1, <1>2, <1>3, <1>4, PushOne, TypeParts DEF IInv, TypeFlow, TypeHistory
  <2> QED BY <2>1, <2>2, TypePartsNext
<1>7. Control' /\ Retries'
  BY PushOne DEF IInv, Control, Retries, RetryDiscipline, Closed
<1>8. InOrder'
  <2>1. settled' + Len(batch') + Len(queue') = Len(accepted')
    <3>1. Len(queue') = Len(queue) + 1 /\ Len(accepted') = Len(accepted) + 1
      BY <1>1, <1>2
    <3>2. Len(batch') = Len(batch) /\ settled' = settled
      BY <1>5
    <3> QED BY <1>4, <3>1, <3>2
  <2>2. \A i \in 1..Len(batch') : batch'[i] = accepted'[settled' + i]
    <3>1. \A i \in 1..Len(batch) : settled + i \in 1..Len(accepted)
      BY <1>4
    <3> QED BY <1>2, <1>5, <3>1 DEF IInv, InOrder
  <2>3. ASSUME NEW i \in 1..Len(queue')
        PROVE  queue'[i] = accepted'[settled' + Len(batch') + i]
    <3>1. CASE i \in 1..Len(queue)
      <4>1. settled + Len(batch) + i \in 1..Len(accepted)
        BY <3>1, <1>4
      <4> QED BY <1>1, <1>2, <3>1, <4>1, PushOne DEF IInv, InOrder
    <3>2. CASE i = Len(queue) + 1
      <4>1. settled + Len(batch) + i = Len(accepted) + 1
        BY <3>2, <1>4
      <4> QED BY <1>1, <1>2, <3>2, <4>1, PushOne
    <3> QED BY <1>1, <1>4, <3>1, <3>2
  <2> QED BY <2>1, <2>2, <2>3 DEF InOrder
<1>9. Losses'
  <2>1. missed' # {} => missed # {}
    BY <1>3
  <2>2. metrics.dropped \in Nat
    BY TypeParts DEF IInv, TypeCode
  <2>4. offered' = offered /\ Len(outgoing') = Len(outgoing) - 1 /\ Len(outgoing) \in Nat
    BY PushOne, Typed DEF IInv
  <2>5. offered = Len(outgoing) + Len(accepted) + metrics.dropped
    BY DEF IInv, Losses, LossIsCounted
  <2>3. offered' = Len(outgoing') + Len(accepted') + metrics'.dropped
    BY <1>2, <1>3, <1>4, <2>2, <2>4, <2>5
  <2> QED BY <1>3, <2>1, <2>3, PushOne DEF IInv, Losses, LossIsCounted
<1>10. PushedIsCurrent'
  <2>1. ASSUME NEW k \in Keys \ (KeysOf(outgoing') \cup missed'),
               NEW p \in 1..Len(accepted'), IsLatest(p, k)'
        PROVE  k \in open' <=> ~accepted'[p].ends_at
    <3>1. CASE k = w.alert.key
      <4>1. Len(accepted) + 1 \in 1..Len(accepted')
        BY <1>2, <1>4
      <4>2. p = Len(accepted) + 1
        BY <1>2, <1>4, <2>1, <3>1, <4>1 DEF IsLatest, KeyAt
      <4> QED BY <1>2, <3>1, <4>2, PushOne
    <3>2. CASE k # w.alert.key
      <4>1. k \notin KeysOf(outgoing) /\ k \notin missed
        BY <1>3, <3>2, PushOne
      <4>2. p \in 1..Len(accepted)
        BY <1>2, <1>4, <2>1, <3>2 DEF IsLatest, KeyAt
      <4>3. IsLatest(p, k)
        BY <1>2, <1>4, <2>1, <4>2 DEF IsLatest, KeyAt
      <4> QED BY <1>2, <4>1, <4>2, <4>3, PushOne DEF IInv, PushedIsCurrent
    <3> QED BY <3>1, <3>2
  <2> QED BY <2>1, PushOne DEF PushedIsCurrent
<1>11. LateRequests'
  <2> SUFFICES ASSUME NEW r \in late PROVE LateRequest(r)'
    BY PushOne DEF IInv, LateRequests
  <2>1. LateRequest(r) /\ r.first \in Nat /\ Len(r.wires) \in Nat
    BY Typed DEF IInv, LateRequests
  <2>2. \A i \in 1..Len(r.wires) : r.first - 1 + i \in 1..Len(accepted)
    <3>1. r.first >= 1 /\ r.first + Len(r.wires) <= Len(accepted) + 1
      BY <1>4, <2>1 DEF LateRequest
    <3> QED BY <1>4, <2>1, <3>1
  <2>3. \A i \in 1..Len(r.wires) : r.wires[i] = accepted'[r.first - 1 + i]
    BY <1>2, <2>1, <2>2 DEF LateRequest
  <2>4. r.first + Len(r.wires) <= Len(accepted') + 1
    BY <1>2, <1>4, <2>1 DEF LateRequest
  <2> QED BY <1>5, <2>1, <2>3, <2>4 DEF LateRequest
<1>12. ViewIsRecent'
  <2>1. \A k \in Keys : Delivered(k)' = Delivered(k)
    <3>1. \A q \in 1..settled : q \in 1..Len(accepted)
      BY <1>4
    <3> QED BY <1>2, <3>1, PushOne DEF Delivered, KeyAt
  <2> SUFFICES ASSUME NEW k \in Keys \ stale, Delivered(k) # {}
               PROVE  \E p \in 1..Len(accepted') :
                         /\ KeyAt(p)' = k
                         /\ \A q \in Delivered(k) : q <= p
                         /\ <<k>> \in am_open' <=> ~accepted'[p].ends_at
    BY <2>1, PushOne DEF ViewIsRecent
  <2>2. PICK p \in 1..Len(accepted) : /\ KeyAt(p) = k
                                      /\ \A q \in Delivered(k) : q <= p
                                      /\ <<k>> \in am_open <=> ~accepted[p].ends_at
    BY DEF IInv, ViewIsRecent
  <2>3. p \in 1..Len(accepted') /\ accepted'[p] = accepted[p] /\ KeyAt(p)' = KeyAt(p)
    BY <1>2, <1>4, <2>2 DEF KeyAt
  <2> QED BY <2>2, <2>3, PushOne
<1> QED BY <1>6, <1>7, <1>8, <1>9, <1>10, <1>11, <1>12 DEF IInv

LEMMA IInvPush ==
  ASSUME IInv, push
  PROVE  IInv'
<1>1. CASE Len(queue) < DISPATCH_CHANNEL_CAPACITY
  BY <1>1, PushOne, IInvAccept DEF push, try_send
<1>2. CASE ~(Len(queue) < DISPATCH_CHANNEL_CAPACITY)
  BY <1>2, PushOne, IInvRefuse DEF push, try_send
<1> QED BY <1>1, <1>2

-----------------------------------------------------------------------------
(* The answers to a POST.                                                  *)

\* Where the dispatcher is when a POST ends.
LEMMA ReplyEffect ==
  ASSUME IInv, NEW r \in {"2xx", "4xx", "error"}, Reply(r)
  PROVE  /\ task = "post" /\ settled \in Nat /\ Len(batch) \in 1..MAX_BATCH
         /\ settled + Len(batch) <= Len(accepted)
         /\ replies' \in Seq({"2xx", "4xx", "error"})
         /\ attempt \in 0..(RETRY_ATTEMPTS - 1)
         /\ Len(replies') = attempt + 1
         /\ \A i \in 1..attempt : replies'[i] = "error"
         /\ replies'[attempt + 1] = r
         /\ UNCHANGED <<main, open, outgoing, queue, offered, accepted, missed>>
<1>1. /\ task = "post" /\ replies' = Append(replies, r)
      /\ UNCHANGED <<main, open, outgoing, queue, offered, accepted, missed>>
  BY DEF Reply
<1>2. /\ Len(replies) = attempt /\ \A i \in 1..Len(replies) : replies[i] = "error"
      /\ batch # <<>>
  BY <1>1 DEF IInv, Retries, Control
<1>3. attempt \in 0..(RETRY_ATTEMPTS - 1) /\ Len(batch) <= MAX_BATCH
  BY TypeParts DEF IInv, TypeCode, TypeFlow
<1>4. /\ replies' \in Seq({"2xx", "4xx", "error"})
      /\ Len(replies') = attempt + 1
      /\ \A i \in 1..attempt : replies'[i] = "error"
      /\ replies'[attempt + 1] = r
  BY <1>1, <1>2, Typed, AppendProperties DEF IInv
<1>5. Len(batch) \in 1..MAX_BATCH
  BY <1>2, <1>3, Typed, EmptySeq DEF IInv
<1>6. settled + Len(batch) <= Len(accepted) /\ settled \in Nat
  BY Typed DEF IInv, InOrder
<1> QED BY <1>1, <1>3, <1>4, <1>5, <1>6

\* One more batch in the accounts: of at most m alerts, it adds n of them to one
\* of the two sides.
LEMMA OneMoreBatch ==
  ASSUME NEW a \in Nat, NEW m \in Nat, NEW n \in Nat, n <= m,
         NEW s \in Int, s <= a * m
  PROVE  s + n <= (a + 1) * m
<1>1. (a + 1) * m = a * m + m
  OBVIOUS
<1> DEFINE am == a * m
<1>2. am \in Nat /\ s <= am /\ (a + 1) * m = am + m
  BY <1>1
<1> HIDE DEF am
<1> QED BY <1>2

\* The accounts once a batch is done with.
LEMMA SettleLosses ==
  ASSUME IInv, NEW success \in BOOLEAN, Settle(success),
         Len(batch) \in 1..MAX_BATCH,
         UNCHANGED <<outgoing, offered, accepted, missed>>
  PROVE  /\ Losses'
         /\ metrics' \in [push_success : Nat, push_failure : Nat, dropped : Nat]
<1> DEFINE I == (settled + 1)..(settled + Len(batch))
<1>1. /\ settled \in Nat /\ MAX_BATCH \in Nat /\ Len(batch) \in Nat
      /\ metrics \in [push_success : Nat, push_failure : Nat, dropped : Nat]
  BY Typed, TypeParts DEF IInv, TypeCode
<1>2. /\ offered = Len(outgoing) + Len(accepted) + metrics.dropped
      /\ missed # {} => metrics.dropped > 0
      /\ lost = {} <=> metrics.push_failure = 0
      /\ Cardinality(lost) <= metrics.push_failure * MAX_BATCH
      /\ settled - Cardinality(lost) <= metrics.push_success * MAX_BATCH
      /\ lost \subseteq 1..settled
  BY DEF IInv, Losses, LossIsCounted
<1>3. IsFiniteSet(lost) /\ Cardinality(lost) \in Nat
  <2>1. IsFiniteSet(1..settled)
    BY <1>1, FS_Interval
  <2>2. IsFiniteSet(lost)
    BY <1>2, <2>1, FS_Subset
  <2> QED BY <2>2, FS_CardinalityType
<1>4. metrics'.dropped = metrics.dropped /\ settled' = settled + Len(batch)
  BY <1>1 DEF Settle
<1>5. CASE success
  <2>1. /\ metrics'.push_success = metrics.push_success + 1
        /\ metrics'.push_failure = metrics.push_failure
        /\ metrics' \in [push_success : Nat, push_failure : Nat, dropped : Nat]
        /\ lost' = lost
    BY <1>1, <1>5 DEF Settle
  <2>2. lost' \subseteq 1..settled'
    BY <1>1, <1>2, <1>4, <2>1
  <2>3. (settled - Cardinality(lost)) + Len(batch) <= (metrics.push_success + 1) * MAX_BATCH
    BY <1>1, <1>2, <1>3, OneMoreBatch
  <2>4. settled' - Cardinality(lost') <= metrics'.push_success * MAX_BATCH
    <3>1. settled' - Cardinality(lost') = (settled - Cardinality(lost)) + Len(batch)
      BY <1>1, <1>3, <1>4, <2>1
    <3> QED BY <2>1, <2>3, <3>1
  <2> QED BY <1>2, <1>4, <2>1, <2>2, <2>4 DEF Losses, LossIsCounted
<1>6. CASE ~success
  <2>1. /\ metrics'.push_success = metrics.push_success
        /\ metrics'.push_failure = metrics.push_failure + 1
        /\ metrics' \in [push_success : Nat, push_failure : Nat, dropped : Nat]
        /\ lost' = lost \cup I
    BY <1>1, <1>6 DEF Settle
  <2>2. IsFiniteSet(I) /\ Cardinality(I) = Len(batch)
    <3> DEFINE lo == settled + 1
               hi == settled + Len(batch)
    <3>1. /\ lo \in Int /\ hi \in Int /\ ~(lo > hi) /\ hi - lo + 1 = Len(batch)
          /\ I = lo..hi
      BY <1>1
    <3> HIDE DEF lo, hi, I
    <3>2. IsFiniteSet(lo..hi) /\ Cardinality(lo..hi) = hi - lo + 1
      BY <3>1, FS_Interval
    <3> QED BY <3>1, <3>2
  <2>3. lost \cap I = {}
    BY <1>1, <1>2
  <2>4. Cardinality(lost') = Cardinality(lost) + Len(batch)
    <3> HIDE DEF I
    <3>1. Cardinality(lost \cup I) = Cardinality(lost) + Cardinality(I) - Cardinality(lost \cap I)
      BY <1>3, <2>2, FS_Union
    <3>2. Cardinality(lost \cap I) = 0
      BY <2>3, FS_EmptySet
    <3> QED BY <1>1, <1>3, <2>1, <2>2, <3>1, <3>2
  <2>5. lost' \subseteq 1..settled' /\ lost' # {}
    <3>1. I \subseteq 1..settled' /\ settled + 1 \in I /\ 1..settled \subseteq 1..settled'
      BY <1>1, <1>4
    <3> HIDE DEF I
    <3> QED BY <1>2, <2>1, <3>1
  <2>6. Cardinality(lost) + Len(batch) <= (metrics.push_failure + 1) * MAX_BATCH
    BY <1>1, <1>2, <1>3, OneMoreBatch
  <2>7. /\ Cardinality(lost') <= metrics'.push_failure * MAX_BATCH
        /\ settled' - Cardinality(lost') <= metrics'.push_success * MAX_BATCH
    <3>1. settled' - Cardinality(lost') = settled - Cardinality(lost)
      BY <1>1, <1>3, <1>4, <2>4
    <3> QED BY <1>2, <2>1, <2>4, <2>6, <3>1
  <2>8. metrics'.push_failure # 0
    BY <1>1, <2>1
  <2> QED BY <1>2, <1>4, <2>1, <2>5, <2>7, <2>8 DEF Losses, LossIsCounted
<1> QED BY <1>5, <1>6

\* Alertmanager applies a request: its view is recent, provided that nothing
\* delivered comes after the request, or that its keys are marked as stale.
LEMMA RequestView ==
  ASSUME IInv, NEW first \in Nat \ {0}, NEW wires \in Seq(AlertmanagerAlert),
         first + Len(wires) <= Len(accepted) + 1,
         \A i \in 1..Len(wires) : wires[i] = accepted[first - 1 + i],
         accepted' = accepted, settled' \in Nat,
         am_open' = Apply(am_open, wires),
         stale \ KeysOf(wires) \subseteq stale',
         (1..settled') \ lost' \subseteq
           ((1..settled) \ lost) \cup first..(first + Len(wires) - 1),
         \/ KeysOf(wires) \subseteq stale'
         \/ \A q \in (1..settled') \ lost' : q < first + Len(wires)
  PROVE  ViewIsRecent'
<1>1. Len(wires) \in Nat /\ DOMAIN wires = 1..Len(wires) /\ Len(accepted) \in Nat
  BY Typed, LenProperties DEF IInv
<1>2. am_open \in SUBSET Labels
  BY Typed DEF IInv
<1>3. \A p : KeyAt(p)' = KeyAt(p)
  BY DEF KeyAt
<1>4. \A k : \A q \in Delivered(k)' : q \in (1..settled') \ lost' /\ KeyAt(q) = k
  BY <1>3 DEF Delivered
<1>5. \A i \in 1..Len(wires) : KeyAt(first - 1 + i) = wires[i].alert.key
  BY DEF KeyAt
<1> SUFFICES ASSUME NEW k \in Keys \ stale', Delivered(k)' # {}
             PROVE  \E p \in 1..Len(accepted) :
                       /\ KeyAt(p) = k
                       /\ \A q \in Delivered(k)' : q <= p
                       /\ <<k>> \in am_open' <=> ~accepted[p].ends_at
  BY <1>3 DEF ViewIsRecent
<1>6. CASE k \in KeysOf(wires)
  <2>1. PICK i \in 1..Len(wires) :
             /\ wires[i].alert.key = k
             /\ \A j \in 1..Len(wires) : wires[j].alert.key = k => j <= i
             /\ <<k>> \in am_open' <=> ~wires[i].ends_at
    <3>1. \E i \in 1..Len(wires) :
             /\ wires[i].alert.key = k
             /\ \A j \in 1..Len(wires) : wires[j].alert.key = k => j <= i
             /\ <<k>> \in Apply(am_open, wires) <=> ~wires[i].ends_at
      <4>1. \A x \in KeysOf(wires) :
              \E i \in 1..Len(wires) :
                 /\ wires[i].alert.key = x
                 /\ \A j \in 1..Len(wires) : wires[j].alert.key = x => j <= i
                 /\ <<x>> \in Apply(am_open, wires) <=> ~wires[i].ends_at
        BY <1>2, ApplyEffect, Zenon
      <4> QED BY <1>6, <4>1, Zenon
    <3> QED BY <3>1
  <2>2. first - 1 + i \in 1..Len(accepted)
    BY <1>1
  <2>3. ASSUME NEW q \in Delivered(k)' PROVE q <= first - 1 + i
    <3>1. q \in Nat /\ q < first + Len(wires) /\ KeyAt(q) = k
      BY <1>4, <1>6
    <3>2. CASE q >= first
      <4>1. q - first + 1 \in 1..Len(wires) /\ q = first - 1 + (q - first + 1)
        BY <1>1, <3>1, <3>2
      <4>2. q - first + 1 <= i
        BY <1>5, <2>1, <3>1, <4>1
      <4> QED BY <1>1, <3>1, <4>2
    <3> QED BY <1>1, <3>1, <3>2
  <2>4. KeyAt(first - 1 + i) = k /\ accepted[first - 1 + i] = wires[i]
    BY <1>5, <2>1
  <2> QED BY <2>1, <2>2, <2>3, <2>4
<1>7. CASE k \notin KeysOf(wires)
  <2>1. \A q \in first..(first + Len(wires) - 1) : KeyAt(q) # k
    <3> SUFFICES ASSUME NEW q \in first..(first + Len(wires) - 1), KeyAt(q) = k
                 PROVE  FALSE
      OBVIOUS
    <3>1. q - first + 1 \in 1..Len(wires) /\ q = first - 1 + (q - first + 1)
      BY <1>1
    <3> QED BY <1>1, <1>5, <1>7, <3>1 DEF KeysOf
  <2>2. Delivered(k)' \subseteq Delivered(k)
    BY <1>4, <2>1 DEF Delivered
  <2>3. k \in Keys \ stale
    BY <1>7
  <2>4. PICK p \in 1..Len(accepted) : /\ KeyAt(p) = k
                                      /\ \A q \in Delivered(k) : q <= p
                                      /\ <<k>> \in am_open <=> ~accepted[p].ends_at
    BY <2>2, <2>3 DEF IInv, ViewIsRecent
  <2>5. <<k>> \in am_open' <=> <<k>> \in am_open
    BY <1>2, <1>7, ApplyEffect
  <2> QED BY <2>2, <2>4, <2>5
<1> QED BY <1>6, <1>7

\* The batch under way: Alertmanager sees it, or does not.
LEMMA ReceiveView ==
  ASSUME IInv, task = "post", Receive, accepted' = accepted,
         \/ UNCHANGED <<settled, lost>>
         \/ settled' = settled + Len(batch) /\ lost \subseteq lost'
  PROVE  ViewIsRecent'
<1>1. /\ settled \in Nat /\ Len(batch) \in Nat /\ batch \in Seq(AlertmanagerAlert)
  BY Typed DEF IInv
<1>2. settled + 1 \in Nat \ {0} /\ settled' \in Nat
  BY <1>1
<1>3. /\ (settled + 1) + Len(batch) <= Len(accepted) + 1
      /\ \A i \in 1..Len(batch) : batch[i] = accepted[(settled + 1) - 1 + i]
  BY RequestIsLate DEF LateRequest
<1>4. am_open' = Apply(am_open, batch) /\ stale \ KeysOf(batch) \subseteq stale'
  BY DEF Receive
<1>5. /\ (1..settled') \ lost' \subseteq
           ((1..settled) \ lost) \cup (settled + 1)..((settled + 1) + Len(batch) - 1)
      /\ \A q \in (1..settled') \ lost' : q < (settled + 1) + Len(batch)
  BY <1>1
<1> DEFINE first == settled + 1
<1> HIDE DEF first
<1>6. /\ first \in Nat \ {0}
      /\ first + Len(batch) <= Len(accepted) + 1
      /\ \A i \in 1..Len(batch) : batch[i] = accepted[first - 1 + i]
      /\ (1..settled') \ lost' \subseteq
           ((1..settled) \ lost) \cup first..(first + Len(batch) - 1)
      /\ \A q \in (1..settled') \ lost' : q < first + Len(batch)
  BY <1>2, <1>3, <1>5 DEF first
<1> QED BY <1>1, <1>2, <1>4, <1>6, RequestView

LEMMA UnseenView ==
  ASSUME IInv, Unseen, accepted' = accepted,
         (1..settled') \ lost' = (1..settled) \ lost
  PROVE  ViewIsRecent'
<1>1. \A k \in Keys : Delivered(k)' = Delivered(k)
  BY DEF Delivered, KeyAt
<1> QED BY <1>1 DEF ViewIsRecent, KeyAt, IInv, Unseen

\* The requests left behind, when Alertmanager sees the batch under way or the
\* dispatcher is done with it.
LEMMA ReplyLate ==
  ASSUME IInv, task = "post", accepted' = accepted, late' \subseteq late \cup {Request},
         Len(batch) \in Nat \ {0},
         seen' = seen \/ seen' = settled + 1,
         \/ UNCHANGED <<batch, settled, lost>> /\ task' = "sleep"
         \/ /\ settled' = settled + Len(batch)
            /\ (1..settled') \ lost' = (1..settled) \ lost
         \/ settled' = settled + Len(batch) /\ lost' = lost /\ seen' = settled + 1
  PROVE  LateRequests'
<1>1. settled \in Nat /\ seen \in Nat /\ seen <= settled + 1
  BY Typed DEF IInv, LateRequests
<1>2. settled' \in Nat /\ settled' >= settled /\ seen' <= settled' + 1 /\ seen' \in Nat
  BY <1>1
<1> SUFFICES ASSUME NEW r \in late' PROVE LateRequest(r)'
  BY <1>2 DEF LateRequests
<1>3. LateRequest(r) /\ r.first \in Nat /\ Len(r.wires) \in Nat
  <2>1. CASE r \in late
    BY <2>1, Typed DEF IInv, LateRequests
  <2>2. CASE r = Request
    BY <1>1, <2>2, RequestIsLate
  <2> QED BY <2>1, <2>2
<1>4. /\ r.first \in 1..(settled' + 1)
      /\ r.first + Len(r.wires) <= Len(accepted') + 1
      /\ \A i \in 1..Len(r.wires) : r.wires[i] = accepted'[r.first - 1 + i]
  BY <1>1, <1>2, <1>3 DEF LateRequest
<1>5. r.first = settled' + 1 => r.wires = batch' /\ task' \in {"post", "sleep", "aborted"}
  <2>1. CASE UNCHANGED <<batch, settled, lost>> /\ task' = "sleep"
    BY <1>3, <2>1 DEF LateRequest
  <2>2. CASE settled' = settled + Len(batch)
    BY <1>1, <1>3, <2>2 DEF LateRequest
  <2> QED BY <2>1, <2>2
<1>6. ASSUME seen' <= r.first, NEW q \in (1..settled') \ lost'
      PROVE  q < r.first + Len(r.wires)
  <2>1. CASE seen' = settled + 1
    <3>1. r.first = settled + 1 /\ r.wires = batch
      BY <1>1, <1>3, <1>6, <2>1 DEF LateRequest
    <3>2. q <= settled' /\ settled' <= settled + Len(batch)
      BY <1>1
    <3> QED BY <1>1, <1>2, <3>1, <3>2
  <2>2. CASE seen' = seen /\ seen' # settled + 1
    BY <1>3, <1>6, <2>2 DEF LateRequest
  <2> QED BY <2>1, <2>2
<1> QED BY <1>4, <1>5, <1>6 DEF LateRequest

\* The dispatcher is done with the batch under way.
LEMMA SettleFlow ==
  ASSUME IInv, task = "post", NEW success \in BOOLEAN, Settle(success),
         Len(batch) \in 1..MAX_BATCH, late' \subseteq late \cup {Request},
         am_open' \subseteq Labels, seen' \in Nat, stale' \subseteq Keys,
         replies' \in Seq({"2xx", "4xx", "error"}),
         UNCHANGED <<main, open, outgoing, queue, offered, accepted, missed>>
  PROVE  TypeOK' /\ Control' /\ InOrder' /\ Losses' /\ PushedIsCurrent'
<1>1. /\ batch' = <<>> /\ Len(batch') = 0 /\ settled' = settled + Len(batch) /\ task' = "recv"
      /\ attempt' = attempt
      /\ lost' \subseteq lost \cup (settled + 1)..(settled + Len(batch))
  BY DEF Settle
<1>2. settled \in Nat /\ lost \subseteq Nat /\ Len(batch) \in Nat
  BY Typed, TypeParts DEF IInv, TypeHistory
<1>3. Losses' /\ metrics' \in [push_success : Nat, push_failure : Nat, dropped : Nat]
  BY SettleLosses
<1>4. TypeOK'
  <2>1. TypeCode'
    BY <1>1, <1>3, TypeParts DEF IInv, TypeCode
  <2>2. TypeFlow'
    BY <1>1, TypeParts, EmptySeq, Typed DEF IInv, TypeFlow
  <2>3. TypeView'
    <3>1. \A r \in late : r.first \in Nat /\ r.wires \in Seq(AlertmanagerAlert)
      BY Typed DEF IInv
    <3>2. Request.first \in Nat /\ Request.wires \in Seq(AlertmanagerAlert)
      BY <1>2, Typed, RequestIsLate DEF IInv
    <3> QED BY <3>1, <3>2 DEF TypeView
  <2>4. TypeHistory'
    <3>1. lost' \subseteq Nat /\ settled' \in Nat
      BY <1>1, <1>2
    <3> QED BY <3>1, TypeParts DEF IInv, TypeHistory
  <2> QED BY <2>1, <2>2, <2>3, <2>4, TypePartsNext
<1>5. Control'
  BY <1>1 DEF IInv, Control
<1>6. InOrder'
  <2>1. Len(queue) \in Nat /\ Len(accepted) \in Nat
        /\ settled + Len(batch) + Len(queue) = Len(accepted)
    BY Typed DEF IInv, InOrder
  <2>2. settled' + Len(batch') + Len(queue') = Len(accepted')
    BY <1>1, <1>2, <2>1
  <2>3. \A i \in 1..Len(queue') : queue'[i] = accepted'[settled' + Len(batch') + i]
    <3>1. settled' + Len(batch') = settled + Len(batch)
      BY <1>1, <1>2
    <3> QED BY <3>1 DEF IInv, InOrder
  <2> QED BY <1>1, <2>2, <2>3 DEF InOrder
<1>7. PushedIsCurrent'
  BY PushedKept DEF IInv
<1> QED BY <1>3, <1>4, <1>5, <1>6, <1>7

LEMMA ReceiveTyped ==
  ASSUME IInv, Receive
  PROVE  am_open' \subseteq Labels /\ seen' \in Nat /\ stale' \subseteq Keys
<1>1. am_open \in SUBSET Labels /\ batch \in Seq(AlertmanagerAlert)
  BY Typed DEF IInv
<1>2. Apply(am_open, batch) \subseteq Labels
  BY <1>1, ApplyEffect
<1> QED BY <1>2, Typed DEF IInv, Receive

LEMMA UnseenTyped ==
  ASSUME IInv, Unseen
  PROVE  am_open' \subseteq Labels /\ seen' \in Nat /\ stale' \subseteq Keys
  BY Typed DEF IInv, Unseen

\* Nothing more is delivered by a batch that failed.
LEMMA NothingDelivered ==
  ASSUME IInv, Settle(FALSE)
  PROVE  (1..settled') \ lost' = (1..settled) \ lost
  BY Typed DEF IInv, Settle

LEMMA IInvSuccess ==
  ASSUME IInv, PostSuccess
  PROVE  IInv'
<1> USE DEF PostSuccess
<1>1. Reply("2xx") /\ Receive /\ Settle(TRUE) /\ late' = late
  OBVIOUS
<1>2. /\ task = "post" /\ Len(batch) \in 1..MAX_BATCH /\ settled \in Nat
      /\ replies' \in Seq({"2xx", "4xx", "error"})
      /\ attempt \in 0..(RETRY_ATTEMPTS - 1)
      /\ Len(replies') = attempt + 1
      /\ \A i \in 1..attempt : replies'[i] = "error"
      /\ replies'[attempt + 1] = "2xx"
      /\ UNCHANGED <<main, open, outgoing, queue, offered, accepted, missed>>
  BY <1>1, ReplyEffect
<1>3. TypeOK' /\ Control' /\ InOrder' /\ Losses' /\ PushedIsCurrent'
  BY <1>1, <1>2, ReceiveTyped, SettleFlow
<1>4. task' = "recv" /\ settled' = settled + Len(batch) /\ lost' = lost
  BY <1>1 DEF Settle
<1>5. Retries'
  BY <1>2, <1>4, Typed DEF IInv, Retries, RetryDiscipline
<1>6. LateRequests'
  <2>1. seen' = settled + 1 /\ Len(batch) \in Nat \ {0}
    BY <1>1, <1>2, Typed DEF IInv, Receive
  <2> QED BY <1>1, <1>2, <1>4, <2>1, ReplyLate
<1>7. ViewIsRecent'
  BY <1>1, <1>2, <1>4, ReceiveView
<1> QED BY <1>3, <1>5, <1>6, <1>7 DEF IInv

\* The dispatcher gives the batch up.
LEMMA IInvGiveUp ==
  ASSUME IInv, NEW r \in {"4xx", "error"}, Reply(r), Settle(FALSE),
         r = "4xx" \/ attempt + 1 = RETRY_ATTEMPTS,
         Receive \/ Unseen, late' \subseteq late \cup {Request}
  PROVE  IInv'
<1>1. /\ task = "post" /\ Len(batch) \in 1..MAX_BATCH /\ settled \in Nat
      /\ replies' \in Seq({"2xx", "4xx", "error"})
      /\ attempt \in 0..(RETRY_ATTEMPTS - 1)
      /\ Len(replies') = attempt + 1
      /\ \A i \in 1..attempt : replies'[i] = "error"
      /\ replies'[attempt + 1] = r
      /\ UNCHANGED <<main, open, outgoing, queue, offered, accepted, missed>>
  BY ReplyEffect
<1>2. TypeOK' /\ Control' /\ InOrder' /\ Losses' /\ PushedIsCurrent'
  BY <1>1, ReceiveTyped, UnseenTyped, SettleFlow
<1>3. task' = "recv" /\ settled' = settled + Len(batch) /\ lost \subseteq lost'
  BY DEF Settle
<1>4. Retries'
  BY <1>1, <1>3, Typed DEF IInv, Retries, RetryDiscipline
<1>5. LateRequests'
  <2>1. Len(batch) \in Nat \ {0}
    BY <1>1, Typed DEF IInv
  <2>2. seen' = seen \/ seen' = settled + 1
    BY DEF Receive, Unseen
  <2> QED BY <1>1, <1>3, <2>1, <2>2, NothingDelivered, ReplyLate
<1>6. ViewIsRecent'
  BY <1>1, <1>3, NothingDelivered, ReceiveView, UnseenView
<1> QED BY <1>2, <1>4, <1>5, <1>6 DEF IInv

\* The dispatcher will try again.
LEMMA IInvRetry ==
  ASSUME IInv, Reply("error"), attempt + 1 < RETRY_ATTEMPTS,
         task' = "sleep", attempt' = attempt + 1,
         UNCHANGED <<batch, settled, metrics, lost>>,
         Receive \/ Unseen, late' \subseteq late \cup {Request}
  PROVE  IInv'
<1>1. /\ task = "post" /\ Len(batch) \in 1..MAX_BATCH /\ settled \in Nat
      /\ replies' \in Seq({"2xx", "4xx", "error"})
      /\ attempt \in 0..(RETRY_ATTEMPTS - 1)
      /\ Len(replies') = attempt + 1
      /\ \A i \in 1..attempt : replies'[i] = "error"
      /\ replies'[attempt + 1] = "error"
      /\ UNCHANGED <<main, open, outgoing, queue, offered, accepted, missed>>
  BY ReplyEffect
<1>2. TypeOK'
  <2>1. TypeCode'
    BY <1>1, TypeParts, Typed DEF IInv, TypeCode
  <2>2. TypeFlow'
    BY <1>1, TypeParts DEF IInv, TypeFlow
  <2>3. TypeView'
    <3>1. \A r \in late : r.first \in Nat /\ r.wires \in Seq(AlertmanagerAlert)
      BY Typed DEF IInv
    <3>2. Request.first \in Nat /\ Request.wires \in Seq(AlertmanagerAlert)
      BY <1>1, Typed, RequestIsLate DEF IInv
    <3> QED BY <3>1, <3>2, ReceiveTyped, UnseenTyped DEF TypeView
  <2>4. TypeHistory'
    BY <1>1, TypeParts, ReceiveTyped, UnseenTyped DEF IInv, TypeHistory
  <2> QED BY <2>1, <2>2, <2>3, <2>4, TypePartsNext
<1>3. Control' /\ InOrder'
  BY <1>1 DEF IInv, Control, InOrder
<1>4. Losses'
  BY <1>1 DEF IInv, Losses, LossIsCounted
<1>5. Retries'
  BY <1>1, Typed DEF IInv, Retries, RetryDiscipline
<1>6. PushedIsCurrent'
  BY <1>1, PushedKept DEF IInv
<1>7. LateRequests'
  <2>1. Len(batch) \in Nat \ {0}
    BY <1>1, Typed DEF IInv
  <2>2. seen' = seen \/ seen' = settled + 1
    BY DEF Receive, Unseen
  <2> QED BY <1>1, <2>1, <2>2, ReplyLate
<1>8. ViewIsRecent'
  <2>1. (1..settled') \ lost' = (1..settled) \ lost
    OBVIOUS
  <2> QED BY <1>1, <2>1, ReceiveView, UnseenView
<1> QED BY <1>2, <1>3, <1>4, <1>5, <1>6, <1>7, <1>8 DEF IInv

LEMMA IInvFailure ==
  ASSUME IInv, PostRejected \/ PostError
  PROVE  IInv'
<1>1. CASE PostRejected
  BY <1>1, IInvGiveUp DEF PostRejected
<1>2. CASE PostError
  <2>1. Reply("error") /\ RetryOrGiveUp
    BY <1>2 DEF PostError
  <2>2. Receive \/ Unseen
    BY <1>2 DEF PostError
  <2>3. late' \subseteq late \cup {Request}
    BY <1>2 DEF PostError
  <2>4. CASE attempt + 1 < RETRY_ATTEMPTS
    BY <2>1, <2>2, <2>3, <2>4, IInvRetry DEF RetryOrGiveUp
  <2>5. CASE ~(attempt + 1 < RETRY_ATTEMPTS)
    <3>1. Settle(FALSE)
      BY <2>1, <2>5 DEF RetryOrGiveUp
    <3>2. attempt \in 0..(RETRY_ATTEMPTS - 1) /\ RETRY_ATTEMPTS \in Nat
      BY TypeParts, Typed DEF IInv, TypeCode
    <3>3. attempt + 1 = RETRY_ATTEMPTS
      BY <2>5, <3>2
    <3> QED BY <2>1, <2>2, <2>3, <3>1, <3>3, IInvGiveUp
  <2> QED BY <2>4, <2>5
<1> QED BY <1>1, <1>2

LEMMA IInvLateArrival ==
  ASSUME IInv, LateArrival
  PROVE  IInv'
<1>1. PICK r \in late :
           /\ late' = late \ {r}
           /\ am_open' = Apply(am_open, r.wires)
           /\ stale' = IF r.first < seen THEN stale \cup KeysOf(r.wires) ELSE stale
           /\ seen' = IF r.first < seen THEN seen ELSE r.first
           /\ UNCHANGED <<codeVars, offered, accepted, settled, lost, missed, replies>>
  BY DEF LateArrival
<1>2. /\ r.first \in Nat \ {0} /\ r.wires \in Seq(AlertmanagerAlert) /\ Len(r.wires) \in Nat
      /\ seen \in Nat /\ settled \in Nat
      /\ r.first <= settled + 1
      /\ r.first + Len(r.wires) <= Len(accepted) + 1
      /\ \A i \in 1..Len(r.wires) : r.wires[i] = accepted[r.first - 1 + i]
      /\ seen <= r.first => \A q \in (1..settled) \ lost : q < r.first + Len(r.wires)
      /\ seen <= settled + 1
  BY Typed DEF IInv, LateRequests, LateRequest
<1>3. KeysOf(r.wires) \subseteq Keys
  BY <1>2, Wires DEF KeysOf
<1>4. TypeOK'
  <2>1. am_open' \subseteq Labels
    <3>1. am_open \in SUBSET Labels
      BY Typed DEF IInv
    <3>2. Apply(am_open, r.wires) \subseteq Labels
      BY <1>2, <3>1, ApplyEffect
    <3> QED BY <1>1, <3>2
  <2>2. TypeCode' /\ TypeFlow'
    BY <1>1, TypeParts DEF IInv, TypeCode, TypeFlow, codeVars
  <2>3. TypeView' /\ TypeHistory'
    BY <1>1, <1>2, <1>3, <2>1, TypeParts DEF IInv, TypeView, TypeHistory
  <2> QED BY <2>2, <2>3, TypePartsNext
<1>5. Control' /\ InOrder' /\ Losses' /\ Retries'
  BY <1>1 DEF IInv, Control, InOrder, Losses, LossIsCounted, Retries, RetryDiscipline, codeVars
<1>6. PushedIsCurrent'
  BY <1>1, PushedKept DEF IInv, codeVars
<1>7. LateRequests'
  <2>1. seen' >= seen /\ seen' \in Nat /\ seen' <= settled + 1
    BY <1>1, <1>2
  <2> SUFFICES ASSUME NEW u \in late' PROVE LateRequest(u)'
    BY <1>1, <2>1 DEF LateRequests
  <2>2. LateRequest(u) /\ u.first \in Nat
    BY <1>1, Typed DEF IInv, LateRequests
  <2>3. seen' <= u.first => seen <= u.first
    BY <1>2, <2>1, <2>2
  <2> QED BY <1>1, <2>2, <2>3 DEF LateRequest, codeVars
<1>8. ViewIsRecent'
  <2> DEFINE first == r.first
             wires == r.wires
  <2>1. \/ KeysOf(wires) \subseteq stale'
        \/ \A q \in (1..settled') \ lost' : q < first + Len(wires)
    BY <1>1, <1>2
  <2>2. /\ accepted' = accepted /\ settled' \in Nat
        /\ am_open' = Apply(am_open, wires)
        /\ stale \ KeysOf(wires) \subseteq stale'
        /\ (1..settled') \ lost' \subseteq
             ((1..settled) \ lost) \cup first..(first + Len(wires) - 1)
    BY <1>1, <1>2
  <2>3. /\ first \in Nat \ {0} /\ wires \in Seq(AlertmanagerAlert)
        /\ first + Len(wires) <= Len(accepted) + 1
        /\ \A i \in 1..Len(wires) : wires[i] = accepted[first - 1 + i]
    BY <1>2
  <2> HIDE DEF first, wires
  <2> QED BY <2>1, <2>2, <2>3, RequestView
<1> QED BY <1>4, <1>5, <1>6, <1>7, <1>8 DEF IInv

-----------------------------------------------------------------------------
(* The theorems.                                                           *)

\* The inductive invariant holds.
THEOREM DispatchCorrect == Spec => []IInv
<1>1. IInv /\ [Next]_vars => IInv'
  <2> SUFFICES ASSUME IInv, [Next]_vars PROVE IInv'
    OBVIOUS
  <2>1. CASE Tick
    BY <2>1, IInvTick
  <2>2. CASE push
    BY <2>2, IInvPush
  <2>3. CASE Signal \/ DrainDone \/ GraceExpired
    BY <2>3, IInvMain
  <2>4. CASE Dispatcher
    BY <2>4, IInvRecv, IInvTryRecv, IInvQuiet, IInvSuccess, IInvFailure DEF Dispatcher
  <2>5. CASE LateArrival
    BY <2>5, IInvLateArrival
  <2>6. CASE UNCHANGED vars
    <3>1. TypeOK' /\ Control' /\ InOrder' /\ Losses' /\ Retries'
      BY <2>6 DEF IInv, vars, codeVars, amVars, historyVars, TypeOK, Control, InOrder,
                  Losses, LossIsCounted, Retries, RetryDiscipline
    <3>2. PushedIsCurrent' /\ LateRequests' /\ ViewIsRecent'
      BY <2>6, PushedKept, ViewKept
         DEF IInv, vars, codeVars, amVars, historyVars, LateRequests, LateRequest
    <3> QED BY <3>1, <3>2 DEF IInv
  <2> QED BY <2>1, <2>2, <2>3, <2>4, <2>5, <2>6 DEF Next
<1> QED BY IInvInit, <1>1, PTL DEF Spec

\* Every variable has its type, and the channel and the batch their bounds.
THEOREM DispatchTyped == Spec => []TypeOK
<1>1. IInv => TypeOK
  BY DEF IInv
<1> QED BY <1>1, DispatchCorrect, PTL

\* The batch and the channel are, in order, what was accepted and not settled.
THEOREM FifoTheorem == Spec => []FifoAccounting
<1>1. IInv => FifoAccounting
  <2> SUFFICES ASSUME IInv PROVE FifoAccounting
    OBVIOUS
  <2>1. /\ batch \in Seq(AlertmanagerAlert) /\ queue \in Seq(AlertmanagerAlert)
        /\ accepted \in Seq(AlertmanagerAlert) /\ settled \in Nat
        /\ Len(batch) \in Nat /\ Len(queue) \in Nat /\ Len(accepted) \in Nat
        /\ settled + Len(batch) + Len(queue) = Len(accepted)
        /\ \A i \in 1..Len(batch) : batch[i] = accepted[settled + i]
        /\ \A i \in 1..Len(queue) : queue[i] = accepted[settled + Len(batch) + i]
    BY Typed DEF IInv, InOrder
  <2> DEFINE s == batch \o queue
             t == SubSeq(accepted, settled + 1, Len(accepted))
  <2>2. /\ s \in Seq(AlertmanagerAlert) /\ Len(s) = Len(batch) + Len(queue)
        /\ \A i \in 1..(Len(batch) + Len(queue)) :
             s[i] = IF i <= Len(batch) THEN batch[i] ELSE queue[i - Len(batch)]
    BY <2>1, ConcatProperties
  <2>3. /\ t \in Seq(AlertmanagerAlert) /\ Len(t) = Len(batch) + Len(queue)
        /\ \A i \in 1..(Len(batch) + Len(queue)) : t[i] = accepted[settled + i]
    <3>1. \A i \in (settled + 1)..Len(accepted) : accepted[i] \in AlertmanagerAlert
      BY <2>1
    <3>2. /\ t \in Seq(AlertmanagerAlert)
          /\ Len(t) = IF settled + 1 <= Len(accepted) THEN Len(accepted) - (settled + 1) + 1 ELSE 0
          /\ \A i \in 1..(Len(accepted) - (settled + 1) + 1) :
               t[i] = accepted[(settled + 1) + i - 1]
      BY <2>1, <3>1, SubSeqProperties
    <3>3. Len(accepted) - (settled + 1) + 1 = Len(batch) + Len(queue)
      BY <2>1
    <3>4. Len(t) = Len(batch) + Len(queue)
      BY <2>1, <3>2
    <3> QED BY <2>1, <3>2, <3>3, <3>4
  <2>4. ASSUME NEW i \in 1..Len(s) PROVE s[i] = t[i]
    <3>1. CASE i <= Len(batch)
      BY <2>1, <2>2, <2>3, <3>1
    <3>2. CASE ~(i <= Len(batch))
      <4>1. i - Len(batch) \in 1..Len(queue)
            /\ settled + Len(batch) + (i - Len(batch)) = settled + i
        BY <2>1, <2>2, <3>2
      <4> QED BY <2>1, <2>2, <2>3, <3>2, <4>1
    <3> QED BY <3>1, <3>2
  <2>5. s = t
    BY <2>2, <2>3, <2>4, SeqEqual
  <2>6. task = "exited" => settled = Len(accepted) /\ outgoing = <<>>
    BY <2>1 DEF IInv, Control
  <2> QED BY <2>5, <2>6 DEF FifoAccounting
<1> QED BY <1>1, DispatchCorrect, PTL

\* Every alert is on its way, delivered, or counted.
THEOREM LossTheorem == Spec => []LossIsCounted
<1>1. IInv => LossIsCounted
  BY DEF IInv, Losses
<1> QED BY <1>1, DispatchCorrect, PTL

\* POSTs are repeated only as announced.
THEOREM RetryTheorem == Spec => []RetryDiscipline
<1>1. IInv => RetryDiscipline
  BY DEF IInv, Retries
<1> QED BY <1>1, DispatchCorrect, PTL

\* Alertmanager agrees with the managers about every key whose latest alert was
\* delivered.
THEOREM AgreementTheorem == Spec => []AlertmanagerAgrees
<1>1. IInv => AlertmanagerAgrees
  <2> SUFFICES ASSUME IInv, NEW k \in Keys \ (KeysOf(outgoing) \cup missed \cup stale)
               PROVE  LET mine   == {i \in DOMAIN accepted : accepted[i].alert.key = k}
                          latest == CHOOSE i \in mine : \A j \in mine : j <= i
                      IN  mine # {} /\ latest <= settled /\ latest \notin lost
                            => (k \in open <=> \E l \in am_open : l[1] = k)
    BY DEF AlertmanagerAgrees
  <2> DEFINE mine   == {i \in DOMAIN accepted : accepted[i].alert.key = k}
             latest == CHOOSE i \in mine : \A j \in mine : j <= i
  <2> SUFFICES ASSUME mine # {}, latest <= settled, latest \notin lost
               PROVE  k \in open <=> \E l \in am_open : l[1] = k
    OBVIOUS
  <2>1. /\ Len(accepted) \in Nat /\ DOMAIN accepted = 1..Len(accepted) /\ settled \in Nat
        /\ am_open \subseteq Labels
    BY Typed, LenProperties DEF IInv
  <2>2. latest \in mine /\ \A j \in mine : j <= latest
    <3>1. mine \in SUBSET (1..Len(accepted))
      BY <2>1
    <3>2. \E i \in mine : \A j \in mine : j <= i
      BY <2>1, <3>1, LastPosition
    <3> QED BY <3>2
  <2> HIDE DEF latest
  <2>3. latest \in 1..Len(accepted) /\ IsLatest(latest, k)
    BY <2>1, <2>2 DEF IsLatest, KeyAt
  <2>4. latest \in Delivered(k)
    BY <2>1, <2>3 DEF Delivered, IsLatest
  <2>5. PICK p \in 1..Len(accepted) : /\ KeyAt(p) = k
                                      /\ \A q \in Delivered(k) : q <= p
                                      /\ <<k>> \in am_open <=> ~accepted[p].ends_at
    BY <2>4 DEF IInv, ViewIsRecent
  <2>6. p = latest
    BY <2>1, <2>3, <2>4, <2>5 DEF IsLatest
  <2>7. k \in open <=> ~accepted[latest].ends_at
    BY <2>3 DEF IInv, PushedIsCurrent
  <2>8. <<k>> \in am_open <=> \E l \in am_open : l[1] = k
    <3>1. \A l \in am_open : \E x \in Keys : l = <<x>>
      BY <2>1 DEF Labels
    <3> QED BY <3>1
  <2> QED BY <2>5, <2>6, <2>7, <2>8
<1> QED BY <1>1, DispatchCorrect, PTL
=============================================================================
