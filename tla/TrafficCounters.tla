--------------------------- MODULE TrafficCounters ---------------------------
(***************************************************************************)
(* PROTO_STATS from the kernel to the mix: every CPU counts the frames it  *)
(* receives in counters of its own, read_snapshot sums them bucket by      *)
(* bucket and CPU by CPU while they go on counting, and the 5 s arm of the *)
(* main loop turns the last two snapshots it looked at into shares.  The   *)
(* arms of the main loop do not interleave.                                *)
(*                                                                         *)
(* Only packets are modelled: the same steps add up bytes.                 *)
(***************************************************************************)
EXTENDS XdpProgram, Sequences, Functions

CONSTANTS NumCPUs,
          Frames,                        \* the frames that may arrive
          MaxFrames, MaxPolls, MaxMixes  \* bounds on the length of a behaviour

ASSUME TrafficAssumption ==
    /\ NumCPUs \in Nat \ {0}
    /\ Frames \subseteq Frame
    /\ {MaxFrames, MaxPolls, MaxMixes} \subseteq Nat

VARIABLES PROTO_STATS,        \* packets per CPU and bucket
          cursor,             \* values read_snapshot has read; none if 0
          stats,              \* the sums it has formed
          current_counters,   \* Option<TrafficCountersSnapshot>
          prev_mix_counters,  \* Option: the one the last mix ended with
          mix_pct             \* xdp_traffic_mix_pct: the packets it is a share of

\* History, for the properties only.
VARIABLES received, \* frames received
          syns,     \* frames that reached the trackers
          before,   \* packets per bucket when this read started
          mixed,    \* packets per bucket that mixes were computed from
          primed,   \* packets per bucket in the first snapshot of the mix
          polls, mixes

kernelVars == <<PROTO_STATS, received, syns>>
readVars   == <<cursor, stats, before, polls>>
mixVars    == <<prev_mix_counters, mix_pct, mixed, primed, mixes>>
vars       == <<kernelVars, readVars, current_counters, mixVars>>

Cpu  == 1..NumCPUs
None == [i \in ProtoIndex |-> 0]

Init == /\ PROTO_STATS = [c \in Cpu |-> None]
        /\ cursor = 0 /\ stats = None
        /\ current_counters = {} /\ prev_mix_counters = {}
        /\ mix_pct = None
        /\ received = 0 /\ syns = 0
        /\ before = None /\ mixed = None /\ primed = None
        /\ polls = 0 /\ mixes = 0

\* What the kernel has counted in bucket i.
Total(i) == SumFunction([c \in Cpu |-> PROTO_STATS[c][i]])

-----------------------------------------------------------------------------
(* The kernel: try_ebpf_xdp_program. *)

Count(c, f, l3) ==
    /\ PROTO_STATS' = [PROTO_STATS EXCEPT ![c][proto_to_index(l3)] = @ + 1]
    /\ syns' = IF Tracked(f, l3) THEN syns + 1 ELSE syns

Receive(c, f) ==
    /\ received < MaxFrames
    /\ received' = received + 1
    /\ \/ \E l3 \in parse_l4_protocol(f) : Count(c, f, l3)
       \/ parse_l4_protocol(f) = {} /\ UNCHANGED <<PROTO_STATS, syns>>
    /\ UNCHANGED <<readVars, current_counters, mixVars>>

-----------------------------------------------------------------------------
(* The stats poll: read_snapshot. *)

\* read_current_stats goes through the buckets in this order, and for each of
\* them through the CPUs.
ReadOrder == <<"Icmp", "Tcp", "Udp", "Ipv6", "Other">>
Bucket(n) == ReadOrder[((n - 1) \div NumCPUs) + 1]
CpuOf(n)  == ((n - 1) % NumCPUs) + 1
LastValue == NumCPUs * Len(ReadOrder)

StartPoll == /\ cursor = 0 /\ polls < MaxPolls
             /\ cursor' = 1
             /\ stats' = None
             /\ before' = [i \in ProtoIndex |-> Total(i)]
             /\ polls' = polls + 1
             /\ UNCHANGED <<kernelVars, current_counters, mixVars>>

FaultKeepsLastCpu(sums, i, v) == [sums EXCEPT ![i] = v]

AddValue(sums, i, v) == [sums EXCEPT ![i] = @ + v]

ReadValue ==
    /\ cursor > 0
    /\ LET sums == AddValue(stats, Bucket(cursor), PROTO_STATS[CpuOf(cursor)][Bucket(cursor)])
       IN  \/ /\ cursor < LastValue
              /\ cursor' = cursor + 1
              /\ stats' = sums
              /\ UNCHANGED <<before, current_counters>>
           \/ /\ cursor = LastValue
              /\ cursor' = 0 /\ stats' = None
              /\ before' = None
              /\ current_counters' = {sums}
    /\ UNCHANGED <<kernelVars, polls, mixVars>>

\* read_or_skip: a bucket that cannot be read leaves the counters of the last poll.
PollFails == /\ cursor > 0
             /\ cursor' = 0 /\ stats' = None /\ before' = None
             /\ UNCHANGED <<kernelVars, polls, current_counters, mixVars>>

-----------------------------------------------------------------------------
(* The mix. *)

diff_stats(cur, prev) ==
    [i \in ProtoIndex |-> IF cur[i] > prev[i] THEN cur[i] - prev[i] ELSE 0]

\* compute_mix and update_mix: without a packet there are no shares, and the gauge
\* keeps the last ones.
update_mix(delta) == mix_pct' = IF delta = None THEN mix_pct ELSE delta

FaultNotRotated(curr, prev) == UNCHANGED prev_mix_counters

Rotate(curr, prev) == prev_mix_counters' = {curr}

MixTick ==
    /\ cursor = 0 /\ mixes < MaxMixes
    /\ mixes' = mixes + 1
    /\ \/ current_counters = {} /\ UNCHANGED <<prev_mix_counters, mix_pct, mixed, primed>>
       \/ \E curr \in current_counters :
            \/ /\ prev_mix_counters = {}
               /\ prev_mix_counters' = {curr}
               /\ primed' = curr
               /\ UNCHANGED <<mix_pct, mixed>>
            \/ \E prev \in prev_mix_counters :
                 /\ Rotate(curr, prev)
                 /\ update_mix(diff_stats(curr, prev))
                 /\ mixed' = [i \in ProtoIndex |-> mixed[i] + diff_stats(curr, prev)[i]]
                 /\ UNCHANGED primed
    /\ UNCHANGED <<kernelVars, readVars, current_counters>>

Next == \/ \E c \in Cpu, f \in Frames : Receive(c, f)
        \/ StartPoll \/ ReadValue \/ PollFails
        \/ MixTick

Spec == Init /\ [][Next]_vars

-----------------------------------------------------------------------------
\* Every variable has its type, and what reached the trackers was counted as TCP.
TypeOK == /\ PROTO_STATS \in [Cpu -> [ProtoIndex -> Nat]]
          /\ cursor \in 0..LastValue
          /\ {stats, before, mixed, primed, mix_pct} \subseteq [ProtoIndex -> Nat]
          /\ current_counters \cup prev_mix_counters \subseteq [ProtoIndex -> Nat]
          /\ {received, syns, polls, mixes} \subseteq Nat
          /\ syns <= Total("Tcp")

\* A TCP header that the IP header announces, in the frame and in the datagram.
TcpInDatagram(f) ==
    /\ f.ether_type = "Ipv4" /\ f.version = 4 /\ f.ihl >= 5
    /\ f.proto = "Tcp" /\ f.frag_offset = 0
    /\ EthHdr + f.ihl * 4 + TcpHdr <= f.len
    /\ f.ihl * 4 + TcpHdr <= f.tot_len

\* The flags of a TCP header decide only where there is one: with any other flags,
\* a frame that is too short, a later fragment, another protocol, or one whose
\* header lies in the padding after the datagram, is counted and tracked the same.
PaddingIsIgnored ==
    [][\A f \in {g \in Frames : received' # received /\ ~TcpInDatagram(g)}, c \in Cpu :
         Receive(c, f) => \A s, a \in BOOLEAN : Receive(c, [f EXCEPT !.syn = s, !.ack = a])]_vars

\* A snapshot is no cut of the counters, but each of its sums lies between what
\* was counted when the read started and when it ended: rates computed from
\* snapshots are never of frames that did not come.
SnapshotsBracketed ==
    [][current_counters' # current_counters =>
         \A curr \in current_counters', i \in ProtoIndex : curr[i] \in before[i]..Total(i)]_vars

\* Every frame counted up to the last snapshot a mix looked at was in one mix and
\* in one only, or in the first snapshot; failed polls and windows without traffic
\* skip nothing.  The gauges show shares of frames that were mixed, and do not stay
\* at zero once some were.
MixesTile ==
    /\ \A prev \in prev_mix_counters, i \in ProtoIndex : primed[i] + mixed[i] = prev[i]
    /\ \A i \in ProtoIndex : mix_pct[i] <= mixed[i]
    /\ mix_pct = None => mixed = None
=============================================================================
