------------------------------ MODULE MCTraffic ------------------------------
(* Model-checking instance of the traffic counters. *)
EXTENDS TrafficCounters

Syn == [len |-> 54, ether_type |-> "Ipv4", version |-> 4, ihl |-> 5, tot_len |-> 40,
        proto |-> "Tcp", frag_offset |-> 0, syn |-> TRUE, ack |-> FALSE]

\* A bare SYN without options, and what is one step across each boundary of it.
MCFrames ==
    {Syn, [Syn EXCEPT !.len = 13], [Syn EXCEPT !.len = 33], [Syn EXCEPT !.len = 53],
     [Syn EXCEPT !.ihl = 4], [Syn EXCEPT !.ihl = 6],
     [Syn EXCEPT !.ihl = 6, !.len = 58], [Syn EXCEPT !.ihl = 6, !.tot_len = 44],
     [Syn EXCEPT !.tot_len = 19], [Syn EXCEPT !.tot_len = 39],
     [Syn EXCEPT !.version = 6], [Syn EXCEPT !.frag_offset = 1],
     [Syn EXCEPT !.ack = TRUE], [Syn EXCEPT !.syn = FALSE],
     [Syn EXCEPT !.proto = "Icmp"], [Syn EXCEPT !.proto = "Udp"],
     [Syn EXCEPT !.proto = "Other"], [Syn EXCEPT !.ether_type = "Other"],
     [Syn EXCEPT !.ether_type = "Ipv6"], [Syn EXCEPT !.ether_type = "Ipv6", !.len = 53]}
=============================================================================
