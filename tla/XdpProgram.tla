------------------------------ MODULE XdpProgram ------------------------------
(***************************************************************************)
(* The XDP program of ebpf-xdp-program-ebpf/src/main.rs as operators on a  *)
(* frame: which bucket of PROTO_STATS it counts in, and whether it reaches *)
(* the SYN and port trackers.  It passes every frame on.                   *)
(*                                                                         *)
(* A frame is its length and the header fields the program looks at, in    *)
(* bytes where they are lengths.  A field beyond the end of the frame has  *)
(* a value too, one that the program must not look at.  XdpContext's       *)
(* bounds check is modelled, what the verifier makes of it is not.         *)
(***************************************************************************)
EXTENDS Naturals

ProtoIndex == {"Icmp", "Tcp", "Udp", "Ipv6", "Other"}

\* The largest total length in an IPv4 header, a u16.
MaxU16 == 65535

Frame == [len         : Nat,
          ether_type  : {"Ipv4", "Ipv6", "Other"},
          version     : 0..15,
          ihl         : 0..15,
          tot_len     : 0..MaxU16,
          proto       : {"Icmp", "Tcp", "Udp", "Other"},
          frag_offset : 0..8191,
          syn         : BOOLEAN,
          ack         : BOOLEAN]

\* mem::size_of of the headers.
EthHdr  == 14
Ipv4Hdr == 20
Ipv6Hdr == 40
TcpHdr  == 20

\* ptr_at::<T>: the header at offset lies in the frame.
ptr_at(f, offset, size) == offset + size <= f.len

Malformed == [kind |-> "Malformed"]

V6 == [kind |-> "V6"]

parse_ipv4hdr(f) ==
    IF ~ptr_at(f, EthHdr, Ipv4Hdr) THEN {}
    ELSE IF f.version # 4 \/ f.ihl * 4 < Ipv4Hdr \/ f.tot_len < f.ihl * 4
      THEN {Malformed}
      ELSE {[kind              |-> "V4",
             proto             |-> f.proto,
             ip_hdr_len        |-> f.ihl * 4,
             tot_len           |-> f.tot_len,
             is_first_fragment |-> f.frag_offset = 0]}

\* parse_ethhdr, and Option<L3Info> by its EtherType.
parse_l4_protocol(f) ==
    IF ~ptr_at(f, 0, EthHdr) THEN {}
    ELSE CASE f.ether_type = "Ipv4"  -> parse_ipv4hdr(f)
           [] f.ether_type = "Ipv6"  -> IF ptr_at(f, EthHdr, Ipv6Hdr) THEN {V6} ELSE {}
           [] f.ether_type = "Other" -> {}

FaultTcpIsOther(l3) == CASE l3.kind = "V6" -> "Ipv6" [] l3.kind # "V6" -> "Other"

proto_to_index(l3) == CASE l3.kind = "V6"        -> "Ipv6"
                        [] l3.kind = "Malformed" -> "Other"
                        [] l3.kind = "V4"        -> l3.proto

\* parse_tcp_info: the TCP header is in the frame and is a bare SYN.
is_syn(f, ip_hdr_len) == /\ ptr_at(f, EthHdr + ip_hdr_len, TcpHdr)
                         /\ f.syn /\ ~f.ack

FaultTrustsPadding(f, l3) ==
    /\ l3.kind = "V4"
    /\ l3.proto = "Tcp" /\ l3.is_first_fragment
    /\ is_syn(f, l3.ip_hdr_len)

\* The frame is handed to record_syn and record_port_touch.
Tracked(f, l3) ==
    /\ l3.kind = "V4"
    /\ l3.proto = "Tcp" /\ l3.is_first_fragment
    /\ l3.ip_hdr_len + TcpHdr <= l3.tot_len
    /\ is_syn(f, l3.ip_hdr_len)
=============================================================================
