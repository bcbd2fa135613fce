------------------------------ MODULE TunPackets ------------------------------
(* What run_stack does with a packet the device delivers                      *)
(* (hydra-client/src/tun.rs): hand it to the stack, forward it as a datagram, *)
(* answer it with an error or drop it; and the addresses the interface takes  *)
(* on so that the stack accepts IPv6 connections to anywhere (ensure_v6_dst). *)
(* A packet is a record of what the code looks at.                            *)
EXTENDS Naturals, Sequences, SequencesExt, FiniteSetsExt

CONSTANTS
    Addrs,      \* IPv6 destinations of applications
    V6Slots     \* V6_DYNAMIC_SLOTS

ASSUME PacketsAssumption == V6Slots \in Nat \ {0}

Configs == [ipv6 : BOOLEAN, relay : BOOLEAN, rules : BOOLEAN, private : BOOLEAN]
Packets ==
    [ver : {4, 6}, proto : {"tcp", "udp", "icmp", "other"}, syn : BOOLEAN,
     src : {"host", "unspecified", "multicast"},
     dst : {"public", "private", "tun", "multicast", "broadcast", "unspecified"},
     split : {"no", "yes"},      \* a fragment, or behind an extension header
     whole : BOOLEAN]            \* the lengths in the headers agree

VARIABLES
    cfg,        \* TunConfig, and HYDRA_ALLOW_PRIVATE_TARGETS
    pkt, did,   \* the last packet, and what became of it
    pool,       \* v6_pool
    mounted,    \* the addresses added to the interface
    live        \* the addresses of the stack's IPv6 connections

packetVars == <<cfg, pkt, did, pool, mounted, live>>

PacketsInit ==
    /\ cfg \in Configs /\ pkt = <<>> /\ did = "none"
    /\ pool = <<>> /\ mounted = {} /\ live = {}

(* parse_udp_v4 and parse_udp_v6.                                             *)
Datagram(p) == p.proto = "udp" /\ p.split = "no" /\ p.whole
Private(p)  == p.dst \in {"private", "unspecified"}      \* 0/8 counts as private

(* is_private_udp_v4_dst and no_relay.  The TUN's own addresses are private.  *)
NoRelay(p) ==
    \/ p.dst \in {"multicast", "broadcast"} \/ p.src = "unspecified"
    \/ (Private(p) \/ p.dst = "tun") /\ ~cfg.private /\ ~cfg.rules

(* try_forward_udp: a second look at the destination.                         *)
Excluded(p) ==
    LET open == cfg.private \/ cfg.rules
    IN  \/ p.dst = "multicast"
        \/ p.ver = 4 /\ p.dst \in {"broadcast", "unspecified"}
        \/ ~open /\ (Private(p) \/ p.dst = "tun")
ForwardOutcome(p) == IF Excluded(p) THEN "drop" ELSE "datagram"

V4Datagram(p) ==
    CASE NoRelay(p) -> "drop"
      [] ~NoRelay(p) /\ cfg.relay -> ForwardOutcome(p)
      [] OTHER -> "unreachable"

(* handle_v4_else: no ICMP, since the stack would answer for anyone; no       *)
(* fragments; no TCP to private addresses, except for the rules.              *)
V4Else(p) ==
    CASE p.proto = "icmp" \/ p.split = "yes" -> "drop"
      [] p.proto = "tcp" /\ Private(p) /\ p.split = "no" -> IF cfg.rules THEN "stack" ELSE "drop"
      [] OTHER -> "stack"

(* IPv6: TCP to the stack if it is enabled, everything else is refused in a   *)
(* way applications understand.                                               *)
DropV6None(p) == FALSE
DropV6(p)  == p.src \in {"unspecified", "multicast"} \/ p.dst = "multicast"
V6Tcp(p)   == p.proto = "tcp" /\ p.split = "no"
V6Packet(p) ==
    CASE DropV6(p) -> "drop"
      [] ~DropV6(p) /\ cfg.ipv6 /\ V6Tcp(p) -> "stack"
      [] ~DropV6(p) /\ ~cfg.ipv6 /\ V6Tcp(p) /\ p.syn /\ p.whole -> "rst"
      [] ~DropV6(p) /\ (p.proto = "icmp" \/ p.split = "yes") -> "drop"
      [] ~DropV6(p) /\ Datagram(p) /\ cfg.relay -> ForwardOutcome(p)
      [] OTHER -> "unreachable"

Outcome(p) == IF p.ver = 6 THEN V6Packet(p)
              ELSE IF Datagram(p) THEN V4Datagram(p) ELSE V4Else(p)

(* What becomes of a packet depends on nothing before it, so one is enough.   *)
Dispatch(p) ==
    /\ pkt = <<>> /\ pool = <<>> /\ pkt' = p /\ did' = Outcome(p)
    /\ UNCHANGED <<cfg, pool, mounted, live>>

-----------------------------------------------------------------------------
(* ensure_v6_dst: make room by removing the oldest address no connection      *)
(* uses; those in front of it go to the back.  When all are used, give up.    *)
OldestSlot == {i \in DOMAIN pool : i = 1}
Evictable == {i \in DOMAIN pool : pool[i] \notin live}
Mounted(a) ==
    IF a \in mounted THEN [pool |-> pool, on |-> mounted]
    ELSE IF Len(pool) < V6Slots THEN [pool |-> Append(pool, a), on |-> mounted \cup {a}]
    ELSE IF Evictable = {}
         THEN [pool |-> Append(Tail(pool), Head(pool)), on |-> mounted]
         ELSE LET i == Min(Evictable)
              IN  [pool |-> SubSeq(pool, i + 1, Len(pool)) \o SubSeq(pool, 1, i - 1) \o <<a>>,
                   on   |-> (mounted \ {pool[i]}) \cup {a}]

(* A SYN to a: the stack has a connection with it if the address is there.    *)
V6Syn(a) ==
    /\ cfg.ipv6 /\ pkt = <<>> /\ did' = "stack"
    /\ pool' = Mounted(a).pool /\ mounted' = Mounted(a).on
    /\ live' = IF a \in mounted' THEN live \cup {a} ELSE live
    /\ UNCHANGED <<cfg, pkt>>
V6Close(a) ==
    /\ a \in live /\ live' = live \ {a} /\ UNCHANGED <<cfg, pkt, did, pool, mounted>>

(* The end of run_stack.                                                      *)
PacketsEnd ==
    /\ pool' = <<>> /\ mounted' = {} /\ live' = {} /\ pkt' = <<>> /\ did' = "none"
    /\ UNCHANGED cfg

PacketsNext == (\E p \in Packets : Dispatch(p)) \/ \E a \in Addrs : V6Syn(a) \/ V6Close(a)

-----------------------------------------------------------------------------
(* No error is sent where the standards forbid one (RFC 1122 3.2.2, RFC 4443  *)
(* 2.4(e), quoted at l. 1598 and 2866): about a packet to a group, from no    *)
(* address, about an ICMP message or a fragment; nor a reset for what is not  *)
(* a SYN.                                                                     *)
ErrorsLawful ==
    did \in {"rst", "unreachable"} /\ pkt # <<>> =>
        /\ pkt.dst # "multicast" /\ ~(pkt.ver = 4 /\ pkt.dst = "broadcast")
        /\ pkt.src # "unspecified" /\ ~(pkt.ver = 6 /\ pkt.src = "multicast")
        /\ pkt.proto # "icmp" /\ pkt.split = "no"
        /\ did = "rst" => pkt.proto = "tcp" /\ pkt.syn

(* The address of a connection stays on the interface as long as it lives,    *)
(* whatever comes in meanwhile, and pool and interface name the same          *)
(* addresses, as many as there are slots (l. 1711-1715 and 1760).             *)
V6Kept ==
    /\ live \subseteq mounted /\ ToSet(pool) = mounted
    /\ Len(pool) = Cardinality(mounted) /\ Len(pool) <= V6Slots

PacketsSound == ErrorsLawful /\ V6Kept
=============================================================================
