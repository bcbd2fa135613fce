------------------------------- MODULE UdpWire -------------------------------
(* The authenticated TLS stream that carries UDP relay frames between one     *)
(* UdpChannel of the client (hydra-core/src/udp_relay.rs) and one serve()     *)
(* call of the node (hydra-node/src/udp_relay.rs), and the frame format of    *)
(* hydra-protocol/src/udp_frame.rs.  TLS over TCP neither loses, duplicates   *)
(* nor reorders, so each direction is a FIFO; a writer waits while its        *)
(* direction is full.                                                        *)
EXTENDS Naturals, Sequences

CONSTANTS
    Flows,      \* client four-tuples "src|dst", the keys of keyed sessions
    Targets,    \* destinations, as written in a data frame
    DstOf,      \* the destination of each flow
    MaxSid,     \* u16::MAX, the largest session id
    UpCap,      \* frames in flight to the node (bound)
    DownCap     \* frames in flight to the client (bound)

ASSUME DstOfAssumption   == DstOf \in [Flows -> Targets]
ASSUME MaxSidAssumption  == MaxSid \in Nat \ {0}
ASSUME CapAssumption     == UpCap \in Nat \ {0} /\ DownCap \in Nat \ {0}

VARIABLES
    up,         \* frames written by the client, not yet taken by the node
    down,       \* frames written by the node, not yet read by the client
    asked       \* history: the data frames the client wrote on this stream

wire == <<up, down, asked>>

Sids == 1..MaxSid

(* A data frame carries session id, target and datagram.  Of the datagram     *)
(* only its origin matters: "flow" is the flow it belongs to.  No code reads  *)
(* that field, it is there for the properties.                                *)
DataFrame(s, t, f) == [kind |-> "data", sid |-> s, target |-> t, flow |-> f]
CloseFrame(s)      == [kind |-> "close", sid |-> s]

DataFrames == [kind : {"data"}, sid : Sids, target : Targets, flow : Flows]
Frames     == DataFrames \cup [kind : {"close"}, sid : Sids]

(* Room for another frame to the client.                                      *)
DownRoom == Len(down) < DownCap

WireInit == up = <<>> /\ down = <<>> /\ asked = {}

(* The stream breaks; what was in flight is lost.                             *)
StreamBreaks == up' = <<>> /\ down' = <<>> /\ asked' = {}

WireTypeOK == up \in Seq(Frames) /\ down \in Seq(Frames) /\ asked \subseteq DataFrames
=============================================================================
