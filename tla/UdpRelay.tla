-------------------------------- MODULE UdpRelay --------------------------------
(* UDP over the proxy, end to end: the client's channel and the node's relay  *)
(* on one authenticated stream.  When the stream breaks the client opens      *)
(* another, which the node serves with a table of its own.                    *)
EXTENDS UdpChannel, UdpNode

vars == <<wire, channel, node>>

Init == WireInit /\ ChannelInit /\ NodeInit

Next ==
    \/ Connect /\ UNCHANGED node
    \/ Disconnect /\ ServeEnds
    \/ ChannelStep /\ UNCHANGED node
    \/ phase = "up" /\ NodeStep /\ UNCHANGED channel

Spec == Init /\ [][Next]_vars
-----------------------------------------------------------------------------
(* udp_frame.rs (222): a frame is read as a whole, half frames cannot occur.  *)
(* The client's reader never loses its place in the stream.                   *)
ReaderInSync == rd # "desync"
=============================================================================
