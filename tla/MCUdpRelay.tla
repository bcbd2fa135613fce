------------------------------ MODULE MCUdpRelay ------------------------------
(* Three flows, two of them to one DNS server and the third to another target;*)
(* or two flows to the DNS server alone.                                      *)
EXTENDS UdpRelay

CONSTANTS f1, f2, f3, dns, web

MCDstOf == [f \in Flows |-> IF f = f3 THEN web ELSE dns]
=============================================================================
