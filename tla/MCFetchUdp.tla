----------------------------- MODULE MCFetchUdp -----------------------------
(* Two parts that have nothing in common: the downloader, and the node's UDP  *)
(* relay with any client.  A behaviour looks at one of them; the other one    *)
(* stays as it was at the start.                                              *)
EXTENDS Fetch, UdpNode, TLC

CONSTANTS w1, w2, v1, v2, f1, dns

(* Two versions of a file of two chunks, each with a validator of its own.    *)
MCTag == [v \in Versions |-> v]
MCSize == [v \in Versions |-> 2]

MCDstOf == [f \in Flows |-> dns]

VARIABLE focus

allVars == <<vars, nodeVars, focus>>

BothInit ==
    /\ Init /\ NodeAndWireInit
    /\ focus \in {"fetch", "udp"}
    /\ focus = "udp" => server.ver = v1 /\ server.ranges = "yes"

InFetch(step) == focus = "fetch" /\ step /\ UNCHANGED <<nodeVars, focus>>
InUdp(step) == focus = "udp" /\ step /\ UNCHANGED <<vars, focus>>

BothNext == InFetch(Next) \/ InUdp(NodeNext)

(* The fairness of Fetch and NodeFairness, each of the part looked at.        *)
BothSpec ==
    /\ BothInit /\ [][BothNext]_allVars
    /\ WF_allVars(InFetch(Step)) /\ WF_allVars(InFetch(Disk))
    /\ WF_allVars(InUdp(MainLoop)) /\ WF_allVars(InUdp(ClientReads))
    /\ SF_allVars(InUdp(DeadSession)) /\ SF_allVars(InUdp(WriteClose))
=============================================================================
