----------------------------- MODULE MCNodeServer -----------------------------
(* A small node: three connections, two of them from one address, two peer    *)
(* ids, one name and two addresses of which one is blocked.                   *)
EXTENDS NodeServer

CONSTANTS c1, c2, c3, i1, i2

MCConns  == {c1, c2, c3}
MCIps    == {i1, i2}
MCSource == [c \in MCConns |-> IF c = c3 THEN i2 ELSE i1]

(* A node with the page and with signalling, limited by address; one without  *)
(* either that serves a single connection; one that refuses the protocol.     *)
MCConfigs == {
    [places |-> 2, perIp |-> 1, page |-> TRUE,  p2p |-> TRUE,  v3 |-> TRUE],
    [places |-> 0, perIp |-> 1, page |-> FALSE, p2p |-> FALSE, v3 |-> TRUE],
    [places |-> 1, perIp |-> 0, page |-> TRUE,  p2p |-> TRUE,  v3 |-> FALSE]}
=============================================================================
