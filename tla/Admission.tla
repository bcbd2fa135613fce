------------------------------ MODULE Admission -------------------------------
(* What the accept loop of a node promises (spawn_tcp_listener,               *)
(* hydra-node/src/tcp_server.rs): which connections are being served is a     *)
(* set, bounded as a whole and per source address.  A connection enters it    *)
(* only where there is room and counts until its service ends, exactly once.  *)
(* It counts against its address a moment longer than against the whole.      *)
EXTENDS Naturals, FiniteSets

CONSTANTS
    Clients,            \* connections
    Ips                 \* source addresses

VARIABLES
    limits,     \* how many are served at once, and of one address (0: no limit)
    served,     \* the connections in service, with their addresses
    leaving,    \* those that count against their address only
    gone        \* the connections whose service has ended or was refused

Counted(ip) == {s \in served \cup leaving : s.ip = ip}
Known       == gone \cup {s.conn : s \in served \cup leaving}

AdmissionInit == limits.places > 0 /\ served = {} /\ leaving = {} /\ gone = {}

Admit(c, ip) ==
    /\ c \notin Known
    /\ Cardinality(served) < limits.places
    /\ limits.perIp = 0 \/ Cardinality(Counted(ip)) < limits.perIp
    /\ served' = served \cup {[conn |-> c, ip |-> ip]}
    /\ UNCHANGED <<limits, leaving, gone>>

(* A connection is turned away only when there is no place for it.            *)
TurnAway(c, ip) ==
    /\ c \notin Known
    /\ \/ Cardinality(served) >= limits.places
       \/ limits.perIp > 0 /\ Cardinality(Counted(ip)) >= limits.perIp
    /\ gone' = gone \cup {c}
    /\ UNCHANGED <<limits, served, leaving>>

Depart(s) ==
    /\ s \in served
    /\ served' = served \ {s}
    /\ leaving' = leaving \cup {s}
    /\ UNCHANGED <<limits, gone>>

Forget(s) ==
    /\ s \in leaving
    /\ leaving' = leaving \ {s}
    /\ gone' = gone \cup {s.conn}
    /\ UNCHANGED <<limits, served>>

AdmissionNext ==
    \/ \E c \in Clients, ip \in Ips : Admit(c, ip) \/ TurnAway(c, ip)
    \/ \E s \in served : Depart(s)
    \/ \E s \in leaving : Forget(s)

AdmissionSpec == AdmissionInit /\ [][AdmissionNext]_<<limits, served, leaving, gone>>
=============================================================================
