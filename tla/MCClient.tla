------------------------------- MODULE MCClient -------------------------------
(* The client's local ports, and its choice of nodes.  FrontEnd leaves open   *)
(* which node Scheduler offers and how it fails, Failover leaves open what    *)
(* asks for a node: a behaviour looks at one of them, the other one stays as  *)
(* it was at the start.                                                       *)
(*                                                                            *)
(* The ports: two connections, one node and a pool of one to two connections; *)
(* the first connection is of any kind, the other one uses the pool and the   *)
(* registry.                                                                  *)
EXTENDS FrontEnd, Failover

CONSTANT First

Far == [direct |-> FALSE, class |-> "public", family |-> 4]
Near(class, family) == [direct |-> TRUE, class |-> class, family |-> family]
Asks(proto, flaw, target) == [proto |-> proto, flaw |-> flaw, target |-> target]
Flow(target) == Asks("tun", "none", target)
Case(h, r) == [host |-> h, req |-> [c \in Conns |-> IF c = First THEN r ELSE Flow(Far)]]

Windows == [windows |-> TRUE,  hook |-> FALSE, bind |-> {4}, creds |-> TRUE]
Linux   == [windows |-> FALSE, hook |-> FALSE, bind |-> {4}, creds |-> TRUE]
Android == [windows |-> FALSE, hook |-> TRUE,  bind |-> {}, creds |-> TRUE]
Unset   == [windows |-> TRUE,  hook |-> FALSE, bind |-> {4}, creds |-> FALSE]

MCRequests ==
    {Asks("socks", f, Far) : f \in {"none", "noMethods", "auth", "command", "emptyName"}}
    \cup {Asks("socks", "none", Near("public", 4)), Asks("junk", "none", Far)}
    \cup {Asks("connect", f, Far) : f \in {"none", "other"}}
    \cup {Asks("http", f, Near("private", 4)) : f \in {"none", "cut", "large"}}

Plain == Case(Unset, Asks("socks", "none", Far))

MCCases ==
    {Case(Linux, r) : r \in MCRequests}
    \cup {Case(Windows, Flow(Near(class, family))) : class \in {"private", "public"}, family \in {4, 6}}
    \cup {Case(Linux, Flow(Near(class, 4))) : class \in {"loopback", "public"}}
    \cup {Case(Android, Flow(Near("public", 6))), Plain}

VARIABLE focus

clientVars == <<frontVars, vars, focus>>

ClientInit ==
    /\ FrontInit /\ Init
    /\ focus \in {"ports", "nodes"}
    /\ focus = "ports" => \A n \in Registered : answers[n]
    /\ focus = "nodes" => [host |-> host, req |-> req] = Plain

Ports(step) == focus = "ports" /\ step /\ UNCHANGED <<vars, focus>>
Choice(step) == focus = "nodes" /\ step /\ UNCHANGED <<frontVars, focus>>

ClientNext == Ports(FrontNext) \/ Choice(Next)

(* The fairness of FrontEnd and of Failover, each of the part looked at.      *)
ClientSpec ==
    /\ ClientInit /\ [][ClientNext]_clientVars
    /\ \A c \in Conns : WF_clientVars(Ports(Parse(c) \/ Connect(c)))
    /\ WF_clientVars(Choice(StartRound))
    /\ \A n \in Registered : /\ WF_clientVars(Choice(ProbeEnds(n)))
                             /\ WF_clientVars(Choice(ApplyOnline(n) \/ ApplyOffline(n)))
=============================================================================
