------------------------------- MODULE Failover -------------------------------
(* How the client picks a node and what it believes of its nodes: the status  *)
(* table of Scheduler (hydra-core/src/scheduler.rs), the prober that runs     *)
(* beside it (hydra-core/src/speedtest.rs) and the requests that try one node *)
(* after the other (ProxyServer::open_target, hydra-core/src/proxy.rs).  All  *)
(* three run concurrently and share the table behind a lock that is held for  *)
(* one read or one write.                                                     *)
(*                                                                            *)
(* Scores are left out: among nodes of one status any order may result.  The  *)
(* pool of warm connections is left out too: a warm connection that answers   *)
(* is a connection, one that fails falls back to a new one without a trace.   *)
EXTENDS Naturals, Sequences, FiniteSets

CONSTANTS
    Registered,         \* the nodes registered in the scheduler
    Steady,             \* the nodes that answer in time, always
    Openings,           \* requests for one target that are in flight at once
    MaxNodeAttempts,    \* MAX_NODE_ATTEMPTS
    MaxFailures,        \* MAX_CONSECUTIVE_FAILURES
    UnreachThreshold    \* TARGET_UNREACH_FAILOVER_THRESHOLD

ASSUME NodesAssumption ==
    IsFiniteSet(Registered) /\ Registered # {} /\ Steady \subseteq Registered
ASSUME AttemptsAssumption  == MaxNodeAttempts \in Nat \ {0}
ASSUME FailuresAssumption  == MaxFailures \in Nat \ {0}
ASSUME ThresholdAssumption == UnreachThreshold \in Nat \ {0}

VARIABLES
    answers,    \* environment: the node completes handshakes within the timeouts
    status,     \* Scheduler.nodes[..].status
    probe,      \* the prober's task for each node, with the status it saw
    onFails,    \* online_failures
    offFails,   \* consecutive_failures, counted up to MaxFailures
    opening,    \* the requests: step and candidates left to try
    unreach     \* target_unreach_counts of the target

prober == <<probe, onFails, offFails>>
vars   == <<answers, status, prober, opening, unreach>>

Statuses == {"online", "degraded", "offline"}

NoProbe == [res |-> "none"]
Probes  == {NoProbe} \cup [res : {"running", "reachable", "failed"}, seen : Statuses]

Idle == [pc |-> "idle", left |-> <<>>]

(* The sort key of get_nodes_by_priority.                                     *)
Rank(n) == CASE status[n] = "online"   -> 0
             [] status[n] = "degraded" -> 1
             [] status[n] = "offline"  -> 2

(* The orders get_nodes_by_priority may return (any order of the scores).     *)
ByPriority ==
    {order \in [1..Cardinality(Registered) -> Registered] :
        /\ \A i, j \in DOMAIN order : i # j => order[i] # order[j]
        /\ \A i, j \in DOMAIN order : i < j => Rank(order[i]) <= Rank(order[j])}

FirstAttempts(order) ==
    SubSeq(order, 1, IF Len(order) < MaxNodeAttempts THEN Len(order) ELSE MaxNodeAttempts)

(* register_nodes enters every node as Online.                                *)
Init ==
    /\ answers \in {a \in [Registered -> BOOLEAN] : \A n \in Steady : a[n]}
    /\ status = [n \in Registered |-> "online"]
    /\ probe = [n \in Registered |-> NoProbe]
    /\ onFails = [n \in Registered |-> 0] /\ offFails = [n \in Registered |-> 0]
    /\ opening = [r \in Openings |-> Idle]
    /\ unreach = 0

(* A node goes away or comes back.                                            *)
Flips(n) ==
    /\ n \notin Steady
    /\ answers' = [answers EXCEPT ![n] = ~@]
    /\ UNCHANGED <<status, prober, opening, unreach>>
-----------------------------------------------------------------------------
(* A round of the prober: one task per node, each with a copy of the node     *)
(* record taken now.                                                          *)
StartRound ==
    /\ \A n \in Registered : probe[n] = NoProbe
    /\ probe' = [n \in Registered |-> [res |-> "running", seen |-> status[n]]]
    /\ UNCHANGED <<answers, status, onFails, offFails, opening, unreach>>

ProbeEnds(n) ==
    /\ probe[n].res = "running"
    /\ probe' = [probe EXCEPT ![n].res = IF answers[n] THEN "reachable" ELSE "failed"]
    /\ UNCHANGED <<answers, status, onFails, offFails, opening, unreach>>

(* Mutant of ApplyOnline: at the limit the count is reset and nothing else    *)
(* happens.                                                                   *)
ApplyOnlineForgets(n) ==
    /\ probe[n].res \in {"reachable", "failed"}
    /\ probe[n].seen = "online"
    /\ LET fails == IF probe[n].res = "reachable" THEN 0 ELSE onFails[n] + 1
       IN  /\ onFails' = [onFails EXCEPT ![n] = IF fails >= MaxFailures THEN 0 ELSE fails]
           /\ status' = status
    /\ probe' = [probe EXCEPT ![n] = NoProbe]
    /\ UNCHANGED <<answers, offFails, opening, unreach>>

(* apply_online_probe: the result of a node that was Online when the round    *)
(* began.                                                                     *)
ApplyOnline(n) ==
    /\ probe[n].res \in {"reachable", "failed"}
    /\ probe[n].seen = "online"
    /\ LET fails == IF probe[n].res = "reachable" THEN 0 ELSE onFails[n] + 1
       IN  /\ onFails' = [onFails EXCEPT ![n] = IF fails >= MaxFailures THEN 0 ELSE fails]
           /\ status' = IF fails >= MaxFailures
                        THEN [status EXCEPT ![n] = "degraded"] ELSE status
    /\ probe' = [probe EXCEPT ![n] = NoProbe]
    /\ UNCHANGED <<answers, offFails, opening, unreach>>

(* Mutant of ApplyOffline: the count of failures outlives the recovery.       *)
ApplyOfflineKeepsCount(n) ==
    /\ probe[n].res \in {"reachable", "failed"}
    /\ probe[n].seen # "online"
    /\ LET fails == IF offFails[n] < MaxFailures THEN offFails[n] + 1 ELSE offFails[n]
       IN  IF probe[n].res = "reachable"
           THEN /\ offFails' = offFails
                /\ status' = [status EXCEPT ![n] = "online"]
           ELSE /\ offFails' = [offFails EXCEPT ![n] = fails]
                /\ status' = IF fails >= MaxFailures
                             THEN [status EXCEPT ![n] = "offline"] ELSE status
    /\ probe' = [probe EXCEPT ![n] = NoProbe]
    /\ UNCHANGED <<answers, onFails, opening, unreach>>

(* Mutant of ApplyOffline: a node that failed too often is given up.          *)
ApplyOfflineGivesUp(n) ==
    /\ probe[n].res \in {"reachable", "failed"}
    /\ probe[n].seen # "online"
    /\ IF probe[n].res = "reachable" /\ offFails[n] < MaxFailures
       THEN /\ offFails' = [offFails EXCEPT ![n] = 0]
            /\ status' = [status EXCEPT ![n] = "online"]
       ELSE /\ offFails' = [offFails EXCEPT ![n] = IF @ < MaxFailures THEN @ + 1 ELSE @]
            /\ status' = status
    /\ probe' = [probe EXCEPT ![n] = NoProbe]
    /\ UNCHANGED <<answers, onFails, opening, unreach>>

(* apply_offline_probe and record_failure: the result of a node that was not. *)
ApplyOffline(n) ==
    /\ probe[n].res \in {"reachable", "failed"}
    /\ probe[n].seen # "online"
    /\ LET fails == IF offFails[n] < MaxFailures THEN offFails[n] + 1 ELSE offFails[n]
       IN  IF probe[n].res = "reachable"
           THEN /\ offFails' = [offFails EXCEPT ![n] = 0]
                /\ status' = [status EXCEPT ![n] = "online"]
           ELSE /\ offFails' = [offFails EXCEPT ![n] = fails]
                /\ status' = IF fails >= MaxFailures
                             THEN [status EXCEPT ![n] = "offline"] ELSE status
    /\ probe' = [probe EXCEPT ![n] = NoProbe]
    /\ UNCHANGED <<answers, onFails, opening, unreach>>
-----------------------------------------------------------------------------
(* open_target for a new request.                                             *)
Open(r) ==
    /\ opening[r] = Idle
    /\ \E order \in ByPriority :
          opening' = [opening EXCEPT ![r] = [pc |-> "try", left |-> FirstAttempts(order)]]
    /\ UNCHANGED <<answers, status, prober, unreach>>

Trying(r) == opening[r].pc = "try"
Node(r)   == Head(opening[r].left)

(* The request r leaves the node it is at: on to the next, or give up.        *)
NextNode(r) ==
    opening' = [opening EXCEPT ![r] =
        IF Len(@.left) = 1 THEN Idle ELSE [pc |-> "try", left |-> Tail(@.left)]]

(* The target name cannot be encoded, or the node's reply not decoded: an     *)
(* error for the client, and no fault of the node (09-P3-3).                  *)
ProtocolFails(r) ==
    /\ Trying(r)
    /\ opening' = [opening EXCEPT ![r] = Idle]
    /\ UNCHANGED <<answers, status, prober, unreach>>

(* The node connects the target: the count of the target is cleared.          *)
Connected(r) ==
    /\ Trying(r)
    /\ answers[Node(r)]
    /\ unreach' = 0
    /\ opening' = [opening EXCEPT ![r] = Idle]
    /\ UNCHANGED <<answers, status, prober>>

(* Mutant of Unreachable: the node is blamed for the target (before R-01).    *)
UnreachableBlamesNode(r) ==
    /\ Trying(r)
    /\ answers[Node(r)]
    /\ opening' = [opening EXCEPT ![r].pc = "mark"]
    /\ UNCHANGED <<answers, status, prober, unreach>>

(* The node answers that the target is unreachable.  Below the threshold the  *)
(* request fails; at the threshold it tries the next node, once the count is  *)
(* reset (another acquisition of the lock).                                   *)
Unreachable(r) ==
    /\ Trying(r)
    /\ answers[Node(r)]
    /\ unreach' = unreach + 1
    /\ opening' = [opening EXCEPT ![r] =
          IF unreach' >= UnreachThreshold THEN [@ EXCEPT !.pc = "clear"] ELSE Idle]
    /\ UNCHANGED <<answers, status, prober>>

ClearUnreachable(r) ==
    /\ opening[r].pc = "clear"
    /\ unreach' = 0
    /\ NextNode(r)
    /\ UNCHANGED <<answers, status, prober>>

(* Sixty seconds without another failure: the count starts again.             *)
UnreachExpires ==
    /\ unreach # 0
    /\ unreach' = 0
    /\ UNCHANGED <<answers, status, prober, opening>>

(* The node does not answer: the request will mark it.                        *)
ConnectFails(r) ==
    /\ Trying(r)
    /\ ~answers[Node(r)]
    /\ opening' = [opening EXCEPT ![r].pc = "mark"]
    /\ UNCHANGED <<answers, status, prober, unreach>>

(* mark_node_offline, and on to the next node.                                *)
MarkOffline(r) ==
    /\ opening[r].pc = "mark"
    /\ status' = [status EXCEPT ![Node(r)] = "offline"]
    /\ NextNode(r)
    /\ UNCHANGED <<answers, prober, unreach>>

Probing == StartRound \/ \E n \in Registered : ProbeEnds(n) \/ ApplyOnline(n) \/ ApplyOffline(n)

Requesting ==
    \E r \in Openings :
        \/ Open(r) \/ ProtocolFails(r) \/ Connected(r) \/ Unreachable(r) \/ ClearUnreachable(r)
        \/ ConnectFails(r) \/ MarkOffline(r)

Next == Probing \/ Requesting \/ UnreachExpires \/ \E n \in Registered : Flips(n)

(* The prober's task runs for ever: it sleeps, probes (at most five seconds   *)
(* a node) and applies what it finds.  Nothing is assumed of requests.        *)
Fairness ==
    /\ WF_vars(StartRound)
    /\ \A n \in Registered : WF_vars(ProbeEnds(n)) /\ WF_vars(ApplyOnline(n) \/ ApplyOffline(n))

Spec == Init /\ [][Next]_vars /\ Fairness
-----------------------------------------------------------------------------
TypeOK ==
    /\ answers \in [Registered -> BOOLEAN]
    /\ status \in [Registered -> Statuses]
    /\ probe \in [Registered -> Probes]
    /\ onFails \in [Registered -> 0..MaxFailures - 1]
    /\ offFails \in [Registered -> 0..MaxFailures]
    /\ opening \in [Openings -> [pc : {"idle", "try", "clear", "mark"}, left : Seq(Registered)]]
    /\ \A r \in Openings : opening[r].pc # "idle" => opening[r].left # <<>>
    /\ unreach \in Nat

(* R-01, 09-P3-3: a node that has always answered is never taken out of       *)
(* service, whatever targets are asked for, however requests and probes       *)
(* interleave.                                                                *)
SteadyStaysOnline == \A n \in Steady : status[n] = "online"

(* The count of failed recovery probes of a node belongs to its present time  *)
(* out of service: it is gone once the node is Online, although requests take *)
(* nodes out of service behind the prober's back.                             *)
FailuresOfThisOutage == \A n \in Registered : status[n] = "online" => offFails[n] = 0

(* 06-P2-1, 07-P1-3: the count of a target that has reached the threshold is  *)
(* reset by the request that saw it, whatever other requests add in between.  *)
ResetAtThreshold ==
    (\A r \in Openings : opening[r].pc # "clear") => unreach < UnreachThreshold

(* A node that answers from some time on is Online from some time on.         *)
Recovers == \A n \in Registered : <>[]answers[n] => <>[](status[n] = "online")

(* A node that is gone for good ends up out of service, also without traffic  *)
(* (09-P2-3), and a late success does not keep it in.                         *)
DeadLeave == \A n \in Registered : <>[](~answers[n]) => <>[](status[n] # "online")
=============================================================================
