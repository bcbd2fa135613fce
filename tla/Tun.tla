--------------------------------- MODULE Tun ---------------------------------
(* TUN mode as a whole: run_tun sets the routes, runs the stack and cleans up *)
(* after it, and the stack carries connections, datagrams and other packets.  *)
(* These share nothing but the turns of the loop, so a behaviour looks at one *)
(* kind of traffic, or at none and at the routes over several starts, or at   *)
(* the rules that rule mode builds before it and asks for each connection.    *)
EXTENDS TunFlows, TunNat, TunPackets, TunRoutes, RuleEngine

VARIABLE traffic

stackVars == <<flowVars, natVars, packetVars>>
vars == <<stackVars, routeVars, ruleVars, traffic>>
fixed == <<ruleVars, traffic>>

Init ==
    /\ FlowsInit /\ NatInit /\ PacketsInit /\ RoutesInit /\ RulesInit
    /\ traffic \in {"tcp", "udp", "packets", "none", "rules"}
    /\ traffic # "udp" => form = "nothing"
    /\ traffic # "packets" => cfg = [ipv6 |-> TRUE, relay |-> TRUE, rules |-> TRUE, private |-> FALSE]

Begins ==
    /\ traffic # "rules" /\ Start /\ (traffic # "none" => starts = 0 /\ plan6' = <<>>)
    /\ UNCHANGED <<stackVars, fixed>>
Routes == (RoutesSteps \/ Ends(Pumping # {})) /\ UNCHANGED <<stackVars, fixed>>

Stack(kind) == phase = "run" /\ traffic = kind
Tcp     == Stack("tcp") /\ FlowsNext /\ UNCHANGED <<natVars, packetVars, routeVars, fixed>>
Udp     == Stack("udp") /\ NatNext /\ UNCHANGED <<flowVars, packetVars, routeVars, fixed>>
Others  == Stack("packets") /\ PacketsNext /\ UNCHANGED <<flowVars, natVars, routeVars, fixed>>

(* The rule file is read before the stack starts, and not again.              *)
Rules == traffic = "rules" /\ RulesNext /\ UNCHANGED <<stackVars, routeVars, traffic>>

(* Pumps that run_stack has left behind go on.                                *)
Leftover == phase # "run" /\ PumpSteps /\ UNCHANGED <<flowVars, packetVars, routeVars, fixed>>

(* shutdown is cancelled, or step() fails.                                    *)
Stops == Stop /\ FlowsEnd /\ NatEnd /\ PacketsEnd /\ UNCHANGED fixed
Crash ==
    /\ Kill /\ FlowsEnd /\ NatEnd /\ PacketsEnd /\ UNCHANGED fixed

Next == Begins \/ Routes \/ Tcp \/ Udp \/ Others \/ Rules \/ Leftover \/ Stops \/ Crash

(* The loop wakes up every 10 ms and time passes; nothing is assumed of the   *)
(* tasks, the node or the applications.                                       *)
LoopRuns == Stack("tcp") /\ Loop /\ UNCHANGED <<natVars, packetVars, routeVars, fixed>>
TimePasses(h) ==
    /\ Stack("tcp") /\ flow[h] # NoFlow /\ Ages(h)
    /\ UNCHANGED <<natVars, packetVars, routeVars, fixed>>
Fairness == WF_vars(LoopRuns) /\ \A h \in Slots : WF_vars(TimePasses(h))

Spec == Init /\ [][Next]_vars /\ Fairness

-----------------------------------------------------------------------------
(* Of the datagrams sent out directly, as long as the stack runs (TunNat).    *)
NatHolds == phase = "run" => NatSound

=============================================================================
