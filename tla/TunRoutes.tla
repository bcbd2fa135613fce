------------------------------ MODULE TunRoutes ------------------------------
(* TUN mode from start to end (run_tun, hydra-client/src/tun.rs): the plan of *)
(* routes, its application with roll-back, the best-effort IPv6 routes and    *)
(* the guard that removes them all.  The routing table is the system's: an    *)
(* `ip route add` of a route that is there fails, and routes through the TUN  *)
(* device go with the device.  The process may be killed at any time.         *)
EXTENDS Naturals, Sequences, SequencesExt, Sublists

CONSTANTS
    Exempt,         \* exclude_routes and the private networks, a sequence
    Exempt6,        \* exclude_routes_v6
    MaxStarts       \* bound: how often TUN mode is started

ASSUME RoutesAssumption ==
    Exempt \in Seq(ToSet(Exempt)) /\ Exempt6 \in Seq(ToSet(Exempt6))

Takeover  == <<"0/1", "128/1">>
Takeover6 == <<"::/1", "8000::/1">>
Through   == ToSet(Takeover \o Takeover6)       \* their gateway is the device

VARIABLES
    phase,      \* off, apply, undo, apply6, run, clean
    at,         \* index of the command that is next
    plan, plan6,    \* RoutePlan.add and .remove, RoutePlanV6
    table,      \* the system's routing table
    own,        \* history: routes this process added and has not removed
    failed,     \* history: a removal failed
    starts      \* history: how often it was started

routeVars == <<phase, at, plan, plan6, table, own, failed, starts>>

RoutesInit ==
    /\ phase = "off" /\ at = 1 /\ plan = <<>> /\ plan6 = <<>>
    /\ table = {} /\ own = {} /\ failed = FALSE /\ starts = 0

(* compute_routes and compute_routes_v6: without a gateway no exemptions.     *)
ComputeRoutes(gw)  == Takeover \o (IF gw THEN Exempt ELSE <<>>)
ComputeRoutes6(on, gw) == IF on THEN Takeover6 \o (IF gw THEN Exempt6 ELSE <<>>) ELSE <<>>

(* Without a gateway TUN mode is refused, or it would capture its own         *)
(* connections to the node.                                                   *)
MayStartAnyway(gw) == TRUE
MayStart(gw) == gw \/ Exempt = <<>>
Start ==
    \E gw, gw6, v6 \in BOOLEAN :
        /\ phase = "off" /\ starts < MaxStarts /\ MayStart(gw)
        /\ phase' = "apply" /\ at' = 1 /\ starts' = starts + 1
        /\ plan' = ComputeRoutes(gw) /\ plan6' = ComputeRoutes6(v6, gw6)
        /\ own' = {} /\ failed' = FALSE /\ UNCHANGED table

Adds(r)    == table' = table \cup {r} /\ own' = own \cup {r}
Removes(r) == table' = table \ {r} /\ own' = own \ {r}
Jump(p, i) == phase' = p /\ at' = i

(* apply_routes.                                                              *)
Apply ==
    /\ phase = "apply" /\ at <= Len(plan)
    /\ plan[at] \notin table /\ Adds(plan[at])
    /\ IF at < Len(plan) THEN Jump("apply", at + 1) ELSE Jump("apply6", 1)
    /\ UNCHANGED <<plan, plan6, failed, starts>>
ApplyFails ==
    /\ phase = "apply" /\ at <= Len(plan)
    /\ Jump("undo", 1) /\ plan' = SubSeq(plan, 1, at - 1)
    /\ UNCHANGED <<plan6, table, own, failed, starts>>

(* One removal of a list, which may fail; the list goes on.                   *)
RemoveNext(list) ==
    /\ at <= Len(list) /\ at' = at + 1
    /\ \/ Removes(list[at]) /\ UNCHANGED failed
       \/ failed' = TRUE /\ UNCHANGED <<table, own>>
    /\ UNCHANGED <<phase, plan, plan6, starts>>

Undo == phase = "undo" /\ RemoveNext(plan)

(* The device is closed, with it go the routes through it; unless a task      *)
(* still holds it.                                                            *)
DeviceGone(held) ==
    /\ table' = IF held THEN table ELSE table \ Through
    /\ own' = IF held THEN own ELSE own \ Through
GiveUp ==
    /\ phase = "undo" /\ at > Len(plan)
    /\ DeviceGone(FALSE) /\ Jump("off", 1) /\ plan' = <<>> /\ plan6' = <<>>
    /\ UNCHANGED <<failed, starts>>

(* apply_routes_v6_try: a failure is counted and nothing more.                *)
Apply6 ==
    /\ phase = "apply6" /\ at <= Len(plan6) /\ at' = at + 1
    /\ \/ plan6[at] \notin table /\ Adds(plan6[at])
       \/ UNCHANGED <<table, own>>
    /\ UNCHANGED <<phase, plan, plan6, failed, starts>>
Runs ==
    /\ phase = "apply6" /\ at > Len(plan6) /\ Jump("run", 1)
    /\ UNCHANGED <<plan, plan6, table, own, failed, starts>>

(* run_stack returns or panics: the guard's drop cleans up, the routes that   *)
(* capture traffic first (takeover_first).                                    *)
TakeoverFirst(p) == Only(p, Through) \o Only(p, ToSet(p) \ Through)
CleanList == TakeoverFirst(plan) \o TakeoverFirst(plan6)
Stop ==
    /\ phase = "run" /\ Jump("clean", 1)
    /\ UNCHANGED <<plan, plan6, table, own, failed, starts>>
Clean == phase = "clean" /\ RemoveNext(CleanList)
Ends(held) ==
    /\ phase = "clean" /\ at > Len(CleanList)
    /\ DeviceGone(held) /\ Jump("off", 1) /\ plan' = <<>> /\ plan6' = <<>>
    /\ UNCHANGED <<failed, starts>>

(* The process is killed: no guard runs.                                      *)
Kill ==
    /\ phase # "off" /\ Jump("off", 1) /\ plan' = <<>> /\ plan6' = <<>>
    /\ table' = table \ Through /\ own' = {} /\ UNCHANGED <<failed, starts>>

RoutesSteps ==
    Apply \/ ApplyFails \/ Undo \/ GiveUp \/ Apply6 \/ Runs \/ Clean

-----------------------------------------------------------------------------
(* While traffic is captured and the stack runs, the nodes are reached past   *)
(* the device (l. 3575: anything else is a loop through itself).              *)
NodesExempt == phase = "run" => ToSet(Takeover \o Exempt) \subseteq table

(* A start that failed, or a run that ended, leaves no route of its own       *)
(* behind, unless a removal failed.                                           *)
NothingLeft == phase = "off" => failed \/ own = {}

RoutesSound == NodesExempt /\ NothingLeft
=============================================================================
