------------------------------- MODULE Android -------------------------------
(***************************************************************************)
(* The Android binding: the global VPN, its log ring, and HydraEngine, the *)
(* local SOCKS5 proxy that is used instead of the VPN.  They share no      *)
(* state the calls change; which one a behaviour looks at is chosen at the *)
(* start.                                                                  *)
(***************************************************************************)
EXTENDS VpnPlane, LogRing

VARIABLES
    part,      \* "vpn", "logs" or "engine"
    engine      \* HydraEngine: state "none" (not constructed), "off", "starting", "on"; its listener

androidVars == <<planeVars, logVars, part, engine>>

\* HydraEngine::new refuses what start_vpn refuses, and missing keys too; an address of a key that
\* does not parse is passed over, so its node has no key.
EngineValid(c) ==
    /\ c.nodes = "good"
    /\ c.global # "bad" /\ c.own # "badhex"
    /\ AuthKeysReady(c)
    /\ c.pin

AndroidInit ==
    /\ PlaneInit /\ LogInit
    /\ part \in {"vpn", "logs", "engine"}
    /\ engine = [state |-> "none", listener |-> FALSE]

EngineBecomes(e) == part = "engine" /\ engine' = e /\ UNCHANGED <<planeVars, logVars, part>>

NewEngine ==
    /\ engine.state = "none"
    /\ \E c \in VpnConfigs : EngineValid(c) /\ EngineBecomes([engine EXCEPT !.state = "off"])

\* start: the state is locked until the listener is bound or 5 s are over.
EngineStart == engine.state = "off" /\ EngineBecomes([engine EXCEPT !.state = "starting"])
EngineBinds ==
    /\ engine.state = "starting" /\ ~engine.listener
    /\ EngineBecomes([engine EXCEPT !.listener = TRUE])
EngineStarted ==
    /\ engine.state = "starting" /\ engine.listener
    /\ EngineBecomes([engine EXCEPT !.state = "on"])

\* Nothing bound in time: the runtime is dropped, and with it whatever it would still bind.
EngineFails ==
    /\ engine.state = "starting"
    /\ EngineBecomes([engine EXCEPT !.state = "off", !.listener = FALSE])

\* The accept loop returned; the handle stays.
EngineDies ==
    /\ engine.state = "on" /\ engine.listener
    /\ EngineBecomes([engine EXCEPT !.listener = FALSE])
EngineStop ==
    /\ engine.state = "on"
    /\ EngineBecomes([engine EXCEPT !.state = "off", !.listener = FALSE])

Engine == NewEngine \/ EngineStart \/ EngineBinds \/ EngineStarted \/ EngineFails
          \/ EngineDies \/ EngineStop

Vpn == part = "vpn" /\ PlaneNext /\ UNCHANGED <<logVars, part, engine>>
Logs == part = "logs" /\ LogNext /\ UNCHANGED <<planeVars, part, engine>>

AndroidNext == Vpn \/ Logs \/ Engine

\* A started call goes on, the runtime polls its task, and both threads look at the stop flag every
\* 100 ms.  Packets, failures, and the service's calls need not come.
Step(A) == A /\ UNCHANGED <<logVars, part, engine>>
Fairness ==
    /\ \A s \in 1..MaxVpnStarts :
         /\ WF_androidVars(s \in Sessions /\ Step(StartRefused(s) \/ StartAccepted(s) \/ StartReturns(s)))
         /\ WF_androidVars(s \in Sessions /\ Step(RuntimeDrops(s) \/ StopReturns(s)))
         /\ WF_androidVars(s \in Sessions /\ Step(OpenerFails(s) \/ StackEnds(s) \/ Joined(s) \/ Reports(s)))
         /\ WF_androidVars(s \in Sessions /\ Step(StackTakes(s)))
         /\ WF_androidVars(s \in Sessions /\ Step(ReaderSends(s)))
         /\ WF_androidVars(s \in Sessions /\ Step(ReaderStops(s)))
         /\ WF_androidVars(s \in Sessions /\ Step(WriterStops(s)))

AndroidSpec == AndroidInit /\ [][AndroidNext]_androidVars /\ Fairness

-----------------------------------------------------------------------------
\* Whatever order start_vpn and stop_vpn are called in, every TUN descriptor has an owner: the
\* transport's copy of it and those of its threads are open for the handle in VPN_STATE or for the
\* call in progress, so a second start neither replaces a running plane nor leaves its own descriptor
\* behind, and stop_vpn returns with the descriptor closed.  The rule-degraded flag is that of a
\* running VPN.  A stopped engine, or one whose start gave up, has no listener left.  Excused: a
\* jammed drop, a start that found no runtime, and a take-over that failed half-way, which may leave
\* the copy and the read thread behind although start_vpn means every error to close the descriptor.
DescriptorsOwned ==
    /\ \A s \in Sessions : Open(s) => handle = s \/ call.s = s \/ Jammed(s) \/ plane[s].failed
    /\ degraded => handle # 0 \/ call.op # "none" \/ noRuntime
    /\ engine.listener => engine.state \in {"starting", "on"}

\* FdTransport::shutdown: "both threads poll every 100 ms, the join takes one period at most and
\* never hangs".  The read thread may wait in blocking_send instead, for room in a channel whose
\* receiver is dropped only after the join.
DropEnds ==
    \A s \in 1..MaxVpnStarts :
      (s \in Sessions /\ plane[s].stack = "dropping") ~> (s \in Sessions /\ plane[s].stack # "dropping")

\* A data plane that is being torn down is gone in the end, and one that died by itself is reported to
\* the service, which reconnects on it (on_stack_exit), unless stop_vpn came or the drop jams.
DeathReported ==
    \A s \in 1..MaxVpnStarts :
      (s \in Sessions /\ plane[s].stack \in {"dropping", "ended"})
        ~> (s \in Sessions /\ (\/ Jammed(s)
                               \/ /\ plane[s].stack = "gone"
                                  /\ plane[s].told \/ plane[s].token \/ plane[s].quiet))

\* The service's cursor never skips an entry, over resets and evictions, and the numbers of the ring
\* rise without ever being given twice.
CursorSound ==
    \A i \in DOMAIN ring : /\ ring[i].seq < nextSeq
                           /\ ring[i].seq <= cursor => ring[i].seq \in pulled
                           /\ i > 1 => ring[i].seq > ring[i - 1].seq

\* The messages that the entries of p stand for.
Total(p) ==
    LET sum[i \in 0..Len(p)] == IF i = 0 THEN 0 ELSE sum[i - 1] + p[i].n
    IN  sum[Len(p)]

\* Folding loses no message: what was logged since the reset is in the ring's counts or was evicted.
FoldsCounted == pushed = dropped + Total(ring)

\* The log ring, as the service sees it through its cursor and as the counts add up.
LogsSound == CursorSound /\ FoldsCounted

=============================================================================
