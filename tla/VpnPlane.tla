------------------------------ MODULE VpnPlane ------------------------------
(***************************************************************************)
(* The Android binding's global VPN (hydra-android/src/lib.rs): start_vpn  *)
(* and stop_vpn, called by the Kotlin service from any thread, and the     *)
(* data plane they create: the stack's task, the thread that reads the TUN *)
(* descriptor and the one that writes it.  Both calls hold VPN_STATE for   *)
(* their whole length.  The service is external: it calls in any order.    *)
(***************************************************************************)
EXTENDS Naturals, Sequences

CONSTANTS MaxVpnStarts,    \* bound: calls of start_vpn
          ChanCap         \* CHAN_CAP: packets between the read thread and the stack

ASSUME PlaneAssumption == MaxVpnStarts \in Nat /\ ChanCap \in Nat \ {0}

VARIABLES
    call,       \* the call that holds VPN_STATE: op "none", "start" or "stop", its session, and for
                \* a start what its configuration comes to
    handle,     \* the session whose VpnHandle VPN_STATE holds, 0 for none
    plane,      \* one record for each descriptor taken over
    degraded,   \* VPN_RULE_DEGRADED
    noRuntime   \* history: a runtime could not be built

planeVars == <<call, handle, plane, degraded, noRuntime>>

Call(op, s, valid, builtin) == [op |-> op, s |-> s, valid |-> valid, builtin |-> builtin]
Idle == Call("none", 0, FALSE, FALSE)
Sessions == DOMAIN plane

\* What start_vpn is given, by what it tells apart.
VpnConfigs ==
    [addrs: BOOLEAN,                            \* addr4 and addr6 parse
     nodes: {"good", "partly", "bad", "none"},
     global: {"good", "bad", "none"},           \* auth_key_hex
     own: {"all", "some", "badhex", "badaddr"}, \* node_auth_keys
     pin: BOOLEAN,                              \* Pinned has a certificate, or PublicCa
     rules: {"off", "file", "missing"}]         \* rule_mode and rule_file

\* resolve_vpn_nodes: a list that parses in part is refused too.
ResolveVpnNodes(c) == c.nodes = "good"

\* The validations of start_vpn, in whose failure nothing but the descriptor has to be given back.
ValidConfig(c) ==
    /\ c.addrs /\ c.nodes # "none"
    /\ c.global # "bad" /\ c.own \notin {"badhex", "badaddr"}
    /\ c.pin
    /\ ResolveVpnNodes(c)

\* auth_keys_ready: asked by tun_channel_opener, not by start_vpn.
AuthKeysReady(c) == c.global = "good" \/ c.own = "all"

\* build_rule_engine: without a usable file the built-in rules stand in, visibly.
BuiltInRules(c) == c.rules = "missing"

\* FdTransport::new: the descriptor is taken over, a raw copy of it made, and its two threads run.
NewPlane(c) ==
    [stack |-> "new",       \* "new", "run", "dropping", "ended", "gone"
     reader |-> "poll",     \* "poll", "full": a packet is in blocking_send, "gone"
     writer |-> "run", inq |-> 0,
     copy |-> TRUE,         \* FdStop.raw_fd is open: trigger closes it, nothing else does
     failed |-> FALSE,      \* new() returned an error instead
     stopped |-> FALSE,     \* FdStop
     token |-> FALSE,       \* the CancellationToken
     told |-> FALSE,        \* on_stack_exit was called
     quiet |-> FALSE,       \* the task was dropped by the runtime: nobody is left to call it
     keyed |-> AuthKeysReady(c)]

\* What a failing FdTransport::new leaves: nothing when the descriptor cannot be copied; the raw copy
\* when the read thread cannot be started; and that thread too when the write thread cannot.
Leftover(reader, copy) ==
    [stack |-> "gone", reader |-> reader, writer |-> "gone", inq |-> 0, copy |-> copy,
     failed |-> TRUE, stopped |-> FALSE, token |-> FALSE, told |-> FALSE, quiet |-> TRUE,
     keyed |-> FALSE]
Leftovers == {Leftover("gone", FALSE), Leftover("gone", TRUE), Leftover("poll", TRUE)}

PlaneInit == call = Idle /\ handle = 0 /\ plane = <<>> /\ degraded = FALSE /\ noRuntime = FALSE

Held(op, s) == call.op = op /\ call.s = s
Threads(s) == plane[s].reader # "gone" \/ plane[s].writer # "gone"

\* The TUN descriptor is still open in this process.
Open(s) == Threads(s) \/ plane[s].copy

\* The read thread waits for room that nobody makes any more: the transport is being dropped.
Jammed(s) == plane[s].stack = "dropping" /\ plane[s].reader = "full" /\ plane[s].inq = ChanCap

\* FdTransport's Drop begins: FdStop::trigger.
Triggered(p) == [p EXCEPT !.stack = "dropping", !.stopped = TRUE, !.copy = FALSE]

\* The transport and the task are gone, the packets left in the channel with them.
Gone(p) == [p EXCEPT !.stack = "gone", !.inq = 0, !.keyed = FALSE]

-----------------------------------------------------------------------------
(* start_vpn *)

\* VPN_STATE is locked, and the descriptor taken over before anything can fail.
StartVpn ==
    /\ call = Idle /\ Len(plane) < MaxVpnStarts
    /\ \E c \in VpnConfigs :
         /\ plane' = Append(plane, NewPlane(c))
         /\ call' = Call("start", Len(plane) + 1, ValidConfig(c), BuiltInRules(c))
    /\ UNCHANGED <<handle, degraded, noRuntime>>

\* The take-over fails, and start_vpn with it.
TakeoverFails ==
    /\ call = Idle /\ Len(plane) < MaxVpnStarts
    /\ \E left \in Leftovers : plane' = Append(plane, left)
    /\ UNCHANGED <<call, handle, degraded, noRuntime>>

\* "Already running", an invalid configuration, or no runtime (after build_rule_engine stored its
\* flag): the transport is dropped, with VPN_STATE still locked.
StartRefused(s) ==
    /\ Held("start", s) /\ plane[s].stack = "new"
    /\ \/ /\ handle # 0 \/ ~call.valid
          /\ UNCHANGED <<degraded, noRuntime>>
       \/ /\ handle = 0 /\ call.valid
          /\ degraded' = call.builtin /\ noRuntime' = TRUE
    /\ plane' = [plane EXCEPT ![s] = [Triggered(@) EXCEPT !.quiet = TRUE]]
    /\ UNCHANGED <<call, handle>>

\* Mutant: a second VPN may start.
StartAcceptedTwice(s) ==
    /\ Held("start", s) /\ plane[s].stack = "new" /\ call.valid
    /\ handle' = s /\ degraded' = call.builtin
    /\ plane' = [plane EXCEPT ![s].stack = "run"]
    /\ call' = Idle
    /\ UNCHANGED noRuntime

\* The task is spawned and the handle stored.
StartAccepted(s) ==
    /\ Held("start", s) /\ plane[s].stack = "new"
    /\ handle = 0 /\ call.valid
    /\ handle' = s /\ degraded' = call.builtin
    /\ plane' = [plane EXCEPT ![s].stack = "run"]
    /\ call' = Idle
    /\ UNCHANGED noRuntime

\* The refused call returns once its transport is gone.
StartReturns(s) ==
    /\ Held("start", s) /\ plane[s].stack = "gone"
    /\ call' = Idle
    /\ UNCHANGED <<handle, plane, degraded, noRuntime>>

-----------------------------------------------------------------------------
(* The task that start_vpn spawns *)

Becomes(s, p) == plane' = [plane EXCEPT ![s] = p] /\ UNCHANGED <<call, handle, degraded, noRuntime>>

\* Nodes are registered and no opener can be made for want of keys: reported, then dropped.
OpenerFails(s) ==
    /\ plane[s].stack = "run" /\ ~plane[s].keyed
    /\ Becomes(s, [Triggered(plane[s]) EXCEPT !.told = TRUE])

\* run_stack takes a packet (FdTransport::recv).
StackTakes(s) ==
    /\ plane[s].stack = "run" /\ plane[s].keyed /\ plane[s].inq > 0
    /\ Becomes(s, [plane[s] EXCEPT !.inq = @ - 1])

\* run_stack returns: the token, the read thread's end, or an error of its own.  A failed write is
\* only logged.
StackEnds(s) ==
    /\ plane[s].stack = "run" /\ plane[s].keyed
    /\ plane[s].token \/ (plane[s].reader = "gone" /\ plane[s].inq = 0)
    /\ Becomes(s, Triggered(plane[s]))

StackFails(s) ==
    /\ plane[s].stack = "run" /\ plane[s].keyed
    /\ Becomes(s, Triggered(plane[s]))

\* FdTransport::shutdown: both threads are joined.
Joined(s) ==
    /\ plane[s].stack = "dropping" /\ ~Threads(s)
    /\ Becomes(s, IF plane[s].quiet \/ plane[s].told THEN Gone(plane[s])
                  ELSE [plane[s] EXCEPT !.stack = "ended"])

\* Mutant: the task ends without the callback.
ReportsNot(s) == plane[s].stack = "ended" /\ Becomes(s, Gone(plane[s]))

\* on_stack_exit, for whatever reason run_stack returned.
Reports(s) ==
    /\ plane[s].stack = "ended"
    /\ Becomes(s, [Gone(plane[s]) EXCEPT !.told = TRUE])

-----------------------------------------------------------------------------
(* The two threads *)

\* A packet is there (poll) and the stop flag is not set: it is read.
ReaderReads(s) ==
    /\ plane[s].reader = "poll" /\ ~plane[s].stopped
    /\ Becomes(s, [plane[s] EXCEPT !.reader = "full"])

\* in_tx.blocking_send: waits while the channel is full and its receiver, the transport's, is there.
ReaderSends(s) ==
    /\ plane[s].reader = "full" /\ plane[s].inq < ChanCap /\ plane[s].stack # "gone"
    /\ Becomes(s, [plane[s] EXCEPT !.reader = "poll", !.inq = @ + 1])

\* Nobody receives any more, which fails the send.
ReaderRefused(s) ==
    /\ plane[s].reader = "full" /\ plane[s].stack = "gone"
    /\ Becomes(s, [plane[s] EXCEPT !.reader = "gone"])

\* The stop flag, looked at every 100 ms.
ReaderStops(s) ==
    /\ plane[s].reader = "poll" /\ plane[s].stopped
    /\ Becomes(s, [plane[s] EXCEPT !.reader = "gone"])

\* End of file or an error: the interface was taken away.
ReaderFails(s) ==
    /\ plane[s].reader = "poll"
    /\ Becomes(s, [plane[s] EXCEPT !.reader = "gone"])

WriterStops(s) ==
    /\ plane[s].writer = "run" /\ plane[s].stopped
    /\ Becomes(s, [plane[s] EXCEPT !.writer = "gone"])

\* write_all failed.
WriterFails(s) ==
    /\ plane[s].writer = "run"
    /\ Becomes(s, [plane[s] EXCEPT !.writer = "gone"])

-----------------------------------------------------------------------------
(* stop_vpn *)

\* The handle is taken and its token cancelled; shutdown_timeout begins.
StopVpn ==
    /\ call = Idle /\ handle # 0
    /\ call' = Call("stop", handle, FALSE, FALSE) /\ handle' = 0
    /\ plane' = [plane EXCEPT ![handle].token = TRUE]
    /\ UNCHANGED <<degraded, noRuntime>>

\* The runtime drops the task where it waits, its transport with it; nothing is reported.
RuntimeDrops(s) ==
    /\ Held("stop", s) /\ plane[s].stack = "run"
    /\ Becomes(s, [Triggered(plane[s]) EXCEPT !.quiet = TRUE])

\* shutdown_timeout returns: the workers are done, or 3 s are over, which a jammed drop needs.
StopReturns(s) ==
    /\ Held("stop", s)
    /\ plane[s].stack = "gone" \/ Jammed(s)
    /\ call' = Idle /\ degraded' = FALSE
    /\ UNCHANGED <<handle, plane, noRuntime>>

-----------------------------------------------------------------------------
Task(s) == OpenerFails(s) \/ StackTakes(s) \/ StackEnds(s) \/ StackFails(s) \/ Joined(s) \/ Reports(s)
ReadThread(s) == \/ ReaderReads(s) \/ ReaderSends(s) \/ ReaderRefused(s)
                 \/ ReaderStops(s) \/ ReaderFails(s)
WriteThread(s) == WriterStops(s) \/ WriterFails(s)

PlaneNext ==
    \/ StartVpn \/ TakeoverFails \/ StopVpn
    \/ \E s \in Sessions :
         \/ StartRefused(s) \/ StartAccepted(s) \/ StartReturns(s)
         \/ RuntimeDrops(s) \/ StopReturns(s)
         \/ Task(s) \/ ReadThread(s) \/ WriteThread(s)
=============================================================================
