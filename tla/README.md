# Hydra: TLA+ models, checks and proofs

Hydra is a multipath proxy. A client on the user's machine (local HTTP/SOCKS5
proxy, or a TUN device with its own TCP/IP stack) sends every connection through
one of several nodes over TLS with a Noise-PSK handshake inside; a node dials the
target and relays. This directory holds TLA+ models of the parts that carry the
system's own logic, TLC configurations that check them on small instances, and
proofs that TLAPS checks for every size.

`PROJECT.json` is the index: components, runs, the source lines every definition
models, hazards, findings, theorems, and for every property a mutant of the model
that violates it. Mutants are operators in the modules marked "Mutant"; no
specification uses them.

## 1. Inventory

| Component | State | Operations | Talks to | Hard behaviour | What makes it correct |
|---|---|---|---|---|---|
| UDP channel, client (`hydra-core/udp_relay.rs`, `udp_relay_task` in `hydra-client/tun.rs`) | map flow -> session id, `next_sid`, LRU order, flow table by id, position of the frame reader | send on a mapped / new / evicted id, receive, sweep, reconnect | node, over one TLS stream | ids run out and are recycled while replies are under way; `select!` cancels a read | ids distinct, both tables agree, a reply reaches its own flow |
| UDP relay, node (`hydra-node/udp_relay.rs`) | session table, per-session tasks and sockets, notices of dead sessions, writer lock | open, forward, reply, reap, report, close | client, targets | lock released between check and insert; tasks die while their id is reused | table bounded, dead sessions leave, answers only what was asked |
| Scheduler and prober (`scheduler.rs`, `speedtest.rs`) | status of each node, two failure counters | probe round, apply results | requests | results applied on a status copied earlier | status follows the node in the long run |
| Requests (`open_target` in `proxy.rs`) | candidates left, counts of unreachable targets | try the next node, blame node or target | scheduler, pool | many requests race the prober | a healthy node is never blamed |
| TCP relay, client (`relay_bidirectional`) | two tasks, drain state | read, write, half close, drain, abort | application, node | one direction ends while data is under way in the other | end of stream only after all data |
| TCP relay, node (`pump` in `tcp_server.rs`) | two pumps, `peer_done`, last activity | read, write, half close, expire, notify | client, target | blocked writes, idle and age limits shared by both pumps | ends, and truncates nothing that was not given up |
| Downloader (`hydra-fetch`) | chunks done (memory, state file), `.part` file, worker pool, flags | probe, rounds, retry, save, place | nodes, HTTP server, disk | crash and resume, changing content, saves out of order | an output is complete and of one version |
| Node accept and set-up (`tcp_server.rs`, `handler.rs`, `fallback.rs`) | permits, per-address counts, stage of each connection | accept, shed, TLS and Noise handshake, decoy page, request, dispatch | DNS cache, relay, signalling | early returns must give everything back; silent peers | no place leaked or refused while free; every stage ends |
| DNS cache and dial of the node (`dns_cache.rs`, `handler.rs`) | entries by age, queue of lookups | look up, expire, evict, filter, dial | set-up, UDP relay | entries shared by all connections, put there unfiltered; queue limit | no refused address is dialled; every wait ends |
| Local front end (`proxy.rs`) | stage and buffers of each connection, registry | detect, SOCKS5, CONNECT, plain HTTP, captured flow; pick, dial, answer | pool, failover, rules | requests in pieces; failing nodes | the stream is kept, one answer per request |
| Warm pool (`pool.rs`) | idle connections per node, adaptive size, refills in flight | check out, refill, expire | requests | refill races check-out; half-open connections | within its capacity, transparent to requests |
| TUN TCP flows (`tun.rs`) | flow table, smoltcp sockets, channels up and down, three tasks per flow | SYN, data, close, reset, sweep | node channel, rules | tasks run between the passes of a step; back pressure over two stacks | no lost bytes, right target, slots returned |
| TUN direct UDP NAT (`tun.rs`) | sessions by source, allow lists, pumps | send, receive, evict, sweep | sockets, UDP relay | abort in the middle of a reply | a pump per session, replies only from noted peers |
| TUN packets and routes (`tun.rs`) | interface addresses, routing table, plan | dispatch a packet; apply, roll back, clean | system | commands fail, the process is killed | lawful errors, live addresses stay, no loop, no route left |
| Signalling (`signal.rs`) | registry of peers | register, replace, forward, sweep, leave | peers | late clean-up of a replaced registration; a peer that does not read | a registration is removed by its owner only; a forward ends |
| Routing rules (`routing_rules.rs`, `routing.rs`) | rules, merged ranges | parse, merge, look up, decide | front end, TUN | overlaps and boundaries of ranges | index and rules agree |
| Android binding (`hydra-android/lib.rs`) | `VPN_STATE`, threads of a descriptor, log ring | start, stop, exit callback, log, pull | TUN, Kotlin service | start fails half way, stop races the stack's end | every descriptor owned, deaths reported, no entry skipped |
| Handshake and codecs (`hydra-protocol`) | handshake step | seal, open, encode, decode | all | order of messages | (cryptography is out of reach) |
| Desktop session (`proxy_control.rs`, `tray.rs`, `*_proxy.rs`) | session fields, proxy thread, signal channels, system proxy slot | start, stop, poll, toggle, quit, die | proxy, TUN, system settings | batches of signals; the process dies | the user's settings return, sessions do not overlap |
| Desktop library (`groups.rs`, `subscription_actions.rs`, `node_test.rs`) | nodes, claims, dialogs, update and test queues | import, update, rename, delete, test | files, HTTP | results that come late | names distinct, hand-made nodes stay, queues move |
| Drawing, share links, certificates, metrics | settings, files | - | - | - | not modelled: no protocol state |

## 2. Modules

| Module | Models | Composition |
|---|---|---|
| `UdpWire` | frames and the two FIFO directions of the stream | used by both sides |
| `UdpChannel` | the client's channel; beside it `AnyNode`, the abstract node that answers what it was asked | `ChannelSpec` is also the abstract specification for `UdpRelay` |
| `UdpNode` | the node's relay, with any client | |
| `UdpRelay` | both on one stream | EXTENDS the two; implements `ChannelSpec` |
| `Failover` | status table, prober, requests | |
| `RelayLinks` | three connections, application and target | used by both relays |
| `ClientRelay`, `NodePump` | the two relays | |
| `TcpRelay` | application - client - node - target | EXTENDS the two |
| `Fetch` | successive runs of one download command | |
| `Admission` | abstract: which connections a node serves | `Promise` of `NodeServer` |
| `Signal` | registry and forwarding of signalling | |
| `NodeServer` | a connection at the node from accept to service, DNS cache, dial | EXTENDS `Signal`; implements `Admission` (`INSTANCE ... WITH`) |
| `WarmPool` | idle connections and their replenishment | |
| `FrontEnd` | local connections up to the relay, registry | EXTENDS `WarmPool` |
| `TunFlows`, `TunNat`, `TunPackets`, `TunRoutes`, `RuleEngine`, `Sublists` | TCP flows; direct datagrams; other packets; routes; rules; filtered lists | |
| `Tun` | TUN mode from start to end | EXTENDS the five |
| `SystemProxy`, `ProxyControl` | the system's settings; the session, its thread and the frame | the second EXTENDS the first |
| `NodeBook`, `NodeTests` | nodes and subscriptions; tests of nodes | the second EXTENDS the first |
| `Desktop` | the UI thread | EXTENDS `ProxyControl` and `NodeTests` |
| `VpnPlane`, `LogRing` | start_vpn and stop_vpn; the log ring | |
| `Android` | the binding, with HydraEngine | EXTENDS the two |
| `UdpRelayProofs`, `FailoverProofs`, `TcpProofs`, `FetchProofs`, `NodeServerProofs`, `DesktopProofs`, `AndroidProofs`, `TunProofs` | theorems | EXTEND the module they are about (`TcpProofs`: `TcpRelay` and `FrontEnd`), and TLAPS |
| `MCUdpRelay`, `MCNodeServer`, `MCTun` | instances for TLC | EXTEND the module they are named for |
| `MCClient`, `MCApps`, `MCFetchUdp` | two modules each in one run | `FrontEnd` and `Failover`; `Desktop` and `Android`; `Fetch` and `UdpNode` |

`Tun`, `Desktop` and `Android` put parts beside each other that share a loop or a
process and hardly any state. A behaviour of these looks at one part, chosen in
`Init` (`traffic`, `focus`, `part`); what they do share (the life of the stack, the list
of nodes) is shared in the model too. The instances `MCClient`, `MCApps` and `MCFetchUdp`
do the same with modules that share nothing: the ports and the choice of nodes, the two
applications, the downloader and the node's UDP relay. One run then checks both, each on
its own states and under its own fairness, and every behaviour of either module occurs.

### How state and actions correspond to the code

*UDP.* `sessions`, `nextSid`, `lru` are the fields of `UdpChannel`; `bySid` is the
flow table of `udp_relay_task`; `rd` is where `read_udp_frame` stands between its
two `read_exact` calls. A send is one action per branch of `send_to_keyed`
(`SendMapped`, `SendAllocate`, `SendEvict`), with the close frame of an evicted id
before the data. A datagram is reduced to the flow it belongs to. `recycled` and
`asked` are history. On the node every `await` that another task can use separates
two actions: looking up and binding, removing an id and writing its close frame,
failing and reporting. A session has a generation, so that the model can tell an
entry from a later one under the same id; the code cannot, and no guard looks at it
where the code does not.

*Failover.* A round of the prober copies the statuses (`StartRound`), probes end one
by one (`ProbeEnds`), and results are applied to the table as it is then
(`ApplyOnline`, `ApplyOffline`, chosen by the status that was copied). A request
takes up to MAX_NODE_ATTEMPTS candidates in order of status; scores are floating
point, so that the order within a status is left open. Counting an unreachable
target and clearing the count are two actions, because the lock is taken twice.
`answers` is the environment: a node outside `Steady` comes and goes.

*TCP relay.* A direction of a connection holds up to `Cap` chunks; a write waits for
room. Its end is `fin` (orderly), `cut` (lost) or `gone` (reader's socket dropped).
`cut` (the variable) records that a connection was lost, or that a relay gave a
direction up at a timeout. `owed` counts what was sent and has not arrived.
Time is one bit, `quiet` (the idle or age limit has been reached), and a write that
has waited long enough may time out.

*Fetch.* A chunk in a file is the version it was cut from, a hole, or torn.
The queue of a round is the set `round.jobs`, from which a worker takes the smallest
chunk: `cursor` walks a list in the order of the chunks and no job is put back.
`pending` holds the last write of each finished body: `tokio::fs::File` hands writes
to a thread pool and `write_all` returns before they are through; nothing in
hydra-fetch flushes, and `main` leaves through `process::exit`. A validator is
`Tag[v]`, ETag and Last-Modified in one. `server` may change its content at any
time. `excused` records the four events after which an output may be damaged. The
stream of a single download is one step: what a crash in the middle leaves is what a
failure in the middle leaves.

*Node.* `pc[c]` is where the task of connection `c` awaits; an action runs from one
await to the next. The permit and the count of the address are dropped one after the
other, in the order of declaration, which is why `Admission` has `leaving`. `told[c]`
is what the peer has been sent. A client may send, be silent or close at each stage;
a timeout is always possible where the code has one. The page, the answer of a
handshake and the reply to a request are written without a timeout of their own;
they are a few hundred bytes to a few KB into an empty socket, and the model takes
them for done. In `Signal` a queue is identified with the connection that owns it,
as `remove_if_downlink` does with `same_channel`.

*Front end.* An application's stream is a sequence of abstract units (greeting,
request head, body parts) and a read takes any non-empty prefix of what is there.
`fwd` is what has gone to the target. `Pick` stands for one round of `open_target`'s
loop; that choice among nodes is `Failover`'s subject, here one node that may fail
is enough. In `WarmPool` age is one bit (past its time or not).

*TUN.* `step()` is two actions, `Pump` and `Poll`, because tasks of other threads can
send between its two passes. Bytes are counted, not numbered, since each channel is a
FIFO. smoltcp is modelled from how the loop uses it: sockets listen, are half open,
established, closed. `TunNat` separates each await of a pump, and `abort()` takes
effect at one of them. In `TunRoutes` the routing table is a set; adding a route that
is there fails, and routes through the device go with it. `RuleEngine` reads a file
line by line, builds the index as `finalize` does, and is asked for every address and
name of the instance.

*Desktop.* The frame is a cycle of `turn`s: poll, reap, tray, check, ui. The thread, its
watcher and its TUN task advance in `th`; `mail` is the channel of start signals and
`exited` the exit channel. `sys` is the system's setting and the slot `enable()` fills,
and beside them KDE's two keys with what the slot holds of them: `write_kde` sets both in any
case, `restore_kde` passes over a key that had no value in the snapshot. `note` is history: it names the sequences after which a property is excused, each of
them described at the property. `hand`, `ghosts` and `late` do the same for the book.
A node typed in by hand is listed under the address its link was normalised to, its
certificate under what was typed (share_io.rs:336): `ManualAdd` has either. The edit dialog of a
subscription that is gone closes when the page is next drawn (`StaleEditCloses`). `NodeTests` keeps
which test runs and which wait; what a test finds decides nothing and is left out.

*Android.* `call` is the call that holds `VPN_STATE` for its whole length. The read
thread is reading, blocked in `blocking_send` (`full`) or gone; dropping the stack joins
both threads before the queue's receiver goes. `TakeoverFails` is `FdTransport::new` failing:
before anything was made, with the raw copy of the descriptor left behind, or with its read
thread as well (`Leftovers`); no action but the thread's own ever closes these. `told` is the callback `on_stack_exit`.

## 3. Runs

| Run | Expect | Shows | Bounds |
|---|---|---|---|
| `udp_relay` | pass | `SidsDistinct`, `TablesAgree`, `MisdeliveryConfined` end to end, and the real node implements the abstract one (`ChannelSpec` as a property) | 3 flows (2 to one target), 1 id that is also the last one, 2 local sessions: each new flow recycles the id |
| `udp_desync` | violation | `ReaderInSync`: finding 1 | 2 flows, 2 ids |
| `client` | pass | the ports: `StreamKept`, `Answered`, `Settles`; the choice of nodes: `SteadyStaysOnline`, `FailuresOfThisOutage`, `Recovers`, `DeadLeave` | 1 connection of every kind (protocol, flaw, target, platform) beside 1 that uses pool and registry; 1 node, pool of 1 to 2, 3 attempts. 2 nodes (1 steady), 2 requests, the thresholds of the code (3, 3, 3) |
| `tcp_relay` | pass | `CompleteUnlessCut`, `AppGoneEnds`, `HalfCloseReaches` | 1 chunk per connection and direction, so that every write can block; data is unlimited |
| `fetch_udp` | pass | the downloader: `DamageConfined`, `PartSound`, `RunEnds`; the node's UDP relay with any client: `NodeTableBounded`, `ZombiesLeave` | 2 workers, 2 chunks, 2 versions, 2 runs, 1 change of content, 1 attempt in each of 2 rounds. 2 ids, 1 session, 2 generations, 1 target that is a DNS server: an id is refused, reaped and reused |
| `node` | pass | `DialsAllowed`, `RegistryOwned`, `EntryKept`, `AdmissionKept`, `NobodyHangs` | 3 connections, 2 from one address; three configurations (limit by address, a single place, protocol refused); 2 peer ids, 1 registration, queues of 1; 1 name, 2 addresses of which 1 is filtered, 1 cache entry, 1 lookup |
| `noise_page` | violation | `NoiseFailureAnswered`: finding 3 | same |
| `tun` | pass | `BytesKept`, `TargetKept`, `SlotsReturned`; `NatHolds`; `PacketsSound`; `RoutesSound`; `RulesSound` | 2 connections, 1 flow at a time, channels of 1 and 2; 2 sources, 1 NAT session, 1 noted destination; 3 IPv6 addresses for 2 slots; 2 starts; rule files of 3 lines over 8 addresses, an index from 2 rules on |
| `rules_order` | violation | `FirstRuleWins`: finding 2 | same |
| `apps` | pass | the desktop: `Restored`, `Captured`, `SessionsApart`, `SettlesDown`; `BookSound`, `BackgroundEnds`; the Android binding: `DescriptorsOwned`, `LogsSound`, `DeathReported` | 2 starts, 1 end of the process, every platform; 2 addresses, 2 names, 1 request for updates (of one or of all). 2 calls of start_vpn, queue of 2 packets; 2 messages, ring of 2 entries, 5 entries logged |
| `kde_unset` | violation | `KdeGivenBack`: finding 4 | `Desktop` as in `apps` |
| `jammed_join` | violation | `DropEnds`: finding 5, under the fairness of `Android` | 3 calls of start_vpn, queue of 1 packet; the rest as in `apps` |

Limits of 1 and 2 are what makes a limit be met with the fewest actors: one session
beside one that is refused, one slot that is evicted, one permit that two connections
race for. A third actor of a kind adds a spectator. In `udp_relay` ids run out before
the map is full; both lead to the same eviction, and the proofs cover every pair of
limits. A second attempt for a chunk differs from the same chunk in a second round only
in who makes it, which is why `fetch_udp` uses rounds and one attempt. The threshold of
`RuleEngine` is 16 in the code; at 2 an index exists for files of 3 lines. Two calls of
start_vpn are a refused, failed or stopped one before or beside another.

Deadlock is not checked (`CHECK_DEADLOCK FALSE`) where the system may stop: a relay that has
ended, a command that is not run again, connections that are over, bounds of starts and log
entries that are entries that are used up. It is checked in `udp_relay`, `udp_desync` and `kde_unset`.

`TypeOK` in `Failover`, `TcpRelay` and `Fetch`, `ChannelTypeOK` and `SignalTypeOK` are proved. Those
of `NodeServer`, `WarmPool` and `FrontEnd` (`FrontTypeOK`) document the state; they hold in
the instances above when added to the configuration.

### Fairness

Where a run holds two modules the fairness below is stated in the `MC` module, for the
part that is looked at.

- `fetch_udp`: tasks and disk go on. A read of hydra-fetch has no timeout of its own;
  that it ends is assumed of the tunnel, whose node ends an idle relay. For the UDP relay
  weak fairness for the main loop and for a client that reads; strong fairness for taking
  a dead-session notice and for writing a close frame, because `select!` picks at random
  among ready branches and tokio's Mutex is served in turn.
- `client`: weak fairness per connection for parsing and connecting, each of whose waits
  has a timeout. The prober's loop and its probes (each bounded by a timeout) go on;
  nothing is assumed of requests.
- `tcp_relay`: every task that can run does; the idle time passes when nothing
  moves. Nothing is assumed of application and target, they may stop reading.
- `node`: weak fairness per connection for its own steps, timeouts among them; nothing
  is assumed of peers, nor that a service (relay, UDP, idle signalling) ends.
- `tun`: the loop wakes every 10 ms and a flow's time passes. Nothing is assumed of
  tasks, node or application.
- `apps`: the frame is repainted at least every 500 ms, the proxy thread's timed waits
  end, a fetch or a test ends (10 s) or its thread dies. On Android a call that has begun
  goes on, the runtime polls its task, the threads look at the stop flag every 100 ms.
  Packets, failures and calls need not come. `jammed_join` assumes the same.

## 4. What the code does otherwise than it says

Shown by a run:

1. **The client's frame reader loses its place** (`udp_desync`) when `select!` drops
   `read_udp_frame` after the header. The node's side was changed for that reason.
2. **Address rules are not taken in the order of the file** (`rules_order`) once there
   are sixteen: `merge_cidr4` and `merge_cidr6` cut overlapping ranges in the order of
   their starts, although the comment on them promises the order of the file. The header of
   routing_rules.rs (15-18) declares the smaller start a known trade-off, with the order of
   the file among equal starts; there the code takes the shorter range first. Fewer rules are
   scanned in order.
3. **A failed Noise handshake does not get the page** (`noise_page`): tcp_server.rs:12-15 and
   373-375 and the header of fallback.rs promise it for every failure to authenticate after
   TLS; the code closes without a word, and says why at that place (450-459).
4. **KDE keys that were never set are not given back** (`kde_unset`): `write_kde` sets them in any
   case, `restore_kde` skips what had no value, so that KDE points to the listener that is gone.
   linux_proxy.rs:97 says that such keys are neither written nor restored.
5. **The drop of the Android transport may never end** (`jammed_join`): it joins a read thread
   that waits in `blocking_send` for room in a queue whose receiver it still holds.
   lib.rs:1017-1019 gives the join one period of 100 ms.

Met while modelling; the models contain these behaviours, and the properties are stated
so that they hold beside them. Where a property excuses an event, that event is the hazard
itself, and what the property adds is that nothing else does the damage:

- `DamageConfined` names the four ways a download is damaged. A state file that
  outlives its `.part` file (`orphan`) makes the next run replace a good output by zeros and
  report success (download.rs:299); a last write is lost (`lost`: a kill, a full disk, the exit
  of the process itself), which `PartSound` excuses too; a server goes back to an earlier validator after a run has
  overwritten chunks and died before its first save; a server gives one validator to
  contents of two lengths: a state file that is refused for its length is neither removed
  nor replaced before its chunks are overwritten (download.rs:316-368), and a later run
  that meets the old length believes it. The last one was found by the proof: without it
  the invariant is not inductive. A server that ignores Range fails the download although
  a fallback to a single stream is announced (download.rs:456).
- `MisdeliveryConfined`: a late reply on a recycled id reaches another flow with the same
  target (udp_relay.rs:300), although ids are said to be reused without cross talk. It speaks
  of a reader that is in step with the stream; one that is not (finding 1) may take
  anything for a frame.
- `NodeTableBounded`: only the main loop inserts, and it does one datagram at a time, so the
  second look at `is_full` after the bind (udp_relay.rs:691) is a precaution: the table
  cannot have filled up meanwhile.
- The cache of the node stores answers before the filter has seen them, although the header of
  dns_cache.rs (12) has it the other way round. `DialsAllowed` shows that the filter is asked
  again for every connection, whoever filled the cache.
- A blocked write of a pump is bounded, the `shutdown()` of the same stream after it is
  not, and the other pump is told only afterwards (tcp_server.rs:719).
- `online_failures` is not cleared by a successful recovery probe: a node can be degraded
  one failed probe after a success (speedtest.rs:308).
- `StreamKept` excludes the head of CONNECT: bytes that came with it are dropped.
- `BytesKept` (`cut`): the end of an answer is lost when the reader task ends between the
  two passes of `step()` (tun.rs:3497). `TargetKept` (`again`): a RST in the handshake puts
  the socket back to Listen; what remains is the reuse of handles. At the end of the stack
  NAT pumps are not aborted (tun.rs:3078), and a NAT pump that ends on a failed send leaves
  its session in the table.
- `RoutesSound` speaks of a start's own routes: after a kill the exempting routes stay,
  the next start finds them and fails, although README.md:56 says it cleans up.
- `Captured` (`early`, `switched`): a TUN failure taken before the ready signal starts no
  system proxy, nor does a TUN box that is switched while the proxy starts. `Restored`
  excuses `enable()` called twice, which loses the user's own settings (`twice`). They are lost
  too, and `Restored` then promises no more than "no proxy", when a process ends with the
  settings on us (`lost`): by a kill, or by the tray's exit(0), which comes 300 ms after the
  tray's own clean-up and may follow an `enable()` of the UI thread (tray.rs:144-150).
- `BookSound` (`ghosts`, `late`): deleting a node leaves a subscription's claim on it
  behind; saving the edit of a deleted node leaves its certificate in the book although
  config.rs:249 warns of that. Update results are matched by name. A certificate given with a
  node typed by hand is filed under the address as typed: with a port like 0443 the
  list has 443 and the certificate is never found (share_io.rs:336).
- `DescriptorsOwned` and `DeathReported` (`Jammed`) excuse the drop of finding 5. `failed`:
  `FdTransport::new` leaves the raw copy of the descriptor, or that and a running read thread,
  when a thread cannot be started (lib.rs:973, 998), although start_vpn closes the
  descriptor on every other error. A writer that fails on
  its descriptor leaves the stack running without an exit to report.

## 5. Proofs

Every theorem holds for all values of the constants under the named assumptions of
the module that declares them (a finite non-empty set of nodes, positive limits and
capacities, a target for each flow, names distinct from addresses, lists of routes that are
lists, finitely many sessions and sockets, a value for "no flow" that is not a flow, one for
"no link" that is not a node, requests of the protocols there are, a built-in address table that is sorted and
without overlaps as its generator leaves it, host names that are not empty). The
bounds of the runs, such as `MaxStarts`, `MaxVpnStarts` or `MaxRuns`, are constants too: what is proved holds
for behaviours of any length. Sets of actors need not be finite unless an assumption says
so; `NodeServerProofs` counts over infinite sets of connections and addresses.

- **`UdpRelayProofs`** - three layers. *The client with an arbitrary node*: `ChannelInv` =
  types, ids in use are below `nextSid` or it has reached the end, ids distinct, tables
  agree, answers under way were asked for with their flow's target (`AnswersWereAsked`), an
  id that was handed out once has one flow (`OneFlowPerFreshId`). The last two carry
  `MisdeliveryConfined`, which is not inductive: it speaks of the frame at the head of the
  queue only. Theorems `SessionIdsDistinct`, `FlowTablesAgree`, `MisdeliveryIsConfined`,
  `ChannelTypeCorrect`. *The node with an arbitrary client*: `NodeTableStaysBounded`: every
  way into the table asks `is_full` first; `OccupiedLess` and
  `OccupiedMore` count ids in a table. *Both on one stream*: `RelayImplementsChannel`, the
  refinement the run `udp_relay` checks as `ChannelSpec`. Its invariant `RelayInv` adds
  `HeldWasAsked`: whatever the node has on its stream, in its main loop or in a session
  task was asked for on this stream. Without it an answer of a task that outlived a
  reconnect could be one the abstract node may not give. `RelayIsSafe` draws the
  client's promises through the refinement.
- **`FailoverProofs`** - `Inv` = types, a steady node is Online, its probes
  succeed and no request is about to mark it (`SteadyUnharmed`), a node seen out of
  service stays out until the result is applied (`OutUntilApplied`), and
  `ResetAtThreshold`. Theorems: `SteadyNodesStayOnline`, `FailuresBelongToOutage`,
  `CountResetAtThreshold`, `TypeCorrect`.
- **`TcpProofs`** - *The relay*: as long as nothing was cut, what is owed in a direction is
  exactly what sits in its three connections and two tasks, and each stage has ended
  only if the stage before it has ended and is empty (`UpChain`, `DownChain`);
  sockets are dropped only when both directions are done (`NothingFailed`). Once cut,
  nothing is owed any more. Hence `HalfCloseIsComplete` (`CompleteUnlessCut`): whoever
  sees an end of stream has everything. `TypeCorrect` bounds what is under way. *The front
  end*: `FrontInv` speaks of each connection alone, and an action of one connection leaves
  the others as they are (`OneConnection`, `StaysSound`). `Stream` says, for each stage of
  detection and parsing, that what was read and not used together with what was not read
  is the request without the tokens that stage has used (`Used`); a CONNECT goes on only
  with its head complete or nothing more to come, so what it drops with its buffer
  (`HeadLeftOut`) is never needed later. `Told`: no final answer before the relay, no node
  tried before the request is known, a link from the stage on that claims one. Neither
  property is inductive: they look at the relay or at the end, the invariant at the way
  there. The reads cut the stream anywhere, which the lemmas on sequences carry
  (`RestOfRest`, `UsedFromBuffer`, `UsedFromBoth`, `ReadMoves`). Theorems `StreamsStayWhole`
  (`StreamKept`), `RequestsAreAnswered` (`Answered`).
- **`FetchProofs`** - `FetchInv` = types, `WorkersInv` (each chunk of a round is done, in the
  queue or with one worker), `RunInv` (what a run knows of the server was served, in
  every phase), `BodiesFit` (a body under way has the run's validator) and, unless
  something excused has happened, `RecordInv`. The heart of that one is `Overtaken`: a state
  file is either of this run, and then records no more than is done, or its validator is
  no longer the server's, so that no later run believes it. `DoneWritten`, `TailWhole` and
  `OutWhole` carry "written, or a write under way" from memory to file to output, because
  no step waits for the disk. Theorems `ResumingDamagesNothing` (`DamageConfined`),
  `RecordsAreTrue` (`PartSound`), `TypeCorrect`. The proof led to the fourth exception
  of section 4 and to a precondition of `RecordedIsWritten`: a state without a validator is
  never believed, so nothing is claimed of it.
- **`NodeServerProofs`** - `PlacesInv`: free permits and the connections that hold one add up to
  the places, the count of an address is the number of its connections between accept
  and close, and a single connection at a time is between the two. From this
  `NodeImplementsAdmission`, the refinement the run `node` checks as `AdmissionKept`: a
  semaphore and a map of counts decide as `Admission` does by looking at the connections.
  `DialsInv` follows a target from the request to its connection: candidates exist only for a
  peer that showed the key, each has passed the filter (`MayDial`), and what is connected is one
  of them, whatever the cache holds; hence `DialsAreAllowed` (`DialsAllowed`). `SessionsInv`
  relates the registry to the tasks (`SessionsServed`): an entry is removed late, by comparing
  channels, and `EntriesAreOwned` (`RegistryOwned`) holds all the same. `OnlyOwnEntry` turns that
  round: what goes and is not too old is the entry of the queue that was named, hence
  `RegistrationsAreKept` (`EntryKept`).
- **`DesktopProofs`** - `ControlInv` for the session. `ThreadHeld`: the exit channel is held
  until the thread is gone, and then nothing of it is left, hence `SessionsNeverOverlap`
  (`SessionsApart`). `MailTells`: the failure of a start comes before any ready signal, so a
  ready signal that counts means a bound listener (`RunningIsBound`), which is what makes
  `enable()` take effect. `SettingsKept`: the settings are the user's, or ours with the
  user's in the slot, and KDE's keys go along with them if they were set (`KdeFollows`; of
  keys that were not it says nothing, see finding 4); hence `SettingsAreRestored` (`Restored`). `TunTold`: of a TUN that is not
  there a report is under way; hence `RunningCaptures` (`Captured`). The last two are not
  inductive alone: each needs to know where the thread is and what the batch of signals
  holds. For the list of nodes `BookSound` needs only types beside it (`BookInv`); the
  proof is in the operations (`MergedSound`, `GroupedSound`, `DroppedSound`,
  `RenamedSound`, ...), each for one book, and `TracksSound` shows that the histories keep
  all that still excuses something. Theorem `BookStaysSound`.
- **`AndroidProofs`** - `PlaneInv`: a stack that is gone has joined its threads and any other
  belongs to the handle, to the call in progress, or to a drop that jams, and its raw copy of
  the descriptor is closed when the drop begins; nothing of the kind is said of a take-over that
  failed. The degraded flag outlives only a start without a runtime. Theorem `DescriptorsHaveOwners`
  (`DescriptorsOwned`). `RingInv`: numbers rise along the ring, the cursor stays below the next
  number; theorem `CursorSkipsNothing` (`CursorSound`, one half of `LogsSound`). `CountInv`:
  the last message's entry, while the ring holds it, counts what `last_count` remembers,
  since a fold writes that back; theorem `FoldsLoseNothing` (`LogsSound`). The counts of the
  ring are added up by a recursive function, whose laws are proved from its equation
  (`TotalFacts`) by induction along the ring (`Reaches`).
- **`TunProofs`** - the kinds of traffic share nothing, so each has an invariant of its own.
  *Packets*: an outcome is the one `Outcome` gives, so `PacketsAreHandled` looks at each
  branch once; the pool lists the mounted addresses once each, and evicting one that is not
  in use is a rotation (`Evicts`). *Routes*: `PlanDone` says how far the plan has been
  carried out, `OwnListed` that the routes a start has put in are among those its list
  still has to remove; hence `RoutesAreUndone` (`RoutesSound`, the nodes exempted and
  nothing left). *Datagrams*: the sources in the table are those in order of use
  (`TableSeen`), a pump that can take a reply belongs to one of them (`PumpsHeld`), and the
  datagram on its way is noted with its session (`OutNoted`), which is what `RepliesSolicited`
  needs of the next send; `ListsKept` holds of the pumps that run_stack leaves behind as
  well. Hence `DatagramsReturn` (`NatHolds`). The table in order of use and the order in
  which routes are taken off are filtered lists; `Sublists` writes the filter as a recursive
  function, and its properties are proved (`OnlyFacts`) by induction along the list
  (`Induct`, from `WFMin`: a set of numbers that is not empty has a least element).
  *Connections*: `FlowsInv` looks at a slot as a socket and its flow. `Shape` says what either
  tells of the other: no channel before the handshake, no task and no byte before the
  link, a socket the stack has closed has a reader that ended; `Placed` adds that a
  connection has one socket. `Counted` says where each byte is: sent ones in the socket, the
  channel, the hands of the writer or written, those of the answer in the channel,
  `pending` or the socket, and once the socket is closed in `cut`, which is where the reader
  that ends between the passes shows. It holds of connections whose stream goes on;
  `Histories` keeps the others: nothing has happened before the SYN is taken, nothing more
  after the application was told the end. None of the four is inductive alone: that
  `close()` always finds a socket that may send, so that nothing is lost unnoticed, needs
  that a reader that ended had a link, and a link a handshake. Each pass of `step()`
  is proved for one slot (`PumpedSlot`, `PollShape`, `PollCounted`), the tasks by `FlowStep`, the
  applications by `ArrivesKeeps` and `TakesKeeps`. Theorems `ConnectionsKeepTarget`
  (`TargetKept`) and `StreamsKeepBytes` (`BytesKept`).
  *Rules*: `RulesInv` = types (a parsed range is not empty) and an index that is the merge of
  the rules read. The work is in the merge, for files of any length. `SortedFacts`:
  inserting one rule after the other gives a list in the order of merge_cidr4's sort with the
  same rules. `MergedTo` is what holds after each rule of that list: the segments are apart,
  hold the addresses of the rules so far and no others, each with the action of a rule it is
  in; and between the start of the latest rule and the end of the last segment there is no
  gap, without which a later rule could not be cut off at that end or left out. One lemma for
  each thing AddSegment may do: `SegmentAdded`, `SegmentWidened`, `RuleLeftOut`. A binary
  search over such a list finds the segment an address is in (`LookupFacts`, `GeoFacts`), the
  scan the first rule (`FirstFacts`), and the search of suffixes label by label is `IsSuffix`
  up to empty labels (`SuffixFacts`). The recursive functions of the model satisfy their
  equations by `Recursion`. Theorem `RulesDecideSoundly` (`RulesSound`).

Model-checked only, and why:

- liveness (`ZombiesLeave`, `Recovers`, `DeadLeave`, `AppGoneEnds`, `HalfCloseReaches`,
  `RunEnds`, `NobodyHangs`, `Settles`, `SlotsReturned`, `SettlesDown`, `BackgroundEnds`,
  `DeathReported`): needs fairness and ENABLED, out of the prover's reach;
- `FrontTypeOK` says a little more than the proofs of `FrontEnd` use (the pool, the
  registry); it documents the state there, as in `NodeServer` and `WarmPool`.

## 6. Plan

Every component with protocol state of its own has a model, and every safety property
of the passing runs a theorem. What TLC alone checks is liveness, and the five claims of
comments that the code does not keep.

## 7. Not modelled

Cryptography and byte layouts (headers of HTTP, share links, subscription documents,
frames), scores (floating point), logging, metrics, certificates and their reload,
layout of the user interfaces, NAT probing (one exchange after the other with STUN
servers), the command line. The Kotlin service is the environment of the binding: its
calls come in any order. The listening ports that the TUN stack adds for new
destination ports (at most 256, never removed) are not modelled; a listener is there
for every connection. Power failures are not modelled in `Fetch` (there is no fsync
anywhere); a crash there is the death of the process. No model has a clock: a time limit
is a step that may be taken once its wait has begun, so sums of limits, such as
RESPONSE_TIMEOUT of the client (20 s) against the node's worst case (23 s), are not
compared.
